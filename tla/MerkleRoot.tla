----------------------------- MODULE MerkleRoot -----------------------------
(***************************************************************************)
(* What compute_merkle_root (src/core/block.c) promises its caller: for a *)
(* non-empty list of txids it yields, once, the Merkle root of spec.md    *)
(* section 4.4.  The engine of MerkleEngine is checked to implement this. *)
(***************************************************************************)
EXTENDS MerkleTree

CONSTANT Leaves            \* the txid lists the caller may pass

VARIABLES leaves, result

NoHash == <<>>

Init == /\ leaves \in Leaves
        /\ result = NoHash

Compute == /\ result = NoHash
           /\ result' = ReferenceMerkleRoot(leaves)
           /\ UNCHANGED leaves

Spec == Init /\ [][Compute]_<<leaves, result>>

=============================================================================
