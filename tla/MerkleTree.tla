----------------------------- MODULE MerkleTree -----------------------------
(***************************************************************************)
(* The Merkle engine of src/core/merkle.c as pure operators over the      *)
(* hashes of one level.  A hash is a term: a leaf hash is a txid (a model *)
(* value) and an internal hash is Sha256dPair(l, r).  Terms are equal     *)
(* only when built the same way, which is the collision resistance of     *)
(* SHA-256d that the consensus rules rely on.                             *)
(***************************************************************************)
EXTENDS Naturals, Sequences

\* crypto_hash_sha256d over left->hash || right->hash (construct_merkle_node).
Sha256dPair(left, right) == <<"sha256d", left, right>>

\* Mutant: the test for an odd level inverted (num_of_nodes % 2 == 0), so
\* an even level also gets its last node paired with itself.
LevelPairsOddTestInverted(n) ==
    [k \in 1..(n \div 2 + (IF n % 2 = 0 THEN 1 ELSE 0)) |->
       IF k <= n \div 2 THEN <<2 * k - 1, 2 * k>> ELSE <<n, n>>]

\* The positions collapse_merkle_nodes combines at a level of n nodes: the
\* pairs (i, i+1) of the loop, then, for odd n, the last node with itself.
LevelPairs(n) ==
    [k \in 1..((n + 1) \div 2) |-> IF 2 * k <= n THEN <<2 * k - 1, 2 * k>>
                                                  ELSE <<n, n>>]

\* The hashes of the level collapse_merkle_nodes builds from level hs.
CollapseLevel(hs) ==
    LET P == LevelPairs(Len(hs))
    IN  [k \in DOMAIN P |-> Sha256dPair(hs[P[k][1]], hs[P[k][2]])]

\* What construct_merkle_tree_from_leaves returns for no leaves: NULL.
NullTree == <<"NULL">>

\* construct_merkle_tree_from_leaves: NULL for no hashes, else collapse
\* while more than one node is left; the root hash is the hash of the
\* last node.
RECURSIVE ComputeMerkleRoot(_)
ComputeMerkleRoot(hs) ==
    CASE Len(hs) = 0 -> NullTree
      [] Len(hs) = 1 -> hs[1]
      [] OTHER       -> ComputeMerkleRoot(CollapseLevel(hs))

(***************************************************************************)
(* Reference definition, written top-down from spec.md section 4.4 rather *)
(* than level by level: the node at height h and position p hashes its   *)
(* two children at height h-1, and a node without a right sibling is     *)
(* paired with itself.                                                    *)
(***************************************************************************)
RECURSIVE TwoPow(_)
TwoPow(h) == IF h = 0 THEN 1 ELSE 2 * TwoPow(h - 1)

\* Number of nodes at height h over n leaves: ceil(n / 2^h).
WidthAt(n, h) == (n + TwoPow(h) - 1) \div TwoPow(h)

\* Height of the root over n >= 1 leaves.
TreeHeight(n) == CHOOSE h \in 0..n : WidthAt(n, h) = 1
                                     /\ \A g \in 0..n : WidthAt(n, g) = 1 => h <= g

RECURSIVE NodeHash(_, _, _)
NodeHash(ids, h, p) ==
    IF h = 0 THEN ids[p]
    ELSE LET l == NodeHash(ids, h - 1, 2 * p - 1)
             r == IF 2 * p <= WidthAt(Len(ids), h - 1)
                  THEN NodeHash(ids, h - 1, 2 * p) ELSE l
         IN  Sha256dPair(l, r)

ReferenceMerkleRoot(ids) == NodeHash(ids, TreeHeight(Len(ids)), 1)

=============================================================================
