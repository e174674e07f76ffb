---------------------------- MODULE MerkleEngine ----------------------------
(***************************************************************************)
(* compute_merkle_root (src/core/block.c) driving the tree of             *)
(* src/core/merkle.c: leaves are allocated, levels are collapsed until    *)
(* one node is left, the root hash is copied out and the tree is freed    *)
(* by free_merkle_node.  The heap is the sequence of allocated nodes; a   *)
(* pointer is an index into it and NULL is 0.                            *)
(***************************************************************************)
EXTENDS MerkleTree, Bags

CONSTANTS
    Leaves,        \* the txid lists compute_merkle_root is given
    MaxTreeNodes   \* bound on the heap; the code's levels stay below it

VARIABLES
    hashes,       \* the txids passed to construct_merkle_tree_from_leaves
    heap,         \* heap[a] = [hash, left, right] of the node at address a
    nodes,        \* the working array nodes[0 .. num_of_nodes - 1]
    root,         \* tree->root
    merkle_root,  \* the hash compute_merkle_root copies out
    freed,        \* bag of addresses passed to free() by free_merkle_tree
    pc

vars == <<hashes, heap, nodes, root, merkle_root, freed, pc>>

NULL == 0
NoHash == <<>>

Init == /\ hashes \in Leaves
        /\ heap = <<>>
        /\ nodes = <<>>
        /\ root = NULL
        /\ merkle_root = NoHash
        /\ freed = EmptyBag
        /\ pc = "leaves"

\* Mutant: leaves malloc'd without clearing left and right.
ConstructMerkleLeavesUninitialised ==
    /\ pc = "leaves"
    /\ heap' = [i \in 1..Len(hashes) |->
                 [hash |-> hashes[i], left |-> Len(hashes) + 1, right |-> Len(hashes) + 1]]
    /\ nodes' = [i \in 1..Len(hashes) |-> i]
    /\ pc' = "collapse"
    /\ UNCHANGED <<hashes, root, merkle_root, freed>>

\* construct_merkle_leaves_from_hashes: one leaf node per hash, children NULL.
ConstructMerkleLeavesFromHashes ==
    /\ pc = "leaves"
    /\ heap' = [i \in 1..Len(hashes) |-> [hash |-> hashes[i], left |-> NULL, right |-> NULL]]
    /\ nodes' = [i \in 1..Len(hashes) |-> i]
    /\ pc' = "collapse"
    /\ UNCHANGED <<hashes, root, merkle_root, freed>>

\* Mutant: construct_merkle_node concatenating right before left.
CollapseMerkleNodesSwapped ==
    /\ pc = "collapse"
    /\ Len(nodes) > 1
    /\ LET P == LevelPairs(Len(nodes))
           new == [k \in DOMAIN P |->
                     [hash  |-> Sha256dPair(heap[nodes[P[k][2]]].hash, heap[nodes[P[k][1]]].hash),
                      left  |-> nodes[P[k][1]],
                      right |-> nodes[P[k][2]]]]
       IN  /\ heap' = heap \o new
           /\ nodes' = [k \in DOMAIN P |-> Len(heap) + k]
    /\ UNCHANGED <<hashes, root, merkle_root, freed, pc>>

\* One iteration of the while loop: collapse_merkle_nodes allocates, via
\* construct_merkle_node, a parent for every pair of the level (the last
\* node of an odd level is both children of its parent) and replaces the
\* level by the parents.
CollapseMerkleNodes ==
    /\ pc = "collapse"
    /\ Len(nodes) > 1
    /\ Len(heap) + Len(LevelPairs(Len(nodes))) <= MaxTreeNodes
    /\ LET P == LevelPairs(Len(nodes))
           new == [k \in DOMAIN P |->
                     [hash  |-> Sha256dPair(heap[nodes[P[k][1]]].hash, heap[nodes[P[k][2]]].hash),
                      left  |-> nodes[P[k][1]],
                      right |-> nodes[P[k][2]]]]
       IN  /\ heap' = heap \o new
           /\ nodes' = [k \in DOMAIN P |-> Len(heap) + k]
    /\ UNCHANGED <<hashes, root, merkle_root, freed, pc>>

\* The loop exits with one node: tree->root = nodes[0].
FinishMerkleTree ==
    /\ pc = "collapse"
    /\ Len(nodes) = 1
    /\ root' = nodes[1]
    /\ pc' = "built"
    /\ UNCHANGED <<hashes, heap, nodes, merkle_root, freed>>

\* Mutant: free_merkle_node without the test for a self-paired child.
RECURSIVE FreedByNoAliasCheck(_, _)
FreedByNoAliasCheck(h, a) ==
    LET n == h[a]
        l == IF n.left # NULL THEN FreedByNoAliasCheck(h, n.left) ELSE EmptyBag
        r == IF n.right # NULL THEN FreedByNoAliasCheck(h, n.right) ELSE EmptyBag
    IN  l (+) r (+) SetToBag({a})

\* The addresses free_merkle_node(a) passes to free(): a node whose left
\* and right child are the same node frees that child once, any other node
\* frees each non-NULL child; the node itself is freed last.
RECURSIVE FreedBy(_, _)
FreedBy(h, a) ==
    LET n == h[a]
        children ==
          IF n.left # NULL /\ n.left = n.right
          THEN FreedBy(h, n.left)
          ELSE (IF n.left # NULL THEN FreedBy(h, n.left) ELSE EmptyBag)
               (+) (IF n.right # NULL THEN FreedBy(h, n.right) ELSE EmptyBag)
    IN  children (+) SetToBag({a})

\* compute_merkle_root after the tree is built: memcpy of the root hash,
\* then free_merkle_tree.
ReleaseMerkleTree ==
    /\ pc = "built"
    /\ merkle_root' = heap[root].hash
    /\ freed' = FreedBy(heap, root)
    /\ pc' = "done"
    /\ UNCHANGED <<hashes, heap, nodes, root>>

Next == \/ ConstructMerkleLeavesFromHashes
        \/ CollapseMerkleNodes
        \/ FinishMerkleTree
        \/ ReleaseMerkleTree

Spec == Init /\ [][Next]_vars

\* compute_merkle_root is one sequential call that blocks on nothing: once
\* a step of it is enabled, the calling thread takes one.
FairSpec == Spec /\ WF_vars(Next)

-----------------------------------------------------------------------------
Addr == 0..Len(heap)

TypeOK ==
    /\ \A a \in DOMAIN heap : /\ DOMAIN heap[a] = {"hash", "left", "right"}
                             /\ heap[a].left \in Addr /\ heap[a].right \in Addr
    /\ \A i \in DOMAIN nodes : nodes[i] \in DOMAIN heap
    /\ root \in Addr
    /\ pc \in {"leaves", "collapse", "built", "done"}
    /\ DOMAIN freed \subseteq DOMAIN heap

\* free_merkle_tree releases every node compute_merkle_root allocated, and
\* none twice, although the last node of every odd level is referenced by
\* both child pointers of its parent.
EveryNodeFreedOnce ==
    pc = "done" => \A a \in DOMAIN heap : CopiesIn(a, freed) = 1

\* compute_merkle_root returns: the while loop of
\* construct_merkle_tree_from_leaves shrinks num_of_nodes until one node
\* is left, and the tree is then freed (merkle.c:60-63).
ComputeMerkleRootReturns == <>(pc = "done")

\* compute_merkle_root implements MerkleRoot: the hash it copies out is the
\* root spec.md defines top-down, and it is produced once.
Abstract == INSTANCE MerkleRoot
              WITH leaves <- hashes,
                   result <- IF pc = "done" THEN merkle_root ELSE NoHash
MerkleRootSpec == Abstract!Spec

=============================================================================
