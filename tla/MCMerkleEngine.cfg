\* compute_merkle_root returns after the tree is freed: the final state is
\* the end of the call, not a deadlock.
CONSTANTS
    a = a
    b = b
    c = c
    Leaves <- MCLeaves
    MaxTreeNodes <- MCMaxTreeNodes
SPECIFICATION FairSpec
INVARIANT TypeOK
INVARIANT EveryNodeFreedOnce
PROPERTY MerkleRootSpec
PROPERTY ComputeMerkleRootReturns
CHECK_DEADLOCK FALSE
