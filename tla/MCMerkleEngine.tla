--------------------------- MODULE MCMerkleEngine ---------------------------
EXTENDS MerkleEngine

CONSTANTS a, b, c          \* txids, model values

MaxLeaves == 6             \* six leaves give odd levels at two heights (6, 3)

\* n leaves take n + ceil(n/2) + ... + 1 < 2n + log2(n) nodes.
MCMaxTreeNodes == 3 * MaxLeaves

MCLeaves == UNION {[1..n -> {a, b, c}] : n \in 1..MaxLeaves}

=============================================================================
