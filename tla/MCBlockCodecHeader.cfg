CONSTANTS
    H0 = H0
    H1 = H1
    H2 = H2
    X1 = X1
    X2 = X2
    NoBlock = NoBlock
    Blocks <- MCBlocks
    CountValues = {0, 1, 2, 3}
    MIN_TX_SIZE = 100
    MAX_BLOCK_SIZE = 392
SPECIFICATION Spec
INVARIANT HeaderRoundTrip
