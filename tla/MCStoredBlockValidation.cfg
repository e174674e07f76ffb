CONSTANTS
    T0 = T0
    T1 = T1
    T5 = T5
    P = P
    H0 = H0
    ZeroHash = ZeroHash
    CoinbaseIndex = CoinbaseIndex
    NoBlock = NoBlock
    Blocks <- MCBlocks
    CountValues = {2, 3, 4}
    MaxRecordTxs = 4
    MIN_TX_SIZE = 100
    MAX_BLOCK_SIZE = 492
    BLOCK_HEADER_SIZE = 92
    Pool = {}
    MaxTxs = 4
    Timestamps = {105}
    BitsValues = {1}
    Now = 100
    MAX_FUTURE_BLOCK_TIME = 10
    CheckProofOfWork <- MCCheckProofOfWork
SPECIFICATION ComposedSpec
INVARIANT ValidDecodedIsStored
