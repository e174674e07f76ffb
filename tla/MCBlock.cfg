CONSTANTS
    T0 = T0
    T1 = T1
    T2 = T2
    T3 = T3
    T4 = T4
    T5 = T5
    P = P
    ZeroHash = ZeroHash
    CoinbaseIndex = CoinbaseIndex
    NoBlock = NoBlock
    Pool <- MCPool
    MaxTxs = 3
    Timestamps <- MCTimestamps
    BitsValues = {1, 2}
    Now = 100
    MAX_FUTURE_BLOCK_TIME = 10
    BLOCK_HEADER_SIZE = 92
    MAX_BLOCK_SIZE <- MCMaxBlockSize
    CheckProofOfWork <- MCCheckProofOfWork
SPECIFICATION Spec
INVARIANT TypeOK
INVARIANT NoDoubleSpend
INVARIANT CoinbaseOnlyFirst
INVARIANT AcceptedTxsFoundByHash
PROPERTY HashBindsTransactions
