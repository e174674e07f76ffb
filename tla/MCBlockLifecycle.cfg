CONSTANTS
    b1 = b1
    b2 = b2
    t1 = t1
    t2 = t2
    t3 = t3
    NULL = NULL
    Wild = Wild
    Blocks = {b1, b2}
    TxAddrs = {t1, t2, t3}
    MaxTxs = 3
SPECIFICATION SafeSpec
INVARIANT TypeOK
INVARIANT NoMemoryFault
INVARIANT NoLeak
