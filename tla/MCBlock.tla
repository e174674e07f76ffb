------------------------------- MODULE MCBlock -------------------------------
EXTENDS Block

CONSTANTS T0, T1, T2, T3, T4, T5,   \* txids, model values
          P                     \* a previous transaction being spent

\* A coinbase, two spends of the same output (each valid alone), a spend
\* naming one output twice, an unrelated spend, and a valid spend too
\* large for a block.
cb  == [id |-> T0, cid |-> T0, txins |-> <<CoinbaseTxIn>>,
        txouts_ok |-> TRUE, sigs_ok |-> TRUE, size |-> 100]
s1  == [id |-> T1, cid |-> T1, txins |-> <<TxIn(P, 0)>>,
        txouts_ok |-> TRUE, sigs_ok |-> TRUE, size |-> 100]
s2  == [id |-> T2, cid |-> T2, txins |-> <<TxIn(P, 0)>>,
        txouts_ok |-> TRUE, sigs_ok |-> TRUE, size |-> 100]
s3  == [id |-> T3, cid |-> T3, txins |-> <<TxIn(P, 1), TxIn(P, 1)>>,
        txouts_ok |-> TRUE, sigs_ok |-> TRUE, size |-> 100]
s4  == [id |-> T5, cid |-> T5, txins |-> <<TxIn(P, 2)>>,
        txouts_ok |-> TRUE, sigs_ok |-> TRUE, size |-> 100]
big == [id |-> T4, cid |-> T4, txins |-> <<TxIn(T0, 0)>>,
        txouts_ok |-> TRUE, sigs_ok |-> TRUE, size |-> 1000]

MCPool == {cb, s1, s2, s3, s4, big}

\* A block of up to three 100-byte transactions fits; big does not.
MCMaxBlockSize == 92 + 3 * 100

\* The boundary timestamp and one second past it.
MCTimestamps == {110, 111}

\* Target 1 is met by every header hash, target 2 by none.
MCCheckProofOfWork(h, bits) == bits = 1

=============================================================================
