----------------------- MODULE MCStoredBlockValidation -----------------------
EXTENDS StoredBlockValidation

CONSTANTS T0, T1, T5, P, H0   \* txids, a spent transaction, a previous hash

\* The coinbase and two spends of distinct outputs, as in MCBlock.
cb == [id |-> T0, cid |-> T0, txins |-> <<Validator!CoinbaseTxIn>>,
       txouts_ok |-> TRUE, sigs_ok |-> TRUE, size |-> 100]
s1 == [id |-> T1, cid |-> T1, txins |-> <<Validator!TxIn(P, 0)>>,
       txouts_ok |-> TRUE, sigs_ok |-> TRUE, size |-> 100]
s4 == [id |-> T5, cid |-> T5, txins |-> <<Validator!TxIn(P, 2)>>,
       txouts_ok |-> TRUE, sigs_ok |-> TRUE, size |-> 100]

\* A valid block of txs as a miner writes it: merkle root and hash
\* computed over its transactions.
ValidStored(txs) ==
    LET root == Validator!ComputeMerkleRoot([i \in DOMAIN txs |-> txs[i].cid])
        hdr  == [version |-> 1, previous_hash |-> H0, timestamp |-> 105,
                 nonce |-> 6, bits |-> 1, cumulative_emission |-> 0,
                 merkle_root |-> root, transaction_count |-> Len(txs)]
    IN  [f \in HeaderFields \cup {"transactions"} |->
           CASE f = "transactions" -> txs
             [] f = "hash"         -> Validator!HeaderHash(hdr)
             [] OTHER              -> hdr[f]]

\* Three transactions: an odd level under the root.
MCBlocks == {ValidStored(<<cb, s1, s4>>)}

MCCheckProofOfWork(h, bits) == bits = 1

=============================================================================
