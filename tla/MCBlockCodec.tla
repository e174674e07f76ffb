---------------------------- MODULE MCBlockCodec ----------------------------
EXTENDS BlockCodec

CONSTANTS H0, H1, H2, X1, X2   \* hashes and transactions, model values

\* A header whose fields all hold distinct values (and a version no
\* transaction_count takes), so that reading any two fields in swapped
\* order changes the block; it carries 0, 1 or 2 transactions.
Header(n) == [version |-> 4, previous_hash |-> H0, hash |-> H1,
              timestamp |-> 5, nonce |-> 6, bits |-> 7,
              cumulative_emission |-> 8, merkle_root |-> H2,
              transaction_count |-> n]

MCBlocks == { [f \in HeaderFields \cup {"transactions"} |->
                 IF f = "transactions" THEN txs ELSE Header(Len(txs))[f]]
              : txs \in {<<>>, <<X1>>, <<X1, X2>>} }

=============================================================================
