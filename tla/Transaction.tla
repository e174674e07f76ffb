---------------------------- MODULE Transaction ----------------------------
(***************************************************************************)
(* The transaction predicates src/core/block.c calls.  Their bodies are   *)
(* in transaction.c, which is not among the sources here: they are taken  *)
(* from spec.md section 4.3 and the declarations of src/transaction.h.    *)
(* A transaction is a record:                                             *)
(*   id        the stored tx->id                                          *)
(*   cid       what compute_tx_id returns (sha256d of the sign preimage) *)
(*   txins     the (transaction, txout_index) headers of its inputs      *)
(*   txouts_ok txout_count >= 1, every amount > 0, no u64 overflow       *)
(*   sigs_ok   every input signature verifies over the sign preimage     *)
(*   size      get_tx_header_size(tx)                                     *)
(***************************************************************************)
EXTENDS Naturals, Sequences

CONSTANTS
    ZeroHash,        \* zero_tx_hash
    CoinbaseIndex    \* the txout_index 0xFFFFFFFF of a coinbase input

\* A txin header: previous tx hash and referenced txout index.
TxIn(prev, index) == [transaction |-> prev, txout_index |-> index]

CoinbaseTxIn == TxIn(ZeroHash, CoinbaseIndex)

\* is_coinbase_tx: a single input carrying the coinbase sentinel.
IsCoinbaseTx(tx) == Len(tx.txins) = 1 /\ tx.txins[1] = CoinbaseTxIn

\* Two inputs of tx reference the same previous output.
HasDuplicateTxIns(tx) ==
    \E k, l \in DOMAIN tx.txins : k # l /\ tx.txins[k] = tx.txins[l]

\* Mutant: valid_transaction without rule (6), the duplicate-input check.
ValidTransactionNoDupCheck(tx) ==
    /\ Len(tx.txins) >= 1
    /\ tx.txouts_ok
    /\ tx.cid = tx.id
    /\ IsCoinbaseTx(tx) \/ tx.sigs_ok

\* valid_transaction, rules (1)-(6) of spec.md 4.3.
ValidTransaction(tx) ==
    /\ Len(tx.txins) >= 1
    /\ tx.txouts_ok
    /\ tx.cid = tx.id
    /\ IsCoinbaseTx(tx) \/ (tx.sigs_ok /\ ~HasDuplicateTxIns(tx))

=============================================================================
