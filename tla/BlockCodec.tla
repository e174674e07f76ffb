----------------------------- MODULE BlockCodec -----------------------------
(***************************************************************************)
(* The block codec of src/core/block.c and the record a block is stored   *)
(* as (spec.md 6): serialize_block followed by                             *)
(* serialize_transactions_from_block.  A record is a sequence of tokens,  *)
(* one per field the buffer functions write: the nine header fields in    *)
(* the writer's order, then one token per serialized transaction.  A read *)
(* of a field fails when the buffer holds fewer bytes than the field, so  *)
(* a record cut inside a field reads like one cut before it, and the cut  *)
(* is taken at token boundaries.  The store can be damaged after it was   *)
(* written: cut short, or a count or transaction overwritten.  Readers are *)
(* block_from_serialized (header only) and deserialize_block followed by  *)
(* deserialize_transactions_to_block on the same iterator; a reader can  *)
(* then compare_block the result with the block that was stored.         *)
(***************************************************************************)
EXTENDS Naturals, Sequences, Functions

CONSTANTS
    Blocks,          \* blocks a writer stores (transaction_count = Len(transactions))
    CountValues,     \* transaction_count values a damaged record can carry
    MIN_TX_SIZE,     \* fewest bytes a serialized transaction takes
    MAX_BLOCK_SIZE,
    NoBlock

VARIABLES
    stored,          \* the record in storage
    original,        \* the block the record was written from
    intact,          \* no damage since it was written
    loaded,          \* the last read: reader, result, block, and what was stored
    slots,           \* transaction slots the last read malloc'd
    verdict          \* compare_block(loaded block, original) after the read

vars == <<stored, original, intact, loaded, slots, verdict>>

HeaderFields == {"version", "previous_hash", "hash", "timestamp", "nonce",
                 "bits", "cumulative_emission", "merkle_root", "transaction_count"}

\* serialize_block: the order the fields are written in.
WriteOrder == <<"version", "previous_hash", "hash", "timestamp", "nonce",
                "bits", "cumulative_emission", "merkle_root", "transaction_count">>

\* Mutant: deserialize_block reading nonce before timestamp.
ReadOrderSwapped == <<"version", "previous_hash", "hash", "nonce", "timestamp",
                      "bits", "cumulative_emission", "merkle_root", "transaction_count">>

\* deserialize_block: the order the fields are read in.
ReadOrder == <<"version", "previous_hash", "hash", "timestamp", "nonce",
               "bits", "cumulative_emission", "merkle_root", "transaction_count">>

\* Mutant: make_block leaving the malloc'd transactions pointer as it was,
\* pointing at an array of garbage (<<9>>).
EmptyBlockUninitialised == [f \in HeaderFields \cup {"transactions"} |->
                              IF f = "transactions" THEN <<9>> ELSE 0]

\* make_block: every field zero, transactions NULL (<<>>).
EmptyBlock == [f \in HeaderFields \cup {"transactions"} |->
                 IF f = "transactions" THEN <<>> ELSE 0]

SerializeBlock(b) == [i \in 1..Len(WriteOrder) |-> b[WriteOrder[i]]]

\* serialize_transaction of transactions[0 .. transaction_count - 1].
SerializeTransactionsFromBlock(b) ==
    [i \in 1..b.transaction_count |-> b.transactions[i]]

\* The record of b: the block fields, then its transactions.
Record(b) == SerializeBlock(b) \o SerializeTransactionsFromBlock(b)

\* deserialize_block on record s: make_block, then one read per field in
\* ReadOrder; the first read past the end goes to deserialize_fail, which
\* frees the block and returns 1.  pos is where the iterator stands.
DeserializeBlock(s) ==
    IF Len(s) < Len(ReadOrder)
    THEN [ok |-> FALSE, block |-> NoBlock, pos |-> 0]
    ELSE [ok |-> TRUE, pos |-> Len(ReadOrder),
          block |-> [f \in DOMAIN EmptyBlock |->
                       IF f = "transactions" THEN EmptyBlock.transactions
                       ELSE s[CHOOSE i \in 1..Len(ReadOrder) : ReadOrder[i] = f]]]

\* deserialize_transactions_to_block: with transaction_count > 0, malloc
\* count slots, then deserialize_transaction into each in turn; the first
\* that fails returns 1 with the slots read so far (the rest is modelled
\* in BlockLifecycle).
DeserializeTransactionsToBlock(s, pos, b) ==
    LET n == b.transaction_count
        k == IF Len(s) - pos < n THEN Len(s) - pos ELSE n
    IN  [ok |-> k = n, slots |-> n,
         block |-> [b EXCEPT !.transactions = SubSeq(s, pos + 1, pos + k)]]

\* Mutant: compare_block returning 1 once the first pair of transactions
\* compares equal.
CompareBlockFirstOnly(a, b) ==
    CASE \E f \in HeaderFields : a[f] # b[f]                -> "differ"
      [] a.transaction_count = 0                            -> "equal"
      [] a.transactions = <<>> \/ b.transactions = <<>>      -> "null_deref"
      [] a.transactions[1] # b.transactions[1]              -> "differ"
      [] OTHER                                              -> "equal"

\* compare_block: the nine header fields must agree, then every pair of
\* transactions under compare_transaction (equality of the decoded
\* values); a NULL array under a positive count is dereferenced.
CompareBlock(a, b) ==
    CASE \E f \in HeaderFields : a[f] # b[f]                -> "differ"
      [] a.transaction_count > 0 /\
         (a.transactions = <<>> \/ b.transactions = <<>>)    -> "null_deref"
      [] \E i \in 1..a.transaction_count :
           a.transactions[i] # b.transactions[i]            -> "differ"
      [] OTHER                                              -> "equal"

\* The transactions the writers' blocks hold.
TxValues == UNION {Range(b.transactions) : b \in Blocks}

NoLoad == [via |-> "none", ok |-> FALSE, block |-> NoBlock,
           of |-> NoBlock, intact |-> FALSE]

-----------------------------------------------------------------------------
Init == /\ stored = <<>>
        /\ original = NoBlock
        /\ intact = FALSE
        /\ loaded = NoLoad
        /\ slots = 0
        /\ verdict = "none"

\* The writer of spec.md 6: serialize_block, then
\* serialize_transactions_from_block into the same buffer.
StoreBlock(b) ==
    /\ stored' = Record(b)
    /\ original' = b
    /\ intact' = TRUE
    /\ UNCHANGED <<loaded, slots, verdict>>

\* A short read or torn write: only the first k tokens remain.
TruncateRecord(k) ==
    /\ k < Len(stored)
    /\ stored' = SubSeq(stored, 1, k)
    /\ intact' = FALSE
    /\ UNCHANGED <<original, loaded, slots, verdict>>

\* A record whose transaction_count field carries another value.
CorruptCount(c) ==
    /\ Len(stored) >= Len(WriteOrder)
    /\ stored[Len(WriteOrder)] # c
    /\ stored' = [stored EXCEPT ![Len(WriteOrder)] = c]
    /\ intact' = FALSE
    /\ UNCHANGED <<original, loaded, slots, verdict>>

\* A record whose i-th transaction decodes as another transaction x.
CorruptTransaction(i, x) ==
    /\ Len(WriteOrder) < i /\ i <= Len(stored)
    /\ stored[i] # x
    /\ stored' = [stored EXCEPT ![i] = x]
    /\ intact' = FALSE
    /\ UNCHANGED <<original, loaded, slots, verdict>>

\* block_from_serialized: deserialize_block on a buffer over the record;
\* NULL on failure, and the transactions are not read.
BlockFromSerialized ==
    /\ original # NoBlock
    /\ LET h == DeserializeBlock(stored)
       IN  loaded' = [via |-> "header", ok |-> h.ok, block |-> h.block,
                      of |-> original, intact |-> intact]
    /\ slots' = 0
    /\ verdict' = "none"
    /\ UNCHANGED <<stored, original, intact>>

\* deserialize_block, then deserialize_transactions_to_block on the same
\* iterator when the header decoded.
ReadBlockRecord ==
    /\ original # NoBlock
    /\ LET h == DeserializeBlock(stored)
           t == DeserializeTransactionsToBlock(stored, h.pos, h.block)
       IN  /\ loaded' = [via |-> "record", ok |-> h.ok /\ t.ok,
                         block |-> IF h.ok THEN t.block ELSE NoBlock,
                         of |-> original, intact |-> intact]
           /\ slots' = IF h.ok THEN t.slots ELSE 0
    /\ verdict' = "none"
    /\ UNCHANGED <<stored, original, intact>>

\* compare_block(decoded, original) after a read that returned a block.
CompareWithOriginal ==
    /\ loaded.ok /\ verdict = "none"
    /\ verdict' = CompareBlock(loaded.block, loaded.of)
    /\ UNCHANGED <<stored, original, intact, loaded, slots>>

Next ==
    \/ \E b \in Blocks : StoreBlock(b)
    \/ \E k \in 0..(Len(stored) - 1) : TruncateRecord(k)
    \/ \E c \in CountValues : CorruptCount(c)
    \/ \E i \in DOMAIN stored, x \in TxValues : CorruptTransaction(i, x)
    \/ BlockFromSerialized
    \/ ReadBlockRecord
    \/ CompareWithOriginal

Spec == Init /\ [][Next]_vars

-----------------------------------------------------------------------------
\* Everything a record of Blocks can hold, damaged or not.
Tokens == UNION {Range(Record(b)) : b \in Blocks} \cup CountValues

TypeOK ==
    /\ original \in Blocks \cup {NoBlock}
    /\ stored \in Seq(Tokens)
    /\ loaded.via \in {"none", "header", "record"}
    /\ loaded.ok => /\ DOMAIN loaded.block = HeaderFields \cup {"transactions"}
                    /\ loaded.block.transactions \in Seq(Tokens)
    /\ verdict \in {"none", "equal", "differ", "null_deref"}

\* Codec round trip (spec.md 8): reading back an undamaged record with
\* deserialize_block and deserialize_transactions_to_block yields the
\* stored block field by field, transactions included.
RecordRoundTrip ==
    loaded.via = "record" /\ loaded.ok /\ loaded.intact => loaded.block = loaded.of

\* The round trip spec.md 8 states for block_from_serialized of
\* block_to_serialized, transactions included.
HeaderRoundTrip ==
    loaded.via = "header" /\ loaded.ok /\ loaded.intact => loaded.block = loaded.of

\* Decoding rejects a transaction_count that multiplies out beyond
\* MAX_BLOCK_SIZE (spec.md 4.2), and so never mallocs slots for one.
DecodeBoundsCount ==
    /\ slots * MIN_TX_SIZE <= MAX_BLOCK_SIZE
    /\ loaded.ok => loaded.block.transaction_count * MIN_TX_SIZE <= MAX_BLOCK_SIZE

\* compare_block, the check copy_block and compare_with_genesis_block rely
\* on, reports equal exactly when the decoded block is the stored one.
CompareBlockIsEquality ==
    verdict \in {"equal", "differ"} => ((verdict = "equal") = (loaded.block = loaded.of))

=============================================================================
