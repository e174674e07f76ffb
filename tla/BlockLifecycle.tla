--------------------------- MODULE BlockLifecycle ---------------------------
(***************************************************************************)
(* Ownership of transaction objects by block objects in src/core/block.c. *)
(* A block is [alloc, count, hasArr, arr]: whether the block_t is live,   *)
(* transaction_count, whether block->transactions is non-NULL, and the    *)
(* pointers in that array.  A slot holds a transaction address, NULL, or  *)
(* Wild (bytes malloc left uninitialised that are not NULL).  The first   *)
(* memory fault or failed assert ends the process: fault records it and   *)
(* nothing happens afterwards.  ndebug is the build: with NDEBUG the      *)
(* asserts are compiled out.                                              *)
(***************************************************************************)
EXTENDS Naturals, Sequences, SequencesExt

CONSTANTS
    Blocks,      \* block_t objects the caller uses
    TxAddrs,     \* addresses the allocator can hand out for transactions
    MaxTxs,      \* bound on transaction_count
    NULL,
    Wild

VARIABLES blk, txs, held, fault, ndebug, lastCopy

vars == <<blk, txs, held, fault, ndebug, lastCopy>>

Faults == {"none", "assert", "null_deref", "wild_free", "double_free", "oob_read", "oob_write"}

NoArray == [alloc |-> TRUE, count |-> 0, hasArr |-> FALSE, arr |-> <<>>]

Running == fault = "none"

\* The pointer read from transactions[i]; reading past the array is a fault.
SlotAt(b, i) == IF i <= Len(b.arr) THEN b.arr[i] ELSE Wild

\* free_transaction(p) after assert(tx != NULL): the fault it causes, if any.
FreeFault(st, p) ==
    CASE p = NULL            -> IF ndebug THEN "null_deref" ELSE "assert"
      [] p = Wild            -> "wild_free"
      [] st[p] = "freed"     -> "double_free"
      [] OTHER               -> "none"

\* The loop of free_block_transactions over slots i..n of b, stopping at
\* the first fault: [st |-> transaction states after, f |-> fault].
RECURSIVE FreeSlots(_, _, _, _)
FreeSlots(st, b, i, n) ==
    IF i > n THEN [st |-> st, f |-> "none"]
    ELSE LET p == SlotAt(b, i)
             f == IF i > Len(b.arr) THEN "oob_read" ELSE FreeFault(st, p)
         IN  IF f # "none" THEN [st |-> st, f |-> f]
             ELSE FreeSlots([st EXCEPT ![p] = "freed"], b, i + 1, n)

\* Mutant: free_block_transactions without resetting count and array.
FreeBlockTransactionsNoReset(b, st) ==
    IF b.count > 0 /\ b.hasArr
    THEN LET r == FreeSlots(st, b, 1, b.count)
         IN  [blk |-> b, st |-> r.st, f |-> r.f]
    ELSE [blk |-> b, st |-> st, f |-> "none"]

\* free_block_transactions on block value b: the block after, the
\* transaction states after, and the fault.
FreeBlockTransactions(b, st) ==
    IF b.count > 0 /\ b.hasArr
    THEN LET r == FreeSlots(st, b, 1, b.count)
         IN  [blk |-> [b EXCEPT !.count = 0, !.hasArr = FALSE, !.arr = <<>>],
              st |-> r.st, f |-> r.f]
    ELSE [blk |-> b, st |-> st, f |-> "none"]

\* Mutant: the array reallocated before the count is incremented.
ReallocShort(b, n) == [i \in 1..(n - 1) |-> IF i <= Len(b.arr) THEN b.arr[i] ELSE Wild]

\* realloc of the array to n slots: kept prefix, then uninitialised bytes.
Realloc(b, n) == [i \in 1..n |-> IF i <= Len(b.arr) THEN b.arr[i] ELSE Wild]

\* add_transaction_to_block(bv, t, idx) on block value bv: count++,
\* assert(idx == count - 1), realloc to count slots, transactions[idx] = t.
\* Under NDEBUG a wrong idx writes another slot: past the array, or over
\* an earlier transaction, leaving the new last slot uninitialised.
AddAt(bv, t, idx) ==
    LET n == bv.count + 1
    IN  CASE idx # n - 1 /\ ~ndebug -> [blk |-> bv, f |-> "assert"]
          [] idx + 1 > n            -> [blk |-> bv, f |-> "oob_write"]
          [] OTHER -> [blk |-> [bv EXCEPT !.count = n, !.hasArr = TRUE,
                                          !.arr = [Realloc(bv, n) EXCEPT ![idx + 1] = t]],
                       f |-> "none"]

\* Mutant: the loop of add_transactions_to_block passing i, not i + 1.
RECURSIVE AddEachFromZero(_, _, _)
AddEachFromZero(bv, ts, i) ==
    IF i > Len(ts) THEN [blk |-> bv, f |-> "none"]
    ELSE LET r == AddAt(bv, ts[i], i - 1)
         IN  IF r.f # "none" THEN r ELSE AddEachFromZero(r.blk, ts, i + 1)

\* The loop of add_transactions_to_block from the i-th transaction on
\* (1-based, so the code's i + 1 is i here), stopping at the first fault.
RECURSIVE AddEach(_, _, _)
AddEach(bv, ts, i) ==
    IF i > Len(ts) THEN [blk |-> bv, f |-> "none"]
    ELSE LET r == AddAt(bv, ts[i], i)
         IN  IF r.f # "none" THEN r ELSE AddEach(r.blk, ts, i + 1)

-----------------------------------------------------------------------------
Init == /\ blk = [b \in Blocks |-> [NoArray EXCEPT !.alloc = FALSE]]
        /\ txs = [t \in TxAddrs |-> "unallocated"]
        /\ held = {}
        /\ fault = "none"
        /\ ndebug \in BOOLEAN
        /\ lastCopy = "none"

\* make_block.
MakeBlock(b) ==
    /\ Running /\ ~blk[b].alloc
    /\ blk' = [blk EXCEPT ![b] = NoArray]
    /\ UNCHANGED <<txs, held, fault, ndebug, lastCopy>>

\* The caller building a transaction it will hand to a block.
NewTransaction(t) ==
    /\ Running /\ txs[t] = "unallocated"
    /\ txs' = [txs EXCEPT ![t] = "live"]
    /\ held' = held \cup {t}
    /\ UNCHANGED <<blk, fault, ndebug, lastCopy>>

\* add_transaction_to_block(b, t, count): count++, realloc, store.  The
\* caller adds to a block whose array matches its count.
AddTransactionToBlock(b, t) ==
    /\ Running /\ blk[b].alloc /\ t \in held
    /\ blk[b].count < MaxTxs
    /\ blk[b].count = 0 \/ blk[b].hasArr
    /\ LET n == blk[b].count + 1
       IN  blk' = [blk EXCEPT ![b].count = n, ![b].hasArr = TRUE,
                              ![b].arr = [Realloc(blk[b], n) EXCEPT ![n] = t]]
    /\ held' = held \ {t}
    /\ UNCHANGED <<txs, fault, ndebug, lastCopy>>

\* add_transactions_to_block(b, ts, Len(ts)).  Its indexes skip the
\* generation transaction, so the caller (miner, mempool) calls it on a
\* block holding exactly that one.
AddTransactionsToBlock(b, ts) ==
    /\ Running /\ blk[b].alloc /\ blk[b].hasArr /\ blk[b].count = 1
    /\ blk[b].count + Len(ts) <= MaxTxs
    /\ \A i \in DOMAIN ts : ts[i] \in held
    /\ LET r == AddEach(blk[b], ts, 1)
       IN  /\ blk' = [blk EXCEPT ![b] = r.blk]
           /\ fault' = r.f
    /\ held' = held \ Range(ts)
    /\ UNCHANGED <<txs, ndebug, lastCopy>>

\* block_from_serialized: a new block with the header fields and the
\* transaction_count read from the buffer, and transactions NULL.
DeserializeBlock(b, n) ==
    /\ Running /\ ~blk[b].alloc
    /\ blk' = [blk EXCEPT ![b] = [NoArray EXCEPT !.count = n]]
    /\ UNCHANGED <<txs, held, fault, ndebug, lastCopy>>

\* deserialize_transactions_to_block: malloc count slots, then decode one
\* transaction per slot; k transactions decode, and k < count means the
\* (k+1)-th failed and the call returned 1 with the rest of the array as
\* malloc left it (g: NULL or Wild).
DeserializeTransactionsToBlock(b, k, g) ==
    /\ Running /\ blk[b].alloc /\ ~blk[b].hasArr /\ blk[b].count > 0
    /\ \E f \in [1..k -> {t \in TxAddrs : txs[t] = "unallocated"}] :
         /\ \A i, j \in 1..k : i # j => f[i] # f[j]
         /\ blk' = [blk EXCEPT ![b].hasArr = TRUE,
                      ![b].arr = [i \in 1..blk[b].count |-> IF i <= k THEN f[i] ELSE g]]
         /\ txs' = [t \in TxAddrs |-> IF \E i \in 1..k : f[i] = t THEN "live" ELSE txs[t]]
    /\ UNCHANGED <<held, fault, ndebug, lastCopy>>

\* free_block_transactions(b).
FreeBlockTransactionsOf(b) ==
    /\ Running /\ blk[b].alloc
    /\ LET r == FreeBlockTransactions(blk[b], txs)
       IN  /\ blk' = [blk EXCEPT ![b] = r.blk]
           /\ txs' = r.st
           /\ fault' = r.f
    /\ UNCHANGED <<held, ndebug, lastCopy>>

\* Mutant: free_block releasing the block_t without its transactions.
FreeBlockNoTransactions(b) ==
    /\ Running /\ blk[b].alloc
    /\ blk' = [blk EXCEPT ![b].alloc = FALSE]
    /\ UNCHANGED <<txs, held, fault, ndebug, lastCopy>>

\* free_block(b): free_block_transactions, then free the block_t.
FreeBlock(b) ==
    /\ Running /\ blk[b].alloc
    /\ LET r == FreeBlockTransactions(blk[b], txs)
       IN  /\ blk' = [blk EXCEPT ![b] = [r.blk EXCEPT !.alloc = FALSE]]
           /\ txs' = r.st
           /\ fault' = r.f
    /\ UNCHANGED <<held, ndebug, lastCopy>>

\* compare_block(s, d) after copy_block copied the header fields: "equal",
\* "differ" (return 0), or the fault of reading the transaction arrays.
\* Only the first pair of transactions can be reached, since every slot
\* copy_block writes is NULL.
CompareBlock(s, d) ==
    CASE s.count # d.count                -> "differ"
      [] s.count = 0                      -> "equal"
      [] ~s.hasArr \/ ~d.hasArr           -> "null_deref"
      [] d.arr[1] = NULL                  -> IF ndebug THEN "null_deref" ELSE "assert"
      [] OTHER                            -> "equal"

\* copy_block(src, dst): copy the header fields and transaction_count,
\* then copy_block_transactions: free_block_transactions(dst) under the new
\* count, and for each transaction copy_transaction(tx, other_tx), which
\* cannot write other_tx (spec.md 9), so assert(other_tx != NULL) fails or,
\* under NDEBUG, count is incremented and a NULL stored; finally
\* compare_block decides the result.
CopyBlock(src, dst) ==
    /\ Running /\ src # dst /\ blk[src].alloc /\ blk[dst].alloc
    /\ blk[src].count = 0 \/ blk[src].hasArr
    /\ LET s  == blk[src]
           r  == FreeBlockTransactions([blk[dst] EXCEPT !.count = s.count], txs)
           d1 == r.blk
           copying == s.count > 0
           d2 == [d1 EXCEPT !.count = d1.count + s.count, !.hasArr = TRUE,
                            !.arr = [i \in 1..s.count |-> NULL]]
           d  == IF copying THEN d2 ELSE d1
           c  == CompareBlock(s, d)
           f  == CASE r.f # "none"         -> r.f
                   [] copying /\ ~ndebug   -> "assert"
                   [] c \in Faults         -> c
                   [] OTHER                -> "none"
       IN  /\ blk' = [blk EXCEPT ![dst] = IF copying /\ ~ndebug THEN d1 ELSE d]
           /\ txs' = r.st
           /\ fault' = f
           /\ lastCopy' = CASE f # "none"  -> "fault"
                             [] c = "equal" -> "ok"
                             [] OTHER       -> "failed"
    /\ UNCHANGED <<held, ndebug>>

-----------------------------------------------------------------------------
\* The calls whose paths keep every object accounted for.
SafeNext ==
    \/ \E b \in Blocks : MakeBlock(b)
    \/ \E t \in TxAddrs : NewTransaction(t)
    \/ \E b \in Blocks, t \in TxAddrs : AddTransactionToBlock(b, t)
    \/ \E b \in Blocks, ts \in BoundedSeq(TxAddrs, 2) :
         ts # <<>> /\ IsInjective(ts) /\ AddTransactionsToBlock(b, ts)
    \/ \E b \in Blocks, n \in 0..MaxTxs : DeserializeBlock(b, n)
    \/ \E b \in Blocks : DeserializeTransactionsToBlock(b, blk[b].count, NULL)
    \/ \E b \in Blocks : FreeBlockTransactionsOf(b)
    \/ \E b \in Blocks : FreeBlock(b)

\* deserialize_transactions_to_block failing part way.
FailedDecode ==
    \E b \in Blocks, k \in 0..MaxTxs, g \in {NULL, Wild} :
        k < blk[b].count /\ DeserializeTransactionsToBlock(b, k, g)

SafeSpec == Init /\ [][SafeNext]_vars
DecodeFailureSpec == Init /\ [][SafeNext \/ FailedDecode]_vars
CopySpec == Init /\ [][SafeNext \/ \E src, dst \in Blocks : CopyBlock(src, dst)]_vars

-----------------------------------------------------------------------------
\* The representation of block_t: a non-NULL array holds count pointers.
TypeOK ==
    /\ \A b \in Blocks :
         /\ blk[b].count \in Nat
         /\ blk[b].arr \in Seq(TxAddrs \cup {NULL, Wild})
         /\ blk[b].hasArr => Len(blk[b].arr) = blk[b].count
    /\ txs \in [TxAddrs -> {"unallocated", "live", "freed"}]
    /\ held \subseteq TxAddrs
    /\ fault \in Faults
    /\ lastCopy \in {"none", "ok", "failed", "fault"}

\* No call frees a transaction twice, frees or dereferences a pointer that
\* was never set, reads past an array, or fails an assert.
NoMemoryFault == fault = "none"

\* Transactions a live block can reach through its array.
Owned == UNION {{blk[b].arr[i] : i \in 1..Len(blk[b].arr)} :
                  b \in {c \in Blocks : blk[c].alloc /\ blk[c].hasArr}}

\* Every live transaction is still reachable: held by the caller or in
\* the array of a live block.  free_block and the copy paths must not drop
\* a transaction without freeing it.
NoLeak == \A t \in TxAddrs : txs[t] = "live" => t \in held \cup Owned

\* copy_block returns 0, having made a block compare_block finds equal,
\* without a fault (spec.md 5: copies are deep).
CopyBlockSucceeds == lastCopy \in {"none", "ok"}

=============================================================================
