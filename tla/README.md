# TLA+ models of the vulkan-core consensus core

This directory holds TLA+ models of the block and Merkle code of vulkan-core
(`src/src/core/block.c`, `src/src/core/merkle.c`, `src/src/transaction.h`). It
also holds the TLC configurations that check them. Every definition that
models code is listed, with its source lines, under `map` in `PROJECT.json`.

## 1. Inventory of the system

The sources are a sequential C library. Nothing in them runs concurrently:
there are no threads, callbacks or messages, and spec.md section 5 calls the
core a pure, thread-compatible library. The behaviour that is hard to test is
in other places:

* the many orders in which a caller can fill, hash, refill and validate a
  block object;
* the ownership of heap objects (Merkle nodes, transaction arrays), including
  the error paths;
* the boundary values of a few counters and sizes.

| Component | Source | State it keeps | Operations that change state |
|---|---|---|---|
| Merkle engine | merkle.c, `compute_merkle_root` in block.c | a heap of `merkle_node_t` (hash, left, right); the working array `nodes` and `num_of_nodes` | `construct_merkle_leaves_from_hashes`, `collapse_merkle_nodes` / `construct_merkle_node`, `construct_merkle_tree_from_leaves`, `free_merkle_tree` / `free_merkle_node` |
| Block object | block.c | a `block_t`: version, previous_hash, hash, timestamp, nonce, bits, cumulative_emission, merkle_root, transaction_count, transactions[] | `make_block`, `add_transaction_to_block`, `add_transactions_to_block`, `compute_merkle_root` and `compute_block_hash` written into the block, `compare_with_genesis_block` (it overwrites `block->hash`) |
| Block validator | block.c | none: a predicate over a block | `valid_block`, `valid_block_timestamp`, `valid_block_hash`, `valid_merkle_root`, `get_block_header_size` |
| Transaction model | transaction.h (declarations only) | `transaction_t`: id, txin_count, txout_count, txins, txouts | `valid_transaction`, `is_coinbase_tx`, `compute_tx_id` (bodies not among the sources: modelled from spec.md 4.3) |
| Block lifecycle and ownership | block.c | which transaction objects a block owns, which are freed | `deserialize_block`, `deserialize_transactions_to_block`, `copy_block`, `copy_block_transactions`, `free_block_transactions`, `free_block` |
| Codec | block.c | a buffer and an iterator position | `serialize_block_header`, `serialize_block`, `deserialize_block`, `block_to_serialized`, `block_from_serialized`, `serialize_transactions_from_block` |
| Proof of work | pow.c (not among the sources) | none | `check_proof_of_work` |
| Wallet, tests, printing | wallet.h, tests/unittests/main.c, `print_block*` | files and the terminal | I/O only |

How the components interact. `valid_block` calls the following, in this order:

1. `valid_block_timestamp`;
2. `is_coinbase_tx` and `valid_transaction`, for each transaction;
3. its own pairwise loops over transactions and inputs;
4. `get_block_header_size`;
5. `valid_block_hash`, which calls `compute_block_hash` and then
   `serialize_block_header` and `check_proof_of_work`;
6. `valid_merkle_root`, which calls `compute_merkle_root` and so builds and
   frees a Merkle tree.

A block is linked to its transactions only through the header hash over the
merkle_root field. So whether a block hash means one transaction list depends
on three things together: the Merkle engine, the duplicate checks of
`valid_block`, and `valid_transaction`.

What makes each component correct:

* **Merkle engine.** The root equals the root of spec.md 4.4 (odd nodes
  paired with themselves at every height). Every node is freed exactly once,
  although the self-paired node is both children of its parent.
* **Validator.** An accepted block has exactly one coinbase, at position 0. No
  output is spent twice within it. Its hash is bound to its transaction list,
  even when the object was changed after it was hashed.
* **Lifecycle.** No transaction object is freed twice, leaked, or read
  uninitialised, on the success paths and the error paths. `copy_block` yields
  a block that `compare_block` finds equal.
* **Codec.** Decoding inverts encoding. Decoding rejects truncated input and
  oversized counts.

The hazards these properties are for are listed, each at its source line, in
`PROJECT.json` under `hazards`.

## 2. Modules, runs and what they show

### MerkleTree (pure operators)
* `Sha256dPair` is `construct_merkle_node`'s hash. It is a term, so two
  hashes are equal only if they were built the same way. This is the
  collision resistance that consensus relies on.
* `LevelPairs` and `CollapseLevel` are one call of `collapse_merkle_nodes`.
* `ComputeMerkleRoot` is the loop of `construct_merkle_tree_from_leaves`.
* `ReferenceMerkleRoot` is written independently, top-down by height and
  position from spec.md 4.4.

### MerkleEngine, MerkleRoot (run `merkle_engine`)
`MerkleEngine` is `compute_merkle_root` as a state machine over a heap:

* the heap is a sequence of node records, a pointer is an index, and NULL
  is 0;
* the actions are, in order: allocate the leaves, collapse one level per
  step, take the root, then copy out the root hash and free the tree;
* `FreedBy` is the recursion of `free_merkle_node`. It returns the bag of
  addresses passed to `free()`.

`MerkleRoot` is the abstract promise: the result appears once, and it is the
reference root. The run checks:

* `EveryNodeFreedOnce`: there is no double free and no leak.
* `MerkleRootSpec`: the engine refines `MerkleRoot` through `INSTANCE ...
  WITH`, where `result` maps to the copied-out hash once the call is done.
* `ComputeMerkleRootReturns` (liveness, under `FairSpec`): the call reaches
  the end. The `while (num_of_nodes > 1)` loop ends only because
  `collapse_merkle_nodes` strictly shrinks the level. The heap is capped by
  the constant `MaxTreeNodes` (3 × 6). The code's levels never reach it, since
  n leaves take fewer than 2n + log2(n) nodes. A collapse that did not shrink
  the level would hit the cap and stop, and the property would fail. The
  mutant that inverts the odd-level test shows this: a level of two nodes
  stays at two.

Bounds: every list of 1 to 6 txids over 3 values, 1092 inputs in all. Lists of
5 and 6 leaves have odd levels at two heights. Lists of 3, 5 and 6 leaves
contain repeated txids, and repeated txids are the case where a shared hash
could hide a shared node.

The system stops when `compute_merkle_root` returns, so the cfg turns off
deadlock checking.

### Transaction
Transaction is modelled from spec.md 4.3, because `transaction.c` is not among
the sources. A transaction is a record. Its fields are the stored `id` and
the `cid` that `compute_tx_id` would return, the input headers, and flags for
the output rules and the signature rules. The module defines
`IsCoinbaseTx` and `ValidTransaction`. `sigs_ok` stands for the signature
rule that spec.md 4.3 puts inside `valid_transaction`.

### Block (run `block_validator`)
The state has two parts:

* one `block_t`, abstracted to timestamp, bits, hash, merkle_root and the
  transaction list. Version, nonce, previous hash and emission are not varied.
* `accepted`, the last block for which `valid_block` returned 1.

A producer can take these steps in any order: `make_block`, write the header
fields, `add_transaction_to_block`, `add_transactions_to_block`,
`compute_merkle_root` into the block, `compute_block_hash`,
`compare_with_genesis_block` (which rewrites `block->hash` with the
recomputed hash), and `valid_block`. So the merkle_root and hash fields can
be stale, or silently repaired, when the block is validated.

`ValidBlock` is `valid_block` and returns its int. Its early returns are a
conjunction that is evaluated left to right, in the code's order, and that
returns 0 on the first failure. `valid_merkle_root` comes last and
`ValidMerkleRoot` decides the result. For a block with no transactions,
`compute_merkle_root` gets a NULL tree (`NullTree`), and
`assert(tree != NULL)` ends the process. The model marks that outcome
`Abort`. The order matters for correctness, not only for cost, as spec.md
4.6 says: the count check is what keeps an empty block away from the read of
`transactions[0]` and away from that assert. `valid_block` is the only
caller of `compute_merkle_root` among the sources, so no run reaches the
abort; the model keeps the order so that a change to it would.

`GetTxByHashFromBlock` is `get_tx_by_hash_from_block`. It is `SelectInSeq`
over the stored ids, and 0 stands for NULL.

The run checks:

* `NoDoubleSpend`: no two inputs of an accepted block name the same output.
  This needs both the cross-transaction loop of `valid_block` and the
  within-transaction rule of `valid_transaction`.
* `AcceptedTxsFoundByHash`: for every transaction of an accepted block,
  `get_tx_by_hash_from_block` of its id returns that transaction. The lookup
  stops at the first match, so it relies on `valid_block` refusing two
  transactions with one id.
* `CoinbaseOnlyFirst`: transaction 1 is a coinbase, and no other transaction
  spends the coinbase sentinel.
* `HashBindsTransactions` (action property): a block accepted with the same
  hash as the previously accepted block has the same transaction list.
  `accepted` keeps only the last acceptance, because a set of all of them
  would make the state space exponential. The block object can be refilled
  between two acceptances, and that is where a stale hash or root would show.

Bounds: a pool of 6 transactions and at most 3 transactions per block. The
pool holds:

* a coinbase;
* two valid spends of the same output;
* a spend that names one output twice;
* an unrelated spend;
* a spend too large for a block.

Timestamps are the boundary second and the second after it. There are two
targets: one that every hash meets and one that no hash meets. These are the
smallest bounds under which every check of `valid_block` decides some
verdict, and a three-transaction block can be accepted.

Redundancy of the checks, found while mutating the model. The following
checks can each be dropped alone without breaking any property:

* the coinbase-at-position-greater-than-0 check;
* the duplicate-txid check;

The reason is that a second coinbase, or a duplicated transaction, always
repeats an input, and the duplicate-input loop then refuses it. So the
mutants remove the checks that carry the properties: the coinbase check of
transaction 0, `valid_merkle_root`, and rule (6) of `valid_transaction`.

### BlockLifecycle (runs `block_lifecycle`, `decode_failure_free`, `copy_block_fails`, `copy_block_leak`)

This module models which transaction objects each block owns. Its state:

* `blk[b]` is one `block_t`. Its fields are `alloc`, `count`
  (transaction_count), `hasArr` (true when `transactions` is not NULL) and
  `arr` (the pointers). A slot holds a transaction address, NULL, or `Wild`.
  `Wild` stands for uninitialised bytes that are not NULL.
* `txs[t]` is the state of each transaction object: unallocated, live or
  freed.
* `held` is the set of transactions the caller built and has not yet handed
  to a block.
* `fault` records the first memory fault or failed assert. That fault ends
  the process.
* `ndebug` is the build, chosen in the initial state, so every run covers
  both builds.

Actions and the code they stand for:

* `MakeBlock` is `make_block`.
* `AddTransactionToBlock` is `add_transaction_to_block`, which does the
  increment, the `realloc` and the store.
* `AddTransactionsToBlock` is `add_transactions_to_block`. Its loop is
  `AddEach`, and each step is `AddAt`, which is `add_transaction_to_block`
  with the index the loop passes (i + 1). `AddAt` keeps the assert. Under
  NDEBUG a wrong index writes past the array, or over an earlier slot. The
  loop skips the generation transaction, so the caller uses it on a block
  that holds exactly one transaction. That contract is the action's guard.
* `DeserializeBlock` is `block_from_serialized`. It gives a count and a NULL
  array.
* `DeserializeTransactionsToBlock` is `deserialize_transactions_to_block`.
  Its parameters are the number of transactions that decode and the garbage
  left in the slots after them.
* `FreeBlockTransactionsOf` and `FreeBlock` are `free_block_transactions` and
  `free_block`. The loop of `free_block_transactions` is `FreeSlots`.
* `CopyBlock` is `copy_block` with `copy_block_transactions` and
  `compare_block`.

`copy_transaction` and `free_transaction` are in transaction.c. Their effect is
taken from spec.md section 9: the receiving pointer is never written, and
`free_transaction` dereferences what it is given.

Passing run `block_lifecycle` (`SafeSpec`). This run covers the calls whose
paths work:

* make, add one at a time or several after the generation transaction,
  decode successfully, and free;

It checks three properties:

* `TypeOK`: a non-NULL array holds `count` pointers.
* `NoMemoryFault`: no double free, no wild free, no NULL dereference, no
  out-of-bounds read, and no failed assert.
* `NoLeak`: every live transaction is held by the caller or sits in the
  array of a live block.

The caller of this run adds transactions only to a block whose array matches
its count, since a caller adding to a decoded header-only block would already
be using a broken object. Bounds: two blocks and three transaction
addresses, with at most three transactions per block (two in the violation
runs). Three per block lets `add_transactions_to_block` add two
transactions after the generation transaction. These bounds give a
block that is filled, freed, refilled and freed again, and a second block
that a copy can target.

Three violation runs show what the code does on the other paths. They are
recorded as findings in `PROJECT.json`.

* `decode_failure_free`: `deserialize_transactions_to_block` fails after k
  transactions. The block still holds the uninitialised rest of its array.
  Then `free_block` does one of three things: it fails an assert, it
  dereferences NULL (under NDEBUG), or it frees a wild pointer.
* `copy_block_fails`: the `other_tx` pointer is never written. So copying any
  block that holds a transaction aborts in a debug build. Under NDEBUG it
  returns 1, leaving a doubled count and NULL slots.
* `copy_block_leak`: `copy_block` writes the destination's count before
  freeing the destination's transactions. So copying an empty block onto a
  filled one returns 0 and leaks the destination's transactions.

### BlockCodec (runs `block_codec`, `block_from_serialized_round_trip`, `decode_oversize_count`)
A stored block is a record: the `serialize_block` output followed by each
serialized transaction (spec.md 6). The model writes a record as a sequence
of tokens, one per field. Byte layout is abstracted: a read past the end of
the buffer fails, so a record cut inside a field reads the same as one cut
before that field. Cuts are therefore taken at token boundaries.

State:

* `stored`: the record;
* `original`: the block it was written from;
* `intact`: whether the record is undamaged;
* `loaded`: the last read (which reader, its result, the block, and what was
  stored then);
* `slots`: the slots the read malloc'd;
* `verdict`: the result of `compare_block`.

Actions:

* `StoreBlock`: `serialize_block`, then `serialize_transactions_from_block`
  into the same buffer. The caller that composes them is not among the
  sources, so it is taken from spec.md 6.
* Damage to the record: `TruncateRecord`, `CorruptCount` and
  `CorruptTransaction`. Storage or the network can cause all three.
* `BlockFromSerialized`.
* `ReadBlockRecord`: `deserialize_block`, then
  `deserialize_transactions_to_block` on the same iterator.
* `CompareWithOriginal`: `compare_block`.

`DeserializeBlock` reads in `ReadOrder` and `SerializeBlock` writes in
`WriteOrder`. These are two separate definitions taken from the code, so
the round trip checks that they agree.

The passing run uses three blocks, holding 0, 1 and 2 transactions. Every
header field holds a value no other field holds, and the version is no
count, so reading any two fields in swapped order changes the block. A count can be damaged
to any value in 0..3. It checks:

* `RecordRoundTrip`: an undamaged record reads back as the stored block,
  transactions included.
* `CompareBlockIsEquality`: `compare_block` reports "equal" exactly when the
  decoded block is the original. A damaged second transaction must show.

Two violation runs record findings:

* `block_from_serialized_round_trip` (`HeaderRoundTrip`).
  `block_to_serialized` writes only the header part. `block_from_serialized`
  reads only that part and frees its iterator. So any block with
  transactions comes back with its count and a NULL array. spec.md 8
  promises a round trip that includes the transactions.
* `decode_oversize_count` (`DecodeBoundsCount`, with a damaged count of 5,
  where 5 × `MIN_TX_SIZE` > `MAX_BLOCK_SIZE`). `deserialize_block` accepts
  any count. `deserialize_transactions_to_block` then mallocs that many
  slots before it reads a single transaction. spec.md 4.2 says decoding must
  fail on such a count.

### StoredBlockValidation (run `stored_block_validation`)
This module composes the codec with the validator. It `EXTENDS BlockCodec` and
takes `valid_block` from `Validator == INSTANCE Block WITH block <-
loaded.block`. A reader decodes a record with `deserialize_block` and
`deserialize_transactions_to_block`, then judges the result with `valid_block`.

Besides BlockCodec's damage, `AppendToRecord` lets the buffer continue past
the record. Those extra bytes can be the next message, or bytes a sender
chose.

Two facts of the code make this composition interesting:

* the block hash covers the header without `transaction_count`;
* an odd Merkle level pairs its last node with itself.

Together they mean that (cb, s1, s4) and (cb, s1, s4, s4) carry the same hash
and the same Merkle root.

`ValidDecodedIsStored` says a decoded block that `valid_block` accepts is the
stored block. It holds. The repeated transaction repeats its inputs, and the
pairwise loops of `valid_block` refuse it. The mutant without those loops
accepts the four-transaction block: TLC shows count 3 raised to 4, then s4
appended.

Bounds: one valid three-transaction block, counts 2 to 4, and buffers
of up to 4 transactions. This gives 113393 distinct states.

## 3. Fairness

Only the Merkle engine has a liveness property. `FairSpec` is
`Spec /\ WF_vars(Next)`. `compute_merkle_root` is one sequential call that
waits on nothing: while a step of it is enabled, the calling thread keeps
executing. So weak fairness on the whole next-state relation is exactly what
the code guarantees.

The other modules model callers that may stop at any point, such as a
producer that never validates or a reader that never reads. No fairness is
assumed there. Every loop inside their handlers is bounded by a count, and
each handler is one atomic action.

## 4. Plan

These modules are in order of importance to consensus. Items 1 to 5 and 7
are done.

1. **MerkleTree, MerkleEngine, MerkleRoot** (done): the root algorithm,
   memory release, and refinement of the top-down definition.
2. **Transaction, Block** (done): `valid_block` over a block object that is
   filled, hashed and refilled in any order.
3. **BlockLifecycle** (done). A heap of transaction objects with states
   unallocated, live, freed and uninitialised. Actions:
   * `make_block`, `add_transaction_to_block`;
   * `deserialize_block` followed by `deserialize_transactions_to_block`,
     with a decode failure at any transaction;
   * `copy_block` with `copy_transaction` as spec.md 9 describes it (the
     receiving pointer is never written), where a build with or without
     NDEBUG is a nondeterministic choice;
   * `free_block_transactions`, `free_block`.

   Properties: no double free, no free of an uninitialised slot, no leak
   once a block is freed. The copy result is checked against
   `compare_block`. Runs: a passing run on the paths that work. A violation
   run for `copy_block`, whose own comparison fails because the copied
   pointers are never written. A violation run for the count that
   `copy_block` overwrites before `free_block_transactions`.
4. **BlockCodec** (done). A record as a sequence of fields, cut or damaged,
   read back by both readers. Checks: the round trip,
   `compare_block` against equality, and the unbounded `transaction_count`.
   Release on the decode error paths stays in BlockLifecycle.
5. **Block additions** (done). `compare_with_genesis_block` is an action of
   Block, checked under `HashBindsTransactions`.
6. **ProofOfWork** (not planned). `check_proof_of_work` is in pow.c, which
   is not among the sources. A decoder written from spec.md 4.5 alone would
   check the specification against itself, so Block keeps the constant
   `CheckProofOfWork`.
7. **StoredBlockValidation** (done). The codec and the validator together:
   the same-root ambiguity of a duplicated last transaction.

## 5. Not modelled, and why

* **Byte layout, SHA-256 and ed25519.** A hash is a term and a signature is
  a flag. The properties are about which values are bound to which, not
  about bytes.
* **Length prefixes of `buffer_read_bytes32`.** buffer_iterator.c is not
  among the sources. So whether a prefix other than 32 is refused before
  the `memcpy` of `HASH_SIZE` bytes is unknown. This is listed as a hazard.
* **32-bit wrap of `get_block_header_size`.** TLC integers are 32-bit signed,
  and the wrap needs about 4 GB of transactions in one block.
* **`get_tx_index_from_tx_in_block`.** This is a read-only lookup by
  pointer identity, and it changes no state. Block models transactions as
  values, not objects, so the lookup's answer cannot be told apart from
  `GetTxByHashFromBlock`'s on an accepted block. The `int32_t` return of a
  `uint32_t` index goes wrong only beyond 2^31 transactions.
* **`validate_block_signatures`.** Its verdict is that of
  `validate_tx_signatures`, which is in transaction.c, not among the
  sources. Neither what it checks nor which value means success can be read
  from the code here, so a model would only restate an assumption.
* **Unspent outputs.** The comment above `valid_block` lists "TXINs
  reference UXTOs" among its rules, but `valid_block`'s own body has no UTXO
  view. Whether `valid_transaction` consults one is in transaction.c, which
  is not among the sources, so the model takes no position on it.
* **The width of `get_current_time()`.** It is in util.c, which is not
  among the sources. So whether `get_current_time() + MAX_FUTURE_BLOCK_TIME`
  can wrap (block.c:80) cannot be told from the code here. MCBlock
  enumerates the boundary second and the second after it.
* **Wallet, RocksDB, the unit test driver and printing.** These are I/O with
  no consensus state.
