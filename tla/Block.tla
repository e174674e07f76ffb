------------------------------- MODULE Block -------------------------------
(***************************************************************************)
(* A block object of src/core/block.c as its producer drives it:          *)
(* make_block, the header fields written by the miner or decoder,         *)
(* add_transaction_to_block / add_transactions_to_block,                  *)
(* compute_merkle_root and compute_block_hash written into the block, and *)
(* valid_block judging it.  The object can be changed after it was hashed *)
(* or judged, so merkle_root and hash may be stale when valid_block runs. *)
(* accepted is the last block valid_block returned 1 for.                 *)
(***************************************************************************)
EXTENDS Integers, Sequences, MerkleTree, Transaction

LOCAL INSTANCE SequencesExt

CONSTANTS
    Pool,                  \* transactions a producer can add
    MaxTxs,                \* bound on transaction_count
    Timestamps,            \* timestamps a producer can write
    BitsValues,            \* compact targets a producer can write
    Now,                   \* get_current_time() during the run
    MAX_FUTURE_BLOCK_TIME,
    BLOCK_HEADER_SIZE,
    MAX_BLOCK_SIZE,
    CheckProofOfWork(_, _),  \* pow.c, not among the sources
    NoBlock                \* accepted before any acceptance

VARIABLES block, accepted

vars == <<block, accepted>>

\* Mutant: make_block leaving the malloc'd timestamp uninitialised.
\* (7 stands for whatever the allocator left in the field).
EmptyBlockUninitialised == [timestamp |-> 7, bits |-> 0, hash |-> ZeroHash,
                            merkle_root |-> ZeroHash, transactions |-> <<>>]

\* make_block: version, hashes, timestamp, nonce, bits, emission zeroed,
\* no transactions.
EmptyBlock == [timestamp |-> 0, bits |-> 0, hash |-> ZeroHash,
               merkle_root |-> ZeroHash, transactions |-> <<>>]

\* The txids compute_merkle_root feeds to the tree: compute_tx_id of each.
TxIds(b) == [i \in DOMAIN b.transactions |-> b.transactions[i].cid]

\* sha256d of serialize_block_header: version, timestamp, nonce, bits,
\* cumulative_emission, previous_hash, merkle_root.  Version, nonce,
\* emission and previous hash are not varied here.
HeaderHash(b) == <<"sha256d-header", b.timestamp, b.bits, b.merkle_root>>

ValidBlockTimestamp(b) == b.timestamp <= Now + MAX_FUTURE_BLOCK_TIME

\* The body of the inner loops of valid_block for two distinct positions:
\* equal ids, or an input of the first referencing the same txout as an
\* input of the second.
TxsConflict(t1, t2) ==
    \/ t1.id = t2.id
    \/ \E k \in DOMAIN t1.txins, l \in DOMAIN t2.txins : t1.txins[k] = t2.txins[l]

GetBlockHeaderSize(b) ==
    LET RECURSIVE SumFrom(_)
        SumFrom(i) == IF i > Len(b.transactions) THEN 0
                      ELSE b.transactions[i].size + SumFrom(i + 1)
    IN  BLOCK_HEADER_SIZE + SumFrom(1)

ValidBlockHash(b) == HeaderHash(b) = b.hash /\ CheckProofOfWork(b.hash, b.bits)

\* Not a return value: the process ended inside the call.
Abort == -1

\* valid_merkle_root: compute_merkle_root, then compare_hash with the
\* stored root.  With no transactions the tree is NULL and
\* assert(tree != NULL) ends the process (under NDEBUG, tree->root
\* dereferences NULL): Abort.
ValidMerkleRoot(b) ==
    LET root == ComputeMerkleRoot(TxIds(b)) IN
    CASE root = NullTree      -> Abort
      [] root = b.merkle_root -> 1
      [] OTHER                -> 0

\* The loop of valid_block over transactions: valid_transaction, no
\* coinbase after position 0, and the pairwise loops over every other
\* position.
TransactionsPass(txs) ==
    \A i \in DOMAIN txs :
       /\ ValidTransaction(txs[i])
       /\ i # 1 => ~IsCoinbaseTx(txs[i])
       /\ \A j \in DOMAIN txs : i # j => ~TxsConflict(txs[i], txs[j])

\* Mutant: valid_block without the check that transaction 0 is a coinbase.
ValidBlockNoCoinbaseCheck(b) ==
    IF /\ ValidBlockTimestamp(b)
       /\ Len(b.transactions) >= 1
       /\ TransactionsPass(b.transactions)
       /\ GetBlockHeaderSize(b) <= MAX_BLOCK_SIZE
       /\ ValidBlockHash(b)
    THEN ValidMerkleRoot(b) ELSE 0

\* Mutant: valid_block without the final valid_merkle_root call.
ValidBlockNoMerkleCheck(b) ==
    IF /\ ValidBlockTimestamp(b)
       /\ Len(b.transactions) >= 1
       /\ IsCoinbaseTx(b.transactions[1])
       /\ TransactionsPass(b.transactions)
       /\ GetBlockHeaderSize(b) <= MAX_BLOCK_SIZE
       /\ ValidBlockHash(b)
    THEN 1 ELSE 0

\* Mutant: valid_block without the pairwise loops over distinct
\* transactions (duplicate ids, shared txouts).
ValidBlockNoPairwiseCheck(b) ==
    IF /\ ValidBlockTimestamp(b)
       /\ Len(b.transactions) >= 1
       /\ IsCoinbaseTx(b.transactions[1])
       /\ \A i \in DOMAIN b.transactions :
            /\ ValidTransaction(b.transactions[i])
            /\ i # 1 => ~IsCoinbaseTx(b.transactions[i])
       /\ GetBlockHeaderSize(b) <= MAX_BLOCK_SIZE
       /\ ValidBlockHash(b)
    THEN ValidMerkleRoot(b) ELSE 0

\* valid_block: the early returns in the order of the code, each
\* returning 0; valid_merkle_root, last, decides the rest.
ValidBlock(b) ==
    IF /\ ValidBlockTimestamp(b)
       /\ Len(b.transactions) >= 1
       /\ IsCoinbaseTx(b.transactions[1])
       /\ TransactionsPass(b.transactions)
       /\ GetBlockHeaderSize(b) <= MAX_BLOCK_SIZE
       /\ ValidBlockHash(b)
    THEN ValidMerkleRoot(b) ELSE 0

\* Mutant: get_tx_by_hash_from_block's loop stopping one short
\* (i < transaction_count - 1).
GetTxByHashFromBlockSkipLast(txs, tx_hash) ==
    SelectInSeq(SubSeq(txs, 1, Len(txs) - 1), LAMBDA tx : tx.id = tx_hash)

\* get_tx_by_hash_from_block: the position of the first transaction whose
\* stored id compares equal to tx_hash; 0 stands for NULL.
GetTxByHashFromBlock(txs, tx_hash) == SelectInSeq(txs, LAMBDA tx : tx.id = tx_hash)

-----------------------------------------------------------------------------
Init == /\ block = EmptyBlock
        /\ accepted = NoBlock

MakeBlock == /\ block' = EmptyBlock
             /\ UNCHANGED accepted

\* The miner or the decoder writing the header fields (outside block.c).
SetHeaderFields(ts, bits) ==
    /\ block' = [block EXCEPT !.timestamp = ts, !.bits = bits]
    /\ UNCHANGED accepted

\* add_transaction_to_block(block, tx, transaction_count): grow by one.
AddTransactionToBlock(tx) ==
    /\ Len(block.transactions) < MaxTxs
    /\ block' = [block EXCEPT !.transactions = Append(@, tx)]
    /\ UNCHANGED accepted

\* add_transactions_to_block passes index i + 1 for the i-th tx, and
\* add_transaction_to_block asserts it is the new last index: the block
\* must hold exactly the generation tx already.
AddTransactionsToBlock(txs) ==
    /\ Len(block.transactions) = 1
    /\ Len(block.transactions) + Len(txs) <= MaxTxs
    /\ block' = [block EXCEPT !.transactions = @ \o txs]
    /\ UNCHANGED accepted

\* compute_merkle_root(block->merkle_root, block); with no transaction the
\* tree is NULL and assert(tree != NULL) fails, so a producer calls it on
\* a non-empty block only.
ComputeMerkleRootInto ==
    /\ Len(block.transactions) >= 1
    /\ block' = [block EXCEPT !.merkle_root = ComputeMerkleRoot(TxIds(block))]
    /\ UNCHANGED accepted

\* compute_block_hash(block->hash, block).
ComputeBlockHash ==
    /\ block' = [block EXCEPT !.hash = HeaderHash(block)]
    /\ UNCHANGED accepted

\* compare_with_genesis_block(block): compute_block_hash into block->hash
\* (and into the genesis block's, which holds its own hash already), then
\* compare_block with genesis.  The caller keeps the verdict; the block
\* keeps the rewritten hash, whatever it carried before.
CompareWithGenesisBlock ==
    /\ block' = [block EXCEPT !.hash = HeaderHash(block)]
    /\ UNCHANGED accepted

\* valid_block(block): the verdict, remembered when it is 1.
Validate ==
    /\ accepted' = IF ValidBlock(block) = 1
                   THEN [hash |-> block.hash, transactions |-> block.transactions]
                   ELSE accepted
    /\ UNCHANGED block

Next ==
    \/ MakeBlock
    \/ \E ts \in Timestamps, bits \in BitsValues : SetHeaderFields(ts, bits)
    \/ \E tx \in Pool : AddTransactionToBlock(tx)
    \/ \E t1, t2 \in Pool : AddTransactionsToBlock(<<t1, t2>>)
    \/ ComputeMerkleRootInto
    \/ ComputeBlockHash
    \/ CompareWithGenesisBlock
    \/ Validate

Spec == Init /\ [][Next]_vars

-----------------------------------------------------------------------------
TypeOK ==
    /\ block.transactions \in Seq(Pool)
    /\ Len(block.transactions) <= MaxTxs
    /\ block.timestamp \in Timestamps \cup {0}
    /\ block.bits \in BitsValues \cup {0}
    /\ accepted = NoBlock \/ accepted.transactions \in Seq(Pool)

\* Inputs of the accepted block: (position of tx, position of input).
InputSlots(txs) == UNION {{<<i, k>> : k \in DOMAIN txs[i].txins} : i \in DOMAIN txs}

\* No output is spent twice by a block valid_block accepts, neither by two
\* transactions (the inner loops of valid_block) nor by two inputs of one
\* transaction (valid_transaction): the two checks together cover all pairs.
NoDoubleSpend ==
    accepted # NoBlock =>
      LET txs == accepted.transactions IN
      \A s1, s2 \in InputSlots(txs) :
        s1 # s2 => txs[s1[1]].txins[s1[2]] # txs[s2[1]].txins[s2[2]]

\* An accepted block mints value exactly once: its first transaction is a
\* coinbase and no other transaction of it spends the coinbase sentinel
\* (a second generation tx is refused either as a coinbase at position > 0
\* or by the duplicate-input loops).
CoinbaseOnlyFirst ==
    accepted # NoBlock =>
      LET txs == accepted.transactions IN
      /\ IsCoinbaseTx(txs[1])
      /\ \A i \in DOMAIN txs : \A k \in DOMAIN txs[i].txins :
           txs[i].txins[k] = CoinbaseTxIn => i = 1

\* The block hash identifies the transactions: valid_block never accepts a
\* block with the hash of the previously accepted block and a different
\* transaction list, even when the object was refilled after its header
\* was hashed.
HashBindsTransactions ==
    [][ accepted' # accepted /\ accepted # NoBlock /\ accepted'.hash = accepted.hash
          => accepted'.transactions = accepted.transactions ]_vars

\* Every transaction of an accepted block is what get_tx_by_hash_from_block
\* returns for its id: the lookup, which stops at the first match, relies
\* on valid_block refusing two transactions with one id.
AcceptedTxsFoundByHash ==
    accepted # NoBlock =>
      \A i \in DOMAIN accepted.transactions :
        GetTxByHashFromBlock(accepted.transactions, accepted.transactions[i].id) = i

=============================================================================
