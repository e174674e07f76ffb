----------------------- MODULE StoredBlockValidation -----------------------
(***************************************************************************)
(* The codec and the validator together: a block record is read back with *)
(* deserialize_block and deserialize_transactions_to_block, and the block *)
(* the reader gets is judged by valid_block.  The block hash covers the    *)
(* header without transaction_count, and the Merkle root of an odd level   *)
(* pairs its last node with itself, so the root of (t1, t2, t3) is also   *)
(* the root of (t1, t2, t3, t3): a record whose count was raised and that *)
(* is followed by a copy of its last transaction decodes to a different   *)
(* block under the same hash and root.  Besides the damage BlockCodec      *)
(* models, the buffer handed to the reader can run on past the record     *)
(* (the next message on the wire, or bytes a sender chose).               *)
(***************************************************************************)
EXTENDS BlockCodec

CONSTANTS
    Pool, MaxTxs, Timestamps, BitsValues, Now, MAX_FUTURE_BLOCK_TIME,
    BLOCK_HEADER_SIZE, CheckProofOfWork(_, _), ZeroHash, CoinbaseIndex,
    MaxRecordTxs     \* bound on the transactions a buffer can carry

\* valid_block and its helpers, applied to the decoded block.
Validator == INSTANCE Block WITH block <- loaded.block, accepted <- NoBlock

\* The buffer the reader is given holds one more serialized transaction
\* after what was stored (after a whole header: bytes after a header cut
\* short would be read as header fields, which CorruptCount covers).
AppendToRecord(x) ==
    /\ original # NoBlock
    /\ Len(WriteOrder) <= Len(stored)
    /\ Len(stored) < Len(WriteOrder) + MaxRecordTxs
    /\ stored' = Append(stored, x)
    /\ intact' = FALSE
    /\ UNCHANGED <<original, loaded, slots, verdict>>

ComposedNext ==
    \/ Next
    \/ \E x \in TxValues : AppendToRecord(x)

ComposedSpec == Init /\ [][ComposedNext]_vars

-----------------------------------------------------------------------------
\* A decoded block that valid_block accepts is the block that was stored:
\* neither a raised transaction_count nor transactions appended or
\* overwritten in the record yield another block that passes valid_block,
\* although hash and merkle root cannot tell (t1, t2, t3) from
\* (t1, t2, t3, t3).  It is the pairwise loops of valid_block that refuse
\* the repeated transaction.
ValidDecodedIsStored ==
    loaded.via = "record" /\ loaded.ok /\ Validator!ValidBlock(loaded.block) = 1
      => loaded.block = loaded.of

=============================================================================
