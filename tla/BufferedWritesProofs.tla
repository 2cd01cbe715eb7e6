------------------------ MODULE BufferedWritesProofs ------------------------
(***************************************************************************)
(* Every step of BufferedWrites keeps the pipeline in order and the bytes  *)
(* in place, and streaming writes implement StreamedFile.                  *)
(***************************************************************************)
EXTENDS BufferedWritesLemmas

-----------------------------------------------------------------------------
(* The pipeline, one lemma per call or step.                               *)

\* writeDataForTruncatedSize makes blocks of bytes.
LEMMA FillType ==
  ASSUME TypeOK PROVE writeDataForTruncatedSize \in Seq(Seq(Nat))
  <1> DEFINE d == truncatedSize - totalSize
             n == (d + ChunkSize - 1) \div ChunkSize
             from(i) == totalSize + (i - 1) * ChunkSize
             len(i) == Least(ChunkSize, d - (i - 1) * ChunkSize)
  <1>1. CASE d <= 0
    BY <1>1 DEF writeDataForTruncatedSize
  <1>2. CASE d > 0
    <2>1. d \in Nat \ {0} /\ totalSize \in Nat /\ ChunkSize \in Nat \ {0}
      BY <1>2, BufferedWritesAssumption DEF TypeOK
    <2>2. n \in Nat /\ \A i \in 1..n : (i - 1) * ChunkSize \in Nat /\ (i - 1) * ChunkSize < d
      BY <2>1, ChunkCount, Zenon
    <2> HIDE DEF n, d
    <2>3. \A i \in 1..n : from(i) \in Nat /\ len(i) \in Nat
      BY <2>1, <2>2 DEF Least
    <2> HIDE DEF from, len
    <2>4. \A i \in 1..n : Bytes(from(i), len(i)) \in Seq(Nat)
      BY <2>3, BytesType
    <2>5. [i \in 1..n |-> Bytes(from(i), len(i))] \in Seq(Seq(Nat))
      BY <2>2, <2>4
    <2> QED
      BY <2>5, <1>2 DEF writeDataForTruncatedSize, n, d, from, len
  <1> QED
    BY <1>1, <1>2, BufferedWritesAssumption DEF TypeOK

\* A new handler.
LEMMA NewHandlerKeeps == ASSUME PInv, NewBWHandler PROVE PInv'
  <1>1. PoolOK' /\ totalBlocks' = totalBlocks /\ lent' = lent
    BY NewEffect DEF PInv, NewBWHandler
  <1> USE <1>1
  <1>2. TypeOK'
    BY DEF PInv, TypeOK, NewBWHandler, fileVars, queueVars, gcsVars, uploaderVars, Calls
  <1>3. Places' /\ Blocks' /\ Closed'
    BY DEF PInv, TypeOK, Places, Blocks, Closed, Quiet, NewBWHandler, fileVars, queueVars, gcsVars,
                uploaderVars
  <1>4. WaitGroupCountsBlocks' /\ LentBlocksAreHeld'
    BY Zenon DEF PInv, WaitGroupCountsBlocks, InUploader, LentBlocksAreHeld, BlocksOf, NewBWHandler, fileVars,
                queueVars, gcsVars, uploaderVars
  <1> QED
    BY <1>2, <1>3, <1>4 DEF PInv

\* Write.
LEMMA WriteKeeps ==
  ASSUME PInv, NEW offset \in Nat, NEW n \in Nat, WriteCall(offset, n) PROVE PInv'
  <1> DEFINE fill == IF offset = truncatedSize THEN writeDataForTruncatedSize ELSE <<>>
  <1>1. UNCHANGED poolVars
    BY DEF WriteCall
  <1>2. fill \in Seq(Seq(Nat)) /\ Bytes(offset, n) \in Seq(Nat)
    BY FillType, BytesType DEF PInv
  <1>3. todo' = fill \o <<Bytes(offset, n)>>
    BY DEF WriteCall
  <1> HIDE DEF fill
  <1>4. todo' \in Seq(Seq(Nat)) /\ todo' # <<>> /\ Len(Head(todo')) >= 0
    BY <1>2, <1>3
  <1> USE <1>4
  <1>5. TypeOK'
    BY Zenon DEF PInv, TypeOK, WriteCall, queueVars, gcsVars, uploaderVars, Calls
  <1>6. Places' /\ Blocks' /\ Closed'
    BY DEF PInv, TypeOK, Places, Blocks, Closed, Quiet, WriteCall, poolVars, queueVars, gcsVars,
                uploaderVars
  <1>7. WaitGroupCountsBlocks' /\ LentBlocksAreHeld'
    BY Zenon DEF PInv, WaitGroupCountsBlocks, InUploader, LentBlocksAreHeld, BlocksOf, WriteCall, poolVars,
           queueVars, gcsVars, uploaderVars
  <1> QED
    BY <1>1, <1>5, <1>6, <1>7, PoolSame DEF PInv

\* Truncate.
LEMMA TruncateKeeps == ASSUME PInv, NEW size \in Nat, Truncate(size) PROVE PInv'
  <1>1. UNCHANGED poolVars
    BY DEF Truncate
  <1>2. TypeOK'
    BY DEF PInv, TypeOK, Truncate, callVars, queueVars, gcsVars, uploaderVars, Greatest
  <1>3. Places' /\ Blocks' /\ Closed'
    BY Zenon DEF PInv, Places, Blocks, Closed, Quiet, Truncate, poolVars, callVars, queueVars, gcsVars,
           uploaderVars
  <1>4. WaitGroupCountsBlocks' /\ LentBlocksAreHeld'
    BY Zenon DEF PInv, WaitGroupCountsBlocks, InUploader, LentBlocksAreHeld, BlocksOf, Truncate, poolVars,
           callVars,
           queueVars, gcsVars, uploaderVars
  <1> QED
    BY <1>1, <1>2, <1>3, <1>4, PoolSame DEF PInv

\* The start of Sync, Flush, Unlink and Destroy.
LEMMA CallKeeps == ASSUME PInv, SyncCall \/ FlushCall \/ UnlinkCall \/ DestroyCall PROVE PInv'
  <1> USE DEF SyncCall, FlushCall, UnlinkCall, DestroyCall
  <1>1. UNCHANGED <<poolVars, fileVars, queueVars, uploaderVars, kind, uploadError, stream, object, noWriter>>
    BY DEF gcsVars
  <1> USE <1>1
  <1>2. /\ todo' \in Seq(Seq(Nat)) /\ copied' = 0
        /\ writer' \in {"none", "open", "cancelled", "broken"}
    BY FillType, Zenon DEF PInv, TypeOK, Places, gcsVars
  <1> USE <1>2
  <1>3. TypeOK'
    BY Zenon DEF PInv, TypeOK, fileVars, queueVars, uploaderVars, Calls
  <1>4. Places'
    BY DEF PInv, Places, poolVars
  <1>5. Blocks' /\ Closed'
    BY Zenon DEF PInv, TypeOK, Blocks, Closed, Quiet, poolVars, fileVars, queueVars, uploaderVars
  <1>6. WaitGroupCountsBlocks' /\ LentBlocksAreHeld'
    BY Zenon DEF PInv, Places, WaitGroupCountsBlocks, InUploader, LentBlocksAreHeld, BlocksOf, poolVars,
           fileVars,
                queueVars, uploaderVars
  <1> QED
    BY <1>3, <1>4, <1>5, <1>6, PoolSame DEF PInv

\* appendBuffer gets a block.
LEMMA GetBlockKeeps == ASSUME PInv, GetBlock PROVE PInv'
  <1>1. PoolOK' /\ lent'[File] = lent[File] + 1 /\ totalBlocks'[File] > 0 /\ phase' = phase
    BY GetEffect DEF PInv, GetBlock
  <1>a. <<>> \in Seq(Nat) /\ Len(<<>>) = 0 /\ <<>> # NoBlock
    BY DEF NoBlock
  <1>b. current' = <<>> /\ current = NoBlock
    BY DEF GetBlock
  <1>2. current' # NoBlock /\ current = NoBlock /\ current' \in Seq(Nat) /\ Len(current') <= BlockSize
    BY ONLY <1>a, <1>b, BufferedWritesAssumption
  <1> USE <1>2
  <1>3. TypeOK'
    BY NatsAreInts, Zenon DEF PInv, TypeOK, GetBlock, callVars, queueVars, gcsVars, uploaderVars
  <1>c. Places'
    BY <1>1, Zenon DEF PInv, TypeOK, Places, GetBlock, callVars
  <1>d. Blocks'
    BY Zenon DEF PInv, TypeOK, Places, Blocks, Quiet, GetBlock, callVars, queueVars, gcsVars, uploaderVars
  <1>e. Closed'
    BY DEF PInv, TypeOK, Places, Closed, Calls, GetBlock, callVars, queueVars, gcsVars, uploaderVars
  <1>4. Places' /\ Blocks' /\ Closed'
    BY <1>c, <1>d, <1>e, Zenon
  <1>5. WaitGroupCountsBlocks' /\ LentBlocksAreHeld'
    BY <1>1 DEF PInv, TypeOK, Places, Blocks, WaitGroupCountsBlocks, InUploader, LentBlocksAreHeld,
                      BlocksOf, GetBlock, callVars, queueVars, gcsVars, uploaderVars
  <1> QED
    BY <1>1, <1>3, <1>4, <1>5 DEF PInv

\* The block cannot be made.
LEMMA GetBlockFailsKeeps == ASSUME PInv, GetBlockFails PROVE PInv'
  <1>1. PoolOK' /\ lent' = lent /\ totalBlocks' = totalBlocks /\ phase' = phase
    BY FailEffect, Zenon DEF PInv, GetBlockFails
  <1> USE <1>1
  <1>2. TypeOK'
    BY DEF PInv, TypeOK, GetBlockFails, ReturnError, fileVars, queueVars, gcsVars, uploaderVars
  <1>3. Places' /\ Blocks' /\ Closed'
    BY DEF PInv, TypeOK, Places, Blocks, Closed, Quiet, GetBlockFails, ReturnError, fileVars, queueVars,
                gcsVars, uploaderVars
  <1>4. WaitGroupCountsBlocks' /\ LentBlocksAreHeld'
    BY DEF PInv, Places, Blocks, WaitGroupCountsBlocks, InUploader, LentBlocksAreHeld, BlocksOf,
                GetBlockFails, ReturnError, fileVars, queueVars, gcsVars, uploaderVars
  <1> QED
    BY <1>2, <1>3, <1>4 DEF PInv

\* appendBuffer fills the block.
LEMMA CopyKeeps == ASSUME PInv, CopyToBlock PROVE PInv'
  <1>1. UNCHANGED poolVars
    BY Zenon DEF CopyToBlock
  <1>2. /\ current' \in Seq(Nat) /\ Len(current') <= BlockSize /\ current' # NoBlock
        /\ copied' \in Nat /\ copied' <= Len(Head(todo)) /\ Len(current') \in Nat
    <2>1. PICK n \in Nat :
            /\ copied' = copied + n /\ copied' <= Len(Head(todo))
            /\ current' \in Seq(Nat) /\ Len(current') <= BlockSize
      BY CopyEffect
    <2> QED
      BY <2>1, NoBlockIsNone, NatsAreInts DEF PInv, TypeOK
  <1> USE <1>2
  <1>3. totalBlocks[File] > 0
    <2>1. current # NoBlock /\ uploadCh \in Seq(Seq(Nat))
      BY DEF PInv, Blocks, CopyToBlock
    <2>2. lent[File] > 0
      BY <2>1, FilePool DEF PInv, LentBlocksAreHeld, BlocksOf
    <2> QED
      BY <2>2, FilePool DEF PInv
  <1>4. TypeOK'
    BY NatsAreInts, Zenon DEF PInv, TypeOK, CopyToBlock, queueVars, gcsVars, uploaderVars
  <1>5. Places' /\ Blocks' /\ Closed'
    BY <1>3, Zenon DEF PInv, TypeOK, Places, Blocks, Closed, Quiet, CopyToBlock, poolVars, queueVars, gcsVars,
                      uploaderVars
  <1>6. WaitGroupCountsBlocks' /\ LentBlocksAreHeld'
    BY Zenon DEF PInv, Places, Blocks, WaitGroupCountsBlocks, InUploader, LentBlocksAreHeld, BlocksOf,
                CopyToBlock, poolVars, queueVars, gcsVars, uploaderVars
  <1> QED
    BY <1>1, <1>4, <1>5, <1>6, PoolSame DEF PInv

\* appendBuffer is done.
LEMMA AppendDoneKeeps == ASSUME PInv, AppendDone PROVE PInv'
  <1>1. UNCHANGED poolVars
    BY DEF AppendDone
  <1>2. todo # <<>> /\ todo' = Tail(todo) /\ todo' \in Seq(Seq(Nat)) /\ call \in {"Write", "Flush"}
    BY DEF PInv, TypeOK, Places, AppendDone, Calls
  <1>3. todo' # <<>> => Len(Head(todo')) \in Nat
    BY <1>2
  <1>a. totalSize' \in Nat /\ acked' \in Nat /\ copied' = 0
    BY SMTT(30) DEF PInv, TypeOK, AppendDone, Greatest
  <1>b. \/ todo' # <<>> /\ call' = call /\ pc' = "append"
        \/ todo' = <<>> /\ call = "Write" /\ call' = "idle" /\ pc' = "none"
        \/ todo' = <<>> /\ call = "Flush" /\ call' = call /\ pc' = "last"
    BY <1>2, Zenon DEF AppendDone
  <1>c. UNCHANGED <<poolVars, current, truncatedSize, rewound, queueVars, gcsVars, uploaderVars>>
    BY DEF AppendDone
  <1>4. TypeOK'
    BY <1>2, <1>a, <1>b, <1>c DEF PInv, TypeOK, queueVars, gcsVars, uploaderVars, Calls
  <1>5. Places' /\ Blocks' /\ Closed'
    <2>1. Places'
      <3>1. call \in {"Write", "Flush"}
        BY <1>2, Zenon
      <3> QED
        BY <3>1, <1>3, <1>a, <1>b DEF Places
    <2>2. object = NoObject /\ pc = "append"
      BY <1>2, Zenon DEF PInv, Places, Blocks, AppendDone
    <2>3. Blocks' /\ Closed'
      BY <1>2, <1>b, <1>c, <2>2, SMTT(30) DEF PInv, TypeOK, Blocks, Closed, Quiet, queueVars, gcsVars, uploaderVars
    <2> QED
      BY <2>1, <2>3
  <1>6. WaitGroupCountsBlocks' /\ LentBlocksAreHeld'
    BY <1>2, Zenon DEF PInv, Places, Blocks, WaitGroupCountsBlocks, InUploader, LentBlocksAreHeld, BlocksOf,
                AppendDone, poolVars, queueVars, gcsVars, uploaderVars
  <1> QED
    BY <1>1, <1>4, <1>5, <1>6, PoolSame DEF PInv

\* A block is queued.
LEMMA UploadKeeps ==
  ASSUME PInv, NEW next,
         (pc = "full" /\ next = "append") \/ (pc = "last" /\ HasLast /\ next = "wait"), Upload(next)
  PROVE  PInv'
  <1>1. UNCHANGED poolVars
    BY DEF Upload
  <1>2. current # NoBlock /\ current \in Seq(Nat) /\ uploadCh \in Seq(Seq(Nat)) /\ current' = NoBlock
    BY DEF PInv, Blocks, HasLast, Upload
  <1> USE <1>2
  <1>3. uploadCh' = Append(uploadCh, current) /\ uploadCh' \in Seq(Seq(Nat)) /\ uploadCh' \in Seq(Seq(Int))
        /\ Len(uploadCh') = Len(uploadCh) + 1 /\ Len(uploadCh) \in Nat
    BY DEF Upload, PInv, TypeOK
  <1> USE <1>3
  <1>4. call \in {"Write", "Sync", "Flush"} /\ object = NoObject
    BY Zenon DEF PInv, TypeOK, Places, Blocks, Calls
  <1> USE <1>4
  <1>5. TypeOK'
    BY DEF PInv, TypeOK, Upload, NoBlock
  <1>6. Places' /\ Blocks' /\ Closed'
    BY DEF PInv, TypeOK, Places, Blocks, Closed, Quiet, Upload, poolVars
  <1>7. WaitGroupCountsBlocks' /\ LentBlocksAreHeld'
    BY DEF PInv, TypeOK, WaitGroupCountsBlocks, InUploader, LentBlocksAreHeld, BlocksOf,
                      Upload, poolVars
  <1> QED
    BY <1>1, <1>5, <1>6, <1>7, PoolSame DEF PInv

\* A block cannot be queued for want of a writer.
LEMMA UploadFailsKeeps == ASSUME PInv, pc \in {"full", "last"}, UploadFails PROVE PInv'
  <1>1. UNCHANGED poolVars /\ object = NoObject
    BY Zenon DEF UploadFails, PInv, Places, Blocks
  <1> USE <1>1
  <1>2. TypeOK'
    BY DEF PInv, TypeOK, UploadFails, ReturnError, fileVars, uploaderVars
  <1>3. Places' /\ Blocks' /\ Closed'
    BY DEF PInv, TypeOK, Places, Blocks, Closed, Quiet, UploadFails, ReturnError, poolVars, fileVars,
                uploaderVars
  <1>4. WaitGroupCountsBlocks' /\ LentBlocksAreHeld'
    <2>1. wg' = wg + 1 /\ wg \in Nat /\ Len(uploadCh) \in Nat /\ noWriter' # "never"
      BY DEF PInv, TypeOK, UploadFails
    <2>2. UNCHANGED <<poolVars, current, uploadCh, uploader, object>>
      BY DEF UploadFails, fileVars, uploaderVars
    <2>3. WaitGroupCountsBlocks'
      BY <2>1, <2>2 DEF PInv, WaitGroupCountsBlocks, InUploader
    <2>4. LentBlocksAreHeld'
      BY <2>2, Zenon DEF PInv, LentBlocksAreHeld, BlocksOf, poolVars
    <2> QED
      BY <2>3, <2>4, Zenon
  <1> QED
    BY <1>2, <1>3, <1>4, PoolSame, Zenon DEF PInv

\* A full block, and the last block of a Sync or a Flush.
LEMMA UploadStepKeeps == ASSUME PInv, UploadFull \/ UploadLast PROVE PInv'
  <1>1. CASE pc = "last" /\ ~HasLast /\ pc' = "wait"
             /\ UNCHANGED <<poolVars, call, todo, copied, fileVars, queueVars, gcsVars, uploaderVars>>
    <2>1. call \in {"Sync", "Flush"} /\ (call = "Flush" => current = NoBlock) /\ UNCHANGED poolVars
      BY <1>1, Zenon DEF PInv, TypeOK, Places, HasLast, Calls
    <2>2. TypeOK'
      BY <1>1, Zenon DEF PInv, TypeOK, fileVars, queueVars, gcsVars, uploaderVars
    <2>3. Places' /\ Blocks' /\ Closed'
      BY <1>1, <2>1, Zenon DEF PInv, TypeOK, Places, Blocks, Closed, Quiet, poolVars, fileVars, queueVars,
             gcsVars,
                        uploaderVars
    <2>4. WaitGroupCountsBlocks' /\ LentBlocksAreHeld'
      BY <1>1, Zenon DEF PInv, WaitGroupCountsBlocks, InUploader, LentBlocksAreHeld, BlocksOf, poolVars,
             fileVars,
                  queueVars, gcsVars, uploaderVars
    <2> QED
      BY <2>1, <2>2, <2>3, <2>4, PoolSame, Zenon DEF PInv
  <1> QED
    BY <1>1, UploadKeeps, UploadFailsKeeps DEF UploadFull, UploadLast

\* The calls that wait for the uploader have waited.
LEMMA WaitKeeps == ASSUME PInv, Wait PROVE PInv'
  <1>1. /\ PoolOK' /\ totalBlocks' = totalBlocks /\ lent' = lent /\ lost' = lost /\ held' = held
        /\ pc' \in {"remote", "clear"}
        /\ call = "Flush" => pc' = "remote" /\ closed = "no" /\ closed' = "yes"
        /\ call # "Flush" => closed' = closed
        /\ call = "Unlink" => pc' = "clear"
    BY StartEffect, PoolSame, Zenon DEF PInv, Wait, poolVars
  <1> USE <1>1
  <1>2. UNCHANGED <<call, todo, copied, fileVars, uploadCh, wg, gcsVars, uploaderVars>> /\ pc = "wait"
    BY DEF Wait
  <1> USE <1>2
  <1>3. Quiet
    BY DEF PInv, TypeOK, Quiet, WaitGroupCountsBlocks, InUploader, Wait
  <1>4. TypeOK'
    BY DEF PInv, TypeOK, fileVars, gcsVars, uploaderVars
  <1>5. Places'
    BY Zenon DEF PInv, TypeOK, Calls, Places
  <1>6. Blocks' /\ Closed'
    BY <1>3 DEF PInv, TypeOK, Places, Blocks, Closed, Quiet, fileVars, gcsVars, uploaderVars
  <1>7. WaitGroupCountsBlocks' /\ LentBlocksAreHeld'
    BY Zenon DEF PInv, WaitGroupCountsBlocks, InUploader, LentBlocksAreHeld, BlocksOf, fileVars, gcsVars,
                      uploaderVars
  <1> QED
    BY <1>4, <1>5, <1>6, <1>7 DEF PInv

\* The call to GCS at the end of Sync or Flush fails.
LEMMA RemoteErrorKeeps == ASSUME PInv, RemoteNoWriter \/ RemoteFails PROVE PInv'
  <1>1. /\ UNCHANGED <<poolVars, fileVars, queueVars, kind, stream, object, uploaderVars>>
        /\ pc = "remote" /\ call' = "idle" /\ pc' = "none" /\ todo' = <<>> /\ copied' = 0
        /\ writer' \in {writer, "open"}
        /\ \/ noWriter' = noWriter /\ uploadError' = "set"
           \/ noWriter' = "once" /\ uploadError' = uploadError
    BY DEF RemoteNoWriter, RemoteFails, ReturnError
  <1> USE <1>1
  <1>2. TypeOK' /\ Places'
    BY DEF PInv, TypeOK, Places, fileVars, queueVars, uploaderVars
  <1>3. Blocks' /\ Closed'
    BY Zenon DEF PInv, TypeOK, Calls, Places, Blocks, Closed, Quiet, fileVars, queueVars, uploaderVars
  <1>4. WaitGroupCountsBlocks' /\ LentBlocksAreHeld'
    BY Zenon DEF PInv, WaitGroupCountsBlocks, InUploader, LentBlocksAreHeld, BlocksOf, poolVars, fileVars,
                queueVars, uploaderVars
  <1> QED
    BY <1>2, <1>3, <1>4, PoolSame, Zenon DEF PInv

\* The object is published.
LEMMA FinalizeKeeps == ASSUME PInv, FinalizeUpload PROVE PInv'
  <1>1. PoolOK' /\ phase'[File] = "all" /\ pc' = "clear" /\ UNCHANGED <<totalBlocks, lent, lost, held>>
    BY StartEffect, Zenon DEF PInv, FinalizeUpload
  <1> USE <1>1
  <1>2. /\ UNCHANGED <<kind, call, todo, copied, fileVars, queueVars, uploadError, stream, noWriter,
                        uploaderVars>>
        /\ writer' = "open" /\ writer \in {"none", "open"} /\ pc = "remote" /\ call = "Flush"
    BY DEF FinalizeUpload
  <1> USE <1>2
  <1>3. object' \in Seq(Int)
    <2>1. Bytes(0, InitialSize) \in Seq(Int) /\ stream \in Seq(Int)
      BY BytesType, NatsAreInts, BufferedWritesAssumption, Zenon DEF PInv, TypeOK, InitialSize, Kind
    <2> QED
      BY <2>1 DEF FinalizeUpload
  <1>4. TypeOK' /\ Places'
    BY <1>3 DEF PInv, TypeOK, Places, fileVars, queueVars, uploaderVars
  <1>5. Blocks' /\ Closed'
    BY Zenon DEF PInv, TypeOK, Blocks, Closed, Quiet, fileVars, queueVars, uploaderVars
  <1>6. WaitGroupCountsBlocks' /\ LentBlocksAreHeld'
    BY Zenon DEF PInv, WaitGroupCountsBlocks, InUploader, LentBlocksAreHeld, BlocksOf, fileVars,
                queueVars, uploaderVars
  <1> QED
    BY <1>4, <1>5, <1>6 DEF PInv

\* The end of Sync in a zonal bucket.
LEMMA FlushPendingKeeps == ASSUME PInv, FlushPendingWrites PROVE PInv'
  <1>1. /\ PoolOK' /\ UNCHANGED <<totalBlocks, lent, lost, held>>
        /\ \/ pc' = "clear" /\ UNCHANGED <<call, todo, copied>>
           \/ call' = "idle" /\ pc' = "none" /\ todo' = <<>> /\ copied' = 0
    BY StartEffect, PoolSame, Zenon DEF PInv, FlushPendingWrites, ReturnError, poolVars
  <1> USE <1>1
  <1>2. /\ UNCHANGED <<kind, fileVars, queueVars, uploadError, stream, object, noWriter, uploaderVars>>
        /\ writer' = "open" /\ pc = "remote" /\ call = "Sync"
    BY DEF FlushPendingWrites
  <1> USE <1>2
  <1>3. TypeOK' /\ Places'
    BY Zenon DEF PInv, TypeOK, Places, fileVars, queueVars, uploaderVars
  <1>4. Blocks' /\ Closed'
    BY DEF PInv, TypeOK, Blocks, Closed, Quiet, fileVars, queueVars, uploaderVars
  <1>5. WaitGroupCountsBlocks' /\ LentBlocksAreHeld'
    BY Zenon DEF PInv, Blocks, WaitGroupCountsBlocks, InUploader, LentBlocksAreHeld, BlocksOf, fileVars,
                queueVars, uploaderVars
  <1> QED
    BY <1>3, <1>4, <1>5 DEF PInv

\* ClearFreeBlockChannel deallocates a block.
LEMMA ClearBlockKeeps == ASSUME PInv, ClearBlock PROVE PInv'
  <1>1. PoolOK' /\ UNCHANGED <<phase, lent, lost>> /\ pc = "clear"
    BY ClearEffect DEF PInv, ClearBlock
  <1> USE <1>1
  <1>2. UNCHANGED <<callVars, fileVars, queueVars, gcsVars, uploaderVars>>
    BY Zenon DEF ClearBlock
  <1> USE <1>2
  <1>3. TypeOK' /\ Places'
    BY DEF PInv, TypeOK, Places, callVars, fileVars, queueVars, gcsVars, uploaderVars
  <1>4. Blocks' /\ Closed'
    BY Zenon DEF PInv, Blocks, Closed, Quiet, callVars, fileVars, queueVars, gcsVars, uploaderVars
  <1>5. WaitGroupCountsBlocks' /\ LentBlocksAreHeld'
    BY Zenon DEF PInv, Places, WaitGroupCountsBlocks, InUploader, LentBlocksAreHeld, BlocksOf,
                      callVars, fileVars, queueVars, gcsVars, uploaderVars
  <1> QED
    BY <1>3, <1>4, <1>5 DEF PInv

\* The call is over; after a Flush that published the object nothing is kept.
LEMMA ClearDoneKeeps == ASSUME PInv, ClearDone PROVE PInv'
  <1>1. /\ PoolOK' /\ freeBlocksCh[File] = 0 /\ UNCHANGED <<totalBlocks, lent, lost>>
        /\ phase'[File] = (IF phase[File] = "all" THEN "none" ELSE "open")
    BY ClearedEffect DEF PInv, ClearDone
  <1> USE <1>1
  <1>2. /\ UNCHANGED <<todo, copied, fileVars, queueVars, gcsVars, uploaderVars>> /\ pc = "clear" /\ pc' = "none"
        /\ call' = IF call \in {"Flush", "Destroy"} THEN "gone" ELSE "idle"
    BY Zenon DEF ClearDone
  <1> USE <1>2
  <1>3. TypeOK' /\ Places'
    BY Zenon DEF PInv, TypeOK, Places, fileVars, queueVars, gcsVars, uploaderVars
  <1>4. Blocks' /\ Closed'
    BY ZenonT(40) DEF PInv, TypeOK, Calls, Places, Blocks, Closed, Quiet, fileVars, queueVars, gcsVars, uploaderVars
  <1>5. WaitGroupCountsBlocks'
    BY DEF PInv, WaitGroupCountsBlocks, InUploader, queueVars, gcsVars, uploaderVars
  <1>6. ASSUME object' # NoObject, call' = "gone" PROVE totalBlocks'[File] = 0 /\ held'[File] = lost'[File]
    <2>1. call = "Flush" /\ Quiet /\ current = NoBlock /\ phase[File] = "all"
      BY <1>6, Zenon DEF PInv, Places, Blocks, gcsVars
    <2>2. lent[File] = 0
      BY <2>1 DEF PInv, LentBlocksAreHeld, BlocksOf, Quiet
    <2>3. totalBlocks'[File] = 0 /\ phase'[File] = "none"
      BY <2>1, <2>2, FilePool DEF PInv
    <2>4. phase'[File] = "none" /\ totalBlocks'[File] = 0 => held'[File] = lost'[File]
      BY BufferedWritesAssumption DEF PoolOK, Pool!TypeOK, Pool!PermitAccounting, Pool!Larger
    <2> QED
      BY <2>3, <2>4, Zenon
  <1>7. LentBlocksAreHeld'
    BY <1>6, Zenon DEF PInv, LentBlocksAreHeld, BlocksOf, fileVars, queueVars, gcsVars, uploaderVars
  <1> QED
    BY <1>3, <1>4, <1>5, <1>7 DEF PInv

\* Destroy takes a block from the channel.
LEMMA DrainBlockKeeps == ASSUME PInv, DrainBlock PROVE PInv'
  <1>1. PoolOK' /\ lent'[File] = lent[File] - 1 /\ UNCHANGED <<totalBlocks, phase, lost, held>>
    BY ReleaseEffect DEF PInv, DrainBlock
  <1>2. UNCHANGED <<callVars, fileVars, closed, gcsVars, uploaderVars>> /\ pc = "drain" /\ wg' = wg - 1
    BY Zenon DEF DrainBlock
  <1>3. /\ uploadCh' \in Seq(Seq(Nat)) /\ uploadCh' \in Seq(Seq(Int)) /\ Len(uploadCh) \in Nat
        /\ Len(uploadCh) > 0 /\ Len(uploadCh') = Len(uploadCh) - 1
    BY DEF PInv, TypeOK, Blocks, DrainBlock
  <1>4. wg' \in Nat
    BY <1>2, <1>3 DEF PInv, TypeOK, WaitGroupCountsBlocks, InUploader
  <1>5. TypeOK' /\ Places'
    BY <1>1, <1>2, <1>3, <1>4 DEF PInv, TypeOK, Places, callVars, fileVars, gcsVars, uploaderVars
  <1>6. call = "Destroy" /\ object = NoObject
    BY <1>2, Zenon DEF PInv, TypeOK, Calls, Places, Blocks
  <1>7. Blocks' /\ Closed'
    BY <1>2, <1>3, <1>6 DEF PInv, Blocks, Closed, callVars, fileVars, gcsVars, uploaderVars
  <1>8. WaitGroupCountsBlocks'
    BY <1>2, <1>3 DEF PInv, TypeOK, WaitGroupCountsBlocks, InUploader, gcsVars, uploaderVars
  <1>9. LentBlocksAreHeld'
    BY <1>1, <1>2, <1>3, <1>6 DEF PInv, LentBlocksAreHeld, BlocksOf, callVars, fileVars, gcsVars, uploaderVars
  <1> QED
    BY <1>1, <1>5, <1>7, <1>8, <1>9 DEF PInv

\* Destroy closes the channel.
LEMMA DrainDoneKeeps == ASSUME PInv, DrainDone PROVE PInv'
  <1>1. PoolOK' /\ pc' = "clear" /\ UNCHANGED <<totalBlocks, lent, lost, held>>
    BY StartEffect, Zenon DEF PInv, DrainDone
  <1> USE <1>1
  <1>2. UNCHANGED <<call, todo, copied, fileVars, uploadCh, wg, gcsVars, uploaderVars>> /\ pc = "drain"
        /\ closed' = "yes"
    BY DEF DrainDone
  <1> USE <1>2
  <1>3. call = "Destroy" /\ object = NoObject
    BY DEF PInv, TypeOK, Calls, Places, Blocks
  <1> USE <1>3
  <1>4. TypeOK' /\ Places'
    BY DEF PInv, TypeOK, Places, fileVars, gcsVars, uploaderVars
  <1>5. Blocks' /\ Closed'
    BY Zenon DEF PInv, Blocks, Closed, fileVars, gcsVars, uploaderVars
  <1>6. WaitGroupCountsBlocks' /\ LentBlocksAreHeld'
    BY Zenon DEF PInv, WaitGroupCountsBlocks, InUploader, LentBlocksAreHeld, BlocksOf, fileVars,
                            gcsVars, uploaderVars
  <1> QED
    BY <1>4, <1>5, <1>6 DEF PInv

\* The uploader takes a block.
LEMMA ReceiveKeeps == ASSUME PInv, Receive PROVE PInv'
  <1>1. /\ UNCHANGED <<poolVars, callVars, fileVars, closed, wg, gcsVars>>
        /\ uploader = "idle" /\ uploader' = "busy" /\ uploadCh # <<>>
    BY Zenon DEF Receive
  <1> USE <1>1
  <1>2. /\ uploadCh' \in Seq(Seq(Nat)) /\ uploadCh' \in Seq(Seq(Int)) /\ Len(uploadCh) \in Nat
        /\ Len(uploadCh) > 0 /\ Len(uploadCh') = Len(uploadCh) - 1
        /\ inHand' \in Seq(Nat) /\ inHand' \in Seq(Int)
    BY DEF PInv, TypeOK, Blocks, Receive
  <1> USE <1>2
  <1>3. TypeOK' /\ Places'
    BY ZenonT(40) DEF PInv, TypeOK, Places, poolVars, callVars, fileVars, gcsVars
  <1>4. Blocks' /\ Closed'
    BY Zenon DEF PInv, Blocks, Closed, Quiet, callVars, fileVars, gcsVars
  <1>5. WaitGroupCountsBlocks'
    BY DEF PInv, TypeOK, WaitGroupCountsBlocks, InUploader, gcsVars
  <1>6. LentBlocksAreHeld'
    BY DEF PInv, LentBlocksAreHeld, BlocksOf, poolVars, callVars, fileVars, gcsVars
  <1> QED
    BY <1>3, <1>4, <1>5, <1>6, PoolSame DEF PInv

\* The uploader copies it.
LEMMA uploadBlockKeeps == ASSUME PInv, uploadBlock PROVE PInv'
  <1>1. /\ UNCHANGED <<poolVars, callVars, fileVars, queueVars, inHand, kind, object, noWriter>>
        /\ uploader = "busy" /\ uploader' = "copied"
        /\ uploadError' \in {"none", "set"} /\ writer' \in {"none", "open", "cancelled", "broken"}
        /\ uploadError = "set" => uploadError' = "set" /\ writer' = writer
        /\ uploadError = "none" /\ uploadError' = "set" => writer' = "broken"
    BY DEF PInv, TypeOK, uploadBlock, gcsVars
  <1> USE <1>1
  <1>2. stream' \in Seq(Int)
    <2>1. stream \in Seq(Int) /\ inHand \in Seq(Int)
      BY Zenon DEF PInv, TypeOK
    <2>2. stream' = stream \/ stream' = stream \o inHand
      BY Zenon DEF uploadBlock, gcsVars
    <2> QED
      BY <2>1, <2>2, ConcatInts, Zenon
  <1>3. TypeOK' /\ Places'
    BY <1>2 DEF PInv, TypeOK, Places, poolVars, callVars, fileVars, queueVars
  <1>4. Blocks' /\ Closed'
    BY DEF PInv, TypeOK, Blocks, Closed, Quiet, callVars, fileVars, queueVars
  <1>5. WaitGroupCountsBlocks' /\ LentBlocksAreHeld'
    BY Zenon DEF PInv, WaitGroupCountsBlocks, InUploader, LentBlocksAreHeld, BlocksOf, poolVars, callVars,
                fileVars, queueVars
  <1> QED
    BY <1>3, <1>4, <1>5, PoolSame, Zenon DEF PInv

\* The uploader gives the block back.
LEMMA ReleaseBlockKeeps == ASSUME PInv, ReleaseBlock PROVE PInv'
  <1>1. PoolOK' /\ lent'[File] = lent[File] - 1 /\ UNCHANGED <<totalBlocks, phase, lost, held>>
    BY ReleaseEffect, Zenon DEF PInv, ReleaseBlock
  <1>2. /\ UNCHANGED <<callVars, fileVars, queueVars, gcsVars>>
        /\ uploader = "copied" /\ uploader' = "released" /\ inHand' = NoBlock
    BY Zenon DEF ReleaseBlock
  <1> USE <1>2
  <1>3. TypeOK' /\ Places'
    BY <1>1 DEF PInv, TypeOK, Places, callVars, fileVars, queueVars, gcsVars, NoBlock
  <1>4. Blocks' /\ Closed'
    BY Zenon DEF PInv, Blocks, Closed, Quiet, callVars, fileVars, queueVars, gcsVars
  <1>5. WaitGroupCountsBlocks' /\ LentBlocksAreHeld'
    BY <1>1, FilePool
       DEF PInv, TypeOK, Blocks, WaitGroupCountsBlocks, InUploader, LentBlocksAreHeld, BlocksOf, callVars,
           fileVars, queueVars, gcsVars
  <1> QED
    BY <1>1, <1>3, <1>4, <1>5 DEF PInv

\* The uploader counts the block as done, or ends.
LEMMA DoneKeeps == ASSUME PInv, Done \/ Exit PROVE PInv'
  <1>1. /\ UNCHANGED <<poolVars, callVars, fileVars, uploadCh, closed, gcsVars, inHand>>
        /\ \/ uploader = "released" /\ uploader' = "idle" /\ wg' = wg - 1
           \/ uploader = "idle" /\ uploader' = "exited" /\ wg' = wg
    BY Zenon DEF Done, Exit, queueVars
  <1> USE <1>1
  <1>2. wg' \in Nat
    BY DEF PInv, TypeOK, WaitGroupCountsBlocks, InUploader
  <1>3. TypeOK' /\ Places'
    BY <1>2 DEF PInv, TypeOK, Places, poolVars, callVars, fileVars, gcsVars
  <1>4. Blocks' /\ Closed'
    BY Zenon DEF PInv, Blocks, Closed, Quiet, callVars, fileVars, gcsVars
  <1>5. WaitGroupCountsBlocks'
    BY DEF PInv, TypeOK, WaitGroupCountsBlocks, InUploader, gcsVars
  <1>6. LentBlocksAreHeld'
    BY Zenon DEF PInv, LentBlocksAreHeld, BlocksOf, poolVars, callVars, fileVars, gcsVars
  <1> QED
    BY <1>3, <1>4, <1>5, <1>6, PoolSame DEF PInv

\* Other files take and return blocks.
LEMMA OthersKeep == ASSUME PInv, OtherFiles PROVE PInv'
  <1>1. /\ PoolOK' /\ phase'[File] = phase[File] /\ totalBlocks'[File] = totalBlocks[File]
        /\ lent'[File] = lent[File] /\ lost'[File] = lost[File] /\ held'[File] = held[File]
    BY OtherEffect, Zenon DEF PInv, OtherFiles
  <1> USE <1>1
  <1>2. UNCHANGED <<callVars, fileVars, queueVars, gcsVars, uploaderVars>>
    BY Zenon DEF OtherFiles
  <1> USE <1>2
  <1>3. TypeOK' /\ Places'
    BY DEF PInv, TypeOK, Places, callVars, fileVars, queueVars, gcsVars, uploaderVars
  <1>4. Blocks' /\ Closed'
    BY DEF PInv, Blocks, Closed, Quiet, callVars, fileVars, queueVars, gcsVars, uploaderVars
  <1>5. WaitGroupCountsBlocks' /\ LentBlocksAreHeld'
    BY Zenon DEF PInv, WaitGroupCountsBlocks, InUploader, LentBlocksAreHeld, BlocksOf, callVars,
                      fileVars, queueVars, gcsVars, uploaderVars
  <1> QED
    BY <1>3, <1>4, <1>5, Zenon DEF PInv

\* A new file.
LEMMA InitPInv == Init => PInv
  <1> SUFFICES ASSUME Init PROVE PInv
    BY Zenon
  <1>1. PoolOK
    BY BufferedWritesAssumption DEF Init, Pool!Init, PoolOK, Pool!TypeOK, Pool!BlocksAccounted,
                                    Pool!PermitAccounting, Pool!Larger
  <1>2. TypeOK
    BY BufferedWritesAssumption DEF Init, TypeOK, NoBlock, NoObject, InitialSize, Kind
  <1>3. Places /\ Blocks /\ Closed
    BY DEF Init, Places, Blocks, Closed, Quiet
  <1>4. WaitGroupCountsBlocks /\ LentBlocksAreHeld
    BY BufferedWritesAssumption
       DEF Init, Pool!Init, WaitGroupCountsBlocks, InUploader, LentBlocksAreHeld, BlocksOf
  <1> QED
    BY <1>1, <1>2, <1>3, <1>4 DEF PInv

\* Nothing happens to the file.
LEMMA StutterKeeps == ASSUME PInv, UNCHANGED vars PROVE PInv'
  <1> USE DEF vars, poolVars, callVars, fileVars, queueVars, gcsVars, uploaderVars
  <1>1. PoolOK'
    BY PoolSame, Zenon DEF PInv
  <1>2. TypeOK' /\ Places' /\ Blocks' /\ Closed'
    BY DEF PInv, TypeOK, Places, Blocks, Closed, Quiet
  <1>3. WaitGroupCountsBlocks' /\ LentBlocksAreHeld'
    BY Zenon DEF PInv, WaitGroupCountsBlocks, InUploader, LentBlocksAreHeld, BlocksOf
  <1> QED
    BY <1>1, <1>2, <1>3, Zenon DEF PInv

\* The invariant of the pipeline is inductive.
LEMMA NextPInv == PInv /\ [Next]_vars => PInv'
  <1> SUFFICES ASSUME PInv, [Next]_vars PROVE PInv'
    OBVIOUS
  <1>1. CASE NewCall
    <2>1. \A offset \in 0..kind.maxSize, n \in 1..kind.maxSize : offset \in Nat /\ n \in Nat
      BY KindSizes DEF PInv
    <2> QED
      BY <1>1, <2>1, NewHandlerKeeps, WriteKeeps, TruncateKeeps, CallKeeps DEF NewCall
  <1>2. CASE HandlerStep
    BY <1>2, GetBlockKeeps, GetBlockFailsKeeps, CopyKeeps, AppendDoneKeeps, UploadStepKeeps, WaitKeeps,
       RemoteErrorKeeps, FinalizeKeeps, FlushPendingKeeps, ClearBlockKeeps, ClearDoneKeeps,
       DrainBlockKeeps, DrainDoneKeeps DEF HandlerStep
  <1>3. CASE UploaderStep
    BY <1>3, ReceiveKeeps, uploadBlockKeeps, ReleaseBlockKeeps, DoneKeeps DEF UploaderStep
  <1> QED
    BY <1>1, <1>2, <1>3, OthersKeep, StutterKeeps DEF Next

\* The handler, the channel, the wait group, the uploader and the pool agree in every
\* reachable state.
THEOREM PipelineInvariance == Spec => []PInv
  BY InitPInv, NextPInv, PTL DEF Spec

\* A block to be sent finds a slot, and an open channel.
LEMMA SendIsSafe == PInv => SendNeverBlocks /\ ChannelClosedOnce
  <1> SUFFICES ASSUME PInv PROVE SendNeverBlocks /\ ChannelClosedOnce
    OBVIOUS
  <1>1. ASSUME pc = "full" \/ (pc = "last" /\ HasLast)
        PROVE  Len(uploadCh) < uploadChSize /\ (noWriter = "never" => closed = "no")
    <2>1. current # NoBlock /\ call \in {"Write", "Sync", "Flush"} /\ Len(uploadCh) \in Nat
      BY <1>1 DEF PInv, TypeOK, Calls, Places, Blocks, HasLast
    <2>2. lent[File] > Len(uploadCh)
      BY <2>1, FilePool, SMTT(30) DEF PInv, LentBlocksAreHeld, BlocksOf
    <2>3. Len(uploadCh) < uploadChSize
      BY <2>1, <2>2, FilePool, SMTT(30) DEF PInv, uploadChSize
    <2>4. noWriter = "never" => closed = "no"
      BY <2>1, Zenon DEF PInv, TypeOK, Closed
    <2> QED
      BY <2>3, <2>4, Zenon
  <1>2. noWriter = "never" /\ call = "Flush" /\ pc = "wait" => closed = "no"
    BY DEF PInv, TypeOK, Closed
  <1> QED
    BY <1>1, <1>2 DEF SendNeverBlocks, ChannelClosedOnce

\* Streaming writes keep the handler, the channel, the wait group and the uploader in
\* order, for any number of blocks and any file: no block is waited for that is not
\* there, sent to a full or a closed channel, lost or held twice.
THEOREM PipelineStaysInOrder == Spec => []PipelineInOrder
  <1>1. PInv => PipelineInOrder
    BY SendIsSafe DEF PInv, PipelineInOrder
  <1> QED
    BY <1>1, PipelineInvariance, PTL

-----------------------------------------------------------------------------
(* The published object.                                                   *)

\* The object FinalizeUpload makes has every byte, and only those unless disturbed.
LEMMA FinalizeData ==
  ASSUME PInv, DInv, Onward, FinalizeUpload
  PROVE  NoAckedByteMissing' /\ Published'
  <1>1. /\ UNCHANGED <<kind, acked, totalSize, rewound, stream>>
        /\ pc = "remote" /\ call = "Flush" /\ writer \in {"none", "open"}
        /\ object' = Bytes(0, InitialSize) \o stream
    BY Zenon DEF FinalizeUpload, fileVars
  <1>2. /\ todo = <<>> /\ copied = 0 /\ current = NoBlock /\ uploadCh = <<>> /\ uploader # "busy"
        /\ uploadError = "none" /\ Uploading
    BY <1>1, Zenon DEF PInv, TypeOK, Places, Blocks, Quiet, Uploading
  <1>3. /\ InitialSize \in Nat /\ totalSize \in Nat /\ stream \in Seq(Int) /\ Len(stream) \in Nat
        /\ truncatedSize \in Nat \cup {-1}
    BY KindSizes DEF PInv, TypeOK
  <1>4. rewound = "never" => acked = totalSize
    BY <1>1, <1>2, <1>3 DEF DInv, Tasks, Greatest
  <1>5. Bytes(0, InitialSize) \in Seq(Int)
    BY <1>3, BytesType, NatsAreInts
  <1>6. NoAckedByteMissing'
    <2> SUFFICES ASSUME rewound = "never", NEW k \in 0..(totalSize - 1) PROVE Holds(object', k)
      BY <1>1, <1>4, Zenon DEF NoAckedByteMissing, Holds
    <2>1. CASE k < InitialSize
      <3>1. Holds(Bytes(0, InitialSize), k)
        BY <1>3, <2>1, HoldsBytes
      <3> QED
        BY <1>1, <1>3, <1>5, <3>1, HoldsConcat
    <2>2. CASE k >= InitialSize
      <3>1. k \in InitialSize..(totalSize + copied - 1) /\ k \in Nat
        BY <1>2, <1>3, <2>2
      <3>2. Somewhere(k)
        BY <1>2, <3>1 DEF DInv, Covered
      <3>3. ~Holds(current, k)
        BY <1>2, <3>1 DEF Holds, NoBlock
      <3>4. Len(uploadCh) = 0
        BY <1>2, Zenon
      <3>5. Holds(stream, k)
        BY <1>2, <3>2, <3>3, <3>4 DEF Somewhere
      <3> QED
        BY <1>1, <1>3, <1>5, <3>5, HoldsConcat
    <2> QED
      BY <1>3, <2>1, <2>2
  <1>7. Published'
    <2> SUFFICES ASSUME Undisturbed' PROVE object' = Bytes(0, acked)
      BY <1>1, Zenon DEF Published
    <2>1. Undisturbed /\ rewound = "never"
      BY Zenon DEF Onward, Undisturbed
    <2>2. stream = Bytes(InitialSize, Len(stream))
      BY <1>1, <2>1, Zenon DEF DInv, BytesLandAtTheirOffset
    <2>3. InitialSize + Len(stream) = totalSize
      <3>1. QueueEnd + InBlock = totalSize + copied
        BY <1>2, <2>1, Zenon DEF DInv, Chain
      <3>2. QueueEnd = InitialSize + Len(stream) /\ InBlock = 0
        BY <1>2 DEF QueueEnd, HandEnd, StreamEnd, InBlock
      <3> QED
        BY <1>2, <1>3, <3>1, <3>2
    <2> DEFINE n == Len(stream)
    <2>4. Bytes(0, InitialSize) \o Bytes(0 + InitialSize, n) = Bytes(0, InitialSize + n)
      <3> HIDE DEF n
      <3>1. n \in Nat
        BY <1>3 DEF n
      <3> QED
        BY <1>3, <3>1, BytesConcat, Zenon
    <2>5. 0 + InitialSize = InitialSize
      BY <1>3
    <2> QED
      BY <1>1, <1>4, <2>1, <2>2, <2>3, <2>4, <2>5, Zenon
  <1> QED
    BY <1>6, <1>7, Zenon

\* Every other step leaves the object as it is.
LEMMA ObjectStays ==
  ASSUME PInv, DInv, Onward, object' = object PROVE NoAckedByteMissing' /\ Published'
  BY DEF DInv, Onward, NoAckedByteMissing, Published

\* A step that leaves the stream as it is leaves its bytes in place.
LEMMA StreamStays ==
  ASSUME DInv, Onward, stream' = stream PROVE BytesLandAtTheirOffset'
  BY DEF DInv, Onward, BytesLandAtTheirOffset, InitialSize

\* Only FinalizeUpload makes the object, only uploadBlock writes to the stream.
LEMMA WhoWrites ==
  ASSUME PInv, [Next]_vars
  PROVE  (object' = object \/ FinalizeUpload) /\ (stream' = stream \/ uploadBlock)
  <1>1. CASE NewCall
    BY <1>1, Zenon DEF NewCall, NewBWHandler, WriteCall, Truncate, SyncCall, FlushCall, UnlinkCall,
           DestroyCall, gcsVars
  <1>2. CASE HandlerStep
    BY <1>2, Zenon DEF HandlerStep, GetBlock, GetBlockFails, CopyToBlock, AppendDone, UploadFull, UploadLast,
           Upload, UploadFails, Wait, RemoteNoWriter, RemoteFails, FlushPendingWrites, FinalizeUpload,
           ClearBlock, ClearDone, DrainBlock, DrainDone, gcsVars
  <1>3. CASE UploaderStep
    BY <1>3, Zenon DEF UploaderStep, Receive, uploadBlock, ReleaseBlock, Done, Exit, gcsVars
  <1> QED
    BY <1>1, <1>2, <1>3, Zenon DEF Next, OtherFiles, vars, gcsVars

\* The tasks stay in order.
LEMMA TasksKept == ASSUME PInv, PInv', DInv, Onward, [Next]_vars PROVE Tasks'
  <1> USE DEF DInv
  <1>1. CASE NewCall
    <2>1. ASSUME NEW offset \in 0..kind.maxSize, NEW n \in 1..kind.maxSize, WriteCall(offset, n) PROVE Tasks'
      <3>1. offset \in Nat /\ n \in Nat \ {0}
        BY KindSizes DEF PInv
      <3> QED
        BY <2>1, <3>1, WriteTasks, Zenon
    <2>2. ASSUME NEW size \in 0..kind.maxSize, Truncate(size) PROVE Tasks'
      <3>1. /\ acked' = Greatest(totalSize', truncatedSize') /\ todo' = <<>> /\ call' # "Flush"
        BY <2>2 DEF Truncate, PInv, Places, callVars, Greatest
      <3> QED
        BY <3>1, Zenon DEF Tasks
    <2>3. CASE NewBWHandler \/ SyncCall \/ UnlinkCall \/ DestroyCall
      <3>1. SameTasks
        BY <2>3, Zenon DEF SameTasks, NewBWHandler, SyncCall, UnlinkCall, DestroyCall, PInv, Places, fileVars
      <3> QED
        BY <3>1, SameTasksKeep
    <2> QED
      BY <1>1, <2>1, <2>2, <2>3, FlushTasks, Zenon DEF NewCall
  <1>2. CASE HandlerStep /\ ~AppendDone
    <2>1. UNCHANGED <<acked, totalSize, truncatedSize>>
      BY <1>2, Zenon DEF HandlerStep, GetBlock, GetBlockFails, CopyToBlock, UploadFull, UploadLast,
           Upload, UploadFails, Wait, RemoteNoWriter, RemoteFails, FlushPendingWrites, FinalizeUpload,
           ClearBlock, ClearDone, DrainBlock, DrainDone, fileVars
    <2>2. UNCHANGED <<todo, call>> \/ (todo' = <<>> /\ call' # "Flush")
      BY <1>2, Zenon DEF HandlerStep, GetBlock, GetBlockFails, CopyToBlock, UploadFull, UploadLast,
           Upload, UploadFails, Wait, RemoteNoWriter, RemoteFails, FlushPendingWrites, FinalizeUpload,
           ClearBlock, ClearDone, DrainBlock, DrainDone, ReturnError, callVars, PInv, Places
    <2> QED
      BY <2>1, <2>2, SameTasksKeep DEF SameTasks
  <1>3. CASE UploaderStep \/ OtherFiles \/ UNCHANGED vars
    <2>1. SameTasks
      BY <1>3, Zenon DEF UploaderStep, Receive, uploadBlock, ReleaseBlock, Done, Exit, OtherFiles, vars,
             callVars,
                  fileVars, SameTasks
    <2> QED
      BY <2>1, SameTasksKeep
  <1> QED
    BY <1>1, <1>2, <1>3, AppendTasks, Zenon DEF Next, HandlerStep

\* The chain stays whole, and no byte gets lost.
LEMMA ChainKept == ASSUME PInv, PInv', DInv, Onward, [Next]_vars PROVE Chain' /\ Covered'
  <1> USE DEF DInv
  <1>1. Calm => Chain' /\ Covered'
    BY CalmChain, CalmCovered, Zenon
  <1>2. CASE UploadFull \/ UploadLast
    <2>1. CASE (pc = "full" /\ Upload("append")) \/ (pc = "last" /\ HasLast /\ Upload("wait"))
      BY <2>1, UploadData, Zenon
    <2> QED
      BY <1>1, <1>2, <2>1, EndCalm, Zenon DEF UploadFull, UploadLast
  <1>3. CASE HandlerStep /\ ~UploadFull /\ ~UploadLast
    BY <1>1, <1>3, GetBlockData, GetBlockFailsCalm, CopyChain, CopyCovered, AppendDoneData, EndCalm, DrainData
       DEF HandlerStep
  <1>4. CASE UploaderStep
    BY <1>1, <1>4, ReceiveData, uploadBlockData, OthersCalm, Zenon DEF UploaderStep
  <1> QED
    BY <1>1, <1>2, <1>3, <1>4, NewCallCalm, OthersCalm DEF Next

\* The invariant of the data is inductive, given that of the pipeline.
LEMMA NextDInv == PInv /\ PInv' /\ DInv /\ [Next]_vars => DInv'
  <1> SUFFICES ASSUME PInv, PInv', DInv, [Next]_vars PROVE DInv'
    OBVIOUS
  <1>1. Onward
    BY StepOnward, Zenon
  <1>2. NoAckedByteMissing' /\ Published'
    BY <1>1, FinalizeData, ObjectStays, WhoWrites, Zenon
  <1>3. BytesLandAtTheirOffset'
    BY <1>1, StreamStays, WhoWrites, uploadBlockData DEF DInv
  <1> QED
    BY <1>1, <1>2, <1>3, TasksKept, ChainKept DEF DInv

\* A new file.
LEMMA InitDInv == Init => DInv
  <1> SUFFICES ASSUME Init PROVE DInv
    OBVIOUS
  <1>1. PInv /\ InitialSize \in Nat
    BY InitPInv, KindSizes, Zenon DEF PInv
  <1>2. /\ totalSize = InitialSize /\ copied = 0 /\ acked = InitialSize /\ truncatedSize = -1
        /\ todo = <<>> /\ call = "none" /\ stream = <<>> /\ uploadCh = <<>> /\ current = NoBlock
        /\ uploader = "off" /\ object = NoObject
    BY DEF Init
  <1>3. Len(stream) = 0 /\ Len(uploadCh) = 0 /\ Bytes(InitialSize, 0) = <<>> /\ NoBlock # <<>>
    BY <1>2 DEF Bytes, NoBlock
  <1>4. Tasks
    BY <1>1, <1>2 DEF Tasks, Greatest
  <1>5. BytesLandAtTheirOffset /\ NoAckedByteMissing /\ Published
    BY <1>2, <1>3, Zenon DEF BytesLandAtTheirOffset, NoAckedByteMissing, Published
  <1>6. Chain
    <2>1. QueueEnd = InitialSize /\ InBlock = 0
      BY <1>1, <1>2, <1>3 DEF QueueEnd, HandEnd, StreamEnd, InBlock
    <2> QED
      BY <1>1, <1>2, <1>3, <2>1 DEF Chain
  <1>7. Covered
    <2>1. InitialSize..(totalSize + copied - 1) = {}
      BY <1>1, <1>2
    <2> QED
      BY <2>1 DEF Covered
  <1> QED
    BY <1>4, <1>5, <1>6, <1>7 DEF DInv

\* The bytes are where they belong in every reachable state.
THEOREM DataInvariance == Spec => []DInv
  BY InitDInv, NextDInv, PipelineInvariance, PTL DEF Spec

\* The bytes given to the upload are at the offset the caller wrote them to, for blocks
\* and chunks of any size and any sequence of calls.
THEOREM BytesAreInPlace == Spec => []BytesLandAtTheirOffset
  <1>1. DInv => BytesLandAtTheirOffset
    BY DEF DInv
  <1> QED
    BY <1>1, DataInvariance, PTL

\* A published object lacks no acknowledged byte, whatever failed on the way.
THEOREM NothingAckedIsMissing == Spec => []NoAckedByteMissing
  <1>1. DInv => NoAckedByteMissing
    BY DEF DInv
  <1> QED
    BY <1>1, DataInvariance, PTL

\* Streaming writes implement a file that is published at most once and whole.
THEOREM ImplementsStreamedFile == Spec => PublishedWhole
  <1>1. Init => Abstract!Init
    <2> SUFFICES ASSUME Init PROVE Abstract!Init
      OBVIOUS
    <2>1. kind \in Kinds /\ acked = kind.initialSize /\ object = NoObject
      BY DEF Init, InitialSize
    <2> QED
      BY <2>1, Zenon DEF Abstract!Init
  <1>2. PInv /\ PInv' /\ DInv /\ DInv' /\ [Next]_vars => [Abstract!Next]_(Abstract!vars)
    <2> SUFFICES ASSUME PInv, PInv', DInv, DInv', [Next]_vars PROVE [Abstract!Next]_(Abstract!vars)
      OBVIOUS
    <2> DEFINE published == IF Undisturbed THEN object ELSE NoObject
    <2>1. Onward
      BY StepOnward
    <2>2. CASE object' # object
      <3>1. FinalizeUpload /\ object = NoObject /\ acked' = acked
        BY <2>1, <2>2, WhoWrites, Zenon DEF Onward, FinalizeUpload, fileVars
      <3>2. CASE Undisturbed'
        <4>1. object' = Bytes(0, acked)
          BY <2>2, <3>1, <3>2 DEF DInv, Published
        <4>2. object' = [i \in 1..acked |-> i - 1]
          BY <4>1 DEF Bytes
        <4> QED
          BY <3>1, <3>2, <4>2 DEF Abstract!Next, Abstract!Publish
      <3>3. CASE ~Undisturbed'
        BY <3>1, <3>3 DEF Abstract!vars
      <3> QED
        BY <3>2, <3>3, Zenon
    <2>3. CASE object' = object /\ object = NoObject
      <3>1. published' = NoObject /\ published = NoObject /\ acked' \in Nat
        BY <2>3 DEF PInv, TypeOK
      <3> QED
        BY <3>1, Zenon DEF Abstract!Next, Abstract!Resize
    <2>4. CASE object' = object /\ object # NoObject
      <3>1. acked' = acked /\ (Undisturbed' <=> Undisturbed)
        BY <2>1, <2>4 DEF Onward
      <3> QED
        BY <2>4, <3>1, Zenon DEF Abstract!vars
    <2> QED
      BY <2>2, <2>3, <2>4
  <1> QED
    BY <1>1, <1>2, PipelineInvariance, DataInvariance, PTL DEF Spec, PublishedWhole, Abstract!Spec
=============================================================================
