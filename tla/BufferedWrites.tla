--------------------------- MODULE BufferedWrites ---------------------------
(***************************************************************************)
(* internal/bufferedwrites: one file written by streaming.  The handler    *)
(* (BufferedWriteHandler) copies the data of each write into blocks of its *)
(* pool and hands full blocks to the uploader goroutine of UploadHandler,  *)
(* which copies them in order into one resumable upload.                   *)
(*                                                                         *)
(* The inode's lock serialises the calls of the handler; the uploader and  *)
(* the pools of the other files (module BlockPool) run concurrently with   *)
(* them.  The byte written at file offset k is the number k, so a stream   *)
(* that is out of place is visible.                                        *)
(***************************************************************************)
EXTENDS Integers, Sequences, FiniteSets

CONSTANTS
    Pools,             \* the pools sharing globalMaxBlocksSem
    File,              \* the pool of this handler
    MaxBlocks,         \* MaxBlocksPerFile
    SemLimit,          \* capacity of globalMaxBlocksSem
    MaxLost,           \* bound: failures of createBlockFunc
    BlockSize,         \* bytes in a block
    ChunkSize,         \* bytes of dummy data appended at a time
    Kinds,             \* the kinds of file considered, see Kind
    MaxWg              \* bound: how far failing uploads may drive the wait group

\* A file to be streamed: BucketType().Zonal, the size of the unfinalized object being
\* appended to (0 if there is none), and whether creating the writer may fail, which
\* CreateAppendableObjectWriter does (appends only).  The others are bounds: whether
\* createBlockFunc may fail, whether callers write below totalSize, whether other files use
\* blocks, and the size of the file.
Kind == [zonal : BOOLEAN, initialSize : Nat, writerMayFail : BOOLEAN, blockMayFail : BOOLEAN,
         rewinds : BOOLEAN, others : BOOLEAN, maxSize : Nat]

ASSUME BufferedWritesAssumption ==
    /\ File \in Pools
    /\ MaxBlocks \in Nat \ {0} /\ SemLimit \in Nat /\ MaxLost \in Nat
    /\ BlockSize \in Nat \ {0} /\ ChunkSize \in Nat \ {0}
    /\ MaxWg \in Nat
    /\ Kinds \subseteq Kind
    /\ \A k \in Kinds : k.writerMayFail \/ k.initialSize > 0 => k.zonal

VARIABLES
    kind,          \* the kind of this file, fixed
    phase, freeBlocksCh, totalBlocks, lent, sem, held, lost, \* module BlockPool
    call,          \* the handler call in progress, "idle", "none" or "gone"
    pc,            \* where that call is
    todo,          \* the appendBuffer calls it still has to make
    copied,        \* dataWritten of the first of them
    current,       \* block being filled, or NoBlock
    totalSize, truncatedSize,
    uploadCh, closed, wg, writer, uploadError, \* UploadHandler
    uploader,      \* the uploader goroutine
    inHand,        \* the block it holds
    stream,        \* bytes accepted by the writer
    object,        \* content of the finalized object, or NoObject
    acked,         \* auxiliary: file size the successful calls add up to
    noWriter,      \* auxiliary: whether ensureWriter ever failed
    rewound        \* auxiliary: whether a write below totalSize was ever accepted

poolVars == <<phase, freeBlocksCh, totalBlocks, lent, sem, held, lost>>
callVars == <<call, pc, todo, copied>>
fileVars == <<current, totalSize, truncatedSize, acked, rewound>>
queueVars == <<uploadCh, closed, wg>>
gcsVars == <<kind, writer, uploadError, stream, object, noWriter>>
uploaderVars == <<uploader, inHand>>
vars == <<poolVars, callVars, fileVars, queueVars, gcsVars, uploaderVars>>

\* NewBWHandler asks for one reserved block.
Pool == INSTANCE BlockPool WITH ReservedBlocks <- 1

Zonal == kind.zonal
InitialSize == kind.initialSize
WriterMayFail == kind.writerMayFail

NoBlock == <<-1>>
NoObject == <<-1>>
Bytes(from, n) == [i \in 1..n |-> from + i - 1]
Least(a, b) == IF a <= b THEN a ELSE b
Greatest(a, b) == IF a >= b THEN a ELSE b

Init ==
    /\ Pool!Init /\ kind \in Kinds
    /\ call = "none" /\ pc = "none" /\ todo = <<>> /\ copied = 0
    /\ current = NoBlock
    /\ totalSize = InitialSize /\ truncatedSize = -1 /\ acked = InitialSize /\ rewound = "never"
    /\ uploadCh = <<>> /\ closed = "no" /\ wg = 0
    /\ writer = "none" /\ uploadError = "none"
    /\ stream = <<>> /\ object = NoObject /\ noWriter = "never"
    /\ uploader = "off" /\ inHand = NoBlock

-----------------------------------------------------------------------------
(* The calls.  A call that fails at once changes nothing and is left out.  *)

\* The call returns without completing what it had to do.
ReturnError == call' = "idle" /\ pc' = "none" /\ todo' = <<>> /\ copied' = 0
Return == ReturnError

NewBWHandler ==
    /\ call = "none"
    /\ Pool!NewGenBlockPool(File)
    /\ call' = "idle"
    /\ UNCHANGED <<pc, todo, copied, fileVars, queueVars, gcsVars, uploaderVars>>

\* writeDataForTruncatedSize: dummy data up to truncatedSize, a chunk at a time.
writeDataForTruncatedSize ==
    LET diff == truncatedSize - totalSize
        chunks == (diff + ChunkSize - 1) \div ChunkSize
    IN IF diff <= 0 THEN <<>>
       ELSE [i \in 1..chunks |->
               Bytes(totalSize + (i - 1) * ChunkSize,
                     Least(ChunkSize, diff - (i - 1) * ChunkSize))]

\* (mutant: no data is filled in before a write at the truncated size)
WriteCall_NoFill(offset, n) ==
    /\ call = "idle" /\ uploadError = "none"
    /\ offset = totalSize \/ offset = truncatedSize
    /\ kind.rewinds \/ offset >= totalSize
    /\ call' = "Write" /\ pc' = "append" /\ copied' = 0
    /\ rewound' = IF offset < totalSize THEN "once" ELSE rewound
    /\ todo' = <<Bytes(offset, n)>>
    /\ UNCHANGED <<poolVars, current, totalSize, truncatedSize, acked, queueVars, gcsVars,
                   uploaderVars>>

WriteCall(offset, n) ==
    /\ call = "idle" /\ uploadError = "none"
    /\ offset = totalSize \/ offset = truncatedSize
    /\ kind.rewinds \/ offset >= totalSize
    /\ call' = "Write" /\ pc' = "append" /\ copied' = 0
    /\ rewound' = IF offset < totalSize THEN "once" ELSE rewound
    /\ todo' = (IF offset = truncatedSize THEN writeDataForTruncatedSize ELSE <<>>)
                 \o <<Bytes(offset, n)>>
    /\ UNCHANGED <<poolVars, current, totalSize, truncatedSize, acked, queueVars, gcsVars,
                   uploaderVars>>

Truncate(size) ==
    /\ call = "idle"
    /\ size >= totalSize
    /\ truncatedSize' = size
    /\ acked' = Greatest(totalSize, size)
    /\ UNCHANGED <<poolVars, callVars, current, totalSize, rewound, queueVars, gcsVars, uploaderVars>>

SyncCall ==
    /\ call = "idle"
    /\ call' = "Sync" /\ pc' = "last"
    /\ UNCHANGED <<poolVars, todo, copied, fileVars, queueVars, gcsVars, uploaderVars>>

\* (mutant: an earlier error does not stop Flush)
FlushCall_AfterError ==
    /\ call = "idle"
    /\ call' = "Flush" /\ todo' = writeDataForTruncatedSize /\ copied' = 0
    /\ pc' = IF todo' = <<>> THEN "last" ELSE "append"
    /\ UNCHANGED <<poolVars, fileVars, queueVars, gcsVars, uploaderVars>>

FlushCall ==
    /\ call = "idle" /\ uploadError = "none"
    /\ call' = "Flush" /\ todo' = writeDataForTruncatedSize /\ copied' = 0
    /\ pc' = IF todo' = <<>> THEN "last" ELSE "append"
    /\ UNCHANGED <<poolVars, fileVars, queueVars, gcsVars, uploaderVars>>

\* Unlink cancels the upload if a writer exists, then waits for the uploader.
UnlinkCall ==
    /\ call = "idle"
    /\ call' = "Unlink" /\ pc' = "wait"
    /\ writer' = IF writer = "open" THEN "cancelled" ELSE writer
    /\ UNCHANGED <<kind, poolVars, todo, copied, fileVars, queueVars, uploadError, stream, object,
                   noWriter, uploaderVars>>

DestroyCall ==
    /\ call = "idle"
    /\ call' = "Destroy" /\ pc' = "drain"
    /\ UNCHANGED <<poolVars, todo, copied, fileVars, queueVars, gcsVars, uploaderVars>>

-----------------------------------------------------------------------------
(* appendBuffer: the loop over the data of a call.                         *)

GetBlock ==
    /\ pc = "append" /\ copied < Len(Head(todo)) /\ current = NoBlock
    /\ Pool!GetFree(File) \/ Pool!GetNew(File)
    /\ current' = <<>>
    /\ UNCHANGED <<callVars, totalSize, truncatedSize, acked, rewound, queueVars, gcsVars,
                   uploaderVars>>

GetBlockFails ==
    /\ pc = "append" /\ copied < Len(Head(todo)) /\ current = NoBlock
    /\ kind.blockMayFail /\ Pool!GetFails(File)
    /\ ReturnError
    /\ UNCHANGED <<fileVars, queueVars, gcsVars, uploaderVars>>

CopyToBlock ==
    /\ pc = "append" /\ copied < Len(Head(todo)) /\ current # NoBlock
    /\ LET n == Least(BlockSize - Len(current), Len(Head(todo)) - copied)
       IN /\ current' = current \o SubSeq(Head(todo), copied + 1, copied + n)
          /\ copied' = copied + n
    /\ pc' = IF Len(current') = BlockSize THEN "full" ELSE "append"
    /\ UNCHANGED <<poolVars, call, todo, totalSize, truncatedSize, acked, rewound, queueVars,
                   gcsVars, uploaderVars>>

\* (mutant: the data is never counted)
AppendDone_NoAccount ==
    /\ pc = "append" /\ copied = Len(Head(todo))
    /\ copied' = 0 /\ todo' = Tail(todo)
    /\ IF todo' # <<>> THEN UNCHANGED <<call, pc, acked>>
       ELSE IF call = "Write" THEN call' = "idle" /\ pc' = "none" /\ UNCHANGED acked
       ELSE pc' = "last" /\ UNCHANGED <<call, acked>>
    /\ UNCHANGED <<poolVars, current, totalSize, truncatedSize, rewound, queueVars, gcsVars,
                   uploaderVars>>

\* The end of one appendBuffer: only now is its data counted.
AppendDone ==
    /\ pc = "append" /\ copied = Len(Head(todo))
    /\ totalSize' = totalSize + copied
    /\ copied' = 0 /\ todo' = Tail(todo)
    /\ IF todo' # <<>> THEN UNCHANGED <<call, pc, acked>>
       ELSE IF call = "Write"
       THEN call' = "idle" /\ pc' = "none" /\ acked' = Greatest(totalSize', truncatedSize)
       ELSE pc' = "last" /\ UNCHANGED <<call, acked>>
    /\ UNCHANGED <<poolVars, current, truncatedSize, rewound, queueVars, gcsVars, uploaderVars>>

-----------------------------------------------------------------------------
(* UploadHandler, called by the handler.                                   *)

\* Capacity of uploadCh; (mutant: one less)
uploadChSize_OneLess == MaxBlocks - 1
uploadChSize == MaxBlocks

\* (mutant: a block is counted only when the uploader is started)
Upload_CountsOnce(next) ==
    /\ closed = "no" /\ Len(uploadCh) < uploadChSize
    /\ wg' = IF uploader = "off" THEN wg + 1 ELSE wg
    /\ writer' = IF writer = "none" THEN "open" ELSE writer
    /\ uploader' = IF uploader = "off" THEN "idle" ELSE uploader
    /\ uploadCh' = Append(uploadCh, current)
    /\ current' = NoBlock /\ pc' = next
    /\ UNCHANGED <<kind, poolVars, call, todo, copied, totalSize, truncatedSize, acked, rewound, closed,
                   uploadError, stream, object, noWriter, inHand>>

\* Upload: count the block, make sure writer and uploader exist, queue the block.
Upload(next) ==
    /\ closed = "no" /\ Len(uploadCh) < uploadChSize
    /\ wg' = wg + 1
    /\ writer' = IF writer = "none" THEN "open" ELSE writer
    /\ uploader' = IF uploader = "off" THEN "idle" ELSE uploader
    /\ uploadCh' = Append(uploadCh, current)
    /\ current' = NoBlock /\ pc' = next
    /\ UNCHANGED <<kind, poolVars, call, todo, copied, totalSize, truncatedSize, acked, rewound, closed,
                   uploadError, stream, object, noWriter, inHand>>

\* Upload when the writer cannot be created: the block stays the current one.
UploadFails ==
    /\ WriterMayFail /\ writer = "none"
    /\ wg < MaxWg
    /\ wg' = wg + 1
    /\ ReturnError
    /\ noWriter' = "once"
    /\ UNCHANGED <<kind, poolVars, fileVars, uploadCh, closed, writer, uploadError, stream, object,
                   uploaderVars>>

UploadFull == pc = "full" /\ (Upload("append") \/ UploadFails)

\* Sync leaves an empty block in place, Flush uploads it too.
HasLast == current # NoBlock /\ (call = "Flush" \/ current # <<>>)

UploadLast ==
    /\ pc = "last"
    /\ \/ HasLast /\ (Upload("wait") \/ UploadFails)
       \/ /\ ~HasLast /\ pc' = "wait"
          /\ UNCHANGED <<poolVars, call, todo, copied, fileVars, queueVars, gcsVars, uploaderVars>>

StartClear(all) == Pool!ClearFreeBlockChannel(File, all) /\ pc' = "clear"

\* (mutant: Finalize does not wait for the uploader)
Wait_NotForFlush ==
    /\ pc = "wait" /\ (wg = 0 \/ call = "Flush")
    /\ \/ /\ call = "Flush" /\ closed = "no"
          /\ closed' = "yes" /\ pc' = "remote" /\ UNCHANGED poolVars
       \/ call = "Sync" /\ Zonal /\ pc' = "remote" /\ UNCHANGED <<poolVars, closed>>
       \/ call = "Sync" /\ ~Zonal /\ StartClear(FALSE) /\ UNCHANGED closed
       \/ call = "Unlink" /\ StartClear(FALSE) /\ UNCHANGED closed
    /\ UNCHANGED <<call, todo, copied, fileVars, uploadCh, wg, gcsVars, uploaderVars>>

\* AwaitBlocksUpload, and the wait at the head of Finalize and CancelUpload.
\* Finalize then closes the channel; closing it twice would panic.
Wait ==
    /\ pc = "wait" /\ wg = 0
    /\ \/ /\ call = "Flush" /\ closed = "no"
          /\ closed' = "yes" /\ pc' = "remote" /\ UNCHANGED poolVars
       \/ call = "Sync" /\ Zonal /\ pc' = "remote" /\ UNCHANGED <<poolVars, closed>>
       \/ call = "Sync" /\ ~Zonal /\ StartClear(FALSE) /\ UNCHANGED closed
       \/ call = "Unlink" /\ StartClear(FALSE) /\ UNCHANGED closed
    /\ UNCHANGED <<call, todo, copied, fileVars, uploadCh, wg, gcsVars, uploaderVars>>

\* ensureWriter fails in Finalize or FlushPendingWrites: uploadError is not set.
RemoteNoWriter ==
    /\ pc = "remote" /\ WriterMayFail /\ writer = "none"
    /\ ReturnError
    /\ noWriter' = "once"
    /\ UNCHANGED <<kind, poolVars, fileVars, queueVars, writer, uploadError, stream, object,
                   uploaderVars>>

\* FinalizeUpload or FlushPendingWrites fails; it always does once the writer has failed.
RemoteFails ==
    /\ pc = "remote"
    /\ writer' = IF writer = "none" THEN "open" ELSE writer
    /\ uploadError' = "set"
    /\ ReturnError
    /\ UNCHANGED <<kind, poolVars, fileVars, queueVars, stream, object, noWriter, uploaderVars>>

\* Finalize: the object is what the writer was given.
FinalizeUpload ==
    /\ pc = "remote" /\ call = "Flush" /\ writer \in {"none", "open"}
    /\ writer' = "open"
    /\ object' = Bytes(0, InitialSize) \o stream
    /\ StartClear(TRUE)
    /\ UNCHANGED <<kind, call, todo, copied, fileVars, queueVars, uploadError, stream, noWriter,
                   uploaderVars>>

\* FlushPendingWrites, then Sync's comparison of the object's size with totalSize.
FlushPendingWrites ==
    /\ pc = "remote" /\ call = "Sync" /\ writer \in {"none", "open"}
    /\ writer' = "open"
    /\ IF InitialSize + Len(stream) = totalSize
       THEN StartClear(FALSE) /\ UNCHANGED <<call, todo, copied>>
       ELSE ReturnError /\ UNCHANGED poolVars
    /\ UNCHANGED <<kind, fileVars, queueVars, uploadError, stream, object, noWriter,
                   uploaderVars>>

ClearBlock ==
    /\ pc = "clear" /\ Pool!ClearBlock(File)
    /\ UNCHANGED <<callVars, fileVars, queueVars, gcsVars, uploaderVars>>

\* The call is over.  The inode drops the handler after Flush and Destroy; a block
\* that is still the current one then has no owner.
ClearDone ==
    /\ pc = "clear" /\ Pool!ClearDone(File)
    /\ pc' = "none"
    /\ call' = IF call \in {"Flush", "Destroy"} THEN "gone" ELSE "idle"
    /\ UNCHANGED <<todo, copied, fileVars, queueVars, gcsVars, uploaderVars>>

\* Destroy drains the channel, competing with the uploader for the blocks.
DrainBlock ==
    /\ pc = "drain" /\ uploadCh # <<>>
    /\ Pool!Release(File)
    /\ uploadCh' = Tail(uploadCh) /\ wg' = wg - 1
    /\ UNCHANGED <<callVars, fileVars, closed, gcsVars, uploaderVars>>

\* (mutant: the channel is left open)
DrainDone_KeepsOpen ==
    /\ pc = "drain" /\ uploadCh = <<>>
    /\ StartClear(TRUE)
    /\ UNCHANGED <<call, todo, copied, fileVars, queueVars, gcsVars, uploaderVars>>

DrainDone ==
    /\ pc = "drain" /\ uploadCh = <<>>
    /\ closed' = "yes"
    /\ StartClear(TRUE)
    /\ UNCHANGED <<call, todo, copied, fileVars, uploadCh, wg, gcsVars, uploaderVars>>

-----------------------------------------------------------------------------
(* The uploader goroutine.                                                 *)

Receive ==
    /\ uploader = "idle" /\ uploadCh # <<>>
    /\ inHand' = Head(uploadCh) /\ uploadCh' = Tail(uploadCh)
    /\ uploader' = "busy"
    /\ UNCHANGED <<poolVars, callVars, fileVars, closed, wg, gcsVars>>

\* (mutant: after an error the following blocks are still uploaded)
uploadBlock_Continues ==
    /\ uploader = "busy"
    /\ uploader' = "copied"
    /\ \/ writer = "cancelled" /\ UNCHANGED gcsVars
       \/ /\ writer # "cancelled"
          /\ stream' = stream \o inHand /\ UNCHANGED <<kind, writer, uploadError, object, noWriter>>
       \/ UNCHANGED gcsVars
    /\ UNCHANGED <<poolVars, callVars, fileVars, queueVars, inHand>>

\* uploadBlock: nothing after an error; cancellation (Unlink) is not an error.
uploadBlock ==
    /\ uploader = "busy"
    /\ uploader' = "copied"
    /\ \/ (uploadError = "set" \/ writer = "cancelled") /\ UNCHANGED gcsVars
       \/ /\ uploadError = "none" /\ writer = "open"
          /\ stream' = stream \o inHand /\ UNCHANGED <<kind, writer, uploadError, object, noWriter>>
       \/ /\ uploadError = "none" /\ writer = "open"
          /\ writer' = "broken" /\ uploadError' = "set" /\ UNCHANGED <<kind, stream, object, noWriter>>
    /\ UNCHANGED <<poolVars, callVars, fileVars, queueVars, inHand>>

\* (mutant: the block is kept)
ReleaseBlock_Keeps ==
    /\ uploader = "copied"
    /\ uploader' = "released" /\ inHand' = NoBlock
    /\ UNCHANGED <<poolVars, callVars, fileVars, queueVars, gcsVars>>

ReleaseBlock ==
    /\ uploader = "copied"
    /\ Pool!Release(File)
    /\ uploader' = "released" /\ inHand' = NoBlock
    /\ UNCHANGED <<callVars, fileVars, queueVars, gcsVars>>

Done ==
    /\ uploader = "released"
    /\ wg' = wg - 1
    /\ uploader' = "idle"
    /\ UNCHANGED <<poolVars, callVars, fileVars, uploadCh, closed, gcsVars, inHand>>

Exit ==
    /\ uploader = "idle" /\ uploadCh = <<>> /\ closed = "yes"
    /\ uploader' = "exited"
    /\ UNCHANGED <<poolVars, callVars, fileVars, queueVars, gcsVars, inHand>>

-----------------------------------------------------------------------------
HandlerStep ==
    \/ GetBlock \/ GetBlockFails \/ CopyToBlock \/ AppendDone
    \/ UploadFull \/ UploadLast \/ Wait
    \/ RemoteNoWriter \/ RemoteFails \/ FinalizeUpload \/ FlushPendingWrites
    \/ ClearBlock \/ ClearDone \/ DrainBlock \/ DrainDone

UploaderStep == Receive \/ uploadBlock \/ ReleaseBlock \/ Done \/ Exit

NewCall ==
    \/ NewBWHandler
    \/ \E offset \in 0..kind.maxSize, n \in 1..kind.maxSize :
         offset + n <= kind.maxSize /\ totalSize + n <= kind.maxSize /\ WriteCall(offset, n)
    \/ \E size \in 0..kind.maxSize : Truncate(size)
    \/ SyncCall \/ FlushCall \/ UnlinkCall \/ DestroyCall

\* The other files share the semaphore.
OtherFiles ==
    /\ kind.others /\ \E p \in Pools \ {File} : Pool!PoolStep(p)
    /\ UNCHANGED <<callVars, fileVars, queueVars, gcsVars, uploaderVars>>

Next == NewCall \/ HandlerStep \/ UploaderStep \/ OtherFiles

\* A running call and the uploader are goroutines that are not descheduled forever.
Spec ==
    Init /\ [][Next]_vars /\ WF_vars(HandlerStep) /\ WF_vars(UploaderStep)
-----------------------------------------------------------------------------
(* Properties.                                                             *)

Calls == {"Write", "Sync", "Flush", "Unlink", "Destroy"}

\* Every variable of the handler and of the upload handler has its type.
TypeOK ==
    /\ kind \in Kinds
    /\ call \in {"none", "idle", "gone"} \cup Calls
    /\ pc \in {"none", "append", "full", "last", "wait", "remote", "clear", "drain"}
    /\ todo \in Seq(Seq(Nat)) /\ copied \in Nat
    /\ current \in Seq(Int) /\ inHand \in Seq(Int)
    /\ totalSize \in Nat /\ acked \in Nat /\ truncatedSize \in Nat \cup {-1}
    /\ uploadCh \in Seq(Seq(Int)) /\ closed \in {"no", "yes"} /\ wg \in Nat
    /\ writer \in {"none", "open", "cancelled", "broken"}
    /\ uploadError \in {"none", "set"}
    /\ uploader \in {"off", "idle", "busy", "copied", "released", "exited"}
    /\ stream \in Seq(Int) /\ object \in Seq(Int)

InUploader == IF uploader \in {"busy", "copied", "released"} THEN 1 ELSE 0

\* CancelUpload "wait[s] for all in progress buffers to be added to the free channel",
\* Finalize and Sync likewise: the wait group counts exactly the blocks in the channel
\* and the one the uploader is working on, so nobody waits for a block that is not there
\* and nobody goes on while one is being uploaded.  Once Upload has failed to make a writer,
\* after wg.Add(1), it may count too many but never too few.
WaitGroupCountsBlocks ==
    /\ wg >= Len(uploadCh) + InUploader
    /\ noWriter = "never" => wg = Len(uploadCh) + InUploader

\* Upload never blocks on the channel while it holds the inode's lock: the channel has a
\* slot for every block the pool can create.
SendNeverBlocks ==
    pc = "full" \/ (pc = "last" /\ HasLast) => Len(uploadCh) < uploadChSize

\* The channel is closed at most once and nothing is sent after that, by Flush, by Write
\* or by Destroy ("close the channel if not done"): either would panic.  A Finalize that
\* found no writer closed the channel and left no error, so it is the exception.
ChannelClosedOnce ==
    noWriter = "never" =>
        /\ pc = "full" \/ (pc = "last" /\ HasLast) => closed = "no"
        /\ call = "Flush" /\ pc = "wait" => closed = "no"

BlocksOf(x) == IF x = NoBlock THEN 0 ELSE 1

\* Every block the pool lent to this file is the current one, in the channel or in the
\* uploader's hands: none is lost on the way and none is in two places.  A file whose last
\* byte was flushed keeps no block and no permit of the global budget.
LentBlocksAreHeld ==
    /\ lent[File] = BlocksOf(current) + Len(uploadCh)
                      + (IF uploader \in {"busy", "copied"} THEN 1 ELSE 0)
    /\ object # NoObject /\ call = "gone" => totalBlocks[File] = 0 /\ held[File] = lost[File]

\* The handler, the channel, the wait group and the uploader agree at every step of both
\* goroutines (upload_handler.go): no block is waited for that is not there, sent to a full
\* or a closed channel, lost or held twice.
PipelineInOrder ==
    TypeOK /\ WaitGroupCountsBlocks /\ SendNeverBlocks /\ ChannelClosedOnce /\ LentBlocksAreHeld

\* No call so far was refused a block or the writer, or accepted below totalSize.  After
\* the first, a retry uploads the bytes again that the refused call left behind; the last
\* is a write at truncatedSize, which no write resets (buffered_write_handler.go:138).
Undisturbed == lost[File] = 0 /\ noWriter = "never" /\ rewound = "never"

\* The bytes given to the upload are at the offset the caller wrote them to, whatever mix
\* of writes, truncates, syncs and failures came before.  Destroy is an exception: it gives
\* up on the upload and takes queued blocks away from the uploader.
BytesLandAtTheirOffset ==
    call # "Destroy" /\ (call = "gone" => object # NoObject) /\ Undisturbed
      => stream = Bytes(InitialSize, Len(stream))

\* Whatever fails, a published object lacks no byte of an acknowledged write or truncate
\* (but for a write below totalSize, see Undisturbed).
NoAckedByteMissing ==
    object # NoObject /\ rewound = "never" =>
        \A k \in 0..(acked - 1) : \E i \in 1..Len(object) : object[i] = k

\* Every call of the handler returns, also when the pool is exhausted by other files and
\* the upload fails: the inode's lock is not held forever (the wait group that counts too
\* many, above, is the exception).  The uploader goroutine does not outlive the handler.
CallsReturn ==
    /\ (call \in Calls) ~> (call \in {"idle", "gone"} \/ noWriter = "once")
    /\ (call = "gone") ~> (uploader \in {"off", "exited"})

\* Refinement mapping: an object published after a disturbance is not promised to be whole.
Abstract ==
    INSTANCE StreamedFile WITH size <- acked, InitialSizes <- {k.initialSize : k \in Kinds},
                               object <- IF Undisturbed THEN object ELSE NoObject

\* Streaming writes implement a file that is published once and whole: a Flush that
\* succeeds has uploaded every acknowledged byte, in place.
PublishedWhole == Abstract!Spec
=============================================================================
