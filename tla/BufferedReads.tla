--------------------------- MODULE BufferedReads ---------------------------
(***************************************************************************)
(* internal/bufferedread: the reader that prefetches blocks of an object   *)
(* ahead of a sequential reader and hands slices of those blocks straight  *)
(* to the kernel; internal/workerpool, whose workers download the blocks;  *)
(* internal/block/prefetch_block.go, the block they share.  A reader owns  *)
(* one pool of BlockPool.                                                  *)
(*                                                                         *)
(* ReadAt, Destroy and the callbacks of one reader exclude each other by   *)
(* p.mu, but the holder of p.mu waits for downloads: op[r] is the call     *)
(* that holds it, split at every wait and at every block it schedules.     *)
(* Offsets and sizes are counted in units, BlockSize of which make a       *)
(* block.                                                                  *)
(***************************************************************************)
EXTENDS BlockPool, Sequences

CONSTANTS
    BlockSize,       \* PrefetchBlockSizeBytes, in units
    PriorityWorkers, \* workers that only serve priorityCh
    NormalWorkers,   \* workers that serve both channels
    TasksPerWorker,  \* bound: 200 and 5000 tasks per worker in the code
    Kinds            \* what the readers of a behaviour are given: see KindOK

VARIABLES
    kind,       \* the configuration and the bounds of this behaviour
    rd,         \* per reader: queue, next, seeks, num, calls
    buf,        \* per reader: its blocks with their queue entry
    op,         \* per reader: the ReadAt or Destroy in progress
    size,       \* per reader: object.Size
    pending,    \* per reader: responses the kernel has not finished with
    cb,         \* per reader: the entries a running callback has still to visit
    abandoned,  \* auxiliary, per reader: slices of responses nobody received
    priorityCh, normalCh, \* channels of <<reader, block>>
    busy,       \* per worker: the task it executes
    panicked    \* auxiliary: the panics and nil dereferences that happened

brvars == <<kind, rd, buf, op, size, pending, cb, abandoned,
            priorityCh, normalCh, busy, panicked>>

Workers == PriorityWorkers \cup NormalWorkers
Blocks == 1..MaxBlocks
None == [r |-> "none", b |-> 0, end |-> 0]
Smaller(a, b) == IF a <= b THEN a ELSE b

\* readers: pools that belong to buffered readers; size: of the objects; reads:
\* the offsets and lengths asked for; init, threshold: InitialPrefetchBlockCnt and
\* RandomSeekThreshold; faults, interrupts, slow, grow: downloads may fail, waits
\* may be interrupted, callbacks may outlast Destroy's 10 s, objects may be
\* appended to; calls: bound on the reads of a reader.
KindOK(k) ==
    /\ k.readers \subseteq Pools
    /\ k.size \in Nat /\ k.init \in Nat \ {0} /\ k.threshold \in Nat /\ k.calls \in Nat
    /\ \A x \in {k.faults, k.interrupts, k.slow, k.grow} : x \in BOOLEAN

ASSUME ReadsAssumption ==
    /\ BlockSize \in Nat \ {0} /\ TasksPerWorker \in Nat \ {0}
    /\ PriorityWorkers # {} /\ NormalWorkers # {}
    /\ \A k \in Kinds : KindOK(k)

-----------------------------------------------------------------------------
(* Blocks (prefetch_block.go) and the queue of them.                       *)

\* Reuse, createPrefetchBlock: no offset, nothing in the notification channel.
FreeBlock == [idx |-> -1, note |-> "none", cancelled |-> FALSE, ref |-> 0,
              evicted |-> FALSE, len |-> 0]

AbsStartOff(r, b) == buf[r][b].idx * BlockSize
Covers(r, b, off) ==
    off >= AbsStartOff(r, b) /\ off < AbsStartOff(r, b) + BlockSize

BlockCount(r) == (size[r] + BlockSize - 1) \div BlockSize

Idle == [pc |-> "idle", mode |-> "", off |-> 0, end |-> 0, pos |-> 0,
         got |-> <<>>, trig |-> FALSE, left |-> 0, cur |-> 0]

NewReader == [life |-> "none", queue |-> <<>>, next |-> 0, seeks |-> 0, num |-> 0,
              calls |-> 0]

BRInit ==
    /\ Init
    /\ kind \in Kinds
    /\ rd = [r \in Pools |-> NewReader]
    /\ buf = [r \in Pools |-> [b \in Blocks |-> FreeBlock]]
    /\ op = [r \in Pools |-> Idle]
    /\ size = [r \in Pools |-> kind.size]
    /\ pending = [r \in Pools |-> <<>>]
    /\ cb = [r \in Pools |-> <<>>]
    /\ abandoned = [r \in Pools |-> <<>>]
    /\ priorityCh = <<>> /\ normalCh = <<>>
    /\ busy = [w \in Workers |-> None]
    /\ panicked = {}

\* The reservation is min(blocks of the file, MinBlocksPerHandle) permits; a
\* handle whose reservation cannot be made reads without this reader.
NewBufferedReader(r) ==
    /\ rd[r].life = "none"
    /\ NewGenBlockPool(r)
    /\ rd' = [rd EXCEPT ![r].life = "open", ![r].num = kind.init]
    /\ UNCHANGED <<kind, buf, op, size, pending, cb, abandoned, priorityCh, normalCh,
                   busy, panicked>>

isRandomSeek(r, off) ==
    LET q == rd[r].queue
    IN IF q = <<>> THEN off # 0
       ELSE \/ off < AbsStartOff(r, Head(q))
            \/ off >= AbsStartOff(r, Head(q)) + Len(q) * BlockSize

\* (mutant: a referenced block is given back as soon as it leaves the queue)
releaseOrMarkEvicted_Releases(r, b) ==
    buf' = [buf EXCEPT ![r][b] = FreeBlock] /\ Release(r)
releaseOrMarkEvicted(r, b) ==
    IF buf[r][b].ref > 0
    THEN buf' = [buf EXCEPT ![r][b].evicted = TRUE] /\ UNCHANGED vars
    ELSE buf' = [buf EXCEPT ![r][b] = FreeBlock] /\ Release(r)

-----------------------------------------------------------------------------
(* ReadAt.                                                                 *)

\* State shared by every step of a call that holds p.mu.
Elsewhere == UNCHANGED <<kind, size, cb, busy, panicked>>
Channels == UNCHANGED <<priorityCh, normalCh>>

Goto(r, pc) == op' = [op EXCEPT ![r].pc = pc]

\* The read ends without error: the caller gets the slices and a callback.
Return(r, got) ==
    /\ pending' = [pending EXCEPT ![r] = Append(@, got)]
    /\ op' = [op EXCEPT ![r] = Idle]
    /\ UNCHANGED abandoned

\* The read ends with an error or a fallback: ReadManager tries the next reader
\* or FileHandle returns an empty response, so the callback is never called.
ReturnError(r) ==
    /\ abandoned' = [abandoned EXCEPT ![r] = @ \o op[r].got]
    /\ op' = [op EXCEPT ![r] = Idle]
    /\ UNCHANGED pending

resetBufferedReaderState(x) == [x EXCEPT !.seeks = 0, !.next = 0, !.num = kind.init]

\* cancelAndWait, first half: the head leaves the queue and its download is
\* cancelled; Discarded waits for the worker.
Discard(r) ==
    LET b == Head(rd[r].queue)
    IN /\ rd' = [rd EXCEPT ![r].queue = Tail(@)]
       /\ buf' = [buf EXCEPT ![r][b].cancelled = TRUE]
       /\ op' = [op EXCEPT ![r].pc = "wait", ![r].mode = op[r].pc, ![r].cur = b]
       /\ UNCHANGED <<vars, pending, abandoned>>

\* (mutant: the block is taken back while its worker may still write to it)
Discarded_NoWait(r) ==
    /\ op[r].pc = "wait"
    /\ releaseOrMarkEvicted(r, op[r].cur)
    /\ Goto(r, op[r].mode)
    /\ UNCHANGED <<rd, pending, abandoned>> /\ Elsewhere /\ Channels

Discarded(r) ==
    /\ op[r].pc = "wait"
    /\ buf[r][op[r].cur].note # "none"
    /\ releaseOrMarkEvicted(r, op[r].cur)
    /\ Goto(r, op[r].mode)
    /\ UNCHANGED <<rd, pending, abandoned>> /\ Elsewhere /\ Channels

\* The classifier (ReadTypeClassifier) may call the pattern sequential or not.
AboveThreshold(r, o) ==
    \/ /\ rd' = [rd EXCEPT ![r] = resetBufferedReaderState(@)]
       /\ op' = [op EXCEPT ![r] = [o EXCEPT !.pc = "loop"]]
    \/ op' = [op EXCEPT ![r] = Idle] /\ UNCHANGED rd

\* handleRandomRead up to the point where the queue has to be emptied.
ReadAt(r, off, n) ==
    LET o == [Idle EXCEPT !.off = off, !.end = off + n, !.pos = off]
        x == [rd EXCEPT ![r].calls = @ + 1]
    IN /\ rd[r].life = "open" /\ op[r].pc = "idle" /\ cb[r] = <<>>
       /\ rd[r].calls < kind.calls
       /\ n > 0 /\ off < size[r]
       /\ \/ /\ rd[r].seeks > kind.threshold
             /\ \/ /\ rd' = [x EXCEPT ![r] = resetBufferedReaderState(@)]
                   /\ op' = [op EXCEPT ![r] = [o EXCEPT !.pc = "loop"]]
                \/ rd' = x /\ UNCHANGED op
          \/ /\ rd[r].seeks <= kind.threshold /\ ~isRandomSeek(r, off)
             /\ rd' = x
             /\ op' = [op EXCEPT ![r] = [o EXCEPT !.pc = "loop"]]
          \/ /\ rd[r].seeks <= kind.threshold /\ isRandomSeek(r, off)
             /\ rd' = [x EXCEPT ![r].seeks = @ + 1]
             /\ op' = [op EXCEPT ![r] = [o EXCEPT !.pc = "seek"]]
       /\ UNCHANGED <<vars, buf, pending, abandoned>> /\ Elsewhere /\ Channels

\* handleRandomRead: empty the queue, then decide.
handleRandomRead(r) ==
    /\ op[r].pc = "seek"
    /\ \/ rd[r].queue # <<>> /\ Discard(r)
       \/ /\ rd[r].queue = <<>>
          /\ IF rd[r].seeks > kind.threshold THEN AboveThreshold(r, op[r])
             ELSE Goto(r, "loop") /\ UNCHANGED rd
          /\ UNCHANGED <<vars, buf, pending, abandoned>>
    /\ Elsewhere /\ Channels

\* prepareQueueForOffset: drop the head while it does not cover the position.
prepareQueueForOffset(r) ==
    /\ op[r].pc = "loop" /\ op[r].pos < op[r].end
    /\ rd[r].queue # <<>> /\ ~Covers(r, Head(rd[r].queue), op[r].pos)
    /\ Discard(r)
    /\ Elsewhere /\ Channels

freshStart(r) ==
    /\ op[r].pc = "loop" /\ op[r].pos < op[r].end
    /\ rd[r].queue = <<>>
    /\ rd' = [rd EXCEPT ![r].next = op[r].pos \div BlockSize,
                        ![r].num = Smaller(kind.init, MaxBlocks)]
    /\ op' = [op EXCEPT ![r].pc = "urgent", ![r].trig = TRUE]
    /\ UNCHANGED <<vars, buf, pending, abandoned>> /\ Elsewhere /\ Channels

\* prefetch: how many blocks to schedule; the call goes on to read when none.
PrefetchCount(r, x) ==
    Smaller(Smaller(x.num, MaxBlocks - Len(x.queue)), BlockCount(r) - x.next)

prefetch(r, o, x) ==
    IF PrefetchCount(r, x) > 0
    THEN [o EXCEPT !.pc = "prefetch", !.left = PrefetchCount(r, x)]
    ELSE [o EXCEPT !.pc = "loop"]

prefetchDone(x) == [x EXCEPT !.num = Smaller(2 * @, MaxBlocks)]

UnusedBlock(r) == CHOOSE b \in Blocks : buf[r][b].idx = -1

\* scheduleNextBlock with a block from the pool: its offset is set and it is
\* pushed; Send hands the task to the workers.
scheduleNextBlock(r) ==
    /\ op[r].pc \in {"urgent", "prefetch"}
    /\ GetFree(r) \/ GetNew(r)
    /\ buf' = [buf EXCEPT ![r][UnusedBlock(r)] = [FreeBlock EXCEPT !.idx = rd[r].next]]
    /\ rd' = [rd EXCEPT ![r].queue = Append(@, UnusedBlock(r))]
    /\ op' = [op EXCEPT ![r].pc = "send", ![r].mode = op[r].pc]
    /\ UNCHANGED <<pending, abandoned>> /\ Elsewhere /\ Channels

\* (mutant: the index advances although nothing was scheduled)
NoBlock_Skips(r) ==
    /\ op[r].pc \in {"urgent", "prefetch"}
    /\ \/ freeBlocksCh[r] = 0 /\ ~canAllocateBlock(r) /\ UNCHANGED vars
       \/ GetFails(r)
    /\ IF op[r].pc = "urgent" THEN ReturnError(r)
       ELSE Goto(r, "loop") /\ UNCHANGED <<pending, abandoned>>
    /\ rd' = [rd EXCEPT ![r].next = @ + 1] /\ UNCHANGED buf /\ Elsewhere /\ Channels

\* No block: a prefetch stops, the first block of a fresh start falls back.
NoBlock(r) ==
    /\ op[r].pc \in {"urgent", "prefetch"}
    /\ \/ freeBlocksCh[r] = 0 /\ ~canAllocateBlock(r) /\ UNCHANGED vars
       \/ GetFails(r)
    /\ IF op[r].pc = "urgent" THEN ReturnError(r)
       ELSE Goto(r, "loop") /\ UNCHANGED <<pending, abandoned>>
    /\ UNCHANGED <<rd, buf>> /\ Elsewhere /\ Channels

\* NewStaticWorkerPool: the channels hold so many tasks, never more than twice
\* the global limit of blocks.
ChSize(workers) == Smaller(Cardinality(workers) * TasksPerWorker, 2 * SemLimit)

\* Schedule: blocks, with p.mu held, while the channel is full.
Schedule(urgent, task) ==
    IF urgent
    THEN /\ Len(priorityCh) < ChSize(PriorityWorkers)
         /\ priorityCh' = Append(priorityCh, task) /\ UNCHANGED normalCh
    ELSE /\ Len(normalCh) < ChSize(NormalWorkers)
         /\ normalCh' = Append(normalCh, task) /\ UNCHANGED priorityCh

\* scheduleBlockWithIndex after the push, and the rest of the loop in prefetch.
Send(r) ==
    LET q == rd[r].queue
        x == [rd[r] EXCEPT !.next = @ + 1]
        o == op[r]
        last == o.mode = "prefetch" /\ o.left = 1
        y == IF last THEN prefetchDone(x) ELSE x
    IN /\ o.pc = "send"
       /\ Schedule(o.mode = "urgent", <<r, q[Len(q)]>>)
       /\ rd' = [rd EXCEPT ![r] = y]
       /\ op' = [op EXCEPT ![r] =
                   IF o.mode = "urgent" THEN prefetch(r, o, x)
                   ELSE IF last THEN [o EXCEPT !.pc = "loop", !.left = 0]
                   ELSE [o EXCEPT !.pc = "prefetch", !.left = @ - 1]]
       /\ UNCHANGED <<vars, buf, pending, abandoned>> /\ Elsewhere

\* The head covers the position: AwaitReady decides how the read goes on.
AtHead(r) ==
    /\ op[r].pc = "loop" /\ op[r].pos < op[r].end
    /\ rd[r].queue # <<>> /\ Covers(r, Head(rd[r].queue), op[r].pos)

\* AwaitReady returns the context's error; the entry stays in the queue.
Interrupted(r) ==
    /\ kind.interrupts /\ AtHead(r)
    /\ ReturnError(r)
    /\ UNCHANGED <<vars, rd, buf>> /\ Elsewhere /\ Channels

DownloadFailed(r) ==
    LET b == Head(rd[r].queue)
    IN /\ AtHead(r) /\ buf[r][b].note = "Failed"
       /\ rd' = [rd EXCEPT ![r].queue = Tail(@)]
       /\ buf' = [buf EXCEPT ![r][b] = FreeBlock]
       /\ Release(r)
       /\ ReturnError(r)
       /\ Elsewhere /\ Channels

\* ReadAtSlice's offset is beyond what was downloaded: the read fails.
OutOfBounds(r) ==
    LET b == Head(rd[r].queue)
    IN /\ AtHead(r) /\ buf[r][b].note = "Downloaded"
       /\ op[r].pos - AbsStartOff(r, b) >= buf[r][b].len
       /\ ReturnError(r)
       /\ UNCHANGED <<vars, rd, buf>> /\ Elsewhere /\ Channels

\* (mutant: the loop ends with the block)
Slice_OneBlock(r) ==
    LET b == Head(rd[r].queue)
        n == Smaller(op[r].end - op[r].pos,
                     AbsStartOff(r, b) + buf[r][b].len - op[r].pos)
        pos == op[r].pos + n
        got == Append(op[r].got, <<b, op[r].pos, n>>)
        consumed == pos < size[r] /\ pos >= AbsStartOff(r, b) + buf[r][b].len
        x == [rd[r] EXCEPT !.queue = IF consumed THEN Tail(@) ELSE @]
        o == [op[r] EXCEPT !.pos = pos, !.got = got]
    IN /\ AtHead(r) /\ buf[r][b].note = "Downloaded" /\ n > 0
       /\ rd' = [rd EXCEPT ![r] = x]
       /\ buf' = [buf EXCEPT ![r][b].ref = @ + 1, ![r][b].evicted = consumed]
       /\ UNCHANGED vars
       /\ IF pos >= size[r] \/ consumed THEN Return(r, got)
          ELSE /\ op' = [op EXCEPT ![r] =
                           IF consumed /\ ~o.trig
                           THEN prefetch(r, [o EXCEPT !.trig = TRUE], x) ELSE o]
               /\ UNCHANGED <<pending, abandoned>>
       /\ Elsewhere /\ Channels

\* A slice of the head is taken and referenced.  A consumed block leaves the queue
\* (marked evicted: this very slice refers to it) and the first one triggers a
\* prefetch.
Slice(r) ==
    LET b == Head(rd[r].queue)
        n == Smaller(op[r].end - op[r].pos,
                     AbsStartOff(r, b) + buf[r][b].len - op[r].pos)
        pos == op[r].pos + n
        got == Append(op[r].got, <<b, op[r].pos, n>>)
        consumed == pos < size[r] /\ pos >= AbsStartOff(r, b) + buf[r][b].len
        x == [rd[r] EXCEPT !.queue = IF consumed THEN Tail(@) ELSE @]
        o == [op[r] EXCEPT !.pos = pos, !.got = got]
    IN /\ AtHead(r) /\ buf[r][b].note = "Downloaded" /\ n > 0
       /\ rd' = [rd EXCEPT ![r] = x]
       /\ buf' = [buf EXCEPT ![r][b].ref = @ + 1, ![r][b].evicted = consumed]
       /\ UNCHANGED vars
       /\ IF pos >= size[r] THEN Return(r, got)
          ELSE /\ op' = [op EXCEPT ![r] =
                           IF consumed /\ ~o.trig
                           THEN prefetch(r, [o EXCEPT !.trig = TRUE], x) ELSE o]
               /\ UNCHANGED <<pending, abandoned>>
       /\ Elsewhere /\ Channels

Filled(r) ==
    /\ op[r].pc = "loop" /\ op[r].pos >= op[r].end
    /\ Return(r, op[r].got)
    /\ UNCHANGED <<vars, rd, buf>> /\ Elsewhere /\ Channels

-----------------------------------------------------------------------------
(* Callbacks and Destroy.                                                  *)

\* The kernel has finished with a response: its callback takes p.mu.
BeginCallback(r) ==
    /\ cb[r] = <<>> /\ op[r].pc \in {"idle", "inflight", "clear", "gone"}
    /\ \E i \in 1..Len(pending[r]) :
          /\ cb' = [cb EXCEPT ![r] = pending[r][i]]
          /\ pending' = [pending EXCEPT ![r] =
                           SubSeq(@, 1, i - 1) \o SubSeq(@, i + 1, Len(@))]
    /\ UNCHANGED <<vars, kind, rd, buf, op, size, abandoned, priorityCh, normalCh,
                   busy, panicked>>

\* (mutant: the last reference of an evicted block is dropped and the block is not
\* given back)
callback_Forgets(r) ==
    /\ cb[r] # <<>>
    /\ buf' = [buf EXCEPT ![r][Head(cb[r])[1]].ref = @ - 1]
    /\ cb' = [cb EXCEPT ![r] = Tail(@)]
    /\ UNCHANGED <<vars, panicked, kind, rd, op, size, pending, abandoned, priorityCh,
                   normalCh, busy>>

\* One entry: DecRef, and the release of a block that left the queue before.  After
\* Destroy has set blockPool to nil that release is a nil dereference.
callback(r) ==
    LET b == Head(cb[r])[1]
        last == buf[r][b].ref = 1 /\ buf[r][b].evicted
    IN /\ cb[r] # <<>>
       /\ IF last /\ op[r].pc # "gone"
          THEN buf' = [buf EXCEPT ![r][b] = FreeBlock] /\ Release(r)
          ELSE buf' = [buf EXCEPT ![r][b].ref = @ - 1] /\ UNCHANGED vars
       /\ panicked' = panicked \cup (IF buf[r][b].ref = 0 THEN {"reference count"} ELSE {})
                                \cup (IF last /\ op[r].pc = "gone" THEN {"no pool"} ELSE {})
       /\ cb' = [cb EXCEPT ![r] = Tail(@)]
       /\ UNCHANGED <<kind, rd, op, size, pending, abandoned, priorityCh, normalCh, busy>>

\* The handle is closed, or its reader is replaced: no read is in progress.
Destroy(r) ==
    /\ rd[r].life = "open" /\ op[r].pc = "idle" /\ cb[r] = <<>>
    /\ rd' = [rd EXCEPT ![r].life = "closing"]
    /\ Goto(r, "destroy")
    /\ UNCHANGED <<vars, buf, pending, abandoned>> /\ Elsewhere /\ Channels

DestroyQueue(r) ==
    /\ op[r].pc = "destroy"
    /\ \/ rd[r].queue # <<>> /\ Discard(r)
       \/ /\ rd[r].queue = <<>> /\ Goto(r, "inflight")
          /\ UNCHANGED <<vars, rd, buf, pending, abandoned>>
    /\ Elsewhere /\ Channels

\* inflightCallbackWg: the slices whose callback has not finished.
Inflight(r) == pending[r] # <<>> \/ cb[r] # <<>> \/ abandoned[r] # <<>>

\* The wait ends when every callback is done or after 10 s.  A callback that will
\* come does so within that time unless kind.slow.
DestroyWait(r) ==
    /\ op[r].pc = "inflight"
    /\ ~Inflight(r) \/ kind.slow \/ (abandoned[r] # <<>> /\ pending[r] = <<>> /\ cb[r] = <<>>)
    /\ ClearFreeBlockChannel(r, TRUE)
    /\ Goto(r, "clear")
    /\ UNCHANGED <<rd, buf, pending, abandoned>> /\ Elsewhere /\ Channels

DestroyPool(r) ==
    /\ op[r].pc = "clear"
    /\ \/ ClearBlock(r) /\ UNCHANGED <<rd, op>>
       \/ ClearDone(r) /\ Goto(r, "gone") /\ rd' = [rd EXCEPT ![r].life = "gone"]
    /\ UNCHANGED <<buf, pending, abandoned>> /\ Elsewhere /\ Channels

-----------------------------------------------------------------------------
(* The worker pool and the download task.                                  *)

\* do: a priority worker only serves priorityCh, a normal one both.  The size of
\* the object is read when the task starts.
Take(w) ==
    /\ busy[w] = None
    /\ \/ priorityCh # <<>> /\ priorityCh' = Tail(priorityCh) /\ UNCHANGED normalCh
          /\ LET t == Head(priorityCh)
             IN busy' = [busy EXCEPT ![w] = [r |-> t[1], b |-> t[2], end |-> size[t[1]]]]
       \/ w \in NormalWorkers /\ normalCh # <<>>
          /\ normalCh' = Tail(normalCh) /\ UNCHANGED priorityCh
          /\ LET t == Head(normalCh)
             IN busy' = [busy EXCEPT ![w] = [r |-> t[1], b |-> t[2], end |-> size[t[1]]]]
    /\ UNCHANGED <<vars, kind, rd, buf, op, size, pending, cb, abandoned, panicked>>

\* (mutant: a cancelled task ends without a notification)
Execute_SilentCancel(w) ==
    LET t == busy[w]
        blk == buf[t.r][t.b]
    IN /\ t # None
       /\ \/ buf' = [buf EXCEPT
                       ![t.r][t.b].note = "Downloaded",
                       ![t.r][t.b].len = Smaller(BlockSize, t.end - blk.idx * BlockSize)]
          \/ /\ kind.faults
             /\ buf' = [buf EXCEPT ![t.r][t.b].note = "Failed"]
          \/ blk.cancelled /\ UNCHANGED buf
       /\ panicked' = panicked \cup (IF blk.note # "none" THEN {"notified twice"} ELSE {})
       /\ busy' = [busy EXCEPT ![w] = None]
       /\ UNCHANGED <<vars, kind, rd, op, size, pending, cb, abandoned, priorityCh, normalCh>>

\* Execute ends and notifies: with the block's bytes, or failed when the download
\* was cancelled or went wrong.  NotifyReady panics if it was called before.
Execute(w) ==
    LET t == busy[w]
        blk == buf[t.r][t.b]
    IN /\ t # None
       /\ \/ buf' = [buf EXCEPT
                       ![t.r][t.b].note = "Downloaded",
                       ![t.r][t.b].len = Smaller(BlockSize, t.end - blk.idx * BlockSize)]
          \/ /\ blk.cancelled \/ kind.faults
             /\ buf' = [buf EXCEPT ![t.r][t.b].note = "Failed"]
       /\ panicked' = panicked \cup (IF blk.note # "none" THEN {"notified twice"} ELSE {})
       /\ busy' = [busy EXCEPT ![w] = None]
       /\ UNCHANGED <<vars, kind, rd, op, size, pending, cb, abandoned, priorityCh, normalCh>>

\* The object is appended to: isValidReadManager updates object.Size.
Grow(r) ==
    /\ kind.grow /\ size[r] = kind.size /\ rd[r].life = "open"
    /\ size' = [size EXCEPT ![r] = @ + 1]
    /\ UNCHANGED <<vars, kind, rd, buf, op, pending, cb, abandoned, priorityCh,
                   normalCh, busy, panicked>>

-----------------------------------------------------------------------------
ReaderStep(r) ==
    \/ handleRandomRead(r) \/ Discarded(r) \/ prepareQueueForOffset(r)
    \/ freshStart(r) \/ scheduleNextBlock(r) \/ NoBlock(r) \/ Send(r)
    \/ DownloadFailed(r) \/ OutOfBounds(r) \/ Slice(r) \/ Filled(r)
    \/ BeginCallback(r) \/ callback(r)
    \/ DestroyQueue(r) \/ DestroyWait(r) \/ DestroyPool(r)

WorkerStep == \E w \in Workers : Take(w) \/ Execute(w)

Alive == panicked = {}     \* a panic ends the process
Progress == Alive /\ ((\E r \in kind.readers : ReaderStep(r)) \/ WorkerStep)

\* The pools that are not a reader's belong to files this behaviour leaves out.
BRNext ==
    \/ Progress
    \/ Alive /\ \E r \in kind.readers :
          \/ NewBufferedReader(r) \/ Interrupted(r) \/ Destroy(r) \/ Grow(r)
          \/ \E x \in kind.reads : ReadAt(r, x[1], x[2])
    \/ \E p \in Pools \ kind.readers : kind.others /\ PoolStep(p) /\ UNCHANGED brvars

\* Whoever can make progress does: goroutines are scheduled, downloads end and the
\* kernel finishes with every response.
Fairness == WF_<<vars, brvars>>(Progress)

BRSpec == BRInit /\ [][BRNext]_<<vars, brvars>> /\ Fairness
-----------------------------------------------------------------------------
(* Properties.                                                             *)

\* The slices of r that somebody may still look at, or that nobody will return.
Outstanding(r) ==
    LET all[i \in 0..Len(pending[r])] ==
            IF i = 0 THEN op[r].got \o cb[r] \o abandoned[r] ELSE pending[r][i] \o all[i - 1]
    IN all[Len(pending[r])]

\* Slices point into the block's own memory (ReadAtSlice): as long as a response
\* has not been called back its blocks keep the bytes they had, whatever is
\* evicted, cancelled, prefetched or destroyed meanwhile.
SlicesIntact ==
    \A r \in kind.readers : \A i \in DOMAIN Outstanding(r) :
        LET s == Outstanding(r)[i]
            blk == buf[r][s[1]]
        IN /\ blk.idx = s[2] \div BlockSize /\ blk.note = "Downloaded"
           /\ s[2] + s[3] <= blk.idx * BlockSize + blk.len

\* Every block the pool has lent is accounted for: it is in the queue once, or is
\* being discarded, or left the queue marked evicted with exactly as many references
\* as slices are outstanding (IncRef, DecRef, wasEvicted, Release).  Nothing is
\* released twice and nothing is forgotten, up to a panic (NoPanic).
LentIsHeld ==
    Alive => \A r \in kind.readers :
        LET inUse == {b \in Blocks : buf[r][b].idx # -1}
            queued == {rd[r].queue[i] : i \in DOMAIN rd[r].queue}
            waiting == IF op[r].pc = "wait" THEN {op[r].cur} ELSE {}
            out == Outstanding(r)
            refs(b) == Cardinality({i \in DOMAIN out : out[i][1] = b})
        IN /\ lent[r] = Cardinality(inUse)
           /\ Cardinality(queued) = Len(rd[r].queue) /\ queued \cap waiting = {}
           /\ \A b \in inUse :
                 /\ buf[r][b].ref = refs(b)
                 /\ b \in queued \cup waiting \/ (buf[r][b].evicted /\ refs(b) > 0)
                 /\ b \in queued => ~buf[r][b].evicted
           /\ queued \cup waiting \subseteq inUse

\* isRandomSeek takes the queue for a window of consecutive blocks that starts at its
\* head and has one entry per block; scheduling goes on where it ends and it never
\* exceeds MaxPrefetchBlockCnt (CheckInvariants), nor does the next prefetch.
QueueIsWindow ==
    \A r \in kind.readers :
        LET q == rd[r].queue
            pushed == IF op[r].pc = "send" THEN 1 ELSE 0
        IN /\ Len(q) <= MaxBlocks
           /\ rd[r].num <= MaxBlocks \/ rd[r].num = kind.init
           /\ \A i \in DOMAIN q : buf[r][q[i]].idx = rd[r].next + pushed - Len(q) + i - 1

\* A read that succeeds returned every byte asked for up to the end of the object,
\* in order and without a gap, however many blocks it crossed.
ReadsComplete ==
    [][\A r \in kind.readers :
          pending'[r] # pending[r] /\ Len(pending'[r]) > Len(pending[r]) =>
              LET got == pending'[r][Len(pending'[r])]
                  from(i) == got[i][2]
                  to(i) == got[i][2] + got[i][3]
              IN /\ from(1) = op[r].off
                 /\ \A i \in 2..Len(got) : from(i) = to(i - 1)
                 /\ to(Len(got)) = Smaller(op[r].end, size[r])]_<<vars, brvars>>

\* No NotifyReady on a notified block, no negative reference count, and no release into
\* a pool that Destroy has dropped, unless the callback comes after the 10 s that
\* Destroy waits for it (callback, buffered_reader.go:411).
NoPanic == panicked \subseteq (IF kind.slow THEN {"no pool"} ELSE {})

\* A read, a callback and a Destroy end: nobody who holds p.mu waits for a download
\* nobody executes, for a place in a full channel or for a callback that waits for
\* p.mu.
CallsEnd ==
    \A r \in Pools :
        /\ op[r].pc \notin {"idle", "gone"} ~> op[r].pc \in {"idle", "gone"}
        /\ pending[r] # <<>> ~> pending[r] = <<>> \/ ~Alive
=============================================================================
