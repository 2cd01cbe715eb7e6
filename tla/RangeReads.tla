----------------------------- MODULE RangeReads -----------------------------
(***************************************************************************)
(* Reading an object of GCS through one file handle:                       *)
(*   internal/gcsx/read_manager and client_readers (GCSReader, RangeReader,*)
(*   MultiRangeReader) with read_type_classifier.go, or                    *)
(*   internal/gcsx/random_reader.go, the reader they replace (kind.old);   *)
(*   internal/gcsx/inactive_timeout_reader.go, the stream that closes its  *)
(*   connection when it is idle (kind.timeout).                            *)
(*                                                                         *)
(* Threads read concurrently.  A sequential pattern is served from one     *)
(* open stream guarded by mu, a random one on a zonal bucket by the multi- *)
(* range downloader without a lock.  MinReadSize units are the one MiB     *)
(* windows are rounded to, which is also the longest read the kernel makes.*)
(* The content of unit i of the object is i, so a buffer holds offsets.    *)
(***************************************************************************)
EXTENDS Integers, Sequences, FiniteSets

CONSTANTS
    Threads,
    MaxReadSize,       \* maxReadSize, in units
    MinReadSize,       \* minReadSize and MB
    minSeeksForRandom,
    Kinds              \* configurations: see KindOK

VARIABLES
    kind,     \* the configuration and the bounds of this behaviour
    cl,       \* the classifier: readType, expectedOffset, seeks, totalReadBytes
    rr,       \* the range reader: its stream and the connection under it
    mu,       \* holder of gr.mu / rr.mu
    th,       \* per thread: the read in progress
    faults,   \* bound: connection errors still to come
    calls,    \* bound: reads still to come
    conns,    \* auxiliary: connections opened and not closed
    late,     \* auxiliary: a cancellation hit another read than its own
    destroyed

vars == <<kind, cl, rr, mu, th, faults, calls, conns, late, destroyed>>

\* size: of the object; window: sequentialReadSizeMb; zonal, old, timeout,
\* interrupts (IgnoreInterrupts is off); reads: <<offset, length>>; faults, calls:
\* bounds.
KindOK(k) ==
    /\ {k.zonal, k.old, k.timeout, k.interrupts} \subseteq BOOLEAN
    /\ k.size \in Nat /\ k.window \in Nat \ {0} /\ k.faults \in Nat /\ k.calls \in Nat
    /\ k.window >= MinReadSize
    /\ \A x \in k.reads : x[1] \in Nat /\ x[2] \in 1..MinReadSize

ASSUME RangeAssumption ==
    /\ MinReadSize \in Nat \ {0} /\ MaxReadSize \in Nat /\ MaxReadSize >= MinReadSize
    /\ minSeeksForRandom \in Nat \ {0} /\ "none" \notin Threads
    /\ \A k \in Kinds : KindOK(k)

None == "none"
Less(a, b) == IF a <= b THEN a ELSE b
More(a, b) == IF a >= b THEN a ELSE b
Upto(from, n) == [i \in 1..n |-> from + i - 1]

-----------------------------------------------------------------------------
(* The classifier.                                                         *)

\* NewReadTypeClassifier.
NewClassifier == [rt |-> "seq", exp |-> 0, seeks |-> 0, total |-> 0]

isSeekNeeded(c, off) ==
    /\ c.exp # 0
    /\ IF c.rt = "random" THEN off # c.exp ELSE off < c.exp \/ off > c.exp + MaxReadSize

\* avgReadBytes(c) < maxReadSize
SmallReads(c) == c.total < MaxReadSize * More(c.seeks, 1)

GetReadInfo(c, off, recorded) ==
    LET seek == ~recorded /\ isSeekNeeded(c, off)
        d == [c EXCEPT !.seeks = IF seek THEN @ + 1 ELSE @]
        rt == IF ~SmallReads(d) THEN "seq"
              ELSE IF d.seeks >= minSeeksForRandom THEN "random" ELSE c.rt
    IN [c |-> [d EXCEPT !.rt = rt],
        info |-> [rt |-> rt, exp |-> c.exp, rec |-> recorded \/ seek]]

RandomPattern(c) == c.seeks >= minSeeksForRandom /\ SmallReads(c)

\* ComputeSeqPrefetchWindowAndAdjustType: the average read rounded up to a MiB and
\* clamped, or the configured size.
PrefetchWindow(c) ==
    IF RandomPattern(c)
    THEN LET mb == c.seeks * MinReadSize
         IN Less(More(((c.total + mb - 1) \div mb) * MinReadSize, MinReadSize), MaxReadSize)
    ELSE kind.window
AdjustType(c) == [c EXCEPT !.rt = IF RandomPattern(c) THEN "random" ELSE "seq"]

\* getEndOffset of GCSReader.
EndOffset(c, start) == Less(start + PrefetchWindow(c), kind.size)

\* getEndOffset of randomReader.
OldEndOffset(c, start) ==
    LET size == IF RandomPattern(c)
                THEN Less(More((c.total \div (c.seeks * MinReadSize) + 1) * MinReadSize, MinReadSize),
                          MaxReadSize)
                ELSE kind.size
    IN Less(start + Less(size, kind.window), kind.size)

\* RecordRead.
RecordRead(c, off, n) == [c EXCEPT !.total = @ + n, !.exp = off + n]

readerType(rt) == IF rt = "random" /\ kind.zonal THEN "mrd" ELSE "range"

-----------------------------------------------------------------------------
(* The stream.  conn: the connection is open; it yields the unit pos next, *)
(* up to limit.  A connection that ended early or failed keeps doing so,   *)
(* and so does a stream whose context was cancelled: fate.  from and seen  *)
(* are the InactiveTimeoutReader's.                                        *)

NoReader == [open |-> FALSE, start |-> -1, limit |-> -1, fate |-> "live",
             conn |-> FALSE, pos |-> -1, from |-> -1, seen |-> 0, active |-> FALSE]

\* closeReader and the assignments that follow it everywhere.
Closed(r) == [NoReader EXCEPT !.start = r.start, !.limit = r.limit]
ConnsAfterClose == conns - (IF rr.conn THEN 1 ELSE 0)

Opened(start, end) ==
    [open |-> TRUE, start |-> start, limit |-> end, fate |-> "live", conn |-> TRUE,
     pos |-> start, from |-> start, seen |-> 0, active |-> FALSE]

\* (mutant: the reconnection starts over)
Connected_FromStart(r) ==
    IF r.conn \/ r.fate = "cancelled" THEN r
    ELSE [r EXCEPT !.conn = TRUE, !.pos = r.from, !.fate = "live"]

\* Read reconnects, at what it has not seen yet, a connection closed when idle.
Connected(r) ==
    IF r.conn \/ r.fate = "cancelled" THEN r
    ELSE [r EXCEPT !.conn = TRUE, !.pos = r.from + r.seen, !.fate = "live"]
Conns(r) == conns + (IF r.conn THEN 1 ELSE 0) - (IF rr.conn THEN 1 ELSE 0)

\* n units are consumed from an open connection.
Consumed(r, n) ==
    [r EXCEPT !.pos = @ + n, !.seen = @ + n, !.active = TRUE]

IdleThread == [pc |-> "idle", off0 |-> 0, off |-> 0, len |-> 0, got |-> 0, buf |-> <<>>,
               info |-> [rt |-> "seq", exp |-> 0, rec |-> FALSE], end |-> 0,
               force |-> FALSE, watch |-> "off", res |-> None]

Init ==
    /\ kind \in Kinds
    /\ cl = NewClassifier
    /\ rr = NoReader
    /\ mu = None
    /\ th = [t \in Threads |-> IdleThread]
    /\ faults = kind.faults /\ calls = kind.calls
    /\ conns = 0 /\ late = None /\ destroyed = FALSE

\* Both threads' reads are under way at once, and mu is not released in between.
Locks == UNCHANGED <<kind, calls, destroyed>>

\* A connection error, an early end of the stream: at most kind.faults of them.
Fault == faults > 0 /\ faults' = faults - 1
NoFault == UNCHANGED faults

-----------------------------------------------------------------------------
(* A read.                                                                 *)

\* ReadManager.ReadAt up to the choice of the reader: the classifier is consulted
\* without a lock.
ReadAt(t, off, n) ==
    LET i == GetReadInfo(cl, off, FALSE)
    IN /\ th[t].pc = "idle" /\ calls > 0 /\ ~destroyed
       /\ off < kind.size
       /\ calls' = calls - 1
       /\ cl' = i.c
       /\ th' = [th EXCEPT ![t] =
                   [IdleThread EXCEPT !.pc = IF readerType(i.info.rt) = "mrd" THEN "mrd" ELSE "lock",
                                      !.off0 = off, !.off = off, !.len = n, !.info = i.info,
                                      !.watch = IF th[t].watch = "firing" THEN "firing" ELSE "off"]]
       /\ UNCHANGED <<kind, rr, mu, faults, conns, late, destroyed>>

\* A read was recorded since this one was classified (randomReader looks only on zonal
\* buckets).
PatternChanged(x) == x.info.exp # cl.exp /\ (kind.old => kind.zonal)

\* mu is taken.  The pattern may have changed while waiting for it: the type is
\* computed again, and a random read leaves for the downloader.
Lock(t) ==
    LET x == th[t]
        i == IF PatternChanged(x) THEN GetReadInfo(cl, x.off, x.info.rec) ELSE [c |-> cl, info |-> x.info]
        stay == readerType(i.info.rt) = "range"
        c == IF stay /\ ~kind.old THEN AdjustType(i.c) ELSE i.c
    IN /\ x.pc = "lock" /\ mu = None
       /\ mu' = IF stay THEN t ELSE None
       /\ cl' = c
       /\ th' = [th EXCEPT ![t].info = i.info,
                           ![t].pc = IF stay THEN "skip" ELSE "mrd",
                           ![t].end = IF stay /\ ~kind.old THEN EndOffset(i.c, x.off) ELSE 0]
       \* ForceCreateReader
       /\ IF stay /\ x.force /\ rr.open
          THEN rr' = NoReader /\ conns' = ConnsAfterClose
          ELSE UNCHANGED <<rr, conns>>
       /\ Locks /\ UNCHANGED <<faults, late>>

\* (mutant: a reader that is too small is kept)
Misaligned_AnyLimit(r, x) == r.start # x.off

\* invalidateReaderIfMisalignedOrTooSmall.
Misaligned(r, x) == r.start # x.off \/ Less(x.off + x.len, kind.size) > r.limit

\* skipBytes: forward, within reason.
Skippable(r, off) == r.open /\ r.start < off /\ off - r.start < MaxReadSize

Skip(t) ==
    LET x == th[t]
        can == Skippable(rr, x.off)
        want == x.off - rr.start
        r0 == IF can THEN Connected(rr) ELSE rr
    IN /\ x.pc = "skip"
       /\ \E n \in (IF can THEN 0..want ELSE {0}), fate \in {r0.fate, "eof", "err"} :
             LET r == IF can
                      THEN [Consumed(r0, n) EXCEPT !.start = @ + n, !.fate = fate] ELSE rr
                 drop == r.open /\ Misaligned(r, x)
             IN \* it stops short at the limit, on a dead stream or on a fault
                /\ n > 0 => r0.fate = "live" /\ r0.pos + n <= rr.limit
                /\ IF can /\ n < want /\ r0.fate = "live" /\ r0.pos + n < rr.limit
                   THEN fate # "live" /\ Fault ELSE fate = r0.fate /\ NoFault
                /\ rr' = IF drop THEN Closed(r) ELSE r
                /\ conns' = Conns(rr')
                /\ th' = [th EXCEPT ![t].pc = IF r.open /\ ~drop THEN "full" ELSE "open"]
       /\ Locks /\ UNCHANGED <<cl, mu, late>>

\* startRead: GCSReader computed the end when it took mu, randomReader does so here.
StartRead(x) == Opened(x.off, x.end)
OldStartRead(x) == Opened(x.off, OldEndOffset(cl, x.off))

\* The range asked for is opened, or the object's generation is gone, or
\* the connection cannot be made.
Open(t) ==
    LET x == th[t]
    IN /\ x.pc = "open"
       /\ \/ /\ rr' = IF kind.old THEN OldStartRead(x) ELSE StartRead(x)
             /\ conns' = conns + 1
             /\ th' = [th EXCEPT ![t].pc = "full"] /\ NoFault
          \/ /\ Fault /\ UNCHANGED <<rr, conns>>
             /\ th' = [th EXCEPT ![t].pc = "done", ![t].res = "err"]
       /\ Locks /\ UNCHANGED <<cl, mu, late>>

\* io.ReadFull, one unit: reconnect if the monitor closed the connection; the stream
\* yields a unit, ends at its limit, ends early or fails.
ReadFull(t) ==
    LET x == th[t]
        r == Connected(rr)
        Unit ==
            /\ x.got < x.len /\ r.fate = "live" /\ r.pos < rr.limit
            /\ rr' = Consumed(r, 1)
            /\ th' = [th EXCEPT ![t].got = @ + 1, ![t].buf = Append(@, r.pos)]
            /\ NoFault
        Stop(res) == th' = [th EXCEPT ![t].pc = "done", ![t].res = res]
        Dies(fate) ==
            /\ r.fate = "live" /\ Fault
            /\ rr' = [Consumed(r, 0) EXCEPT !.fate = fate] /\ Stop(fate)
    IN /\ x.pc = "full"
       /\ \/ Unit
          \/ x.got = x.len /\ rr' = rr /\ Stop("ok") /\ NoFault
          \/ x.got < x.len /\ r.pos = rr.limit /\ r.fate = "live" /\ rr' = r /\ Stop("eof") /\ NoFault
          \/ x.got < x.len /\ r.pos < rr.limit /\ Dies("eof")
          \/ x.got < x.len /\ Dies("err")
          \/ x.got < x.len /\ r.fate # "live" /\ rr' = r /\ NoFault
             /\ Stop(IF r.fate = "eof" THEN "eof" ELSE "err")
          \/ x.got < x.len /\ ~rr.conn /\ rr.fate # "cancelled"    \* cannot reconnect
             /\ rr' = rr /\ Fault /\ Stop("err")
       /\ conns' = Conns(rr')
       /\ Locks /\ UNCHANGED <<cl, mu, late>>

\* (mutant: the reader's position is not advanced)
AfterFull_NoAdvance(x) ==
    [start |-> rr.start, close |-> FALSE, res |-> IF x.res = "eof" THEN "ok" ELSE x.res,
     n |-> IF x.res \in {"ok", "eof"} THEN x.got ELSE 0]

\* readFromRangeReader after ReadFull: the stream is closed at its limit; the end of
\* a stream that should have had more is an error, and then nothing is returned.
AfterFull(x) ==
    LET start == rr.start + x.got
        res == IF x.res = "eof" THEN IF rr.open /\ start < rr.limit THEN "short" ELSE "ok"
               ELSE x.res
    IN [start |-> start, close |-> rr.open /\ start = rr.limit, res |-> res,
        n |-> IF res = "ok" THEN x.got ELSE 0]

\* shouldRetryForShortRead, once.
Retry(x, res, n) ==
    /\ kind.zonal /\ ~kind.old /\ ~x.force
    /\ n < x.len /\ x.off + n < kind.size /\ res \in {"ok", "short"}

\* The rest is asked for again, through a new reader.
Retrying(x, n) ==
    [x EXCEPT !.pc = IF readerType(x.info.rt) = "mrd" THEN "mrd" ELSE "lock",
              !.off = @ + n, !.len = @ - n, !.got = 0, !.force = TRUE, !.res = None,
              !.buf = SubSeq(x.buf, 1, x.off + n - x.off0)]

\* The read returns res and the first bytes of the buffer.
Returned(x, res, n) ==
    [IdleThread EXCEPT !.off0 = x.off0, !.off = x.off, !.len = x.len, !.res = res,
                       !.buf = IF res = "ok" THEN SubSeq(x.buf, 1, x.off + n - x.off0) ELSE <<>>,
                       !.watch = x.watch]

\* (mutant: an error returns with mu held)
Unlocked_NotOnError(x) == IF x.res = "err" THEN mu ELSE None

\* The deferred Unlock of mu.
Unlocked(x) == None

\* The read comes back from the stream.
Done(t) ==
    LET x == th[t]
        a == AfterFull(x)
        r == IF a.close THEN Closed([rr EXCEPT !.start = a.start])
             ELSE IF rr.open THEN [rr EXCEPT !.start = a.start] ELSE rr
        retry == Retry(x, a.res, a.n)
    IN /\ x.pc = "done" /\ mu = t
       /\ rr' = r
       /\ conns' = IF a.close THEN ConnsAfterClose ELSE conns
       /\ mu' = Unlocked(x)
       /\ th' = [th EXCEPT ![t] = IF retry THEN Retrying(x, a.n) ELSE Returned(x, a.res, a.n)]
       /\ cl' = IF kind.old
                THEN IF a.res = "ok" THEN RecordRead(cl, x.off, x.got)
                     ELSE [cl EXCEPT !.total = @ + x.got]
                ELSE IF ~retry /\ a.res = "ok"
                     THEN RecordRead(cl, x.off0, x.off + a.n - x.off0) ELSE cl
       /\ Locks /\ UNCHANGED <<faults, late>>

\* MultiRangeDownloaderWrapper.Read, as its callers see it: the range, a part of it
\* (the server has less than the size says), or an error.
MultiRangeRead(t) ==
    LET x == th[t]
        all == Less(x.len, kind.size - x.off)
    IN /\ x.pc = "mrd"
       /\ \E n \in 0..all, res \in {"ok", "err"} :
             LET y == [x EXCEPT !.buf = SubSeq(@, 1, x.off - x.off0) \o Upto(x.off, n)]
                 retry == Retry(x, res, n)
             IN /\ res = "err" => n = 0
                /\ IF n < all \/ res = "err" THEN Fault ELSE NoFault
                /\ th' = [th EXCEPT ![t] = IF retry THEN Retrying(y, n) ELSE Returned(y, res, n)]
                /\ cl' = IF kind.old THEN RecordRead(cl, x.off, n)
                         ELSE IF ~retry /\ res = "ok"
                              THEN RecordRead(cl, x.off0, x.off + n - x.off0) ELSE cl
       /\ Locks /\ UNCHANGED <<rr, mu, conns, late>>

-----------------------------------------------------------------------------
(* The other actors.                                                       *)

\* handleTimeout: a connection that was not used for a whole period is closed.
HandleTimeout ==
    /\ kind.timeout /\ rr.open /\ rr.fate # "cancelled"
    /\ IF rr.active THEN rr' = [rr EXCEPT !.active = FALSE] /\ UNCHANGED conns
       ELSE /\ rr.conn
            /\ rr' = [rr EXCEPT !.conn = FALSE]
            /\ conns' = conns - 1
    /\ UNCHANGED <<kind, cl, mu, th, faults, calls, late, destroyed>>

\* readFull's goroutine finds the context done and the read not finished ...
Interrupt(t) ==
    /\ kind.interrupts /\ th[t].pc = "full" /\ th[t].watch = "off"
    /\ th' = [th EXCEPT ![t].watch = "firing"]
    /\ UNCHANGED <<kind, cl, rr, mu, faults, calls, conns, late, destroyed>>

\* ... and calls rr.cancel, whatever that is by now: this stream's, the next one's, or
\* nil, which ends the process.
Cancel(t) ==
    /\ th[t].watch = "firing"
    /\ th' = [th EXCEPT ![t].watch = "fired"]
    /\ rr' = IF rr.open THEN [rr EXCEPT !.fate = "cancelled"] ELSE rr
    /\ late' = IF ~rr.open THEN "crashed" ELSE IF th[t].pc # "full" THEN "soured" ELSE late
    /\ UNCHANGED <<kind, cl, mu, faults, calls, conns, destroyed>>

\* (mutant: the handle is dropped without closing its stream)
Destroy_Drops ==
    /\ ~destroyed /\ \A t \in Threads : th[t].pc = "idle"
    /\ destroyed' = TRUE
    /\ rr' = NoReader
    /\ UNCHANGED <<kind, cl, mu, th, faults, calls, late, conns>>

\* Destroy: nobody reads through a handle that is being released.
Destroy ==
    /\ ~destroyed /\ \A t \in Threads : th[t].pc = "idle"
    /\ destroyed' = TRUE
    /\ rr' = IF rr.open THEN Closed(rr) ELSE rr
    /\ conns' = ConnsAfterClose
    /\ UNCHANGED <<kind, cl, mu, th, faults, calls, late>>

Progress ==
    late # "crashed" /\ \E t \in Threads :
        Lock(t) \/ Skip(t) \/ Open(t) \/ ReadFull(t) \/ Done(t) \/ MultiRangeRead(t)
        \/ Cancel(t)

Next ==
    \/ Progress
    \/ late # "crashed" /\ (HandleTimeout \/ Destroy)
    \/ late # "crashed" /\ \E t \in Threads : Interrupt(t) \/ \E x \in kind.reads : ReadAt(t, x[1], x[2])

\* Threads are scheduled and GCS answers or fails.
Spec == Init /\ [][Next]_vars /\ WF_vars(Progress)

-----------------------------------------------------------------------------
(* Properties.                                                             *)

\* What the kernel gets are the bytes it asked for, from the first on, in order:
\* through skips, reused and reconnected streams, short reads and their retries, and
\* whatever the other thread does to the stream meanwhile.
RightBytes ==
    \A t \in Threads : th[t].buf = Upto(th[t].off0, Len(th[t].buf))

\* A read that succeeds is complete up to the end of the object, unless GCS ended a
\* stream early.
CompleteReads ==
    \A t \in Threads :
        th[t].pc = "idle" /\ th[t].res = "ok" /\ faults = kind.faults =>
            Len(th[t].buf) = Less(th[t].off + th[t].len, kind.size) - th[t].off0

\* The stream is where the reader believes it to be: start, what the timeout reader
\* has seen and the connection's position agree whenever mu is free, the range lies
\* in the object and never exceeds the configured window (CheckInvariants).
StreamInPlace ==
    mu = None /\ rr.open =>
        /\ rr.from + rr.seen = rr.start
        /\ rr.conn => rr.pos = rr.start
        /\ rr.from <= rr.start /\ rr.start < rr.limit /\ rr.limit <= kind.size
        /\ rr.limit - rr.from <= More(kind.window, MaxReadSize)

\* Every connection but that of the current stream has been closed, and a destroyed
\* handle has none.
NoConnectionLeaks ==
    /\ conns = IF rr.open /\ rr.conn THEN 1 ELSE 0
    /\ destroyed => conns = 0

\* Every read returns, unless a late cancellation ended the process.
ReadsReturn == \A t \in Threads : th[t].pc # "idle" ~> th[t].pc = "idle" \/ late = "crashed"

\* What a read returns is right and complete (readFull, skipBytes, GCSReader.ReadAt).
ReadsRight == RightBytes /\ CompleteReads

\* The stream kept between reads is the only one, and is where the reader believes it to be.
StreamInOrder == StreamInPlace /\ NoConnectionLeaks
=============================================================================
