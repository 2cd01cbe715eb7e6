-------------------------- MODULE RangeReadsProofs --------------------------
(***************************************************************************)
(* Proofs about RangeReads, for any set of threads, object, windows, reads *)
(* and number of failures.                                                 *)
(***************************************************************************)
EXTENDS RangeReads, SequenceTheorems, TLAPS

-----------------------------------------------------------------------------
(* Buffers.                                                                *)

\* What Upto is.
LEMMA UptoIs ==
  ASSUME NEW f \in Int, NEW n \in Nat
  PROVE  /\ Upto(f, n) \in Seq(Int) /\ Len(Upto(f, n)) = n
         /\ \A i \in 1..n : Upto(f, n)[i] = f + i - 1
  <1>1. Upto(f, n) \in [1..n -> Int]
    BY DEF Upto
  <1> QED
    BY <1>1 DEF Upto

\* An empty buffer is right, whatever was asked for.
LEMMA UptoEmpty ==
  ASSUME NEW f \in Int PROVE Upto(f, 0) = << >>
  <1>1. Upto(f, 0) \in Seq(Int) /\ Len(Upto(f, 0)) = 0
    BY UptoIs
  <1> QED
    BY <1>1

\* ReadFull appends the unit that follows.
LEMMA UptoAppend ==
  ASSUME NEW f \in Int, NEW n \in Nat PROVE Append(Upto(f, n), f + n) = Upto(f, n + 1)
  <1> DEFINE u == Upto(f, n)
             a == Append(u, f + n)
             b == Upto(f, n + 1)
  <1>1. u \in Seq(Int) /\ Len(u) = n /\ \A i \in 1..n : u[i] = f + i - 1
    BY UptoIs
  <1>2. b \in Seq(Int) /\ Len(b) = n + 1 /\ \A i \in 1..(n + 1) : b[i] = f + i - 1
    BY UptoIs
  <1> HIDE DEF u, b
  <1>3. a \in Seq(Int) /\ Len(a) = n + 1
    BY <1>1
  <1>4. ASSUME NEW i \in 1..Len(a) PROVE a[i] = b[i]
    BY <1>1, <1>2, <1>3
  <1> HIDE DEF a
  <1>5. a = b
    BY <1>2, <1>3, <1>4, SeqEqual
  <1> QED
    BY <1>5 DEF a, b, u

\* What is cut off at the end leaves the rest right.
LEMMA UptoSubSeq ==
  ASSUME NEW f \in Int, NEW n \in Nat, NEW m \in 0..n PROVE SubSeq(Upto(f, n), 1, m) = Upto(f, m)
  <1> DEFINE u == Upto(f, n)
             a == SubSeq(u, 1, m)
             b == Upto(f, m)
  <1>1. u \in Seq(Int) /\ Len(u) = n /\ \A i \in 1..n : u[i] = f + i - 1
    BY UptoIs
  <1>2. b \in Seq(Int) /\ Len(b) = m /\ \A i \in 1..m : b[i] = f + i - 1
    BY UptoIs
  <1> HIDE DEF u, b
  <1>3. a \in Seq(Int) /\ Len(a) = m /\ \A i \in 1..m : a[i] = u[i]
    BY <1>1
  <1> HIDE DEF a
  <1>4. ASSUME NEW i \in 1..Len(a) PROVE a[i] = b[i]
    BY <1>1, <1>2, <1>3
  <1>5. a = b
    BY <1>2, <1>3, <1>4, SeqEqual
  <1> QED
    BY <1>5 DEF a, b, u

\* The downloader adds the units that follow.
LEMMA UptoConcat ==
  ASSUME NEW f \in Int, NEW m \in Nat, NEW n \in Nat
  PROVE  Upto(f, m) \o Upto(f + m, n) = Upto(f, m + n)
  <1> DEFINE u == Upto(f, m)
             v == Upto(f + m, n)
             a == u \o v
             b == Upto(f, m + n)
  <1>1. u \in Seq(Int) /\ Len(u) = m /\ \A i \in 1..m : u[i] = f + i - 1
    BY UptoIs
  <1>2. v \in Seq(Int) /\ Len(v) = n /\ \A i \in 1..n : v[i] = f + m + i - 1
    BY UptoIs
  <1>3. b \in Seq(Int) /\ Len(b) = m + n /\ \A i \in 1..(m + n) : b[i] = f + i - 1
    BY UptoIs
  <1> HIDE DEF u, v, b
  <1>4. /\ a \in Seq(Int) /\ Len(a) = m + n
        /\ \A i \in 1..(m + n) : a[i] = IF i <= m THEN u[i] ELSE v[i - m]
    BY <1>1, <1>2, ConcatProperties, Zenon
  <1> HIDE DEF a
  <1>5. ASSUME NEW i \in 1..Len(a) PROVE a[i] = b[i]
    <2>1. CASE i <= m
      BY <1>1, <1>3, <1>4, <2>1
    <2>2. CASE i > m
      <3>1. i - m \in 1..n
        BY <1>4, <2>2
      <3> QED
        BY <1>2, <1>3, <1>4, <2>2, <3>1
    <2> QED
      BY <1>4, <2>1, <2>2
  <1>6. a = b
    BY <1>3, <1>4, <1>5, SeqEqual
  <1> QED
    BY <1>6 DEF a, b, u, v

-----------------------------------------------------------------------------
(* The inductive invariant.                                                *)

Types == {"seq", "random"}
Holding == {"skip", "open", "full", "done"}    \* mu is held
Places == {"idle", "lock", "mrd"} \cup Holding
Info == [rt : Types, exp : Int, rec : BOOLEAN]
Classifier == [rt : Types, exp : Int, seeks : Nat, total : Nat]
Stream == [open : BOOLEAN, start : Int, limit : Int, fate : {"live", "eof", "err", "cancelled"},
           conn : BOOLEAN, pos : Int, from : Int, seen : Int, active : BOOLEAN]
Thread == [pc : Places, off0 : Nat, off : Nat, len : Nat, got : Nat, buf : Seq(Int), info : Info,
           end : Int, force : BOOLEAN, watch : {"off", "firing", "fired"},
           res : {None, "ok", "eof", "err", "short"}]

TypeOK ==
  /\ kind \in Kinds /\ cl \in Classifier /\ rr \in Stream /\ mu \in Threads \cup {None}
  /\ th \in [Threads -> Thread] /\ faults \in 0..kind.faults /\ conns \in Int /\ destroyed \in BOOLEAN

\* The end of what the read asks for that there is.
Wanted(x) == Less(x.off + x.len, kind.size)

\* A range to open: it has all that is asked for, in the object, within the window.
Fits(x, end) ==
  /\ Wanted(x) <= end /\ x.off < end /\ end <= kind.size
  /\ end - x.off <= More(kind.window, MaxReadSize)

\* A read, apart from the stream: the buffer has what lies between the offset asked for
\* first and the one reached.
Local(x) ==
  /\ x.buf = Upto(x.off0, Len(x.buf))
  /\ x.pc # "idle" =>
       /\ x.off0 <= x.off /\ x.off < kind.size /\ x.len \in 1..MinReadSize /\ x.got <= x.len
       /\ Len(x.buf) = x.off - x.off0 + x.got
       /\ x.pc \notin {"full", "done"} => x.got = 0
       /\ x.pc \in {"skip", "open"} /\ ~kind.old => Fits(x, x.end)

\* The stream has passed n units since the start the reader knows.
Passed(r, n) ==
  /\ r.conn => r.open
  /\ r.open => /\ r.from + r.seen = r.start + n /\ (r.conn => r.pos = r.start + n)
               /\ r.from <= r.start /\ r.start + n <= r.limit /\ r.limit <= kind.size
               /\ r.limit - r.from <= More(kind.window, MaxReadSize)
AtRest(r) == Passed(r, 0) /\ (r.open => r.start < r.limit)

\* The stream as the holder of mu has it.
Reads(x, r) == r.open /\ r.start = x.off /\ Wanted(x) <= r.limit /\ Passed(r, x.got)
Held(x, r) ==
  /\ x.pc = "skip" => AtRest(r)
  /\ x.pc = "open" => ~r.open /\ ~r.conn
  /\ x.pc = "full" => Reads(x, r)
  /\ x.pc = "done" => \/ Reads(x, r) /\ (x.res = "ok" => x.got = x.len)
                      \/ ~r.open /\ ~r.conn /\ x.got = 0 /\ x.res = "err"

Complete(x) == x.pc = "idle" /\ x.res = "ok" => Len(x.buf) = Wanted(x) - x.off0

Mutex == \A t \in Threads : th[t].pc \in Holding <=> mu = t
Streamed == IF mu = None THEN AtRest(rr) ELSE Held(th[mu], rr)

IInv ==
  /\ TypeOK /\ Mutex /\ Streamed
  /\ \A t \in Threads : Local(th[t])
  /\ faults = kind.faults => \A t \in Threads : Complete(th[t])
  /\ conns = IF rr.conn THEN 1 ELSE 0
  /\ destroyed => ~rr.open /\ \A t \in Threads : th[t].pc = "idle"

-----------------------------------------------------------------------------

\* What the configuration promises.
LEMMA KindFacts ==
  ASSUME TypeOK
  PROVE  /\ {kind.zonal, kind.old, kind.timeout, kind.interrupts} \subseteq BOOLEAN
         /\ kind.size \in Nat /\ kind.window \in Nat \ {0} /\ kind.window >= MinReadSize
         /\ kind.faults \in Nat /\ \A x \in kind.reads : x[1] \in Nat /\ x[2] \in 1..MinReadSize
         /\ MinReadSize \in Nat \ {0} /\ MaxReadSize \in Nat /\ MaxReadSize >= MinReadSize
         /\ minSeeksForRandom \in Nat \ {0} /\ None \notin Threads
  BY RangeAssumption DEF TypeOK, KindOK, None

\* A thread that does not read.
LEMMA IdleIs ==
  /\ IdleThread \in Thread /\ IdleThread.pc = "idle" /\ IdleThread.res = None /\ IdleThread.got = 0
  /\ IdleThread.buf = << >>
  BY DEF IdleThread, Thread, Info, Types, Places, None

\* Before the first read nothing is open and nobody reads.
LEMMA InitIInv == Init => IInv
  <1> SUFFICES ASSUME Init PROVE IInv
    OBVIOUS
  <1>1. kind \in Kinds /\ kind.faults \in Nat /\ None \notin Threads
    BY RangeAssumption DEF Init, KindOK, None
  <1>2. IdleThread \in Thread /\ IdleThread.pc = "idle" /\ IdleThread.res = None /\ Local(IdleThread)
    BY IdleIs, UptoEmpty DEF Thread, Local
  <1>3. NoReader \in Stream /\ ~NoReader.open /\ ~NoReader.conn /\ NewClassifier \in Classifier
    BY DEF NoReader, Stream, NewClassifier, Classifier, Types
  <1>4. TypeOK
    <2>1. th \in [Threads -> Thread]
      BY <1>2 DEF Init
    <2>2. faults \in 0..kind.faults /\ conns \in Int
      BY <1>1 DEF Init
    <2> QED
      BY <1>1, <1>3, <2>1, <2>2, Zenon DEF Init, TypeOK
  <1>5. Mutex
    BY <1>1, <1>2 DEF Init, Mutex, Holding
  <1>6. Streamed
    BY <1>3 DEF Init, Streamed, AtRest, Passed
  <1>7. \A t \in Threads : Local(th[t]) /\ Complete(th[t]) /\ th[t].pc = "idle"
    BY <1>2 DEF Init, Complete, None
  <1> QED
    BY <1>3, <1>4, <1>5, <1>6, <1>7 DEF Init, IInv

\* A step of one thread changes nothing about the others.
LEMMA ThreadStep ==
  ASSUME IInv, NEW t \in Threads, NEW y \in Thread, th' = [th EXCEPT ![t] = y],
         kind' = kind, cl' \in Classifier, rr' \in Stream, destroyed' = destroyed,
         destroyed => y.pc = "idle" /\ ~rr'.open,
         faults' = faults \/ Fault,
         Local(y), faults' = kind.faults => Complete(y),
         \/ mu' = mu /\ (y.pc \in Holding <=> th[t].pc \in Holding)
         \/ mu = None /\ mu' = t /\ y.pc \in Holding
         \/ mu = t /\ mu' = None /\ y.pc \notin Holding,
         \/ mu' = t /\ Held(y, rr')
         \/ mu' = None /\ AtRest(rr')
         \/ mu' = mu /\ mu # t /\ rr' = rr,
         conns' = IF rr'.conn THEN 1 ELSE 0
  PROVE  IInv'
  <1>1. /\ kind.faults \in Nat /\ None \notin Threads
        /\ th \in [Threads -> Thread] /\ mu \in Threads \cup {None}
        /\ faults \in 0..kind.faults
    BY KindFacts DEF IInv, TypeOK
  <1>2. th'[t] = y /\ \A u \in Threads \ {t} : th'[u] = th[u]
    BY <1>1
  <1>3. faults' \in 0..kind.faults /\ (faults' = kind.faults => faults = kind.faults)
    BY <1>1 DEF Fault
  <1>4. TypeOK'
    <2>1. th' \in [Threads -> Thread]
      BY <1>1
    <2>2. conns' \in Int
      OBVIOUS
    <2>3. mu' \in Threads \cup {None}
      BY <1>1
    <2> QED
      BY <1>3, <2>1, <2>2, <2>3 DEF IInv, TypeOK
  <1>5. Mutex'
    BY <1>1, <1>2 DEF IInv, Mutex
  <1>6. Streamed'
    <2>1. CASE mu' = t /\ Held(y, rr')
      <3>1. Held(th[t], rr)'
        BY <1>2, <2>1 DEF Held, AtRest, Passed, Reads, Wanted
      <3> QED
        BY <1>1, <2>1, <3>1 DEF Streamed
    <2>2. CASE mu' = None /\ AtRest(rr')
      BY <2>2 DEF Streamed, AtRest, Passed
    <2>3. CASE mu' = mu /\ mu # t /\ rr' = rr
      <3>1. CASE mu = None
        BY <2>3, <3>1 DEF IInv, Streamed, AtRest, Passed
      <3>2. CASE mu \in Threads
        <4>1. th'[mu] = th[mu] /\ Held(th[mu], rr)
          BY <1>1, <1>2, <2>3, <3>2 DEF IInv, Streamed
        <4>2. Held(th[mu], rr)'
          BY <2>3, <4>1 DEF Held, AtRest, Passed, Reads, Wanted
        <4> QED
          BY <1>1, <2>3, <3>2, <4>2 DEF Streamed
      <3> QED
        BY <1>1, <3>1, <3>2
    <2> QED
      BY <2>1, <2>2, <2>3
  <1>7. \A u \in Threads : Local(th[u])'
    <2> SUFFICES ASSUME NEW u \in Threads PROVE Local(th[u])'
      OBVIOUS
    <2>1. Local(th'[u])
      BY <1>2 DEF IInv
    <2> QED
      BY <2>1 DEF Local, Fits, Wanted
  <1>8. faults' = kind.faults => \A u \in Threads : Complete(th[u])'
    <2> SUFFICES ASSUME NEW u \in Threads, faults' = kind.faults PROVE Complete(th[u])'
      OBVIOUS
    <2>1. Complete(th'[u])
      BY <1>2, <1>3 DEF IInv
    <2> QED
      BY <2>1 DEF Complete, Wanted
  <1>9. destroyed' => ~rr'.open /\ \A u \in Threads : th'[u].pc = "idle"
    BY <1>2 DEF IInv
  <1> QED
    BY <1>4, <1>5, <1>6, <1>7, <1>8, <1>9 DEF IInv

-----------------------------------------------------------------------------
(* The classifier and the ranges it asks for.                              *)

\* GetReadInfo, RecordRead and the adjustment of the type yield a classifier.
LEMMA ClassifierTypes ==
  ASSUME NEW c \in Classifier
  PROVE  /\ \A off \in Int, recorded \in BOOLEAN :
              GetReadInfo(c, off, recorded).c \in Classifier /\ GetReadInfo(c, off, recorded).info \in Info
         /\ \A off, n \in Nat : RecordRead(c, off, n) \in Classifier
         /\ \A n \in Nat : [c EXCEPT !.total = @ + n] \in Classifier
         /\ AdjustType(c) \in Classifier
  <1>1. ASSUME NEW off \in Int, NEW recorded \in BOOLEAN
        PROVE  GetReadInfo(c, off, recorded).c \in Classifier /\ GetReadInfo(c, off, recorded).info \in Info
    <2> DEFINE seek == ~recorded /\ isSeekNeeded(c, off)
               d == [c EXCEPT !.seeks = IF seek THEN @ + 1 ELSE @]
               rt == IF ~SmallReads(d) THEN "seq" ELSE IF d.seeks >= minSeeksForRandom THEN "random" ELSE c.rt
    <2>1. d \in Classifier
      BY DEF Classifier
    <2>2. rt \in Types /\ (recorded \/ seek) \in BOOLEAN
      BY DEF Types, Classifier
    <2>3. GetReadInfo(c, off, recorded) = [c |-> [d EXCEPT !.rt = rt], info |-> [rt |-> rt, exp |-> c.exp, rec |-> recorded \/ seek]]
      BY DEF GetReadInfo
    <2> HIDE DEF d, rt, seek
    <2> QED
      BY <2>1, <2>2, <2>3 DEF Classifier, Info
  <1>2. ASSUME NEW off \in Nat, NEW n \in Nat PROVE RecordRead(c, off, n) \in Classifier
    <2>1. c.total + n \in Nat /\ off + n \in Int
      BY DEF Classifier
    <2> QED
      BY <2>1, Zenon DEF RecordRead, Classifier
  <1>3. \A n \in Nat : [c EXCEPT !.total = @ + n] \in Classifier
    BY DEF Classifier
  <1>4. AdjustType(c) \in Classifier
    BY DEF AdjustType, Classifier, Types
  <1> QED
    BY <1>1, <1>2, <1>3, <1>4

\* getEndOffset, in both readers: the range opened has all that is asked for, as far as
\* the object goes, and is no longer than the window.
LEMMA RangesFit ==
  ASSUME TypeOK, NEW c \in Classifier, NEW x \in Thread, x.off < kind.size, x.len \in 1..MinReadSize
  PROVE  /\ EndOffset(c, x.off) \in Int /\ Fits(x, EndOffset(c, x.off))
         /\ OldEndOffset(c, x.off) \in Int /\ Fits(x, OldEndOffset(c, x.off))
  <1>1. /\ kind.size \in Nat /\ kind.window \in Nat /\ kind.window >= MinReadSize
        /\ MinReadSize \in Nat /\ MinReadSize >= 1 /\ MaxReadSize \in Nat /\ MaxReadSize >= MinReadSize
        /\ minSeeksForRandom \in Nat /\ minSeeksForRandom >= 1
    BY KindFacts
  <1>2. x.off \in Nat /\ x.len \in Nat /\ x.len >= 1 /\ x.len <= MinReadSize /\ c.seeks \in Nat /\ c.total \in Nat
    BY <1>1 DEF Thread, Classifier
  <1>3. RandomPattern(c) => c.seeks >= 1
    BY <1>1, <1>2 DEF RandomPattern
  <1>4. \A s \in Nat : s >= 1 => s * MinReadSize \in Nat /\ s * MinReadSize >= 1
    BY <1>1
  <1>5. \A e \in Int : LET w == Less(More(e * MinReadSize, MinReadSize), MaxReadSize)
                       IN  w \in Int /\ w >= MinReadSize /\ w <= MaxReadSize
    BY <1>1 DEF Less, More
  <1>6. \A a \in Int, b \in Nat : b >= 1 => a \div b \in Int
    OBVIOUS
  <1>7. ASSUME NEW w \in Int, w >= MinReadSize \/ w >= kind.size, w <= More(kind.window, MaxReadSize), w >= 1
        PROVE  Less(x.off + w, kind.size) \in Int /\ Fits(x, Less(x.off + w, kind.size))
    BY <1>1, <1>2, <1>7 DEF Fits, Wanted, Less, More
  <1>8. /\ PrefetchWindow(c) \in Int /\ PrefetchWindow(c) >= MinReadSize
        /\ PrefetchWindow(c) <= More(kind.window, MaxReadSize)
    <2>1. CASE RandomPattern(c)
      <3> DEFINE mb == c.seeks * MinReadSize
                 e == (c.total + mb - 1) \div mb
      <3>1. e \in Int
        BY <1>2, <1>3, <1>4, <1>6, <2>1
      <3>2. PrefetchWindow(c) = Less(More(e * MinReadSize, MinReadSize), MaxReadSize)
        BY <2>1 DEF PrefetchWindow
      <3> HIDE DEF e
      <3> QED
        BY <1>1, <1>5, <3>1, <3>2 DEF More
    <2>2. CASE ~RandomPattern(c)
      BY <1>1, <2>2 DEF PrefetchWindow, More
    <2> QED
      BY <2>1, <2>2
  <1>9. EndOffset(c, x.off) \in Int /\ Fits(x, EndOffset(c, x.off))
    BY <1>1, <1>7, <1>8 DEF EndOffset
  <1>10. OldEndOffset(c, x.off) \in Int /\ Fits(x, OldEndOffset(c, x.off))
    <2>1. CASE RandomPattern(c)
      <3> DEFINE e == c.total \div (c.seeks * MinReadSize) + 1
                 w == Less(More(e * MinReadSize, MinReadSize), MaxReadSize)
      <3>1. e \in Int
        BY <1>2, <1>3, <1>4, <1>6, <2>1
      <3>2. OldEndOffset(c, x.off) = Less(x.off + Less(w, kind.window), kind.size)
        BY <2>1 DEF OldEndOffset
      <3> HIDE DEF e
      <3>3. w \in Int /\ w >= MinReadSize /\ w <= MaxReadSize
        BY <1>5, <3>1
      <3> HIDE DEF w
      <3>4. LET v == Less(w, kind.window) IN v \in Int /\ v >= MinReadSize /\ v <= More(kind.window, MaxReadSize)
        BY <1>1, <3>3 DEF Less, More
      <3> QED
        BY <1>1, <1>7, <3>2, <3>4
    <2>2. CASE ~RandomPattern(c)
      <3>1. OldEndOffset(c, x.off) = Less(x.off + Less(kind.size, kind.window), kind.size)
        BY <2>2 DEF OldEndOffset
      <3>2. LET v == Less(kind.size, kind.window)
            IN  /\ v \in Int /\ v >= 1 /\ v <= More(kind.window, MaxReadSize)
                /\ v >= MinReadSize \/ v >= kind.size
        BY <1>1, <1>2 DEF Less, More
      <3> QED
        BY <1>7, <3>1, <3>2
    <2> QED
      BY <2>1, <2>2
  <1> QED
    BY <1>9, <1>10

-----------------------------------------------------------------------------
(* A read, step by step.                                                   *)

\* mu: who holds it, and what that tells.
LEMMA Holder ==
  ASSUME IInv, NEW t \in Threads
  PROVE  /\ th[t] \in Thread /\ Local(th[t]) /\ mu \in Threads \cup {None} /\ None \notin Threads
         /\ th[t].pc \in Holding => mu = t /\ Held(th[t], rr)
         /\ th[t].pc \notin Holding => mu # t
         /\ th[t].pc # "idle" => ~destroyed
         /\ mu = None => AtRest(rr)
         /\ rr \in Stream /\ cl \in Classifier /\ conns = IF rr.conn THEN 1 ELSE 0
  BY KindFacts DEF IInv, TypeOK, Mutex, Streamed

\* ReadAt: the classifier is asked and the read goes to one of the readers.
LEMMA ReadAtIInv ==
  ASSUME IInv, NEW t \in Threads, NEW off \in Nat, NEW n \in 1..MinReadSize, ReadAt(t, off, n)
  PROVE  IInv'
  <1>0. TypeOK /\ MinReadSize \in Nat
    BY KindFacts DEF IInv
  <1> DEFINE i == GetReadInfo(cl, off, FALSE)
             pc == IF readerType(i.info.rt) = "mrd" THEN "mrd" ELSE "lock"
             watch == IF th[t].watch = "firing" THEN "firing" ELSE "off"
             y == [IdleThread EXCEPT !.pc = pc, !.off0 = off, !.off = off, !.len = n, !.info = i.info,
                                     !.watch = watch]
  <1>1. i.c \in Classifier /\ i.info \in Info
    <2>1. cl \in Classifier /\ off \in Int /\ FALSE \in BOOLEAN
      BY Holder
    <2> QED
      BY <2>1, ClassifierTypes, Zenon
  <1>2. th' = [th EXCEPT ![t] = y] /\ cl' = i.c
    BY DEF ReadAt
  <1>3. /\ th[t].pc = "idle" /\ ~destroyed /\ off < kind.size
        /\ UNCHANGED <<kind, rr, mu, faults, conns, destroyed>>
    BY DEF ReadAt
  <1> HIDE DEF i
  <1>4. /\ y \in Thread /\ y.pc \in {"mrd", "lock"} /\ y.buf = << >> /\ y.off0 = off /\ y.off = off
        /\ y.len = n /\ y.got = 0
    <2>1. pc \in {"mrd", "lock"} /\ watch \in {"firing", "off"} /\ n \in Nat /\ << >> \in Seq(Int)
      BY <1>0
    <2> HIDE DEF pc, watch
    <2> HIDE DEF i
    <2> QED
      BY <1>1, <2>1, IdleIs, Zenon DEF Thread, Places
  <1> HIDE DEF y
  <1>5. Local(y)
    BY <1>0, <1>3, <1>4, UptoEmpty DEF Local
  <1>6. Complete(y)
    BY <1>4 DEF Complete
  <1>7. y.pc \notin Holding /\ th[t].pc \notin Holding
    BY <1>3, <1>4 DEF Holding
  <1> QED
    BY <1>1, <1>2, <1>3, <1>4, <1>5, <1>6, <1>7, Holder, ThreadStep, Zenon

\* Lock: the type is computed again, and the range to open.
LEMMA LockIInv ==
  ASSUME IInv, NEW t \in Threads, Lock(t) PROVE IInv'
  <1> DEFINE x == th[t]
             i == IF PatternChanged(x) THEN GetReadInfo(cl, x.off, x.info.rec) ELSE [c |-> cl, info |-> x.info]
             stay == readerType(i.info.rt) = "range"
             end == IF stay /\ ~kind.old THEN EndOffset(i.c, x.off) ELSE 0
             y == [x EXCEPT !.info = i.info, !.pc = IF stay THEN "skip" ELSE "mrd", !.end = end]
  <1>1. /\ x.pc = "lock" /\ mu = None /\ mu' = IF stay THEN t ELSE None
        /\ cl' = IF stay /\ ~kind.old THEN AdjustType(i.c) ELSE i.c
        /\ IF stay /\ x.force /\ rr.open THEN rr' = NoReader /\ conns' = ConnsAfterClose ELSE UNCHANGED <<rr, conns>>
        /\ UNCHANGED <<kind, destroyed, faults>>
    BY DEF Lock, Locks
  <1>2. /\ x \in Thread /\ Local(x) /\ ~destroyed /\ AtRest(rr) /\ rr \in Stream /\ cl \in Classifier
        /\ conns = (IF rr.conn THEN 1 ELSE 0) /\ x.pc \notin Holding /\ None \notin Threads
    BY <1>1, Holder DEF Holding
  <1>3. th' = [th EXCEPT ![t] = y]
    BY <1>2, Zenon DEF Lock, Thread, IInv, TypeOK
  <1>4. i.c \in Classifier /\ i.info \in Info
    <2>1. x.off \in Int /\ x.info \in Info /\ x.info.rec \in BOOLEAN
      BY <1>2 DEF Thread, Info
    <2>2. CASE PatternChanged(x)
      BY <1>2, <2>1, <2>2, ClassifierTypes, Zenon
    <2>3. CASE ~PatternChanged(x)
      BY <1>2, <2>1, <2>3
    <2> QED
      BY <2>2, <2>3
  <1>5. cl' \in Classifier
    BY <1>1, <1>4, ClassifierTypes, SMTT(30)
  <1>6. kind.size \in Nat /\ x.off0 <= x.off /\ x.off < kind.size /\ x.len \in 1..MinReadSize /\ x.got = 0
    BY <1>1, <1>2, KindFacts DEF Local, IInv
  <1>7. end \in Int /\ (stay /\ ~kind.old => Fits(x, end))
    BY <1>2, <1>4, <1>6, RangesFit DEF IInv
  <1> HIDE DEF end, i, stay
  <1>8. /\ y \in Thread /\ y.pc = (IF stay THEN "skip" ELSE "mrd") /\ y.end = end /\ y.off = x.off
        /\ y.off0 = x.off0 /\ y.len = x.len /\ y.got = x.got /\ y.buf = x.buf
    BY <1>2, <1>4, <1>7, Zenon DEF Thread, Places, Holding
  <1> HIDE DEF y
  <1>9. Local(y)
    BY <1>1, <1>2, <1>6, <1>7, <1>8 DEF Local, Fits, Wanted
  <1>10. Complete(y)
    BY <1>8 DEF Complete
  <1>11. /\ rr' \in Stream /\ AtRest(rr') /\ conns' = IF rr'.conn THEN 1 ELSE 0
    <2>1. NoReader \in Stream /\ ~NoReader.open /\ ~NoReader.conn
      BY DEF NoReader, Stream
    <2>2. AtRest(NoReader)
      BY <2>1 DEF AtRest, Passed
    <2> QED
      BY <1>1, <1>2, <2>1, <2>2 DEF ConnsAfterClose
  <1>12. CASE stay
    <2>1. Held(y, rr')
      BY <1>8, <1>11, <1>12 DEF Held
    <2>2. y.pc \in Holding
      BY <1>8, <1>12 DEF Holding
    <2> QED
      BY <1>1, <1>2, <1>3, <1>5, <1>8, <1>9, <1>10, <1>11, <1>12, <2>1, <2>2, ThreadStep, Zenon
  <1>13. CASE ~stay
    <2>1. y.pc \notin Holding
      BY <1>8, <1>13 DEF Holding
    <2> QED
      BY <1>1, <1>2, <1>3, <1>5, <1>8, <1>9, <1>10, <1>11, <1>13, <2>1, ThreadStep, Zenon
  <1> QED
    BY <1>12, <1>13

\* A stream that reconnects is where it was.
LEMMA ConnectedIs ==
  ASSUME IInv, NEW r \in Stream, NEW n \in Int, Passed(r, n), r.open, NEW s, s = Connected(r)
  PROVE  /\ s \in Stream /\ s.open /\ Passed(s, n) /\ (s.fate = "live" => s.conn)
         /\ s.start = r.start /\ s.limit = r.limit /\ s.from = r.from /\ s.seen = r.seen
  <1>1. CASE r.conn \/ r.fate = "cancelled"
    BY <1>1 DEF Connected
  <1>2. CASE ~(r.conn \/ r.fate = "cancelled")
    <2>1. r.from + r.seen \in Int
      BY DEF Stream
    <2>2. /\ s \in Stream /\ s.conn /\ s.pos = r.from + r.seen /\ s.open
          /\ s.start = r.start /\ s.limit = r.limit /\ s.from = r.from /\ s.seen = r.seen
      BY <1>2, <2>1, Zenon DEF Connected, Stream
    <2> QED
      BY <2>2 DEF Passed
  <1> QED
    BY <1>1, <1>2

\* Units that are consumed are counted on both sides.
LEMMA ConsumedIs ==
  ASSUME IInv, NEW r \in Stream, NEW n \in Int, NEW k \in Nat, Passed(r, n), r.open,
         k > 0 => r.fate = "live" /\ r.conn /\ r.pos + k <= r.limit, NEW s, s = Consumed(r, k)
  PROVE  /\ s \in Stream /\ s.open /\ Passed(s, n + k)
         /\ s.start = r.start /\ s.limit = r.limit /\ s.conn = r.conn
  <1>1. /\ r.pos \in Int /\ r.seen \in Int /\ r.start \in Int /\ r.from \in Int /\ r.limit \in Int
    BY DEF Stream
  <1>2. /\ s \in Stream /\ s.open /\ s.pos = r.pos + k /\ s.seen = r.seen + k
        /\ s.start = r.start /\ s.limit = r.limit /\ s.conn = r.conn /\ s.from = r.from
    <2>1. r.pos + k \in Int /\ r.seen + k \in Int
      BY <1>1
    <2> QED
      BY <2>1, Zenon DEF Consumed, Stream
  <1>3. Passed(s, n + k)
    BY <1>1, <1>2 DEF Passed
  <1> QED
    BY <1>2, <1>3

\* Closing leaves nothing open.
LEMMA ClosedIs ==
  ASSUME NEW r \in Stream PROVE Closed(r) \in Stream /\ ~Closed(r).open /\ ~Closed(r).conn
  <1>1. NoReader \in Stream /\ ~NoReader.open /\ ~NoReader.conn
    BY DEF NoReader, Stream
  <1>2. r.start \in Int /\ r.limit \in Int
    BY DEF Stream
  <1> QED
    BY <1>1, <1>2, Zenon DEF Closed, Stream

\* skipBytes and invalidateReaderIfMisalignedOrTooSmall: a stream that is kept is where
\* the read begins and goes far enough.
LEMMA SkipIInv ==
  ASSUME IInv, NEW t \in Threads, Skip(t) PROVE IInv'
  <1> DEFINE x == th[t]
             can == Skippable(rr, x.off)
             want == x.off - rr.start
             r0 == IF can THEN Connected(rr) ELSE rr
             R(n, fate) == IF can THEN [Consumed(r0, n) EXCEPT !.start = @ + n, !.fate = fate] ELSE rr
             Drop(r) == r.open /\ Misaligned(r, x)
  <1>1. x.pc = "skip" /\ UNCHANGED <<kind, destroyed, cl, mu>>
    BY DEF Skip, Locks
  <1>2. PICK n \in (IF can THEN 0..want ELSE {0}), fate \in {r0.fate, "eof", "err"} :
             /\ n > 0 => r0.fate = "live" /\ r0.pos + n <= rr.limit
             /\ IF can /\ n < want /\ r0.fate = "live" /\ r0.pos + n < rr.limit
                THEN fate # "live" /\ Fault ELSE fate = r0.fate /\ NoFault
             /\ rr' = IF Drop(R(n, fate)) THEN Closed(R(n, fate)) ELSE R(n, fate)
             /\ conns' = Conns(rr')
             /\ th' = [th EXCEPT ![t].pc = IF R(n, fate).open /\ ~Drop(R(n, fate)) THEN "full" ELSE "open"]
    BY Zenon DEF Skip
  <1> DEFINE r == R(n, fate)
             y == [x EXCEPT !.pc = IF r.open /\ ~Drop(r) THEN "full" ELSE "open"]
  <1>a. faults' = faults \/ Fault
    BY <1>2 DEF NoFault
  <1>3. /\ x \in Thread /\ Local(x) /\ ~destroyed /\ mu = t /\ Held(x, rr) /\ rr \in Stream /\ cl \in Classifier
        /\ conns = (IF rr.conn THEN 1 ELSE 0)
    BY <1>1, Holder DEF Holding
  <1>4. AtRest(rr) /\ x.off \in Nat /\ rr.start \in Int
    BY <1>1, <1>3 DEF Held, Thread, Stream
  <1>5. r \in Stream /\ Passed(r, 0) /\ (~can => r = rr)
    <2>1. CASE can
      <3>1. rr.open
        BY <2>1 DEF Skippable
      <3>2. /\ r0 \in Stream /\ r0.open /\ Passed(r0, 0) /\ (r0.fate = "live" => r0.conn)
            /\ r0.start = rr.start /\ r0.limit = rr.limit
        BY <1>3, <1>4, <2>1, <3>1, ConnectedIs DEF AtRest
      <3> HIDE DEF r0
      <3>3. n \in Nat
        BY <1>4, <2>1
      <3> DEFINE s == Consumed(r0, n)
      <3>4. s \in Stream /\ s.open /\ Passed(s, 0 + n) /\ s.start = r0.start /\ s.limit = r0.limit
        BY <1>2, <3>2, <3>3, ConsumedIs
      <3>5. r = [s EXCEPT !.start = @ + n, !.fate = fate]
        BY <2>1
      <3> HIDE DEF s
      <3>6. fate \in {"live", "eof", "err", "cancelled"} /\ s.start + n \in Int
        BY <3>2, <3>3, <3>4 DEF Stream
      <3> HIDE DEF r
      <3>7. /\ r \in Stream /\ r.start = s.start + n /\ r.limit = s.limit /\ r.from = s.from /\ r.pos = s.pos
            /\ r.seen = s.seen /\ r.conn = s.conn /\ r.open = s.open
        BY <3>4, <3>5, <3>6, Zenon DEF Stream
      <3>8. s.start \in Int /\ s.from \in Int /\ s.limit \in Int
        BY <3>4 DEF Stream
      <3> QED
        BY <2>1, <3>3, <3>4, <3>7, <3>8 DEF Passed
    <2>2. CASE ~can
      BY <1>3, <1>4, <2>2 DEF AtRest
    <2> QED
      BY <2>1, <2>2
  <1>6. th' = [th EXCEPT ![t] = y] /\ rr' = (IF Drop(r) THEN Closed(r) ELSE r) /\ conns' = Conns(rr')
    BY <1>2, <1>3 DEF Thread, IInv, TypeOK
  <1> HIDE DEF r, r0, can, want
  <1>7. rr' \in Stream /\ conns' = IF rr'.conn THEN 1 ELSE 0
    BY <1>3, <1>5, <1>6, ClosedIs DEF Conns
  <1>8. /\ y \in Thread /\ y.pc = (IF r.open /\ ~Drop(r) THEN "full" ELSE "open") /\ y.end = x.end /\ y.off = x.off
        /\ y.off0 = x.off0 /\ y.len = x.len /\ y.got = x.got /\ y.buf = x.buf
    BY <1>3, SMTT(30) DEF Thread, Places, Holding
  <1> HIDE DEF y
  <1>9. Local(y) /\ Complete(y)
    BY <1>1, <1>3, <1>8 DEF Local, Fits, Wanted, Complete
  <1>10. Held(y, rr')
    <2>0. /\ kind.size \in Nat /\ x.len \in Nat /\ x.off \in Nat /\ r.limit \in Int /\ x.got = 0
      BY <1>1, <1>3, <1>5, KindFacts, SMTT(30) DEF Thread, Local, Stream, IInv
    <2>1. CASE r.open /\ ~Drop(r)
      <3>1. y.pc = "full" /\ rr' = r /\ r.start = x.off /\ ~(Less(x.off + x.len, kind.size) > r.limit)
        BY <1>6, <1>8, <2>1 DEF Misaligned
      <3>2. Wanted(y) <= r.limit
        BY <1>8, <2>0, <3>1 DEF Wanted, Less
      <3>3. Reads(y, r)
        BY <1>5, <1>8, <2>0, <2>1, <3>1, <3>2 DEF Reads
      <3> QED
        BY <3>1, <3>3 DEF Held
    <2>2. CASE ~(r.open /\ ~Drop(r))
      <3>1. y.pc = "open" /\ ~rr'.open /\ ~rr'.conn
        BY <1>5, <1>6, <1>8, <2>2, ClosedIs DEF Passed
      <3> QED
        BY <3>1 DEF Held
    <2> QED
      BY <2>1, <2>2
  <1>11. y.pc \in Holding /\ x.pc \in Holding
    BY <1>1, <1>8 DEF Holding
  <1> QED
    BY <1>1, <1>a, <1>3, <1>6, <1>7, <1>8, <1>9, <1>10, <1>11, ThreadStep, Zenon

\* startRead: the stream opened is the one computed for this read.
LEMMA OpenIInv ==
  ASSUME IInv, NEW t \in Threads, Open(t) PROVE IInv'
  <1> DEFINE x == th[t]
  <1>1. x.pc = "open" /\ UNCHANGED <<kind, destroyed, cl, mu>>
    BY DEF Open, Locks
  <1>2. /\ x \in Thread /\ Local(x) /\ ~destroyed /\ mu = t /\ Held(x, rr) /\ rr \in Stream /\ cl \in Classifier
        /\ conns = (IF rr.conn THEN 1 ELSE 0) /\ x.pc \in Holding
    BY <1>1, Holder DEF Holding
  <1>3. /\ ~rr.open /\ ~rr.conn /\ x.off < kind.size /\ x.len \in 1..MinReadSize /\ x.got = 0
        /\ x.off \in Nat /\ x.len \in Nat /\ kind.size \in Nat
    BY <1>1, <1>2, KindFacts DEF Held, Local, Thread, IInv
  <1>4. CASE /\ rr' = IF kind.old THEN OldStartRead(x) ELSE StartRead(x)
             /\ conns' = conns + 1
             /\ th' = [th EXCEPT ![t].pc = "full"] /\ NoFault
    <2> DEFINE y == [x EXCEPT !.pc = "full"]
    <2>1. PICK end \in Int : rr' = Opened(x.off, end) /\ Fits(x, end)
      <3>1. CASE kind.old
        BY <1>2, <1>3, <1>4, <3>1, RangesFit DEF OldStartRead, IInv
      <3>2. CASE ~kind.old
        <4>1. x.end \in Int /\ Fits(x, x.end)
          BY <1>1, <1>2, <3>2 DEF Local, Thread
        <4> QED
          BY <1>4, <3>2, <4>1, SMTT(30) DEF StartRead
      <3> QED
        BY <3>1, <3>2
    <2>2. /\ rr' \in Stream /\ rr'.open /\ rr'.conn /\ rr'.start = x.off /\ rr'.limit = end /\ rr'.from = x.off
          /\ rr'.seen = 0 /\ rr'.pos = x.off
      BY <1>3, <2>1 DEF Opened, Stream
    <2>3. /\ y \in Thread /\ y.pc = "full" /\ y.off = x.off /\ y.off0 = x.off0 /\ y.len = x.len
          /\ y.got = x.got /\ y.buf = x.buf
      BY <1>2, Zenon DEF Thread, Places, Holding
    <2>4. th' = [th EXCEPT ![t] = y]
      BY <1>2, <1>4 DEF Thread, IInv, TypeOK
    <2> HIDE DEF y
    <2>5. Local(y) /\ Complete(y)
      BY <1>1, <1>2, <2>3 DEF Local, Complete
    <2>6. Passed(rr', 0)
      BY <1>3, <2>1, <2>2 DEF Passed, Fits
    <2>7. Held(y, rr')
      BY <1>3, <2>1, <2>2, <2>3, <2>6 DEF Held, Reads, Fits, Wanted
    <2>8. y.pc \in Holding /\ faults' = faults /\ conns' = IF rr'.conn THEN 1 ELSE 0
      BY <1>2, <1>3, <1>4, <2>2, <2>3 DEF Holding, NoFault
    <2> QED
      BY <1>1, <1>2, <2>2, <2>3, <2>4, <2>5, <2>7, <2>8, ThreadStep, Zenon
  <1>5. CASE /\ Fault /\ UNCHANGED <<rr, conns>>
             /\ th' = [th EXCEPT ![t].pc = "done", ![t].res = "err"]
    <2> DEFINE y == [x EXCEPT !.pc = "done", !.res = "err"]
    <2>1. /\ y \in Thread /\ y.pc = "done" /\ y.res = "err" /\ y.off = x.off /\ y.off0 = x.off0 /\ y.len = x.len
          /\ y.got = x.got /\ y.buf = x.buf
      BY <1>2, Zenon DEF Thread, Places, Holding
    <2>2. th' = [th EXCEPT ![t] = y]
      BY <1>2, <1>5, Zenon DEF Thread, IInv, TypeOK
    <2> HIDE DEF y
    <2>3. Local(y) /\ Complete(y) /\ Held(y, rr) /\ y.pc \in Holding
      BY <1>1, <1>2, <1>3, <2>1 DEF Local, Complete, Held, Holding
    <2> QED
      BY <1>1, <1>2, <1>5, <2>1, <2>2, <2>3, ThreadStep, Zenon
  <1> QED
    BY <1>4, <1>5 DEF Open

\* ReadFull: the unit that arrives is the one that follows in the buffer; however it
\* stops, the stream is where the count says.
LEMMA ReadFullIInv ==
  ASSUME IInv, NEW t \in Threads, ReadFull(t) PROVE IInv'
  <1> DEFINE x == th[t]
             r == Connected(rr)
  <1>1. x.pc = "full" /\ UNCHANGED <<kind, destroyed, cl, mu>> /\ conns' = Conns(rr')
    BY DEF ReadFull, Locks
  <1>2. /\ x \in Thread /\ Local(x) /\ ~destroyed /\ mu = t /\ Held(x, rr) /\ rr \in Stream /\ cl \in Classifier
        /\ conns = (IF rr.conn THEN 1 ELSE 0) /\ x.pc \in Holding
    BY <1>1, Holder DEF Holding
  <1>3. /\ rr.open /\ rr.start = x.off /\ Wanted(x) <= rr.limit /\ Passed(rr, x.got)
        /\ x.off \in Nat /\ x.off0 \in Nat /\ x.len \in Nat /\ x.got \in Nat /\ x.buf \in Seq(Int)
    BY <1>1, <1>2 DEF Held, Reads, Thread
  <1>4. /\ r \in Stream /\ r.open /\ Passed(r, x.got) /\ (r.fate = "live" => r.conn)
        /\ r.start = rr.start /\ r.limit = rr.limit
    BY <1>2, <1>3, ConnectedIs
  <1> HIDE DEF r
  <1>5. ASSUME NEW res \in {"ok", "eof", "err"}, th' = [th EXCEPT ![t].pc = "done", ![t].res = res],
               faults' = faults \/ Fault, res = "ok" => x.got = x.len,
               rr' \in Stream, rr'.open, Passed(rr', x.got), rr'.start = rr.start, rr'.limit = rr.limit
        PROVE  IInv'
    <2> DEFINE y == [x EXCEPT !.pc = "done", !.res = res]
    <2>1. /\ y \in Thread /\ y.pc = "done" /\ y.res = res /\ y.off = x.off /\ y.off0 = x.off0 /\ y.len = x.len
          /\ y.got = x.got /\ y.buf = x.buf
      BY <1>2, <1>5, Zenon DEF Thread, Places, Holding
    <2>2. th' = [th EXCEPT ![t] = y]
      BY <1>2, <1>5, Zenon DEF Thread, IInv, TypeOK
    <2> HIDE DEF y
    <2>3. Local(y) /\ Complete(y) /\ y.pc \in Holding
      BY <1>1, <1>2, <2>1 DEF Local, Complete, Holding
    <2>4. Held(y, rr')
      BY <1>3, <1>5, <2>1 DEF Held, Reads, Wanted
    <2>5. conns' = IF rr'.conn THEN 1 ELSE 0
      BY <1>1, <1>2 DEF Conns
    <2> QED
      BY <1>1, <1>2, <1>5, <2>1, <2>2, <2>3, <2>4, <2>5, ThreadStep, Zenon
  <1>6. CASE /\ x.got < x.len /\ r.fate = "live" /\ r.pos < rr.limit
             /\ rr' = Consumed(r, 1)
             /\ th' = [th EXCEPT ![t].got = @ + 1, ![t].buf = Append(@, r.pos)]
             /\ NoFault
    <2> DEFINE y == [x EXCEPT !.got = @ + 1, !.buf = Append(@, r.pos)]
    <2>1. r.pos \in Int /\ r.limit \in Int /\ r.start \in Int
      BY <1>4 DEF Stream
    <2>2. r.pos = x.off + x.got
      BY <1>3, <1>4, <1>6 DEF Passed
    <2>3. /\ rr' \in Stream /\ rr'.open /\ Passed(rr', x.got + 1)
          /\ rr'.start = r.start /\ rr'.limit = r.limit
      <3>1. x.got \in Int /\ 1 \in Nat
        BY <1>3
      <3>2. r.pos + 1 <= r.limit
        BY <1>4, <1>6, <2>1
      <3> QED
        BY <1>3, <1>4, <1>6, <3>1, <3>2, ConsumedIs, Zenon
    <2>4. /\ y \in Thread /\ y.pc = "full" /\ y.off = x.off /\ y.off0 = x.off0 /\ y.len = x.len
          /\ y.got = x.got + 1 /\ y.buf = Append(x.buf, r.pos)
      <3>1. x.got + 1 \in Nat /\ Append(x.buf, r.pos) \in Seq(Int)
        BY <1>3, <2>1
      <3> QED
        BY <1>1, <1>2, <3>1, Zenon DEF Thread
    <2>5. th' = [th EXCEPT ![t] = y]
      BY <1>2, <1>6 DEF Thread, IInv, TypeOK
    <2> HIDE DEF y
    <2>6. Local(y)
      <3>1. PICK m \in Nat : m = Len(x.buf)
        BY <1>3
      <3>2. /\ x.off0 <= x.off /\ x.off < kind.size /\ x.len \in 1..MinReadSize
            /\ m = x.off - x.off0 + x.got /\ x.buf = Upto(x.off0, m)
        BY <1>1, <1>2, <3>1 DEF Local
      <3>3. r.pos = x.off0 + m
        BY <1>3, <2>2, <3>2
      <3>4. y.buf = Upto(x.off0, m + 1)
        <4>1. x.off0 \in Int
          BY <1>3
        <4>2. Append(Upto(x.off0, m), x.off0 + m) = Upto(x.off0, m + 1)
          BY <4>1, UptoAppend, Zenon
        <4> QED
          BY <2>4, <3>2, <3>3, <4>2
      <3>5. Len(y.buf) = m + 1
        <4>1. x.off0 \in Int /\ m + 1 \in Nat
          BY <1>3
        <4> QED
          BY <3>4, <4>1, UptoIs, Zenon
      <3>6. y.got <= y.len /\ Len(y.buf) = y.off - y.off0 + y.got
        <4>1. x.off0 \in Nat /\ x.off \in Nat /\ x.got \in Nat /\ x.len \in Nat
          BY <1>3
        <4>2. x.got < x.len
          BY <1>6
        <4>3. y.got = x.got + 1 /\ y.len = x.len /\ y.off = x.off /\ y.off0 = x.off0
          BY <2>4
        <4>4. m = x.off - x.off0 + x.got
          BY <3>2
        <4>5. y.got <= y.len
          BY <4>1, <4>2, <4>3
        <4>6. Len(y.buf) = y.off - y.off0 + y.got
          BY <3>5, <4>1, <4>3, <4>4, SMTT(30)
        <4> QED
          BY <4>5, <4>6
      <3> QED
        BY <2>4, <3>2, <3>4, <3>5, <3>6 DEF Local
    <2>7. Complete(y) /\ y.pc \in Holding
      BY <2>4 DEF Complete, Holding
    <2>8. Held(y, rr')
      BY <1>3, <1>4, <2>3, <2>4 DEF Held, Reads, Wanted
    <2>9. conns' = (IF rr'.conn THEN 1 ELSE 0) /\ faults' = faults
      BY <1>1, <1>2, <1>6 DEF Conns, NoFault
    <2> QED
      BY <1>1, <1>2, <2>3, <2>4, <2>5, <2>6, <2>7, <2>8, <2>9, ThreadStep, Zenon
  <1>7. CASE /\ x.got = x.len /\ rr' = rr /\ NoFault
             /\ th' = [th EXCEPT ![t].pc = "done", ![t].res = "ok"]
    BY <1>2, <1>3, <1>5, <1>7 DEF NoFault
  <1>8. CASE /\ rr' = r /\ NoFault
             /\ \E res \in {"eof", "err"} : th' = [th EXCEPT ![t].pc = "done", ![t].res = res]
    BY <1>4, <1>5, <1>8, Zenon DEF NoFault
  <1>9. ASSUME NEW fate \in {"eof", "err"}, r.fate = "live", Fault, rr' = [Consumed(r, 0) EXCEPT !.fate = fate],
               th' = [th EXCEPT ![t].pc = "done", ![t].res = fate]
        PROVE  IInv'
    <2> DEFINE s == Consumed(r, 0)
    <2>1. s \in Stream /\ s.open /\ Passed(s, x.got + 0) /\ s.start = r.start /\ s.limit = r.limit
      BY <1>3, <1>4, ConsumedIs
    <2> HIDE DEF s
    <2>2. /\ rr' \in Stream /\ rr'.open /\ rr'.start = r.start /\ rr'.limit = r.limit
          /\ rr'.conn = s.conn /\ rr'.pos = s.pos /\ rr'.from = s.from /\ rr'.seen = s.seen
      BY <1>9, <2>1 DEF Stream, s
    <2>3. Passed(rr', x.got)
      BY <1>3, <2>1, <2>2 DEF Passed
    <2> QED
      BY <1>4, <1>5, <1>9, <2>2, <2>3, Zenon
  <1>10. CASE rr' = rr /\ Fault /\ th' = [th EXCEPT ![t].pc = "done", ![t].res = "err"]
    BY <1>2, <1>3, <1>5, <1>10
  <1> QED
    <2>1. \/ /\ x.got < x.len /\ r.fate = "live" /\ r.pos < rr.limit
             /\ rr' = Consumed(r, 1)
             /\ th' = [th EXCEPT ![t].got = @ + 1, ![t].buf = Append(@, r.pos)]
             /\ NoFault
          \/ /\ x.got = x.len /\ rr' = rr /\ NoFault
             /\ th' = [th EXCEPT ![t].pc = "done", ![t].res = "ok"]
          \/ /\ rr' = r /\ NoFault
             /\ \E res \in {"eof", "err"} : th' = [th EXCEPT ![t].pc = "done", ![t].res = res]
          \/ \E fate \in {"eof", "err"} :
               /\ r.fate = "live" /\ Fault /\ rr' = [Consumed(r, 0) EXCEPT !.fate = fate]
               /\ th' = [th EXCEPT ![t].pc = "done", ![t].res = fate]
          \/ rr' = rr /\ Fault /\ th' = [th EXCEPT ![t].pc = "done", ![t].res = "err"]
      BY DEF ReadFull, r
    <2> QED
      BY <1>6, <1>7, <1>8, <1>9, <1>10, <2>1

\* shouldRetryForShortRead: what is asked for again is what is missing.
LEMMA RetryingIs ==
  ASSUME IInv, NEW x \in Thread, x.off0 <= x.off, x.len \in 1..MinReadSize, NEW n \in Nat, n < x.len,
         x.off + n < kind.size, NEW m \in Nat, x.buf = Upto(x.off0, m), x.off + n - x.off0 <= m,
         NEW y, y = Retrying(x, n)
  PROVE  y \in Thread /\ y.pc \in {"mrd", "lock"} /\ Local(y)
  <1> DEFINE k == x.off + n - x.off0
  <1>1. x.off0 \in Nat /\ x.off \in Nat /\ x.len \in Nat /\ MinReadSize \in Nat
    BY KindFacts DEF Thread, IInv
  <1>2. k \in 0..m /\ x.off + n \in Nat /\ x.len - n \in Nat
    BY <1>1
  <1>3. SubSeq(x.buf, 1, k) = Upto(x.off0, k) /\ Upto(x.off0, k) \in Seq(Int) /\ Len(Upto(x.off0, k)) = k
    <2>2. x.off0 \in Int /\ k \in Nat
      BY <1>1, <1>2
    <2> HIDE DEF k
    <2>1. SubSeq(Upto(x.off0, m), 1, k) = Upto(x.off0, k)
      BY <1>2, <2>2, UptoSubSeq, Zenon
    <2> QED
      BY <2>1, <2>2, UptoIs, Zenon
  <1> DEFINE pc == IF readerType(x.info.rt) = "mrd" THEN "mrd" ELSE "lock"
  <1>4. pc \in {"mrd", "lock"}
    OBVIOUS
  <1> DEFINE off == x.off + n
             len == x.len - n
             buf == SubSeq(x.buf, 1, k)
  <1>5. y = [x EXCEPT !.pc = pc, !.off = off, !.len = len, !.got = 0, !.force = TRUE, !.res = None,
                      !.buf = buf]
    BY DEF Retrying
  <1>a. pc \in Places /\ off \in Nat /\ len \in Nat /\ buf \in Seq(Int) /\ buf = Upto(x.off0, k)
    BY <1>2, <1>3, <1>4 DEF Places
  <1> HIDE DEF pc, k, off, len, buf
  <1>b. /\ y \in Thread /\ y.pc = pc /\ y.off0 = x.off0 /\ y.off = off /\ y.len = len /\ y.got = 0
        /\ y.buf = buf
    <2> DEFINE z == [x EXCEPT !.pc = pc, !.off = off, !.len = len]
    <2>1. z \in Thread /\ z.pc = pc /\ z.off0 = x.off0 /\ z.off = off /\ z.len = len
      BY <1>a, Zenon DEF Thread
    <2>2. y = [z EXCEPT !.got = 0, !.force = TRUE, !.res = None, !.buf = buf]
      BY <1>5
    <2> HIDE DEF z
    <2>3. y.pc = z.pc /\ y.off0 = z.off0 /\ y.off = z.off /\ y.len = z.len /\ y.got = 0 /\ y.buf = buf
      BY <2>1, <2>2 DEF Thread
    <2>4. buf \in Seq(Int) /\ 0 \in Nat /\ None \in {None, "ok", "eof", "err", "short"}
      BY <1>a
    <2>5. y \in Thread
      BY ONLY <2>1, <2>2, <2>4, Zenon DEF Thread
    <2> QED
      BY <2>1, <2>3, <2>5
  <1>6. /\ y \in Thread /\ y.pc = pc /\ y.off0 = x.off0 /\ y.off = x.off + n /\ y.len = x.len - n /\ y.got = 0
        /\ y.buf = Upto(x.off0, k)
    BY <1>a, <1>b DEF off, len
  <1>7. Len(y.buf) = y.off - y.off0 + y.got
    BY <1>1, <1>3, <1>6 DEF k
  <1>8. y.off0 <= y.off /\ y.off < kind.size /\ y.len \in 1..MinReadSize /\ y.got <= y.len
    BY <1>1, <1>6
  <1> QED
    BY <1>3, <1>4, <1>6, <1>7, <1>8 DEF Local

\* What a read returns is the beginning of its buffer.
LEMMA ReturnedIs ==
  ASSUME IInv, NEW x \in Thread, x.off0 <= x.off, NEW n \in Nat, NEW m \in Nat,
         x.buf = Upto(x.off0, m), x.off + n - x.off0 <= m,
         NEW res \in {None, "ok", "eof", "err", "short"}, NEW y, y = Returned(x, res, n)
  PROVE  /\ y \in Thread /\ y.pc = "idle" /\ Local(y) /\ y.res = res
         /\ y.off0 = x.off0 /\ y.off = x.off /\ y.len = x.len
         /\ res = "ok" => Len(y.buf) = x.off + n - x.off0
  <1> DEFINE k == x.off + n - x.off0
             buf == IF res = "ok" THEN SubSeq(x.buf, 1, k) ELSE << >>
             j == IF res = "ok" THEN k ELSE 0
  <1>1. x.off0 \in Nat /\ x.off \in Nat /\ x.len \in Nat /\ x.watch \in {"off", "firing", "fired"}
    BY DEF Thread
  <1>2. k \in 0..m /\ j \in Nat /\ x.off0 \in Int
    BY <1>1
  <1>3. buf = Upto(x.off0, j) /\ buf \in Seq(Int) /\ Len(buf) = j
    <2>1. SubSeq(Upto(x.off0, m), 1, k) = Upto(x.off0, k) /\ Upto(x.off0, 0) = << >>
      BY <1>1, <1>2, UptoSubSeq, UptoEmpty, Zenon
    <2>2. buf = Upto(x.off0, j)
      BY <2>1, Zenon
    <2> HIDE DEF buf, j
    <2> QED
      BY <1>2, <2>2, UptoIs, Zenon
  <1>4. y = [IdleThread EXCEPT !.off0 = x.off0, !.off = x.off, !.len = x.len, !.res = res, !.buf = buf,
                               !.watch = x.watch]
    BY DEF Returned
  <1> HIDE DEF k, buf
  <1>5. /\ y \in Thread /\ y.pc = "idle" /\ y.res = res /\ y.off0 = x.off0 /\ y.off = x.off /\ y.len = x.len
        /\ y.buf = buf
    BY <1>1, <1>3, <1>4, IdleIs, ZenonT(40) DEF Thread
  <1>6. Local(y)
    BY <1>3, <1>5 DEF Local
  <1> QED
    BY <1>3, <1>5, <1>6 DEF k

\* AfterFull: the stream is left behind what was read, or closed at its end; and what
\* counts as success is all that was asked for, as far as the object goes.
LEMMA AfterFullIs ==
  ASSUME IInv, NEW x \in Thread, Local(x), x.pc = "done", Held(x, rr), NEW a, a = AfterFull(x),
         NEW r, r = IF a.close THEN Closed([rr EXCEPT !.start = a.start])
                    ELSE IF rr.open THEN [rr EXCEPT !.start = a.start] ELSE rr
  PROVE  /\ r \in Stream /\ AtRest(r) /\ a.res \in {None, "ok", "eof", "err", "short"}
         /\ a.n \in {0, x.got} /\ (a.close => ~r.conn) /\ (~a.close => r.conn = rr.conn)
         /\ a.res = "ok" => a.n = x.got /\ x.off + a.n = Wanted(x)
  <1>1. /\ rr \in Stream /\ rr.start \in Int /\ rr.limit \in Int /\ rr.from \in Int /\ rr.seen \in Int
        /\ x.off \in Nat /\ x.len \in Nat /\ x.got \in Nat /\ x.got <= x.len /\ kind.size \in Nat
        /\ x.res \in {None, "ok", "eof", "err", "short"}
    BY KindFacts DEF IInv, TypeOK, Stream, Thread, Local
  <1> DEFINE start == rr.start + x.got
             res == IF x.res = "eof" THEN IF rr.open /\ start < rr.limit THEN "short" ELSE "ok" ELSE x.res
  <1>2. /\ a.start = start /\ (a.close <=> rr.open /\ start = rr.limit) /\ a.res = res
        /\ a.n = IF res = "ok" THEN x.got ELSE 0
    BY Zenon DEF AfterFull
  <1>3. res \in {None, "ok", "eof", "err", "short"} /\ start \in Int
    BY <1>1
  <1>4. CASE Reads(x, rr) /\ (x.res = "ok" => x.got = x.len)
    <2>1. rr.open /\ rr.start = x.off /\ Wanted(x) <= rr.limit /\ Passed(rr, x.got)
      BY <1>4 DEF Reads
    <2> DEFINE s == [rr EXCEPT !.start = start]
    <2>2. /\ s \in Stream /\ s.start = start /\ s.open /\ s.conn = rr.conn /\ s.pos = rr.pos /\ s.from = rr.from
          /\ s.seen = rr.seen /\ s.limit = rr.limit
      BY <1>1, <1>3, <2>1 DEF Stream
    <2> HIDE DEF s
    <2>3. Passed(s, 0)
      BY <1>1, <2>1, <2>2 DEF Passed
    <2>4. start <= rr.limit /\ rr.limit <= kind.size
      BY <2>1 DEF Passed
    <2>5. ASSUME a.close PROVE r \in Stream /\ AtRest(r) /\ ~r.conn
      <3>1. r = Closed(s)
        BY <1>2, <2>5 DEF s
      <3>2. r \in Stream /\ ~r.open /\ ~r.conn
        BY <2>2, <3>1, ClosedIs, Zenon
      <3> QED
        BY <2>5, <3>2 DEF AtRest, Passed
    <2>6. ASSUME ~a.close PROVE r \in Stream /\ AtRest(r) /\ r.conn = rr.conn
      <3>1. r = s
        BY <1>2, <2>1, <2>6 DEF s
      <3>2. start < rr.limit
        BY <1>1, <1>2, <1>3, <2>1, <2>4, <2>6
      <3> QED
        BY <2>2, <2>3, <2>6, <3>1, <3>2, Zenon DEF AtRest
    <2>7. res = "ok" => x.off + x.got = Wanted(x)
      <3>1. CASE x.res = "ok"
        BY <1>1, <1>4, <2>1, <2>4, <3>1 DEF Wanted, Less
      <3>2. CASE x.res = "eof" /\ ~(start < rr.limit)
        BY <1>1, <2>1, <2>4, <3>2 DEF Wanted, Less
      <3> QED
        BY <2>1, <3>1, <3>2
    <2> HIDE DEF res, start
    <2> QED
      BY <1>1, <1>2, <1>3, <2>5, <2>6, <2>7
  <1>5. CASE ~rr.open /\ ~rr.conn /\ x.got = 0 /\ x.res = "err"
    <2>1. ~a.close /\ r = rr /\ res = "err"
      BY <1>2, <1>5
    <2> QED
      BY <1>1, <1>2, <1>3, <1>5, <2>1 DEF AtRest, Passed
  <1> QED
    BY <1>4, <1>5 DEF Held

\* A read comes back from the stream: it returns, or asks for the rest.
LEMMA DoneIInv ==
  ASSUME IInv, NEW t \in Threads, Done(t) PROVE IInv'
  <1> DEFINE x == th[t]
             a == AfterFull(x)
             r == IF a.close THEN Closed([rr EXCEPT !.start = a.start])
                  ELSE IF rr.open THEN [rr EXCEPT !.start = a.start] ELSE rr
             retry == Retry(x, a.res, a.n)
             y == IF retry THEN Retrying(x, a.n) ELSE Returned(x, a.res, a.n)
  <1>1. /\ x.pc = "done" /\ mu = t /\ mu' = None /\ rr' = r
        /\ conns' = (IF a.close THEN ConnsAfterClose ELSE conns)
        /\ th' = [th EXCEPT ![t] = y] /\ UNCHANGED <<kind, destroyed, faults>>
    BY DEF Done, Locks, Unlocked
  <1>2. cl' = IF kind.old
              THEN IF a.res = "ok" THEN RecordRead(cl, x.off, x.got) ELSE [cl EXCEPT !.total = @ + x.got]
              ELSE IF ~retry /\ a.res = "ok" THEN RecordRead(cl, x.off0, x.off + a.n - x.off0) ELSE cl
    BY DEF Done
  <1>3. /\ x \in Thread /\ Local(x) /\ ~destroyed /\ Held(x, rr) /\ rr \in Stream /\ cl \in Classifier
        /\ conns = (IF rr.conn THEN 1 ELSE 0) /\ None \notin Threads
    BY <1>1, Holder DEF Holding
  <1>4. /\ r \in Stream /\ AtRest(r) /\ a.res \in {None, "ok", "eof", "err", "short"}
        /\ a.n \in {0, x.got} /\ (a.close => ~r.conn) /\ (~a.close => r.conn = rr.conn)
        /\ a.res = "ok" => a.n = x.got /\ x.off + a.n = Wanted(x)
    BY <1>1, <1>3, AfterFullIs
  <1> HIDE DEF a, r
  <1>5. conns' = IF rr'.conn THEN 1 ELSE 0
    BY <1>1, <1>3, <1>4 DEF ConnsAfterClose
  <1>6. PICK m \in Nat : m = Len(x.buf)
    BY <1>3 DEF Thread
  <1>7. /\ x.off0 \in Nat /\ x.off \in Nat /\ x.got \in Nat /\ x.len \in Nat /\ a.n \in Nat /\ x.off0 <= x.off
        /\ x.len \in 1..MinReadSize /\ x.buf = Upto(x.off0, m) /\ m = x.off - x.off0 + x.got
    BY <1>1, <1>3, <1>4, <1>6 DEF Thread, Local
  <1>8. x.off + a.n - x.off0 <= m /\ x.off + a.n - x.off0 \in Nat
    BY <1>4, <1>7
  <1>9. cl' \in Classifier
    BY <1>2, <1>3, <1>7, <1>8, ClassifierTypes
  <1>10. y \in Thread /\ Local(y) /\ Complete(y) /\ y.pc \notin Holding
    <2>1. CASE retry
      <3>1. a.n < x.len /\ x.off + a.n < kind.size
        BY <2>1 DEF Retry
      <3>2. y = Retrying(x, a.n)
        BY <2>1
      <3> HIDE DEF y
      <3>3. y \in Thread /\ y.pc \in {"mrd", "lock"} /\ Local(y)
        BY <1>3, <1>7, <1>8, <3>1, <3>2, RetryingIs
      <3> QED
        BY <3>3 DEF Complete, Holding
    <2>2. CASE ~retry
      <3>1. y = Returned(x, a.res, a.n)
        BY <2>2
      <3> HIDE DEF y
      <3>2. /\ y \in Thread /\ y.pc = "idle" /\ Local(y) /\ y.res = a.res
            /\ y.off0 = x.off0 /\ y.off = x.off /\ y.len = x.len
            /\ a.res = "ok" => Len(y.buf) = x.off + a.n - x.off0
        <4>1. /\ x \in Thread /\ x.off0 <= x.off /\ x.buf = Upto(x.off0, m) /\ x.off + a.n - x.off0 <= m
              /\ a.n \in Nat /\ a.res \in {None, "ok", "eof", "err", "short"}
          BY <1>3, <1>4, <1>7, <1>8
        <4> HIDE DEF x, retry
        <4> QED
          BY <3>1, <4>1, ReturnedIs
      <3>3. Complete(y)
        <4>1. Wanted(y) = Wanted(x)
          BY <3>2 DEF Wanted
        <4>2. a.res = "ok" => x.off + a.n = Wanted(x)
          BY <1>4
        <4>3. x.off \in Nat /\ x.off0 \in Nat /\ a.n \in Nat
          BY <1>7
        <4>4. y.res = "ok" => Len(y.buf) = Wanted(x) - x.off0
          BY <3>2, <4>2, <4>3
        <4> QED
          BY <3>2, <4>1, <4>4 DEF Complete
      <3> QED
        BY <3>2, <3>3 DEF Holding
    <2> QED
      BY <2>1, <2>2
  <1> HIDE DEF y
  <1> QED
    BY <1>1, <1>3, <1>4, <1>5, <1>9, <1>10, ThreadStep, Zenon

\* The downloader yields the range, or a part of it when GCS fails.
LEMMA MultiRangeReadIInv ==
  ASSUME IInv, NEW t \in Threads, MultiRangeRead(t) PROVE IInv'
  <1> DEFINE x == th[t]
             all == Less(x.len, kind.size - x.off)
             Z(n) == [x EXCEPT !.buf = SubSeq(@, 1, x.off - x.off0) \o Upto(x.off, n)]
  <1>1. x.pc = "mrd" /\ UNCHANGED <<kind, destroyed, rr, mu, conns>>
    BY DEF MultiRangeRead, Locks
  <1>2. PICK n \in 0..all, res \in {"ok", "err"} :
          /\ res = "err" => n = 0
          /\ IF n < all \/ res = "err" THEN Fault ELSE NoFault
          /\ th' = [th EXCEPT ![t] = IF Retry(x, res, n) THEN Retrying(Z(n), n) ELSE Returned(Z(n), res, n)]
          /\ cl' = IF kind.old THEN RecordRead(cl, x.off, n)
                   ELSE IF ~Retry(x, res, n) /\ res = "ok"
                        THEN RecordRead(cl, x.off0, x.off + n - x.off0) ELSE cl
    BY Zenon DEF MultiRangeRead
  <1>3. /\ x \in Thread /\ Local(x) /\ ~destroyed /\ mu # t /\ rr \in Stream /\ cl \in Classifier
        /\ conns = (IF rr.conn THEN 1 ELSE 0) /\ x.pc \notin Holding
    BY <1>1, Holder, SMTT(30) DEF Holding
  <1>4. /\ x.off0 \in Nat /\ x.off \in Nat /\ x.len \in Nat /\ x.off0 <= x.off /\ x.off < kind.size
        /\ x.len \in 1..MinReadSize /\ x.buf = Upto(x.off0, x.off - x.off0) /\ kind.size \in Nat
    BY <1>1, <1>3, KindFacts DEF Thread, Local, IInv
  <1> DEFINE k == x.off - x.off0
             z == Z(n)
             y == IF Retry(x, res, n) THEN Retrying(z, n) ELSE Returned(z, res, n)
  <1>5. k \in Nat /\ x.off = x.off0 + k /\ x.off + n - x.off0 = k + n /\ n \in Nat /\ k + n \in Nat
    BY <1>4 DEF Less
  <1>6. SubSeq(x.buf, 1, k) \o Upto(x.off, n) = Upto(x.off0, k + n) /\ Upto(x.off0, k + n) \in Seq(Int)
    <2> HIDE DEF k
    <2>1. x.off0 \in Int /\ k \in 0..k /\ x.buf = Upto(x.off0, k)
      BY <1>4, <1>5 DEF k
    <2>2. SubSeq(Upto(x.off0, k), 1, k) = Upto(x.off0, k)
      BY <1>5, <2>1, UptoSubSeq, Zenon
    <2>3. Upto(x.off0, k) \o Upto(x.off0 + k, n) = Upto(x.off0, k + n)
      BY <1>5, <2>1, UptoConcat, Zenon
    <2>4. Upto(x.off0, k + n) \in Seq(Int)
      BY <1>5, <2>1, UptoIs
    <2> QED
      BY <1>5, <2>1, <2>2, <2>3, <2>4, Zenon
  <1>7. /\ z \in Thread /\ z.buf = Upto(x.off0, k + n) /\ z.off0 = x.off0 /\ z.off = x.off /\ z.len = x.len
    <2> DEFINE buf == SubSeq(x.buf, 1, k) \o Upto(x.off, n)
    <2>1. z = [x EXCEPT !.buf = buf] /\ buf \in Seq(Int)
      BY <1>6, Zenon
    <2> HIDE DEF buf, z
    <2>2. z \in Thread /\ z.buf = buf /\ z.off0 = x.off0 /\ z.off = x.off /\ z.len = x.len
      BY <1>3, <2>1, Zenon DEF Thread
    <2> QED
      BY <1>6, <2>2, Zenon DEF buf
  <1>8. th' = [th EXCEPT ![t] = y]
    BY <1>2
  <1> HIDE DEF z
  <1>9. cl' \in Classifier
    BY <1>2, <1>3, <1>4, <1>5, ClassifierTypes, ZenonT(40)
  <1>10. y \in Thread /\ Local(y) /\ y.pc \notin Holding /\ (faults' = kind.faults => Complete(y))
    <2>1. CASE Retry(x, res, n)
      <3>1. n < x.len /\ x.off + n < kind.size
        BY <2>1 DEF Retry
      <3>2. y = Retrying(z, n)
        BY <2>1
      <3> HIDE DEF y, k
      <3>3. y \in Thread /\ y.pc \in {"mrd", "lock"} /\ Local(y)
        BY <1>4, <1>5, <1>7, <3>1, <3>2, RetryingIs
      <3> QED
        BY <3>3 DEF Complete, Holding
    <2>2. CASE ~Retry(x, res, n)
      <3>1. y = Returned(z, res, n)
        BY <2>2
      <3> HIDE DEF y, k
      <3>2. /\ y \in Thread /\ y.pc = "idle" /\ Local(y) /\ y.res = res
            /\ y.off0 = x.off0 /\ y.off = x.off /\ y.len = x.len
            /\ res = "ok" => Len(y.buf) = x.off + n - x.off0
        <4>1. x.off + n - x.off0 <= k + n /\ z.off0 <= z.off
          BY <1>4, <1>5, <1>7
        <4>2. res \in {None, "ok", "eof", "err", "short"}
          OBVIOUS
        <4> QED
          BY <1>5, <1>7, <3>1, <4>1, <4>2, ReturnedIs
      <3>3. ASSUME faults' = kind.faults, res = "ok" PROVE n = all
        <4>1. faults \in 0..kind.faults /\ kind.faults \in Nat
          BY KindFacts DEF IInv, TypeOK
        <4>2. ~Fault
          BY <3>3, <4>1 DEF Fault
        <4> QED
          BY <1>2, <1>4, <4>2 DEF Less
      <3>4. faults' = kind.faults => Complete(y)
        <4> SUFFICES ASSUME faults' = kind.faults, res = "ok" PROVE Len(y.buf) = Wanted(y) - y.off0
          BY <3>2, Zenon DEF Complete
        <4>1. n = all
          BY <3>3
        <4>2. Wanted(y) = Less(x.off + x.len, kind.size) /\ Len(y.buf) = x.off + n - x.off0 /\ y.off0 = x.off0
          BY <3>2, Zenon DEF Wanted
        <4>3. Less(x.off + x.len, kind.size) = x.off + all
          BY <1>4 DEF Less
        <4> QED
          BY <1>4, <1>5, <4>1, <4>2, <4>3
      <3> QED
        BY <3>2, <3>4 DEF Holding
    <2> QED
      BY <2>1, <2>2
  <1>11. faults' = faults \/ Fault
    BY <1>2 DEF NoFault
  <1> HIDE DEF y
  <1> QED
    BY <1>1, <1>3, <1>8, <1>9, <1>10, <1>11, ThreadStep, Zenon

-----------------------------------------------------------------------------
(* The other actors, and the theorems.                                     *)

\* The watchers and the monitor of the connection change neither what a read has got nor
\* where the stream is.
LEMMA AsideStep ==
  ASSUME IInv, UNCHANGED <<kind, cl, mu, faults, destroyed>>, th' \in [Threads -> Thread],
         \A u \in Threads : /\ th'[u].pc = th[u].pc /\ th'[u].off0 = th[u].off0 /\ th'[u].off = th[u].off
                            /\ th'[u].len = th[u].len /\ th'[u].got = th[u].got /\ th'[u].buf = th[u].buf
                            /\ th'[u].end = th[u].end /\ th'[u].res = th[u].res,
         rr' \in Stream, rr'.open = rr.open, rr'.start = rr.start, rr'.limit = rr.limit, rr'.pos = rr.pos,
         rr'.from = rr.from, rr'.seen = rr.seen, rr'.conn => rr.conn,
         conns' = IF rr'.conn THEN 1 ELSE 0
  PROVE  IInv'
  <1>1. TypeOK'
    BY DEF IInv, TypeOK
  <1>2. Mutex'
    BY DEF IInv, Mutex
  <1>3. \A n \in Int : Passed(rr, n) => Passed(rr, n)'
    BY DEF Passed
  <1>4. Streamed'
    <2>1. mu \in Threads \cup {None} /\ None \notin Threads
      BY KindFacts DEF IInv, TypeOK
    <2>2. CASE mu = None
      BY <1>3, <2>2 DEF IInv, Streamed, AtRest
    <2>3. CASE mu \in Threads
      <3>1. Held(th[mu], rr) /\ th[mu].got \in Int
        BY <2>1, <2>3 DEF IInv, Streamed, TypeOK, Thread
      <3>2. Reads(th[mu], rr) => Reads(th[mu], rr)'
        <4>1. Passed(rr, th[mu].got) => Passed(rr, th[mu].got)'
          BY <1>3, <2>3, <3>1
        <4>2. Wanted(th[mu])' = Wanted(th[mu])
          BY <2>3 DEF Wanted
        <4> QED
          BY <2>3, <4>1, <4>2 DEF Reads
      <3>3. AtRest(rr) => AtRest(rr)'
        BY <1>3, SMTT(30) DEF AtRest
      <3>4. Held(th[mu], rr)'
        BY <2>3, <3>1, <3>2, <3>3, SMTT(30) DEF Held
      <3> QED
        BY <2>1, <2>3, <3>4 DEF Streamed
    <2> QED
      BY <2>1, <2>2, <2>3
  <1>5. \A u \in Threads : Local(th[u])'
    BY DEF IInv, Local, Fits, Wanted
  <1>6. faults' = kind'.faults => \A u \in Threads : Complete(th[u])'
    BY DEF IInv, Complete, Wanted
  <1> QED
    BY <1>1, <1>2, <1>4, <1>5, <1>6 DEF IInv

\* handleTimeout, and the cancellation of a read that may be over.
LEMMA AsideIInv ==
  ASSUME IInv, HandleTimeout \/ \E t \in Threads : Interrupt(t) \/ Cancel(t) PROVE IInv'
  <1>1. th \in [Threads -> Thread] /\ rr \in Stream /\ conns = IF rr.conn THEN 1 ELSE 0
    BY DEF IInv, TypeOK
  <1>2. CASE HandleTimeout
    <2>1. CASE rr' = [rr EXCEPT !.active = FALSE] /\ conns' = conns
      <3>1. /\ rr' \in Stream /\ rr'.open = rr.open /\ rr'.start = rr.start /\ rr'.limit = rr.limit
            /\ rr'.pos = rr.pos /\ rr'.from = rr.from /\ rr'.seen = rr.seen /\ rr'.conn = rr.conn
        BY <1>1, <2>1, Zenon DEF Stream
      <3> QED
        BY <1>1, <1>2, <2>1, <3>1, AsideStep DEF HandleTimeout
    <2>2. CASE rr.conn /\ rr' = [rr EXCEPT !.conn = FALSE] /\ conns' = conns - 1
      <3>1. /\ rr' \in Stream /\ rr'.open = rr.open /\ rr'.start = rr.start /\ rr'.limit = rr.limit
            /\ rr'.pos = rr.pos /\ rr'.from = rr.from /\ rr'.seen = rr.seen /\ rr'.conn = FALSE
        BY <1>1, <2>2, Zenon DEF Stream
      <3> QED
        BY <1>1, <1>2, <2>2, <3>1, AsideStep DEF HandleTimeout
    <2> QED
      BY <1>2, <2>1, <2>2 DEF HandleTimeout
  <1>3. ASSUME NEW t \in Threads, Interrupt(t) \/ Cancel(t) PROVE IInv'
    <2>1. PICK w \in {"firing", "fired"} : th' = [th EXCEPT ![t].watch = w]
      BY <1>3 DEF Interrupt, Cancel
    <2>2. /\ th' \in [Threads -> Thread]
          /\ \A u \in Threads : /\ th'[u].pc = th[u].pc /\ th'[u].off0 = th[u].off0 /\ th'[u].off = th[u].off
                                /\ th'[u].len = th[u].len /\ th'[u].got = th[u].got /\ th'[u].buf = th[u].buf
                                /\ th'[u].end = th[u].end /\ th'[u].res = th[u].res
      BY <1>1, <2>1, ZenonT(40) DEF Thread
    <2>3. /\ rr' \in Stream /\ rr'.open = rr.open /\ rr'.start = rr.start /\ rr'.limit = rr.limit
          /\ rr'.pos = rr.pos /\ rr'.from = rr.from /\ rr'.seen = rr.seen /\ rr'.conn = rr.conn
      BY <1>1, <1>3 DEF Interrupt, Cancel, Stream
    <2>4. UNCHANGED <<kind, cl, mu, faults, destroyed, conns>>
      BY <1>3 DEF Interrupt, Cancel
    <2> QED
      BY <1>1, <2>2, <2>3, <2>4, AsideStep
  <1> QED
    BY <1>2, <1>3

\* Destroy: the stream is closed when nobody reads.
LEMMA DestroyIInv ==
  ASSUME IInv, Destroy PROVE IInv'
  <1>1. /\ \A t \in Threads : th[t].pc = "idle"
        /\ UNCHANGED <<kind, cl, mu, th, faults>> /\ destroyed' = TRUE
        /\ rr' = (IF rr.open THEN Closed(rr) ELSE rr) /\ conns' = ConnsAfterClose
    BY DEF Destroy
  <1>2. /\ rr \in Stream /\ conns = (IF rr.conn THEN 1 ELSE 0) /\ mu \in Threads \cup {None} /\ TypeOK
        /\ None \notin Threads
    BY KindFacts DEF IInv, TypeOK
  <1>3. mu = None
    BY <1>1, <1>2 DEF IInv, Mutex, Holding
  <1>4. rr.conn => rr.open
    BY <1>3 DEF IInv, Streamed, AtRest, Passed
  <1>5. rr' \in Stream /\ ~rr'.open /\ ~rr'.conn /\ conns' = 0
    BY <1>1, <1>2, <1>4, ClosedIs DEF ConnsAfterClose
  <1>6. TypeOK'
    BY <1>1, <1>2, <1>5 DEF TypeOK
  <1>7. Streamed'
    BY <1>1, <1>3, <1>5 DEF Streamed, AtRest, Passed
  <1>8. Mutex'
    BY <1>1 DEF IInv, Mutex
  <1>9. \A u \in Threads : Local(th[u])'
    BY <1>1 DEF IInv, Local, Fits, Wanted
  <1>10. faults' = kind'.faults => \A u \in Threads : Complete(th[u])'
    BY <1>1 DEF IInv, Complete, Wanted
  <1> QED
    BY <1>1, <1>5, <1>6, <1>7, <1>8, <1>9, <1>10 DEF IInv

\* Every step keeps the invariant.
LEMMA NextIInv == IInv /\ [Next]_vars => IInv'
  <1> SUFFICES ASSUME IInv, [Next]_vars PROVE IInv'
    OBVIOUS
  <1>1. ASSUME NEW t \in Threads,
               Lock(t) \/ Skip(t) \/ Open(t) \/ ReadFull(t) \/ Done(t) \/ MultiRangeRead(t)
        PROVE  IInv'
    BY <1>1, LockIInv, SkipIInv, OpenIInv, ReadFullIInv, DoneIInv, MultiRangeReadIInv
  <1>2. ASSUME NEW t \in Threads, NEW x \in kind.reads, ReadAt(t, x[1], x[2]) PROVE IInv'
    <2>1. x[1] \in Nat /\ x[2] \in 1..MinReadSize
      BY KindFacts DEF IInv
    <2> QED
      BY <1>2, <2>1, ReadAtIInv
  <1>3. CASE HandleTimeout \/ \E t \in Threads : Interrupt(t) \/ Cancel(t)
    BY <1>3, AsideIInv
  <1>4. CASE Destroy
    BY <1>4, DestroyIInv
  <1>5. CASE UNCHANGED vars
    <2>1. th \in [Threads -> Thread] /\ rr \in Stream /\ conns = IF rr.conn THEN 1 ELSE 0
      BY DEF IInv, TypeOK
    <2> QED
      BY <1>5, <2>1, AsideStep DEF vars
  <1> QED
    BY <1>1, <1>2, <1>3, <1>4, <1>5 DEF Next, Progress

\* The invariant holds in every reachable state.
THEOREM Invariance == Spec => []IInv
  BY InitIInv, NextIInv, PTL DEF Spec

\* readFull, skipBytes, GCSReader.ReadAt and the randomReader: whatever the threads, the
\* pattern of their reads, the failures, retries, timeouts and cancellations, a read has the
\* bytes it asked for, and all of them unless GCS failed.
THEOREM ReadsAreRight == Spec => []ReadsRight
  <1>1. IInv => ReadsRight
    BY DEF IInv, ReadsRight, RightBytes, CompleteReads, Local, Complete, Wanted
  <1> QED
    BY <1>1, Invariance, PTL

\* readFromRangeReader, closeReader, Destroy: the stream kept for the next read is where the
\* reader believes it to be, within the window, and the only one that is open.
THEOREM StreamStaysInOrder == Spec => []StreamInOrder
  <1>1. IInv => StreamInOrder
    <2> SUFFICES ASSUME IInv PROVE StreamInOrder
      OBVIOUS
    <2>1. rr.start \in Int /\ rr.conn \in BOOLEAN /\ rr.open \in BOOLEAN /\ mu \in Threads \cup {None}
          /\ None \notin Threads
      BY KindFacts DEF IInv, TypeOK, Stream
    <2>2. mu = None => AtRest(rr)
      BY DEF IInv, Streamed
    <2>3. StreamInPlace
      BY <2>1, <2>2 DEF StreamInPlace, AtRest, Passed
    <2>4. rr.conn => rr.open
      <3>1. CASE mu = None
        BY <2>2, <3>1 DEF AtRest, Passed
      <3>2. CASE mu \in Threads
        <4>1. th[mu].pc \in Holding /\ Held(th[mu], rr)
          BY <2>1, <3>2 DEF IInv, Mutex, Streamed
        <4> QED
          BY <4>1 DEF Holding, Held, AtRest, Passed, Reads
      <3> QED
        BY <2>1, <3>1, <3>2
    <2>5. NoConnectionLeaks
      BY <2>4 DEF NoConnectionLeaks, IInv
    <2> QED
      BY <2>3, <2>5 DEF StreamInOrder
  <1> QED
    BY <1>1, Invariance, PTL
=============================================================================
