-------------------------- MODULE FileInodeProofs --------------------------
(***************************************************************************)
(* Proofs about FileInode for any handles, bytes, sizes and number of      *)
(* calls and remote steps.                                                 *)
(***************************************************************************)
EXTENDS FileInode, SequenceTheorems, TLAPS

-----------------------------------------------------------------------------
(* What the helpers on file contents compute *)

\* Padding keeps the bytes that are there and adds zeros.
LEMMA PadProperties ==
  ASSUME NEW s \in Seq(Nat), NEW n \in Int
  PROVE  /\ Pad(s, n) \in Seq(Nat)
         /\ Len(Pad(s, n)) = LargerOf(Len(s), n)
         /\ Len(Pad(s, n)) \in Nat
         /\ \A i \in 1..Len(Pad(s, n)) :
               Pad(s, n)[i] = IF i <= Len(s) THEN s[i] ELSE 0
  <1> DEFINE m == LargerOf(Len(s), n)
  <1>1. Len(s) \in Nat /\ \A i \in 1..Len(s) : s[i] \in Nat
    BY LenProperties, ElementOfSeq
  <1>2. m \in Nat
    BY <1>1 DEF LargerOf
  <1>3. Pad(s, n) \in [1..m -> Nat]
    BY <1>1, <1>2 DEF Pad
  <1>4. Pad(s, n) \in Seq(Nat)
    BY <1>2, <1>3, SeqDef
  <1>5. Len(Pad(s, n)) = m
    BY <1>2, <1>3, <1>4, LenProperties
  <1>6. \A i \in 1..m : Pad(s, n)[i] = IF i <= Len(s) THEN s[i] ELSE 0
    BY DEF Pad
  <1> QED
    BY <1>2, <1>4, <1>5, <1>6

\* A write of one byte changes that byte only, and fills a hole with zeros.
LEMMA WriteByteProperties ==
  ASSUME NEW s \in Seq(Nat), NEW off \in Nat, NEW b \in Nat
  PROVE  /\ WriteByte(s, off, b) \in Seq(Nat)
         /\ Len(WriteByte(s, off, b)) = LargerOf(Len(s), off + 1)
         /\ \A i \in 1..LargerOf(Len(s), off + 1) :
               WriteByte(s, off, b)[i] =
                  IF i = off + 1 THEN b ELSE IF i <= Len(s) THEN s[i] ELSE 0
  <1> DEFINE p == Pad(s, off + 1)
  <1>1. /\ p \in Seq(Nat)
        /\ Len(p) = LargerOf(Len(s), off + 1)
        /\ \A i \in 1..Len(p) : p[i] = IF i <= Len(s) THEN s[i] ELSE 0
    BY PadProperties
  <1>2. Len(s) \in Nat
    BY LenProperties
  <1>3. off + 1 \in 1..Len(p)
    BY <1>1, <1>2 DEF LargerOf
  <1>4. /\ [p EXCEPT ![off + 1] = b] \in Seq(Nat)
        /\ Len([p EXCEPT ![off + 1] = b]) = Len(p)
        /\ \A j \in 1..Len(p) :
              [p EXCEPT ![off + 1] = b][j] = IF j = off + 1 THEN b ELSE p[j]
    BY <1>1, <1>3, ExceptSeq
  <1> QED
    BY <1>1, <1>4 DEF WriteByte

\* A truncation has the size asked for and keeps the bytes below it.
LEMMA ResizeProperties ==
  ASSUME NEW s \in Seq(Nat), NEW n \in Nat
  PROVE  /\ Resize(s, n) \in Seq(Nat)
         /\ Len(Resize(s, n)) = n
         /\ \A i \in 1..n : Resize(s, n)[i] = IF i <= Len(s) THEN s[i] ELSE 0
  <1> DEFINE p == Pad(s, n)
  <1>1. /\ p \in Seq(Nat) /\ Len(p) = LargerOf(Len(s), n)
        /\ \A i \in 1..Len(p) : p[i] = IF i <= Len(s) THEN s[i] ELSE 0
    BY PadProperties
  <1>2. Len(s) \in Nat
    BY LenProperties
  <1>3. \A i \in 1..n : i \in 1..Len(p) /\ p[i] \in Nat
    BY <1>1, <1>2, ElementOfSeq DEF LargerOf
  <1>4. /\ SubSeq(p, 1, n) \in Seq(Nat)
        /\ Len(SubSeq(p, 1, n)) = IF 1 <= n THEN n - 1 + 1 ELSE 0
        /\ \A i \in 1..n - 1 + 1 : SubSeq(p, 1, n)[i] = p[1 + i - 1]
    BY <1>3, SubSeqProperties
  <1>5. Len(SubSeq(p, 1, n)) = n
    BY <1>4
  <1>6. \A i \in 1..n : SubSeq(p, 1, n)[i] = p[i]
    BY <1>4
  <1> QED
    BY <1>1, <1>3, <1>4, <1>5, <1>6 DEF Resize

\* A write the handler accepts in order does to its padded data what the write
\* does to the file.
LEMMA HandlerWrite ==
  ASSUME NEW d \in Seq(Nat), NEW t \in Int, NEW off \in Nat, NEW b \in Nat,
         off = Len(d) \/ (off = t /\ off >= Len(d))
  PROVE  /\ Append(Pad(d, off), b) \in Seq(Nat)
         /\ Pad(Append(Pad(d, off), b), t) = WriteByte(Pad(d, t), off, b)
  <1> DEFINE p == Pad(d, off)
             a == Append(p, b)
  <1>1. Len(d) \in Nat
    BY LenProperties
  <1>2. /\ p \in Seq(Nat) /\ Len(p) = off
        /\ \A i \in 1..off : p[i] = IF i <= Len(d) THEN d[i] ELSE 0
    BY <1>1, PadProperties DEF LargerOf
  <1>3. /\ a \in Seq(Nat) /\ Len(a) = off + 1
        /\ \A i \in 1..off + 1 : a[i] = IF i = off + 1 THEN b ELSE p[i]
    BY <1>2
  <1> HIDE DEF a
  <1>4. /\ Pad(a, t) \in Seq(Nat) /\ Len(Pad(a, t)) = LargerOf(off + 1, t)
        /\ \A i \in 1..LargerOf(off + 1, t) :
              Pad(a, t)[i] = IF i <= off + 1 THEN a[i] ELSE 0
    <2>1. /\ Pad(a, t) \in Seq(Nat)
          /\ Len(Pad(a, t)) = LargerOf(Len(a), t)
          /\ \A i \in 1..Len(Pad(a, t)) :
                Pad(a, t)[i] = IF i <= Len(a) THEN a[i] ELSE 0
      BY <1>3, PadProperties, ZenonT(60)
    <2> QED
      BY <1>3, <2>1
  <1>5. /\ Pad(d, t) \in Seq(Nat) /\ Len(Pad(d, t)) = LargerOf(Len(d), t)
        /\ \A i \in 1..LargerOf(Len(d), t) :
              Pad(d, t)[i] = IF i <= Len(d) THEN d[i] ELSE 0
    BY PadProperties, ZenonT(60)
  <1> DEFINE q == Pad(d, t)
             w == WriteByte(q, off, b)
             m == LargerOf(LargerOf(Len(d), t), off + 1)
  <1>6. /\ w \in Seq(Nat) /\ Len(w) = m
        /\ \A i \in 1..m :
              w[i] = IF i = off + 1 THEN b
                     ELSE IF i <= LargerOf(Len(d), t) THEN q[i] ELSE 0
    <2> HIDE DEF q
    <2>1. q \in Seq(Nat) /\ Len(q) = LargerOf(Len(d), t)
      BY <1>5 DEF q
    <2>2. /\ w \in Seq(Nat)
          /\ Len(w) = LargerOf(Len(q), off + 1)
          /\ \A i \in 1..LargerOf(Len(q), off + 1) :
               w[i] = IF i = off + 1 THEN b ELSE IF i <= Len(q) THEN q[i] ELSE 0
      BY <2>1, WriteByteProperties, ZenonT(60)
    <2> QED
      BY <2>1, <2>2
  <1>7. m = LargerOf(off + 1, t)
    BY <1>1 DEF LargerOf
  <1>8. \A i \in 1..m : w[i] = Pad(a, t)[i]
    <2> TAKE i \in 1..m
    <2>1. i \in Nat /\ i >= 1
      BY <1>1 DEF LargerOf
    <2>2. CASE i = off + 1
      BY <2>2, <1>3, <1>4, <1>6, <1>7
    <2>3. CASE i <= off
      <3>1. a[i] = IF i <= Len(d) THEN d[i] ELSE 0
        BY <2>1, <2>3, <1>2, <1>3
      <3>2. Pad(a, t)[i] = a[i]
        BY <2>1, <2>3, <1>4, <1>7
      <3>3. w[i] = IF i <= Len(d) THEN d[i] ELSE 0
        BY <2>1, <2>3, <1>1, <1>5, <1>6 DEF LargerOf
      <3> QED
        BY <3>1, <3>2, <3>3
    <2>4. CASE i > off + 1
      <3>1. Pad(a, t)[i] = 0
        BY <2>1, <2>4, <1>4, <1>7
      <3>2. w[i] = 0
        BY <2>1, <2>4, <1>1, <1>5, <1>6 DEF LargerOf
      <3> QED
        BY <3>1, <3>2
    <2> QED
      BY <2>1, <2>2, <2>3, <2>4
  <1>9. w = Pad(a, t)
    BY <1>4, <1>6, <1>7, <1>8, SeqEqual, ZenonT(60)
  <1> QED
    BY <1>3, <1>9 DEF a

\* A truncation the handler accepts only moves the padding.
LEMMA HandlerTruncate ==
  ASSUME NEW d \in Seq(Nat), NEW t \in Int, NEW n \in Nat, n >= Len(d)
  PROVE  Pad(d, n) = Resize(Pad(d, t), n)
  <1>1. Len(d) \in Nat
    BY LenProperties
  <1>2. /\ Pad(d, n) \in Seq(Nat) /\ Len(Pad(d, n)) = n
        /\ \A i \in 1..n : Pad(d, n)[i] = IF i <= Len(d) THEN d[i] ELSE 0
    BY <1>1, PadProperties DEF LargerOf
  <1>3. /\ Pad(d, t) \in Seq(Nat) /\ Len(Pad(d, t)) = LargerOf(Len(d), t)
        /\ \A i \in 1..LargerOf(Len(d), t) :
              Pad(d, t)[i] = IF i <= Len(d) THEN d[i] ELSE 0
    BY PadProperties
  <1> DEFINE q == Pad(d, t)
             w == Resize(q, n)
  <1>4. /\ w \in Seq(Nat) /\ Len(w) = n
        /\ \A i \in 1..n :
              w[i] = IF i <= LargerOf(Len(d), t) THEN q[i] ELSE 0
    <2> HIDE DEF q
    <2>1. q \in Seq(Nat) /\ Len(q) = LargerOf(Len(d), t)
      BY <1>3 DEF q
    <2>2. /\ w \in Seq(Nat) /\ Len(w) = n
          /\ \A i \in 1..n : w[i] = IF i <= Len(q) THEN q[i] ELSE 0
      BY <2>1, ResizeProperties, ZenonT(60)
    <2> QED
      BY <2>1, <2>2
  <1>5. \A i \in 1..n : w[i] = Pad(d, n)[i]
    <2> HIDE DEF q, w
    <2> TAKE i \in 1..n
    <2>1. CASE i <= LargerOf(Len(d), t)
      <3>1. w[i] = q[i]
        BY <2>1, <1>4
      <3>2. i \in 1..LargerOf(Len(d), t)
        BY <2>1, <1>1 DEF LargerOf
      <3>3. q[i] = IF i <= Len(d) THEN d[i] ELSE 0
        BY <3>2, <1>3 DEF q
      <3> QED
        BY <3>1, <3>3, <1>2
    <2>2. CASE ~(i <= LargerOf(Len(d), t))
      <3>1. ~(i <= Len(d))
        BY <2>2, <1>1 DEF LargerOf
      <3> QED
        BY <2>2, <3>1, <1>2, <1>4
    <2> QED
      BY <2>1, <2>2
  <1> QED
    BY <1>2, <1>4, <1>5, SeqEqual

\* What is composed from the untouched source and the tail of the temp file is
\* the temp file.
LEMMA ComposeIsContent ==
  ASSUME NEW s \in Seq(Nat), NEW c \in Seq(Nat), Len(s) <= Len(c),
         \A i \in 1..Len(s) : c[i] = s[i]
  PROVE  s \o SubSeq(c, Len(s) + 1, Len(c)) = c
  <1> DEFINE n == Len(s)
             m == Len(c)
             u == SubSeq(c, n + 1, m)
  <1>1. n \in Nat /\ m \in Nat
    BY LenProperties
  <1>2. \A i \in n + 1..m : c[i] \in Nat
    BY <1>1, ElementOfSeq
  <1>3. /\ u \in Seq(Nat)
        /\ Len(u) = IF n + 1 <= m THEN m - (n + 1) + 1 ELSE 0
        /\ \A i \in 1..m - (n + 1) + 1 : u[i] = c[(n + 1) + i - 1]
    BY <1>1, <1>2, SubSeqProperties
  <1>4. Len(u) = m - n /\ \A i \in 1..m - n : u[i] = c[n + i]
    BY <1>1, <1>3
  <1>5. /\ s \o u \in Seq(Nat)
        /\ Len(s \o u) = n + Len(u)
        /\ \A i \in 1..n + Len(u) :
              (s \o u)[i] = IF i <= n THEN s[i] ELSE u[i - n]
    BY <1>3, ConcatProperties
  <1>6. Len(s \o u) = m
    BY <1>1, <1>4, <1>5
  <1>7. \A i \in 1..m : (s \o u)[i] = c[i]
    BY <1>1, <1>4, <1>5
  <1> QED
    BY <1>5, <1>6, <1>7, SeqEqual

-----------------------------------------------------------------------------
(* The inductive invariant *)

\* Where a call may be: what each program counter says of the representations,
\* of the kind of the call and of the unlinked flag.
Control ==
    /\ op.pc \in {"stat", "upload", "compose"} => ~unlinked
    /\ op.pc = "finalize" =>
          /\ bwh # None
          /\ op.kind \in {"Flush", "Read", "Write", "Truncate"}
          /\ unlinked => op.kind \in {"Write", "Truncate"}
    /\ op.pc \in {"staged", "load", "stat", "upload", "compose"} => bwh = None
    /\ op.pc \in {"load", "stat", "upload", "compose"} => content # None
    /\ op.pc = "compose" => op.latest # None
    /\ op.pc \in {"apply", "staged"} => op.kind \in {"Write", "Truncate"}
    /\ op.pc = "load" => op.kind \in {"Write", "Truncate", "Read"}
    /\ op.pc = "read" => op.kind = "Read"
    /\ op.pc = "init" => op.kind \in {"Create", "Write", "Truncate"}
    /\ op.pc = "flush" => op.kind \in {"Sync", "Flush", "Read"}
    /\ op.kind = "Create" => op.pc \in {"init", "tempfile"}
    /\ op.pc = "tempfile" => op.kind = "Create"
    /\ bwh # None => content = None
    /\ op.pc \in {"init", "apply"} /\ op.kind = "Write" => ~AtStaleTruncation(op.off)

SameVersion(v) == v.gen = src.gen /\ v.meta = src.meta

\* The versions the inode works against: a generation determines its data, and
\* every precondition in use is the version the inode branched from.
Versions ==
    /\ src.gen <= lastGen
    /\ obj # None => 1 <= obj.gen /\ obj.gen <= lastGen
    /\ obj # None /\ obj.gen = src.gen => obj.data = src.data
    /\ local => src = NoObject
    /\ op.kind = "Create" => local
    /\ bwh # None => IF bwh.pre = None THEN local ELSE SameVersion(bwh.pre)
    /\ op.pc = "upload" => IF op.latest = None THEN local ELSE SameVersion(op.latest)
    /\ op.pc = "compose" => SameVersion(op.latest)
    /\ op.pc \in {"upload", "compose"} /\ op.latest # None => op.latest.data = src.data
    /\ op.pc = "flush" => op.latest = None

\* A temp file over the content s of the source: nothing loaded, or loaded and
\* untouched below the dirty threshold.
Faithful(tf, s) ==
    /\ tf.state = "incomplete" => tf.data = s
    /\ tf.state # "incomplete" =>
          /\ tf.dirtyThreshold <= Len(tf.data)
          /\ tf.mtime = "nil" => tf.dirtyThreshold = Len(tf.data)
          /\ tf.dirtyThreshold <= Len(s)
          /\ \A i \in 1..tf.dirtyThreshold : tf.data[i] = s[i]

\* The temp file is over the source, and a call that composes has found the
\* whole source below the dirty threshold.
Staged ==
    /\ content # None => Faithful(content, src.data)
    /\ op.pc = "compose" => /\ content.state # "incomplete"
                            /\ content.dirtyThreshold = Len(op.latest.data)

IInv == TypeOK /\ Control /\ Versions /\ Staged /\ CurrentIsView

-----------------------------------------------------------------------------
(* How calls end *)

\* Between calls the record of the call is a call, too.
LEMMA IdleIsCall == Idle \in Call
  BY DEF Idle, Call

\* Moving on inside a call keeps its kind, its arguments and what it found.
LEMMA GotoIsCall ==
  ASSUME TypeOK,
         NEW pc \in {"apply", "tempfile", "staged", "load", "read", "finalize",
                     "stat", "upload", "compose"},
         Goto(pc)
  PROVE  /\ op' \in Call /\ op'.pc = pc /\ op'.kind = op.kind /\ op'.off = op.off
         /\ op'.byte = op.byte /\ op'.latest = op.latest
  BY DEF TypeOK, Goto, Call

\* A call that does not change the content ends with the view as it was.
LEMMA Ends ==
  ASSUME TypeOK, Return \/ ReturnError \/ ReturnPublished
  PROVE  /\ op' = Idle /\ op' \in Call /\ view' = view
         /\ reported' \in {"no", "yes"} /\ handleless' \in {"no", "yes"}
  BY IdleIsCall DEF TypeOK, Return, ReturnError, ReturnPublished, auxVars

\* An acknowledged write or truncation makes a file of a file.
LEMMA ChangedType ==
  ASSUME TypeOK, NEW s \in Seq(Nat)
  PROVE  Changed(s) \in Seq(Nat)
  <1>1. op.off \in Nat /\ op.byte \in Nat
    BY DEF TypeOK, Call
  <1> QED
    BY <1>1, WriteByteProperties, ResizeProperties, ZenonT(60) DEF Changed

\* A call that changes the content ends with the view changed the same way.
LEMMA ReturnChangedType ==
  ASSUME TypeOK, ReturnChanged
  PROVE  /\ op' = Idle /\ op' \in Call /\ view' = Changed(view) /\ view' \in Seq(Nat)
         /\ reported' \in {"no", "yes"} /\ handleless' \in {"no", "yes"}
  BY IdleIsCall, ChangedType DEF TypeOK, ReturnChanged

\* Loading a temp file (tempFile.ensureComplete) keeps its content.
LEMMA CompleteType ==
  ASSUME NEW tf \in TempFile
  PROVE  /\ Complete(tf) \in TempFile /\ Complete(tf) # None
         /\ Complete(tf).state # "incomplete" /\ Complete(tf).data = tf.data
         /\ Complete(tf).mtime = tf.mtime
         /\ tf.state # "incomplete" => Complete(tf) = tf
         /\ tf.state = "incomplete" => Complete(tf).dirtyThreshold = Len(tf.data)
  <1>1. tf.data \in Seq(Nat) /\ Len(tf.data) \in Nat
    BY LenProperties DEF TempFile
  <1> QED
    BY <1>1, NoneAssumption, ZenonT(60) DEF TempFile, Complete

\* A write or truncation of a temp file (tempFile.WriteAt, Truncate) does to its
\* content what the call does, and lowers the dirty threshold to the offset.
LEMMA DirtiedType ==
  ASSUME TypeOK, NEW tf \in TempFile
  PROVE  /\ Dirtied(tf) \in TempFile /\ Dirtied(tf) # None
         /\ Dirtied(tf).state = "dirty" /\ Dirtied(tf).mtime = "set"
         /\ Dirtied(tf).data = Changed(tf.data)
         /\ Dirtied(tf).dirtyThreshold
               = SmallerOf(Complete(tf).dirtyThreshold, op.off)
  <1> DEFINE c == Complete(tf)
  <1>1. c \in TempFile /\ c.data = tf.data
    BY CompleteType
  <1>2. Changed(c.data) \in Seq(Nat)
    BY <1>1, ChangedType DEF TempFile
  <1>3. SmallerOf(c.dirtyThreshold, op.off) \in Nat
    BY <1>1 DEF TempFile, TypeOK, Call, SmallerOf
  <1> HIDE DEF c
  <1>4. Dirtied(tf) = [c EXCEPT !.dirtyThreshold = SmallerOf(@, op.off),
                                !.state = "dirty", !.mtime = "set",
                                !.data = Changed(@)]
    BY DEF Dirtied, c
  <1>5. Dirtied(tf) \in TempFile
    BY <1>1, <1>2, <1>3, <1>4, ZenonT(60) DEF TempFile
  <1>6. Dirtied(tf) # None
    BY <1>5, NoneAssumption
  <1>7. /\ Dirtied(tf).state = "dirty" /\ Dirtied(tf).mtime = "set"
        /\ Dirtied(tf).data = Changed(c.data)
        /\ Dirtied(tf).dirtyThreshold = SmallerOf(c.dirtyThreshold, op.off)
    BY <1>1, <1>4 DEF TempFile
  <1> QED
    BY <1>1, <1>5, <1>6, <1>7 DEF c

\* A new temp file, with or without an mtime, is one.
LEMMA NewTempFileType ==
  ASSUME NEW d \in Seq(Nat)
  PROVE  /\ NewTempFile(d) \in TempFile /\ NewTempFile(d) # None
         /\ [NewTempFile(d) EXCEPT !.mtime = "set"] \in TempFile
         /\ [NewTempFile(d) EXCEPT !.mtime = "set"] # None
  BY NoneAssumption DEF NewTempFile, TempFile

\* A new buffered write handler is one.
LEMMA NewBWHandlerType ==
  ASSUME NEW pre \in Object \cup {None}
  PROVE  NewBWHandler(pre) \in Handler /\ NewBWHandler(pre) # None
  <1>1. <<>> \in Seq(Nat) /\ -1 \in Int
    BY EmptySeq
  <1>2. \A d \in Seq(Nat), t \in Int, v \in Object \cup {None} :
           [data |-> d, truncated |-> t, pre |-> v, state |-> "ok"] \in Handler
    BY DEF Handler
  <1>3. NewBWHandler(pre) \in Handler
    BY <1>1, <1>2, ZenonT(60) DEF NewBWHandler
  <1> QED
    BY <1>3, NoneAssumption

\* What a request that writes the object does to the bucket.
LEMMA PublishType ==
  ASSUME TypeOK, NEW a, NEW d \in Seq(Nat), Publish(a, d)
  PROVE  /\ obj' \in Object \cup {None} /\ lastGen' \in Nat /\ remote' = remote
         /\ a # "error" => /\ obj' \in Object /\ obj' # None
                           /\ obj' = [gen |-> lastGen + 1, meta |-> 1, data |-> d]
                           /\ obj'.data = d /\ obj'.gen = lastGen + 1
                           /\ lastGen' = lastGen + 1
         /\ a = "error" => obj' = obj /\ lastGen' = lastGen
  BY NoneAssumption DEF TypeOK, Publish, Object, gcsVars

\* A metadata update of the object changes its metageneration only.
LEMMA TouchedType ==
  ASSUME NEW o \in Object
  PROVE  /\ [o EXCEPT !.meta = @ + 1] \in Object
         /\ [o EXCEPT !.meta = @ + 1].gen = o.gen
         /\ [o EXCEPT !.meta = @ + 1].data = o.data
  <1>1. o.meta + 1 \in Nat
    BY DEF Object
  <1> DEFINE n == o.meta + 1
  <1>2. [o EXCEPT !.meta = @ + 1] = [o EXCEPT !.meta = n]
    OBVIOUS
  <1> HIDE DEF n
  <1> QED
    BY <1>1, <1>2 DEF Object, n

\* What ComposeObjects gives the object is a content.
LEMMA ComposedType ==
  ASSUME TypeOK, Control, op.pc = "compose",
         NEW a \in Answers(op.latest), a # "error"
  PROVE  /\ obj # None /\ content \in TempFile /\ op.latest \in Object
         /\ obj.data \o SubSeq(content.data, Len(op.latest.data) + 1, Len(content.data))
               \in Seq(Nat)
  <1>1. obj # None /\ op.latest # None /\ content # None
    BY DEF Control, Answers, Holds
  <1>2. obj \in Object /\ content \in TempFile /\ op.latest \in Object
    BY <1>1 DEF TypeOK, Call
  <1>3. obj.data \in Seq(Nat) /\ content.data \in Seq(Nat) /\ op.latest.data \in Seq(Nat)
    BY <1>2 DEF TempFile, Object
  <1>4. Len(op.latest.data) \in Nat /\ Len(content.data) \in Nat
    BY <1>3, LenProperties
  <1>5. \A i \in Len(op.latest.data) + 1..Len(content.data) : content.data[i] \in Nat
    BY <1>3, <1>4, ElementOfSeq
  <1>6. SubSeq(content.data, Len(op.latest.data) + 1, Len(content.data)) \in Seq(Nat)
    BY <1>4, <1>5, SubSeqProperties
  <1> QED
    BY <1>1, <1>2, <1>3, <1>6, ConcatProperties

\* The three ways a step of syncer.SyncObject ends: nothing is requested, the
\* temporary object to compose is there, or the whole object was requested.
SyncStays ==
    /\ Return \/ ReturnError
    /\ content' \in {content, Complete(content)}
    /\ UNCHANGED <<obj, lastGen, remote, src, local, bwh>>

SyncComposes ==
    /\ Goto("compose") /\ UNCHANGED <<view, reported, handleless>>
    /\ op.latest # None /\ MayCompose(Complete(content))
    /\ content' = Complete(content)
    /\ UNCHANGED <<obj, lastGen, remote, src, local, bwh>>

SyncCreates(a) ==
    /\ Publish(a, Complete(content).data)
    /\ IF a = "ok" THEN updateInodeStateAfterFlush(obj') /\ ReturnPublished
       ELSE /\ ReturnError
            /\ content' = Complete(content)
            /\ UNCHANGED <<src, local, bwh>>

\* SyncObject does nothing else.
LEMMA SyncObjectCases ==
  ASSUME SyncObject
  PROVE  /\ op.pc = "upload"
         /\ UNCHANGED <<unlinked, destroyed, handles, delete, calls>>
         /\ \/ SyncStays
            \/ SyncComposes
            \/ \E a \in Answers(op.latest) : SyncCreates(a)
  <1>1. op.pc = "upload" /\ UNCHANGED <<unlinked, destroyed, handles, delete, calls>>
    BY ZenonT(60) DEF SyncObject
  <1>2. SyncStays \/ SyncComposes \/ \E a \in Answers(op.latest) : SyncCreates(a)
    BY ZenonT(60) DEF SyncObject, SyncStays, SyncComposes, SyncCreates, gcsVars, auxVars
  <1> QED
    BY <1>1, <1>2

-----------------------------------------------------------------------------
(* Every handler keeps the types *)

\* Every step of the inode, of its uploader and of other clients keeps the types.
LEMMA NextType == TypeOK /\ Control /\ [Next]_vars => TypeOK'
  <1> SUFFICES ASSUME TypeOK, Control, [Next]_vars PROVE TypeOK'
    OBVIOUS
  <1> USE DEF gcsVars, auxVars
  <1>a. /\ content # None => content \in TempFile
        /\ bwh # None => bwh \in Handler
        /\ obj # None => obj \in Object
        /\ op.off \in Nat /\ op.byte \in Nat /\ op.latest \in Object \cup {None}
    BY DEF TypeOK, Call
  <1>b. ASSUME NEW kind \in {"Write", "Truncate", "Sync", "Flush", "Read", "SetMtime"},
               NEW off \in Nat, NEW byte \in Nat,
               NEW pc \in {"init", "flush", "read", "setmtime"},
               Begin(kind, off, byte, pc),
               handles' \in [Handles -> {"closed", "open", "flushed"}]
        PROVE  TypeOK'
    <2>1. op' \in Call
      BY <1>b DEF Begin, Call
    <2> QED
      BY <1>b, <2>1 DEF TypeOK, Begin
  <1>1. ASSUME NEW h \in Handles, NEW off \in 0..MaxSize, NEW b \in Bytes,
               WriteFile(h, off, b)
        PROVE  TypeOK'
    BY <1>1, <1>b, BytesAssumption, SizeAssumption DEF WriteFile, TypeOK
  <1>2. ASSUME NEW h \in Handles, FlushFile(h) PROVE TypeOK'
    BY <1>2, <1>b DEF FlushFile, TypeOK
  <1>3. ASSUME NEW h \in Handles, OpenFile(h) PROVE TypeOK'
    BY <1>3 DEF OpenFile, TypeOK
  <1>4. ASSUME NEW h \in Handles, ReleaseFileHandle(h) PROVE TypeOK'
    <2>1. WithoutHandler \in Seq(Nat)
      BY <1>a DEF WithoutHandler, TypeOK, TempFile, Object
    <2> QED
      BY <1>4, <2>1 DEF ReleaseFileHandle, DeRegisterFileHandle, TypeOK
  <1>5. ASSUME NEW size \in 0..MaxSize, NEW through, TruncateFile(size, through)
        PROVE  TypeOK'
    BY <1>5, <1>b, SizeAssumption DEF TruncateFile, TypeOK
  <1>6. ASSUME SyncFile PROVE TypeOK'
    BY <1>6, <1>b DEF SyncFile, TypeOK
  <1>7. ASSUME ReadFile PROVE TypeOK'
    BY <1>7, <1>b DEF ReadFile, TypeOK
  <1>8. ASSUME SetMtime PROVE TypeOK'
    BY <1>8, <1>b DEF SetMtime, TypeOK
  <1>9. ASSUME InitBufferedWriteHandlerIfEligible PROVE TypeOK'
    <2>1. AfterInit \in {"tempfile", "apply"}
      BY DEF AfterInit
    <2>2. op' \in Call /\ view' = view /\ reported' \in {"no", "yes"}
          /\ handleless' \in {"no", "yes"}
      BY <1>9, <2>1, Ends, GotoIsCall DEF InitBufferedWriteHandlerIfEligible, TypeOK
    <2>3. bwh' \in Handler \cup {None}
      <3>1. NewBWHandler(None) \in Handler
        BY NewBWHandlerType
      <3>2. obj # None => NewBWHandler(obj) \in Handler
        BY <1>a, NewBWHandlerType
      <3>3. CASE local
        BY <1>9, <3>1, <3>3 DEF InitBufferedWriteHandlerIfEligible, TypeOK
      <3>4. CASE ~local /\ ~Clobbered
        <4>1. obj # None
          BY <3>4 DEF Clobbered
        <4> QED
          BY <1>9, <3>2, <3>4, <4>1 DEF InitBufferedWriteHandlerIfEligible, TypeOK
      <3>5. CASE ~local /\ Clobbered
        BY <1>9, <3>5 DEF InitBufferedWriteHandlerIfEligible, TypeOK
      <3> QED
        BY <3>3, <3>4, <3>5
    <2> QED
      BY <1>9, <2>2, <2>3 DEF InitBufferedWriteHandlerIfEligible, TypeOK
  <1>10. ASSUME CreateEmptyTempFile PROVE TypeOK'
    <2>1. content' \in TempFile \cup {None}
      BY <1>10, EmptySeq, NewTempFileType, ZenonT(60) DEF CreateEmptyTempFile, TypeOK
    <2> QED
      BY <1>10, <2>1, Ends DEF CreateEmptyTempFile, TypeOK
  <1>11. ASSUME UsingBufferedWrites PROVE TypeOK'
    <2>1. bwh \in Handler
      BY <1>11, <1>a DEF UsingBufferedWrites
    <2>2. bwh' \in Handler
      <3>1. CASE UNCHANGED bwh
        BY <2>1, <3>1
      <3>2. CASE bwh' = [bwh EXCEPT !.data = Append(Pad(@, op.off), op.byte)]
        <4>1. bwh.data \in Seq(Nat)
          BY <2>1 DEF Handler
        <4>2. Append(Pad(bwh.data, op.off), op.byte) \in Seq(Nat)
          BY <4>1, <1>a, PadProperties
        <4> QED
          BY <2>1, <3>2, <4>2, ZenonT(60) DEF Handler
      <3>3. CASE bwh' = [bwh EXCEPT !.truncated = op.off]
        BY <2>1, <3>3, <1>a DEF Handler
      <3> QED
        BY <1>11, <3>1, <3>2, <3>3 DEF UsingBufferedWrites
    <2>3. op' \in Call /\ view' \in Seq(Nat) /\ reported' \in {"no", "yes"}
          /\ handleless' \in {"no", "yes"}
      BY <1>11, Ends, ReturnChangedType, GotoIsCall DEF UsingBufferedWrites, TypeOK
    <2> QED
      BY <1>11, <2>2, <2>3 DEF UsingBufferedWrites, TypeOK
  <1>12. ASSUME ensureContent PROVE TypeOK'
    <2>1. content' \in TempFile \cup {None}
      BY <1>12, <1>a, NewTempFileType, ZenonT(60) DEF ensureContent, TypeOK, Object
    <2> QED
      BY <1>12, <2>1, Ends, GotoIsCall DEF ensureContent, TypeOK
  <1>13. ASSUME UsingTempFile PROVE TypeOK'
    <2>1. content \in TempFile
      BY <1>13, <1>a DEF UsingTempFile, Control
    <2>2. content' \in TempFile
      BY <1>13, <2>1, CompleteType, DirtiedType DEF UsingTempFile
    <2> QED
      BY <1>13, <2>2, Ends, ReturnChangedType DEF UsingTempFile, TypeOK
  <1>14. ASSUME ReadInode PROVE TypeOK'
    BY <1>14, Ends, GotoIsCall DEF ReadInode, TypeOK
  <1>15. ASSUME flushFile PROVE TypeOK'
    BY <1>15, Ends, GotoIsCall DEF flushFile, TypeOK
  <1>16. ASSUME flushUsingBufferedWriteHandler PROVE TypeOK'
    <2>1. bwh \in Handler
      BY <1>16, <1>a DEF flushUsingBufferedWriteHandler, Control
    <2>2. Pad(bwh.data, bwh.truncated) \in Seq(Nat)
      BY <2>1, PadProperties DEF Handler
    <2>3. PICK a : /\ Publish(a, Pad(bwh.data, bwh.truncated))
                   /\ IF a = "ok"
                      THEN /\ updateInodeStateAfterFlush(obj')
                           /\ IF op.kind = "Flush" THEN ReturnPublished
                              ELSE /\ Goto(IF op.kind = "Read" THEN "read" ELSE "staged")
                                   /\ UNCHANGED auxVars
                      ELSE /\ bwh' = [bwh EXCEPT !.state = IF @ = "ok" THEN "failed" ELSE @]
                           /\ ReturnError
                           /\ UNCHANGED <<src, local, content>>
      BY <1>16 DEF flushUsingBufferedWriteHandler
    <2>4. /\ obj' \in Object \cup {None} /\ lastGen' \in Nat /\ remote' = remote
          /\ a = "ok" => obj' \in Object
      BY <2>2, <2>3, PublishType
    <2>5. op' \in Call /\ view' = view /\ reported' \in {"no", "yes"}
          /\ handleless' \in {"no", "yes"}
      BY <2>3, Ends, GotoIsCall DEF TypeOK
    <2>6. CASE a = "ok"
      BY <1>16, <2>3, <2>4, <2>5, <2>6, ZenonT(60)
         DEF flushUsingBufferedWriteHandler, updateInodeStateAfterFlush, TypeOK
    <2>7. CASE a # "ok"
      <3>1. bwh' \in Handler
        BY <2>1, <2>3, <2>7 DEF Handler
      <3> QED
        BY <1>16, <2>3, <2>4, <2>5, <2>7, <3>1 DEF flushUsingBufferedWriteHandler, TypeOK
    <2> QED
      BY <2>6, <2>7
  <1>17. ASSUME fetchLatestGcsObject PROVE TypeOK'
    <2>1. op' \in Call /\ view' = view /\ reported' \in {"no", "yes"}
          /\ handleless' \in {"no", "yes"}
      <3>1. CASE ReturnError
        BY <3>1, Ends
      <3>2. CASE op' = [op EXCEPT !.pc = "upload", !.latest = obj] /\ UNCHANGED auxVars
        BY <3>2, ZenonT(60) DEF TypeOK, Call
      <3> QED
        BY <1>17, <3>1, <3>2 DEF fetchLatestGcsObject
    <2> QED
      BY <1>17, <2>1 DEF fetchLatestGcsObject, TypeOK
  <1>18. ASSUME SyncObject PROVE TypeOK'
    <2>1. content \in TempFile /\ UNCHANGED <<unlinked, destroyed, handles, delete, calls>>
      BY <1>18, <1>a, SyncObjectCases DEF Control
    <2>2. Complete(content) \in TempFile /\ Complete(content).data \in Seq(Nat)
      BY <2>1, CompleteType DEF TempFile
    <2>3. CASE SyncStays \/ SyncComposes
      <3>1. /\ op' \in Call /\ view' = view /\ reported' \in {"no", "yes"}
            /\ handleless' \in {"no", "yes"}
        BY <2>3, Ends, GotoIsCall DEF SyncStays, SyncComposes, TypeOK
      <3>2. UNCHANGED <<obj, lastGen, remote, src, local, bwh>> /\ content' \in TempFile
        BY <2>1, <2>2, <2>3 DEF SyncStays, SyncComposes
      <3> QED
        BY <2>1, <3>1, <3>2, Zenon DEF TypeOK
    <2>4. ASSUME NEW a, SyncCreates(a) PROVE TypeOK'
      <3>1. /\ op' \in Call /\ view' = view /\ reported' \in {"no", "yes"}
            /\ handleless' \in {"no", "yes"}
        BY <2>4, Ends DEF SyncCreates
      <3>2. /\ obj' \in Object \cup {None} /\ lastGen' \in Nat /\ remote' = remote
            /\ a = "ok" => obj' \in Object
        BY <2>2, <2>4, PublishType DEF SyncCreates
      <3>3. /\ src' \in Object /\ local' \in BOOLEAN
            /\ content' \in TempFile \cup {None} /\ bwh' \in Handler \cup {None}
        <4>1. CASE a = "ok"
          BY <2>4, <3>2, <4>1, Zenon DEF SyncCreates, updateInodeStateAfterFlush
        <4>2. CASE a # "ok"
          BY <2>2, <2>4, <4>2 DEF SyncCreates, TypeOK
        <4> QED
          BY <4>1, <4>2
      <3> QED
        BY <2>1, <3>1, <3>2, <3>3 DEF TypeOK
    <2> QED
      BY <1>18, <2>3, <2>4, SyncObjectCases
  <1>19. ASSUME ComposeObjects PROVE TypeOK'
    <2> DEFINE new == obj.data \o SubSeq(content.data, Len(op.latest.data) + 1,
                                         Len(content.data))
    <2>1. PICK a \in Answers(op.latest) :
             /\ Publish(a, new)
             /\ \/ a = "ok" /\ updateInodeStateAfterFlush(obj') /\ ReturnPublished
                \/ ReturnError /\ UNCHANGED <<src, local, content, bwh>>
      BY <1>19 DEF ComposeObjects
    <2>2. op' \in Call /\ view' = view /\ reported' \in {"no", "yes"}
          /\ handleless' \in {"no", "yes"}
      BY <2>1, Ends
    <2> HIDE DEF new
    <2>3. CASE a = "error"
      BY <1>19, <2>1, <2>2, <2>3 DEF ComposeObjects, Publish, TypeOK
    <2>4. CASE a # "error"
      <3>1. new \in Seq(Nat)
        BY <1>19, <2>1, <2>4, ComposedType DEF ComposeObjects, new
      <3>2. /\ obj' \in Object /\ lastGen' \in Nat /\ remote' = remote
        BY <2>1, <2>4, <3>1, PublishType
      <3> QED
        BY <1>19, <2>1, <2>2, <3>2, ZenonT(60) DEF ComposeObjects, updateInodeStateAfterFlush, TypeOK
    <2> QED
      BY <2>3, <2>4
  <1>20. ASSUME UpdateMtime PROVE TypeOK'
    <2>1. content' \in TempFile \cup {None}
      <3>1. content # None => /\ Complete(content) \in TempFile
                              /\ [Complete(content) EXCEPT !.mtime = "set"] \in TempFile
        BY <1>a, CompleteType DEF TempFile
      <3> QED
        BY <1>20, <3>1 DEF UpdateMtime, TypeOK
    <2>2. obj' \in Object \cup {None} /\ src' \in Object
      <3>1. obj # None => [obj EXCEPT !.meta = @ + 1] \in Object
        BY <1>a, TouchedType
      <3> QED
        BY <1>20, <3>1 DEF UpdateMtime, TypeOK
    <2>3. op' \in Call /\ view' = view /\ reported' \in {"no", "yes"}
          /\ handleless' \in {"no", "yes"}
      BY <1>20, Ends DEF UpdateMtime
    <2> QED
      BY <1>20, <2>1, <2>2, <2>3 DEF UpdateMtime, TypeOK
  <1>21. ASSUME Unlink PROVE TypeOK'
    <2>1. bwh' \in Handler \cup {None}
      <3>1. bwh # None => [bwh EXCEPT !.state = "cancelled"] \in Handler
        BY <1>a DEF Handler
      <3> QED
        BY <1>21, <3>1 DEF Unlink, TypeOK
    <2> QED
      BY <1>21, <2>1 DEF Unlink, TypeOK
  <1>22. ASSUME DeleteObject PROVE TypeOK'
    BY <1>22 DEF DeleteObject, TypeOK
  <1>23. ASSUME Destroy PROVE TypeOK'
    BY <1>23 DEF Destroy, TypeOK, Object
  <1>24. ASSUME UploadFails PROVE TypeOK'
    <2>1. bwh' \in Handler
      BY <1>24, <1>a DEF UploadFails, Handler
    <2> QED
      BY <1>24, <2>1 DEF UploadFails, TypeOK
  <1>25. ASSUME OtherClients PROVE TypeOK'
    <2>1. obj' \in Object \cup {None} /\ lastGen' \in Nat
      <3>1. obj # None => [obj EXCEPT !.meta = @ + 1] \in Object
        BY <1>a, TouchedType
      <3>2. \A d \in Contents : [gen |-> lastGen + 1, meta |-> 1, data |-> d] \in Object
        BY ContentsAssumption DEF TypeOK, Object
      <3> QED
        BY <1>25, <3>1, <3>2 DEF OtherClients, TypeOK
    <2> QED
      BY <1>25, <2>1 DEF OtherClients, TypeOK
  <1>26. CASE UNCHANGED vars
    BY <1>26 DEF vars, TypeOK
  <1> QED
    BY <1>1, <1>2, <1>3, <1>4, <1>5, <1>6, <1>7, <1>8, <1>9, <1>10, <1>11,
       <1>12, <1>13, <1>14, <1>15, <1>16, <1>17, <1>18, <1>19, <1>20, <1>21,
       <1>22, <1>23, <1>24, <1>25, <1>26 DEF Next

-----------------------------------------------------------------------------
(* The program counter tells what the call relies on *)

\* Between calls only the exclusion of handler and temp file is at stake.
LEMMA IdleControl ==
  ASSUME op' = Idle, bwh' # None => content' = None
  PROVE  Control'
  BY DEF Control, Idle

\* Every step leaves the call where its representations and its kind allow it.
LEMMA NextControl == TypeOK /\ Control /\ [Next]_vars => Control'
  <1> SUFFICES ASSUME TypeOK, Control, [Next]_vars PROVE Control'
    OBVIOUS
  <1> USE DEF gcsVars, auxVars
  <1>a. bwh # None => content = None
    BY DEF Control
  <1>b. ASSUME NEW kind, NEW off, NEW byte, NEW pc, Begin(kind, off, byte, pc)
        PROVE  /\ op'.kind = kind /\ op'.pc = pc /\ op'.off = off
               /\ UNCHANGED <<unlinked, content, bwh>>
    BY <1>b, Zenon DEF Begin
  <1>1. ASSUME NEW h \in Handles, NEW off \in 0..MaxSize, NEW b \in Bytes,
               WriteFile(h, off, b)
        PROVE  Control'
    BY <1>1, <1>a, <1>b DEF WriteFile, Control, AtStaleTruncation
  <1>2. ASSUME NEW h \in Handles, FlushFile(h) PROVE Control'
    BY <1>2, <1>a, <1>b DEF FlushFile, Control
  <1>3. ASSUME NEW h \in Handles, OpenFile(h) PROVE Control'
    BY <1>3, <1>a, IdleControl DEF OpenFile
  <1>4. ASSUME NEW h \in Handles, ReleaseFileHandle(h) PROVE Control'
    BY <1>4, <1>a, IdleControl, Zenon DEF ReleaseFileHandle, DeRegisterFileHandle
  <1>5. ASSUME NEW size \in 0..MaxSize, NEW through, TruncateFile(size, through)
        PROVE  Control'
    BY <1>5, <1>a, <1>b DEF TruncateFile, Control
  <1>6. ASSUME SyncFile PROVE Control'
    BY <1>6, <1>a, <1>b DEF SyncFile, Control
  <1>7. ASSUME ReadFile PROVE Control'
    BY <1>7, <1>a, <1>b DEF ReadFile, Control
  <1>8. ASSUME SetMtime PROVE Control'
    BY <1>8, <1>a, <1>b DEF SetMtime, Control
  <1>9. ASSUME InitBufferedWriteHandlerIfEligible PROVE Control'
    <2>1. CASE ReturnError
      BY <1>9, <2>1, <1>a, IdleControl, Zenon DEF InitBufferedWriteHandlerIfEligible, ReturnError
    <2>2. CASE Goto(AfterInit)
      <3>1. AfterInit \in {"tempfile", "apply"} /\ (AfterInit = "tempfile" <=> op.kind = "Create")
        BY DEF AfterInit
      <3>2. op'.pc = AfterInit /\ op'.kind = op.kind /\ op'.off = op.off
        BY <2>2, <3>1, GotoIsCall, Zenon
      <3>3. op.kind \in {"Create", "Write", "Truncate"} /\ op.off \in Nat
        BY <1>9 DEF InitBufferedWriteHandlerIfEligible, Control, TypeOK, Call
      <3>4. op.kind = "Write" => ~AtStaleTruncation(op.off)'
        <4>1. CASE UNCHANGED bwh
          BY <1>9, <4>1, <3>2 DEF InitBufferedWriteHandlerIfEligible, Control, AtStaleTruncation
        <4>2. CASE bwh' # bwh
          <5>1. bwh'.truncated = -1
            BY <1>9, <4>2 DEF InitBufferedWriteHandlerIfEligible, NewBWHandler, ReturnError
          <5> QED
            BY <5>1, <3>2, <3>3 DEF AtStaleTruncation
        <4> QED
          BY <4>1, <4>2, Zenon
      <3>5. bwh' # None => content' = None
        BY <1>9, <1>a DEF InitBufferedWriteHandlerIfEligible
      <3> QED
        BY <3>1, <3>2, <3>3, <3>4, <3>5 DEF Control
    <2> QED
      BY <1>9, <2>1, <2>2 DEF InitBufferedWriteHandlerIfEligible
  <1>10. ASSUME CreateEmptyTempFile PROVE Control'
    BY <1>10, <1>a, IdleControl DEF CreateEmptyTempFile, Return
  <1>11. ASSUME UsingBufferedWrites PROVE Control'
    <2>1. CASE ReturnError \/ ReturnChanged
      BY <1>11, <2>1, <1>a, IdleControl DEF UsingBufferedWrites, ReturnError, ReturnChanged
    <2>2. CASE Goto("finalize") /\ UNCHANGED bwh
      <3>1. op'.pc = "finalize" /\ op'.kind = op.kind /\ op.kind \in {"Write", "Truncate"}
        BY <1>11, <2>2, GotoIsCall DEF UsingBufferedWrites, Control
      <3> QED
        BY <1>11, <2>2, <3>1, <1>a DEF UsingBufferedWrites, Control
    <2> QED
      BY <1>11, <2>1, <2>2 DEF UsingBufferedWrites
  <1>12. ASSUME ensureContent PROVE Control'
    <2>1. CASE ReturnError
      BY <1>12, <2>1, <1>a, IdleControl, Zenon DEF ensureContent, ReturnError
    <2>2. CASE Goto("load") /\ content' # None
      <3>1. op'.pc = "load" /\ op'.kind = op.kind /\ op.kind \in {"Write", "Truncate"}
        BY <1>12, <2>2, GotoIsCall DEF ensureContent, Control
      <3> QED
        BY <1>12, <2>2, <3>1, Zenon DEF ensureContent, Control
    <2>3. obj # None => NewTempFile(obj.data) # None
      BY NewTempFileType, ZenonT(60) DEF TypeOK, Object
    <2> QED
      BY <1>12, <2>1, <2>2, <2>3 DEF ensureContent
  <1>13. ASSUME UsingTempFile PROVE Control'
    BY <1>13, IdleControl, SMTT(30) DEF UsingTempFile, Control, Return, ReturnError, ReturnChanged
  <1>14. ASSUME ReadInode PROVE Control'
    <2>1. CASE Return \/ ReturnError
      BY <1>14, <2>1, <1>a, IdleControl, Zenon DEF ReadInode, Return, ReturnError
    <2>2. CASE Goto("load") /\ bwh = None /\ content # None
      <3>1. op'.pc = "load" /\ op'.kind = op.kind
        BY <2>2, GotoIsCall, Zenon
      <3>2. op.kind = "Read"
        BY <1>14 DEF ReadInode, Control
      <3> QED
        BY <1>14, <2>2, <3>1, <3>2 DEF ReadInode, Control
    <2> QED
      BY <1>14, <2>1, <2>2 DEF ReadInode
  <1>15. ASSUME flushFile PROVE Control'
    <2>1. op.kind \in {"Sync", "Flush", "Read"}
      BY <1>15 DEF flushFile, Control
    <2>2. CASE Return \/ ReturnError
      BY <1>15, <2>2, <1>a, IdleControl, Zenon DEF flushFile, Return, ReturnError
    <2>3. CASE Goto("read") /\ op.kind = "Read"
      <3>1. op'.pc = "read" /\ op'.kind = op.kind
        BY <2>3, GotoIsCall, SMTT(30), Zenon
      <3> QED
        BY <1>15, <2>3, <3>1, <1>a DEF flushFile, Control
    <2>4. CASE Goto("finalize") /\ bwh # None /\ ~NothingToFlush /\ op.kind # "Sync"
      <3>1. op'.pc = "finalize" /\ op'.kind = op.kind
        BY <2>4, GotoIsCall, Zenon
      <3> QED
        BY <1>15, <2>1, <2>4, <3>1, <1>a DEF flushFile, Control, NothingToFlush
    <2>5. CASE Goto(IF local THEN "upload" ELSE "stat") /\ bwh = None /\ ~NothingToFlush
      <3>1. op'.pc \in {"upload", "stat"} /\ op'.kind = op.kind
        BY <2>5, GotoIsCall
      <3> QED
        BY <1>15, <2>1, <2>5, <3>1, <1>a DEF flushFile, Control, NothingToFlush
    <2> QED
      BY <1>15, <2>1, <2>2, <2>3, <2>4, <2>5, SMTT(30), Zenon DEF flushFile
  <1>16. ASSUME flushUsingBufferedWriteHandler PROVE Control'
    <2>1. CASE op' = Idle
      BY <1>16, <2>1, <1>a, IdleControl, Zenon
         DEF flushUsingBufferedWriteHandler, updateInodeStateAfterFlush, Control
    <2>2. CASE /\ Goto(IF op.kind = "Read" THEN "read" ELSE "staged")
               /\ op.kind # "Flush"
               /\ updateInodeStateAfterFlush(obj')
      <3>1. op.kind \in {"Read", "Write", "Truncate"}
        BY <1>16, <2>2 DEF flushUsingBufferedWriteHandler, Control
      <3>2. op'.pc = (IF op.kind = "Read" THEN "read" ELSE "staged") /\ op'.kind = op.kind
        BY <2>2, GotoIsCall
      <3> QED
        BY <2>2, <3>1, <3>2 DEF updateInodeStateAfterFlush, Control
    <2> QED
      BY <1>16, <2>1, <2>2 DEF flushUsingBufferedWriteHandler, ReturnError, ReturnPublished
  <1>17. ASSUME fetchLatestGcsObject PROVE Control'
    <2>1. CASE ReturnError
      BY <1>17, <2>1, <1>a, IdleControl DEF fetchLatestGcsObject, ReturnError
    <2>2. CASE op' = [op EXCEPT !.pc = "upload", !.latest = obj]
      <3>1. op'.pc = "upload" /\ op'.kind = op.kind
        BY <2>2 DEF TypeOK, Call
      <3> QED
        BY <1>17, <3>1 DEF fetchLatestGcsObject, Control
    <2> QED
      BY <1>17, <2>1, <2>2 DEF fetchLatestGcsObject
  <1>18. ASSUME SyncObject PROVE Control'
    <2>1. /\ bwh = None /\ content # None /\ ~unlinked /\ op.kind # "Create"
          /\ unlinked' = unlinked
      BY <1>18, SyncObjectCases DEF Control
    <2>2. CASE SyncStays
      BY <2>1, <2>2, IdleControl, Zenon DEF SyncStays, Return, ReturnError
    <2>3. CASE SyncComposes
      <3>1. op'.pc = "compose" /\ op'.kind = op.kind /\ op'.latest = op.latest
        BY <2>3, GotoIsCall, Zenon DEF SyncComposes
      <3>2. bwh' = None /\ content' # None /\ op.latest # None
        BY <2>1, <2>3, CompleteType DEF SyncComposes, TypeOK
      <3>3. op.pc = "upload"
        BY <1>18, SyncObjectCases
      <3> QED
        BY <2>1, <3>1, <3>2, <3>3, Zenon DEF Control
    <2>4. ASSUME NEW a, SyncCreates(a) PROVE Control'
      <3>1. bwh' = None /\ op' = Idle
        BY <2>1, <2>4 DEF SyncCreates, updateInodeStateAfterFlush, ReturnPublished, ReturnError
      <3> QED
        BY <3>1, IdleControl
    <2> QED
      BY <1>18, <2>2, <2>3, <2>4, SyncObjectCases
  <1>19. ASSUME ComposeObjects PROVE Control'
    BY <1>19, <1>a, IdleControl
       DEF ComposeObjects, updateInodeStateAfterFlush, ReturnPublished, ReturnError
  <1>20. ASSUME UpdateMtime PROVE Control'
    BY <1>20, <1>a, IdleControl DEF UpdateMtime, Return, ReturnError
  <1>21. ASSUME Unlink PROVE Control'
    BY <1>21, <1>a, IdleControl, SMTT(30), Zenon DEF Unlink
  <1>22. ASSUME DeleteObject PROVE Control'
    BY <1>22 DEF DeleteObject, Control, AtStaleTruncation
  <1>23. ASSUME Destroy PROVE Control'
    BY <1>23, IdleControl DEF Destroy
  <1>24. ASSUME UploadFails PROVE Control'
    <2>1. bwh \in Handler
      BY <1>24 DEF UploadFails, TypeOK
    <2>2. /\ bwh' # None /\ bwh' \in Handler /\ bwh'.data = bwh.data
          /\ bwh'.truncated = bwh.truncated
      BY <1>24, <2>1, NoneAssumption, Zenon DEF UploadFails, Handler
    <2> QED
      BY <1>24, <2>2 DEF UploadFails, Control, AtStaleTruncation
  <1>25. ASSUME OtherClients PROVE Control'
    BY <1>25 DEF OtherClients, Control, AtStaleTruncation
  <1>26. CASE UNCHANGED vars
    BY <1>26, Zenon DEF vars, Control, AtStaleTruncation
  <1> QED
    BY <1>1, <1>2, <1>3, <1>4, <1>5, <1>6, <1>7, <1>8, <1>9, <1>10, <1>11,
       <1>12, <1>13, <1>14, <1>15, <1>16, <1>17, <1>18, <1>19, <1>20, <1>21,
       <1>22, <1>23, <1>24, <1>25, <1>26 DEF Next

-----------------------------------------------------------------------------
(* Every precondition is the version the inode branched from *)

\* With no call in progress and src, local and the handler's precondition as
\* they were, only the object can have moved.
LEMMA VersionsKept ==
  ASSUME TypeOK, Versions,
         UNCHANGED <<src, local, op>>,
         bwh' # None => bwh # None /\ bwh'.pre = bwh.pre,
         lastGen' \in Nat, lastGen' >= lastGen,
         obj' # None => /\ 1 <= obj'.gen /\ obj'.gen <= lastGen'
                        /\ \/ obj'.gen > lastGen
                           \/ obj # None /\ obj'.gen = obj.gen /\ obj'.data = obj.data
  PROVE  Versions'
  <1>1. src.gen \in Nat /\ lastGen \in Nat /\ (obj' # None => obj'.gen <= lastGen')
    BY Zenon DEF TypeOK, Object
  <1> QED
    BY <1>1 DEF Versions, SameVersion

\* The same when the call returns or moves on to a step with no precondition.
LEMMA VersionsMoved ==
  ASSUME TypeOK, Versions,
         UNCHANGED <<src, local, obj, lastGen>>,
         op'.pc \notin {"upload", "compose"},
         op'.pc = "flush" => op'.latest = None,
         op'.kind = "Create" => op.kind = "Create",
         bwh' # None => bwh # None /\ bwh'.pre = bwh.pre
  PROVE  Versions'
  BY DEF Versions, SameVersion

\* The same after a request that published the object.
LEMMA VersionsPublished ==
  ASSUME TypeOK, Versions, NEW d \in Seq(Nat), NEW a, a # "error",
         Publish(a, d), op'.pc \notin {"upload", "compose", "flush"}, op'.kind # "Create",
         \/ updateInodeStateAfterFlush(obj')
         \/ /\ UNCHANGED <<src, local>>
            /\ bwh' # None => bwh # None /\ bwh'.pre = bwh.pre
  PROVE  Versions'
  <1>1. /\ obj' # None /\ obj'.gen = lastGen + 1 /\ lastGen' = lastGen + 1
        /\ lastGen \in Nat /\ src.gen \in Nat /\ src.gen <= lastGen
    BY PublishType, Zenon DEF TypeOK, Object, Versions
  <1>2. CASE updateInodeStateAfterFlush(obj')
    BY <1>1, <1>2 DEF updateInodeStateAfterFlush, Versions, SameVersion
  <1>3. CASE /\ UNCHANGED <<src, local>>
             /\ bwh' # None => bwh # None /\ bwh'.pre = bwh.pre
    BY <1>1, <1>3 DEF Versions, SameVersion
  <1> QED
    BY <1>2, <1>3, SMTT(30), Zenon

\* Every step keeps the preconditions in use at the version the inode branched
\* from (clobbered, updateInodeStateAfterFlush, the generation preconditions).
LEMMA NextVersions == TypeOK /\ Control /\ Versions /\ [Next]_vars => Versions'
  <1> SUFFICES ASSUME TypeOK, Control, Versions, [Next]_vars PROVE Versions'
    OBVIOUS
  <1> USE DEF gcsVars, auxVars
  <1>a. Idle.pc = "idle" /\ Idle.kind = "none"
    BY DEF Idle
  <1>b. /\ lastGen \in Nat /\ src.gen \in Nat
        /\ obj # None => obj.gen \in Nat
        /\ bwh # None => bwh \in Handler
        /\ content # None => content \in TempFile
    BY Zenon DEF TypeOK, Object
  <1>c. ASSUME NEW kind, kind # "Create", NEW off, NEW byte,
               NEW pc \in {"init", "flush", "read", "setmtime"},
               Begin(kind, off, byte, pc)
        PROVE  Versions'
    BY <1>c, VersionsMoved DEF Begin
  <1>1. ASSUME NEW h \in Handles, NEW off \in 0..MaxSize, NEW b \in Bytes,
               WriteFile(h, off, b)
        PROVE  Versions'
    BY <1>1, <1>c DEF WriteFile
  <1>2. ASSUME NEW h \in Handles, FlushFile(h) PROVE Versions'
    BY <1>2, <1>c DEF FlushFile
  <1>3. ASSUME NEW h \in Handles, OpenFile(h) PROVE Versions'
    BY <1>3, <1>a, VersionsMoved, Zenon DEF OpenFile
  <1>4. ASSUME NEW h \in Handles, ReleaseFileHandle(h) PROVE Versions'
    BY <1>4, <1>a, VersionsMoved DEF ReleaseFileHandle, DeRegisterFileHandle
  <1>5. ASSUME NEW size \in 0..MaxSize, NEW through, TruncateFile(size, through)
        PROVE  Versions'
    BY <1>5, <1>c DEF TruncateFile
  <1>6. ASSUME SyncFile PROVE Versions'
    BY <1>6, <1>c DEF SyncFile
  <1>7. ASSUME ReadFile PROVE Versions'
    BY <1>7, <1>c DEF ReadFile
  <1>8. ASSUME SetMtime PROVE Versions'
    BY <1>8, <1>c, SMTT(30), Zenon DEF SetMtime
  <1>9. ASSUME InitBufferedWriteHandlerIfEligible PROVE Versions'
    <2>1. op'.pc \notin {"upload", "compose", "flush"} /\ (op'.kind = "Create" => op.kind = "Create")
      BY <1>9, <1>a, GotoIsCall
         DEF InitBufferedWriteHandlerIfEligible, AfterInit, ReturnError
    <2>2. bwh' # None => IF bwh'.pre = None THEN local ELSE SameVersion(bwh'.pre)
      <3>1. CASE UNCHANGED bwh
        BY <3>1 DEF Versions
      <3>2. CASE bwh' = NewBWHandler(None) /\ local
        BY <3>2 DEF NewBWHandler
      <3>3. CASE bwh' = NewBWHandler(obj) /\ ~local /\ ~Clobbered
        BY <3>3 DEF NewBWHandler, Clobbered, SameVersion
      <3> QED
        BY <1>9, <3>1, <3>2, <3>3, ZenonT(60) DEF InitBufferedWriteHandlerIfEligible
    <2> QED
      BY <1>9, <2>1, <2>2, SMTT(30), Zenon DEF InitBufferedWriteHandlerIfEligible, Versions, SameVersion
  <1>10. ASSUME CreateEmptyTempFile PROVE Versions'
    BY <1>10, <1>a, VersionsMoved DEF CreateEmptyTempFile, Return
  <1>11. ASSUME UsingBufferedWrites PROVE Versions'
    <2>1. bwh' # None => bwh # None /\ bwh'.pre = bwh.pre
      BY <1>11, <1>b DEF UsingBufferedWrites, Handler
    <2>2. op'.pc \notin {"upload", "compose", "flush"} /\ (op'.kind = "Create" => op.kind = "Create")
      BY <1>11, <1>a, GotoIsCall, Zenon DEF UsingBufferedWrites, ReturnError, ReturnChanged
    <2> QED
      BY <1>11, <2>1, <2>2, VersionsMoved DEF UsingBufferedWrites
  <1>12. ASSUME ensureContent PROVE Versions'
    BY <1>12, <1>a, VersionsMoved, GotoIsCall, Zenon DEF ensureContent, ReturnError
  <1>13. ASSUME UsingTempFile PROVE Versions'
    BY <1>13, <1>a, VersionsMoved, Zenon DEF UsingTempFile, Return, ReturnError, ReturnChanged
  <1>14. ASSUME ReadInode PROVE Versions'
    BY <1>14, <1>a, VersionsMoved, GotoIsCall DEF ReadInode, Return, ReturnError
  <1>15. ASSUME flushFile PROVE Versions'
    <2>1. CASE op'.pc # "upload"
      BY <1>15, <2>1, <1>a, VersionsMoved, GotoIsCall, SMTT(30), Zenon DEF flushFile, Return, ReturnError
    <2>2. CASE op'.pc = "upload"
      <3>1. local /\ Goto("upload")
        BY <1>15, <2>2, <1>a, GotoIsCall, Zenon DEF flushFile, Return, ReturnError
      <3>2. op'.kind = op.kind /\ op'.latest = op.latest
        BY <3>1, GotoIsCall
      <3>3. op.latest = None
        BY <1>15, ZenonT(60) DEF flushFile, Versions
      <3> QED
        BY <1>15, <2>2, <3>1, <3>2, <3>3, SMTT(30) DEF flushFile, Versions, SameVersion
    <2> QED
      BY <2>1, <2>2, Zenon
  <1>16. ASSUME flushUsingBufferedWriteHandler PROVE Versions'
    <2>1. bwh \in Handler /\ op.kind # "Create"
      BY <1>16, <1>b DEF flushUsingBufferedWriteHandler, Control
    <2> DEFINE new == Pad(bwh.data, bwh.truncated)
    <2>2. new \in Seq(Nat)
      BY <2>1, PadProperties DEF Handler
    <2>3. /\ op'.pc \notin {"upload", "compose", "flush"} /\ op'.kind # "Create"
      BY <1>16, <2>1, <1>a, GotoIsCall
         DEF flushUsingBufferedWriteHandler, ReturnError, ReturnPublished
    <2> HIDE DEF new
    <2>4. PICK a : /\ Publish(a, new)
                   /\ \/ a = "ok" /\ updateInodeStateAfterFlush(obj')
                      \/ /\ bwh' = [bwh EXCEPT !.state = IF @ = "ok" THEN "failed" ELSE @]
                         /\ UNCHANGED <<src, local, content>>
      BY <1>16 DEF flushUsingBufferedWriteHandler, new
    <2>5. CASE a # "error"
      <3>1. \/ updateInodeStateAfterFlush(obj')
            \/ UNCHANGED <<src, local>> /\ bwh # None /\ bwh'.pre = bwh.pre
        BY <1>16, <2>1, <2>4 DEF Handler, flushUsingBufferedWriteHandler, Control
      <3> QED
        BY <2>2, <2>3, <2>4, <2>5, <3>1, VersionsPublished
    <2>6. CASE a = "error"
      <3>1. /\ UNCHANGED <<src, local, obj, lastGen>> /\ bwh'.pre = bwh.pre /\ bwh # None
        BY <1>16, <2>1, <2>4, <2>6 DEF Publish, Handler, flushUsingBufferedWriteHandler, Control
      <3> QED
        BY <2>3, <3>1, VersionsMoved
    <2> QED
      BY <2>5, <2>6
  <1>17. ASSUME fetchLatestGcsObject PROVE Versions'
    <2>1. CASE ReturnError
      BY <1>17, <2>1, <1>a, VersionsMoved DEF fetchLatestGcsObject, ReturnError
    <2>2. CASE op' = [op EXCEPT !.pc = "upload", !.latest = obj] /\ ~Clobbered
      <3>1. op'.pc = "upload" /\ op'.kind = op.kind /\ op'.latest = obj
        BY <2>2 DEF TypeOK, Call
      <3>2. IF obj = None THEN local ELSE SameVersion(obj) /\ obj.data = src.data
        BY <2>2, SMTT(30) DEF Clobbered, SameVersion, Versions
      <3> QED
        BY <1>17, <3>1, <3>2 DEF fetchLatestGcsObject, Versions, SameVersion
    <2> QED
      BY <1>17, <2>1, <2>2 DEF fetchLatestGcsObject
  <1>18. ASSUME SyncObject PROVE Versions'
    <2>1. bwh = None /\ content \in TempFile /\ op.kind # "Create" /\ op.pc = "upload"
      BY <1>18, <1>b, SyncObjectCases, Zenon DEF Control
    <2>2. Complete(content).data \in Seq(Nat)
      BY <2>1, CompleteType, Zenon DEF TempFile
    <2>3. CASE SyncStays
      BY <2>1, <2>3, <1>a, VersionsMoved, Zenon DEF SyncStays, Return, ReturnError
    <2>4. CASE SyncComposes
      <3>1. op'.pc = "compose" /\ op'.kind = op.kind /\ op'.latest = op.latest
        BY <2>4, GotoIsCall DEF SyncComposes
      <3>2. UNCHANGED <<obj, lastGen, src, local, bwh>> /\ op.latest # None
        BY <2>4 DEF SyncComposes
      <3> QED
        BY <2>1, <3>1, <3>2, Zenon DEF Versions, SameVersion
    <2>5. ASSUME NEW a, SyncCreates(a) PROVE Versions'
      <3>1. op'.pc \notin {"upload", "compose", "flush"} /\ op'.kind # "Create"
        BY <2>5, <1>a DEF SyncCreates, ReturnPublished, ReturnError
      <3>2. /\ Publish(a, Complete(content).data)
            /\ IF a = "ok" THEN updateInodeStateAfterFlush(obj')
               ELSE UNCHANGED <<src, local, bwh>>
        BY <2>5 DEF SyncCreates
      <3>3. CASE a # "error"
        BY <2>1, <2>2, <3>1, <3>2, <3>3, VersionsPublished, Zenon
      <3>4. CASE a = "error"
        BY <2>1, <3>1, <3>2, <3>4, VersionsMoved DEF Publish
      <3> QED
        BY <3>3, <3>4
    <2> QED
      BY <1>18, <2>3, <2>4, <2>5, SyncObjectCases, Zenon
  <1>19. ASSUME ComposeObjects PROVE Versions'
    <2> DEFINE new == obj.data \o SubSeq(content.data, Len(op.latest.data) + 1,
                                         Len(content.data))
    <2>1. bwh = None /\ content \in TempFile /\ op.latest # None
      BY <1>19, <1>b DEF ComposeObjects, Control
    <2>2. PICK a \in Answers(op.latest) :
             /\ Publish(a, new)
             /\ \/ a = "ok" /\ updateInodeStateAfterFlush(obj') /\ ReturnPublished
                \/ ReturnError /\ UNCHANGED <<src, local, content, bwh>>
      BY <1>19 DEF ComposeObjects
    <2>3. op'.pc \notin {"upload", "compose", "flush"} /\ op'.kind # "Create"
      BY <2>2, <1>a, Zenon DEF ReturnPublished, ReturnError
    <2>4. a # "error" => new \in Seq(Nat)
      BY <1>19, <2>1, <2>2, ComposedType DEF ComposeObjects
    <2> HIDE DEF new
    <2>5. CASE a # "error"
      BY <2>1, <2>2, <2>3, <2>4, <2>5, VersionsPublished, SMTT(30), Zenon
    <2>6. CASE a = "error"
      BY <2>1, <2>2, <2>3, <2>6, VersionsMoved DEF Publish
    <2> QED
      BY <2>5, <2>6, SMTT(30), Zenon
  <1>20. ASSUME UpdateMtime PROVE Versions'
    <2>1. op' = Idle
      BY <1>20 DEF UpdateMtime, Return, ReturnError
    <2>2. CASE UNCHANGED <<obj, src>>
      BY <1>20, <2>1, <2>2, <1>a, VersionsMoved DEF UpdateMtime
    <2>3. CASE /\ bwh = None /\ ~local /\ obj # None /\ obj.gen = src.gen
               /\ obj' = [obj EXCEPT !.meta = @ + 1] /\ src' = obj'
      <3>1. obj' # None /\ obj'.gen = obj.gen /\ obj'.data = obj.data
        BY <2>3, TouchedType, NoneAssumption DEF TypeOK
      <3> QED
        BY <1>20, <2>1, <2>3, <3>1, <1>a DEF UpdateMtime, Versions, SameVersion
    <2> QED
      BY <1>20, <2>2, <2>3 DEF UpdateMtime
  <1>21. ASSUME Unlink PROVE Versions'
    <2>1. bwh' # None => bwh # None /\ bwh'.pre = bwh.pre
      BY <1>21, <1>b, SMTT(30), Zenon DEF Unlink, Handler
    <2> QED
      BY <1>21, <2>1, <1>a, VersionsMoved DEF Unlink
  <1>22. ASSUME DeleteObject PROVE Versions'
    BY <1>22, <1>b DEF DeleteObject, Versions, SameVersion
  <1>23. ASSUME Destroy PROVE Versions'
    BY <1>23, <1>a, VersionsMoved DEF Destroy
  <1>24. ASSUME UploadFails PROVE Versions'
    <2>1. bwh # None /\ bwh'.pre = bwh.pre
      BY <1>24, <1>b DEF UploadFails, Handler
    <2> QED
      BY <1>24, <2>1, <1>b, VersionsKept DEF UploadFails, Versions
  <1>25. ASSUME OtherClients PROVE Versions'
    <2>1. CASE \E d \in Contents :
                 /\ obj' = [gen |-> lastGen + 1, meta |-> 1, data |-> d]
                 /\ lastGen' = lastGen + 1
      BY <1>25, <2>1, <1>b, VersionsKept DEF OtherClients
    <2>2. CASE obj' = None /\ UNCHANGED lastGen
      BY <1>25, <2>2, <1>b, VersionsKept DEF OtherClients
    <2>3. CASE obj # None /\ obj' = [obj EXCEPT !.meta = @ + 1] /\ UNCHANGED lastGen
      <3>1. obj'.gen = obj.gen /\ obj'.data = obj.data
        BY <2>3, TouchedType, SMTT(30), Zenon DEF TypeOK
      <3> QED
        BY <1>25, <2>3, <3>1, <1>b, VersionsKept DEF OtherClients, Versions
    <2> QED
      BY <1>25, <2>1, <2>2, <2>3 DEF OtherClients
  <1>26. CASE UNCHANGED vars
    BY <1>26 DEF vars, Versions, SameVersion
  <1> QED
    BY <1>1, <1>2, <1>3, <1>4, <1>5, <1>6, <1>7, <1>8, <1>9, <1>10, <1>11,
       <1>12, <1>13, <1>14, <1>15, <1>16, <1>17, <1>18, <1>19, <1>20, <1>21,
       <1>22, <1>23, <1>24, <1>25, <1>26 DEF Next

-----------------------------------------------------------------------------
(* The temp file stays over its source *)

\* Loading the source leaves the temp file over it.
LEMMA CompleteFaithful ==
  ASSUME NEW tf \in TempFile, NEW s \in Seq(Nat), Faithful(tf, s)
  PROVE  Faithful(Complete(tf), s)
  <1>1. CASE tf.state # "incomplete"
    BY <1>1, CompleteType, Zenon
  <1>2. CASE tf.state = "incomplete"
    <2>1. tf.data = s /\ Len(s) \in Nat
      BY <1>2, LenProperties DEF Faithful
    <2> QED
      BY <1>2, <2>1, CompleteType DEF Faithful
  <1> QED
    BY <1>1, <1>2

\* An mtime on the temp file leaves it over its source.
LEMMA MtimeFaithful ==
  ASSUME NEW tf \in TempFile, NEW s \in Seq(Nat), Faithful(tf, s)
  PROVE  Faithful([tf EXCEPT !.mtime = "set"], s)
  BY SMTT(30), Zenon DEF Faithful, TempFile

\* A write or a truncation at op.off changes no byte below it.
LEMMA ChangedBelow ==
  ASSUME TypeOK, NEW s \in Seq(Nat), NEW t \in Nat, t <= op.off, t <= Len(s)
  PROVE  /\ t <= Len(Changed(s))
         /\ \A i \in 1..t : Changed(s)[i] = s[i]
  <1>1. op.off \in Nat /\ op.byte \in Nat /\ Len(s) \in Nat
    BY LenProperties DEF TypeOK, Call
  <1>2. CASE op.kind = "Write"
    <2> DEFINE w == WriteByte(s, op.off, op.byte)
               m == LargerOf(Len(s), op.off + 1)
    <2>1. \A off \in Nat, b \in Nat :
             /\ Len(WriteByte(s, off, b)) = LargerOf(Len(s), off + 1)
             /\ \A i \in 1..LargerOf(Len(s), off + 1) :
                   WriteByte(s, off, b)[i] =
                      IF i = off + 1 THEN b ELSE IF i <= Len(s) THEN s[i] ELSE 0
      BY WriteByteProperties, ZenonT(60)
    <2> HIDE DEF w, m
    <2>2. /\ Len(w) = m
          /\ \A i \in 1..m : w[i] = IF i = op.off + 1 THEN op.byte
                                    ELSE IF i <= Len(s) THEN s[i] ELSE 0
      BY <1>1, <2>1, ZenonT(60) DEF w, m
    <2>3. m \in Nat /\ t <= m
      BY <1>1 DEF LargerOf, m
    <2>4. \A i \in 1..t : i \in 1..m /\ i # op.off + 1 /\ i <= Len(s)
      BY <1>1, <2>3
    <2>5. Changed(s) = w
      BY <1>2 DEF Changed, w
    <2> QED
      BY <2>2, <2>3, <2>4, <2>5
  <1>3. CASE op.kind # "Write"
    <2> DEFINE w == Resize(s, op.off)
    <2>1. \A n \in Nat :
             /\ Len(Resize(s, n)) = n
             /\ \A i \in 1..n : Resize(s, n)[i] = IF i <= Len(s) THEN s[i] ELSE 0
      BY ResizeProperties, ZenonT(60)
    <2>2. /\ Len(w) = op.off
          /\ \A i \in 1..op.off : w[i] = IF i <= Len(s) THEN s[i] ELSE 0
      BY <1>1, <2>1, Zenon
    <2> HIDE DEF w
    <2>3. \A i \in 1..t : i \in 1..op.off /\ i <= Len(s)
      BY <1>1
    <2>4. Changed(s) = w
      BY <1>3, SMTT(30) DEF Changed, w
    <2> QED
      BY <2>2, <2>3, <2>4
  <1> QED
    BY <1>2, <1>3

\* A write or truncation leaves the temp file over its source, the dirty
\* threshold being lowered far enough.
LEMMA DirtiedFaithful ==
  ASSUME TypeOK, NEW tf \in TempFile, NEW s \in Seq(Nat), Faithful(tf, s)
  PROVE  Faithful(Dirtied(tf), s)
  <1> DEFINE c == Complete(tf)
             d == Dirtied(tf)
             t == SmallerOf(c.dirtyThreshold, op.off)
  <1>1. c \in TempFile /\ c.state # "incomplete" /\ c.data = tf.data /\ Faithful(c, s)
    BY CompleteType, CompleteFaithful, Zenon
  <1>2. /\ d \in TempFile /\ d.state = "dirty" /\ d.mtime = "set"
        /\ d.data = Changed(c.data) /\ d.dirtyThreshold = t
    BY <1>1, DirtiedType, Zenon
  <1>3. /\ op.off \in Nat /\ op.byte \in Nat /\ c.dirtyThreshold \in Nat
        /\ c.data \in Seq(Nat) /\ Len(c.data) \in Nat /\ Len(s) \in Nat
    BY <1>1, LenProperties, SMTT(30), Zenon DEF TypeOK, Call, TempFile
  <1>4. /\ c.dirtyThreshold <= Len(c.data) /\ c.dirtyThreshold <= Len(s)
        /\ \A i \in 1..c.dirtyThreshold : c.data[i] = s[i]
    BY <1>1 DEF Faithful
  <1>5. t \in Nat /\ t <= op.off /\ t <= c.dirtyThreshold
    BY <1>3 DEF SmallerOf
  <1> HIDE DEF c, d, t
  <1>6. /\ t <= Len(Changed(c.data))
        /\ \A i \in 1..t : Changed(c.data)[i] = c.data[i]
    <2>1. t <= Len(c.data)
      BY <1>3, <1>4, <1>5
    <2> QED
      BY <1>3, <1>5, <2>1, ChangedBelow, Zenon
  <1>7. \A i \in 1..t : Changed(c.data)[i] = s[i]
    BY <1>3, <1>4, <1>5, <1>6
  <1>8. t <= Len(s)
    BY <1>3, <1>4, <1>5
  <1> QED
    BY <1>2, <1>6, <1>7, <1>8, Zenon DEF Faithful, d

\* The temp file and the content of the source are as they were, or the temp
\* file is gone.
LEMMA StagedKept ==
  ASSUME Staged, (content' = content /\ src'.data = src.data) \/ content' = None,
         op'.pc # "compose"
  PROVE  Staged'
  BY Zenon DEF Staged

\* Every step keeps the temp file over the source of the inode.
LEMMA NextStaged ==
  TypeOK /\ Control /\ Versions /\ Staged /\ [Next]_vars => Staged'
  <1> SUFFICES ASSUME TypeOK, Control, Versions, Staged, [Next]_vars PROVE Staged'
    BY Zenon
  <1> USE DEF gcsVars, auxVars
  <1>a. Idle.pc = "idle"
    BY Zenon DEF Idle
  <1>b. /\ content # None => content \in TempFile
        /\ src \in Object /\ src.data \in Seq(Nat)
    BY DEF TypeOK, Object
  <1>c. content # None => /\ Complete(content) \in TempFile
                          /\ Faithful(Complete(content), src.data)
    BY <1>b, CompleteType, CompleteFaithful, Zenon DEF Staged
  <1>d. ASSUME NEW kind, NEW off, NEW byte,
               NEW pc \in {"init", "flush", "read", "setmtime"},
               Begin(kind, off, byte, pc)
        PROVE  Staged'
    BY <1>d, StagedKept DEF Begin
  <1>1. ASSUME NEW h \in Handles, NEW off \in 0..MaxSize, NEW b \in Bytes,
               WriteFile(h, off, b)
        PROVE  Staged'
    BY <1>1, <1>d DEF WriteFile
  <1>2. ASSUME NEW h \in Handles, FlushFile(h) PROVE Staged'
    BY <1>2, <1>d DEF FlushFile
  <1>3. ASSUME NEW h \in Handles, OpenFile(h) PROVE Staged'
    BY <1>3, <1>a, StagedKept DEF OpenFile
  <1>4. ASSUME NEW h \in Handles, ReleaseFileHandle(h) PROVE Staged'
    BY <1>4, <1>a, StagedKept DEF ReleaseFileHandle
  <1>5. ASSUME NEW size \in 0..MaxSize, NEW through, TruncateFile(size, through)
        PROVE  Staged'
    BY <1>5, <1>d DEF TruncateFile
  <1>6. ASSUME SyncFile PROVE Staged'
    BY <1>6, <1>d DEF SyncFile
  <1>7. ASSUME ReadFile PROVE Staged'
    BY <1>7, <1>d DEF ReadFile
  <1>8. ASSUME SetMtime PROVE Staged'
    BY <1>8, <1>d, Zenon DEF SetMtime
  <1>9. ASSUME InitBufferedWriteHandlerIfEligible PROVE Staged'
    <2>1. op'.pc # "compose"
      BY <1>9, <1>a, GotoIsCall
         DEF InitBufferedWriteHandlerIfEligible, AfterInit, ReturnError
    <2> QED
      BY <1>9, <2>1, StagedKept, Zenon DEF InitBufferedWriteHandlerIfEligible
  <1>10. ASSUME CreateEmptyTempFile PROVE Staged'
    <2>1. src.data = <<>>
      BY <1>10 DEF CreateEmptyTempFile, Control, Versions, NoObject
    <2>2. Faithful([NewTempFile(<<>>) EXCEPT !.mtime = "set"], src.data)
      BY <2>1 DEF Faithful, NewTempFile
    <2> QED
      BY <1>10, <2>2, <1>a DEF CreateEmptyTempFile, Return, Staged
  <1>11. ASSUME UsingBufferedWrites PROVE Staged'
    <2>1. op'.pc # "compose"
      BY <1>11, <1>a, GotoIsCall, Zenon DEF UsingBufferedWrites, ReturnError, ReturnChanged
    <2> QED
      BY <1>11, <2>1, StagedKept DEF UsingBufferedWrites
  <1>12. ASSUME ensureContent PROVE Staged'
    <2>1. op'.pc # "compose"
      BY <1>12, <1>a, GotoIsCall, Zenon DEF ensureContent, ReturnError
    <2>2. CASE UNCHANGED content
      BY <1>12, <2>1, <2>2, StagedKept, Zenon DEF ensureContent
    <2>3. CASE obj # None /\ obj.gen = src.gen /\ content' = NewTempFile(obj.data)
      <3>1. Faithful(content', src.data)
        BY <2>3, Zenon DEF Versions, Faithful, NewTempFile
      <3> QED
        BY <1>12, <2>1, <3>1, SMTT(30), Zenon DEF ensureContent, Staged
    <2> QED
      BY <1>12, <2>2, <2>3, Zenon DEF ensureContent
  <1>13. ASSUME UsingTempFile PROVE Staged'
    <2>1. op'.pc # "compose"
      BY <1>13, <1>a, SMTT(30), Zenon DEF UsingTempFile, Return, ReturnError, ReturnChanged
    <2>2. content # None /\ Faithful(Dirtied(content), src.data)
      BY <1>13, <1>b, DirtiedFaithful DEF UsingTempFile, Control, Staged
    <2> QED
      BY <1>13, <2>1, <2>2, <1>c, Zenon DEF UsingTempFile, Staged
  <1>14. ASSUME ReadInode PROVE Staged'
    BY <1>14, <1>a, StagedKept, GotoIsCall, ZenonT(60) DEF ReadInode, Return, ReturnError
  <1>15. ASSUME flushFile PROVE Staged'
    <2>1. op'.pc # "compose"
      BY <1>15, <1>a, GotoIsCall DEF flushFile, Return, ReturnError
    <2> QED
      BY <1>15, <2>1, StagedKept, SMTT(30), Zenon DEF flushFile
  <1>16. ASSUME flushUsingBufferedWriteHandler PROVE Staged'
    <2>1. op'.pc # "compose"
      BY <1>16, <1>a, GotoIsCall
         DEF flushUsingBufferedWriteHandler, ReturnError, ReturnPublished
    <2> QED
      BY <1>16, <2>1, StagedKept
         DEF flushUsingBufferedWriteHandler, updateInodeStateAfterFlush
  <1>17. ASSUME fetchLatestGcsObject PROVE Staged'
    <2>1. op'.pc # "compose"
      BY <1>17, <1>a, ZenonT(60) DEF fetchLatestGcsObject, ReturnError, TypeOK, Call
    <2> QED
      BY <1>17, <2>1, StagedKept DEF fetchLatestGcsObject
  <1>18. ASSUME SyncObject PROVE Staged'
    <2>1. content # None
      BY <1>18, SyncObjectCases DEF Control
    <2>2. CASE SyncStays
      <3>1. op'.pc # "compose" /\ src' = src
        BY <2>2, <1>a DEF SyncStays, Return, ReturnError
      <3>2. CASE content' = content
        BY <3>1, <3>2, StagedKept
      <3>3. CASE content' = Complete(content)
        BY <2>1, <3>1, <3>3, <1>c, Zenon DEF Staged
      <3> QED
        BY <2>2, <3>2, <3>3 DEF SyncStays
    <2>3. CASE SyncComposes
      <3>1. op'.latest = op.latest
        BY <2>3, GotoIsCall, Zenon DEF SyncComposes
      <3>2. content'.state # "incomplete" /\ src' = src
        BY <2>1, <2>3, <1>b, CompleteType DEF SyncComposes
      <3> QED
        BY <2>1, <2>3, <3>1, <3>2, <1>c, Zenon DEF SyncComposes, Staged, MayCompose
    <2>4. ASSUME NEW a, SyncCreates(a) PROVE Staged'
      <3>1. op'.pc # "compose"
        BY <2>4, <1>a DEF SyncCreates, ReturnError, ReturnPublished
      <3>2. CASE a = "ok"
        BY <2>4, <3>1, <3>2, StagedKept DEF SyncCreates, updateInodeStateAfterFlush
      <3>3. CASE a # "ok"
        <4>1. content' = Complete(content) /\ src' = src
          BY <2>4, <3>3 DEF SyncCreates
        <4> QED
          BY <2>1, <3>1, <4>1, <1>c DEF Staged
      <3> QED
        BY <3>2, <3>3
    <2> QED
      BY <1>18, <2>2, <2>3, <2>4, SyncObjectCases, Zenon
  <1>19. ASSUME ComposeObjects PROVE Staged'
    BY <1>19, <1>a, StagedKept, Zenon
       DEF ComposeObjects, updateInodeStateAfterFlush, ReturnError, ReturnPublished
  <1>20. ASSUME UpdateMtime PROVE Staged'
    <2>1. op'.pc # "compose"
      BY <1>20, <1>a DEF UpdateMtime, Return, ReturnError
    <2>2. src'.data = src.data
      <3>1. obj # None /\ obj.gen = src.gen => [obj EXCEPT !.meta = @ + 1].data = src.data
        BY TouchedType DEF TypeOK, Versions
      <3> QED
        BY <1>20, <3>1, ZenonT(60) DEF UpdateMtime
    <2>3. content' # None => Faithful(content', src.data)
      <3>1. content # None => Faithful([Complete(content) EXCEPT !.mtime = "set"], src.data)
        BY <1>b, <1>c, MtimeFaithful
      <3> QED
        BY <1>20, <3>1, <1>c DEF UpdateMtime, Staged
    <2> QED
      BY <2>1, <2>2, <2>3 DEF Staged
  <1>21. ASSUME Unlink PROVE Staged'
    BY <1>21, <1>a, StagedKept DEF Unlink
  <1>22. ASSUME DeleteObject PROVE Staged'
    BY <1>22 DEF DeleteObject, Staged
  <1>23. ASSUME Destroy PROVE Staged'
    BY <1>23, <1>a, StagedKept DEF Destroy
  <1>24. ASSUME UploadFails PROVE Staged'
    BY <1>24 DEF UploadFails, Staged
  <1>25. ASSUME OtherClients PROVE Staged'
    BY <1>25, Zenon DEF OtherClients, Staged
  <1>26. CASE UNCHANGED vars
    BY <1>26 DEF vars, Staged
  <1> QED
    BY <1>1, <1>2, <1>3, <1>4, <1>5, <1>6, <1>7, <1>8, <1>9, <1>10, <1>11,
       <1>12, <1>13, <1>14, <1>15, <1>16, <1>17, <1>18, <1>19, <1>20, <1>21,
       <1>22, <1>23, <1>24, <1>25, <1>26 DEF Next

-----------------------------------------------------------------------------
(* The inode serves what the acknowledged calls made of the file *)

\* A new handler and an empty source have the same content.
LEMMA EmptyPad == Pad(<<>>, -1) = <<>>
  <1>1. <<>> \in Seq(Nat) /\ Len(<<>>) = 0
    BY EmptySeq
  <1>2. \A s \in Seq(Nat), n \in Int :
           Pad(s, n) \in Seq(Nat) /\ Len(Pad(s, n)) = LargerOf(Len(s), n)
    BY PadProperties
  <1>3. -1 \in Int /\ LargerOf(0, -1) = 0
    BY DEF LargerOf
  <1>4. Pad(<<>>, -1) \in Seq(Nat) /\ Len(Pad(<<>>, -1)) = 0
    BY <1>1, <1>2, <1>3, ZenonT(60)
  <1> QED
    BY <1>4, EmptySeq

\* A write or a truncation that the handler takes in order.
LEMMA HandlerChanged ==
  ASSUME TypeOK, NEW d \in Seq(Nat), NEW t \in Int,
         IF op.kind = "Write" THEN op.off = Len(d) \/ (op.off = t /\ op.off >= Len(d))
         ELSE op.off >= Len(d)
  PROVE  Changed(Pad(d, t)) = IF op.kind = "Write"
                              THEN Pad(Append(Pad(d, op.off), op.byte), t)
                              ELSE Pad(d, op.off)
  <1>1. op.off \in Nat /\ op.byte \in Nat
    BY Zenon DEF TypeOK, Call
  <1>2. CASE op.kind = "Write"
    <2>1. \A off \in Nat, b \in Nat :
             off = Len(d) \/ (off = t /\ off >= Len(d)) =>
                Pad(Append(Pad(d, off), b), t) = WriteByte(Pad(d, t), off, b)
      BY HandlerWrite, Zenon
    <2> QED
      BY <1>1, <1>2, <2>1 DEF Changed
  <1>3. CASE op.kind # "Write"
    <2>1. \A n \in Nat : n >= Len(d) => Pad(d, n) = Resize(Pad(d, t), n)
      BY HandlerTruncate, Zenon
    <2> QED
      BY <1>1, <1>3, <2>1 DEF Changed
  <1> QED
    BY <1>2, <1>3, Zenon

\* A step that leaves the representations and the view alone.
LEMMA ViewKept ==
  ASSUME CurrentIsView, bwh' = bwh, content' = content, src'.data = src.data,
         view' = view
  PROVE  CurrentIsView'
  BY Zenon DEF CurrentIsView, Current

\* A step that changes the state of the upload only.
LEMMA ViewOfHandler ==
  ASSUME CurrentIsView, bwh # None, bwh' # None, bwh'.data = bwh.data,
         bwh'.truncated = bwh.truncated, view' = view
  PROVE  CurrentIsView'
  BY DEF CurrentIsView, Current

\* The state of the upload is no part of the content of the handler.
LEMMA HandlerState ==
  ASSUME NEW w \in Handler, NEW s \in {"ok", "failed", "cancelled"}
  PROVE  /\ [w EXCEPT !.state = s] # None
         /\ [w EXCEPT !.state = s].data = w.data
         /\ [w EXCEPT !.state = s].truncated = w.truncated
  <1>1. [w EXCEPT !.state = s] \in Handler
    BY Zenon DEF Handler
  <1> QED
    BY <1>1, NoneAssumption, ZenonT(60) DEF Handler

\* After updateInodeStateAfterFlush the inode serves the object just written.
LEMMA ViewOfFlushed ==
  ASSUME NEW o, updateInodeStateAfterFlush(o), o.data = view, view' = view
  PROVE  CurrentIsView'
  BY DEF updateInodeStateAfterFlush, CurrentIsView, Current

\* What composeObjectCreator.Create publishes: if the precondition holds, the
\* object still is the source, and composing it with the tail of the temp file
\* gives the temp file.
LEMMA ComposesView ==
  ASSUME TypeOK, Control, Versions, Staged, CurrentIsView, op.pc = "compose",
         Holds(op.latest)
  PROVE  obj.data \o SubSeq(content.data, Len(op.latest.data) + 1, Len(content.data)) = view
  <1>1. op.latest # None /\ content # None /\ bwh = None /\ view = content.data
    BY Zenon DEF Control, CurrentIsView, Current
  <1>2. obj # None /\ obj.gen = src.gen /\ obj.data = src.data /\ op.latest.data = src.data
    BY <1>1, Zenon DEF Holds, Versions, SameVersion
  <1>3. content.data \in Seq(Nat) /\ src.data \in Seq(Nat)
    BY <1>1, Zenon DEF TypeOK, TempFile, Object
  <1>4. /\ content.dirtyThreshold = Len(src.data)
        /\ content.dirtyThreshold <= Len(content.data)
        /\ \A i \in 1..content.dirtyThreshold : content.data[i] = src.data[i]
    BY <1>1, <1>2 DEF Staged, Faithful
  <1>5. /\ Len(src.data) <= Len(content.data)
        /\ \A i \in 1..Len(src.data) : content.data[i] = src.data[i]
    BY <1>4, ZenonT(60)
  <1>6. src.data \o SubSeq(content.data, Len(src.data) + 1, Len(content.data)) = content.data
    BY <1>3, <1>5, ComposeIsContent, ZenonT(60)
  <1> QED
    BY <1>1, <1>2, <1>6, ZenonT(60)

\* Every step keeps the content the inode serves equal to the view.
LEMMA NextView ==
  TypeOK /\ Control /\ Versions /\ Staged /\ CurrentIsView /\ [Next]_vars => CurrentIsView'
  <1> SUFFICES ASSUME TypeOK, Control, Versions, Staged, CurrentIsView, [Next]_vars
               PROVE  CurrentIsView'
    BY Zenon
  <1> USE DEF gcsVars, auxVars
  <1>b. /\ content # None => content \in TempFile /\ content.data \in Seq(Nat)
        /\ src.data \in Seq(Nat) /\ view \in Seq(Nat)
        /\ bwh # None => /\ bwh \in Handler /\ bwh.data \in Seq(Nat)
                         /\ bwh.truncated \in Int
                         /\ bwh.state \in {"ok", "failed", "cancelled"}
    BY Zenon DEF TypeOK, Object, TempFile, Handler
  <1>d. ASSUME NEW kind, NEW off, NEW byte, NEW pc, Begin(kind, off, byte, pc)
        PROVE  CurrentIsView'
    BY <1>d, ViewKept DEF Begin
  <1>1. ASSUME NEW h \in Handles, NEW off \in 0..MaxSize, NEW b \in Bytes,
               WriteFile(h, off, b)
        PROVE  CurrentIsView'
    BY <1>1, <1>d DEF WriteFile
  <1>2. ASSUME NEW h \in Handles, FlushFile(h) PROVE CurrentIsView'
    BY <1>2, <1>d, Zenon DEF FlushFile
  <1>3. ASSUME NEW h \in Handles, OpenFile(h) PROVE CurrentIsView'
    BY <1>3, ViewKept, SMTT(30), Zenon DEF OpenFile
  <1>4. ASSUME NEW h \in Handles, ReleaseFileHandle(h) PROVE CurrentIsView'
    BY <1>4, SMTT(30) DEF ReleaseFileHandle, DeRegisterFileHandle, WithoutHandler,
                CurrentIsView, Current
  <1>5. ASSUME NEW size \in 0..MaxSize, NEW through, TruncateFile(size, through)
        PROVE  CurrentIsView'
    BY <1>5, <1>d DEF TruncateFile
  <1>6. ASSUME SyncFile PROVE CurrentIsView'
    BY <1>6, <1>d DEF SyncFile
  <1>7. ASSUME ReadFile PROVE CurrentIsView'
    BY <1>7, <1>d DEF ReadFile
  <1>8. ASSUME SetMtime PROVE CurrentIsView'
    BY <1>8, <1>d DEF SetMtime
  <1>9. ASSUME InitBufferedWriteHandlerIfEligible PROVE CurrentIsView'
    <2>1. src' = src /\ content' = content /\ view' = view
      BY <1>9 DEF InitBufferedWriteHandlerIfEligible, ReturnError
    <2>2. CASE bwh' = bwh
      BY <2>1, <2>2, ViewKept, Zenon
    <2>3. CASE bwh' # bwh
      <3>1. /\ bwh = None /\ content = None
            /\ local \/ ~Clobbered
            /\ bwh' \in {IF local THEN NewBWHandler(None)
                         ELSE IF Len(obj.data) = 0 THEN NewBWHandler(obj)
                         ELSE None,
                         None}
        BY <1>9, <2>3 DEF InitBufferedWriteHandlerIfEligible
      <3>2. PICK pre \in Object \cup {None} :
               /\ bwh' = NewBWHandler(pre)
               /\ local \/ (~local /\ Len(obj.data) = 0)
        <4>1. CASE local
          BY <2>3, <3>1, <4>1, Zenon
        <4>2. CASE ~local
          BY <2>3, <3>1, <4>2 DEF TypeOK
        <4> QED
          BY <4>1, <4>2
      <3>3. src.data = <<>>
        <4>1. CASE local
          BY <4>1 DEF Versions, NoObject
        <4>2. CASE ~local
          <5>1. obj # None /\ obj.data = src.data
            BY <3>1, <4>2, Zenon DEF Clobbered, Versions
          <5>2. Len(src.data) = 0
            BY <5>1, <3>2, <4>2
          <5> QED
            BY <5>2, <1>b, EmptySeq, Zenon
        <4> QED
          BY <4>1, <4>2, SMTT(30), Zenon
      <3>4. bwh' # None /\ bwh'.data = <<>> /\ bwh'.truncated = -1
        <4>1. \A v \in Object \cup {None} : NewBWHandler(v) # None
          BY NewBWHandlerType, Zenon
        <4>2. \A v : NewBWHandler(v).data = <<>> /\ NewBWHandler(v).truncated = -1
          BY SMTT(30), Zenon DEF NewBWHandler
        <4> HIDE DEF NewBWHandler
        <4> QED
          BY <3>2, <4>1, <4>2
      <3>5. view = <<>>
        BY <3>1, <3>3 DEF CurrentIsView, Current
      <3> QED
        BY <2>1, <3>4, <3>5, EmptyPad, Zenon DEF CurrentIsView, Current
    <2> QED
      BY <2>2, <2>3, Zenon
  <1>10. ASSUME CreateEmptyTempFile PROVE CurrentIsView'
    <2>1. src.data = <<>>
      BY <1>10 DEF CreateEmptyTempFile, Control, Versions, NoObject
    <2>2. UNCHANGED <<src, bwh, view>>
      BY <1>10 DEF CreateEmptyTempFile, Return
    <2>3. CASE bwh # None \/ content # None
      BY <1>10, <2>2, <2>3, ViewKept, Zenon DEF CreateEmptyTempFile
    <2>4. CASE bwh = None /\ content = None
      <3>1. content' # None /\ content'.data = <<>>
        <4>1. content' = [NewTempFile(<<>>) EXCEPT !.mtime = "set"]
          BY <1>10, <2>4 DEF CreateEmptyTempFile
        <4>2. <<>> \in Seq(Nat)
          BY EmptySeq
        <4>3. content' # None
          BY <4>1, <4>2, NewTempFileType, ZenonT(60)
        <4> QED
          BY <4>1, <4>3 DEF NewTempFile
      <3> QED
        BY <2>1, <2>2, <2>4, <3>1 DEF CurrentIsView, Current
    <2> QED
      BY <2>3, <2>4
  <1>11. ASSUME UsingBufferedWrites PROVE CurrentIsView'
    <2>1. bwh # None /\ UNCHANGED <<src, content>>
      BY <1>11 DEF UsingBufferedWrites
    <2>2. CASE bwh' = bwh /\ view' = view
      BY <2>1, <2>2, ViewKept, Zenon
    <2>3. CASE /\ ~RefusesWrite /\ InOrder /\ ReturnChanged
               /\ bwh' = IF op.kind = "Write"
                         THEN [bwh EXCEPT !.data = Append(Pad(@, op.off), op.byte)]
                         ELSE [bwh EXCEPT !.truncated = op.off]
      <3>1. op.off \in Nat /\ op.byte \in Nat /\ Len(bwh.data) \in Nat
        BY <2>1, <1>b, LenProperties DEF TypeOK, Call
      <3>2. IF op.kind = "Write"
            THEN op.off = Len(bwh.data) \/ (op.off = bwh.truncated /\ op.off >= Len(bwh.data))
            ELSE op.off >= Len(bwh.data)
        BY <1>11, <2>1, <2>3, <3>1
           DEF UsingBufferedWrites, InOrder, Control, AtStaleTruncation
      <3>3. Changed(Pad(bwh.data, bwh.truncated))
               = IF op.kind = "Write"
                 THEN Pad(Append(Pad(bwh.data, op.off), op.byte), bwh.truncated)
                 ELSE Pad(bwh.data, op.off)
        BY <2>1, <1>b, <3>2, HandlerChanged, ZenonT(60)
      <3>4. view = Pad(bwh.data, bwh.truncated) /\ view' = Changed(view)
        BY <2>1, <2>3 DEF CurrentIsView, Current, ReturnChanged
      <3>5. bwh' # None
        <4>1. \A d \in Seq(Nat) : [bwh EXCEPT !.data = d] \in Handler
          BY <2>1, <1>b, ZenonT(60) DEF Handler
        <4>2. \A n \in Int : [bwh EXCEPT !.truncated = n] \in Handler
          BY <2>1, <1>b, Zenon DEF Handler
        <4>3. op.kind = "Write" => Append(Pad(bwh.data, op.off), op.byte) \in Seq(Nat)
          BY <2>1, <1>b, <3>1, <3>2, HandlerWrite
        <4>4. CASE op.kind = "Write"
          <5>1. bwh' = [bwh EXCEPT !.data = Append(Pad(bwh.data, op.off), op.byte)]
            BY <2>3, <4>4
          <5> QED
            BY <4>1, <4>3, <4>4, <5>1, NoneAssumption, ZenonT(60)
        <4>5. CASE op.kind # "Write"
          BY <2>3, <3>1, <4>2, <4>5, NoneAssumption
        <4> QED
          BY <4>4, <4>5
      <3>6. Pad(bwh'.data, bwh'.truncated)
               = IF op.kind = "Write"
                 THEN Pad(Append(Pad(bwh.data, op.off), op.byte), bwh.truncated)
                 ELSE Pad(bwh.data, op.off)
        BY <2>1, <2>3, <1>b, Zenon DEF Handler
      <3> QED
        BY <3>3, <3>4, <3>5, <3>6, Zenon DEF CurrentIsView, Current
    <2> QED
      BY <1>11, <2>2, <2>3 DEF UsingBufferedWrites, ReturnError
  <1>12. ASSUME ensureContent PROVE CurrentIsView'
    <2>1. UNCHANGED <<src, bwh, view>> /\ bwh = None
      BY <1>12 DEF ensureContent, ReturnError
    <2>2. CASE content' = content
      BY <2>1, <2>2, ViewKept, Zenon
    <2>3. CASE /\ content = None /\ obj # None /\ obj.gen = src.gen
               /\ content' = NewTempFile(obj.data)
      <3>1. obj.data = src.data
        BY <2>3 DEF Versions
      <3>2. content' # None /\ content'.data = src.data
        BY <2>3, <3>1, <1>b, NewTempFileType, ZenonT(60) DEF NewTempFile
      <3> QED
        BY <2>1, <2>3, <3>2, SMTT(30), Zenon DEF CurrentIsView, Current
    <2> QED
      BY <1>12, <2>2, <2>3, Zenon DEF ensureContent
  <1>13. ASSUME UsingTempFile PROVE CurrentIsView'
    <2>1. UNCHANGED <<src, bwh>> /\ bwh = None /\ content # None
      BY <1>13 DEF UsingTempFile, Control
    <2>2. view = content.data
      BY <2>1 DEF CurrentIsView, Current
    <2>3. CASE content' = content /\ ReturnError
      BY <2>1, <2>3, ViewKept, SMTT(30), Zenon DEF ReturnError
    <2>4. CASE content' = Dirtied(content) /\ ReturnChanged
      <3>1. content' # None /\ content'.data = Changed(content.data)
        BY <2>1, <2>4, <1>b, DirtiedType
      <3>2. view' = Changed(view)
        BY <2>4, Zenon DEF ReturnChanged
      <3> QED
        BY <2>1, <2>2, <3>1, <3>2, Zenon DEF CurrentIsView, Current
    <2>5. CASE content' = Complete(content) /\ Return
      BY <2>1, <2>2, <2>5, <1>b, CompleteType, Zenon DEF Return, CurrentIsView, Current
    <2> QED
      BY <1>13, <2>3, <2>4, <2>5, Zenon DEF UsingTempFile
  <1>14. ASSUME ReadInode PROVE CurrentIsView'
    BY <1>14, ViewKept, Zenon DEF ReadInode, Return, ReturnError
  <1>15. ASSUME flushFile PROVE CurrentIsView'
    BY <1>15, ViewKept DEF flushFile, Return, ReturnError
  <1>16. ASSUME flushUsingBufferedWriteHandler PROVE CurrentIsView'
    <2>1. bwh # None /\ view = Pad(bwh.data, bwh.truncated) /\ view' = view
      BY <1>16 DEF flushUsingBufferedWriteHandler, Control, CurrentIsView, Current,
                   ReturnError, ReturnPublished
    <2>2. PICK a : /\ Publish(a, Pad(bwh.data, bwh.truncated))
                   /\ IF a = "ok" THEN updateInodeStateAfterFlush(obj')
                      ELSE bwh' = [bwh EXCEPT !.state = IF @ = "ok" THEN "failed" ELSE @]
      BY <1>16 DEF flushUsingBufferedWriteHandler
    <2>3. CASE a = "ok"
      <3>1. obj'.data = view
        BY <2>1, <2>2, <2>3, <1>b, PublishType
      <3> QED
        BY <2>1, <2>2, <2>3, <3>1, ViewOfFlushed
    <2>4. CASE a # "ok"
      <3>1. bwh' = [bwh EXCEPT !.state = "failed"] \/ bwh' = [bwh EXCEPT !.state = bwh.state]
        BY <2>1, <2>2, <2>4, <1>b
      <3>2. bwh' # None /\ bwh'.data = bwh.data /\ bwh'.truncated = bwh.truncated
        BY <2>1, <3>1, <1>b, HandlerState, ZenonT(60)
      <3> QED
        BY <2>1, <3>2, ViewOfHandler
    <2> QED
      BY <2>3, <2>4
  <1>17. ASSUME fetchLatestGcsObject PROVE CurrentIsView'
    BY <1>17, ViewKept DEF fetchLatestGcsObject, ReturnError
  <1>18. ASSUME SyncObject PROVE CurrentIsView'
    <2>1. /\ bwh = None /\ content # None /\ view = content.data
          /\ Complete(content) # None /\ Complete(content).data = view
      <3>1. bwh = None /\ content # None
        BY <1>18, SyncObjectCases, Zenon DEF Control
      <3> QED
        BY <3>1, <1>b, CompleteType DEF CurrentIsView, Current
    <2>2. CASE SyncStays \/ SyncComposes
      <3>1. /\ view' = view /\ bwh' = bwh
            /\ content' \in {content, Complete(content)}
        BY <2>2 DEF SyncStays, SyncComposes, Return, ReturnError
      <3> QED
        BY <2>1, <3>1, Zenon DEF CurrentIsView, Current
    <2>3. ASSUME NEW a, SyncCreates(a) PROVE CurrentIsView'
      <3>1. view' = view
        BY <2>3 DEF SyncCreates, ReturnError, ReturnPublished
      <3>2. CASE a = "ok"
        <4>1. obj'.data = view
          BY <2>1, <2>3, <3>2, <1>b, PublishType, Zenon DEF SyncCreates
        <4> QED
          BY <2>3, <3>1, <3>2, <4>1, ViewOfFlushed, Zenon DEF SyncCreates
      <3>3. CASE a # "ok"
        <4>1. content' = Complete(content) /\ bwh' = bwh
          BY <2>3, <3>3 DEF SyncCreates
        <4> QED
          BY <2>1, <3>1, <4>1 DEF CurrentIsView, Current
      <3> QED
        BY <3>2, <3>3
    <2> QED
      BY <1>18, <2>2, <2>3, SyncObjectCases
  <1>19. ASSUME ComposeObjects PROVE CurrentIsView'
    <2>1. view' = view
      BY <1>19 DEF ComposeObjects, ReturnError, ReturnPublished
    <2>2. CASE UNCHANGED <<src, content, bwh>>
      BY <2>1, <2>2, ViewKept
    <2>3. CASE ~UNCHANGED <<src, content, bwh>>
      <3> DEFINE d == obj.data \o SubSeq(content.data, Len(op.latest.data) + 1,
                                         Len(content.data))
      <3>1. "ok" \in Answers(op.latest) /\ Publish("ok", d) /\ updateInodeStateAfterFlush(obj')
        BY <1>19, <2>3 DEF ComposeObjects
      <3>2. d = view
        BY <1>19, <3>1, ComposesView, ZenonT(60) DEF ComposeObjects, Answers
      <3> HIDE DEF d
      <3>3. obj'.data = view
        BY <3>1, <3>2, <1>b, PublishType
      <3> QED
        BY <2>1, <3>1, <3>3, ViewOfFlushed
    <2> QED
      BY <2>2, <2>3
  <1>20. ASSUME UpdateMtime PROVE CurrentIsView'
    <2>1. view' = view /\ bwh' = bwh
      BY <1>20 DEF UpdateMtime, Return, ReturnError
    <2>2. src'.data = src.data
      <3>1. obj # None /\ obj.gen = src.gen => [obj EXCEPT !.meta = @ + 1].data = src.data
        BY TouchedType, Zenon DEF TypeOK, Versions
      <3> QED
        BY <1>20, <3>1, ZenonT(60) DEF UpdateMtime
    <2>3. CASE content = None
      <3>1. content' = content
        BY <1>20, <2>3, Zenon DEF UpdateMtime
      <3> QED
        BY <2>1, <2>2, <3>1, ViewKept
    <2>4. CASE content # None
      <3>1. content' \in {content, Complete(content), [Complete(content) EXCEPT !.mtime = "set"]}
        BY <1>20, <2>4 DEF UpdateMtime
      <3>2. \A tf \in TempFile : /\ [tf EXCEPT !.mtime = "set"] # None
                                 /\ [tf EXCEPT !.mtime = "set"].data = tf.data
        <4>1. \A tf \in TempFile : [tf EXCEPT !.mtime = "set"] \in TempFile
          BY DEF TempFile
        <4>2. \A tf \in TempFile : [tf EXCEPT !.mtime = "set"].data = tf.data
          BY DEF TempFile
        <4> QED
          BY <4>1, <4>2, NoneAssumption
      <3>3. content' # None /\ content'.data = content.data
        BY <2>4, <3>1, <3>2, <1>b, CompleteType, ZenonT(60)
      <3> QED
        BY <2>1, <2>2, <2>4, <3>3 DEF CurrentIsView, Current
    <2> QED
      BY <2>3, <2>4
  <1>21. ASSUME Unlink PROVE CurrentIsView'
    <2>1. CASE bwh' = bwh
      BY <1>21, <2>1, ViewKept DEF Unlink
    <2>2. CASE bwh # None /\ bwh' = [bwh EXCEPT !.state = "cancelled"]
      <3>1. bwh' # None /\ bwh'.data = bwh.data /\ bwh'.truncated = bwh.truncated
        BY <2>2, <1>b, HandlerState
      <3> QED
        BY <1>21, <2>2, <3>1, ViewOfHandler DEF Unlink
    <2> QED
      BY <1>21, <2>1, <2>2 DEF Unlink
  <1>22. ASSUME DeleteObject PROVE CurrentIsView'
    BY <1>22, ViewKept, Zenon DEF DeleteObject
  <1>23. ASSUME Destroy PROVE CurrentIsView'
    BY <1>23 DEF Destroy, CurrentIsView, Current
  <1>24. ASSUME UploadFails PROVE CurrentIsView'
    <2>1. bwh' # None /\ bwh'.data = bwh.data /\ bwh'.truncated = bwh.truncated
      BY <1>24, <1>b, HandlerState DEF UploadFails
    <2> QED
      BY <1>24, <2>1, ViewOfHandler DEF UploadFails
  <1>25. ASSUME OtherClients PROVE CurrentIsView'
    BY <1>25, ViewKept, Zenon DEF OtherClients
  <1>26. CASE UNCHANGED vars
    BY <1>26, ViewKept DEF vars
  <1> QED
    BY <1>1, <1>2, <1>3, <1>4, <1>5, <1>6, <1>7, <1>8, <1>9, <1>10, <1>11,
       <1>12, <1>13, <1>14, <1>15, <1>16, <1>17, <1>18, <1>19, <1>20, <1>21,
       <1>22, <1>23, <1>24, <1>25, <1>26 DEF Next

-----------------------------------------------------------------------------
(* The theorems *)

\* The initial states: a file being created and one found in the bucket.
LEMMA InitIInv == Init => IInv
  <1> SUFFICES ASSUME Init PROVE IInv
    BY Zenon
  <1>a. /\ Idle \in Call /\ Idle.pc = "idle" /\ Idle.kind = "none" /\ Idle.latest = None
    BY IdleIsCall DEF Idle
  <1>b. /\ unlinked = FALSE /\ destroyed = FALSE /\ content = None /\ bwh = None
        /\ delete = "no" /\ calls = 0 /\ remote = 0
        /\ reported = "no" /\ handleless = "no"
        /\ handles \in [Handles -> {"closed", "open", "flushed"}]
    BY DEF Init
  <1>1. CASE /\ obj = None /\ lastGen = 0
             /\ src = NoObject /\ local = TRUE /\ view = <<>>
             /\ op = [Idle EXCEPT !.kind = "Create", !.pc = "init"]
    <2>1. src \in Object /\ src.gen = 0 /\ src.data = <<>> /\ view \in Seq(Nat)
      BY <1>1, EmptySeq DEF NoObject, Object
    <2>2. op \in Call /\ op.pc = "init" /\ op.kind = "Create"
      BY <1>1, ZenonT(60) DEF Idle, Call
    <2>3. TypeOK
      BY <1>1, <1>b, <2>1, <2>2, ZenonT(60) DEF TypeOK
    <2>4. Control
      BY <1>b, <2>2 DEF Control
    <2>5. Versions
      BY <1>1, <1>b, <2>1, <2>2 DEF Versions
    <2>6. Staged /\ CurrentIsView
      BY <1>1, <1>b, <2>1, <2>2 DEF Staged, CurrentIsView, Current
    <2> QED
      BY <2>3, <2>4, <2>5, <2>6 DEF IInv
  <1>2. CASE /\ \E d \in Contents :
                   /\ obj = [gen |-> 1, meta |-> 1, data |-> d]
                   /\ view = d
             /\ lastGen = 1 /\ src = obj /\ local = FALSE
             /\ op = Idle
    <2>1. PICK d \in Contents : /\ obj = [gen |-> 1, meta |-> 1, data |-> d]
                                /\ view = d
      BY <1>2
    <2>2. d \in Seq(Nat)
      BY ContentsAssumption, Zenon
    <2>3. obj \in Object /\ obj # None /\ obj.gen = 1 /\ obj.data = d
      BY <2>1, <2>2, NoneAssumption, SMTT(30) DEF Object
    <2>4. TypeOK
      BY <1>2, <1>a, <1>b, <2>1, <2>2, <2>3, ZenonT(60) DEF TypeOK
    <2>5. Control
      BY <1>2, <1>a, <1>b, SMTT(30), Zenon DEF Control
    <2>6. Versions
      BY <1>2, <1>a, <1>b, <2>3 DEF Versions
    <2>7. Staged /\ CurrentIsView
      BY <1>2, <1>a, <1>b, <2>1, <2>3, ZenonT(60) DEF Staged, CurrentIsView, Current
    <2> QED
      BY <2>4, <2>5, <2>6, <2>7 DEF IInv
  <1> QED
    BY <1>1, <1>2, ZenonT(60) DEF Init

\* The inductive invariant holds in every reachable state of the inode.
THEOREM Invariant == Spec => []IInv
  <1>1. IInv /\ [Next]_vars => IInv'
    BY NextType, NextControl, NextVersions, NextStaged, NextView DEF IInv
  <1> QED
    BY InitIInv, <1>1, PTL DEF Spec

\* The record of the inode, its temp file, its handler and the call in progress
\* keep their types.
THEOREM TypeCorrect == Spec => []TypeOK
  <1>1. IInv => TypeOK
    BY DEF IInv
  <1> QED
    BY Invariant, <1>1, PTL

\* Whatever representation the inode uses, through fallbacks from the handler to
\* the temp file, failed uploads, flushes and remote changes, it serves exactly
\* the content that the acknowledged writes and truncations made.
THEOREM ServesAcknowledged == Spec => []CurrentIsView
  <1>1. IInv => CurrentIsView
    BY DEF IInv
  <1> QED
    BY Invariant, <1>1, PTL

\* The temp file never modifies, unnoticed, a byte below its dirty threshold.
THEOREM DirtyPrefix == Spec => []DirtyPrefixUnmodified
  <1>1. IInv => DirtyPrefixUnmodified
    BY ZenonT(60) DEF IInv, Staged, Faithful, DirtyPrefixUnmodified
  <1> QED
    BY Invariant, <1>1, PTL

\* The only steps that publish are the three requests that write the object;
\* each of them was accepted against the version the inode branched from, and
\* carried the view.
LEMMA PublishingStep ==
  ASSUME IInv, [Next]_vars, Publishing
  PROVE  /\ IF obj = None THEN local ELSE SameVersion(obj)
         /\ obj'.data = view
         /\ unlinked => /\ bwh # None /\ bwh.state = "ok"
                        /\ op.kind \in {"Write", "Truncate"}
  <1> USE DEF gcsVars, auxVars
  <1>a. TypeOK /\ Control /\ Versions /\ Staged /\ CurrentIsView
    BY Zenon DEF IInv
  <1>b. ASSUME NEW pre, pre = None => local, pre # None => SameVersion(pre), Holds(pre)
        PROVE  IF obj = None THEN local ELSE SameVersion(obj)
    BY <1>b, Zenon DEF Holds, SameVersion
  <1>1. flushUsingBufferedWriteHandler \/ SyncObject \/ ComposeObjects
    <2>1. ASSUME NEW kind, NEW off, NEW byte, NEW pc, Begin(kind, off, byte, pc)
          PROVE  FALSE
      BY <2>1 DEF Begin, Publishing
    <2>2. OtherClients => FALSE
      BY <1>a DEF OtherClients, Publishing, TypeOK
    <2>3. /\ \A h \in Handles, off \in 0..MaxSize, b \in Bytes : ~WriteFile(h, off, b)
          /\ \A h \in Handles : ~FlushFile(h)
          /\ \A size \in 0..MaxSize : \A through : ~TruncateFile(size, through)
          /\ ~SyncFile /\ ~ReadFile /\ ~SetMtime
      BY <2>1, Zenon DEF WriteFile, FlushFile, TruncateFile, SyncFile, ReadFile, SetMtime
    <2>4. \A h \in Handles : OpenFile(h) \/ ReleaseFileHandle(h) => FALSE
      BY Zenon DEF OpenFile, ReleaseFileHandle, Publishing
    <2>5. InitBufferedWriteHandlerIfEligible \/ CreateEmptyTempFile
          \/ UsingBufferedWrites \/ ensureContent \/ UsingTempFile \/ ReadInode
          \/ flushFile \/ fetchLatestGcsObject => FALSE
      BY DEF InitBufferedWriteHandlerIfEligible, CreateEmptyTempFile,
             UsingBufferedWrites, ensureContent, UsingTempFile, ReadInode,
             flushFile, fetchLatestGcsObject, Publishing
    <2>6. UpdateMtime \/ Unlink \/ DeleteObject \/ Destroy \/ UploadFails => FALSE
      BY DEF UpdateMtime, Unlink, DeleteObject, Destroy, UploadFails, Publishing
    <2>7. UNCHANGED vars => FALSE
      BY DEF vars, Publishing
    <2> QED
      BY <2>2, <2>3, <2>4, <2>5, <2>6, <2>7, SMTT(30), Zenon DEF Next
  <1>2. CASE flushUsingBufferedWriteHandler
    <2>1. /\ op.pc = "finalize" /\ bwh # None
          /\ view = Pad(bwh.data, bwh.truncated) /\ view \in Seq(Nat)
      BY <1>2, <1>a
         DEF flushUsingBufferedWriteHandler, Control, CurrentIsView, Current, TypeOK
    <2>2. PICK a \in IF bwh.state = "ok" THEN Answers(bwh.pre) ELSE {"error"} :
             Publish(a, view)
      BY <1>2, <2>1, SMTT(30), Zenon DEF flushUsingBufferedWriteHandler
    <2>3. a # "error"
      BY <2>1, <2>2, <1>a, PublishType DEF Publishing
    <2>4. bwh.state = "ok" /\ Holds(bwh.pre)
      BY <2>2, <2>3, Zenon DEF Answers
    <2>5. obj'.data = view
      BY <2>1, <2>2, <2>3, <1>a, PublishType
    <2>6. IF obj = None THEN local ELSE SameVersion(obj)
      <3>1. IF bwh.pre = None THEN local ELSE SameVersion(bwh.pre)
        BY <2>1, <1>a, Zenon DEF Versions
      <3> QED
        BY <2>4, <3>1, <1>b, SMTT(30), Zenon
    <2> QED
      BY <2>1, <2>4, <2>5, <2>6, <1>a, ZenonT(60) DEF Control
  <1>3. CASE SyncObject
    <2>1. /\ op.pc = "upload" /\ ~unlinked /\ bwh = None /\ content # None
          /\ content \in TempFile /\ view = content.data /\ view \in Seq(Nat)
      BY <1>3, <1>a, SyncObjectCases DEF Control, CurrentIsView, Current, TypeOK
    <2>2. Complete(content).data = view
      BY <2>1, CompleteType, SMTT(30), Zenon
    <2>3. PICK a \in Answers(op.latest) : Publish(a, view)
      BY <1>3, <2>2, SyncObjectCases, Zenon DEF SyncStays, SyncComposes, SyncCreates, Publishing
    <2>4. a # "error"
      BY <2>1, <2>3, <1>a, PublishType DEF Publishing
    <2>5. Holds(op.latest)
      BY <2>3, <2>4 DEF Answers
    <2>6. obj'.data = view
      BY <2>1, <2>3, <2>4, <1>a, PublishType
    <2>7. IF obj = None THEN local ELSE SameVersion(obj)
      <3>1. IF op.latest = None THEN local ELSE SameVersion(op.latest)
        BY <2>1, <1>a, Zenon DEF Versions
      <3> QED
        BY <2>5, <3>1, <1>b, Zenon
    <2> QED
      BY <2>1, <2>6, <2>7, Zenon
  <1>4. CASE ComposeObjects
    <2> DEFINE d == obj.data \o SubSeq(content.data, Len(op.latest.data) + 1,
                                       Len(content.data))
    <2>1. /\ op.pc = "compose" /\ ~unlinked /\ op.latest # None /\ view \in Seq(Nat)
          /\ SameVersion(op.latest)
      BY <1>4, <1>a, ZenonT(60) DEF ComposeObjects, Control, TypeOK, Versions
    <2>2. PICK a \in Answers(op.latest) : Publish(a, d)
      BY <1>4, SMTT(30) DEF ComposeObjects
    <2>3. a # "error"
      BY <2>2, ZenonT(60) DEF Publish, Publishing
    <2>4. Holds(op.latest)
      BY <2>2, <2>3 DEF Answers
    <2>5. d = view
      BY <2>1, <2>4, <1>a, ComposesView, ZenonT(60)
    <2> HIDE DEF d
    <2>6. obj'.data = view
      BY <2>1, <2>2, <2>3, <2>5, <1>a, PublishType, ZenonT(60)
    <2>7. IF obj = None THEN local ELSE SameVersion(obj)
      BY <2>1, <2>4, <1>b
    <2> QED
      BY <2>1, <2>6, <2>7
  <1> QED
    BY <1>1, <1>2, <1>3, <1>4

\* No flush, sync or fallback overwrites what another client wrote: a new
\* generation replaces only the version the inode branched from.
THEOREM LosesNoUpdate == Spec => NoLostUpdate
  <1>1. IInv /\ [Next]_vars =>
          [Publishing => IF obj = None THEN local
                         ELSE obj.gen = src.gen /\ obj.meta = src.meta]_vars
    BY PublishingStep, ZenonT(60) DEF SameVersion
  <1> QED
    BY Invariant, <1>1, PTL DEF Spec, NoLostUpdate

\* Every generation published, whether uploaded whole, finalized by the handler
\* or composed from the source and an appended tail, is the view.
THEOREM PublishesView == Spec => PublishedIsView
  <1>1. IInv /\ [Next]_vars => [Publishing => obj'.data = view]_vars
    BY PublishingStep
  <1> QED
    BY Invariant, <1>1, PTL DEF Spec, PublishedIsView

\* After an unlink only a handler whose upload had not begun can still publish.
THEOREM NeverRepublished == Spec => UnlinkedNotPublished
  <1>1. IInv /\ [Next]_vars =>
          [Publishing /\ unlinked =>
             bwh # None /\ bwh.state = "ok" /\ op.kind \in {"Write", "Truncate"}]_vars
    BY PublishingStep
  <1> QED
    BY Invariant, <1>1, PTL DEF Spec, UnlinkedNotPublished

\* Of every file, object and number of calls: what the inode serves and stages is right.
THEOREM KeepsContent == Spec => []ContentInOrder
  BY TypeCorrect, ServesAcknowledged, DirtyPrefix, PTL DEF ContentInOrder

\* Of every file, object and number of calls: what the inode publishes is right.
THEOREM Publishes == Spec => PublishesInOrder
  BY PublishesView, NeverRepublished, PTL DEF PublishesInOrder
=============================================================================
