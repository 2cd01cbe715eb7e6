-------------------------- MODULE FileHandleProofs --------------------------
(***************************************************************************)
(* Proofs about FileHandle for any number of threads, handles, writes and  *)
(* reads.                                                                  *)
(***************************************************************************)
EXTENDS FileHandle, FiniteSetTheorems, TLAPS

Steps == {"idle", "wantR", "relock", "unlocked", "wantW", "wantR2", "read", "count", "mrd", "upgrade",
          "downgrade", "wait"}
Noted == {"unlocked", "wantW"}
Reading == {"read", "count", "mrd", "upgrade", "downgrade", "wait"}

ThreadType == [pc : Steps, src : Nat, force : BOOLEAN, dl : Nat, res : Int,
               since : Nat, opened : Nat, raced : BOOLEAN, early : BOOLEAN]
Manager == [gen : Nat, inUse : BOOLEAN, counted : BOOLEAN]
HandleType == [open : BOOLEAN, readers : SUBSET Threads, waiting : SUBSET Threads,
               mgr : Manager, openGen : Nat]
Downloader == [gen : Nat \ {0}, open : BOOLEAN, dead : BOOLEAN, replaced : BOOLEAN]

TypeOK ==
    /\ kind \in Kinds
    /\ ino \in [gen : Nat \ {0}, dirty : BOOLEAN, mu : {None, "sync"}]
    /\ fh \in [Handles -> HandleType]
    /\ th \in [Threads -> ThreadType]
    /\ w \in [ref : Int, wrapped : Nat, object : Nat \ {0}]
    /\ dls \in Seq(Downloader)
    /\ w.wrapped <= Len(dls)

\* Who is between the locks: a thread on its way reads through an open handle, holds
\* fh.mu for reading where the code does, and has noted a generation before it waits to
\* install it.
Locked(t) ==
    /\ th[t].pc # "idle" => t \in DOMAIN kind.user /\ fh[H(t)].open
    /\ th[t].pc \in Reading \cup {"relock"} => t \in fh[H(t)].readers
    /\ th[t].pc \in Reading \cup {"wantR2"} => Mgr(t).gen # 0
    /\ th[t].pc \in Noted => th[t].src # 0
    /\ th[t].pc \in Reading \ {"read"} => kind.mrd
    /\ th[t].pc = "wait" => th[t].dl \in 1..Len(dls)

\* What a read has to do with the generation of the inode when it began: the inode is
\* never behind it, nor is the source it noted, nor the manager it reads through, nor,
\* without the multi-range downloader, what it returned.
Fresh(t) ==
    /\ th[t].pc # "idle" => th[t].since <= ino.gen
    /\ th[t].pc \in Noted => th[t].since <= th[t].src
    /\ th[t].pc \in Reading \cup {"wantR2"} /\ ~th[t].raced => th[t].since <= Mgr(t).gen
    /\ ~kind.mrd /\ th[t].res > 0 /\ ~th[t].raced => th[t].since <= th[t].res

IInv == TypeOK /\ \A t \in Threads : Locked(t) /\ Fresh(t)

\* Nothing is read and no handle is open at first.
LEMMA InitIInv == Init => IInv
  BY HandleAssumption
     DEF Init, IInv, TypeOK, Locked, Fresh, Thread, NoManager, Manager, Steps, HandleType,
         ThreadType, Reading, Noted, KindOK, Downloader, None

\* A thread that reads has a handle.
LEMMA UserHandle == ASSUME TypeOK, NEW t \in DOMAIN kind.user PROVE kind.user[t] \in Handles
  <1>1. KindOK(kind)
    BY HandleAssumption DEF TypeOK
  <1>2. PICK T \in SUBSET Threads : kind.user \in [T -> Handles]
    BY <1>1 DEF KindOK
  <1> QED
    BY <1>2

\* What the steps do to the record of their thread, and to that of its handle.
LEMMA ThreadTypes ==
  ASSUME TypeOK, NEW t \in Threads, NEW x \in Steps, NEW n \in Nat
  PROVE  /\ [th EXCEPT ![t].pc = x] \in [Threads -> ThreadType]
         /\ [th EXCEPT ![t].pc = x, ![t].src = n] \in [Threads -> ThreadType]
         /\ [th EXCEPT ![t].pc = x, ![t].dl = n] \in [Threads -> ThreadType]
         /\ [th EXCEPT ![t].pc = x, ![t].force = TRUE] \in [Threads -> ThreadType]
         /\ \A e \in BOOLEAN : [th EXCEPT ![t].pc = x, ![t].early = e] \in [Threads -> ThreadType]
  <1>1. th \in [Threads -> ThreadType]
    BY DEF TypeOK
  <1>2. [th EXCEPT ![t].pc = x] \in [Threads -> ThreadType]
    BY ONLY <1>1, t \in Threads, x \in Steps DEF ThreadType
  <1>3. [th EXCEPT ![t].pc = x, ![t].src = n] \in [Threads -> ThreadType]
    BY ONLY <1>1, t \in Threads, x \in Steps, n \in Nat, Zenon DEF ThreadType
  <1>4. [th EXCEPT ![t].pc = x, ![t].dl = n] \in [Threads -> ThreadType]
    BY ONLY <1>1, t \in Threads, x \in Steps, n \in Nat, Zenon DEF ThreadType
  <1>5. [th EXCEPT ![t].pc = x, ![t].force = TRUE] \in [Threads -> ThreadType]
    BY ONLY <1>1, t \in Threads, x \in Steps, Zenon DEF ThreadType
  <1>6. \A e \in BOOLEAN : [th EXCEPT ![t].pc = x, ![t].early = e] \in [Threads -> ThreadType]
    BY ONLY <1>1, t \in Threads, x \in Steps, Zenon DEF ThreadType
  <1> QED
    BY <1>2, <1>3, <1>4, <1>5, <1>6, Zenon

\* What the steps do to the record of a handle: its lock, and the flags of its manager.
LEMMA HandleTypes ==
  ASSUME TypeOK, NEW h \in Handles, NEW S \in SUBSET Threads, NEW R \in SUBSET Threads
  PROVE  /\ [fh EXCEPT ![h].readers = S] \in [Handles -> HandleType]
         /\ [fh EXCEPT ![h].waiting = R] \in [Handles -> HandleType]
         /\ [fh EXCEPT ![h].mgr.inUse = TRUE] \in [Handles -> HandleType]
         /\ [fh EXCEPT ![h].mgr.counted = TRUE] \in [Handles -> HandleType]
  <1>1. fh \in [Handles -> HandleType]
    BY DEF TypeOK
  <1>2. [fh EXCEPT ![h].readers = S] \in [Handles -> HandleType]
    BY ONLY <1>1, h \in Handles, S \in SUBSET Threads DEF HandleType
  <1>3. [fh EXCEPT ![h].waiting = R] \in [Handles -> HandleType]
    BY ONLY <1>1, h \in Handles, R \in SUBSET Threads DEF HandleType
  <1>4. [fh EXCEPT ![h].mgr.inUse = TRUE] \in [Handles -> HandleType]
    BY ONLY <1>1, h \in Handles, Zenon DEF HandleType, Manager
  <1>5. [fh EXCEPT ![h].mgr.counted = TRUE] \in [Handles -> HandleType]
    BY ONLY <1>1, h \in Handles, Zenon DEF HandleType, Manager
  <1> QED
    BY <1>2, <1>3, <1>4, <1>5

\* A step of others leaves a thread what it relies on: its handle stays open, its lock is
\* held, its manager has the same generation, or the step says that it raced, and the
\* inode does not go back.
LEMMA Others ==
  ASSUME TypeOK, TypeOK', NEW u \in Threads, Locked(u), Fresh(u),
         kind' = kind, ino.gen <= ino'.gen, Len(dls) <= Len(dls'),
         th'[u].pc = th[u].pc, th'[u].src = th[u].src, th'[u].dl = th[u].dl,
         th'[u].since = th[u].since, th'[u].res = th[u].res, th[u].raced => th'[u].raced,
         th[u].pc # "idle" =>
            /\ fh'[H(u)].open = fh[H(u)].open
            /\ u \in fh[H(u)].readers => u \in fh'[H(u)].readers
            /\ fh'[H(u)].mgr.gen = fh[H(u)].mgr.gen \/ (th'[u].raced /\ fh'[H(u)].mgr.gen # 0)
  PROVE  Locked(u)' /\ Fresh(u)'
  <1>2. /\ ino.gen \in Nat /\ ino'.gen \in Nat /\ th[u].since \in Nat
        /\ Len(dls) \in Nat /\ Len(dls') \in Nat /\ th[u].dl \in Nat
        /\ th[u].raced \in BOOLEAN /\ th'[u].raced \in BOOLEAN
    BY DEF TypeOK, ThreadType
  <1>3. Locked(u)'
    BY <1>2 DEF Locked, H, Mgr, Reading
  <1>4. Fresh(u)'
    BY <1>2 DEF Fresh, H, Mgr, Reading
  <1> QED
    BY <1>3, <1>4

\* A step of one thread that changes no generation, and of the locks only its own.
LEMMA OwnStep ==
  ASSUME IInv, TypeOK', NEW t \in Threads, kind' = kind, ino' = ino, Len(dls) <= Len(dls'),
         \A u \in Threads \ {t} : th'[u] = th[u],
         \A h \in Handles : /\ fh'[h].open = fh[h].open /\ fh'[h].mgr.gen = fh[h].mgr.gen
                            /\ fh[h].readers \ {t} \subseteq fh'[h].readers,
         Locked(t)', Fresh(t)'
  PROVE  IInv'
  <1>1. ASSUME NEW u \in Threads \ {t} PROVE Locked(u)' /\ Fresh(u)'
    <2>1. ino.gen <= ino'.gen
      BY DEF IInv, TypeOK
    <2>2. th[u].pc # "idle" => H(u) \in Handles
      BY UserHandle DEF IInv, Locked, H
    <2> QED
      BY <2>1, <2>2, Others DEF IInv
  <1> QED
    BY <1>1 DEF IInv

\* A read begins, or is served from the content not yet uploaded.
LEMMA ReadFileIInv ==
  ASSUME IInv, NEW t \in Threads, ReadFile(t) PROVE IInv'
  <1> USE DEF IInv
  <1>0. kind.user[t] \in Handles
    BY UserHandle DEF ReadFile
  <1>1. th'[t] = IF ino.dirty THEN Thread("idle", ino.gen + 1, ino.gen + 1, fh[kind.user[t]].openGen, FALSE)
                 ELSE Thread("wantR", 0, ino.gen, fh[kind.user[t]].openGen, FALSE)
    BY DEF TypeOK, ReadFile, H
  <1>2. TypeOK'
    <2>1. fh[kind.user[t]].openGen \in Nat /\ ino.gen \in Nat /\ ino.gen + 1 \in Nat
      BY <1>0 DEF TypeOK, HandleType
    <2>2. th'[t] \in ThreadType
      BY <1>1, <2>1 DEF Thread, Steps, ThreadType
    <2> QED
      BY <2>2, Zenon DEF TypeOK, ReadFile
  <1>3. UNCHANGED <<kind, ino, fh, w, dls>> /\ \A u \in Threads \ {t} : th'[u] = th[u]
    BY Zenon DEF ReadFile, TypeOK
  <1>4. Locked(t)' /\ Fresh(t)'
    <2>1. th'[t].pc \in {"idle", "wantR"} /\ (th'[t].pc = "wantR" => th'[t].since = ino.gen /\ th'[t].res = 0)
          /\ (th'[t].pc = "idle" => th'[t].since = th'[t].res)
      BY <1>1 DEF Thread
    <2>2. ino.gen \in Nat /\ th'[t].since \in Nat /\ t \in DOMAIN kind.user /\ fh[H(t)].open
      BY <1>2, Zenon DEF TypeOK, ThreadType, ReadFile
    <2> QED
      BY <1>3, <2>1, <2>2 DEF Locked, Fresh, Reading, Noted, H, Mgr
  <1>5. ASSUME NEW u \in Threads \ {t} PROVE Locked(u)' /\ Fresh(u)'
    <2>1. ino.gen <= ino'.gen /\ Len(dls) <= Len(dls')
      BY <1>2, <1>3 DEF TypeOK
    <2> QED
      BY <1>2, <1>3, <2>1, Others
  <1> QED
    BY <1>2, <1>4, <1>5

\* lockHandleAndRelockInode, and the second time the lock is taken after a manager was
\* created: fh.mu is held for reading.
LEMMA RLockIInv ==
  ASSUME IInv, NEW t \in Threads, LockHandle(t) \/ RLockAgain(t) PROVE IInv'
  <1> USE DEF IInv
  <1> DEFINE next == IF th[t].pc = "wantR" THEN "relock" ELSE "read"
  <1>1. /\ th[t].pc \in {"wantR", "wantR2"} /\ UNCHANGED <<kind, ino, w, dls>>
        /\ th' = [th EXCEPT ![t].pc = next] /\ fh' = [fh EXCEPT ![H(t)].readers = @ \union {t}]
    BY DEF LockHandle, RLockAgain, RLock, Goto, Bounds
  <1>2. H(t) \in Handles
    BY <1>1, UserHandle DEF Locked, H
  <1>3. TypeOK'
    <2>1. th' \in [Threads -> ThreadType]
      BY <1>1, ThreadTypes, Zenon DEF Steps
    <2>2. fh[H(t)].readers \union {t} \in SUBSET Threads
      BY <1>2 DEF TypeOK, HandleType
    <2>3. fh' \in [Handles -> HandleType]
      BY <1>1, <1>2, <2>2, HandleTypes, Zenon
    <2> QED
      BY <1>1, <2>1, <2>3 DEF TypeOK
  <1>4. Locked(t)' /\ Fresh(t)'
    BY <1>1, <1>2 DEF Locked, Fresh, Reading, Noted, H, Mgr, TypeOK, ThreadType, HandleType
  <1>5. \A h \in Handles : /\ fh'[h].open = fh[h].open /\ fh'[h].mgr.gen = fh[h].mgr.gen
                           /\ fh[h].readers \ {t} \subseteq fh'[h].readers
    BY <1>1, <1>2 DEF TypeOK, HandleType
  <1>6. Len(dls) <= Len(dls') /\ \A u \in Threads \ {t} : th'[u] = th[u]
    BY <1>1 DEF TypeOK
  <1> QED
    BY <1>1, <1>3, <1>4, <1>5, <1>6, OwnStep

\* The second half of lockHandleAndRelockInode and the check of the manager: it is used,
\* or the source is noted and the locks are released.
LEMMA RelockIInv ==
  ASSUME IInv, NEW t \in Threads, RelockInode(t) PROVE IInv'
  <1> USE DEF IInv
  <1>1. th[t].pc = "relock" /\ UNCHANGED <<kind, ino, w, dls>>
    BY DEF RelockInode, Bounds
  <1>2. H(t) \in Handles
    BY <1>1, UserHandle DEF Locked, H
  <1>a. CASE isValidReadManager(t)
    <2>1. th' = [th EXCEPT ![t].pc = "read"] /\ fh' = fh
      BY <1>a DEF RelockInode, Goto
    <2>2. TypeOK'
      <3>1. th' \in [Threads -> ThreadType]
        BY <2>1, ThreadTypes, Zenon DEF Steps
      <3> QED
        BY <1>1, <2>1, <3>1 DEF TypeOK
    <2>3. Locked(t)' /\ Fresh(t)'
      BY <1>1, <1>2, <1>a, <2>1 DEF Locked, Fresh, Reading, Noted, H, Mgr, TypeOK, ThreadType, isValidReadManager
    <2>4. Len(dls) <= Len(dls') /\ \A u \in Threads \ {t} : th'[u] = th[u]
      BY <1>1, <2>1 DEF TypeOK
    <2> QED
      BY <1>1, <2>1, <2>2, <2>3, <2>4, OwnStep
  <1>b. CASE ~isValidReadManager(t)
    <2>1. /\ th' = [th EXCEPT ![t].pc = "unlocked", ![t].src = ino.gen]
          /\ fh' = [fh EXCEPT ![H(t)].readers = @ \ {t}]
      BY <1>b, Zenon DEF RelockInode
    <2>2. TypeOK'
      <3>1. th' \in [Threads -> ThreadType]
        BY <2>1, ThreadTypes, Zenon DEF Steps, TypeOK
      <3>2. fh[H(t)].readers \ {t} \in SUBSET Threads
        BY <1>2 DEF TypeOK, HandleType
      <3>3. fh' = [fh EXCEPT ![H(t)].readers = fh[H(t)].readers \ {t}]
        BY <1>2, <2>1 DEF TypeOK, HandleType
      <3>4. fh' \in [Handles -> HandleType]
        BY <1>2, <3>2, <3>3, HandleTypes, Zenon
      <3> QED
        BY <1>1, <3>1, <3>4 DEF TypeOK
    <2>3. Locked(t)' /\ Fresh(t)'
      BY <1>1, <1>2, <2>1 DEF Locked, Fresh, Reading, Noted, H, Mgr, TypeOK, ThreadType, HandleType
    <2>4. Len(dls) <= Len(dls') /\ \A u \in Threads \ {t} : th'[u] = th[u]
      BY <1>1, <2>1 DEF TypeOK
    <2>5. \A h \in Handles : /\ fh'[h].open = fh[h].open /\ fh'[h].mgr.gen = fh[h].mgr.gen
                             /\ fh[h].readers \ {t} \subseteq fh'[h].readers
      BY <1>2, <2>1 DEF TypeOK, HandleType
    <2> QED
      BY <1>1, <2>2, <2>3, <2>4, <2>5, OwnStep
  <1> QED
    BY <1>a, <1>b

\* The thread waits for fh.mu to install a manager for the source it noted.
LEMMA WantWriteIInv ==
  ASSUME IInv, NEW t \in Threads, WantWrite(t) PROVE IInv'
  <1> USE DEF IInv
  <1>1. /\ th[t].pc = "unlocked" /\ UNCHANGED <<kind, ino, w, dls>>
        /\ th' = [th EXCEPT ![t].pc = "wantW"] /\ fh' = [fh EXCEPT ![H(t)].waiting = @ \union {t}]
    BY DEF WantWrite, Goto, Bounds
  <1>2. H(t) \in Handles
    BY <1>1, UserHandle DEF Locked, H
  <1>3. TypeOK'
    <2>1. th' \in [Threads -> ThreadType]
      BY <1>1, ThreadTypes, Zenon DEF Steps
    <2>2. fh[H(t)].waiting \union {t} \in SUBSET Threads
      BY <1>2 DEF TypeOK, HandleType
    <2>3. fh' \in [Handles -> HandleType]
      BY <1>1, <1>2, <2>2, HandleTypes, Zenon
    <2> QED
      BY <1>1, <2>1, <2>3 DEF TypeOK
  <1>4. Locked(t)' /\ Fresh(t)'
    BY <1>1, <1>2 DEF Locked, Fresh, Reading, Noted, H, Mgr, TypeOK, ThreadType, HandleType
  <1>5. \A h \in Handles : /\ fh'[h].open = fh[h].open /\ fh'[h].mgr.gen = fh[h].mgr.gen
                           /\ fh[h].readers \ {t} \subseteq fh'[h].readers
    BY <1>1, <1>2 DEF TypeOK, HandleType
  <1>6. Len(dls) <= Len(dls') /\ \A u \in Threads \ {t} : th'[u] = th[u]
    BY <1>1 DEF TypeOK
  <1> QED
    BY <1>1, <1>3, <1>4, <1>5, <1>6, OwnStep

\* What the steps do to the wrapper.
LEMMA WrapperTypes ==
  ASSUME NEW r \in [ref : Int, wrapped : Nat, object : Nat \ {0}], NEW i \in Int, NEW n \in Nat
  PROVE  /\ [r EXCEPT !.ref = i, !.wrapped = n] \in [ref : Int, wrapped : Nat, object : Nat \ {0}]
         /\ [r EXCEPT !.ref = i, !.wrapped = n].wrapped = n
  BY Zenon

\* Destroying a manager leaves the list of downloaders as long as it was.
LEMMA DestroyTypes ==
  ASSUME TypeOK, NEW m, DestroyManager(m)
  PROVE  /\ w' \in [ref : Int, wrapped : Nat, object : Nat \ {0}]
         /\ dls' \in Seq(Downloader) /\ Len(dls') = Len(dls) /\ w'.wrapped <= Len(dls')
  <1>1. w \in [ref : Int, wrapped : Nat, object : Nat \ {0}] /\ dls \in Seq(Downloader) /\ w.wrapped <= Len(dls)
    BY DEF TypeOK
  <1>2. CASE UNCHANGED <<w, dls>>
    BY <1>1, <1>2
  <1>3. CASE DecrementRefCount
    <2> DEFINE last == w.ref = 1 /\ w.wrapped # 0
    <2>1. /\ w' = [w EXCEPT !.ref = @ - 1, !.wrapped = IF last THEN 0 ELSE @]
          /\ dls' = IF last THEN [dls EXCEPT ![w.wrapped].open = FALSE] ELSE dls
      BY <1>3 DEF DecrementRefCount
    <2>2. CASE last
      <3>1. w' = [w EXCEPT !.ref = w.ref - 1, !.wrapped = 0] /\ dls' = [dls EXCEPT ![w.wrapped].open = FALSE]
        BY <1>1, <2>1, <2>2
      <3>2. w' \in [ref : Int, wrapped : Nat, object : Nat \ {0}] /\ w'.wrapped = 0
        BY <1>1, <3>1, w.ref - 1 \in Int, WrapperTypes, Zenon
      <3>3. w.wrapped \in 1..Len(dls) /\ dls[w.wrapped] \in Downloader
        BY <1>1, <2>2
      <3>4. [dls[w.wrapped] EXCEPT !.open = FALSE] \in Downloader
        BY ONLY <3>3, Zenon DEF Downloader
      <3>5. dls' \in Seq(Downloader) /\ Len(dls') = Len(dls)
        BY <1>1, <3>1, <3>3, <3>4
      <3> QED
        BY <3>2, <3>5, <1>1
    <2>3. CASE ~last
      <3>1. w' = [w EXCEPT !.ref = w.ref - 1, !.wrapped = w.wrapped] /\ dls' = dls
        BY <1>1, <2>1, <2>3, Zenon
      <3>2. w' \in [ref : Int, wrapped : Nat, object : Nat \ {0}] /\ w'.wrapped = w.wrapped
        BY <1>1, <3>1, w.ref - 1 \in Int, WrapperTypes, Zenon
      <3> QED
        BY <3>1, <3>2, <1>1
    <2> QED
      BY <2>2, <2>3
  <1> QED
    BY <1>2, <1>3 DEF DestroyManager

\* destroyReadManager and NewReadManager, under fh.mu: nobody reads through the handle;
\* whoever is about to is told that it raced.
LEMMA CreateManagerIInv ==
  ASSUME IInv, NEW t \in Threads, CreateManager(t) PROVE IInv'
  <1> USE DEF IInv
  <1>1. /\ th[t].pc = "wantW" /\ fh[H(t)].readers = {} /\ UNCHANGED <<kind, ino>>
        /\ fh' = [fh EXCEPT ![H(t)].mgr = [gen |-> th[t].src, inUse |-> FALSE, counted |-> FALSE],
                            ![H(t)].waiting = @ \ {t}]
        /\ th' = [u \in Threads |->
                    IF u = t THEN [th[t] EXCEPT !.pc = "wantR2"]
                    ELSE [th[u] EXCEPT !.raced = @ \/ (th[u].pc # "idle" /\ H(u) = H(t))]]
    BY Zenon DEF CreateManager, Bounds
  <1>2. H(t) \in Handles
    BY <1>1, UserHandle DEF Locked, H
  <1>3. th'[t] = [th[t] EXCEPT !.pc = "wantR2"]
    BY <1>1
  <1>4. th'[t] \in ThreadType /\ th'[t].pc = "wantR2" /\ th'[t].since = th[t].since /\ th'[t].res = th[t].res
        /\ th'[t].raced = th[t].raced
    <2>1. th[t] \in ThreadType /\ "wantR2" \in Steps
      BY DEF TypeOK, Steps
    <2> QED
      BY ONLY <1>3, <2>1 DEF ThreadType
  <1>5. ASSUME NEW u \in Threads \ {t}
        PROVE  /\ th'[u] \in ThreadType /\ th'[u].pc = th[u].pc /\ th'[u].src = th[u].src
               /\ th'[u].dl = th[u].dl /\ th'[u].since = th[u].since /\ th'[u].res = th[u].res
               /\ th[u].raced => th'[u].raced
               /\ th[u].pc # "idle" /\ H(u) = H(t) => th'[u].raced
    <2> DEFINE r == th[u].raced \/ (th[u].pc # "idle" /\ H(u) = H(t))
    <2>1. th[u] \in ThreadType /\ r \in BOOLEAN
      BY DEF TypeOK, ThreadType
    <2>2. th'[u] = [th[u] EXCEPT !.raced = r]
      BY <1>1
    <2>3. /\ th'[u] \in ThreadType /\ th'[u].pc = th[u].pc /\ th'[u].src = th[u].src
          /\ th'[u].dl = th[u].dl /\ th'[u].since = th[u].since /\ th'[u].res = th[u].res
          /\ th'[u].raced = r
      <3> HIDE DEF r
      <3> QED
        BY ONLY <2>1, <2>2 DEF ThreadType
    <2> QED
      BY <2>3, Zenon
  <1>6. /\ fh' \in [Handles -> HandleType]
        /\ fh'[H(t)].mgr.gen = th[t].src /\ fh'[H(t)].open = fh[H(t)].open
        /\ \A h \in Handles \ {H(t)} : fh'[h] = fh[h]
    <2> DEFINE m == [gen |-> th[t].src, inUse |-> FALSE, counted |-> FALSE]
               R == fh[H(t)].waiting \ {t}
    <2>1. fh[H(t)] \in HandleType /\ R \in SUBSET Threads /\ m \in Manager /\ m.gen = th[t].src
      BY <1>2 DEF TypeOK, HandleType, ThreadType, Manager
    <2>2. fh' = [fh EXCEPT ![H(t)] = [fh[H(t)] EXCEPT !.mgr = m, !.waiting = R]]
      BY <1>1, <1>2, <2>1, Zenon DEF TypeOK, HandleType
    <2>3. [fh[H(t)] EXCEPT !.mgr = m, !.waiting = R] \in HandleType
          /\ [fh[H(t)] EXCEPT !.mgr = m, !.waiting = R].mgr = m
          /\ [fh[H(t)] EXCEPT !.mgr = m, !.waiting = R].open = fh[H(t)].open
      <3> HIDE DEF m, R
      <3> QED
        BY ONLY <2>1, Zenon DEF HandleType
    <2> QED
      BY <1>2, <2>1, <2>2, <2>3 DEF TypeOK
  <1>7. TypeOK'
    <2>1. th' \in [Threads -> ThreadType]
      <3>1. \A u \in Threads : th'[u] \in ThreadType
        BY <1>4, <1>5, Zenon
      <3>2. th' = [u \in Threads |-> th'[u]]
        BY <1>1, Zenon
      <3> QED
        BY ONLY <3>1, <3>2
    <2>2. DestroyManager(Mgr(t))
      BY DEF CreateManager
    <2> QED
      BY <1>1, <1>6, <2>1, <2>2, DestroyTypes, Zenon DEF TypeOK
  <1>8. Locked(t)' /\ Fresh(t)'
    <2>1. /\ Locked(t) /\ Fresh(t) /\ (th[t].pc)' = "wantR2" /\ kind' = kind /\ H(t)' = H(t)
          /\ th'[t].since = th[t].since /\ th'[t].res = th[t].res /\ th'[t].raced = th[t].raced
          /\ Mgr(t)'.gen = th[t].src /\ fh'[H(t)].open = fh[H(t)].open /\ ino' = ino
      BY <1>1, <1>4, <1>6 DEF H, Mgr
    <2>2. Locked(t)'
      BY <1>1, <2>1, Zenon DEF Locked, Reading, Noted
    <2>3. Fresh(t)'
      BY <1>1, <2>1 DEF Fresh, Noted
    <2> QED
      BY <2>2, <2>3, SMTT(30)
  <1>9. ASSUME NEW u \in Threads \ {t} PROVE Locked(u)' /\ Fresh(u)'
    <2>1. ino.gen <= ino'.gen /\ Len(dls) <= Len(dls')
      BY <1>1, DestroyTypes DEF TypeOK, CreateManager
    <2>2. th[u].pc # "idle" => H(u) \in Handles
      BY UserHandle, Zenon DEF Locked, H
    <2>3. th[u].pc # "idle" /\ H(u) = H(t) =>
             u \notin fh[H(u)].readers /\ th'[u].raced /\ fh'[H(u)].mgr.gen # 0
             /\ fh'[H(u)].open = fh[H(u)].open
      BY <1>1, <1>5, <1>6 DEF Locked, Noted
    <2>4. th[u].pc # "idle" /\ H(u) # H(t) => fh'[H(u)] = fh[H(u)]
      BY <1>6, <2>2
    <2> QED
      BY <1>1, <1>5, <1>7, <2>1, <2>3, <2>4, Others, Zenon
  <1> QED
    BY <1>7, <1>8, <1>9

\* The deferred RUnlock: the thread is idle again, and has its result.
LEMMA FinishIInv ==
  ASSUME IInv, NEW t \in Threads, th[t].pc \in Reading, NEW res \in Int, Finish(t, res),
         kind' = kind, ino' = ino,
         w' \in [ref : Int, wrapped : Nat, object : Nat \ {0}],
         dls' \in Seq(Downloader), w'.wrapped <= Len(dls'), Len(dls) <= Len(dls'),
         ~kind.mrd => res = Mgr(t).gen \/ res <= 0
  PROVE  IInv'
  <1> USE DEF IInv
  <1>1. H(t) \in Handles
    BY UserHandle DEF Locked, H, Reading
  <1>2. /\ fh' = [fh EXCEPT ![H(t)].readers = @ \ {t}]
        /\ th' = [th EXCEPT ![t] = Thread("idle", res, th[t].since, th[t].opened, th[t].raced)]
    BY DEF Finish
  <1>3. fh' \in [Handles -> HandleType]
    <2>1. fh[H(t)].readers \ {t} \in SUBSET Threads
      BY <1>1 DEF TypeOK, HandleType
    <2> QED
      BY <1>1, <1>2, <2>1, HandleTypes, Zenon
  <1>4. /\ th' \in [Threads -> ThreadType] /\ \A u \in Threads \ {t} : th'[u] = th[u]
        /\ th'[t].pc = "idle" /\ th'[t].res = res /\ th'[t].since = th[t].since /\ th'[t].raced = th[t].raced
    <2>1. th[t] \in ThreadType
      BY DEF TypeOK
    <2>2. Thread("idle", res, th[t].since, th[t].opened, th[t].raced) \in ThreadType
      BY ONLY <2>1, res \in Int DEF ThreadType, Thread, Steps
    <2> QED
      BY <1>2, <2>2 DEF TypeOK, Thread
  <1>5. TypeOK'
    BY <1>3, <1>4 DEF TypeOK
  <1>6. Locked(t)' /\ Fresh(t)'
    <2>1. Locked(t)'
      BY <1>4 DEF Locked, Reading, Noted
    <2>2. th[t].since \in Nat /\ Mgr(t).gen \in Nat
      BY <1>1 DEF TypeOK, ThreadType, HandleType, Manager, Mgr
    <2>3. Fresh(t)'
      BY <1>4, <2>2 DEF Fresh, Reading, Noted
    <2> QED
      BY <2>1, <2>3, Zenon
  <1>7. \A h \in Handles : /\ fh'[h].open = fh[h].open /\ fh'[h].mgr.gen = fh[h].mgr.gen
                           /\ fh[h].readers \ {t} \subseteq fh'[h].readers
    BY <1>1, <1>2, Zenon DEF TypeOK, HandleType
  <1> QED
    BY <1>4, <1>5, <1>6, <1>7, OwnStep, Zenon

\* A step within Read of the wrapper, or towards it: the thread goes on.
LEMMA GoOnIInv ==
  ASSUME IInv, NEW t \in Threads, th[t].pc \in Reading, kind.mrd, kind' = kind, ino' = ino,
         w' \in [ref : Int, wrapped : Nat, object : Nat \ {0}],
         dls' \in Seq(Downloader), w'.wrapped <= Len(dls'), Len(dls) <= Len(dls'),
         th' \in [Threads -> ThreadType], \A u \in Threads \ {t} : th'[u] = th[u],
         th'[t].pc \in Reading, th'[t].since = th[t].since, th'[t].raced = th[t].raced,
         th'[t].pc = "wait" => th'[t].dl \in 1..Len(dls'),
         fh' = fh \/ fh' = [fh EXCEPT ![H(t)].mgr.inUse = TRUE]
                  \/ fh' = [fh EXCEPT ![H(t)].mgr.counted = TRUE]
  PROVE  IInv'
  <1> USE DEF IInv
  <1>1. H(t) \in Handles
    BY UserHandle DEF Locked, H, Reading
  <1>2. fh' \in [Handles -> HandleType]
    <2>1. {} \in SUBSET Threads /\ fh \in [Handles -> HandleType]
      BY DEF TypeOK
    <2> QED
      BY <1>1, <2>1, HandleTypes, ZenonT(40)
  <1>3. \A h \in Handles : /\ fh'[h].open = fh[h].open /\ fh'[h].mgr.gen = fh[h].mgr.gen
                           /\ fh'[h].readers = fh[h].readers
    <2>1. fh \in [Handles -> HandleType]
      BY DEF TypeOK
    <2>2. CASE fh' = [fh EXCEPT ![H(t)].mgr.inUse = TRUE]
      BY ONLY <1>1, <2>1, <2>2 DEF HandleType, Manager
    <2>3. CASE fh' = [fh EXCEPT ![H(t)].mgr.counted = TRUE]
      BY ONLY <1>1, <2>1, <2>3 DEF HandleType, Manager
    <2> QED
      BY <2>2, <2>3, Zenon
  <1>4. TypeOK'
    BY <1>2, Zenon DEF TypeOK
  <1>5. Locked(t)' /\ Fresh(t)'
    BY <1>1, <1>3 DEF Locked, Fresh, Reading, Noted, H, Mgr
  <1> QED
    BY <1>3, <1>4, <1>5, OwnStep, Zenon

\* readManager.ReadAt: a range request of the manager's generation, or the way to the wrapper.
LEMMA UseManagerIInv ==
  ASSUME IInv, NEW t \in Threads, UseManager(t) PROVE IInv'
  <1> USE DEF IInv
  <1>1. th[t].pc = "read" /\ UNCHANGED <<kind, ino, w, dls>>
    BY DEF UseManager, Bounds
  <1>2. H(t) \in Handles
    BY <1>1, UserHandle DEF Locked, H
  <1>3. /\ w' \in [ref : Int, wrapped : Nat, object : Nat \ {0}] /\ dls' \in Seq(Downloader)
        /\ w'.wrapped <= Len(dls') /\ Len(dls) <= Len(dls')
    BY <1>1 DEF TypeOK
  <1>a. CASE kind.mrd
    <2>1. PICK x \in {"mrd", "count"}, e \in BOOLEAN : th' = [th EXCEPT ![t].pc = x, ![t].early = e]
      BY <1>a, Zenon DEF UseManager
    <2>2. fh' = [fh EXCEPT ![H(t)].mgr.inUse = TRUE]
      BY <1>a DEF UseManager
    <2>3. th' \in [Threads -> ThreadType]
      BY <2>1, ThreadTypes, Zenon DEF Steps
    <2>4. /\ \A u \in Threads \ {t} : th'[u] = th[u]
          /\ th'[t].pc = x /\ th'[t].since = th[t].since /\ th'[t].raced = th[t].raced
      BY <2>1 DEF TypeOK, ThreadType
    <2> QED
      BY <1>1, <1>3, <1>a, <2>1, <2>2, <2>3, <2>4, GoOnIInv, Zenon DEF Reading
  <1>b. CASE ~kind.mrd
    <2>1. PICK res \in {Mgr(t).gen, Failed} : Finish(t, res)
      BY <1>b DEF UseManager
    <2>2. res \in Int /\ (res = Mgr(t).gen \/ res <= 0)
      BY <1>2, <2>1 DEF TypeOK, HandleType, Manager, Mgr, Failed
    <2> QED
      BY <1>1, <1>3, <2>1, <2>2, FinishIInv DEF Reading
  <1> QED
    BY <1>a, <1>b

\* IncrementRefCount.
LEMMA IncrementIInv ==
  ASSUME IInv, NEW t \in Threads, IncrementRefCount(t) PROVE IInv'
  <1> USE DEF IInv
  <1>1. /\ th[t].pc = "count" /\ UNCHANGED <<kind, ino, dls>>
        /\ w' = [w EXCEPT !.ref = @ + 1] /\ th' = [th EXCEPT ![t].pc = "mrd"]
        /\ fh' = [fh EXCEPT ![H(t)].mgr.counted = TRUE]
    BY DEF IncrementRefCount, Bounds, Goto
  <1>2. w' \in [ref : Int, wrapped : Nat, object : Nat \ {0}] /\ w'.wrapped = w.wrapped
    BY <1>1 DEF TypeOK
  <1>3. dls' \in Seq(Downloader) /\ w'.wrapped <= Len(dls') /\ Len(dls) <= Len(dls')
    BY <1>1, <1>2 DEF TypeOK
  <1>4. th' \in [Threads -> ThreadType]
    BY <1>1, ThreadTypes, Zenon DEF Steps
  <1>5. /\ \A u \in Threads \ {t} : th'[u] = th[u]
        /\ th'[t].pc = "mrd" /\ th'[t].since = th[t].since /\ th'[t].raced = th[t].raced
    BY <1>1 DEF TypeOK, ThreadType
  <1>6. kind.mrd
    BY <1>1 DEF Locked, Reading
  <1> QED
    BY <1>1, <1>2, <1>3, <1>4, <1>5, <1>6, GoOnIInv, Zenon DEF Reading

\* The steps of the wrapper's Read that only move the thread on: the check under the read
\* lock, Wrapped.Add, and giving the lock up to take it for writing.
LEMMA EnsureIInv ==
  ASSUME IInv, NEW t \in Threads, EnsureDownloader(t) \/ Downgraded(t) PROVE IInv'
  <1> USE DEF IInv
  <1>1. th[t].pc \in {"mrd", "downgrade"} /\ UNCHANGED <<kind, ino, fh, w, dls>>
    BY DEF EnsureDownloader, Downgraded, Bounds
  <1>2. kind.mrd
    BY <1>1 DEF Locked, Reading
  <1>3. /\ w' \in [ref : Int, wrapped : Nat, object : Nat \ {0}] /\ dls' \in Seq(Downloader)
        /\ w'.wrapped <= Len(dls') /\ Len(dls) <= Len(dls')
    BY <1>1 DEF TypeOK
  <1>4. \/ th' = th
        \/ th' = [th EXCEPT ![t].pc = "upgrade"]
        \/ w.wrapped # 0 /\ th' = [th EXCEPT ![t].pc = "wait", ![t].dl = w.wrapped]
    BY DEF EnsureDownloader, Downgraded, AddRange, Goto
  <1>5. w.wrapped \in Nat /\ th \in [Threads -> ThreadType]
    BY DEF TypeOK
  <1>6. th' \in [Threads -> ThreadType]
    <2>1. {"upgrade", "wait"} \subseteq Steps
      BY DEF Steps
    <2>2. CASE th' = [th EXCEPT ![t].pc = "upgrade"]
      BY <2>1, <2>2, ThreadTypes, Zenon
    <2>3. CASE th' = [th EXCEPT ![t].pc = "wait", ![t].dl = w.wrapped]
      BY <1>5, <2>1, <2>3, ThreadTypes, Zenon
    <2> QED
      BY <1>4, <1>5, <2>2, <2>3
  <1>7. /\ \A u \in Threads \ {t} : th'[u] = th[u]
        /\ th'[t].pc \in Reading /\ th'[t].since = th[t].since /\ th'[t].raced = th[t].raced
        /\ th'[t].pc = "wait" => th'[t].dl = w.wrapped /\ w.wrapped # 0
    BY <1>1, <1>4, <1>5 DEF ThreadType, Reading
  <1>8. th'[t].pc = "wait" => th'[t].dl \in 1..Len(dls')
    BY <1>1, <1>5, <1>7 DEF TypeOK
  <1> QED
    BY <1>1, <1>2, <1>3, <1>6, <1>7, <1>8, GoOnIInv DEF Reading

\* ensureMultiRangeDownloader under the write lock: a downloader is added, or cannot be
\* made, or another thread made one.
LEMMA CreateDownloaderIInv ==
  ASSUME IInv, NEW t \in Threads, CreateDownloader(t) PROVE IInv'
  <1> USE DEF IInv
  <1>1. th[t].pc = "upgrade" /\ UNCHANGED <<kind, ino>>
    BY DEF CreateDownloader, Bounds
  <1>2. kind.mrd /\ th[t].pc \in Reading
    BY <1>1 DEF Locked, Reading
  <1>3. w \in [ref : Int, wrapped : Nat, object : Nat \ {0}] /\ dls \in Seq(Downloader) /\ w.wrapped <= Len(dls)
    BY DEF TypeOK
  <1>4. ASSUME Goto(t, "downgrade")
        PROVE  /\ th' \in [Threads -> ThreadType] /\ \A u \in Threads \ {t} : th'[u] = th[u]
               /\ th'[t].pc \in Reading \ {"wait"} /\ th'[t].since = th[t].since /\ th'[t].raced = th[t].raced
    <2>1. th' = [th EXCEPT ![t].pc = "downgrade"]
      BY <1>4 DEF Goto
    <2>2. th' \in [Threads -> ThreadType]
      BY <2>1, ThreadTypes, Zenon DEF Steps
    <2> QED
      BY <2>1, <2>2 DEF TypeOK, ThreadType, Reading
  <1> DEFINE new == [i \in 1..Len(dls) + 1 |->
                       IF i <= Len(dls)
                       THEN [dls[i] EXCEPT !.replaced = @ \/ (i = w.wrapped /\ (dls[i].dead \/ th[t].force))]
                       ELSE [gen |-> w.object, open |-> TRUE, dead |-> FALSE, replaced |-> FALSE]]
  <1>a. CASE /\ dls' = new /\ w' = [w EXCEPT !.wrapped = Len(dls) + 1]
             /\ Goto(t, "downgrade") /\ UNCHANGED fh
    <2>1. ASSUME NEW i \in 1..Len(dls) + 1 PROVE new[i] \in Downloader
      <3>1. CASE i <= Len(dls)
        <4> DEFINE r == dls[i].replaced \/ (i = w.wrapped /\ (dls[i].dead \/ th[t].force))
        <4>0. dls[i] \in Downloader
          BY <1>3, <3>1
        <4>1. dls[i] \in Downloader /\ r \in BOOLEAN
          BY <4>0 DEF Downloader
        <4>2. new[i] = [dls[i] EXCEPT !.replaced = r]
          BY <3>1
        <4>3. [dls[i] EXCEPT !.replaced = r] \in Downloader
          <5> HIDE DEF r
          <5> QED
            BY ONLY <4>1 DEF Downloader
        <4> QED
          BY <4>2, <4>3
      <3>2. CASE ~(i <= Len(dls))
        BY <1>3, <3>2 DEF Downloader
      <3> QED
        BY <3>1, <3>2
    <2>2. new \in Seq(Downloader) /\ Len(new) = Len(dls) + 1
      <3>1. Len(dls) \in Nat /\ DOMAIN new = 1..Len(dls) + 1
        BY <1>3
      <3> HIDE DEF new
      <3>2. new = [i \in 1..Len(dls) + 1 |-> new[i]]
        BY <3>1 DEF new
      <3> QED
        BY <2>1, <3>1, <3>2
    <2>3. w' \in [ref : Int, wrapped : Nat, object : Nat \ {0}] /\ w'.wrapped = Len(dls) + 1
      BY <1>3, <1>a
    <2>4. dls' \in Seq(Downloader) /\ w'.wrapped <= Len(dls') /\ Len(dls) <= Len(dls')
      <3> HIDE DEF new
      <3> QED
        BY <1>3, <1>a, <2>2, <2>3
    <2> HIDE DEF new
    <2> QED
      BY <1>1, <1>2, <1>4, <1>a, <2>3, <2>4, GoOnIInv
  <1>b. CASE Finish(t, Failed) /\ UNCHANGED <<w, dls>>
    BY <1>1, <1>2, <1>3, <1>b, FinishIInv, Failed \in Int DEF Failed
  <1>c. CASE Goto(t, "downgrade") /\ UNCHANGED <<fh, w, dls>>
    <2>1. /\ w' \in [ref : Int, wrapped : Nat, object : Nat \ {0}] /\ dls' \in Seq(Downloader)
          /\ w'.wrapped <= Len(dls') /\ Len(dls) <= Len(dls')
      BY <1>3, <1>c
    <2> QED
      BY <1>1, <1>2, <1>4, <1>c, <2>1, GoOnIInv
  <1> QED
    BY <1>a, <1>b, <1>c DEF CreateDownloader

\* The callback of a range: the read ends, or is tried once more.
LEMMA RangeDoneIInv ==
  ASSUME IInv, NEW t \in Threads, RangeDone(t) PROVE IInv'
  <1> USE DEF IInv
  <1> DEFINE d == th[t].dl
  <1>1. th[t].pc = "wait" /\ UNCHANGED <<kind, ino, w>>
    BY DEF RangeDone, Bounds
  <1>2. kind.mrd /\ th[t].pc \in Reading /\ d \in 1..Len(dls)
    BY <1>1 DEF Locked, Reading
  <1>3. w \in [ref : Int, wrapped : Nat, object : Nat \ {0}] /\ dls \in Seq(Downloader) /\ w.wrapped <= Len(dls)
    BY DEF TypeOK
  <1>4. dls[d] \in Downloader
    BY <1>2, <1>3
  <1>5. dls[d].gen \in Int /\ Failed \in Int
    BY <1>4 DEF Downloader, Failed
  <1>a. CASE Finish(t, dls[d].gen) /\ UNCHANGED dls
    BY <1>1, <1>2, <1>3, <1>5, <1>a, FinishIInv
  <1>b. CASE th' = [th EXCEPT ![t].pc = "mrd", ![t].force = TRUE] /\ UNCHANGED <<fh, dls>>
    <2>1. "mrd" \in Steps /\ 0 \in Nat
      BY DEF Steps
    <2>2. th' \in [Threads -> ThreadType]
      BY <1>b, <2>1, ThreadTypes, Zenon
    <2>3. /\ \A u \in Threads \ {t} : th'[u] = th[u]
          /\ th'[t].pc = "mrd" /\ th'[t].since = th[t].since /\ th'[t].raced = th[t].raced
      BY <1>b DEF TypeOK, ThreadType
    <2>4. /\ w' \in [ref : Int, wrapped : Nat, object : Nat \ {0}] /\ dls' \in Seq(Downloader)
          /\ w'.wrapped <= Len(dls') /\ Len(dls) <= Len(dls')
      BY <1>1, <1>3, <1>b
    <2> QED
      BY <1>1, <1>2, <1>b, <2>2, <2>3, <2>4, GoOnIInv DEF Reading
  <1>c. CASE Finish(t, Failed) /\ dls' = [dls EXCEPT ![d].dead = TRUE]
    <2>1. [dls[d] EXCEPT !.dead = TRUE] \in Downloader
      BY ONLY <1>4, Zenon DEF Downloader
    <2>2. dls' \in Seq(Downloader) /\ Len(dls') = Len(dls)
      BY <1>2, <1>3, <1>c, <2>1
    <2> QED
      <3>1. /\ w' \in [ref : Int, wrapped : Nat, object : Nat \ {0}]
            /\ w'.wrapped <= Len(dls') /\ Len(dls) <= Len(dls')
        BY <1>1, <1>3, <2>2
      <3> QED
        BY <1>1, <1>2, <1>5, <1>c, <2>2, <3>1, FinishIInv, Zenon
  <1>d. CASE Finish(t, Failed) /\ UNCHANGED dls
    BY <1>1, <1>2, <1>3, <1>5, <1>d, FinishIInv
  <1> QED
    BY <1>a, <1>b, <1>c, <1>d, Zenon DEF RangeDone

\* A handle is opened or released: no thread is on its way through it.
LEMMA HandleIInv ==
  ASSUME IInv, NEW h \in Handles, OpenHandle(h) \/ Destroy(h) PROVE IInv'
  <1> USE DEF IInv
  <1>1. /\ UNCHANGED <<kind, ino, th>>
        /\ \A t \in DOMAIN kind.user : H(t) = h => th[t].pc = "idle" \/ ~fh[h].open
    BY DEF OpenHandle, Destroy
  <1>2. fh' \in [Handles -> HandleType] /\ \A g \in Handles \ {h} : fh'[g] = fh[g]
    <2>1. fh \in [Handles -> HandleType] /\ ino.gen \in Nat /\ NoManager \in Manager
      BY DEF TypeOK, NoManager, Manager
    <2>2. CASE fh' = [fh EXCEPT ![h].open = TRUE, ![h].openGen = ino.gen]
      BY ONLY <2>1, <2>2, h \in Handles, Zenon DEF HandleType
    <2>3. CASE fh' = [fh EXCEPT ![h].open = FALSE, ![h].mgr = NoManager]
      BY ONLY <2>1, <2>3, h \in Handles, Zenon DEF HandleType
    <2> QED
      BY <2>2, <2>3, Zenon DEF OpenHandle, Destroy
  <1>3. /\ w' \in [ref : Int, wrapped : Nat, object : Nat \ {0}]
        /\ dls' \in Seq(Downloader) /\ Len(dls') = Len(dls) /\ w'.wrapped <= Len(dls')
    <2>1. CASE OpenHandle(h)
      BY <2>1 DEF OpenHandle, TypeOK
    <2>2. CASE Destroy(h)
      BY <2>2, DestroyTypes DEF Destroy
    <2> QED
      BY <2>1, <2>2
  <1>4. TypeOK'
    BY <1>1, <1>2, <1>3, Zenon DEF TypeOK
  <1>5. ASSUME NEW u \in Threads PROVE Locked(u)' /\ Fresh(u)'
    <2>1. th[u].pc # "idle" => u \in DOMAIN kind.user /\ H(u) \in Handles /\ fh[H(u)].open
      BY UserHandle DEF Locked, H
    <2>2. th[u].pc # "idle" => fh'[H(u)] = fh[H(u)]
      BY <1>1, <1>2, <2>1
    <2>3. ino.gen <= ino'.gen /\ Len(dls) <= Len(dls')
      BY <1>1, <1>3 DEF TypeOK
    <2> QED
      BY <1>1, <1>4, <2>2, <2>3, Others, Zenon
  <1> QED
    BY <1>4, <1>5

\* The inode is written, and its content uploaded as the next generation, or not.
LEMMA InodeIInv ==
  ASSUME IInv, WriteFile \/ SyncStarts \/ SyncEnds \/ SyncFails PROVE IInv'
  <1> USE DEF IInv
  <1>1. UNCHANGED <<kind, fh, th, dls>>
    BY DEF WriteFile, SyncStarts, SyncEnds, SyncFails
  <1>2. ino' \in [gen : Nat \ {0}, dirty : BOOLEAN, mu : {None, "sync"}] /\ ino.gen <= ino'.gen
    <2>1. ino \in [gen : Nat \ {0}, dirty : BOOLEAN, mu : {None, "sync"}]
      BY DEF TypeOK
    <2>2. CASE ino' = [ino EXCEPT !.dirty = TRUE]
      <3>1. ino' \in [gen : Nat \ {0}, dirty : BOOLEAN, mu : {None, "sync"}]
        BY ONLY <2>1, <2>2, Zenon
      <3>2. ino'.gen = ino.gen /\ ino.gen \in Nat
        BY ONLY <2>1, <2>2
      <3> QED
        BY <3>1, <3>2
    <2>3. CASE ino' = [ino EXCEPT !.mu = "sync"]
      BY ONLY <2>1, <2>3
    <2>4. CASE ino' = [gen |-> ino.gen + 1, dirty |-> FALSE, mu |-> None]
      BY ONLY <2>1, <2>4
    <2>5. CASE ino' = [ino EXCEPT !.mu = None]
      BY ONLY <2>1, <2>5
    <2> QED
      BY <2>2, <2>3, <2>4, <2>5 DEF WriteFile, SyncStarts, SyncEnds, SyncFails
  <1>3. w' \in [ref : Int, wrapped : Nat, object : Nat \ {0}] /\ w'.wrapped = w.wrapped
    BY DEF WriteFile, SyncStarts, SyncEnds, SyncFails, TypeOK
  <1>4. TypeOK'
    BY <1>1, <1>2, <1>3, Zenon DEF TypeOK
  <1>5. ASSUME NEW u \in Threads PROVE Locked(u)' /\ Fresh(u)'
    <2>1. Len(dls) <= Len(dls')
      BY <1>1 DEF TypeOK
    <2> QED
      BY <1>1, <1>2, <1>4, <2>1, Others
  <1> QED
    BY <1>4, <1>5

\* Every step preserves the invariant.
LEMMA NextIInv == IInv /\ [Next]_vars => IInv'
  <1> SUFFICES ASSUME IInv, [Next]_vars PROVE IInv'
    OBVIOUS
  <1>1. CASE WriteFile \/ SyncStarts \/ SyncEnds \/ SyncFails
    BY <1>1, InodeIInv
  <1>2. ASSUME NEW h \in Handles, OpenHandle(h) \/ Destroy(h) PROVE IInv'
    BY <1>2, HandleIInv
  <1>3. ASSUME NEW t \in Threads, ReadFile(t) PROVE IInv'
    BY <1>3, ReadFileIInv
  <1>4. ASSUME NEW t \in Threads, ReadSteps(t) PROVE IInv'
    BY <1>4, RLockIInv, RelockIInv, WantWriteIInv, CreateManagerIInv, UseManagerIInv, IncrementIInv, EnsureIInv,
       CreateDownloaderIInv, RangeDoneIInv, Zenon DEF ReadSteps
  <1>5. CASE UNCHANGED vars
    BY <1>5 DEF vars, IInv, TypeOK, Locked, Fresh, H, Mgr
  <1> QED
    BY <1>1, <1>2, <1>3, <1>4, <1>5 DEF Next, Progress

\* The invariant holds throughout.
THEOREM Invariance == Spec => []IInv
  <1>1. Init => IInv
    BY InitIInv
  <1>2. IInv /\ [Next]_vars => IInv'
    BY NextIInv
  <1> QED
    BY <1>1, <1>2, PTL DEF Spec

\* ReadWithReadManager and Read, when they use range requests: for any number of threads,
\* handles and writes, a read sees the content the file had when it began, or a later one,
\* unless another read of the handle replaced the manager under it.
THEOREM ReadsAreFresh == Spec => [](~kind.mrd => FreshReads)
  <1>1. IInv => (~kind.mrd => FreshReads)
    BY Zenon DEF IInv, FreshReads, Fresh, TypeOK, ThreadType
  <1> QED
    BY <1>1, Invariance, PTL

\* fh.mu: a thread that reads through a manager holds the lock, its handle is open and the
\* manager is there, whatever the other threads, Sync and ReleaseFileHandle do.
THEOREM ManagersAreKept == Spec => []ReadersKeepManager
  <1>1. IInv => ReadersKeepManager
    BY Zenon DEF IInv, ReadersKeepManager, Locked, Reading
  <1> QED
    BY <1>1, Invariance, PTL

-----------------------------------------------------------------------------
(* The wrapper.                                                            *)

Uses == {"mrd", "upgrade", "downgrade", "wait"}
Busy == {"count"} \cup Uses
Counted == {h \in Handles : fh[h].mgr.counted}
Live(d) == d.open /\ ~d.dead /\ ~d.replaced

\* A thread that is about to count its manager is the only one to do so.  A thread that uses
\* the downloader has a manager that was counted, unless it went on early; such a manager
\* keeps the downloader between its creation and its use.
User(t) ==
    /\ th[t].pc = "count" => /\ Mgr(t).inUse /\ ~Mgr(t).counted
                             /\ \A u \in Threads : th[u].pc = "count" /\ H(u) = H(t) => u = t
    /\ th[t].pc \in Uses => Mgr(t).inUse /\ (th[t].early \/ Mgr(t).counted)
    /\ th[t].pc = "downgrade" /\ ~th[t].early => w.wrapped # 0

\* A manager in use is counted, or about to be.
InUse(h) ==
    /\ fh[h].mgr.counted => fh[h].mgr.inUse
    /\ fh[h].mgr.inUse /\ ~fh[h].mgr.counted => \E t \in Threads : th[t].pc = "count" /\ H(t) = h

\* Only the downloader of the wrapper is live, and only while somebody uses it.
Owned ==
    /\ w.ref = Cardinality(Counted)
    /\ \A i \in 1..Len(dls) : Live(dls[i]) => i = w.wrapped
    /\ w.wrapped # 0 /\ Live(dls[w.wrapped]) => w.ref > 0 \/ \E t \in Threads : th[t].pc = "count"
    /\ nilUse => \E t \in Threads : th[t].pc = "downgrade" /\ th[t].early

WInv == (\A t \in Threads : User(t)) /\ (\A h \in Handles : InUse(h)) /\ Owned

\* No manager, no downloader at first.
LEMMA InitWInv == Init => WInv
  <1> SUFFICES ASSUME Init PROVE WInv
    BY Zenon
  <1>1. \A t \in Threads : th[t].pc = "idle"
    BY Zenon DEF Init, Thread
  <1>2. \A h \in Handles : ~fh[h].mgr.counted /\ ~fh[h].mgr.inUse
    BY DEF Init, NoManager
  <1>3. Counted = {}
    BY <1>2 DEF Counted
  <1>4. Cardinality(Counted) = 0
    BY <1>3, FS_EmptySet, Zenon
  <1>5. w.ref = 0 /\ w.wrapped = 0 /\ Len(dls) = 0 /\ ~nilUse
    BY DEF Init
  <1>6. Owned
    BY <1>4, <1>5 DEF Owned
  <1> QED
    BY <1>1, <1>2, <1>6 DEF WInv, User, InUse, Uses

\* A thread on its way to the downloader has a handle, and holds its lock.
LEMMA BusyHandle ==
  ASSUME IInv, NEW t \in Threads, th[t].pc \in Busy
  PROVE  H(t) \in Handles /\ t \in fh[H(t)].readers /\ t \in DOMAIN kind.user
  BY UserHandle DEF IInv, Locked, Busy, Uses, Reading, H

\* The managers that are counted are as many as refCount says.
LEMMA CountedFacts ==
  ASSUME IInv, WInv, NEW h \in Handles
  PROVE  /\ IsFiniteSet(Counted) /\ w.ref \in Nat /\ w.ref = Cardinality(Counted)
         /\ h \in Counted => w.ref > 0
         /\ \A g \in Counted : h \in Counted /\ g # h => w.ref > 1
  <1>1. IsFiniteSet(Counted)
    BY HandleAssumption, FS_Subset DEF Counted
  <1>2. w.ref = Cardinality(Counted) /\ w.ref \in Nat
    BY <1>1, FS_CardinalityType DEF WInv, Owned
  <1>3. h \in Counted => /\ w.ref > 0
                         /\ IsFiniteSet(Counted \ {h}) /\ Cardinality(Counted \ {h}) = w.ref - 1
    <2>1. h \in Counted => IsFiniteSet(Counted \ {h}) /\ Cardinality(Counted \ {h}) = w.ref - 1
      BY <1>1, <1>2, FS_RemoveElement
    <2>2. h \in Counted => Cardinality(Counted \ {h}) \in Nat
      BY <2>1, FS_CardinalityType
    <2> QED
      BY <1>2, <2>1, <2>2
  <1>4. ASSUME NEW g \in Counted, h \in Counted, g # h PROVE w.ref > 1
    <2>1. Cardinality((Counted \ {h}) \ {g}) = Cardinality(Counted \ {h}) - 1
          /\ Cardinality((Counted \ {h}) \ {g}) \in Nat
      BY <1>3, <1>4, FS_RemoveElement, FS_CardinalityType, Zenon
    <2> QED
      BY <1>2, <1>3, <1>4, <2>1
  <1> QED
    BY <1>1, <1>2, <1>3, <1>4

\* While a thread uses a manager, somebody has counted it or is about to.
LEMMA SomeUser ==
  ASSUME IInv, WInv, NEW h \in Handles, fh[h].mgr.inUse
  PROVE  w.ref > 0 \/ \E u \in Threads : th[u].pc = "count"
  <1>1. CASE fh[h].mgr.counted
    <2>1. h \in Counted
      BY <1>1 DEF Counted
    <2> QED
      BY <2>1, CountedFacts
  <1>2. CASE ~fh[h].mgr.counted
    BY <1>2 DEF WInv, InUse
  <1> QED
    BY <1>1, <1>2

\* The steps that neither come from the wrapper nor get to it.
LEMMA Apart ==
  ASSUME IInv, IInv', WInv, ~nilUse, kind' = kind, dls' = dls, nilUse' = nilUse,
         w'.ref = w.ref, w'.wrapped = w.wrapped,
         \A u \in Threads : \/ th'[u].pc = th[u].pc /\ th'[u].early = th[u].early
                            \/ th[u].pc \notin Busy /\ th'[u].pc \notin Busy,
         \A h \in Handles : /\ fh'[h].mgr.inUse = fh[h].mgr.inUse
                            /\ fh'[h].mgr.counted = fh[h].mgr.counted
  PROVE  WInv'
  <1>1. \A u \in Threads : th'[u].pc \in Busy \/ th[u].pc \in Busy =>
           th'[u].pc = th[u].pc /\ th'[u].early = th[u].early /\ H(u) \in Handles
    BY BusyHandle
  <1>2. \A u \in Threads : (th'[u].pc = "count" <=> th[u].pc = "count") /\ H(u)' = H(u)
    BY <1>1 DEF Busy, H
  <1>3. ASSUME NEW t \in Threads PROVE User(t)'
    <2>1. CASE th'[t].pc \in Busy
      <3>1. /\ th'[t].pc = th[t].pc /\ th'[t].early = th[t].early /\ H(t) \in Handles /\ User(t)
            /\ Mgr(t)'.inUse = Mgr(t).inUse /\ Mgr(t)'.counted = Mgr(t).counted
        BY <1>1, <1>2, <2>1 DEF WInv, Mgr
      <3> QED
        BY <1>2, <3>1, Zenon DEF User
    <2>2. CASE th'[t].pc \notin Busy
      BY <2>2, Zenon DEF User, Busy, Uses
    <2> QED
      BY <2>1, <2>2, Zenon
  <1>4. ASSUME NEW h \in Handles PROVE InUse(h)'
    BY <1>2, Zenon DEF WInv, InUse
  <1>5. Counted' = Counted
    BY Zenon DEF Counted
  <1>6. Owned'
    BY <1>2, <1>5, Zenon DEF WInv, Owned
  <1> QED
    BY <1>3, <1>4, <1>6 DEF WInv

\* A thread that uses the downloader goes on with it, or returns.
LEMMA Moves ==
  ASSUME IInv, WInv, NEW t \in Threads, H(t) \in Handles, Mgr(t).inUse, kind' = kind,
         th[t].pc # "count", th'[t].pc \in Uses \cup {"idle"},
         th'[t].pc # "idle" => th'[t].early \/ Mgr(t).counted,
         \A u \in Threads \ {t} : th'[u] = th[u],
         \A h \in Handles : /\ fh'[h].mgr.inUse = fh[h].mgr.inUse
                            /\ fh'[h].mgr.counted = fh[h].mgr.counted,
         w'.ref = w.ref, w.wrapped # 0 => w'.wrapped # 0,
         th'[t].pc = "downgrade" /\ ~th'[t].early => w'.wrapped # 0,
         \A i \in 1..Len(dls') : Live(dls'[i]) => i = w'.wrapped,
         nilUse' => \E u \in Threads : th'[u].pc = "downgrade" /\ th'[u].early
  PROVE  WInv'
  <1>1. /\ th'[t].pc # "count"
        /\ \A u \in Threads : (th'[u].pc = "count" <=> th[u].pc = "count") /\ H(u)' = H(u)
    BY Zenon DEF Uses, H
  <1>2. ASSUME NEW u \in Threads PROVE User(u)'
    <2>1. CASE u = t
      <3>1. Mgr(t)'.inUse /\ (Mgr(t)'.counted = Mgr(t).counted)
        BY <1>1, Zenon DEF Mgr
      <3>2. (th[t].pc \in Uses)' => th'[t].pc # "idle"
        BY Zenon DEF Uses
      <3> QED
        BY <1>1, <2>1, <3>1, <3>2, Zenon DEF User
    <2>2. CASE u # t /\ th[u].pc \in Busy
      <3>1. /\ th'[u] = th[u] /\ H(u) \in Handles /\ User(u)
        BY <2>2, BusyHandle, Zenon DEF WInv
      <3>2. Mgr(u)'.inUse = Mgr(u).inUse /\ Mgr(u)'.counted = Mgr(u).counted
        BY <1>1, <3>1, Zenon DEF Mgr
      <3> QED
        BY <1>1, <3>1, <3>2, ZenonT(40) DEF User
    <2>3. CASE u # t /\ th[u].pc \notin Busy
      BY <2>3, Zenon DEF User, Busy, Uses
    <2> QED
      BY <2>1, <2>2, <2>3, Zenon
  <1>3. ASSUME NEW h \in Handles PROVE InUse(h)'
    BY <1>1, Zenon DEF WInv, InUse
  <1>4. Counted' = Counted
    BY Zenon DEF Counted
  <1>5. w.ref > 0 \/ \E u \in Threads : th[u].pc = "count"
    BY SomeUser, Zenon DEF Mgr
  <1>6. Owned'
    BY <1>1, <1>4, <1>5, Zenon DEF WInv, Owned
  <1> QED
    BY <1>2, <1>3, <1>6, Zenon DEF WInv

\* A manager that nobody reads through is destroyed: it has been counted if it was used, and
\* the downloader goes only with the last counted manager.
LEMMA Dropped ==
  ASSUME IInv, WInv, NEW h \in Handles, DestroyManager(fh[h].mgr), ~nilUse,
         UNCHANGED <<kind, nilUse>>,
         \A u \in Threads : th[u].pc \in Busy => H(u) # h,
         \A u \in Threads : \/ th'[u].pc = th[u].pc /\ th'[u].early = th[u].early
                            \/ th[u].pc \notin Busy /\ th'[u].pc \notin Busy,
         ~fh'[h].mgr.inUse, ~fh'[h].mgr.counted,
         \A g \in Handles \ {h} : fh'[g].mgr = fh[g].mgr
  PROVE  WInv'
  <1>1. \A u \in Threads : th'[u].pc \in Busy \/ th[u].pc \in Busy =>
           /\ th'[u].pc = th[u].pc /\ th'[u].early = th[u].early
           /\ H(u) \in Handles \ {h} /\ Mgr(u)' = Mgr(u)
    BY BusyHandle, Zenon DEF H, Mgr
  <1>2. \A u \in Threads : (th'[u].pc = "count" <=> th[u].pc = "count") /\ H(u)' = H(u)
    BY <1>1, Zenon DEF Busy, H
  <1>3. ASSUME NEW u \in Threads, th[u].pc = "downgrade", ~th[u].early
        PROVE  H(u) \in Counted \ {h} /\ w.wrapped # 0
    BY <1>1, <1>3, Zenon DEF WInv, User, Busy, Uses, Counted, Mgr
  <1>4. Counted' = Counted \ {h}
    BY DEF Counted
  <1>5. fh[h].mgr.inUse <=> h \in Counted
    <2>1. InUse(h) /\ ~\E u \in Threads : th[u].pc = "count" /\ H(u) = h
      BY Zenon DEF WInv, Busy
    <2> QED
      BY <2>1, Zenon DEF InUse, Counted
  <1>6. /\ w'.ref = Cardinality(Counted')
        /\ \A i \in 1..Len(dls') : Live(dls'[i]) => i = w'.wrapped
        /\ w'.wrapped # 0 /\ Live(dls'[w'.wrapped]) => w'.ref > 0 \/ \E u \in Threads : th[u].pc = "count"
        /\ \A u \in Threads : th[u].pc = "downgrade" /\ ~th[u].early => w'.wrapped # 0
    <2>1. CASE h \in Counted
      <3> DEFINE last == w.ref = 1 /\ w.wrapped # 0
      <3>1. w.ref \in Nat /\ w.ref > 0 /\ Cardinality(Counted \ {h}) = w.ref - 1
        BY <2>1, CountedFacts, FS_RemoveElement, Zenon
      <3>2. /\ w \in [ref : Int, wrapped : Nat, object : Nat \ {0}] /\ w.wrapped <= Len(dls)
            /\ dls \in Seq(Downloader)
        BY DEF IInv, TypeOK
      <3>3. /\ w' = [w EXCEPT !.ref = @ - 1, !.wrapped = IF last THEN 0 ELSE @]
            /\ dls' = IF last THEN [dls EXCEPT ![w.wrapped].open = FALSE] ELSE dls
        BY <1>5, <2>1, <3>1 DEF DestroyManager, DecrementRefCount
      <3>4. w'.ref = w.ref - 1 /\ (w'.wrapped = IF last THEN 0 ELSE w.wrapped)
        BY ONLY <3>2, <3>3, Zenon
      <3>5. CASE last
        <4>1. Len(dls') = Len(dls) /\ \A i \in 1..Len(dls) : Live(dls'[i]) => Live(dls[i]) /\ i # w.wrapped
          BY ONLY <3>2, <3>3, <3>5 DEF Live, Downloader
        <4>2. \A i \in 1..Len(dls') : ~Live(dls'[i])
          BY <4>1, Zenon DEF WInv, Owned
        <4>3. \A u \in Threads : ~(th[u].pc = "downgrade" /\ ~th[u].early)
          BY <1>3, <2>1, <3>5, CountedFacts, SMTT(30)
        <4> QED
          BY <1>4, <3>1, <3>4, <3>5, <4>2, <4>3
      <3>6. CASE ~last
        <4>1. dls' = dls /\ w'.wrapped = w.wrapped
          BY <3>3, <3>4, <3>6, Zenon
        <4>2. w.wrapped # 0 => w'.ref > 0
          BY <3>1, <3>4, <3>6
        <4> QED
          BY <1>3, <1>4, <3>1, <3>4, <4>1, <4>2 DEF WInv, Owned
      <3> QED
        BY <3>5, <3>6
    <2>2. CASE h \notin Counted
      <3>1. w' = w /\ dls' = dls /\ Counted' = Counted
        BY <1>4, <1>5, <2>2, Zenon DEF DestroyManager
      <3>2. /\ w.ref = Cardinality(Counted)
            /\ \A i \in 1..Len(dls) : Live(dls[i]) => i = w.wrapped
            /\ w.wrapped # 0 /\ Live(dls[w.wrapped]) => w.ref > 0 \/ \E u \in Threads : th[u].pc = "count"
        BY DEF WInv, Owned
      <3> QED
        BY <1>3, <3>1, <3>2, Zenon
    <2> QED
      BY <2>1, <2>2, Zenon
  <1>7. ASSUME NEW u \in Threads PROVE User(u)'
    <2>1. CASE th'[u].pc \in Busy
      BY <1>1, <1>2, <1>6, <2>1 DEF User, WInv
    <2>2. CASE th'[u].pc \notin Busy
      BY <2>2, Zenon DEF User, Busy, Uses
    <2> QED
      BY <2>1, <2>2, Zenon
  <1>8. ASSUME NEW g \in Handles PROVE InUse(g)'
    BY <1>2 DEF WInv, InUse
  <1>9. Owned'
    BY <1>2, <1>6 DEF Owned
  <1> QED
    BY <1>7, <1>8, <1>9, Zenon DEF WInv

\* What the steps of a thread leave of the threads.
LEMMA ThreadFields ==
  ASSUME IInv, NEW t \in Threads, NEW x, NEW n,
         \/ Goto(t, x) \/ th' = [th EXCEPT ![t].pc = x, ![t].src = n]
         \/ th' = [th EXCEPT ![t].pc = x, ![t].dl = n]
         \/ th' = [th EXCEPT ![t].pc = x, ![t].force = TRUE]
  PROVE  /\ th'[t].pc = x /\ th'[t].early = th[t].early
         /\ \A u \in Threads \ {t} : th'[u] = th[u]
  <1>1. th \in [Threads -> ThreadType]
    BY DEF IInv, TypeOK
  <1> QED
    BY <1>1 DEF Goto, ThreadType

\* The lock of a handle is not its manager.
LEMMA HandleFields ==
  ASSUME IInv, NEW h \in Handles, NEW S, NEW R,
         \/ fh' = [fh EXCEPT ![h].readers = S] \/ fh' = [fh EXCEPT ![h].waiting = S]
         \/ fh' = [fh EXCEPT ![h].open = S, ![h].openGen = R] \/ UNCHANGED fh
  PROVE  \A g \in Handles : fh'[g].mgr = fh[g].mgr
  <1>1. fh \in [Handles -> HandleType]
    BY DEF IInv, TypeOK
  <1> QED
    BY <1>1 DEF HandleType

\* The deferred RUnlock ends the read.
LEMMA FinishFields ==
  ASSUME IInv, NEW t \in Threads, H(t) \in Handles, NEW r, Finish(t, r)
  PROVE  /\ th'[t].pc = "idle" /\ \A u \in Threads \ {t} : th'[u] = th[u]
         /\ \A g \in Handles : fh'[g].mgr = fh[g].mgr
  <1>1. th \in [Threads -> ThreadType]
    BY Zenon DEF IInv, TypeOK
  <1>2. \A g \in Handles : fh'[g].mgr = fh[g].mgr
    BY HandleFields DEF Finish
  <1> QED
    BY <1>1, <1>2 DEF Finish, Thread

\* The steps before a manager is used.
LEMMA ApartSteps ==
  ASSUME IInv, IInv', WInv, ~nilUse,
         \/ WriteFile \/ SyncStarts \/ SyncEnds \/ SyncFails
         \/ \E h \in Handles : OpenHandle(h)
         \/ \E t \in Threads : ReadFile(t) \/ LockHandle(t) \/ RelockInode(t) \/ WantWrite(t) \/ RLockAgain(t)
         \/ UNCHANGED vars
  PROVE  WInv'
  <1>1. CASE WriteFile \/ SyncStarts \/ SyncFails \/ UNCHANGED vars
    <2>1. UNCHANGED <<kind, fh, th, w, dls, nilUse>>
      BY <1>1 DEF WriteFile, SyncStarts, SyncFails, vars
    <2> QED
      BY <2>1, Apart
  <1>2. CASE SyncEnds
    <2>1. UNCHANGED <<kind, fh, th, dls, nilUse>> /\ w' = [w EXCEPT !.object = ino.gen + 1]
      BY <1>2 DEF SyncEnds
    <2>2. w'.ref = w.ref /\ w'.wrapped = w.wrapped
      BY <2>1, Zenon DEF IInv, TypeOK
    <2> QED
      BY <2>1, <2>2, Apart
  <1>3. ASSUME NEW h \in Handles, OpenHandle(h) PROVE WInv'
    <2>1. UNCHANGED <<kind, th, w, dls, nilUse>>
      BY <1>3 DEF OpenHandle
    <2>2. \A g \in Handles : fh'[g].mgr = fh[g].mgr
      BY <1>3, HandleFields, Zenon DEF OpenHandle
    <2> QED
      BY <2>1, <2>2, Apart
  <1>4. ASSUME NEW t \in Threads, ReadFile(t) PROVE WInv'
    <2>1. UNCHANGED <<kind, fh, w, dls, nilUse>> /\ th[t].pc \notin Busy
      BY <1>4, Zenon DEF ReadFile, Busy, Uses
    <2>2. th'[t].pc \notin Busy /\ \A u \in Threads \ {t} : th'[u] = th[u]
      BY <1>4, Zenon DEF ReadFile, Thread, IInv, TypeOK, Busy, Uses
    <2> QED
      BY <2>1, <2>2, Apart, Zenon
  <1>5. ASSUME NEW t \in Threads, LockHandle(t) \/ RLockAgain(t) \/ RelockInode(t) \/ WantWrite(t)
        PROVE  WInv'
    <2>1. UNCHANGED <<kind, w, dls, nilUse>> /\ th[t].pc \in {"wantR", "wantR2", "relock", "unlocked"}
      BY <1>5, Zenon DEF LockHandle, RLockAgain, RelockInode, WantWrite, RLock, Bounds
    <2>2. H(t) \in Handles
      BY <2>1, UserHandle DEF IInv, Locked, H
    <2>3. \A g \in Handles : fh'[g].mgr = fh[g].mgr
      <3>1. \/ fh' = [fh EXCEPT ![H(t)].readers = @ \union {t}]
            \/ fh' = [fh EXCEPT ![H(t)].readers = @ \ {t}]
            \/ fh' = [fh EXCEPT ![H(t)].waiting = @ \union {t}]
            \/ UNCHANGED fh
        BY <1>5, Zenon DEF LockHandle, RLockAgain, RelockInode, WantWrite, RLock
      <3> QED
        BY <2>2, <3>1, HandleFields, Zenon
    <2>4. th'[t].pc \in {"relock", "read", "unlocked", "wantW"} /\ \A u \in Threads \ {t} : th'[u] = th[u]
      <3>1. \/ Goto(t, "relock") \/ Goto(t, "read") \/ Goto(t, "wantW")
            \/ th' = [th EXCEPT ![t].pc = "unlocked", ![t].src = ino.gen]
        BY <1>5 DEF LockHandle, RLockAgain, RelockInode, WantWrite, RLock
      <3>2. CASE Goto(t, "relock")
        BY <3>2, ThreadFields, Zenon
      <3>3. CASE Goto(t, "read")
        BY <3>3, ThreadFields, Zenon
      <3>4. CASE th' = [th EXCEPT ![t].pc = "unlocked", ![t].src = ino.gen]
        BY <3>4, ThreadFields, Zenon
      <3>5. CASE Goto(t, "wantW")
        BY <3>5, ThreadFields, Zenon
      <3> QED
        BY <3>1, <3>2, <3>3, <3>4, <3>5
    <2> QED
      BY <2>1, <2>3, <2>4, Apart, Zenon DEF Busy, Uses
  <1> QED
    BY <1>1, <1>2, <1>3, <1>4, <1>5

\* destroyReadManager, under fh.mu or when the handle is released: nobody reads through it.
LEMMA DroppedSteps ==
  ASSUME IInv, IInv', WInv, ~nilUse,
         (\E t \in Threads : CreateManager(t)) \/ (\E h \in Handles : Destroy(h))
  PROVE  WInv'
  <1>0. fh \in [Handles -> HandleType] /\ th \in [Threads -> ThreadType]
    BY DEF IInv, TypeOK
  <1>1. ASSUME NEW t \in Threads, CreateManager(t) PROVE WInv'
    <2> DEFINE m == [gen |-> th[t].src, inUse |-> FALSE, counted |-> FALSE]
    <2>1. /\ UNCHANGED <<kind, nilUse>> /\ th[t].pc = "wantW" /\ fh[H(t)].readers = {}
          /\ DestroyManager(Mgr(t))
          /\ fh' = [fh EXCEPT ![H(t)].mgr = m, ![H(t)].waiting = @ \ {t}]
          /\ th' = [u \in Threads |->
                     IF u = t THEN [th[t] EXCEPT !.pc = "wantR2"]
                     ELSE [th[u] EXCEPT !.raced = @ \/ (th[u].pc # "idle" /\ H(u) = H(t))]]
      BY <1>1, Zenon DEF CreateManager, Bounds
    <2>2. H(t) \in Handles
      BY <2>1, UserHandle DEF IInv, Locked, H
    <2>3. ~fh'[H(t)].mgr.inUse /\ ~fh'[H(t)].mgr.counted /\ \A g \in Handles \ {H(t)} : fh'[g].mgr = fh[g].mgr
      BY ONLY <1>0, <2>1, <2>2 DEF HandleType
    <2>4. th'[t].pc = "wantR2" /\ \A u \in Threads \ {t} : th'[u].pc = th[u].pc /\ th'[u].early = th[u].early
      BY ONLY <1>0, <2>1, t \in Threads DEF ThreadType
    <2>5. \A u \in Threads : th[u].pc \in Busy => H(u) # H(t)
      BY <2>1, BusyHandle
    <2> QED
      BY <2>1, <2>2, <2>3, <2>4, <2>5, Dropped, Zenon DEF Mgr, Busy, Uses
  <1>2. ASSUME NEW h \in Handles, Destroy(h) PROVE WInv'
    <2>1. /\ UNCHANGED <<kind, nilUse, th>> /\ DestroyManager(fh[h].mgr)
          /\ fh' = [fh EXCEPT ![h].open = FALSE, ![h].mgr = NoManager]
          /\ \A t \in DOMAIN kind.user : H(t) = h => th[t].pc = "idle"
      BY <1>2 DEF Destroy
    <2>2. ~fh'[h].mgr.inUse /\ ~fh'[h].mgr.counted /\ \A g \in Handles \ {h} : fh'[g].mgr = fh[g].mgr
      BY ONLY <1>0, <2>1, h \in Handles DEF HandleType, NoManager
    <2>3. \A u \in Threads : th[u].pc \in Busy => H(u) # h
      BY <2>1, BusyHandle DEF Busy, Uses
    <2> QED
      BY <2>1, <2>2, <2>3, Dropped, Zenon
  <1> QED
    BY <1>1, <1>2

\* The first use of a manager: nobody else of its handle is about to count it.
LEMMA FirstUse ==
  ASSUME IInv, WInv, ~nilUse, NEW t \in Threads, UseManager(t), kind.mrd, ~Mgr(t).inUse
  PROVE  WInv'
  <1>1. /\ th[t].pc = "read" /\ UNCHANGED <<kind, w, dls, nilUse>>
        /\ fh' = [fh EXCEPT ![H(t)].mgr.inUse = TRUE]
        /\ th' = [th EXCEPT ![t].pc = "count", ![t].early = FALSE]
    BY Zenon DEF UseManager, Bounds
  <1>2. H(t) \in Handles
    BY <1>1, UserHandle DEF IInv, Locked, H
  <1>3. /\ \A g \in Handles \ {H(t)} : fh'[g] = fh[g]
        /\ fh'[H(t)].mgr.inUse /\ fh'[H(t)].mgr.counted = fh[H(t)].mgr.counted
    <2>1. fh \in [Handles -> HandleType]
      BY DEF IInv, TypeOK
    <2> QED
      BY ONLY <1>1, <1>2, <2>1 DEF HandleType, Manager
  <1>4. th'[t].pc = "count" /\ \A u \in Threads \ {t} : th'[u] = th[u]
    <2>1. th \in [Threads -> ThreadType]
      BY DEF IInv, TypeOK
    <2> QED
      BY ONLY <1>1, <2>1, t \in Threads DEF ThreadType
  <1>5. \A u \in Threads : H(u)' = H(u)
    BY <1>1, Zenon DEF H
  <1>6. ~fh[H(t)].mgr.counted /\ ~fh[H(t)].mgr.inUse
    BY <1>2, Zenon DEF WInv, InUse, Mgr
  <1>7. \A u \in Threads \ {t} : th[u].pc \in Busy => H(u) \in Handles \ {H(t)} /\ User(u)
    BY <1>6, BusyHandle DEF WInv, User, Mgr, Busy
  <1>8. ASSUME NEW u \in Threads PROVE User(u)'
    <2>1. CASE u = t
      <3>1. Mgr(t)'.inUse /\ ~Mgr(t)'.counted
        BY <1>3, <1>5, <1>6, Zenon DEF Mgr
      <3>2. \A v \in Threads : th'[v].pc = "count" /\ H(v) = H(t) => v = t
        BY <1>4, <1>7 DEF Busy
      <3> QED
        BY <1>4, <1>5, <2>1, <3>1, <3>2, Zenon DEF User, Uses
    <2>2. CASE u # t /\ th[u].pc \in Busy
      <3>1. Mgr(u)' = Mgr(u) /\ th'[u] = th[u] /\ H(u) # H(t) /\ User(u)
        BY <1>3, <1>4, <1>5, <1>7, <2>2, Zenon DEF Mgr
      <3>2. \A v \in Threads : th'[v].pc = "count" /\ H(v) = H(u) => th[v].pc = "count"
        BY <1>4, <3>1, Zenon
      <3> QED
        BY <1>1, <1>5, <3>1, <3>2, Zenon DEF User
    <2>3. CASE u # t /\ th[u].pc \notin Busy
      BY <1>4, <2>3 DEF User, Busy, Uses
    <2> QED
      BY <2>1, <2>2, <2>3, Zenon
  <1>9. ASSUME NEW h \in Handles PROVE InUse(h)'
    <2>1. CASE h = H(t)
      BY <1>3, <1>4, <1>5, <2>1, Zenon DEF InUse
    <2>2. CASE h # H(t)
      <3>1. InUse(h) /\ fh'[h] = fh[h]
        BY <1>3, <2>2 DEF WInv
      <3>2. \A u \in Threads : th[u].pc = "count" => th'[u].pc = "count"
        BY <1>4, Zenon
      <3> QED
        BY <1>5, <3>1, <3>2, Zenon DEF InUse
    <2> QED
      BY <2>1, <2>2, Zenon
  <1>10. Counted' = Counted
    BY <1>3 DEF Counted
  <1>11. Owned'
    BY <1>1, <1>4, <1>10, Zenon DEF WInv, Owned
  <1> QED
    BY <1>8, <1>9, <1>11 DEF WInv

\* IncrementRefCount: one more manager is counted.
LEMMA IncrementWInv ==
  ASSUME IInv, WInv, ~nilUse, NEW t \in Threads, IncrementRefCount(t)
  PROVE  WInv'
  <1>1. /\ th[t].pc = "count" /\ UNCHANGED <<kind, dls, nilUse>> /\ w' = [w EXCEPT !.ref = @ + 1]
        /\ fh' = [fh EXCEPT ![H(t)].mgr.counted = TRUE] /\ Goto(t, "mrd")
    BY DEF IncrementRefCount, Bounds
  <1>2. H(t) \in Handles /\ User(t)
    BY <1>1, BusyHandle DEF WInv, Busy
  <1>3. /\ \A g \in Handles \ {H(t)} : fh'[g] = fh[g]
        /\ fh'[H(t)].mgr.counted /\ fh'[H(t)].mgr.inUse = fh[H(t)].mgr.inUse
    <2>1. fh \in [Handles -> HandleType]
      BY DEF IInv, TypeOK
    <2> QED
      BY ONLY <1>1, <1>2, <2>1 DEF HandleType, Manager
  <1>4. th'[t].pc = "mrd" /\ \A u \in Threads \ {t} : th'[u] = th[u]
    BY <1>1, ThreadFields, Zenon
  <1>5. \A u \in Threads : H(u)' = H(u)
    BY <1>1 DEF H
  <1>6. w'.ref = w.ref + 1 /\ w'.wrapped = w.wrapped
    BY <1>1 DEF IInv, TypeOK
  <1>7. ASSUME NEW u \in Threads PROVE User(u)'
    <2>1. CASE u = t
      <3>1. Mgr(t)'.inUse /\ Mgr(t)'.counted
        BY <1>1, <1>2, <1>3, <1>5, Zenon DEF Mgr, User
      <3> QED
        BY <1>4, <2>1, <3>1 DEF User
    <2>2. CASE u # t /\ th[u].pc \in Busy
      <3>1. /\ th'[u] = th[u] /\ User(u) /\ H(u) \in Handles
            /\ Mgr(u)'.inUse = Mgr(u).inUse /\ (Mgr(u).counted => Mgr(u)'.counted)
            /\ H(u) # H(t) => Mgr(u)' = Mgr(u)
        BY <1>3, <1>4, <1>5, <2>2, BusyHandle DEF WInv, Mgr
      <3>2. th[u].pc = "count" => H(u) # H(t)
        BY <1>1, <1>2, <2>2 DEF User
      <3>3. \A v \in Threads : th'[v].pc = "count" => th[v].pc = "count"
        BY <1>4, Zenon
      <3> QED
        BY <1>5, <1>6, <3>1, <3>2, <3>3, Zenon DEF User
    <2>3. CASE u # t /\ th[u].pc \notin Busy
      BY <1>4, <2>3 DEF User, Busy, Uses
    <2> QED
      BY <2>1, <2>2, <2>3, Zenon
  <1>8. ASSUME NEW h \in Handles PROVE InUse(h)'
    <2>1. CASE h = H(t)
      BY <1>1, <1>2, <1>3, <2>1, Zenon DEF InUse, User, Mgr
    <2>2. CASE h # H(t)
      BY <1>3, <1>4, <1>5, <2>2, Zenon DEF WInv, InUse
    <2> QED
      BY <2>1, <2>2
  <1>9. w'.ref = Cardinality(Counted') /\ w'.ref > 0
    <2>1. Counted' = Counted \cup {H(t)} /\ H(t) \notin Counted
      BY <1>1, <1>2, <1>3 DEF Counted, User, Mgr
    <2>2. IsFiniteSet(Counted) /\ w.ref \in Nat /\ w.ref = Cardinality(Counted)
      BY <1>2, CountedFacts
    <2> QED
      BY <1>6, <2>1, <2>2, FS_AddElement, SMTT(30)
  <1>10. Owned'
    BY <1>1, <1>6, <1>9 DEF WInv, Owned
  <1> QED
    BY <1>7, <1>8, <1>10 DEF WInv

\* The manager is in use: the thread goes on to the downloader, too early if the thread that
\* used it first has not counted it yet.  Without the downloader, the read ends.
LEMMA UseManagerWInv ==
  ASSUME IInv, IInv', WInv, ~nilUse, NEW t \in Threads, UseManager(t)
  PROVE  WInv'
  <1>1. th[t].pc = "read" /\ UNCHANGED <<kind, w, dls, nilUse>>
    BY Zenon DEF UseManager, Bounds
  <1>2. H(t) \in Handles
    BY <1>1, UserHandle DEF IInv, Locked, H
  <1>3. CASE kind.mrd /\ Mgr(t).inUse
    <2>1. /\ fh' = [fh EXCEPT ![H(t)].mgr.inUse = TRUE]
          /\ th' = [th EXCEPT ![t].pc = "mrd", ![t].early = ~Mgr(t).counted]
      BY <1>3 DEF UseManager
    <2>2. \A h \in Handles : fh'[h].mgr.inUse = fh[h].mgr.inUse /\ fh'[h].mgr.counted = fh[h].mgr.counted
      <3>1. fh \in [Handles -> HandleType] /\ fh[H(t)].mgr.inUse
        BY <1>3 DEF IInv, TypeOK, Mgr
      <3>2. fh[H(t)].mgr.inUse = TRUE
        BY <1>2, <3>1 DEF HandleType, Manager
      <3> QED
        BY ONLY <1>2, <2>1, <3>1, <3>2, Zenon DEF HandleType, Manager
    <2>3. /\ th'[t].pc = "mrd" /\ th'[t].early = ~Mgr(t).counted
          /\ \A u \in Threads \ {t} : th'[u] = th[u]
      <3>1. th \in [Threads -> ThreadType]
        BY Zenon DEF IInv, TypeOK
      <3> QED
        BY <2>1, <3>1 DEF ThreadType
    <2>4. \A i \in 1..Len(dls') : Live(dls'[i]) => i = w'.wrapped
      BY <1>1 DEF WInv, Owned
    <2> QED
      BY <1>1, <1>2, <1>3, <2>2, <2>3, <2>4, Moves, Zenon DEF Uses
  <1>4. CASE kind.mrd /\ ~Mgr(t).inUse
    BY <1>4, FirstUse, Zenon
  <1>5. CASE ~kind.mrd
    <2>1. PICK r : Finish(t, r)
      BY <1>5, Zenon DEF UseManager
    <2>2. /\ th'[t].pc = "idle" /\ \A u \in Threads \ {t} : th'[u] = th[u]
          /\ \A g \in Handles : fh'[g].mgr = fh[g].mgr
      BY <1>2, <2>1, FinishFields, Zenon
    <2> QED
      BY <1>1, <2>2, Apart DEF Busy, Uses
  <1> QED
    BY <1>3, <1>4, <1>5

\* Wrapped.Add: the range goes to the downloader, or there is none.
LEMMA AddRangeWInv ==
  ASSUME IInv, WInv, ~nilUse, NEW t \in Threads, th[t].pc \in Uses, AddRange(t),
         UNCHANGED <<kind, fh, w, dls>>, w.wrapped = 0 => th[t].pc = "downgrade"
  PROVE  WInv'
  <1>1. H(t) \in Handles /\ User(t)
    BY BusyHandle, Zenon DEF WInv, Busy
  <1>2. /\ Mgr(t).inUse /\ (th[t].early \/ Mgr(t).counted)
        /\ th[t].pc = "downgrade" /\ ~th[t].early => w.wrapped # 0
    BY <1>1, Zenon DEF User
  <1>3. \A i \in 1..Len(dls') : Live(dls'[i]) => i = w'.wrapped
    BY Zenon DEF WInv, Owned
  <1>4. CASE w.wrapped = 0
    <2>1. UNCHANGED th /\ th[t].pc = "downgrade" /\ th[t].early
      BY <1>2, <1>4 DEF AddRange
    <2> QED
      BY <1>1, <1>2, <1>3, <1>4, <2>1, Moves DEF Uses
  <1>5. CASE w.wrapped # 0
    <2>1. UNCHANGED nilUse /\ th' = [th EXCEPT ![t].pc = "wait", ![t].dl = w.wrapped]
      BY <1>5 DEF AddRange
    <2>2. /\ th'[t].pc = "wait" /\ th'[t].early = th[t].early /\ \A u \in Threads \ {t} : th'[u] = th[u]
      BY <2>1, ThreadFields, Zenon
    <2> QED
      BY <1>1, <1>2, <1>3, <1>5, <2>1, <2>2, Moves, Zenon DEF Uses
  <1> QED
    BY <1>4, <1>5, Zenon

\* Read of the wrapper, and the deferred function of ensureMultiRangeDownloader.
LEMMA EnsureWInv ==
  ASSUME IInv, WInv, ~nilUse, NEW t \in Threads, EnsureDownloader(t) \/ Downgraded(t)
  PROVE  WInv'
  <1>1. UNCHANGED <<kind, fh, w, dls>> /\ th[t].pc \in Uses
    BY Zenon DEF EnsureDownloader, Downgraded, Bounds, Uses
  <1>2. CASE Goto(t, "upgrade") /\ UNCHANGED nilUse
    <2>1. H(t) \in Handles /\ User(t)
      BY <1>1, BusyHandle, Zenon DEF WInv, Busy
    <2>2. Mgr(t).inUse /\ (th[t].early \/ Mgr(t).counted) /\ th[t].pc # "count"
      BY <1>1, <2>1, Zenon DEF User, Uses
    <2>3. \A i \in 1..Len(dls') : Live(dls'[i]) => i = w'.wrapped
      BY <1>1 DEF WInv, Owned
    <2>4. /\ th'[t].pc = "upgrade" /\ th'[t].early = th[t].early /\ \A u \in Threads \ {t} : th'[u] = th[u]
      BY <1>2, ThreadFields, Zenon
    <2> QED
      BY <1>1, <1>2, <2>1, <2>2, <2>3, <2>4, Moves, Zenon DEF Uses
  <1>3. CASE AddRange(t) /\ (w.wrapped = 0 => th[t].pc = "downgrade")
    BY <1>1, <1>3, AddRangeWInv
  <1> QED
    BY <1>2, <1>3, Zenon DEF EnsureDownloader, Downgraded, Unusable

\* ensureMultiRangeDownloader under the write lock: what it replaces was dead or is given up.
LEMMA CreateDownloaderWInv ==
  ASSUME IInv, WInv, ~nilUse, NEW t \in Threads, CreateDownloader(t)
  PROVE  WInv'
  <1>1. th[t].pc = "upgrade" /\ UNCHANGED <<kind, nilUse>>
    BY Zenon DEF CreateDownloader, Bounds
  <1>2. H(t) \in Handles /\ User(t)
    BY <1>1, BusyHandle, Zenon DEF WInv, Busy, Uses
  <1>3. Mgr(t).inUse /\ (th[t].early \/ Mgr(t).counted)
    BY <1>1, <1>2, Zenon DEF User, Uses
  <1>4. /\ w \in [ref : Int, wrapped : Nat, object : Nat \ {0}] /\ dls \in Seq(Downloader)
        /\ \A i \in 1..Len(dls) : Live(dls[i]) => i = w.wrapped
    BY DEF IInv, TypeOK, WInv, Owned
  <1>5. ASSUME Goto(t, "downgrade")
        PROVE  /\ th'[t].pc = "downgrade" /\ th'[t].early = th[t].early
               /\ \A u \in Threads \ {t} : th'[u] = th[u]
    BY <1>5, ThreadFields, Zenon
  <1> DEFINE new == [i \in 1..Len(dls) + 1 |->
                       IF i <= Len(dls)
                       THEN [dls[i] EXCEPT !.replaced = @ \/ (i = w.wrapped /\ (dls[i].dead \/ th[t].force))]
                       ELSE [gen |-> w.object, open |-> TRUE, dead |-> FALSE, replaced |-> FALSE]]
  <1>a. CASE /\ dls' = new /\ w' = [w EXCEPT !.wrapped = Len(dls) + 1] /\ Unusable(th[t].force)
             /\ Goto(t, "downgrade") /\ UNCHANGED fh
    <2>1. w'.ref = w.ref /\ w'.wrapped = Len(dls) + 1 /\ w'.wrapped # 0 /\ Len(dls) \in Nat
      BY <1>4, <1>a
    <2>2. Len(new) = Len(dls) + 1
      <3>1. DOMAIN new = 1..Len(dls) + 1 /\ Len(dls) + 1 \in Nat
        BY <2>1
      <3>2. new = [i \in 1..Len(dls) + 1 |-> new[i]]
        BY <3>1
      <3> HIDE DEF new
      <3> QED
        BY <3>1, <3>2
    <2>3. ASSUME NEW i \in 1..Len(dls) + 1, i # Len(dls) + 1 PROVE ~Live(new[i])
      <3>1. i \in 1..Len(dls) /\ i <= Len(dls) /\ i # 0
        BY <2>1, <2>3
      <3>2. dls[i] \in Downloader
        BY <1>4, <3>1
      <3> DEFINE r == dls[i].replaced \/ (i = w.wrapped /\ (dls[i].dead \/ th[t].force))
      <3>3. new[i] = [dls[i] EXCEPT !.replaced = r]
        BY <3>1
      <3>4. new[i].open = dls[i].open /\ new[i].dead = dls[i].dead /\ new[i].replaced = r
        <4> HIDE DEF r, new
        <4> QED
          BY ONLY <3>2, <3>3 DEF Downloader
      <3>5. i = w.wrapped => dls[i].dead \/ th[t].force
        BY <1>a, <3>1 DEF Unusable
      <3> QED
        BY <1>4, <3>1, <3>4, <3>5, Zenon DEF Live
    <2>4. \A i \in 1..Len(dls') : Live(dls'[i]) => i = w'.wrapped
      <3> HIDE DEF new
      <3> QED
        BY <1>a, <2>1, <2>2, <2>3, Zenon
    <2> HIDE DEF new
    <2> QED
      BY <1>1, <1>2, <1>3, <1>5, <1>a, <2>1, <2>4, Moves DEF Uses
  <1>b. CASE Finish(t, Failed) /\ UNCHANGED <<w, dls>>
    <2>1. /\ th'[t].pc = "idle" /\ \A u \in Threads \ {t} : th'[u] = th[u]
          /\ \A g \in Handles : fh'[g].mgr = fh[g].mgr
      BY <1>2, <1>b, FinishFields, Zenon
    <2> QED
      BY <1>1, <1>2, <1>3, <1>4, <1>b, <2>1, Moves, Zenon
  <1>c. CASE ~Unusable(th[t].force) /\ Goto(t, "downgrade") /\ UNCHANGED <<fh, w, dls>>
    <2>1. w.wrapped # 0
      BY <1>c, Zenon DEF Unusable
    <2> QED
      BY <1>1, <1>2, <1>3, <1>4, <1>5, <1>c, <2>1, Moves DEF Uses
  <1> QED
    BY <1>a, <1>b, <1>c DEF CreateDownloader, StillUnusable

\* The callback: a stream that broke is not live any more.
LEMMA RangeDoneWInv ==
  ASSUME IInv, IInv', WInv, ~nilUse, NEW t \in Threads, RangeDone(t)
  PROVE  WInv'
  <1> DEFINE d == th[t].dl
  <1>1. th[t].pc = "wait" /\ UNCHANGED <<kind, w, nilUse>>
    BY Zenon DEF RangeDone, Bounds
  <1>2. H(t) \in Handles /\ User(t)
    BY <1>1, BusyHandle, Zenon DEF WInv, Busy, Uses
  <1>3. Mgr(t).inUse /\ (th[t].early \/ Mgr(t).counted)
    BY <1>1, <1>2 DEF User, Uses
  <1>4. dls \in Seq(Downloader) /\ d \in 1..Len(dls) /\ \A i \in 1..Len(dls) : Live(dls[i]) => i = w.wrapped
    BY <1>1, Zenon DEF IInv, TypeOK, Locked, WInv, Owned
  <1>5. dls' = dls \/ dls' = [dls EXCEPT ![d].dead = TRUE]
    BY Zenon DEF RangeDone
  <1>6. \A i \in 1..Len(dls') : Live(dls'[i]) => i = w'.wrapped
    <2>1. Len(dls') = Len(dls) /\ \A i \in 1..Len(dls) : Live(dls'[i]) => Live(dls[i])
      <3>1. CASE dls' = dls
        BY <3>1, Zenon
      <3>2. CASE dls' = [dls EXCEPT ![d].dead = TRUE]
        <4>1. Len(dls') = Len(dls) /\ \A i \in 1..Len(dls) : i # d => dls'[i] = dls[i]
          <5> HIDE DEF d
          <5>1. DOMAIN dls' = DOMAIN dls /\ DOMAIN dls = 1..Len(dls) /\ Len(dls) \in Nat
            BY <1>4, <3>2
          <5>2. \A i \in 1..Len(dls) : i # d => dls'[i] = dls[i]
            BY <3>2, <5>1, Zenon
          <5>3. dls' \in Seq(Downloader)
            BY DEF IInv, TypeOK
          <5> QED
            BY <5>1, <5>2, <5>3
        <4>2. dls[d] \in Downloader /\ dls'[d] = [dls[d] EXCEPT !.dead = TRUE]
          <5> HIDE DEF d
          <5>1. dls[d] \in Downloader /\ d \in DOMAIN dls
            BY <1>4
          <5> QED
            BY ONLY <3>2, <5>1
        <4>3. dls'[d].dead
          BY ONLY <4>2, Zenon DEF Downloader
        <4> QED
          BY <4>1, <4>3 DEF Live
      <3> QED
        BY <1>5, <3>1, <3>2
    <2> QED
      BY <1>1, <1>4, <2>1
  <1>7. /\ th'[t].pc \in {"idle", "mrd"} /\ (th'[t].pc # "idle" => th'[t].early = th[t].early)
        /\ \A u \in Threads \ {t} : th'[u] = th[u]
        /\ \A g \in Handles : fh'[g].mgr = fh[g].mgr
    <2>1. CASE th' = [th EXCEPT ![t].pc = "mrd", ![t].force = TRUE] /\ UNCHANGED fh
      BY <2>1, ThreadFields, Zenon
    <2>2. ASSUME NEW r, Finish(t, r)
          PROVE  /\ th'[t].pc = "idle" /\ \A u \in Threads \ {t} : th'[u] = th[u]
                 /\ \A g \in Handles : fh'[g].mgr = fh[g].mgr
      BY <1>2, <2>2, FinishFields
    <2> QED
      BY <2>1, <2>2 DEF RangeDone
  <1> QED
    BY <1>1, <1>2, <1>3, <1>6, <1>7, Moves, Zenon DEF Uses

\* Every step keeps the wrapper in order.
LEMMA NextWInv == IInv /\ IInv' /\ WInv /\ [Next]_vars => WInv'
  <1> SUFFICES ASSUME IInv, IInv', WInv, [Next]_vars PROVE WInv'
    OBVIOUS
  <1>1. CASE UNCHANGED vars
    BY <1>1, Zenon DEF vars, WInv, User, InUse, Owned, Counted, H, Mgr
  <1>2. CASE ~nilUse /\ (WriteFile \/ SyncStarts \/ SyncEnds \/ SyncFails)
    BY <1>2, ApartSteps
  <1>3. ASSUME NEW h \in Handles, OpenHandle(h) \/ Destroy(h), ~nilUse PROVE WInv'
    BY <1>3, ApartSteps, DroppedSteps, Zenon
  <1>4. ASSUME NEW t \in Threads, ReadFile(t) \/ ReadSteps(t), ~nilUse PROVE WInv'
    BY <1>4, ApartSteps, DroppedSteps, UseManagerWInv, IncrementWInv, EnsureWInv,
       CreateDownloaderWInv, RangeDoneWInv, Zenon DEF ReadSteps
  <1> QED
    BY <1>1, <1>2, <1>3, <1>4 DEF Next, Progress

\* What the invariant says of the wrapper.
LEMMA WrapperInOrderHolds == IInv /\ WInv => WrapperInOrder
  <1> SUFFICES ASSUME IInv, WInv PROVE WrapperInOrder
    BY Zenon
  <1> DEFINE live == {i \in 1..Len(dls) : dls[i].open /\ ~dls[i].dead /\ ~dls[i].replaced}
  <1>1. live \in SUBSET {w.wrapped}
    BY DEF WInv, Owned, Live
  <1>2. IsFiniteSet({w.wrapped}) /\ Cardinality({w.wrapped}) = 1
    BY FS_Singleton, Zenon
  <1>3. Cardinality(live) <= 1
    <2> HIDE DEF live
    <2> QED
      BY <1>1, <1>2, FS_Subset, Zenon
  <1>4. w.ref = 0 /\ (\A t \in Threads : th[t].pc = "idle") =>
          \A i \in 1..Len(dls) : dls[i].open => dls[i].dead \/ dls[i].replaced
    <2> SUFFICES ASSUME w.ref = 0, \A t \in Threads : th[t].pc = "idle", NEW i \in 1..Len(dls), Live(dls[i])
                 PROVE  FALSE
      BY Zenon DEF Live
    <2>1. i = w.wrapped /\ w.wrapped # 0
      BY DEF WInv, Owned
    <2> QED
      BY <2>1 DEF WInv, Owned
  <1>5. /\ nilUse => \E t \in Threads : th[t].pc = "downgrade" /\ th[t].early
        /\ w.ref = Cardinality({h \in Handles : fh[h].mgr.counted})
    BY SMTT(30) DEF WInv, Owned, Counted
  <1> QED
    BY <1>3, <1>4, <1>5 DEF WrapperInOrder

\* MultiRangeDownloaderWrapper and fh.mu, for any number of threads and handles: nobody takes
\* the manager or the downloader of a read in progress away, refCount is the number of managers
\* counted, there is one downloader at most and none without a user.
THEOREM SourcesAreKept == Spec => []ReadersKeepSources
  <1>1. Init => IInv /\ WInv
    BY InitIInv, InitWInv
  <1>2. (IInv /\ WInv) /\ [Next]_vars => (IInv /\ WInv)'
    BY NextIInv, NextWInv, Zenon
  <1>3. IInv /\ WInv => ReadersKeepSources
    BY WrapperInOrderHolds DEF IInv, ReadersKeepManager, Locked, Reading, ReadersKeepSources
  <1> QED
    BY <1>1, <1>2, <1>3, PTL DEF Spec

-----------------------------------------------------------------------------
(* Close-to-open.                                                          *)

\* A handle is not ahead of the inode; its manager, which it has only while it is open, is
\* not behind the generation it was opened at.
Opened(h) ==
    /\ fh[h].openGen <= ino.gen
    /\ fh[h].mgr.gen # 0 => fh[h].open /\ fh[h].openGen <= fh[h].mgr.gen

\* A read knows the generation its handle was opened at; the source it noted is not behind
\* that, nor, without the multi-range downloader, is what it returned.
SinceOpen(t) ==
    /\ th[t].pc # "idle" => th[t].opened = fh[H(t)].openGen
    /\ th[t].pc \in Noted => th[t].opened <= th[t].src
    /\ ~kind.mrd /\ th[t].res > 0 => th[t].opened <= th[t].res

OInv == (\A h \in Handles : Opened(h)) /\ (\A t \in Threads : SinceOpen(t))

\* What the steps of a thread leave of its record.
LEMMA ThreadKeeps ==
  ASSUME IInv, NEW t \in Threads, NEW x, NEW n,
         \/ Goto(t, x) \/ th' = [th EXCEPT ![t].pc = x, ![t].dl = n]
         \/ th' = [th EXCEPT ![t].pc = x, ![t].force = TRUE]
         \/ th' = [th EXCEPT ![t].pc = x, ![t].early = n]
  PROVE  /\ th'[t].pc = x /\ th'[t].opened = th[t].opened /\ th'[t].res = th[t].res
         /\ th'[t].src = th[t].src /\ \A u \in Threads \ {t} : th'[u] = th[u]
  <1>1. th \in [Threads -> ThreadType]
    BY DEF IInv, TypeOK
  <1> QED
    BY <1>1 DEF Goto, ThreadType

\* The steps that leave the handles' generations alone.
LEMMA StillOpen ==
  ASSUME IInv, IInv', OInv, kind' = kind, ino.gen <= ino'.gen,
         \A h \in Handles : /\ fh'[h].open = fh[h].open /\ fh'[h].openGen = fh[h].openGen
                            /\ fh'[h].mgr.gen = fh[h].mgr.gen,
         \A u \in Threads : th'[u].pc # "idle" => th[u].pc # "idle" /\ th'[u].opened = th[u].opened,
         \A u \in Threads : th'[u].pc \in Noted => \/ th[u].pc \in Noted /\ th'[u].src = th[u].src
                                                   \/ th'[u].src = ino.gen,
         \A u \in Threads : ~kind.mrd /\ th'[u].res > 0 =>
                               \/ th'[u].opened = th[u].opened /\ th'[u].res = th[u].res
                               \/ th'[u].opened <= th'[u].res
  PROVE  OInv'
  <1>1. ASSUME NEW h \in Handles PROVE Opened(h)'
    <2>1. fh[h].openGen \in Nat /\ ino.gen \in Nat /\ ino'.gen \in Nat /\ Opened(h)
      BY DEF IInv, TypeOK, HandleType, OInv
    <2> QED
      BY <2>1 DEF Opened
  <1>2. ASSUME NEW u \in Threads PROVE SinceOpen(u)'
    <2>1. SinceOpen(u) /\ H(u)' = H(u)
      BY SMTT(30) DEF OInv, H
    <2>2. th[u].pc # "idle" => H(u) \in Handles /\ Opened(H(u))
      BY UserHandle DEF IInv, Locked, H, OInv
    <2> QED
      BY <2>1, <2>2 DEF SinceOpen, Opened, Noted
  <1> QED
    BY <1>1, <1>2 DEF OInv

\* A read begins: its handle is open.
LEMMA ReadFileOInv ==
  ASSUME IInv, OInv, NEW t \in Threads, ReadFile(t) PROVE OInv'
  <1>1. UNCHANGED <<kind, ino, fh>> /\ t \in DOMAIN kind.user /\ H(t) \in Handles
    BY UserHandle DEF ReadFile, IInv, H
  <1>2. /\ th'[t].opened = fh[H(t)].openGen /\ th'[t].pc \in {"idle", "wantR"}
        /\ th'[t].res > 0 => th'[t].res = ino.gen + 1
        /\ \A u \in Threads \ {t} : th'[u] = th[u]
    BY DEF ReadFile, IInv, TypeOK, Thread
  <1>3. ino.gen \in Nat /\ fh[H(t)].openGen \in Nat /\ Opened(H(t))
    BY <1>1 DEF IInv, TypeOK, HandleType, OInv
  <1>4. ASSUME NEW u \in Threads PROVE SinceOpen(u)'
    BY <1>1, <1>2, <1>3 DEF OInv, SinceOpen, Noted, Opened, H
  <1> QED
    BY <1>1, <1>4 DEF OInv, Opened

\* A handle is opened at the generation of the inode, or released with its manager.
LEMMA HandleOInv ==
  ASSUME IInv, OInv, NEW h \in Handles, OpenHandle(h) \/ Destroy(h) PROVE OInv'
  <1>1. /\ UNCHANGED <<kind, ino, th>>
        /\ \A t \in DOMAIN kind.user : H(t) = h => th[t].pc = "idle" \/ ~fh[h].open
    BY DEF OpenHandle, Destroy
  <1>2. Opened(h) /\ fh[h].openGen \in Nat /\ ino.gen \in Nat /\ fh \in [Handles -> HandleType]
    BY DEF IInv, TypeOK, HandleType, OInv
  <1>3. \A g \in Handles \ {h} : fh'[g] = fh[g]
    BY <1>2 DEF OpenHandle, Destroy
  <1>4. Opened(h)'
    <2>1. CASE OpenHandle(h)
      <3>1. fh'[h].openGen = ino.gen /\ fh'[h].mgr = fh[h].mgr /\ ~fh[h].open
        BY <1>2, <2>1 DEF OpenHandle, HandleType
      <3> QED
        BY <1>1, <1>2, <3>1 DEF Opened
    <2>2. CASE Destroy(h)
      <3>1. fh'[h].openGen = fh[h].openGen /\ fh'[h].mgr.gen = 0
        BY <1>2, <2>2 DEF Destroy, HandleType, NoManager
      <3> QED
        BY <1>1, <1>2, <3>1 DEF Opened
    <2> QED
      BY <2>1, <2>2, SMTT(30)
  <1>5. ASSUME NEW u \in Threads PROVE SinceOpen(u)'
    <2>1. th[u].pc # "idle" => H(u) \in Handles \ {h}
      BY <1>1, UserHandle DEF IInv, Locked, H
    <2> QED
      BY <1>1, <1>3, <2>1 DEF OInv, SinceOpen, H
  <1> QED
    BY <1>1, <1>3, <1>4, <1>5 DEF OInv, Opened

\* NewReadManager: the source was noted after the handle was opened.
LEMMA CreateManagerOInv ==
  ASSUME IInv, OInv, NEW t \in Threads, CreateManager(t) PROVE OInv'
  <1>1. /\ th[t].pc = "wantW" /\ UNCHANGED <<kind, ino>>
        /\ fh' = [fh EXCEPT ![H(t)].mgr = [gen |-> th[t].src, inUse |-> FALSE, counted |-> FALSE],
                            ![H(t)].waiting = @ \ {t}]
        /\ th' = [u \in Threads |->
                    IF u = t THEN [th[t] EXCEPT !.pc = "wantR2"]
                    ELSE [th[u] EXCEPT !.raced = @ \/ (th[u].pc # "idle" /\ H(u) = H(t))]]
    BY DEF CreateManager, Bounds
  <1>2. H(t) \in Handles /\ fh[H(t)].open /\ SinceOpen(t) /\ Opened(H(t))
    BY <1>1, UserHandle DEF IInv, Locked, H, OInv
  <1>3. /\ \A g \in Handles \ {H(t)} : fh'[g] = fh[g]
        /\ fh'[H(t)].mgr.gen = th[t].src /\ fh'[H(t)].open = fh[H(t)].open
        /\ fh'[H(t)].openGen = fh[H(t)].openGen
    <2>1. fh \in [Handles -> HandleType]
      BY DEF IInv, TypeOK
    <2> QED
      BY ONLY <1>1, <1>2, <2>1, Zenon DEF HandleType
  <1>4. /\ th'[t].pc = "wantR2" /\ th'[t].opened = th[t].opened /\ th'[t].res = th[t].res
        /\ \A u \in Threads \ {t} : /\ th'[u].pc = th[u].pc /\ th'[u].src = th[u].src
                                    /\ th'[u].opened = th[u].opened /\ th'[u].res = th[u].res
    <2>1. th \in [Threads -> ThreadType]
      BY DEF IInv, TypeOK
    <2> QED
      BY ONLY <1>1, <2>1, t \in Threads DEF ThreadType
  <1>5. ASSUME NEW h \in Handles PROVE Opened(h)'
    BY <1>1, <1>2, <1>3, Zenon DEF OInv, Opened, SinceOpen, Noted
  <1>6. ASSUME NEW u \in Threads PROVE SinceOpen(u)'
    <2>1. th[u].pc # "idle" => H(u) \in Handles
      BY UserHandle DEF IInv, Locked, H
    <2>2. th[u].pc # "idle" => fh'[H(u)].openGen = fh[H(u)].openGen
      BY <1>3, <2>1, SMTT(30)
    <2> QED
      BY <1>1, <1>4, <2>2, SMTT(30) DEF OInv, SinceOpen, Noted, H
  <1> QED
    BY <1>5, <1>6 DEF OInv

\* The other steps of a read.
LEMMA ReadStepsOInv ==
  ASSUME IInv, IInv', OInv, NEW t \in Threads, ReadSteps(t), ~CreateManager(t) PROVE OInv'
  <1>1. UNCHANGED <<kind, ino>> /\ th[t].pc # "idle"
    BY Zenon DEF ReadSteps, LockHandle, RelockInode, WantWrite, RLockAgain, RLock, UseManager, IncrementRefCount,
           EnsureDownloader, CreateDownloader, Downgraded, RangeDone, Bounds
  <1>2. H(t) \in Handles /\ Opened(H(t)) /\ SinceOpen(t) /\ Locked(t) /\ ino.gen \in Nat
    BY <1>1, UserHandle, Zenon DEF IInv, Locked, H, OInv, TypeOK
  <1>3. \A h \in Handles : /\ fh'[h].open = fh[h].open /\ fh'[h].openGen = fh[h].openGen
                           /\ fh'[h].mgr.gen = fh[h].mgr.gen
    <2>1. fh \in [Handles -> HandleType]
      BY DEF IInv, TypeOK
    <2>2. \/ fh' = [fh EXCEPT ![H(t)].readers = @ \union {t}]
          \/ fh' = [fh EXCEPT ![H(t)].waiting = @ \union {t}]
          \/ fh' = [fh EXCEPT ![H(t)].readers = @ \ {t}]
          \/ fh' = [fh EXCEPT ![H(t)].mgr.inUse = TRUE] \/ fh' = [fh EXCEPT ![H(t)].mgr.counted = TRUE]
          \/ UNCHANGED fh
      BY Zenon DEF ReadSteps, LockHandle, RelockInode, WantWrite, RLockAgain, RLock, UseManager, IncrementRefCount,
             EnsureDownloader, CreateDownloader, Downgraded, RangeDone, Finish
    <2> QED
      BY ONLY <1>2, <2>1, <2>2 DEF HandleType, Manager
  <1>4. /\ th'[t].pc # "idle" => th'[t].opened = th[t].opened
        /\ th'[t].pc \in Noted => \/ th[t].pc \in Noted /\ th'[t].src = th[t].src
                                  \/ th'[t].src = ino.gen
        /\ ~kind.mrd /\ th'[t].res > 0 => \/ th'[t].opened = th[t].opened /\ th'[t].res = th[t].res
                                          \/ th'[t].opened <= th'[t].res
        /\ \A u \in Threads \ {t} : th'[u] = th[u]
    <2>0. th \in [Threads -> ThreadType]
      BY DEF IInv, TypeOK
    <2>1. CASE LockHandle(t) \/ RLockAgain(t) \/ IncrementRefCount(t)
      <3>1. PICK x \in {"relock", "read", "mrd"} : Goto(t, x)
        BY <2>1 DEF LockHandle, RLockAgain, RLock, IncrementRefCount
      <3>2. /\ th'[t].pc = x /\ th'[t].opened = th[t].opened /\ th'[t].res = th[t].res
            /\ \A u \in Threads \ {t} : th'[u] = th[u]
        BY <3>1, ThreadKeeps, Zenon
      <3> QED
        BY <3>1, <3>2 DEF Noted
    <2>2. CASE RelockInode(t)
      <3>1. CASE Goto(t, "read")
        BY <2>0, <3>1 DEF Goto, ThreadType, Noted
      <3>2. CASE th' = [th EXCEPT ![t].pc = "unlocked", ![t].src = ino.gen]
        BY <2>0, <3>2 DEF ThreadType
      <3> QED
        BY <2>2, <3>1, <3>2 DEF RelockInode
    <2>3. ASSUME NEW r, Finish(t, r)
          PROVE  /\ th'[t].pc = "idle" /\ th'[t].opened = th[t].opened /\ th'[t].res = r
                 /\ \A u \in Threads \ {t} : th'[u] = th[u]
      BY <2>0, <2>3, SMTT(30) DEF Finish, Thread
    <2>4. CASE UseManager(t)
      <3>1. CASE kind.mrd
        <4>1. PICK x \in {"mrd", "count"}, e \in BOOLEAN : th' = [th EXCEPT ![t].pc = x, ![t].early = e]
          BY <2>4, <3>1, Zenon DEF UseManager
        <4> QED
          BY <4>1, ThreadKeeps, Zenon DEF Noted
      <3>2. CASE ~kind.mrd
        <4>1. Finish(t, Mgr(t).gen) \/ Finish(t, Failed)
          BY <2>4, <3>2, Zenon DEF UseManager
        <4>2. th[t].opened <= Mgr(t).gen
          BY <1>2, <2>4 DEF UseManager, Opened, SinceOpen, Locked, Reading, Mgr
        <4> QED
          BY <2>3, <4>1, <4>2 DEF Failed, Noted
      <3> QED
        BY <3>1, <3>2
    <2>5. CASE EnsureDownloader(t) \/ Downgraded(t) \/ CreateDownloader(t) \/ RangeDone(t)
      <3>1. kind.mrd
        BY <1>2, <2>5, SMTT(30) DEF EnsureDownloader, Downgraded, CreateDownloader, RangeDone, Locked, Reading
      <3>2. \/ UNCHANGED th \/ Goto(t, "upgrade") \/ Goto(t, "downgrade")
            \/ th' = [th EXCEPT ![t].pc = "wait", ![t].dl = w.wrapped]
            \/ th' = [th EXCEPT ![t].pc = "mrd", ![t].force = TRUE]
            \/ \E r : Finish(t, r)
        BY <2>5 DEF EnsureDownloader, Downgraded, CreateDownloader, RangeDone, AddRange
      <3>3. CASE UNCHANGED th
        BY <1>2, <2>5, <3>1, <3>3, SMTT(30) DEF EnsureDownloader, Downgraded, CreateDownloader, RangeDone, Noted
      <3>4. CASE \E r : Finish(t, r)
        BY <2>3, <3>1, <3>4 DEF Noted
      <3>5. CASE \/ Goto(t, "upgrade") \/ Goto(t, "downgrade")
                 \/ th' = [th EXCEPT ![t].pc = "wait", ![t].dl = w.wrapped]
                 \/ th' = [th EXCEPT ![t].pc = "mrd", ![t].force = TRUE]
        BY <2>0, <3>1, <3>5 DEF Goto, ThreadType, Noted
      <3> QED
        BY <3>2, <3>3, <3>4, <3>5, SMTT(30)
    <2>6. CASE WantWrite(t)
      <3>1. th[t].pc \in Noted /\ Goto(t, "wantW")
        BY <2>6 DEF WantWrite, Noted
      <3> QED
        BY <3>1, ThreadKeeps, Zenon
    <2> QED
      BY <2>1, <2>2, <2>4, <2>5, <2>6, Zenon DEF ReadSteps
  <1>5. ino.gen <= ino'.gen
    BY <1>1, <1>2
  <1> QED
    BY <1>1, <1>3, <1>4, <1>5, StillOpen

\* ReadWithReadManager and Read, when they use range requests: every read of a handle sees the
\* content the file had when the handle was opened, or a later one, also when another read of
\* the handle replaced the manager under it.
THEOREM ReadsFollowOpen == Spec => [](~kind.mrd => CloseToOpen)
  <1>1. Init => IInv /\ OInv
    <2>1. Init => OInv
      BY DEF Init, OInv, Opened, SinceOpen, NoManager, Thread
    <2> QED
      BY <2>1, InitIInv
  <1>2. (IInv /\ OInv) /\ [Next]_vars => (IInv /\ OInv)'
    <2> SUFFICES ASSUME IInv, OInv, IInv', [Next]_vars PROVE OInv'
      BY NextIInv
    <2>1. CASE WriteFile \/ SyncStarts \/ SyncEnds \/ SyncFails \/ UNCHANGED vars
      <3>1. UNCHANGED <<kind, fh, th>>
        BY <2>1 DEF WriteFile, SyncStarts, SyncEnds, SyncFails, vars
      <3>2. ino.gen <= ino'.gen
        BY <2>1 DEF WriteFile, SyncStarts, SyncEnds, SyncFails, vars, IInv, TypeOK
      <3> QED
        BY <3>1, <3>2, StillOpen
    <2>2. ASSUME NEW h \in Handles, OpenHandle(h) \/ Destroy(h) PROVE OInv'
      BY <2>2, HandleOInv
    <2>3. ASSUME NEW t \in Threads, ReadFile(t) \/ ReadSteps(t) PROVE OInv'
      BY <2>3, ReadFileOInv, CreateManagerOInv, ReadStepsOInv
    <2> QED
      BY <2>1, <2>2, <2>3 DEF Next, Progress
  <1>3. OInv => (~kind.mrd => CloseToOpen)
    BY DEF OInv, SinceOpen, CloseToOpen
  <1> QED
    BY <1>1, <1>2, <1>3, PTL DEF Spec
=============================================================================
