----------------------------- MODULE FileHandle -----------------------------
(***************************************************************************)
(* Reads through file handles of one inode while the inode is written:     *)
(*   internal/fs/handle/file.go: ReadWithReadManager and Read, which share *)
(*     their locking (the manager stands for either reader);               *)
(*   internal/gcsx/multi_range_downloader_wrapper.go, one per inode, and   *)
(*     its users, one per reader: client_readers/multi_range_reader.go and *)
(*     random_reader.go.                                                   *)
(*                                                                         *)
(* The content of the object is its generation.  A critical section of     *)
(* inode.mu or of the wrapper's mu without a wait inside is one step;      *)
(* Sync holds inode.mu across its upload.                                  *)
(***************************************************************************)
EXTENDS Integers, Sequences, FiniteSets

CONSTANTS Threads, Handles, Kinds

VARIABLES
    kind,   \* configuration and bounds: see KindOK
    ino,    \* the inode: generation of src, dirty, holder of mu
    fh,     \* per handle: the lock fh.mu and the read manager
    th,     \* per thread: the read in progress.  Auxiliary: the generation of the inode
            \* when it began and when its handle was opened; raced: another read of the
            \* handle replaced the manager meanwhile; early: it goes on to the downloader
            \* before the first user of its manager has counted it
    w,      \* the wrapper: refCount, Wrapped (0: nil), the generation of object
    dls,    \* the multi-range downloaders created so far
    faults, writes, calls,   \* bounds: what may still happen
    nilUse  \* auxiliary: Wrapped was nil when it was used, and the process ended

vars == <<kind, ino, fh, th, w, dls, faults, writes, calls, nilUse>>

\* mrd: reads go to the downloader (a random pattern on a zonal bucket);
\* user: the handle each thread that reads reads through.
KindOK(k) ==
    /\ k.mrd \in BOOLEAN /\ \E T \in SUBSET Threads : k.user \in [T -> Handles]
    /\ {k.faults, k.writes, k.calls} \subseteq Nat

ASSUME HandleAssumption == IsFiniteSet(Handles) /\ \A k \in Kinds : KindOK(k)

None == "none"
Failed == -1     \* the result of a read that failed; otherwise the generation read
NoManager == [gen |-> 0, inUse |-> FALSE, counted |-> FALSE]
Thread(pc, res, since, opened, raced) ==
    [pc |-> pc, src |-> 0, force |-> FALSE, dl |-> 0, res |-> res,
     since |-> since, opened |-> opened, raced |-> raced, early |-> FALSE]

Init ==
    /\ kind \in Kinds
    /\ ino = [gen |-> 1, dirty |-> FALSE, mu |-> None]
    /\ fh = [h \in Handles |-> [open |-> FALSE, readers |-> {}, waiting |-> {},
                                mgr |-> NoManager, openGen |-> 0]]
    /\ th = [t \in Threads |-> Thread("idle", 0, 0, 0, FALSE)]
    /\ w = [ref |-> 0, wrapped |-> 0, object |-> 1]
    /\ dls = <<>>
    /\ faults = kind.faults /\ writes = kind.writes /\ calls = kind.calls
    /\ nilUse = FALSE

H(t) == kind.user[t]
Mgr(t) == fh[H(t)].mgr
Goto(t, pc) == th' = [th EXCEPT ![t].pc = pc]
Bounds == UNCHANGED <<kind, writes, calls>>
Fault == faults > 0 /\ faults' = faults - 1

-----------------------------------------------------------------------------
(* The inode.                                                              *)

\* OpenFile: NewFileHandle registers the handle; its manager comes with the first read.
OpenHandle(h) ==
    /\ ~fh[h].open /\ ino.mu = None
    /\ fh' = [fh EXCEPT ![h].open = TRUE, ![h].openGen = ino.gen]
    /\ UNCHANGED <<kind, ino, th, w, dls, faults, writes, calls, nilUse>>

\* A write makes the content local; Sync (of a write, an fsync or a close) uploads it
\* under inode.mu: a new generation, which updateMRDWrapper hands to the wrapper.  When the
\* upload fails the content stays local and the source as it was.
WriteFile ==
    /\ writes > 0 /\ ino.mu = None /\ ~ino.dirty
    /\ ino' = [ino EXCEPT !.dirty = TRUE]
    /\ writes' = writes - 1
    /\ UNCHANGED <<kind, fh, th, w, dls, faults, calls, nilUse>>
SyncStarts ==
    /\ ino.dirty /\ ino.mu = None
    /\ ino' = [ino EXCEPT !.mu = "sync"]
    /\ UNCHANGED <<kind, fh, th, w, dls, faults, writes, calls, nilUse>>
SyncEnds ==
    /\ ino.mu = "sync"
    /\ ino' = [gen |-> ino.gen + 1, dirty |-> FALSE, mu |-> None]
    /\ w' = [w EXCEPT !.object = ino.gen + 1]
    /\ UNCHANGED <<kind, fh, th, dls, faults, writes, calls, nilUse>>
SyncFails ==
    /\ ino.mu = "sync" /\ Fault
    /\ ino' = [ino EXCEPT !.mu = None]
    /\ UNCHANGED <<kind, fh, th, w, dls, writes, calls, nilUse>>

-----------------------------------------------------------------------------
(* ReadWithReadManager and Read.                                           *)

\* ReadFile takes inode.mu.  While the inode's content is newer than its source it is
\* read under that lock; otherwise lockHandleAndRelockInode releases it to wait for fh.mu.
ReadFile(t) ==
    /\ t \in DOMAIN kind.user /\ th[t].pc = "idle" /\ calls > 0 /\ fh[H(t)].open /\ ino.mu = None
    /\ calls' = calls - 1
    /\ th' = [th EXCEPT ![t] =
                IF ino.dirty THEN Thread("idle", ino.gen + 1, ino.gen + 1, fh[H(t)].openGen, FALSE)
                ELSE Thread("wantR", 0, ino.gen, fh[H(t)].openGen, FALSE)]
    /\ UNCHANGED <<kind, ino, fh, w, dls, faults, writes, nilUse>>

\* A writer that waits for an RWMutex keeps new readers out.
RLock(t, next) ==
    /\ fh[H(t)].waiting = {}
    /\ fh' = [fh EXCEPT ![H(t)].readers = @ \union {t}]
    /\ Goto(t, next)
    /\ UNCHANGED <<ino, w, dls, faults, nilUse>> /\ Bounds

LockHandle(t) == th[t].pc = "wantR" /\ RLock(t, "relock")

\* (mutant: any manager will do)
isValidReadManager_Any(t) == Mgr(t).gen # 0

isValidReadManager(t) == Mgr(t).gen # 0 /\ Mgr(t).gen = ino.gen

\* (mutant: the read lock is kept while waiting for the write lock)
RelockInode_Keeps(t) ==
    /\ th[t].pc = "relock" /\ ino.mu = None
    /\ IF isValidReadManager(t)
       THEN Goto(t, "read") /\ UNCHANGED fh
       ELSE th' = [th EXCEPT ![t].pc = "unlocked", ![t].src = ino.gen] /\ UNCHANGED fh
    /\ UNCHANGED <<ino, w, dls, faults, nilUse>> /\ Bounds

\* inode.mu again.  A valid manager is used; otherwise the source is noted and
\* unlockHandleAndInode releases both locks.
RelockInode(t) ==
    /\ th[t].pc = "relock" /\ ino.mu = None
    /\ IF isValidReadManager(t)
       THEN Goto(t, "read") /\ UNCHANGED fh
       ELSE /\ th' = [th EXCEPT ![t].pc = "unlocked", ![t].src = ino.gen]
            /\ fh' = [fh EXCEPT ![H(t)].readers = @ \ {t}]
    /\ UNCHANGED <<ino, w, dls, faults, nilUse>> /\ Bounds

\* fh.mu for writing.  Readers that came in between go first.
WantWrite(t) ==
    /\ th[t].pc = "unlocked"
    /\ fh' = [fh EXCEPT ![H(t)].waiting = @ \union {t}]
    /\ Goto(t, "wantW")
    /\ UNCHANGED <<ino, w, dls, faults, nilUse>> /\ Bounds

\* (mutant: the downloader survives its last user)
DecrementRefCount_Leaks == w' = [w EXCEPT !.ref = @ - 1] /\ UNCHANGED dls

\* DecrementRefCount: the last user closes the downloader.
DecrementRefCount ==
    LET last == w.ref = 1 /\ w.wrapped # 0
    IN /\ w' = [w EXCEPT !.ref = @ - 1, !.wrapped = IF last THEN 0 ELSE @]
       /\ dls' = IF last THEN [dls EXCEPT ![w.wrapped].open = FALSE] ELSE dls

\* Destroy of a manager: MultiRangeReader.destroy if it used the wrapper.
DestroyManager(m) ==
    IF m.inUse /\ w.ref > 0 THEN DecrementRefCount ELSE UNCHANGED <<w, dls>>

\* destroyReadManager; NewReadManager for the source noted before; fh.mu is released.
CreateManager(t) ==
    /\ th[t].pc = "wantW" /\ fh[H(t)].readers = {}
    /\ DestroyManager(Mgr(t))
    /\ fh' = [fh EXCEPT ![H(t)].mgr = [gen |-> th[t].src, inUse |-> FALSE, counted |-> FALSE],
                        ![H(t)].waiting = @ \ {t}]
    /\ th' = [u \in Threads |->
                IF u = t THEN [th[t] EXCEPT !.pc = "wantR2"]
                ELSE [th[u] EXCEPT !.raced = @ \/ (th[u].pc # "idle" /\ H(u) = H(t))]]
    /\ UNCHANGED <<ino, faults, nilUse>> /\ Bounds

RLockAgain(t) == th[t].pc = "wantR2" /\ RLock(t, "read")

\* The deferred RUnlock.
Finish(t, res) ==
    /\ fh' = [fh EXCEPT ![H(t)].readers = @ \ {t}]
    /\ th' = [th EXCEPT ![t] = Thread("idle", res, @.since, @.opened, @.raced)]

\* readManager.ReadAt by a range request for the manager's generation, which fails
\* when that generation is gone, or for any other reason; or by the multi-range reader, the first use of which
\* by this manager sets isMRDInUse.
UseManager(t) ==
    /\ th[t].pc = "read"
    /\ IF kind.mrd
       THEN /\ fh' = [fh EXCEPT ![H(t)].mgr.inUse = TRUE]
            /\ th' = [th EXCEPT ![t].pc = IF Mgr(t).inUse THEN "mrd" ELSE "count",
                                ![t].early = Mgr(t).inUse /\ ~Mgr(t).counted]
            /\ UNCHANGED faults
       ELSE \/ Finish(t, Mgr(t).gen) /\ UNCHANGED faults
            \/ Mgr(t).gen # ino.gen /\ Finish(t, Failed) /\ UNCHANGED faults
            \/ Fault /\ Finish(t, Failed)
    /\ UNCHANGED <<ino, w, dls, nilUse>> /\ Bounds

\* IncrementRefCount.
IncrementRefCount(t) ==
    /\ th[t].pc = "count"
    /\ w' = [w EXCEPT !.ref = @ + 1]
    /\ fh' = [fh EXCEPT ![H(t)].mgr.counted = TRUE]
    /\ Goto(t, "mrd")
    /\ UNCHANGED <<ino, dls, faults, nilUse>> /\ Bounds

-----------------------------------------------------------------------------
(* MultiRangeDownloaderWrapper.Read.                                       *)

Unusable(force) == ~(~force /\ w.wrapped # 0 /\ ~dls[w.wrapped].dead)

\* Wrapped.Add, under mu's read lock.
AddRange(t) ==
    IF w.wrapped = 0
    THEN nilUse' = TRUE /\ UNCHANGED th
    ELSE th' = [th EXCEPT ![t].pc = "wait", ![t].dl = w.wrapped] /\ UNCHANGED nilUse

\* Read: mu is taken for reading; a usable downloader gets the range, otherwise
\* ensureMultiRangeDownloader gives the lock up to take it for writing.
EnsureDownloader(t) ==
    /\ th[t].pc = "mrd"
    /\ IF Unusable(th[t].force) THEN Goto(t, "upgrade") /\ UNCHANGED nilUse ELSE AddRange(t)
    /\ UNCHANGED <<ino, fh, w, dls, faults>> /\ Bounds

\* (mutant: the wrapper's state is not looked at again under the write lock)
StillUnusable_Assumed(t) == TRUE

StillUnusable(t) == Unusable(th[t].force)

\* The write lock: the check is repeated, a downloader for the wrapper's object is
\* created or cannot be; what it replaces is not closed.
CreateDownloader(t) ==
    /\ th[t].pc = "upgrade"
    /\ \/ /\ StillUnusable(t)
          /\ dls' = [i \in 1..Len(dls) + 1 |->
                       IF i <= Len(dls)
                       THEN [dls[i] EXCEPT !.replaced = @ \/ (i = w.wrapped /\ (dls[i].dead \/ th[t].force))]
                       ELSE [gen |-> w.object, open |-> TRUE, dead |-> FALSE, replaced |-> FALSE]]
          /\ w' = [w EXCEPT !.wrapped = Len(dls) + 1]
          /\ Goto(t, "downgrade") /\ UNCHANGED <<fh, faults>>
       \/ /\ StillUnusable(t) /\ Fault
          /\ Finish(t, Failed) /\ UNCHANGED <<w, dls>>
       \/ ~StillUnusable(t) /\ Goto(t, "downgrade") /\ UNCHANGED <<fh, w, dls, faults>>
    /\ UNCHANGED <<ino, nilUse>> /\ Bounds

\* The deferred function releases the write lock and takes the read lock again.
Downgraded(t) ==
    /\ th[t].pc = "downgrade"
    /\ AddRange(t)
    /\ UNCHANGED <<ino, fh, w, dls, faults>> /\ Bounds

\* The callback: the range of the downloader's generation; a short range, which is
\* tried once more with a new downloader; or an error, after which the stream is dead.
RangeDone(t) ==
    LET d == th[t].dl
    IN /\ th[t].pc = "wait"
       /\ \/ dls[d].open /\ ~dls[d].dead /\ Finish(t, dls[d].gen) /\ UNCHANGED <<dls, faults>>
          \/ /\ Fault /\ ~th[t].force
             /\ th' = [th EXCEPT ![t].pc = "mrd", ![t].force = TRUE] /\ UNCHANGED <<fh, dls>>
          \/ Fault /\ Finish(t, Failed) /\ dls' = [dls EXCEPT ![d].dead = TRUE]
          \/ (~dls[d].open \/ dls[d].dead) /\ Finish(t, Failed) /\ UNCHANGED <<dls, faults>>
       /\ UNCHANGED <<ino, w, nilUse>> /\ Bounds

\* (mutant: the handle is released under its readers)
Destroy_Early(h) ==
    /\ fh[h].open /\ ino.mu = None
    /\ DestroyManager(fh[h].mgr)
    /\ fh' = [fh EXCEPT ![h].open = FALSE, ![h].mgr = NoManager]
    /\ UNCHANGED <<kind, ino, th, faults, writes, calls, nilUse>>

\* ReleaseFileHandle: no read of the handle is in progress any more.
Destroy(h) ==
    /\ fh[h].open /\ ino.mu = None
    /\ \A t \in DOMAIN kind.user : H(t) = h => th[t].pc = "idle"
    /\ DestroyManager(fh[h].mgr)
    /\ fh' = [fh EXCEPT ![h].open = FALSE, ![h].mgr = NoManager]
    /\ UNCHANGED <<kind, ino, th, faults, writes, calls, nilUse>>

ReadSteps(t) ==
    \/ LockHandle(t) \/ RelockInode(t) \/ WantWrite(t) \/ CreateManager(t) \/ RLockAgain(t) \/ UseManager(t)
    \/ IncrementRefCount(t) \/ EnsureDownloader(t) \/ CreateDownloader(t) \/ Downgraded(t)
    \/ RangeDone(t)
Progress == ~nilUse /\ (SyncEnds \/ SyncFails \/ \E t \in Threads : ReadSteps(t))

Next ==
    \/ Progress
    \/ /\ ~nilUse
       /\ \/ WriteFile \/ SyncStarts
          \/ \E t \in Threads : ReadFile(t)
          \/ \E h \in Handles : OpenHandle(h) \/ Destroy(h)

\* Uploads end, GCS answers, and threads are scheduled.
Spec == Init /\ [][Next]_vars /\ WF_vars(Progress)

-----------------------------------------------------------------------------
(* Properties.                                                             *)

\* A read sees the content the file had when the read began, or a later one, unless
\* another read of the same handle replaced the manager under it: it may have noted the
\* source before this read began, and then installs an older generation.
FreshReads ==
    \A t \in Threads : th[t].res > 0 /\ ~th[t].raced => th[t].res >= th[t].since

\* Close-to-open: a read sees the content the file had when its handle was opened, or
\* a later one (docs/semantics.md: "Once a file is closed, consistency is guaranteed in
\* the following open and read immediately").
CloseToOpen ==
    \A t \in Threads : th[t].res > 0 => th[t].res >= th[t].opened

\* Whoever reads through a manager has a manager to read through and holds fh.mu
\* for reading: nobody destroys it meanwhile.
ReadersKeepManager ==
    \A t \in Threads :
        th[t].pc \in {"read", "count", "mrd", "upgrade", "downgrade", "wait"} =>
            t \in fh[H(t)].readers /\ fh[H(t)].open /\ Mgr(t).gen # 0

\* The wrapper: refCount is the number of managers that counted themselves, no two threads
\* create a downloader each, and with the last user every downloader is closed, but for dead
\* ones and those a forced recreation replaced.  Wrapped is not nil when it is used, unless
\* by a thread that did not wait for its manager to be counted (IncrementRefCount "has to be
\* called before using the MultiRangeDownloader").
WrapperInOrder ==
    /\ nilUse => \E t \in Threads : th[t].pc = "downgrade" /\ th[t].early
    /\ Cardinality({i \in 1..Len(dls) : dls[i].open /\ ~dls[i].dead /\ ~dls[i].replaced}) <= 1
    /\ w.ref = Cardinality({h \in Handles : fh[h].mgr.counted})
    /\ w.ref = 0 /\ (\A t \in Threads : th[t].pc = "idle") =>
          \A i \in 1..Len(dls) : dls[i].open => dls[i].dead \/ dls[i].replaced

\* Every read returns: releasing inode.mu before fh.mu is taken, and fh.mu before it is
\* taken for writing, never leaves threads waiting for each other.
ReadsReturn == \A t \in Threads : th[t].pc # "idle" ~> th[t].pc = "idle" \/ nilUse

\* Neither the manager nor the downloader of a read in progress is taken away, replaced or
\* duplicated by the other threads and handles (file.go, multi_range_downloader_wrapper.go).
ReadersKeepSources == ReadersKeepManager /\ WrapperInOrder
=============================================================================
