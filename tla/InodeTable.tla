----------------------------- MODULE InodeTable -----------------------------
(***************************************************************************)
(* internal/fs/fs.go: the inodes of one file name.  The file system keeps  *)
(* the live inodes (inodes), the inode of the name that is backed by a GCS *)
(* object (generationBackedInodes) and the one that has not been written   *)
(* yet (localFileInodes).  Every kernel request runs in a goroutine of its *)
(* own; a step below is one critical section of fs.mu, or what one holder  *)
(* of an inode's lock does in GCS.  Other clients write and delete the     *)
(* object at any time.                                                     *)
(***************************************************************************)
EXTENDS Integers, FiniteSets

CONSTANTS
    Threads,         \* goroutines serving requests
    Free,            \* the holder of a lock nobody holds
    MaxCalls,        \* bound: requests
    MaxGen,          \* bound: generations of the object
    MaxInodes,       \* bound: inodes minted
    Kinds            \* the scenarios: see KindsOK

IDs == 1..MaxInodes
None == 0

AllRequests == {"LookUp", "ReadDirPlus", "MkNode", "Create", "Unlink", "Rename",
                "Flush", "Write", "Forget"}
AllFaults == {"attributes", "entry", "handler", "tempFile", "upload", "baseDir"}

\* requests: the kinds of request the kernel sends; remote: what other clients do; faults:
\* the local and remote errors that may happen; gens: a write beyond this generation fails;
\* initial: the generations the object may have at mount time, 0 for none.
ASSUME KindsOK ==
    /\ Free \notin Threads /\ IsFiniteSet(Threads)
    /\ MaxCalls \in Nat /\ MaxGen \in Nat /\ MaxInodes \in Nat
    /\ \A k \in Kinds :
          /\ DOMAIN k = {"requests", "remote", "faults", "gens", "initial"}
          /\ k.requests \subseteq AllRequests /\ k.remote \subseteq {"write", "delete"}
          /\ k.faults \subseteq AllFaults /\ k.gens \in 0..MaxGen /\ k.initial \subseteq 0..k.gens

VARIABLES
    kind,        \* the scenario
    inodes, nextInodeID, generationBackedInodes, localFileInodes, fsMu,
    srcGen,      \* f.src.Generation of each inode
    local,       \* the inodes with f.local
    unlinked,    \* the inodes with f.unlinked
    dirty,       \* the inodes with something to write out (f.bwh or f.content)
    count,       \* lookup count of each inode
    lock,        \* holder of each inode's lock
    objGen,      \* generation of the object in GCS, or None
    lastGen,     \* the newest generation ever made
    kernel,      \* lookups of each inode the kernel holds
    th,          \* the goroutines
    calls,       \* auxiliary: requests so far
    failed,      \* auxiliary: what left counts or locks in disorder
    revived      \* auxiliary: the inodes answered with or put into the index after they were destroyed

tableVars == <<inodes, nextInodeID, generationBackedInodes, localFileInodes, fsMu>>
inodeVars == <<srcGen, local, unlinked, dirty>>
gcsVars == <<objGen, lastGen>>
auxVars == <<kind, calls, failed, revived>>
vars == <<tableVars, inodeVars, count, lock, gcsVars, kernel, th, auxVars>>

Idle == [op |-> "none", pc |-> "idle", in |-> None, want |-> None, core |-> None, n |-> 0,
         held |-> None]

Init ==
    /\ kind \in Kinds
    /\ inodes = {} /\ nextInodeID = 1 /\ fsMu = Free
    /\ generationBackedInodes = None /\ localFileInodes = None
    /\ srcGen = [i \in IDs |-> 0] /\ local = {} /\ unlinked = {} /\ dirty = {}
    /\ count = [i \in IDs |-> 0] /\ lock = [i \in IDs |-> Free]
    /\ objGen \in kind.initial /\ lastGen = objGen
    /\ kernel = [i \in IDs |-> 0]
    /\ th = [t \in Threads |-> Idle] /\ calls = 0 /\ failed = {} /\ revived = {}

-----------------------------------------------------------------------------
At(t, pc) == th[t].pc = pc /\ fsMu = Free
Goto(t, pc) == th' = [th EXCEPT ![t].pc = pc]
Done(t) == th' = [th EXCEPT ![t] = Idle]
Unlock(i) == lock' = [lock EXCEPT ![i] = Free]
Increment(i) == count' = [count EXCEPT ![i] = @ + 1]

\* mintInode, for an object of generation g or (g = None) for a local file.
mintInode(g) ==
    /\ nextInodeID \in IDs
    /\ nextInodeID' = nextInodeID + 1
    /\ inodes' = inodes \cup {nextInodeID}
    /\ srcGen' = [srcGen EXCEPT ![nextInodeID] = g]
    /\ local' = IF g = None THEN local \cup {nextInodeID} ELSE local
    /\ UNCHANGED <<unlinked, fsMu>>

\* What follows the acquisition of the lock of inode "want", by the place of the request.
AfterLock == [lockLocal |-> "checkLocal", lockIndex |-> "checkIndex", lockFlush |-> "flush",
              lockForget |-> "forget", lockUnlink |-> "unlink", lockInit |-> "init",
              lockCreated |-> "created", lockFailed |-> "failed", lockWrite |-> "write"]

Lock(t) ==
    /\ th[t].pc \in DOMAIN AfterLock
    /\ lock[th[t].want] = Free
    /\ lock' = [lock EXCEPT ![th[t].want] = t]
    /\ Goto(t, AfterLock[th[t].pc])
    /\ UNCHANGED <<tableVars, inodeVars, count, gcsVars, kernel, auxVars>>

-----------------------------------------------------------------------------
(* Finding an inode by name.                                               *)

\* No local file: ask GCS, except that ReadDirPlus gives up on an entry that disappeared.
NoLocalFile(t) ==
    IF th[t].op = "ReadDirPlus" THEN [th EXCEPT ![t] = Idle]
                                ELSE [th EXCEPT ![t].pc = "stat", ![t].n = 0]

\* (mutant: fs.mu is not released when there is no local file)
lookUpLocalFileInode_KeepsTable(t) ==
    /\ At(t, "local")
    /\ th' = IF localFileInodes = None THEN NoLocalFile(t)
             ELSE [th EXCEPT ![t].pc = "lockLocal", ![t].want = localFileInodes]
    /\ fsMu' = IF localFileInodes = None THEN t ELSE fsMu
    /\ UNCHANGED <<inodes, nextInodeID, generationBackedInodes, localFileInodes, inodeVars, count,
                   lock, gcsVars, kernel, auxVars>>

\* lookUpLocalFileInode: one iteration of its loop up to child.Lock().
lookUpLocalFileInode(t) ==
    /\ At(t, "local")
    /\ th' = IF localFileInodes = None THEN NoLocalFile(t)
             ELSE [th EXCEPT ![t].pc = "lockLocal", ![t].want = localFileInodes]
    /\ UNCHANGED <<tableVars, inodeVars, count, lock, gcsVars, kernel, auxVars>>

\* ... and from there: an unlinked child is none, a child that left the index is retried.
checkLocal(t) ==
    LET child == th[t].want IN
    /\ At(t, "checkLocal")
    /\ \/ /\ child \notin unlinked /\ localFileInodes = child
          /\ Increment(child)
          /\ th' = [th EXCEPT ![t].pc = "respond", ![t].in = child]
          /\ UNCHANGED lock
       \/ /\ child \in unlinked
          /\ Unlock(child)
          /\ th' = NoLocalFile(t)
          /\ UNCHANGED count
       \/ /\ child \notin unlinked /\ localFileInodes # child
          /\ Unlock(child)
          /\ th' = IF th[t].n < 2 THEN [th EXCEPT ![t].pc = "local", ![t].n = @ + 1]
                                  ELSE NoLocalFile(t)
          /\ UNCHANGED count
    /\ UNCHANGED <<tableVars, inodeVars, gcsVars, kernel, auxVars>>

\* getLookupResult, or the listing of ReadDirPlus.
LookUpChild(t) ==
    /\ At(t, "stat")
    /\ th' = IF objGen = None THEN [th EXCEPT ![t] = Idle]
             ELSE [th EXCEPT ![t].pc = "index", ![t].core = objGen, ![t].in = None]
    /\ UNCHANGED <<tableVars, inodeVars, count, lock, gcsVars, kernel, auxVars>>

\* lookUpOrCreateInodeIfNotStale: the top of its loop.
lookUpOrCreateInodeIfNotStale(t) ==
    /\ At(t, "index")
    /\ \/ /\ generationBackedInodes = None
          /\ mintInode(th[t].core)
          /\ generationBackedInodes' = nextInodeID
          /\ lock' = [lock EXCEPT ![nextInodeID] = t]
          /\ Increment(nextInodeID)
          /\ th' = [th EXCEPT ![t].pc = "respond", ![t].in = nextInodeID]
          /\ UNCHANGED <<localFileInodes, dirty>>
       \/ /\ generationBackedInodes # None
          /\ th' = [th EXCEPT ![t].pc = "lockIndex", ![t].want = generationBackedInodes]
          /\ UNCHANGED <<tableVars, inodeVars, lock, count>>
    /\ UNCHANGED <<gcsVars, kernel, auxVars>>

\* The index moved on while the inode's lock was being acquired.
IndexChanged(t) ==
    /\ At(t, "checkIndex") /\ generationBackedInodes # th[t].want
    /\ Unlock(th[t].want)
    /\ Goto(t, "index")
    /\ UNCHANGED <<tableVars, inodeVars, count, gcsVars, kernel, auxVars>>

\* (mutant: the index is not consulted again)
SameGeneration_NoRecheck(t) ==
    /\ At(t, "checkIndex")
    /\ th[t].core = srcGen[th[t].want]
    /\ Increment(th[t].want)
    /\ th' = [th EXCEPT ![t].pc = "respond", ![t].in = th[t].want]
    /\ UNCHANGED <<tableVars, inodeVars, lock, gcsVars, kernel, auxVars>>

SameGeneration(t) ==
    /\ At(t, "checkIndex") /\ generationBackedInodes = th[t].want
    /\ th[t].core = srcGen[th[t].want]
    /\ Increment(th[t].want)
    /\ th' = [th EXCEPT ![t].pc = "respond", ![t].in = th[t].want]
    /\ UNCHANGED <<tableVars, inodeVars, lock, gcsVars, kernel, auxVars>>

\* What the caller does with a nil inode.
Stale(t) ==
    IF th[t].op \in {"LookUp", "Rename"} /\ th[t].n < 2
    THEN [th EXCEPT ![t].pc = "stat", ![t].n = @ + 1]
    ELSE [th EXCEPT ![t] = Idle]

\* The record is older than the inode.
StaleRecord(t) ==
    /\ At(t, "checkIndex") /\ generationBackedInodes = th[t].want
    /\ th[t].core < srcGen[th[t].want] /\ th[t].in = None
    /\ Unlock(th[t].want)
    /\ th' = Stale(t)
    /\ UNCHANGED <<tableVars, inodeVars, count, gcsVars, kernel, auxVars>>

\* ... and an inode was minted for it on an earlier iteration: the named result "in" is
\* returned as it is, not locked, not in the index, and perhaps destroyed since.
StaleRecordMinted(t) ==
    /\ At(t, "checkIndex") /\ generationBackedInodes = th[t].want
    /\ th[t].core < srcGen[th[t].want] /\ th[t].in # None
    /\ Unlock(th[t].want)
    /\ Goto(t, "respond") /\ Increment(th[t].in)
    /\ revived' = revived \cup ({th[t].in} \ inodes)
    /\ UNCHANGED <<tableVars, inodeVars, gcsVars, kernel, kind, calls, failed>>

\* (mutant: an older record also replaces the entry)
NewerObject_AnyMismatch(t) ==
    /\ At(t, "checkIndex") /\ generationBackedInodes = th[t].want
    /\ th[t].core # srcGen[th[t].want]
    /\ Unlock(th[t].want)
    /\ mintInode(th[t].core)
    /\ generationBackedInodes' = nextInodeID
    /\ th' = [th EXCEPT ![t].pc = "lockIndex", ![t].in = nextInodeID, ![t].want = nextInodeID]
    /\ UNCHANGED <<localFileInodes, dirty, count, gcsVars, kernel, auxVars>>

\* The record is newer: mint an inode for it and go around.
NewerObject(t) ==
    /\ At(t, "checkIndex") /\ generationBackedInodes = th[t].want
    /\ th[t].core > srcGen[th[t].want]
    /\ Unlock(th[t].want)
    /\ mintInode(th[t].core)
    /\ generationBackedInodes' = nextInodeID
    /\ th' = [th EXCEPT ![t].pc = "lockIndex", ![t].in = nextInodeID, ![t].want = nextInodeID]
    /\ UNCHANGED <<localFileInodes, dirty, count, gcsVars, kernel, auxVars>>

-----------------------------------------------------------------------------
(* Letting go of an inode.                                                 *)

\* (mutant: the index entry of a destroyed inode stays)
unlockAndDecrementLookupCount_KeepsEntry(i, n) ==
    /\ count' = [count EXCEPT ![i] = @ - n]
    /\ inodes' = IF count[i] > n THEN inodes ELSE inodes \ {i}
    /\ UNCHANGED <<nextInodeID, generationBackedInodes, localFileInodes, fsMu>>
    /\ Unlock(i)

unlockAndDecrementLookupCount(i, n) ==
    /\ count' = [count EXCEPT ![i] = @ - n]
    /\ IF count[i] > n
       THEN UNCHANGED tableVars
       ELSE /\ inodes' = inodes \ {i}
            /\ generationBackedInodes' =
                 IF generationBackedInodes = i THEN None ELSE generationBackedInodes
            /\ localFileInodes' = IF localFileInodes = i THEN None ELSE localFileInodes
            /\ UNCHANGED <<nextInodeID, fsMu>>
    /\ Unlock(i)

ForgetInode(t) ==
    /\ At(t, "forget")
    /\ unlockAndDecrementLookupCount(th[t].want, th[t].n)
    /\ Done(t)
    /\ UNCHANGED <<inodeVars, gcsVars, kernel, auxVars>>

\* The end of LookUpInode, MkNode, CreateFile, ReadDirPlus: the reply.
Reply(t) ==
    /\ At(t, "respond") /\ th[t].op # "Rename"
    /\ kernel' = [kernel EXCEPT ![th[t].in] = @ + 1]
    /\ Unlock(th[t].in)
    /\ Done(t)
    /\ UNCHANGED <<tableVars, inodeVars, count, gcsVars, auxVars>>

\* (mutant: the lookup of a failed request stays counted)
ReplyError_KeepsCount(t) ==
    /\ "attributes" \in kind.faults
    /\ At(t, "respond") /\ th[t].op \in {"LookUp", "MkNode", "Create"}
    /\ Unlock(th[t].in)
    /\ Done(t)
    /\ UNCHANGED <<tableVars, inodeVars, count, gcsVars, kernel, auxVars>>

\* getAttributes failed (unlockAndMaybeDisposeOfInode).
ReplyError(t) ==
    /\ "attributes" \in kind.faults
    /\ At(t, "respond") /\ th[t].op \in {"LookUp", "MkNode", "Create"}
    /\ unlockAndDecrementLookupCount(th[t].in, 1)
    /\ Done(t)
    /\ UNCHANGED <<inodeVars, gcsVars, kernel, auxVars>>

\* ReadDirPlus: this or a later entry of the directory failed.
EntryError(t) ==
    /\ "entry" \in kind.faults
    /\ At(t, "respond") /\ th[t].op = "ReadDirPlus"
    /\ Unlock(th[t].in)
    /\ Done(t)
    /\ failed' = failed \cup {"entry"}
    /\ UNCHANGED <<tableVars, inodeVars, count, gcsVars, kernel, kind, calls, revived>>

-----------------------------------------------------------------------------
(* Creating.                                                               *)

\* createFile: an empty object, if the name does not exist.
CreateChildFile(t) ==
    /\ At(t, "mknod")
    /\ \/ /\ objGen # None \/ lastGen = kind.gens
          /\ Done(t) /\ UNCHANGED gcsVars
       \/ /\ objGen = None /\ lastGen < kind.gens
          /\ objGen' = lastGen + 1 /\ lastGen' = lastGen + 1
          /\ th' = [th EXCEPT ![t].pc = "index", ![t].core = lastGen + 1]
    /\ UNCHANGED <<tableVars, inodeVars, count, lock, kernel, auxVars>>

\* createLocalFile up to the release of fs.mu.
createLocalFile(t) ==
    /\ At(t, "create")
    /\ \/ /\ localFileInodes # None /\ localFileInodes \notin unlinked
          /\ th' = [th EXCEPT ![t].pc = "lockCreated", ![t].want = localFileInodes]
          /\ UNCHANGED <<tableVars, inodeVars>>
       \/ /\ localFileInodes = None \/ localFileInodes \in unlinked
          /\ mintInode(None)
          /\ localFileInodes' = nextInodeID
          /\ th' = [th EXCEPT ![t].pc = "lockInit", ![t].want = nextInodeID]
          /\ UNCHANGED <<generationBackedInodes, dirty>>
    /\ UNCHANGED <<count, lock, gcsVars, kernel, auxVars>>

\* The parent is instead the directory of buckets: CreateLocalChildFileCore fails, child is nil.
createLocalFileInBaseDir(t) ==
    /\ At(t, "create") /\ "baseDir" \in kind.faults
    /\ fsMu' = t
    /\ Done(t)
    /\ failed' = failed \cup {"baseDir"}
    /\ UNCHANGED <<inodes, nextInodeID, generationBackedInodes, localFileInodes, inodeVars,
                   count, lock, gcsVars, kernel, kind, calls, revived>>

\* createBufferedWriteHandlerAndSyncOrTempWriter.
InitHandler(t) ==
    /\ At(t, "init")
    /\ \/ /\ dirty' = dirty \cup {th[t].want}
          /\ Goto(t, "lockCreated")
          /\ UNCHANGED localFileInodes
       \/ /\ "handler" \in kind.faults
          /\ localFileInodes' = None
          /\ Goto(t, "lockFailed")
          /\ UNCHANGED dirty
    /\ Unlock(th[t].want)
    /\ UNCHANGED <<inodes, nextInodeID, generationBackedInodes, fsMu, srcGen, local, unlinked,
                   count, gcsVars, kernel, auxVars>>

\* (mutant: the lookup of the created file is not counted)
Created_NoIncrement(t) ==
    /\ At(t, "created")
    /\ th' = [th EXCEPT ![t].pc = "respond", ![t].in = th[t].want]
    /\ UNCHANGED <<tableVars, inodeVars, count, lock, gcsVars, kernel, auxVars>>

\* The deferred function of createLocalFile, with and without an error.  fs.mu was released
\* after the inode was put into the index: a lookup may have found the inode, been forgotten
\* and so destroyed it.
Created(t) ==
    /\ At(t, "created")
    /\ Increment(th[t].want)
    /\ th' = [th EXCEPT ![t].pc = "respond", ![t].in = th[t].want]
    /\ revived' = revived \cup ({th[t].want} \ inodes)
    /\ UNCHANGED <<tableVars, inodeVars, lock, gcsVars, kernel, kind, calls, failed>>

CreateFailed(t) ==
    /\ At(t, "failed")
    /\ Increment(th[t].want)
    /\ Done(t)
    /\ failed' = failed \cup {"handler"}
    /\ UNCHANGED <<tableVars, inodeVars, lock, gcsVars, kernel, kind, calls, revived>>

-----------------------------------------------------------------------------
(* Writing out.                                                            *)

\* The precondition of the object write: nothing there, or what the inode branched from.
Unclobbered(i) == objGen = IF i \in local THEN None ELSE srcGen[i]

\* FileInode.Flush succeeded (updateInodeStateAfterFlush).
WriteObject(i) ==
    /\ Unclobbered(i) /\ lastGen < kind.gens
    /\ objGen' = lastGen + 1 /\ lastGen' = lastGen + 1
    /\ srcGen' = [srcGen EXCEPT ![i] = lastGen + 1]
    /\ local' = local \ {i}

promoteToGenerationBacked(i) ==
    /\ localFileInodes' = None
    /\ generationBackedInodes' =
         IF generationBackedInodes = None THEN i ELSE generationBackedInodes
    /\ UNCHANGED <<inodes, nextInodeID, fsMu>>

\* ... for a rename, which holds no lookup of the inode: it may put a destroyed one there.
RevivedByRename(t) ==
    revived' = IF th[t].op = "Rename" /\ generationBackedInodes = None
               THEN revived \cup ({th[t].want} \ inodes) ELSE revived

\* After flushFile: FlushFile is done, Rename goes on.
AfterFlush(t) == IF th[t].op = "Rename" THEN Goto(t, "move") ELSE Done(t)

\* flushFile: nothing to do for an unlinked file.
FlushUnlinked(t) ==
    /\ At(t, "flush") /\ th[t].want \in unlinked
    /\ Unlock(th[t].want) /\ AfterFlush(t)
    /\ UNCHANGED <<tableVars, inodeVars, count, gcsVars, kernel, auxVars>>

FlushClean(t) ==
    LET f == th[t].want IN
    /\ At(t, "flush") /\ f \notin unlinked /\ f \notin dirty
    /\ promoteToGenerationBacked(f) /\ RevivedByRename(t)
    /\ Unlock(f) /\ AfterFlush(t)
    /\ UNCHANGED <<inodeVars, count, gcsVars, kernel, kind, calls, failed>>

\* The object is written, then the maps are updated; the inode's lock is held throughout.
FlushObject(t) ==
    LET f == th[t].want IN
    /\ At(t, "flush") /\ f \notin unlinked /\ f \in dirty
    /\ WriteObject(f) /\ dirty' = dirty \ {f}
    /\ Goto(t, "promote")
    /\ UNCHANGED <<tableVars, unlinked, count, lock, kernel, auxVars>>

Promote(t) ==
    /\ At(t, "promote")
    /\ promoteToGenerationBacked(th[t].want) /\ RevivedByRename(t)
    /\ Unlock(th[t].want) /\ AfterFlush(t)
    /\ UNCHANGED <<inodeVars, count, gcsVars, kernel, kind, calls, failed>>

FlushFails(t) ==
    LET f == th[t].want IN
    /\ At(t, "flush") /\ f \notin unlinked /\ f \in dirty
    /\ ~Unclobbered(f) \/ "upload" \in kind.faults \/ lastGen = kind.gens
    /\ localFileInodes' = None
    /\ Unlock(f) /\ Done(t)
    /\ UNCHANGED <<inodes, nextInodeID, generationBackedInodes, fsMu, inodeVars, count,
                   gcsVars, kernel, auxVars>>

\* WriteFile: in order, or to the temp file.
WriteFile(t) ==
    /\ At(t, "write")
    /\ th[t].want \in dirty \/ Unclobbered(th[t].want)
    /\ dirty' = dirty \cup {th[t].want}
    /\ Unlock(th[t].want) /\ Done(t)
    /\ UNCHANGED <<tableVars, srcGen, local, unlinked, count, gcsVars, kernel, auxVars>>

\* The file was clobbered before its first write, or GCS fails.
WriteFails(t) ==
    /\ At(t, "write")
    /\ "upload" \in kind.faults \/ (th[t].want \notin dirty /\ ~Unclobbered(th[t].want))
    /\ Unlock(th[t].want) /\ Done(t)
    /\ UNCHANGED <<tableVars, inodeVars, count, gcsVars, kernel, auxVars>>

\* Out of order in a streamed file: finalize, then write to the temp file.
WriteOutOfOrder(t) ==
    LET f == th[t].want IN
    /\ At(t, "write") /\ f \in dirty
    /\ WriteObject(f)
    /\ \/ dirty' = dirty /\ Goto(t, "promote") /\ UNCHANGED lock
       \/ "tempFile" \in kind.faults /\ dirty' = dirty \ {f} /\ Unlock(f) /\ Done(t)
    /\ UNCHANGED <<tableVars, unlinked, count, kernel, auxVars>>

-----------------------------------------------------------------------------
(* Unlink and Rename.                                                      *)

UnlinkFind(t) ==
    /\ At(t, "find")
    /\ LET isLocalFile == localFileInodes # None
           in == IF isLocalFile THEN localFileInodes ELSE generationBackedInodes
       IN th' = [th EXCEPT ![t].want = in, ![t].n = IF isLocalFile THEN 1 ELSE 0,
                           ![t].pc = IF in # None THEN "lockUnlink" ELSE "delete"]
    /\ UNCHANGED <<tableVars, inodeVars, count, lock, gcsVars, kernel, auxVars>>

UnlinkInode(t) ==
    /\ At(t, "unlink")
    /\ unlinked' = unlinked \cup {th[t].want}
    /\ Unlock(th[t].want)
    /\ IF th[t].n = 1 THEN Done(t) ELSE Goto(t, "delete")
    /\ UNCHANGED <<tableVars, srcGen, local, dirty, count, gcsVars, kernel, auxVars>>

\* DeleteChildFile: the latest generation, or a failure.
DeleteChildFile(t) ==
    /\ At(t, "delete")
    /\ objGen' = None
    /\ Done(t)
    /\ UNCHANGED <<tableVars, inodeVars, count, lock, lastGen, kernel, auxVars>>

\* Rename drops the lookup count it took, without looking at the result.
RenameFound(t) ==
    /\ At(t, "respond") /\ th[t].op = "Rename"
    /\ count' = [count EXCEPT ![th[t].in] = @ - 1]
    /\ Unlock(th[t].in)
    /\ th' = [th EXCEPT ![t].pc = "lockFlush", ![t].want = th[t].in]
    /\ UNCHANGED <<tableVars, inodeVars, gcsVars, kernel, auxVars>>

\* atomicRename: RenameFile moves the generation flushed, if it is still there.
RenameFile(t) ==
    /\ At(t, "move")
    /\ objGen' = IF objGen = srcGen[th[t].want] THEN None ELSE objGen
    /\ Done(t)
    /\ UNCHANGED <<tableVars, inodeVars, count, lock, lastGen, kernel, auxVars>>

-----------------------------------------------------------------------------
(* The kernel and the other clients.                                       *)

DirRequests == {"LookUp", "ReadDirPlus", "MkNode", "Create", "Unlink", "Rename"}
Exclusive == {"MkNode", "Create", "Unlink", "Rename"}
Running(ops) == \E t \in Threads : th[t].op \in ops

\* The kernel sends a request; until it is answered the kernel refers to inode "held".
Start(t, op, pc, i, held, n) ==
    /\ op \in kind.requests
    /\ th[t] = Idle /\ calls < MaxCalls
    /\ calls' = calls + 1
    /\ th' = [th EXCEPT ![t] = [Idle EXCEPT !.op = op, !.pc = pc, !.want = i, !.n = n, !.held = held]]
    /\ UNCHANGED <<tableVars, inodeVars, count, lock, gcsVars, kind, failed, revived>>

\* The kernel lists under the directory's lock, shared, and changes it under that lock,
\* exclusive; the lookup that revalidates a cached entry is under no lock.  It creates a
\* file after a lookup that found no object.
DirRequest(t) ==
    /\ \/ Start(t, "LookUp", "local", None, None, 0)
       \/ /\ ~Running(Exclusive)
          /\ \/ Start(t, "ReadDirPlus", "stat", None, None, 0)
             \/ /\ localFileInodes # None /\ localFileInodes \notin unlinked
                /\ Start(t, "ReadDirPlus", "local", None, None, 0)
       \/ /\ ~Running(Exclusive \cup {"ReadDirPlus"})
          /\ \/ objGen = None /\ Start(t, "MkNode", "mknod", None, None, 0)
             \/ objGen = None /\ Start(t, "Create", "create", None, None, 0)
             \/ \E i \in IDs :
                  /\ kernel[i] > 0
                  /\ \/ Start(t, "Unlink", "find", None, i, 0)
                     \/ Start(t, "Rename", "local", None, i, 0)
    /\ UNCHANGED kernel

\* An open file is written and flushed; the kernel forgets a file at any time, but keeps a
\* lookup of one that a request refers to.
FileRequest(t) ==
    \E i \in IDs :
    /\ kernel[i] > 0
    /\ \/ Start(t, "Flush", "lockFlush", i, i, 0) /\ UNCHANGED kernel
       \/ Start(t, "Write", "lockWrite", i, i, 0) /\ UNCHANGED kernel
       \/ \E n \in 1..kernel[i] :
            /\ n = kernel[i] => \A u \in Threads : th[u].held # i
            /\ Start(t, "Forget", "lockForget", i, None, n)
            /\ kernel' = [kernel EXCEPT ![i] = @ - n]

RemoteWrite ==
    /\ "write" \in kind.remote /\ lastGen < kind.gens
    /\ objGen' = lastGen + 1 /\ lastGen' = lastGen + 1
    /\ UNCHANGED <<tableVars, inodeVars, count, lock, kernel, th, auxVars>>

RemoteDelete ==
    /\ "delete" \in kind.remote /\ objGen # None
    /\ objGen' = None
    /\ UNCHANGED <<tableVars, inodeVars, count, lock, lastGen, kernel, th, auxVars>>

Step(t) ==
    \/ Lock(t) \/ lookUpLocalFileInode(t) \/ checkLocal(t) \/ LookUpChild(t)
    \/ lookUpOrCreateInodeIfNotStale(t) \/ IndexChanged(t) \/ SameGeneration(t)
    \/ StaleRecord(t) \/ StaleRecordMinted(t) \/ NewerObject(t) \/ ForgetInode(t) \/ Reply(t) \/ ReplyError(t)
    \/ EntryError(t) \/ CreateChildFile(t) \/ createLocalFile(t)
    \/ createLocalFileInBaseDir(t) \/ InitHandler(t) \/ Created(t) \/ CreateFailed(t)
    \/ FlushUnlinked(t) \/ FlushClean(t) \/ FlushObject(t) \/ Promote(t) \/ FlushFails(t)
    \/ WriteFile(t) \/ WriteFails(t) \/ WriteOutOfOrder(t) \/ UnlinkFind(t)
    \/ UnlinkInode(t) \/ DeleteChildFile(t) \/ RenameFound(t) \/ RenameFile(t)

Next ==
    \/ \E t \in Threads : Step(t) \/ DirRequest(t) \/ FileRequest(t)
    \/ RemoteWrite \/ RemoteDelete

Spec == Init /\ [][Next]_vars /\ \A t \in Threads : WF_vars(Step(t))
-----------------------------------------------------------------------------
(* Properties.                                                             *)

\* Type invariant: the variables have the shapes of the code's fields.
Places == {"idle", "local", "checkLocal", "stat", "index", "checkIndex", "respond", "mknod",
           "create", "init", "created", "failed", "flush", "promote", "write", "find", "unlink",
           "delete", "move", "forget"} \cup DOMAIN AfterLock
Thread == [op : AllRequests \cup {"none"}, pc : Places, in : IDs \cup {None},
           want : IDs \cup {None}, core : 0..MaxGen, n : Nat, held : IDs \cup {None}]

TypeOK ==
    /\ kind \in Kinds
    /\ inodes \subseteq IDs /\ nextInodeID \in Nat \ {0}
    /\ generationBackedInodes \in IDs \cup {None} /\ localFileInodes \in IDs \cup {None}
    /\ fsMu \in Threads \cup {Free}
    /\ srcGen \in [IDs -> 0..MaxGen]
    /\ local \subseteq IDs /\ unlinked \subseteq IDs /\ dirty \subseteq IDs
    /\ count \in [IDs -> Nat] /\ kernel \in [IDs -> Nat]
    /\ lock \in [IDs -> Threads \cup {Free}]
    /\ objGen \in 0..kind.gens /\ lastGen \in 0..kind.gens
    /\ calls \in 0..MaxCalls /\ failed \subseteq AllFaults /\ revived \subseteq IDs
    /\ th \in [Threads -> Thread]

\* The lookups of inode i a request has counted and the kernel does not hold (yet or any more).
Answering(i) == {t \in Threads : th[t].pc = "respond" /\ th[t].in = i}
Forgetting(i) == {p \in Threads \X (1..MaxCalls) :
                     th[p[1]].op = "Forget" /\ th[p[1]].want = i /\ p[2] <= th[p[1]].n}
InFlight(i) == Cardinality(Answering(i)) + Cardinality(Forgetting(i))

\* gcsfuse and the kernel agree on every lookup count, whatever way a request ends: this is
\* what unlockAndMaybeDisposeOfInode is for, and without it inodes leak or vanish.  Only a
\* failed ReadDirPlus or a failed CreateFile leaves a lookup too many, nothing one too few.
LookupCountsAgree ==
    \A i \in IDs : /\ count[i] >= kernel[i] + InFlight(i)
                   /\ failed \cap {"entry", "handler"} = {} => count[i] = kernel[i] + InFlight(i)

\* An inode the kernel may still name is in the table: inodeOrDie never panics, however the
\* forgets of one generation race with the lookups that replace it.  Three places hold an
\* inode whose lookup they have not counted, or have given back, while its lock is free:
\* lookUpOrCreateInodeIfNotStale, which returns one it minted on an earlier iteration,
\* createLocalFile and Rename.  An inode destroyed meanwhile comes back through them and
\* through nothing else ("revived"); a flush or a write never brings one back.
Live == inodes \cup revived
KernelInodesLive == \A i \in IDs : kernel[i] + InFlight(i) > 0 => i \in Live

\* checkInvariants: both indexes refer only to inodes of the table, so a lookup never
\* revives an inode that a concurrent forget destroyed (with the same exception).
IndexesLive == {generationBackedInodes, localFileInodes} \subseteq Live \cup {None}

\* fs.go, generationBackedInodes: "Crucially, we never replace an up to date entry with a
\* stale one", though the stat, the comparison and the replacement are separate steps.
IndexNeverRegresses ==
    [][generationBackedInodes # None /\ generationBackedInodes' \notin {None, generationBackedInodes}
         => srcGen'[generationBackedInodes'] > srcGen[generationBackedInodes]]_vars

\* A request that has returned holds neither fs.mu nor any inode's lock, unless it is a
\* CreateFile that failed to make the write handler or was for the directory of buckets.
NoLockAfterReturn ==
    failed \cap {"handler", "baseDir"} = {} =>
    \A t \in Threads : th[t] = Idle => fsMu # t /\ \A i \in IDs : lock[i] # t

\* Every request is answered: no order of lock acquisitions blocks, and the loop of
\* lookUpOrCreateInodeIfNotStale ends once the other clients pause (the two failures of
\* CreateFile above are the exception: what they leave locked blocks the others).
RequestsReturn ==
    \A t \in Threads :
        th[t].pc # "idle" ~> th[t].pc = "idle" \/ failed \cap {"handler", "baseDir"} # {}

\* The table, its two indexes, the lookup counts and the locks agree with what the kernel
\* and the running requests hold, at every step of every request (checkInvariants,
\* unlockAndMaybeDisposeOfInode, inodeOrDie).
TableInOrder ==
    TypeOK /\ LookupCountsAgree /\ KernelInodesLive /\ IndexesLive /\ NoLockAfterReturn
=============================================================================
