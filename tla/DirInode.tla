------------------------------ MODULE DirInode ------------------------------
(***************************************************************************)
(* A directory and its type cache (fs/inode/dir.go), the requests of the   *)
(* file system on its children (fs/fs.go) and its listing                  *)
(* (fs/handle/dir_handle.go), over the stat cache of FastStatBucket.       *)
(*                                                                         *)
(* "top" is the directory, Names are its children.  A request holds the    *)
(* lock of "top" (or of a child directory n, for what is below "n/")       *)
(* across its calls to the bucket.  Lookups share the lock; all else takes *)
(* it alone.  A local file, a file that has no object yet, is in local.    *)
(* Flushes and writes of files hold the lock of the file only, which       *)
(* orders nothing here.                                                    *)
(***************************************************************************)
EXTENDS FastStatBucket, Sequences
LOCAL INSTANCE SequencesExt

CONSTANTS Callers,    \* requests of the kernel that may be in progress at once
          Scenarios   \* the mounts considered, each with the requests made of
                      \* it (pairs of an operation and a name) and
                      \* the kinds of object it may start with.  cacheFaults of
                      \* a mount: its file cache may fail to drop a file

VARIABLES types,      \* dirInode.cache, the type cache
          lock,       \* dirInode.mu of "top" and of the child directories
          local,      \* fs.localFileInodes, the names that are not unlinked
          implicit,   \* fs.implicitDirInodes
          req,        \* the requests in progress
          workload,   \* the requests made in this behaviour
          typeTaint   \* history: why a type may differ from the bucket

dirVars == <<types, lock, local, implicit, req, workload, typeTaint>>
vars == <<mode, objects, folders, clock, stat, call, taint, dirVars>>

Types == {"unknown", "regular", "explicit", "implicit", "nonexistent"}
Dirs == {"top"} \cup Names
CallSlots == Callers \X {"file", "dir"}   \* the slots of FastStatBucket
F(p) == <<p, "file">>
D(p) == <<p, "dir">>

\* A request: its names, its step (pc), the name it looks up on the way and
\* the step that follows, the type a lookup gave, the version of the file, and
\* that of the child it moves.
\* A listing has the local files it started from, the names still to list and
\* what it listed.  History: the types the name it looks up has had since the
\* lookup began, the names that have existed since the listing began.
NoReq == [op |-> "none", name |-> {}, to |-> {}, pc |-> "idle", find |-> {}, then |-> "idle",
          type |-> "unknown", gen |-> 0, child |-> 0, locals |-> {}, todo |-> {}, listed |-> {},
          kinds |-> {}, stable |-> {}]

\* The type the bucket gives a name: the directory hides the file.
Kind(n) ==
  IF mode.hierarchical = "yes" /\ n \in folders THEN "explicit"
  ELSE IF mode.hierarchical = "no" /\ objects[Key("dir", n)] # 0 THEN "explicit"
  ELSE IF mode.hierarchical = "no" /\ mode.implicitDirs /\ objects[Key("child", n)] # 0 THEN "implicit"
  ELSE IF objects[Key("file", n)] # 0 THEN "regular" ELSE "nonexistent"
Exists(n) == n \in local \/ Kind(n) # "nonexistent"

Free == [readers |-> {}, writer |-> {}]

\* Mutant: a lookup does not wait for the writer.
RLock_Barging(d, p) == lock' = [lock EXCEPT ![d].readers = @ \cup {p}]

RLock(d, p) == /\ lock[d].writer = {}
               /\ lock' = [lock EXCEPT ![d].readers = @ \cup {p}]

\* Mutant: nobody is waited for.
Lock_Barging(d, p) == lock' = [lock EXCEPT ![d].writer = @ \cup {p}]

Lock(d, p) == /\ lock[d] = Free
              /\ lock' = [lock EXCEPT ![d].writer = {p}]
Unlocked(p, ds) == [d \in Dirs |-> IF d \in ds THEN [readers |-> lock[d].readers \ {p}, writer |-> lock[d].writer \ {p}] ELSE lock[d]]
Unlock(p, ds) == lock' = Unlocked(p, ds)
----------------------------------------------------------------------------
\* typeCache.Insert and Erase
InsertType(n, t) == types' = [types EXCEPT ![n] = t]
EraseType(n) == types' = [types EXCEPT ![n] = "unknown"]

\* Names whose type a request may yet insert.
Inserting(r) == r.find \cup r.todo \cup r.to \cup (IF r.op = "create local" THEN r.name ELSE {})

\* History.  A type that is gone, with no request left to bring it back, is
\* forgotten.
SettledTypes(tnt) ==
  typeTaint' = [n \in Names |-> IF types'[n] = "unknown" /\ \A p \in Callers : n \notin Inserting(req'[p])
                                THEN {} ELSE tnt[n]]

Asked(n) == \E r \in workload : r[2] = n
Idle(p, op, n) == req[p].pc = "idle" /\ <<op, n>> \in workload
New(op, n, to, pc) == [NoReq EXCEPT !.op = op, !.name = {n}, !.to = to, !.pc = pc]
Become(p, r) == req' = [req EXCEPT ![p] = r]
BecomeAndForget(p, r) ==   \* history: names that exist no more are not stable
  req' = [q \in Callers |-> [(IF q = p THEN r ELSE req[q]) EXCEPT !.stable = {n \in @ : Exists(n)'}]]
At(p, pc) == req[p].pc = pc
Name(p) == CHOOSE n \in req[p].name : TRUE
To(p) == CHOOSE n \in req[p].to : TRUE

\* The single call of p, on its file slot: sent, and answered.
Call(p, op, key, to, under, gen) ==
  Exchange({F(p), D(p)}, [s \in {F(p)} |-> Sent(op, {key}, to, under, gen)])
Answered(p) == \A s \in {F(p), D(p)} : call[s].pc \in {"idle", "done"}
Answer(p) == call[F(p)]
Return(p) == Exchange({F(p), D(p)}, [s \in {} |-> NoCall])
NoExchange == UNCHANGED <<mode, objects, folders, clock, stat, call, taint>>
Constant == UNCHANGED <<workload, implicit>>
----------------------------------------------------------------------------
\* Lookups.  lookUpOrCreateChildInode asks for a local file first, then for
\* the lock; a request that looks a name up on its way goes on at "then".
LookUp(p, n) ==
  /\ Idle(p, "lookup", n)
  /\ Become(p, [New("lookup", n, {}, "find") EXCEPT !.find = {n}, !.kinds = {Kind(n)}])
  /\ NoExchange /\ Constant /\ UNCHANGED <<types, lock, local, typeTaint>>

Sought(p) == CHOOSE n \in req[p].find : TRUE
Finding(r, n, then) == [r EXCEPT !.pc = "find", !.find = {n}, !.then = then, !.kinds = {Kind(n)}]

lookUpLocalFileInode(p) ==
  /\ At(p, "find")
  /\ IF Sought(p) \notin local THEN Become(p, [req[p] EXCEPT !.pc = "lookup"])
     ELSE IF req[p].then = "idle" THEN Become(p, NoReq)
     ELSE Become(p, [req[p] EXCEPT !.pc = req[p].then, !.find = {}, !.type = "regular", !.kinds = {}])
  /\ types' = types
  /\ SettledTypes(typeTaint)
  /\ NoExchange /\ Constant /\ UNCHANGED <<lock, local>>

\* lookUpFile, lookUpExplicitDir, lookUpImplicitOrExplicitDir, lookUpHNSDir
FileCall(n) == Sent("stat", {Key("file", n)}, {}, {"top"}, 0)
DirCall(n, implicitToo) ==
  Sent(IF mode.hierarchical = "yes" THEN "get folder" ELSE IF implicitToo THEN "list" ELSE "stat",
       {Key("dir", n)}, {}, {"top"}, 0)

\* LookUpChild: the cached type decides what is asked of the bucket.
LookUpChild(p) ==
  LET n == Sought(p)
      slots == CASE types[n] = "explicit" -> {D(p)}
                 [] types[n] = "regular" -> {F(p)}
                 [] types[n] = "unknown" -> {F(p), D(p)}
                 [] OTHER -> {}
  IN /\ At(p, "lookup")
     /\ RLock("top", p)
     /\ Exchange({}, [s \in slots |-> IF s = F(p) THEN FileCall(n)
                                      ELSE DirCall(n, types[n] = "unknown" /\ mode.implicitDirs)])
     /\ Become(p, [req[p] EXCEPT !.pc = "asked", !.type = types[n]])
     /\ Constant /\ UNCHANGED <<types, local, typeTaint>>

\* What the answers of the bucket say of the name.
DirAnswer(c, n) ==
  IF c.status # "ok" THEN "nonexistent"
  ELSE IF n \in c.dirs \/ c.found[Key("dir", n)] # 0 THEN "explicit"
  ELSE IF c.found[Key("child", n)] # 0 THEN "implicit" ELSE "nonexistent"

\* Mutant: an error of the bucket counts as an absent object.
LookUpResult_IgnoresErrors(p) ==
  LET dir == IF req[p].type = "implicit" THEN "implicit" ELSE DirAnswer(call[D(p)], Sought(p))
  IN IF dir # "nonexistent" THEN dir ELSE IF call[F(p)].status = "ok" THEN "regular" ELSE "nonexistent"

LookUpResult(p) ==
  LET n == Sought(p)
      dir == IF req[p].type = "implicit" THEN "implicit" ELSE DirAnswer(call[D(p)], n)
  IN IF \E s \in {F(p), D(p)} : call[s].status = "error" THEN "error"
     ELSE IF dir # "nonexistent" THEN dir
     ELSE IF call[F(p)].status = "ok" THEN "regular" ELSE "nonexistent"

TaintOf(n) == UNION {taint[k] : k \in {j \in Keys : j[2] = n}}   \* history

\* LookUpChild, from group.Wait on
LookUpAnswer(p) ==
  LET n == Sought(p)
      result == LookUpResult(p)
  IN /\ At(p, "asked") /\ Answered(p)
     /\ IF result \in {"regular", "explicit", "implicit"} THEN InsertType(n, result)
        ELSE IF result = "nonexistent" /\ mode.nonexistentTypeCache /\ req[p].type = "unknown"
             THEN InsertType(n, "nonexistent") ELSE types' = types
     /\ Become(p, IF req[p].then = "idle" THEN NoReq
                  ELSE [req[p] EXCEPT !.pc = req[p].then, !.find = {}, !.type = result, !.kinds = {},
                                      !.gen = call[F(p)].found[Key("file", n)]])
     /\ Unlock(p, {"top"})
     /\ Return(p)
     /\ SettledTypes([typeTaint EXCEPT ![n] = @ \cup TaintOf(n)])
     /\ implicit' = implicit \cup (IF result = "implicit" THEN {n} ELSE {})
     /\ UNCHANGED <<local, workload>>

\* The child that was looked up is missing or not of the kind the request needs.
GiveUp(p) ==
  /\ \/ At(p, "rmdir list") /\ req[p].type \notin {"explicit", "implicit"}
     \/ At(p, "rename") /\ req[p].type \in {"error", "nonexistent"}
     \/ At(p, "rename lock") /\ req[p].type # "explicit"
     \/ At(p, "flat old")     \* or there are local files below it
  /\ Become(p, NoReq)
  /\ types' = types
  /\ SettledTypes(typeTaint)
  /\ NoExchange /\ Constant /\ UNCHANGED <<lock, local>>

\* lookUpConflicting, the lookup of "n\n": the directory first, then the file;
\* the type cache has no part in it.
LookUpConflicting(p, n) ==
  /\ Idle(p, "conflicting", n) /\ n \notin local
  /\ RLock("top", p)
  /\ Exchange({}, [s \in {D(p)} |-> DirCall(n, mode.implicitDirs)])
  /\ Become(p, New("conflicting", n, {}, "conflict dir"))
  /\ Constant /\ UNCHANGED <<types, local, typeTaint>>

ConflictingFile(p) ==
  /\ At(p, "conflict dir") /\ Answered(p)
  /\ call[D(p)].status # "error" /\ DirAnswer(call[D(p)], Name(p)) # "nonexistent"
  /\ Exchange({D(p)}, [s \in {F(p)} |-> FileCall(Name(p))])
  /\ Become(p, [req[p] EXCEPT !.pc = "conflict file"])
  /\ Constant /\ UNCHANGED <<types, lock, local, typeTaint>>

ConflictingAnswer(p) ==
  /\ Answered(p)
  /\ \/ At(p, "conflict file")
     \/ At(p, "conflict dir") /\ (call[D(p)].status = "error" \/ DirAnswer(call[D(p)], Name(p)) = "nonexistent")
  /\ Return(p)
  /\ Unlock(p, {"top"})
  /\ Become(p, NoReq)
  /\ types' = types
  /\ SettledTypes(typeTaint)
  /\ Constant /\ UNCHANGED local
----------------------------------------------------------------------------
\* The last step of a request: the answers are taken, the types set (ts), the
\* locks of ds released.
EndWith(p, ts, ds) ==
  /\ types' = ts
  /\ Become(p, NoReq)
  /\ Return(p)
  /\ Unlock(p, ds)
  /\ SettledTypes(typeTaint)
  /\ Constant

Typed(n, t) == [types EXCEPT ![n] = t]
Succeeded(p) == Answer(p).status = "ok"

\* A request takes the lock of a directory, sets types, and calls the bucket.
StartCall(p, r, ts, op, key, to, under, gen) ==
  /\ \A d \in under : Lock(d, p)
  /\ types' = ts
  /\ Become(p, r)
  /\ Call(p, op, key, to, under, gen)
  /\ SettledTypes(typeTaint)
  /\ Constant /\ UNCHANGED local

\* CreateChildFile, CreateChildSymlink and CreateChildDir.  The kernel asks
\* to create only what does not exist.
CreateChild(p, n, op) ==
  /\ Idle(p, op, n) /\ ~Exists(n)
  /\ \/ /\ op = "create"
        /\ StartCall(p, New(op, n, {n}, "created"), types, "create", Key("file", n), {}, {"top"}, 0)
     \/ /\ op = "mkdir" /\ mode.hierarchical = "no"
        /\ StartCall(p, New(op, n, {n}, "created"), types, "create", Key("dir", n), {}, {"top"}, 0)
     \/ /\ op = "mkdir" /\ mode.hierarchical = "yes"
        /\ StartCall(p, New(op, n, {n}, "created"), types, "create folder", Key("dir", n), {}, {"top"}, 0)

ChildCreated(p) ==
  /\ At(p, "created") /\ Answered(p)
  /\ EndWith(p, IF Succeeded(p) THEN Typed(Name(p), IF req[p].op = "create" THEN "regular" ELSE "explicit") ELSE types, {"top"})
  /\ UNCHANGED local

\* createLocalFile: the file is local at once, its type is inserted later, or
\* never, when its writer cannot be made.
CreateLocal(p, n) ==
  /\ Idle(p, "create local", n) /\ ~Exists(n)
  /\ local' = local \cup {n}
  /\ Become(p, New("create local", n, {}, "insert type"))
  /\ types' = types
  /\ SettledTypes([typeTaint EXCEPT ![n] = @ \cup (IF \E q \in Callers : n \in Inserting(req[q]) THEN {"overlap"} ELSE {})])
  /\ NoExchange /\ Constant /\ UNCHANGED lock

InsertFileIntoTypeCache(p) ==
  /\ At(p, "insert type")
  /\ \/ /\ lock["top"] = Free
        /\ InsertType(Name(p), "regular")
        /\ local' = local
     \/ /\ types' = types
        /\ local' = local \ {Name(p)}
  /\ NoExchange /\ Constant
  /\ BecomeAndForget(p, NoReq)
  /\ SettledTypes(typeTaint)
  /\ UNCHANGED lock

\* A flush makes the object of a local file, which then is local no more; nor
\* is it when the flush fails: flushFile treats the file as unlinked.
\* The lock of the file keeps other flushes of it out.
Flushing(n) == \E q \in Callers : n \in req[q].name /\ req[q].pc \in {"insert type", "flushed", "rename flushed"}
FlushLocal(p, n) ==
  /\ Idle(p, "flush", n) /\ n \in local /\ ~Flushing(n)
  /\ Become(p, New("flush", n, {}, "flushed"))
  /\ Call(p, "create", Key("file", n), {}, {}, 0)
  /\ Constant /\ UNCHANGED <<types, lock, local, typeTaint>>

LocalFlushed(p) ==
  /\ At(p, "flushed") /\ Answered(p)
  /\ local' = local \ req[p].name
  /\ types' = types
  /\ Return(p)
  /\ Constant
  /\ BecomeAndForget(p, NoReq)
  /\ SettledTypes(typeTaint)
  /\ UNCHANGED lock

\* A file that has an object is written back or read: no lock of a directory.
UseFile(p, n, op) ==
  LET k == Key(IF op = "replace child" THEN "child" ELSE "file", n)
  IN /\ Idle(p, op, n) /\ n \notin local /\ objects[k] # 0
     /\ Become(p, New(op, n, {}, "used"))
     /\ Call(p, IF op = "read" THEN "read" ELSE "replace", k, {}, {}, objects[k])
     /\ Constant /\ UNCHANGED <<types, lock, local, typeTaint>>

FileUsed(p) ==
  /\ At(p, "used") /\ Answered(p)
  /\ EndWith(p, types, {})
  /\ UNCHANGED local

\* Unlink: a local file has nothing to delete.
UnlinkLocal(p, n) ==
  /\ Idle(p, "unlink", n) /\ n \in local
  /\ local' = local \ {n}
  /\ NoExchange /\ Constant
  /\ BecomeAndForget(p, NoReq)
  /\ UNCHANGED <<types, lock, typeTaint>>

Unlink(p, n) ==
  /\ Idle(p, "unlink", n) /\ n \notin local /\ Kind(n) = "regular"
  /\ Become(p, New("unlink", n, {}, "delete file"))
  /\ NoExchange /\ Constant /\ UNCHANGED <<types, lock, local, typeTaint>>

\* DeleteChildFile: any version, or for a rename exactly the one it copied
DeleteChildFile(p) ==
  /\ At(p, "delete file")
  /\ StartCall(p, [req[p] EXCEPT !.pc = "file deleted"], Typed(Name(p), "unknown"),
               "delete", Key("file", Name(p)), {}, {"top"}, req[p].gen)

DeletedTypes(p) == IF Succeeded(p) THEN Typed(Name(p), "unknown") ELSE types
ChildFileDeleted(p) ==
  /\ At(p, "file deleted") /\ Answered(p)
  /\ EndWith(p, DeletedTypes(p), {"top"})
  /\ UNCHANGED local

\* nonAtomicRename, when invalidateChildFileCacheIfExist fails: it returns and
\* leaves the parent locked.
ChildFileKeptInCache(p) ==
  /\ At(p, "file deleted") /\ Answered(p) /\ req[p].op = "rename" /\ mode.cacheFaults
  /\ types' = DeletedTypes(p)
  /\ Become(p, NoReq)
  /\ Return(p)
  /\ lock' = [lock EXCEPT !["top"].writer = {"nonAtomicRename"}]
  /\ SettledTypes(typeTaint)
  /\ Constant /\ UNCHANGED local
----------------------------------------------------------------------------
\* RmDir: the child is looked up and locked, and found empty; then, the lock
\* of the child given back, it is deleted under the lock of the parent.
RmDir(p, n) ==
  /\ Idle(p, "rmdir", n) /\ Kind(n) \in {"explicit", "implicit"}
  /\ Become(p, Finding(New("rmdir", n, {}, "find"), n, "rmdir list"))
  /\ NoExchange /\ Constant /\ UNCHANGED <<types, lock, local, typeTaint>>

RmDirList(p) ==
  /\ At(p, "rmdir list") /\ req[p].type \in {"explicit", "implicit"}
  /\ StartCall(p, [req[p] EXCEPT !.pc = "rmdir listed"], types, "children", Key("dir", Name(p)), {}, {Name(p)}, 0)

RmDirListed(p) ==
  /\ At(p, "rmdir listed") /\ Answered(p)
  /\ types' = types
  /\ Become(p, IF Succeeded(p) /\ Answer(p).found[Key("child", Name(p))] = 0
               THEN [req[p] EXCEPT !.pc = "delete dir"] ELSE NoReq)
  /\ Return(p)
  /\ Unlock(p, {Name(p)})
  /\ SettledTypes(typeTaint)
  /\ Constant /\ UNCHANGED local

\* DeleteChildDir, of the child of RmDir, of a directory whose descendants have
\* been moved ("rename dir"), or of the empty folder a rename replaces.  A directory counts as implicit when an inode for an implicit
\* directory of its name is left, whatever the lookup found.
Victim(p) == IF req[p].op = "rename" THEN To(p) ELSE Name(p)
isImplicitDir(p) == req[p].op # "rename" /\ Name(p) \in implicit
DeleteImplicitDir(p) ==
  /\ At(p, "delete dir") /\ isImplicitDir(p)
  /\ lock["top"] = Free
  /\ EraseType(Victim(p))
  /\ Become(p, NoReq)
  /\ SettledTypes(typeTaint)
  /\ NoExchange /\ Constant /\ UNCHANGED <<lock, local>>

DeleteChildDir(p) ==
  /\ At(p, "delete dir") /\ ~isImplicitDir(p)
  /\ StartCall(p, [req[p] EXCEPT !.pc = "dir deleted"], Typed(Victim(p), "unknown"),
               "delete", Key("dir", Victim(p)), {}, {"top"}, 0)

DeleteFolder(p) ==
  /\ At(p, "dir deleted") /\ Answered(p) /\ mode.hierarchical = "yes"
  /\ Become(p, [req[p] EXCEPT !.pc = "folder deleted"])
  /\ Call(p, "delete folder", Key("dir", Victim(p)), {}, {"top"}, 0)
  /\ Constant /\ UNCHANGED <<types, lock, local, typeTaint>>

ChildDirDeleted(p) ==
  /\ Answered(p)
  /\ At(p, "folder deleted") \/ (At(p, "dir deleted") /\ mode.hierarchical = "no")
  /\ types' = IF Succeeded(p) THEN Typed(Victim(p), "unknown") ELSE types
  /\ Become(p, IF req[p].op = "rename" THEN [req[p] EXCEPT !.pc = "rename folder"] ELSE NoReq)
  /\ Return(p)
  /\ Unlock(p, {"top"})
  /\ SettledTypes(typeTaint)
  /\ Constant /\ UNCHANGED local
----------------------------------------------------------------------------
\* Rename: the child is looked up, and unlocked again.  The kernel has one
\* rename in the directory at a time, and asks for what makes sense to it.
Renamable(n, m) ==
  /\ m \notin local
  /\ \/ (n \in local \/ Kind(n) = "regular") /\ Kind(m) \in {"regular", "nonexistent"}
     \/ Kind(n) = "explicit" /\ mode.hierarchical = "yes" /\ Kind(m) \in {"explicit", "nonexistent"}
     \/ Kind(n) \in {"explicit", "implicit"} /\ mode.hierarchical = "no" /\ Kind(m) # "regular"
Rename(p, n, m) ==
  /\ Idle(p, "rename", n) /\ n # m /\ Renamable(n, m)
  /\ \A q \in Callers : req[q].op \notin {"rename", "rename dir"}
  /\ Become(p, Finding(New("rename", n, {m}, "find"), n, "rename"))
  /\ NoExchange /\ Constant /\ UNCHANGED <<types, lock, local, typeTaint>>

\* renameFile: flushPendingWrites first
FlushPendingWrites(p) ==
  /\ At(p, "rename") /\ req[p].type = "regular" /\ ~Flushing(Name(p))
  /\ IF Name(p) \in local
     THEN /\ Become(p, [req[p] EXCEPT !.pc = "rename flushed"])
          /\ Call(p, "create", Key("file", Name(p)), {}, {}, 0)
     ELSE Become(p, [req[p] EXCEPT !.pc = "rename file"]) /\ NoExchange
  /\ Constant /\ UNCHANGED <<types, lock, local, typeTaint>>

PendingWritesFlushed(p) ==
  /\ At(p, "rename flushed") /\ Answered(p)
  /\ types' = types
  /\ local' = local \ req[p].name
  /\ Return(p)
  /\ Constant
  /\ BecomeAndForget(p, IF Succeeded(p) THEN [req[p] EXCEPT !.pc = "rename file", !.gen = Answer(p).found[Key("file", Name(p))]]
                        ELSE NoReq)
  /\ SettledTypes(typeTaint)
  /\ UNCHANGED lock

\* atomicRename: RenameFile erases the name of the object, which is the name
\* of the child only in the root directory; then the new type is inserted.
AtomicRename(p) ==
  /\ At(p, "rename file") /\ mode.atomicRename
  /\ StartCall(p, [req[p] EXCEPT !.pc = "file moved"], types,
               "move", Key("file", Name(p)), {Key("file", To(p))}, {"top"}, req[p].gen)

\* Mutant: the type of the new name is not inserted.
MovedTypes_NotInserted(p) == IF mode.root THEN Typed(Name(p), "unknown") ELSE types

MovedTypes(p) ==
  [n \in Names |-> IF n = Name(p) /\ mode.root THEN "unknown"
                   ELSE IF n = To(p) /\ Succeeded(p) THEN "regular" ELSE types[n]]
AtomicallyRenamed(p) ==
  /\ At(p, "file moved") /\ Answered(p)
  /\ EndWith(p, MovedTypes(p), {"top"})
  /\ UNCHANGED local

\* When invalidateChildFileCacheIfExist fails it returns before the insertion.
MovedFileKeptInCache(p) ==
  /\ At(p, "file moved") /\ Answered(p) /\ Succeeded(p) /\ mode.cacheFaults
  /\ types' = IF mode.root THEN Typed(Name(p), "unknown") ELSE types
  /\ Become(p, NoReq)
  /\ Return(p)
  /\ Unlock(p, {"top"})
  /\ SettledTypes([typeTaint EXCEPT ![To(p)] = @ \cup {"not inserted"}])
  /\ Constant /\ UNCHANGED local

\* nonAtomicRename: CloneToChildFile; then, under the lock again,
\* DeleteChildFile
CloneToChildFile(p) ==
  /\ At(p, "rename file") /\ ~mode.atomicRename
  /\ StartCall(p, [req[p] EXCEPT !.pc = "file copied"], Typed(To(p), "unknown"),
               "copy", Key("file", Name(p)), {Key("file", To(p))}, {"top"}, req[p].gen)

\* Mutant: the old file is deleted although the copy failed.
AfterClone_Always(p) == [req[p] EXCEPT !.pc = "delete file"]

AfterClone(p) == IF Succeeded(p) THEN [req[p] EXCEPT !.pc = "delete file"] ELSE NoReq
ClonedToChildFile(p) ==
  /\ At(p, "file copied") /\ Answered(p)
  /\ types' = IF Succeeded(p) THEN Typed(To(p), "regular") ELSE types
  /\ Become(p, AfterClone(p))
  /\ Return(p)
  /\ Unlock(p, {"top"})
  /\ SettledTypes(typeTaint)
  /\ Constant /\ UNCHANGED local

\* renameHierarchicalDir: both directories are looked up and locked; an empty
\* destination is deleted first.  When the destination is not empty its lock
\* stays taken: it is not among the inodes released at the end.
RenameHierarchicalDir(p) ==
  /\ At(p, "rename") /\ req[p].type = "explicit" /\ mode.hierarchical = "yes"
  /\ Become(p, Finding(req[p], Name(p), "rename lock"))
  /\ NoExchange /\ Constant /\ UNCHANGED <<types, lock, local, typeTaint>>

LockOldDir(p) ==
  /\ At(p, "rename lock") /\ req[p].type = "explicit"
  /\ Lock(Name(p), p)
  /\ Become(p, Finding(req[p], To(p), "rename to"))
  /\ NoExchange /\ Constant /\ UNCHANGED <<types, local, typeTaint>>

CheckDirNotEmpty(p) ==
  /\ At(p, "rename to")
  /\ \/ /\ req[p].type = "explicit"
        /\ StartCall(p, [req[p] EXCEPT !.pc = "rename check"], types, "children", Key("dir", To(p)), {}, {To(p)}, 0)
     \/ /\ req[p].type # "explicit"
        /\ Become(p, [req[p] EXCEPT !.pc = "rename folder"])
        /\ NoExchange /\ Constant /\ UNCHANGED <<types, lock, local, typeTaint>>

DirNotEmptyChecked(p) ==
  /\ At(p, "rename check") /\ Answered(p)
  /\ \/ /\ Succeeded(p) /\ Answer(p).found[Key("child", To(p))] = 0
        /\ Become(p, [req[p] EXCEPT !.pc = "delete dir"])
        /\ lock' = lock
     \/ /\ ~Succeeded(p) \/ Answer(p).found[Key("child", To(p))] # 0
        /\ Become(p, NoReq)
        /\ lock' = [Unlocked(p, {Name(p)}) EXCEPT ![To(p)].writer = {"renameHierarchicalDir"}]
  /\ types' = types
  /\ Return(p)
  /\ SettledTypes(typeTaint)
  /\ Constant /\ UNCHANGED local

\* RenameFolder: the names erased from the type cache, "n/", are never in it.
RenameFolder(p) ==
  /\ At(p, "rename folder")
  /\ StartCall(p, [req[p] EXCEPT !.pc = "folder renamed"], types,
               "rename folder", Key("dir", Name(p)), {Key("dir", To(p))}, {"top"}, 0)

FolderRenamed(p) ==
  /\ At(p, "folder renamed") /\ Answered(p)
  /\ EndWith(p, types, {"top", Name(p), To(p)})
  /\ UNCHANGED local

\* renameNonHierarchicalDir: the old directory is locked and its descendants are
\* listed; the new one is made, or found empty, and locked too; the descendants
\* are copied and deleted, or moved, one by one; the locks are given back and the
\* old directory is deleted.  Whatever fails on the way ends the rename there.
RenameNonHierarchicalDir(p) ==
  /\ At(p, "rename") /\ req[p].type \in {"explicit", "implicit"} /\ mode.hierarchical = "no"
  /\ Become(p, Finding([req[p] EXCEPT !.op = "rename dir"], Name(p), "flat old"))
  /\ NoExchange /\ Constant /\ UNCHANGED <<types, lock, local, typeTaint>>

ReadDescendants(p) ==
  /\ At(p, "flat old") /\ req[p].type \in {"explicit", "implicit"}
  /\ StartCall(p, [req[p] EXCEPT !.pc = "descendants"], types, "children", Key("dir", Name(p)), {}, {Name(p)}, 0)

CreateNewDir(p) ==
  LET child == Answer(p).found[Key("child", Name(p))]
  IN /\ At(p, "descendants") /\ Answered(p) /\ Succeeded(p) /\ (child = 0 \/ mode.renameDirLimit > 0)
     /\ StartCall(p, [req[p] EXCEPT !.pc = "flat made", !.child = child], types,
                  "create", Key("dir", To(p)), {}, {"top"}, 0)

\* That the new directory exists already is no failure.
NewDirMade(p) ==
  /\ At(p, "flat made") /\ Answered(p) /\ Answer(p).status # "error"
  /\ types' = IF Succeeded(p) THEN Typed(To(p), "explicit") ELSE types
  /\ Become(p, Finding(req[p], To(p), "flat new"))
  /\ Return(p)
  /\ Unlock(p, {"top"})
  /\ SettledTypes(typeTaint)
  /\ Constant /\ UNCHANGED local

CheckNewDir(p) ==
  /\ At(p, "flat new") /\ req[p].type \in {"explicit", "implicit"}
  /\ StartCall(p, [req[p] EXCEPT !.pc = "flat check"], types, "children", Key("dir", To(p)), {}, {To(p)}, 0)

\* The next call on the descendant, or the end of the loop.
CallOnChild(p, pc, op, from, to) ==
  /\ Become(p, [req[p] EXCEPT !.pc = pc])
  /\ Call(p, op, Key("child", from), {Key("child", m) : m \in to}, IF to = {} THEN {from} ELSE to, req[p].child)
  /\ Constant /\ UNCHANGED <<types, lock, local, typeTaint>>

MoveDescendant(p) ==
  /\ At(p, "flat check") /\ Answered(p) /\ Succeeded(p) /\ Answer(p).found[Key("child", To(p))] = 0
  /\ req[p].child # 0
  /\ IF mode.atomicRename THEN CallOnChild(p, "child moved", "move", Name(p), {To(p)})
     ELSE CallOnChild(p, "child copied", "copy", Name(p), {To(p)})

DescendantCopied(p) ==
  /\ At(p, "child copied") /\ Answered(p) /\ Succeeded(p)
  /\ CallOnChild(p, "child moved", "delete", Name(p), {})

DescendantsMoved(p) ==
  /\ Answered(p) /\ Succeeded(p)
  /\ \/ At(p, "child moved")
     \/ At(p, "flat check") /\ req[p].child = 0 /\ Answer(p).found[Key("child", To(p))] = 0
  /\ types' = types
  /\ Become(p, [req[p] EXCEPT !.pc = "delete dir"])
  /\ Return(p)
  /\ Unlock(p, {Name(p), To(p)})
  /\ SettledTypes(typeTaint)
  /\ Constant /\ UNCHANGED local

\* releaseInodes, at a return in between
RenameDirStops(p) ==
  /\ Answered(p)
  /\ \/ At(p, "descendants") /\ (~Succeeded(p) \/ (Answer(p).found[Key("child", Name(p))] # 0 /\ mode.renameDirLimit = 0))
     \/ At(p, "flat made") /\ Answer(p).status = "error"
     \/ At(p, "flat new") /\ req[p].type \notin {"explicit", "implicit"}
     \/ At(p, "flat check") /\ (~Succeeded(p) \/ Answer(p).found[Key("child", To(p))] # 0)
     \/ (At(p, "child copied") \/ At(p, "child moved")) /\ ~Succeeded(p)
     \/ At(p, "child moved") /\ mode.cacheFaults     \* invalidateChildFileCacheIfExist fails
  /\ EndWith(p, types, {"top", Name(p), To(p)})
  /\ UNCHANGED local
----------------------------------------------------------------------------
\* Requests on a child n/x: they hold the lock of n.  A lookup shares it.
ChildRequest(p, n, op) ==
  /\ Idle(p, op, n) /\ Kind(n) \in {"explicit", "implicit"}
  /\ Become(p, New(op, n, {}, "child"))
  /\ NoExchange /\ Constant /\ UNCHANGED <<types, lock, local, typeTaint>>

ChildOp(op) == CASE op = "stat child" -> "stat" [] op = "create child" -> "create" [] op = "unlink child" -> "delete"
ChildCall(p) ==
  /\ At(p, "child")
  /\ IF req[p].op = "stat child" THEN RLock(Name(p), p) ELSE Lock(Name(p), p)
  /\ Become(p, [req[p] EXCEPT !.pc = "child done"])
  /\ Call(p, ChildOp(req[p].op), Key("child", Name(p)), {}, {Name(p)}, 0)
  /\ Constant /\ UNCHANGED <<types, local, typeTaint>>

ChildDone(p) ==
  /\ At(p, "child done") /\ Answered(p)
  /\ EndWith(p, types, {Name(p)})
  /\ UNCHANGED local
----------------------------------------------------------------------------
\* ReadDir: the local files, then under the lock the pages of the listing, of
\* one name each, then the names put right.
ReadDir(p) ==
  /\ Idle(p, "list", "top")
  /\ Become(p, [NoReq EXCEPT !.op = "list", !.pc = "list", !.locals = local, !.todo = {n \in Names : Asked(n)},
                             !.stable = {n \in Names : Exists(n)}])
  /\ NoExchange /\ Constant /\ UNCHANGED <<types, lock, local, typeTaint>>

NextName(todo) == CHOOSE n \in todo : TRUE
EnsureEntries(p) ==
  /\ At(p, "list")
  /\ StartCall(p, [req[p] EXCEPT !.pc = "page"], types, "page", Key("dir", NextName(req[p].todo)), {}, {"top"}, 0)

\* readObjects: the entries a page has for the name, and the types inserted
\* for them, in the order of a map.
PageTypes(c, n) ==
  (IF c.found[Key("file", n)] # 0 THEN {"regular"} ELSE {})
  \cup (IF mode.hierarchical = "yes" THEN IF n \in c.dirs THEN {"explicit"} ELSE {}
        ELSE IF c.found[Key("dir", n)] # 0 THEN {"explicit"}
        ELSE IF mode.implicitDirs /\ n \in c.dirs THEN {"implicit"} ELSE {})
Inserted(ts, n) == IF ts = {} THEN {types} ELSE {Typed(n, t) : t \in ts}

ReadObjects(p) ==
  LET n == NextName(req[p].todo)
      ts == PageTypes(Answer(p), n)
      left == req[p].todo \ {n}
      listed == req[p].listed \cup {<<t, n>> : t \in ts}
  IN /\ At(p, "page") /\ Answered(p) /\ Succeeded(p)
     /\ types' \in Inserted(ts, n)
     /\ Become(p, [req[p] EXCEPT !.pc = IF left = {} THEN "listed" ELSE "page", !.todo = left, !.listed = listed])
     /\ IF left = {} THEN Return(p) ELSE Call(p, "page", Key("dir", NextName(left)), {}, {"top"}, 0)
     /\ SettledTypes([typeTaint EXCEPT ![n] = @ \cup (IF Cardinality(ts) > 1 THEN {"conflict"} ELSE {})])
     /\ Constant /\ UNCHANGED <<lock, local>>

ReadDirEnd(p) ==
  /\ \/ At(p, "listed")
     \/ At(p, "page") /\ Answered(p) /\ ~Succeeded(p)
  /\ EndWith(p, types, {"top"})
  /\ UNCHANGED local

\* Mutant: the local files are those of the end of the listing.
LocalEntries_Late(p) == local

\* LocalFileEntries, taken under fs.mu before the listing starts
LocalEntries(p) == req[p].locals

\* fixConflictingNames, for the entries of one name in the order the sort
\* left them: a local file that has been flushed meanwhile is listed once, a
\* file beside a directory gets the marker.
fixConflictingNames(entries, isLocal) ==
  LET isDir(e) == e \in {"explicit", "implicit"}
      step(out, e) ==
        LET prev == out[Len(out)]
        IN IF out = <<>> \/ prev.marked THEN Append(out, [kind |-> e, marked |-> FALSE])
           ELSE IF isDir(e) = isDir(prev.kind)
                THEN IF isLocal /\ ~isDir(e) THEN out ELSE Append(out, [kind |-> "weird", marked |-> FALSE])
           ELSE IF isDir(e) THEN Append([out EXCEPT ![Len(out)].marked = TRUE], [kind |-> e, marked |-> FALSE])
           ELSE Append(out, [kind |-> e, marked |-> TRUE])
  IN FoldLeft(step, <<>>, entries)

\* The possible answers for a name.
EntriesOf(p, n) == {e[1] : e \in {x \in req[p].listed : x[2] = n}} \cup (IF n \in LocalEntries(p) THEN {"local"} ELSE {})
Shown(p, n) ==
  LET es == EntriesOf(p, n)
  IN {fixConflictingNames(s, n \in LocalEntries(p)) : s \in SetToSeqs(es)}
----------------------------------------------------------------------------
\* What the bucket did shows in the histories of the requests.
Observe(cause) ==
  /\ req' = [q \in Callers |->
               [req[q] EXCEPT !.kinds = @ \cup {Kind(n)' : n \in req[q].find},
                              !.stable = {n \in @ : Exists(n)'}]]
  /\ SettledTypes([n \in Names |-> typeTaint[n] \cup (IF Kind(n)' # Kind(n) THEN cause[n] ELSE {})])

\* A change of the type of a name is expected of the requests that hold the
\* lock of the directory, and of the flush of a local file, unless it is the
\* destination of a folder or nobody hears of it.
Causes(s, n) ==
  (IF call[s].under = {"top"} \/ (call[s].op = "create" /\ n \in local) THEN {} ELSE {"unlocked"})
  \cup (IF call[s].op = "rename folder" THEN {"renamed"} ELSE {})
  \cup (IF call'[s].status = "error" THEN {"lost"} ELSE {})

Bucket(s) ==
  /\ Serve(s)
  /\ UNCHANGED <<types, lock, local, implicit, workload>>
  /\ Observe([n \in Names |-> Causes(s, n)])

Answering(s) == Fill(s) /\ UNCHANGED dirVars

Remote(k) ==
  /\ <<"remote", k[2]>> \in workload
  /\ OtherClient(k)
  /\ UNCHANGED <<types, lock, local, implicit, workload>>
  /\ Observe([n \in Names |-> {"remote"}])

\* The kernel forgets a directory nobody uses.
ForgetInode(n) ==
  /\ <<"forget", n>> \in workload /\ n \in implicit
  /\ \A p \in Callers : n \notin req[p].name
  /\ implicit' = implicit \ {n}
  /\ NoExchange /\ UNCHANGED <<types, lock, local, req, workload, typeTaint>>

\* Entries of either cache expire or are evicted.
Expire ==
  /\ \/ /\ \E k \in Keys : <<"expire", k[2]>> \in workload /\ Drop(k)
        /\ UNCHANGED dirVars
     \/ /\ \E n \in Names : <<"expire", n>> \in workload /\ types[n] # "unknown" /\ EraseType(n)
        /\ req' = req
        /\ SettledTypes(typeTaint)
        /\ NoExchange /\ Constant /\ UNCHANGED <<lock, local>>
----------------------------------------------------------------------------
\* A bucket with anything in it that the requests are about, and empty caches.
Init ==
  /\ \E s \in Scenarios :
       /\ mode = s.mode
       /\ workload = s.requests
       /\ objects \in {os \in [Keys -> 0..1] : \A k \in Keys : os[k] # 0 => k[1] \in s.holds /\ Asked(k[2])}
  /\ folders \in IF mode.hierarchical = "yes"
                 THEN {fs \in SUBSET {n \in Names : Asked(n)} : \A n \in Names : (\E k \in Below(n) : objects[k] # 0) => n \in fs}
                 ELSE {{}}
  /\ clock = 1
  /\ stat = [k \in Keys |-> NoEntry]
  /\ call = [s \in Slots |-> NoCall]
  /\ taint = [k \in Keys |-> {}]
  /\ types = [n \in Names |-> "unknown"]
  /\ lock = [d \in Dirs |-> Free]
  /\ local = {} /\ implicit = {}
  /\ req = [p \in Callers |-> NoReq]
  /\ typeTaint = [n \in Names |-> {}]

Lookups(p) ==
  \/ \E n \in Names : LookUp(p, n) \/ LookUpConflicting(p, n)
  \/ lookUpLocalFileInode(p) \/ LookUpChild(p) \/ LookUpAnswer(p) \/ GiveUp(p)
  \/ ConflictingFile(p) \/ ConflictingAnswer(p)

Files(p) ==
  \/ \E n \in Names : \/ CreateChild(p, n, "create") \/ CreateLocal(p, n) \/ FlushLocal(p, n)
                      \/ UseFile(p, n, "replace") \/ UseFile(p, n, "read") \/ UseFile(p, n, "replace child")
                      \/ UnlinkLocal(p, n) \/ Unlink(p, n)
  \/ InsertFileIntoTypeCache(p) \/ LocalFlushed(p) \/ FileUsed(p)
  \/ DeleteChildFile(p) \/ ChildFileDeleted(p) \/ ChildFileKeptInCache(p)

Directories(p) ==
  \/ \E n \in Names : CreateChild(p, n, "mkdir") \/ RmDir(p, n)
  \/ ChildCreated(p) \/ RmDirList(p) \/ RmDirListed(p)
  \/ DeleteImplicitDir(p) \/ DeleteChildDir(p) \/ DeleteFolder(p) \/ ChildDirDeleted(p)

Renames(p) ==
  \/ \E n, m \in Names : Rename(p, n, m)
  \/ FlushPendingWrites(p) \/ PendingWritesFlushed(p) \/ AtomicRename(p) \/ AtomicallyRenamed(p) \/ MovedFileKeptInCache(p)
  \/ CloneToChildFile(p) \/ ClonedToChildFile(p)
  \/ RenameHierarchicalDir(p) \/ LockOldDir(p) \/ CheckDirNotEmpty(p) \/ DirNotEmptyChecked(p)
  \/ RenameFolder(p) \/ FolderRenamed(p)
  \/ RenameNonHierarchicalDir(p) \/ ReadDescendants(p) \/ CreateNewDir(p) \/ NewDirMade(p) \/ CheckNewDir(p)
  \/ MoveDescendant(p) \/ DescendantCopied(p) \/ DescendantsMoved(p) \/ RenameDirStops(p)

Children(p) ==
  \/ \E n \in Names : \E op \in {"stat child", "create child", "unlink child"} : ChildRequest(p, n, op)
  \/ ChildCall(p) \/ ChildDone(p)

Listings(p) == ReadDir(p) \/ EnsureEntries(p) \/ ReadObjects(p) \/ ReadDirEnd(p)

Next ==
  \/ \E p \in Callers : Lookups(p) \/ Files(p) \/ Directories(p) \/ Renames(p) \/ Children(p) \/ Listings(p)
  \/ \E s \in Slots : Bucket(s) \/ Answering(s)
  \/ \E k \in Keys : Remote(k)
  \/ \E n \in Names : ForgetInode(n)
  \/ Expire

Spec == Init /\ [][Next]_vars
----------------------------------------------------------------------------
Causal == {"locked", "unlocked", "remote", "prefix", "lost", "overlap", "renamed", "conflict", "not inserted"}

NeverReleased == {"renameHierarchicalDir", "nonAtomicRename"}   \* who keeps a lock for ever

\* Every variable keeps its type; an entry of the stat cache and of the type
\* cache is one of those stat_cache.go and type_cache.go define.
TypeOK ==
  /\ \E s \in Scenarios : mode = s.mode /\ workload = s.requests
  /\ objects \in [Keys -> 0..MaxVersion] /\ clock \in 0..MaxVersion /\ folders \subseteq Names
  /\ stat \in [Keys -> Entries]
  /\ \A s \in Slots : DOMAIN call[s] = DOMAIN NoCall /\ call[s].found \in Found
                      /\ call[s].status \in Statuses /\ call[s].gen \in 0..MaxVersion
  /\ taint \in [Keys -> SUBSET Causal] /\ typeTaint \in [Names -> SUBSET Causal]
  /\ types \in [Names -> Types]
  /\ lock \in [Dirs -> [readers : SUBSET Callers, writer : {{}} \cup {{p} : p \in Callers \cup NeverReleased}]]
  /\ local \subseteq Names /\ implicit \subseteq Names
  /\ \A p \in Callers : DOMAIN req[p] = DOMAIN NoReq

\* The stat cache is never wrong about what only this mount changes: once no
\* call on a name is in progress its entry agrees with the bucket, whatever
\* failed or was answered late, unless two calls on it overlapped, another
\* client changed it, or a folder was renamed (fast_stat_bucket.go: the
\* invalidations before a call and the insertions after it).
CachedIsCurrent == \A k \in Keys : taint[k] = {} /\ ~Busy(k) => Agrees(k)

\* The lock of a directory orders what is done under it: no object of it
\* changes while another request under the same lock has a call on it in
\* progress, lookups in parallel included (LockForChildLookup).
DirLockOrders == \A k \in Keys : "locked" \notin taint[k]

\* Whoever holds the lock of a directory is a request in progress: every path out of every
\* request gives its locks back, but two.  renameHierarchicalDir keeps that of the
\* destination when it is not empty, never that of the parent; nonAtomicRename keeps that
\* of the parent when the file cache cannot drop the file (fs.go:2384), never that of a child.
LocksReturned ==
  \A d \in Dirs : \A p \in lock[d].readers \cup lock[d].writer :
    CASE p = "renameHierarchicalDir" -> d # "top" /\ mode.hierarchical = "yes"
      [] p = "nonAtomicRename" -> d = "top" /\ mode.cacheFaults
      [] OTHER -> req[p] # NoReq

\* The type cache hides nothing: a type that is cached while nobody is at the
\* name does not keep LookUpChild from finding what the bucket has.  Four things
\* are excepted, until the type is gone (typeTaint): changes nobody in this mount
\* made, or made without the lock of the directory, or whose answer was lost; the
\* destination of a renamed folder, which RenameFolder does not insert; a page
\* with a file and a directory of one name; and the destination of a file when
\* atomicRename returns before it inserts it (fs.go:2346).
TypeHidesNothing ==
  \A n \in Names :
    (typeTaint[n] = {} /\ \A p \in Callers : n \notin Inserting(req[p]) \cup req[p].name) =>
      CASE types[n] = "nonexistent" -> Kind(n) = "nonexistent"
        [] types[n] = "regular" -> Kind(n) \in {"regular", "nonexistent"}
        [] types[n] = "explicit" -> Kind(n) \in {"explicit", "nonexistent"}
        [] types[n] = "implicit" -> Kind(n) = "implicit"
        [] OTHER -> TRUE

\* A lookup answers something the bucket said of the name at some moment
\* while the lookup was in progress, though it asks for the file and for the
\* directory separately and may take either from a cache (LookUpChild).
LookUpIsLinear ==
  \A p \in Callers :
    At(p, "asked") /\ Answered(p) /\ typeTaint[Sought(p)] \cup TaintOf(Sought(p)) = {} => LookUpResult(p) \in req[p].kinds \cup {"error"}

\* A listing has every name that existed all the while, once, although local
\* files are flushed while it runs; a file beside a directory is marked
\* (readAllEntries, fixConflictingNames).
Plain(out) == {i \in 1..Len(out) : ~out[i].marked}
ListingComplete ==
  \A p \in Callers : At(p, "listed") =>
    \A n \in req[p].stable : Cardinality(EntriesOf(p, n)) < 3 =>
      \A out \in Shown(p, n) : Cardinality(Plain(out)) = 1 /\ \A i \in 1..Len(out) : out[i].kind # "weird"

\* When RmDir or a rename is told that a directory was deleted, it is: whatever was found of
\* it before the locks were exchanged.  (RmDir never asks while an inode for an implicit
\* directory of the name is left, see isImplicitDir.)
RmDirRemoves ==
  \A p \in Callers : (At(p, "dir deleted") \/ At(p, "folder deleted")) /\ Answered(p) /\ Succeeded(p)
                       /\ taint[Key("dir", Victim(p))] = {} =>
    /\ objects[Key("dir", Victim(p))] = 0
    /\ At(p, "folder deleted") => Victim(p) \notin folders

\* A rename of a file or of a directory never is what leaves the file, or a
\* descendant, nowhere: at each of its steps, each call of it that took effect,
\* answered or not, included, it is at the old name or at the new one
\* (atomicRename, nonAtomicRename, renameNonHierarchicalDir).  A local file whose
\* flush fails is excepted: flushFile treats it as unlinked (fs.go:1214).
Somewhere(r) == \E n \in r.name \cup r.to :
  IF r.op = "rename dir" THEN objects[Key("child", n)] # 0 ELSE n \in local \/ objects[Key("file", n)] # 0
FlushFailed(p) == At(p, "rename flushed") /\ Answered(p) /\ ~Succeeded(p)
RenameLosesNothing ==
  [][\A p \in Callers : \A r \in {req[p]} :
       /\ r.op \in {"rename", "rename dir"} /\ Somewhere(r) /\ ~FlushFailed(p)
       /\ req'[p].pc # r.pc \/ call'[F(p)].pc # call[F(p)].pc
       => Somewhere(r)']_vars

\* The stat cache follows the bucket, and the locks of directories order the changes and
\* lookups made under them and are given back (fast_stat_bucket.go, LockForChildLookup).
StatCacheInStep == TypeOK /\ CachedIsCurrent /\ DirLockOrders /\ LocksReturned

\* What lookups, listings and deletions of directories answer was true at some moment while
\* they ran, whatever the caches held and whatever happened between their calls
\* (LookUpChild, readAllEntries, DeleteChildDir).
AnswersAreLinear == LookUpIsLinear /\ ListingComplete /\ RmDirRemoves
=============================================================================
