----------------------------- MODULE FileInode -----------------------------
(***************************************************************************)
(* One file inode (fs/inode/file.go) of a non-zonal bucket: the record of  *)
(* the object it branched from, the buffered write handler or the temp     *)
(* file that holds what was written since, and the syncer                  *)
(* (gcsx/syncer.go, gcsx/compose_object_creator.go) that turns the temp    *)
(* file into a new generation of the object.                               *)
(*                                                                         *)
(* The inode lock is held for a whole call, so at most one call is in      *)
(* progress (op); what interleaves with it is other writers of the bucket, *)
(* the handler's uploader failing, and the DeleteObject of an unlink.  A   *)
(* step of a call ends at a request to GCS.  The content cache             *)
(* (localFileCache) is off.  A byte is a small number, 0 fills holes.      *)
(***************************************************************************)
EXTENDS Integers, Sequences

CONSTANTS
    Handles,                \* file handles opened for writing
    Bytes,                  \* the bytes the application writes
    Contents,               \* contents other clients give the object
    MaxSize,                \* bound: size of the file
    MaxCalls,               \* bound: calls of the kernel on the inode
    MaxRemote,              \* bound: steps of other clients of the bucket
    EnableStreamingWrites,  \* config.Write.EnableStreamingWrites
    ComposeThreshold,       \* syncer.composeThreshold
    None                    \* nil

ASSUME BytesAssumption == Bytes \subseteq Nat
ASSUME SizeAssumption == MaxSize \in Nat /\ ComposeThreshold \in Nat
ASSUME CallsAssumption == MaxCalls \in Nat /\ MaxRemote \in Nat
ASSUME StreamingAssumption == EnableStreamingWrites \in BOOLEAN
ASSUME ContentsAssumption == \A c \in Contents : c \in Seq(Nat) /\ Len(c) <= MaxSize

\* A version of the object, FileInode.content and FileInode.bwh.
Object == [gen : Nat, meta : Nat, data : Seq(Nat)]

TempFile == [state : {"incomplete", "complete", "dirty"}, data : Seq(Nat),
             dirtyThreshold : Nat, mtime : {"nil", "set"}]

Handler == [data : Seq(Nat), truncated : Int, pre : Object \cup {None},
            state : {"ok", "failed", "cancelled"}]

ASSUME NoneAssumption == None \notin Object /\ None \notin TempFile /\ None \notin Handler

VARIABLES
    obj,        \* the object in the bucket: None or [gen, meta, data]
    lastGen,    \* the generations handed out so far
    src,        \* FileInode.src, with the content of that generation
    local,      \* FileInode.local
    unlinked,   \* FileInode.unlinked
    destroyed,  \* FileInode.destroyed
    content,    \* FileInode.content: None or a temp file
    bwh,        \* FileInode.bwh: None or what matters of the handler
    handles,    \* state of each file handle
    op,         \* the call in progress, or Idle
    delete,     \* the DeleteObject of an unlink: no, pending or done
    calls, remote,          \* calls and remote steps made so far
    view,       \* auxiliary: the file as its acknowledged calls left it
    reported,   \* auxiliary: has an error been returned since the last
                \* acknowledged change of the content?
    handleless  \* auxiliary: was the content changed with no handle to flush?

gcsVars == <<obj, lastGen, remote>>
auxVars == <<view, reported, handleless>>
vars == <<obj, lastGen, src, local, unlinked, destroyed, content, bwh,
          handles, op, delete, calls, remote, view, reported, handleless>>

-----------------------------------------------------------------------------
(* Data *)

SmallerOf(a, b) == IF a < b THEN a ELSE b

LargerOf(a, b) == IF a > b THEN a ELSE b

\* s followed by zeros up to length n.
Pad(s, n) == [i \in 1..LargerOf(Len(s), n) |-> IF i <= Len(s) THEN s[i] ELSE 0]

\* os.File.WriteAt of the one byte b at offset off.
WriteByte(s, off, b) == [Pad(s, off + 1) EXCEPT ![off + 1] = b]

\* os.File.Truncate to n bytes.
Resize(s, n) == SubSeq(Pad(s, n), 1, n)

Idle == [kind |-> "none", pc |-> "idle", off |-> 0, byte |-> 0, latest |-> None]

\* A call in progress: its program counter, its arguments, and the object that
\* fetchLatestGcsObject found.
Call ==
    [kind : {"none", "Create", "Write", "Truncate", "Sync", "Flush", "Read", "SetMtime"},
     pc : {"idle", "init", "tempfile", "apply", "staged", "load", "read", "flush",
           "finalize", "stat", "upload", "compose", "setmtime"},
     off : Nat, byte : Nat, latest : Object \cup {None}]

NoObject == [gen |-> 0, meta |-> 0, data |-> <<>>]

\* Mutant: the temp file starts empty, the reader is never copied.
NewTempFile_Empty(d) ==
    [state |-> "incomplete", data |-> <<>>, dirtyThreshold |-> 0, mtime |-> "nil"]

\* A temp file over a reader of the bytes d: fileIncomplete, nothing loaded.
NewTempFile(d) ==
    [state |-> "incomplete", data |-> d, dirtyThreshold |-> 0, mtime |-> "nil"]

\* What the inode holds, whichever of its representations is in use.
Current ==
    IF bwh # None THEN Pad(bwh.data, bwh.truncated)
    ELSE IF content # None THEN content.data
    ELSE src.data

-----------------------------------------------------------------------------
(* The initial states: a file being created, and one found in the bucket.  *)

Init ==
    /\ \/ /\ obj = None /\ lastGen = 0
          /\ src = NoObject /\ local = TRUE /\ view = <<>>
          /\ \E h \in Handles :
                handles = [x \in Handles |-> IF x = h THEN "open" ELSE "closed"]
          /\ op = [Idle EXCEPT !.kind = "Create", !.pc = "init"]
       \/ /\ \E d \in Contents :
                /\ obj = [gen |-> 1, meta |-> 1, data |-> d]
                /\ view = d
          /\ lastGen = 1 /\ src = obj /\ local = FALSE
          /\ handles = [x \in Handles |-> "closed"]
          /\ op = Idle
    /\ unlinked = FALSE /\ destroyed = FALSE
    /\ content = None /\ bwh = None
    /\ delete = "no"
    /\ calls = 0 /\ remote = 0
    /\ reported = "no" /\ handleless = "no"

-----------------------------------------------------------------------------
(* How a call ends *)

\* The call returns an error.
ReturnError ==
    /\ op' = Idle
    /\ reported' = "yes"
    /\ UNCHANGED <<view, handleless>>

\* The call returns, having changed nothing in the file.
Return ==
    /\ op' = Idle
    /\ UNCHANGED auxVars

\* The call returns, the content being published.
ReturnPublished ==
    /\ op' = Idle
    /\ handleless' = "no"
    /\ UNCHANGED <<view, reported>>

\* The write or the truncation of the call is acknowledged.
Changed(s) ==
    IF op.kind = "Write" THEN WriteByte(s, op.off, op.byte)
    ELSE Resize(s, op.off)

ReturnChanged ==
    /\ op' = Idle
    /\ view' = Changed(view)
    /\ reported' = "no"
    /\ handleless' =
         IF \E h \in Handles : handles[h] = "open" THEN handleless ELSE "yes"

Goto(pc) == op' = [op EXCEPT !.pc = pc]

\* updateInodeStateAfterFlush with the object o.
updateInodeStateAfterFlush(o) ==
    /\ src' = o
    /\ local' = FALSE
    /\ content' = None
    /\ bwh' = None

\* The answer to a request that writes the object, against the generation
\* preconditions pre (None: it must not exist).  A request can be applied and
\* its answer be lost.
Holds(pre) ==
    IF pre = None THEN obj = None
    ELSE obj # None /\ obj.gen = pre.gen /\ obj.meta = pre.meta

Answers(pre) == IF Holds(pre) THEN {"ok", "lost", "error"} ELSE {"error"}

Publish(answer, data) ==
    IF answer = "error" THEN UNCHANGED gcsVars
    ELSE /\ obj' = [gen |-> lastGen + 1, meta |-> 1, data |-> data]
         /\ lastGen' = lastGen + 1
         /\ UNCHANGED remote

-----------------------------------------------------------------------------
(* The calls.  The guards on handles are the kernel's: a write goes to an  *)
(* open handle, every close sends a flush, the last one a release.         *)

Begin(kind, off, byte, pc) ==
    /\ op = Idle /\ ~destroyed /\ calls < MaxCalls
    /\ op' = [kind |-> kind, pc |-> pc, off |-> off, byte |-> byte, latest |-> None]
    /\ calls' = calls + 1
    /\ UNCHANGED <<gcsVars, src, local, unlinked, destroyed, content, bwh,
                   delete, auxVars>>

\* A write at the size of a past truncation that the written data has already
\* overtaken is the subject of BufferedWrites and left to it.
AtStaleTruncation(off) ==
    bwh # None /\ off = bwh.truncated /\ off < Len(bwh.data)

WriteFile(h, off, b) ==
    /\ handles[h] # "closed"
    /\ off + 1 <= MaxSize
    /\ ~AtStaleTruncation(off)
    /\ Begin("Write", off, b, "init")
    /\ handles' = [handles EXCEPT ![h] = "open"]

\* SetInodeAttributes with a size: ftruncate through a handle, or truncate(2),
\* which has none.
TruncateFile(size, through) ==
    /\ \A h \in through : handles[h] # "closed"
    /\ Begin("Truncate", size, 0, "init")
    /\ handles' = [h \in Handles |-> IF h \in through THEN "open" ELSE handles[h]]

SyncFile ==
    /\ \E h \in Handles : handles[h] # "closed"
    /\ Begin("Sync", 0, 0, "flush")
    /\ UNCHANGED handles

FlushFile(h) ==
    /\ handles[h] = "open"
    /\ Begin("Flush", 0, 0, "flush")
    /\ handles' = [handles EXCEPT ![h] = "flushed"]

ReadFile ==
    /\ Begin("Read", 0, 0, IF bwh # None THEN "flush" ELSE "read")
    /\ UNCHANGED handles

\* A local inode with neither handler nor temp file would dereference nil.
SetMtimeDereferencesNil == ~unlinked /\ local /\ bwh = None /\ content = None

SetMtime ==
    /\ ~SetMtimeDereferencesNil
    /\ Begin("SetMtime", 0, 0, "setmtime")
    /\ UNCHANGED handles

-----------------------------------------------------------------------------
(* initBufferedWriteHandlerAndSyncFileIfEligible.  The sync that follows   *)
(* the creation of a handler has nothing to upload in a non-zonal bucket.  *)

\* Mutant: only the generation is compared.
Clobbered_GenerationOnly == IF obj = None THEN ~local ELSE obj.gen # src.gen

\* FileInode.clobbered
Clobbered ==
    IF obj = None THEN ~local
    ELSE \/ obj.gen # src.gen
         \/ obj.meta # src.meta

NewBWHandler(pre) ==
    [data |-> <<>>, truncated |-> -1, pre |-> pre, state |-> "ok"]

AfterInit == IF op.kind = "Create" THEN "tempfile" ELSE "apply"

InitBufferedWriteHandlerIfEligible ==
    /\ op.pc = "init"
    /\ \/ /\ bwh # None \/ content # None \/ ~EnableStreamingWrites
          /\ Goto(AfterInit)
          /\ UNCHANGED <<bwh, auxVars>>
       \/ /\ bwh = None /\ content = None /\ EnableStreamingWrites
          /\ \/ /\ ~local                        \* fetchLatestGcsObject
                /\ ReturnError
                /\ UNCHANGED bwh
             \/ /\ local \/ ~Clobbered
                /\ bwh' \in {IF local THEN NewBWHandler(None)
                             ELSE IF Len(obj.data) = 0 THEN NewBWHandler(obj)
                             ELSE None,
                             None}               \* CantAllocateAnyBlockError
                /\ Goto(AfterInit)
                /\ UNCHANGED auxVars
    /\ UNCHANGED <<gcsVars, src, local, unlinked, destroyed, content, handles,
                   delete, calls>>

CreateEmptyTempFile ==
    /\ op.pc = "tempfile"
    /\ content' = IF bwh # None \/ content # None THEN content
                  ELSE [NewTempFile(<<>>) EXCEPT !.mtime = "set"]
    /\ Return
    /\ UNCHANGED <<gcsVars, src, local, unlinked, destroyed, bwh, handles,
                   delete, calls>>

-----------------------------------------------------------------------------
(* FileInode.Write and FileInode.Truncate *)

\* BufferedWriteHandler.Write and Truncate refuse what is out of order.
InOrder ==
    IF op.kind = "Write" THEN op.off \in {Len(bwh.data), bwh.truncated}
    ELSE op.off >= Len(bwh.data)

RefusesWrite == op.kind = "Write" /\ bwh.state = "failed"

UsingBufferedWrites ==
    /\ op.pc = "apply"
    /\ bwh # None
    /\ \/ /\ RefusesWrite
          /\ ReturnError
          /\ UNCHANGED bwh
       \/ /\ ~RefusesWrite /\ InOrder
          /\ bwh' = IF op.kind = "Write"
                    THEN [bwh EXCEPT !.data = Append(Pad(@, op.off), op.byte)]
                    ELSE [bwh EXCEPT !.truncated = op.off]
          /\ ReturnChanged
       \/ /\ ~RefusesWrite /\ ~InOrder
          /\ Goto("finalize")
          /\ UNCHANGED <<bwh, auxVars>>
    /\ UNCHANGED <<gcsVars, src, local, unlinked, destroyed, content, handles,
                   delete, calls>>

\* ensureContent: a reader of the generation the inode branched from.
ensureContent ==
    /\ op.pc \in {"apply", "staged"}
    /\ bwh = None
    /\ \/ /\ content # None
          /\ Goto("load")
          /\ UNCHANGED <<content, auxVars>>
       \/ /\ content = None
          /\ obj # None /\ obj.gen = src.gen
          /\ content' = NewTempFile(obj.data)
          /\ Goto("load")
          /\ UNCHANGED auxVars
       \/ /\ content = None
          /\ ReturnError
          /\ UNCHANGED content
    /\ UNCHANGED <<gcsVars, src, local, unlinked, destroyed, bwh, handles,
                   delete, calls>>

\* tempFile.ensureComplete
Complete(tf) ==
    IF tf.state # "incomplete" THEN tf
    ELSE [tf EXCEPT !.state = "complete", !.dirtyThreshold = Len(tf.data)]

\* Mutant: the threshold is one byte too low.
Dirtied_OneLower(tf) ==
    [Complete(tf) EXCEPT !.dirtyThreshold = SmallerOf(@, op.off - 1),
                         !.state = "dirty", !.mtime = "set",
                         !.data = Changed(@)]

\* Mutant: the threshold is never lowered.
Dirtied_KeepsThreshold(tf) ==
    [Complete(tf) EXCEPT !.state = "dirty", !.mtime = "set", !.data = Changed(@)]

\* tempFile.WriteAt, tempFile.Truncate
Dirtied(tf) ==
    [Complete(tf) EXCEPT !.dirtyThreshold = SmallerOf(@, op.off),
                         !.state = "dirty", !.mtime = "set",
                         !.data = Changed(@)]

UsingTempFile ==
    /\ op.pc = "load"
    /\ \/ /\ content.state = "incomplete"      \* the read of the object fails
          /\ ReturnError
          /\ UNCHANGED content
       \/ /\ op.kind \in {"Write", "Truncate"}
          /\ content' = Dirtied(content)
          /\ ReturnChanged
       \/ /\ op.kind = "Read"
          /\ content' = Complete(content)
          /\ Return
    /\ UNCHANGED <<gcsVars, src, local, unlinked, destroyed, bwh, handles,
                   delete, calls>>

\* FileHandle.Read after the flush: with no pending writes the readers serve it
\* (SourceGenerationIsAuthoritative); FileInode.Read refuses while a handler is
\* there, and serves from the temp file.
ReadInode ==
    /\ op.pc = "read"
    /\ \/ bwh # None /\ ReturnError
       \/ bwh = None /\ content = None /\ Return
       \/ bwh = None /\ content # None /\ Goto("load") /\ UNCHANGED auxVars
    /\ UNCHANGED <<gcsVars, src, local, unlinked, destroyed, content, bwh,
                   handles, delete, calls>>

-----------------------------------------------------------------------------
(* fs.flushFile and fs.syncFile, FileInode.Flush and FileInode.Sync *)

\* Mutant: the unlinked check is dropped.
NothingToFlush_Unlinked == content = None /\ bwh = None

NothingToFlush == unlinked \/ (content = None /\ bwh = None)

flushFile ==
    /\ op.pc = "flush"
    /\ \/ /\ NothingToFlush
          /\ IF op.kind = "Read" THEN Goto("read") /\ UNCHANGED auxVars
                                 ELSE Return
       \/ /\ ~NothingToFlush /\ bwh # None /\ op.kind # "Sync"
          /\ Goto("finalize")
          /\ UNCHANGED auxVars
       \/ /\ ~NothingToFlush /\ bwh # None /\ op.kind = "Sync"
          /\ IF bwh.state = "ok" THEN Return ELSE ReturnError
       \/ /\ ~NothingToFlush /\ bwh = None
          /\ Goto(IF local THEN "upload" ELSE "stat")
          /\ UNCHANGED auxVars
    /\ UNCHANGED <<gcsVars, src, local, unlinked, destroyed, content, bwh,
                   handles, delete, calls>>

\* flushUsingBufferedWriteHandler: BufferedWriteHandler.Flush finalizes the
\* object, unless the upload has failed or was cancelled by an unlink.
flushUsingBufferedWriteHandler ==
    /\ op.pc = "finalize"
    /\ \E a \in IF bwh.state = "ok" THEN Answers(bwh.pre) ELSE {"error"} :
          /\ Publish(a, Pad(bwh.data, bwh.truncated))
          /\ IF a = "ok"
             THEN /\ updateInodeStateAfterFlush(obj')
                  /\ IF op.kind = "Flush" THEN ReturnPublished
                     ELSE /\ Goto(IF op.kind = "Read" THEN "read" ELSE "staged")
                          /\ UNCHANGED auxVars
             ELSE /\ bwh' = [bwh EXCEPT !.state = IF @ = "ok" THEN "failed" ELSE @]
                  /\ ReturnError
                  /\ UNCHANGED <<src, local, content>>
    /\ UNCHANGED <<unlinked, destroyed, handles, delete, calls>>

\* fetchLatestGcsObject in syncUsingContent
fetchLatestGcsObject ==
    /\ op.pc = "stat"
    /\ \/ ReturnError
       \/ /\ ~Clobbered
          /\ op' = [op EXCEPT !.pc = "upload", !.latest = obj]
          /\ UNCHANGED auxVars
    /\ UNCHANGED <<gcsVars, src, local, unlinked, destroyed, content, bwh,
                   handles, delete, calls>>

Clean(tf) ==
    /\ Len(tf.data) = Len(op.latest.data)
    /\ tf.dirtyThreshold = Len(op.latest.data)

\* Mutant: the object is composed although its own bytes were written.
MayCompose_Dirtied(tf) == Len(op.latest.data) >= ComposeThreshold

MayCompose(tf) ==
    /\ Len(op.latest.data) >= ComposeThreshold
    /\ tf.dirtyThreshold = Len(op.latest.data)

\* syncer.SyncObject up to its first request: nothing to do, an error, the
\* creation of the whole object (fullObjectCreator), or of a temporary object
\* to compose (the component count of the object decides, too).
SyncObject ==
    /\ op.pc = "upload"
    /\ LET tf == Complete(content) IN
       \/ /\ content.state = "incomplete"
          /\ ReturnError                      \* the read of the object fails
          /\ content' = content
          /\ UNCHANGED <<gcsVars, src, local, bwh>>
       \/ /\ op.latest # None
          /\ tf.dirtyThreshold > Len(op.latest.data) \/ (~Clean(tf) /\ tf.mtime = "nil")
          /\ ReturnError                      \* weird or wacky stat result
          /\ content' = tf
          /\ UNCHANGED <<gcsVars, src, local, bwh>>
       \/ /\ op.latest # None /\ Clean(tf)
          /\ Return
          /\ content' = tf
          /\ UNCHANGED <<gcsVars, src, local, bwh>>
       \/ /\ op.latest # None /\ ~Clean(tf) /\ MayCompose(tf) /\ tf.mtime = "set"
          /\ \/ Goto("compose") /\ UNCHANGED auxVars
             \/ ReturnError                  \* no temporary object
          /\ content' = tf
          /\ UNCHANGED <<gcsVars, src, local, bwh>>
       \/ /\ op.latest # None => ~Clean(tf) /\ tf.mtime = "set"
          /\ \E a \in Answers(op.latest) :
                /\ Publish(a, tf.data)
                /\ IF a = "ok"
                   THEN updateInodeStateAfterFlush(obj') /\ ReturnPublished
                   ELSE /\ ReturnError
                        /\ content' = tf
                        /\ UNCHANGED <<src, local, bwh>>
    /\ UNCHANGED <<unlinked, destroyed, handles, delete, calls>>

\* composeObjectCreator.Create once the temporary object is there: compose it
\* onto the source, then delete it.  If only the deletion fails the object has
\* its new generation and the call still returns an error.
ComposeObjects ==
    /\ op.pc = "compose"
    /\ \E a \in Answers(op.latest) :
          /\ Publish(a, obj.data \o SubSeq(content.data, Len(op.latest.data) + 1,
                                           Len(content.data)))
          /\ \/ a = "ok" /\ updateInodeStateAfterFlush(obj') /\ ReturnPublished
             \/ ReturnError /\ UNCHANGED <<src, local, content, bwh>>
    /\ UNCHANGED <<unlinked, destroyed, handles, delete, calls>>

-----------------------------------------------------------------------------
(* FileInode.SetMtime *)

UpdateMtime ==
    /\ op.pc = "setmtime"
    /\ \/ /\ unlinked \/ bwh # None
          /\ Return
          /\ UNCHANGED <<obj, src, content>>
       \/ /\ ~unlinked /\ bwh = None /\ content # None /\ content.state = "incomplete"
          /\ ReturnError
          /\ UNCHANGED <<obj, src, content>>
       \/ /\ ~unlinked /\ bwh = None /\ content # None
          /\ Complete(content).mtime = "set" \/ local
          /\ content' = [Complete(content) EXCEPT !.mtime = "set"]
          /\ Return
          /\ UNCHANGED <<obj, src>>
       \/ /\ ~unlinked /\ bwh = None /\ ~local
          /\ content = None \/ (content # None /\ content.mtime = "nil")
          /\ content' = IF content = None THEN None ELSE Complete(content)
          /\ IF obj # None /\ obj.gen = src.gen /\ obj.meta = src.meta
             THEN \/ /\ obj' = [obj EXCEPT !.meta = @ + 1]
                     /\ src' = obj'
                     /\ Return
                  \/ ReturnError /\ UNCHANGED <<obj, src>>
             ELSE Return /\ UNCHANGED <<obj, src>>   \* not found, precondition
    /\ UNCHANGED <<lastGen, remote, local, unlinked, destroyed, bwh, handles,
                   delete, calls>>

-----------------------------------------------------------------------------
(* Handles, unlinking and forgetting *)

OpenFile(h) ==
    /\ op = Idle /\ ~destroyed /\ calls < MaxCalls
    /\ handles[h] = "closed"
    /\ handles' = [handles EXCEPT ![h] = "flushed"]
    /\ calls' = calls + 1
    /\ UNCHANGED <<gcsVars, src, local, unlinked, destroyed, content, bwh, op,
                   delete, auxVars>>

\* The contents that remain when the representation in use is dropped.
WithoutHandler == IF content # None THEN content.data ELSE src.data

\* Mutant: any release destroys the handler.
DeRegisterFileHandle_AnyHandle(h) ==
    /\ bwh' = None
    /\ view' = IF bwh # None THEN WithoutHandler ELSE view

\* ReleaseFileHandle: DeRegisterFileHandle destroys the handler with the last
\* write handle.
DeRegisterFileHandle(h) ==
    LET last == \A x \in Handles \ {h} : handles[x] = "closed" IN
    /\ bwh' = IF last THEN None ELSE bwh
    /\ view' = IF last /\ bwh # None THEN WithoutHandler ELSE view

ReleaseFileHandle(h) ==
    /\ op = Idle
    /\ handles[h] = "flushed"
    /\ handles' = [handles EXCEPT ![h] = "closed"]
    /\ DeRegisterFileHandle(h)
    /\ UNCHANGED <<gcsVars, src, local, unlinked, destroyed, content, op,
                   delete, calls, reported, handleless>>

\* fs.Unlink: under the inode lock mark the inode, cancelling the upload of a
\* handler that has started one; then, for a file with an object, delete it.
Unlink ==
    /\ op = Idle /\ ~unlinked /\ ~destroyed
    /\ unlinked' = TRUE
    /\ bwh' \in IF bwh # None /\ bwh.state = "ok"
                THEN {bwh, [bwh EXCEPT !.state = "cancelled"]} ELSE {bwh}
    /\ delete' = IF local THEN "done" ELSE "pending"
    /\ UNCHANGED <<gcsVars, src, local, destroyed, content, handles, op, calls,
                   auxVars>>

DeleteObject ==
    /\ delete = "pending"
    /\ delete' = "done"
    /\ obj' \in {obj, None}
    /\ UNCHANGED <<lastGen, remote, src, local, unlinked, destroyed, content,
                   bwh, handles, op, calls, auxVars>>

\* The kernel forgets the inode: FileInode.Destroy.
Destroy ==
    /\ op = Idle /\ ~destroyed
    /\ \A h \in Handles : handles[h] = "closed"
    /\ destroyed' = TRUE
    /\ content' = None /\ bwh' = None
    /\ view' = src.data
    /\ UNCHANGED <<gcsVars, src, local, unlinked, handles, op, delete, calls,
                   reported, handleless>>

-----------------------------------------------------------------------------
(* What goes on beside the inode *)

\* The uploader of the handler meets an error it does not recover from.
UploadFails ==
    /\ bwh # None /\ bwh.state # "failed"
    /\ bwh' = [bwh EXCEPT !.state = "failed"]
    /\ UNCHANGED <<gcsVars, src, local, unlinked, destroyed, content, handles,
                   op, delete, calls, auxVars>>

OtherClients ==
    /\ remote < MaxRemote
    /\ remote' = remote + 1
    /\ \/ \E d \in Contents :
             /\ obj' = [gen |-> lastGen + 1, meta |-> 1, data |-> d]
             /\ lastGen' = lastGen + 1
       \/ /\ obj # None
          /\ obj' \in {None, [obj EXCEPT !.meta = @ + 1]}
          /\ UNCHANGED lastGen
    /\ UNCHANGED <<src, local, unlinked, destroyed, content, bwh, handles, op,
                   delete, calls, auxVars>>

Next ==
    \/ \E h \in Handles :
          \/ \E off \in 0..MaxSize, b \in Bytes : WriteFile(h, off, b)
          \/ FlushFile(h) \/ OpenFile(h) \/ ReleaseFileHandle(h)
    \/ \E size \in 0..MaxSize, through \in {{}} \cup {{h} : h \in Handles} :
          TruncateFile(size, through)
    \/ SyncFile \/ ReadFile \/ SetMtime
    \/ InitBufferedWriteHandlerIfEligible \/ CreateEmptyTempFile
    \/ UsingBufferedWrites \/ ensureContent \/ UsingTempFile \/ ReadInode
    \/ flushFile \/ flushUsingBufferedWriteHandler
    \/ fetchLatestGcsObject \/ SyncObject \/ ComposeObjects
    \/ UpdateMtime
    \/ Unlink \/ DeleteObject \/ Destroy
    \/ UploadFails \/ OtherClients

Spec == Init /\ [][Next]_vars

-----------------------------------------------------------------------------
(* Properties *)

\* Every field of the inode has its type: a temp file, a handler and a record
\* of the object are whole or nil, whatever failed half way through a call.
TypeOK ==
    /\ obj \in Object \cup {None} /\ lastGen \in Nat
    /\ src \in Object
    /\ local \in BOOLEAN /\ unlinked \in BOOLEAN /\ destroyed \in BOOLEAN
    /\ content \in TempFile \cup {None}
    /\ bwh \in Handler \cup {None}
    /\ handles \in [Handles -> {"closed", "open", "flushed"}]
    /\ op \in Call
    /\ delete \in {"no", "pending", "done"}
    /\ calls \in Nat /\ remote \in Nat
    /\ view \in Seq(Nat)
    /\ reported \in {"no", "yes"} /\ handleless \in {"no", "yes"}

\* No call is lost or invented: at every moment the content the inode serves, be
\* it in the handler, the temp file or the object, is what the acknowledged
\* writes and truncations made of the file (FileInode.Write, Truncate, Flush).
CurrentIsView == Current = view

\* The prefix below the dirty threshold of the temp file is the object's own,
\* which is what SyncObject relies on when it composes instead of uploading.
DirtyPrefixUnmodified ==
    content # None /\ content.state # "incomplete" =>
        /\ content.dirtyThreshold <= Len(content.data)
        /\ content.mtime = "nil" => content.dirtyThreshold = Len(content.data)
        /\ content.dirtyThreshold <= Len(src.data)
        /\ \A i \in 1..content.dirtyThreshold : content.data[i] = src.data[i]

Publishing == lastGen' # lastGen /\ remote' = remote

\* No update of another client is overwritten: a flush, a sync or the fallback
\* to staged writes replaces only the version the inode branched from, and a
\* file created locally only creates (clobbered, the generation preconditions).
NoLostUpdate ==
    [][Publishing => IF obj = None THEN local
                     ELSE obj.gen = src.gen /\ obj.meta = src.meta]_vars

\* Every generation the inode publishes, whole or composed, is the file as the
\* acknowledged calls left it (SyncObject, composeObjectCreator.Create,
\* flushUsingBufferedWriteHandler).
PublishedIsView == [][Publishing => obj'.data = view]_vars

\* Acknowledged changes are dropped by a release or a forget only if an error
\* was returned for them, the file was unlinked, or they were made by a
\* truncate(2), which no flush follows (DeRegisterFileHandle, Destroy).
NoSilentLoss ==
    [][view' # view /\ op = Idle /\ op' = Idle =>
         reported = "yes" \/ unlinked \/ handleless = "yes"]_vars

\* An unlinked file is not published again by its inode: flushes and syncs skip
\* it.  The exception is a handler that falls back to staged writes before its
\* upload has begun, for CancelUpload has then nothing to cancel.
UnlinkedNotPublished ==
    [][Publishing /\ unlinked =>
         bwh # None /\ bwh.state = "ok" /\ op.kind \in {"Write", "Truncate"}]_vars

\* What the inode holds is right: the file it serves is what the acknowledged calls made of
\* it, and the part of a temp file below the dirty threshold is the object's own.
ContentInOrder == TypeOK /\ CurrentIsView /\ DirtyPrefixUnmodified

\* What the inode publishes is right: the acknowledged file, and nothing once unlinked.
PublishesInOrder == PublishedIsView /\ UnlinkedNotPublished
=============================================================================
