------------------------------ MODULE FileCache ------------------------------
(***************************************************************************)
(* The file cache: the cache handler that keeps entries, jobs and local    *)
(* files together (internal/cache/file/cache_handler.go), the cache        *)
(* handles that read from them (cache_handle.go) and the reader that uses  *)
(* a handle for the reads of a file handle                                 *)
(* (internal/gcsx/file_cache_reader.go).  Reads run in threads that share  *)
(* readers; CacheHandler.mu covers GetCacheHandle and InvalidateCache but  *)
(* neither the reads nor the download goroutines.                          *)
(***************************************************************************)
EXTENDS DownloadJob

VARIABLES
  object,      \* the MinObject each reader was made for
  calls,       \* how many more calls the threads make
  lost         \* history: what UpdateSize did not add, for want of an entry

vars == <<jobVars, handles, object, th, calls, lost>>

NoHandle == [file |-> 0, job |-> 0, seq |-> FALSE, prev |-> 0]
Idle == [pc |-> "idle", r |-> 0, off |-> 0, end |-> 0, todo |-> << >>, next |-> "none",
         job |-> 0, bytes |-> << >>]

\* Locks, read off where the threads are: CacheHandler.mu, and the read and the
\* write lock of FileCacheReader.mu.
InHandler == {"evict", "wait", "remove", "insert", "handle"}
InRead == {"status", "waiting", "file", "check", "sparse", "copy", "write", "range", "size", "verify"}
HandlerFree == \A t \in Threads : th[t].pc \notin InHandler
Reading(r) == \E t \in Threads : th[t].r = r /\ th[t].pc \in InRead
Creating(r) == \E t \in Threads : th[t].r = r /\ th[t].pc \in InHandler
\* Job.mu is held over two steps only by a sparse download.
JobFree(j) == \A t \in Threads : th[t].pc = "size" => handles[th[t].r].job # j
Up == \A t \in Threads : th[t].pc \notin {"unmounted", "panic"}

Obj(t) == object[th[t].r]
H(t) == handles[th[t].r]
At(t, pc) == th[t].pc = pc
Goto(t, pc) == th' = [th EXCEPT ![t].pc = pc]
\* A read ends: served from the cache or sent on to GCS, or failed.
Return(t, res) == th' = [th EXCEPT ![t] = [Idle EXCEPT !.pc = res]]
Fallback(t) == Return(t, "idle")
Served(t) == Return(t, "idle")
Free == jobs' = Swept(jobs, jobOf', handles', th')

Init ==
  /\ kind \in Kinds
  /\ gcs = [n \in Names |-> 1]
  /\ cache = NewCache(kind.max)
  /\ jobs = [j \in JobIds |-> NoJob]
  /\ jobOf = [n \in Names |-> 0]
  /\ disk = [n \in Names |-> 0]
  /\ data = [f \in Files |-> << >>]
  /\ slots = Slots
  /\ note = [t \in Threads |-> NoNote]
  /\ handles = [r \in Readers |-> NoHandle]
  /\ object = [r \in Readers |-> Object(kind.opened[r], 1)]
  /\ th = [t \in Threads |-> Idle]
  /\ calls = kind.calls
  /\ lost = 0

-----------------------------------------------------------------------------
\* Environment: another client writes the object; a file is opened again for its
\* current version, after Destroy closed the cache handle of the old reader.

Replace(n) ==
  /\ gcs[n] < Len(kind.sizes[n])
  /\ gcs' = [gcs EXCEPT ![n] = @ + 1]
  /\ UNCHANGED <<kind, cache, jobs, jobOf, disk, data, slots, note, handles, object, th>>

Destroy(r) ==
  /\ kind.reopen
  /\ \A t \in Threads : th[t].r # r
  /\ object' = [object EXCEPT ![r] = Object(@.name, gcs[@.name])]
  /\ object' # object
  /\ handles' = [handles EXCEPT ![r] = NoHandle]
  /\ UNCHANGED <<kind, gcs, cache, jobOf, disk, data, slots, note, th>>
  /\ Free

-----------------------------------------------------------------------------
\* FileCacheReader.ReadAt, tryReadingFromFileCache.

Entry(n) == LookUpWithoutChangingOrder(cache, n)
Present(n) == Entry(n) # NoEntry

\* The new entry, the job, and the entries that Insert evicted.
FreeJobs == {j \in JobIds : jobs[j] = NoJob}
FreshJob == Least(FreeJobs)
Insertion(t, o, me) ==
  LET fi == NewFileInfo(o)
      evicts == InsertEvicts(cache, o.name, fi)
  IN  \/ /\ InsertFails(cache, fi)
         /\ Fallback(t)
         /\ UNCHANGED <<cache, jobs, jobOf>>
      \/ /\ ~InsertFails(cache, fi) /\ Panics(Front(cache, o.name, fi))
         /\ Return(t, "panic")
         /\ UNCHANGED <<cache, jobs, jobOf>>
      \/ /\ ~InsertFails(cache, fi) /\ ~Panics(Front(cache, o.name, fi))
         /\ FreeJobs # {} /\ FreeFiles # {}
         /\ cache' = Insert(cache, o.name, fi)
         /\ \/ /\ jobOf[o.name] = 0
               /\ jobOf' = [jobOf EXCEPT ![o.name] = FreshJob]
               /\ jobs' = [jobs EXCEPT ![FreshJob] = NewJob(o)]
            \/ jobOf[o.name] # 0 /\ UNCHANGED <<jobs, jobOf>>
         /\ th' = [th EXCEPT ![t] = [me EXCEPT !.todo = evicts, !.next = "handle",
                                               !.pc = IF evicts = << >> THEN "handle" ELSE "evict"]]

\* With no cache handle, the reader gets one under its write lock: GetCacheHandle
\* up to the decision to invalidate the entry that is there.
shouldInvalidate(o) ==
  LET j == jobOf[o.name] IN
  \/ Entry(o.name).gen # o.gen
  \/ j = 0 /\ Entry(o.name).off < Entry(o.name).size
  \/ j # 0 /\ jobs[j].st \in {"Failed", "Invalid"}
shouldExcludeFromCache(n) == n \in kind.exclude \/ n \notin kind.include
NotRequired(o, off) == ~kind.rangeRead /\ off # 0 /\ ~kind.sparse /\ ~Present(o.name)

GetCacheHandle(t, r, off, end) ==
  /\ At(t, "idle") /\ Up /\ HandlerFree
  /\ end <= object[r].size
  /\ handles[r] = NoHandle /\ ~Reading(r)
  /\ LET o == object[r]
         n == o.name
         me == [Idle EXCEPT !.r = r, !.off = off, !.end = end]
     IN  \/ /\ shouldExcludeFromCache(n) \/ NotRequired(o, off)
            /\ Fallback(t) /\ UNCHANGED <<cache, jobs, jobOf>>
         \/ /\ ~shouldExcludeFromCache(n) /\ ~NotRequired(o, off)
            /\ \/ ~Present(n) /\ Insertion(t, o, me)
               \/ /\ Present(n) /\ disk[n] = 0
                  /\ Return(t, "ErrFileNotPresentInCache") /\ UNCHANGED <<cache, jobs, jobOf>>
               \/ /\ Present(n) /\ disk[n] # 0 /\ (jobOf[n] # 0 => JobFree(jobOf[n])) /\ shouldInvalidate(o)
                  /\ cache' = Erase(cache, n)
                  /\ th' = [th EXCEPT ![t] = [me EXCEPT !.pc = "evict", !.todo = <<n>>, !.next = "insert"]]
                  /\ UNCHANGED <<jobs, jobOf>>
               \/ /\ Present(n) /\ disk[n] # 0 /\ (jobOf[n] # 0 => JobFree(jobOf[n])) /\ ~shouldInvalidate(o)
                  /\ cache' = LookUp(cache, n)
                  /\ th' = [th EXCEPT ![t] = [me EXCEPT !.pc = "handle"]]
                  /\ UNCHANGED <<jobs, jobOf>>
  /\ UNCHANGED <<kind, gcs, disk, data, slots, note, handles, object>>
InsertAgain(t) ==
  /\ At(t, "insert")
  /\ Insertion(t, Obj(t), th[t])
  /\ UNCHANGED <<kind, gcs, disk, data, slots, note, handles, object>>

\* The read handle on the local file, created if it is not there.
NewCacheHandle(t) ==
  /\ At(t, "handle")
  /\ LET n == Obj(t).name
         f == IF disk[n] = 0 THEN FreshFile ELSE disk[n]
     IN  \/ /\ disk' = [disk EXCEPT ![n] = f]
            /\ handles' = [handles EXCEPT ![th[t].r] =
                 [file |-> f, job |-> jobOf[n], seq |-> th[t].off = 0, prev |-> th[t].off]]
            /\ th' = [th EXCEPT ![t].pc = "read", ![t].next = "none"]
         \/ kind.faults /\ Return(t, "failed") /\ UNCHANGED <<disk, handles>>
  /\ UNCHANGED <<kind, gcs, cache, jobs, jobOf, data, slots, note, object>>

-----------------------------------------------------------------------------
\* cleanUpEvictedFile for the entries of todo.  Invalidate cancels a download in
\* progress and waits for its goroutine, holding CacheHandler.mu and no lock of
\* the job; then the job leaves the manager and the file is removed.

MadeInvalid(j) ==
  /\ removeJobCallback(j)
  /\ Notify(j, [jobs[j] EXCEPT !.st = "Invalid", !.cb = FALSE])
\* Mutant: the cancelled goroutine is not waited for.
Invalidate_NoWait(t) ==
  /\ At(t, "evict")
  /\ LET j == jobOf[Head(th[t].todo)] IN
     \/ j = 0 /\ Goto(t, "remove") /\ UNCHANGED <<jobs, jobOf, note>>
     \/ j # 0 /\ JobFree(j) /\ MadeInvalid(j) /\ Goto(t, "remove")
  /\ UNCHANGED <<kind, gcs, cache, disk, data, slots, handles, object>>
Invalidate(t) ==
  /\ At(t, "evict")
  /\ LET j == jobOf[Head(th[t].todo)] IN
     \/ j = 0 /\ Goto(t, "remove") /\ UNCHANGED <<jobs, jobOf, note>>
     \/ /\ j # 0 /\ JobFree(j) /\ jobs[j].st # "Downloading"
        /\ MadeInvalid(j)
        /\ Goto(t, "remove")
     \/ /\ j # 0 /\ JobFree(j) /\ jobs[j].st = "Downloading"
        /\ jobs' = [jobs EXCEPT ![j].st = "Invalid", ![j].ctx = "cancelled"]
        /\ th' = [th EXCEPT ![t].job = j, ![t].pc = "wait"]
        /\ UNCHANGED <<jobOf, note>>
  /\ UNCHANGED <<kind, gcs, cache, disk, data, slots, handles, object>>

\* The rest of Invalidate, once doneCh is closed.
Invalidated(t) ==
  /\ At(t, "wait") /\ jobs[th[t].job].pc = "done" /\ JobFree(th[t].job)
  /\ MadeInvalid(th[t].job)
  /\ Goto(t, "remove")
  /\ UNCHANGED <<kind, gcs, cache, disk, data, slots, handles, object>>

\* The file goes too, except at unmount; then the next entry, or what comes next.
RestOf(t) ==
  LET rest == Tail(th[t].todo) IN
  [th EXCEPT ![t].todo = rest, ![t].job = 0,
             ![t].pc = IF rest # << >> THEN "evict" ELSE th[t].next]
removeEvicted(t) ==
  /\ At(t, "remove")
  /\ IF th[t].next = "unmounted" THEN UNCHANGED <<disk, data>>
     ELSE TruncateAndRemoveFile(Head(th[t].todo))
  /\ th' = RestOf(t)
  /\ UNCHANGED <<kind, gcs, cache, jobOf, slots, note, handles, object>>
  /\ Free
removeFails(t) ==
  /\ At(t, "remove") /\ kind.faults /\ disk[Head(th[t].todo)] # 0 /\ th[t].next # "unmounted"
  /\ Return(t, "failed")
  /\ UNCHANGED <<kind, gcs, cache, jobOf, disk, data, slots, note, handles, object>>
  /\ Free

\* CacheHandler.InvalidateCache, on behalf of a write, a rename or a deletion.
InvalidateCache(t, n) ==
  /\ At(t, "idle") /\ Up /\ HandlerFree
  /\ kind.invalidate /\ Present(n)
  /\ cache' = Erase(cache, n)
  /\ th' = [th EXCEPT ![t] = [Idle EXCEPT !.pc = "evict", !.todo = <<n>>, !.next = "idle"]]
  /\ UNCHANGED <<kind, gcs, jobs, jobOf, disk, data, slots, note, handles, object>>

\* CacheHandler.Destroy, at unmount: every job is invalidated.
Managed == {n \in Names : jobOf[n] # 0}
InSomeOrder(S) == CHOOSE q \in [1..Cardinality(S) -> S] : \A i, k \in 1..Cardinality(S) : i # k => q[i] # q[k]
Unmount(t) ==
  /\ \A u \in Threads : At(u, "idle")
  /\ Up /\ kind.unmount
  /\ th' = [th EXCEPT ![t] = [Idle EXCEPT !.pc = IF Managed = {} THEN "unmounted" ELSE "evict",
                                          !.todo = InSomeOrder(Managed), !.next = "unmounted"]]
  /\ UNCHANGED <<jobVars, handles, object>>

-----------------------------------------------------------------------------
\* CacheHandle.Read, under the read lock of the reader.

\* IsSequential, with the offset of the previous read.
IsSequential(h, off) == h.seq /\ off >= h.prev /\ off - h.prev <= 1
validateEntry(o, off) == Entry(o.name).gen = o.gen /\ Entry(o.name).off >= off

Read(t, r, off, end) ==
  /\ ~Creating(r)
  /\ LET fi == Entry(object[r].name)
         h == handles[r]
         me == [Idle EXCEPT !.r = r, !.off = off, !.end = end]
         Here(pc) == th' = [th EXCEPT ![t] = [me EXCEPT !.pc = pc]]
     IN  \/ h = NoHandle /\ Fallback(t) /\ UNCHANGED handles
         \/ h # NoHandle /\ fi = NoEntry /\ Here("close") /\ UNCHANGED handles
         \/ h # NoHandle /\ fi # NoEntry /\ kind.append /\ off >= fi.size /\ Fallback(t) /\ UNCHANGED handles
         \/ /\ h # NoHandle /\ fi # NoEntry /\ (kind.append => off < fi.size)
            /\ handles' = [handles EXCEPT ![r].seq = IsSequential(h, off)]
            /\ th' = [th EXCEPT ![t] = [me EXCEPT
                        !.next = IF IsSequential(h, off) THEN "seq" ELSE "random",
                        !.pc = IF fi.sparse THEN "sparse"
                               ELSE IF h.job # 0 THEN "status"
                               ELSE IF validateEntry(object[r], fi.size) THEN "file" ELSE "close"]]
  /\ UNCHANGED <<jobVars, object>>
\* With a cache handle the write lock of the reader is taken and given back too,
\* so that a read waits for those in progress; the read lock comes after it.
ReadWithHandle(t, r, off, end) ==
  /\ At(t, "idle") /\ Up /\ end <= object[r].size /\ handles[r] # NoHandle
  /\ ~Reading(r) /\ ~Creating(r)
  /\ th' = [th EXCEPT ![t] = [Idle EXCEPT !.r = r, !.off = off, !.end = end, !.pc = "read"]]
  /\ UNCHANGED <<jobVars, handles, object>>
ReadUnderReadLock(t) == At(t, "read") /\ Read(t, th[t].r, th[t].off, th[t].end)

\* shouldReadFromCache, applied to the status that Download returned.
After_AnyOffset(s, end) == IF s.st \in {"Failed", "Invalid"} THEN "close" ELSE "file" \* Mutant: no look at the offset.
After(s, end) ==
  IF s.st \in {"Failed", "Invalid"} THEN "close" ELSE IF s.off < end THEN "idle" ELSE "file"
Proceed(t, s) ==
  IF After(s, th[t].end) = "idle" THEN Fallback(t) ELSE Goto(t, After(s, th[t].end))

Waits(t) == th[t].next = "seq" /\ ~(kind.parallel /\ ~kind.defaultOn)

\* The job's part of Read: Download starts the job, returns its status at once,
\* or subscribes to the offset.
Download(t) ==
  /\ At(t, "status") /\ JobFree(H(t).job)
  /\ LET j == H(t).job
         job == jobs[j]
         end == th[t].end
         started == IF job.st = "NotStarted"
                    THEN [job EXCEPT !.st = "Downloading", !.ctx = "live", !.pc = "create"] ELSE job
         returns == \/ job.st \in {"Completed", "Failed", "Invalid"}
                    \/ job.st # "NotStarted" /\ job.off >= end
     IN  \/ /\ ~kind.rangeRead /\ th[t].next = "random" /\ After(Status(j), end) # "file"
            /\ Proceed(t, Status(j))
            /\ UNCHANGED <<jobs, handles>>
         \/ /\ kind.rangeRead \/ th[t].next = "seq" \/ After(Status(j), end) = "file"
            /\ handles' = [handles EXCEPT ![th[t].r].prev = th[t].off]
            /\ \/ job.obj.size < end /\ Return(t, "wrong size") /\ UNCHANGED jobs
               \/ /\ job.obj.size >= end /\ (returns \/ ~Waits(t))
                  /\ jobs' = [jobs EXCEPT ![j] = started]
                  /\ Proceed(t, [st |-> started.st, off |-> started.off])
               \/ /\ job.obj.size >= end /\ ~returns /\ Waits(t)
                  /\ jobs' = [jobs EXCEPT ![j] = [started EXCEPT !.subs = @ \cup {[thread |-> t, off |-> end]}]]
                  /\ Goto(t, "waiting")
  /\ UNCHANGED <<kind, gcs, cache, jobOf, disk, data, slots, note, object>>

\* The subscriber hears of the job, or its request is cancelled.
Notification(t) ==
  /\ At(t, "waiting") /\ note[t] # NoNote
  /\ Proceed(t, note[t])
  /\ note' = [note EXCEPT ![t] = NoNote]
  /\ UNCHANGED <<kind, gcs, cache, jobs, jobOf, disk, data, slots, handles, object>>
Interrupted(t) ==
  /\ At(t, "waiting") /\ kind.faults
  /\ Return(t, "interrupted")
  /\ note' = [note EXCEPT ![t] = NoNote]
  /\ jobs' = [j \in JobIds |-> [jobs[j] EXCEPT !.subs = {s \in @ : s.thread # t}]]
  /\ UNCHANGED <<kind, gcs, cache, jobOf, disk, data, slots, handles, object>>

\* The data is read from the open file, and only then is the entry looked up.
ReadFile(t) ==
  /\ At(t, "file")
  /\ LET bytes == SubSeq(data[H(t).file], th[t].off + 1, Smaller(th[t].end, Len(data[H(t).file]))) IN
     th' = [th EXCEPT ![t].bytes = bytes,
                      ![t].pc = IF Len(bytes) = th[t].end - th[t].off THEN "check" ELSE "close"]
  /\ UNCHANGED <<jobVars, handles, object>>
CheckEntry(t) ==
  /\ At(t, "check")
  /\ cache' = LookUp(cache, Obj(t).name)
  /\ IF validateEntry(Obj(t), th[t].end) THEN Served(t) ELSE Goto(t, "close")
  /\ UNCHANGED <<kind, gcs, jobs, jobOf, disk, data, slots, note, handles, object>>

\* An invalid handle is closed under the write lock, and GCS serves the read.
CloseHandle(t) ==
  /\ At(t, "close") /\ ~Reading(th[t].r) /\ ~Creating(th[t].r)
  /\ handles' = [handles EXCEPT ![th[t].r] = NoHandle]
  /\ Fallback(t)
  /\ UNCHANGED <<kind, gcs, cache, jobOf, disk, data, slots, note, object>>
  /\ Free
Finish(t) ==
  /\ th[t].pc \in {"ErrFileNotPresentInCache", "wrong size", "interrupted", "failed"}
  /\ th' = [th EXCEPT ![t] = Idle]
  /\ UNCHANGED <<jobVars, handles, object>>

-----------------------------------------------------------------------------
\* HandleSparseRead: the missing chunks are copied into the file at the path, the
\* entry found afterwards gets the chunks, then the cache the size.

HandleSparseRead(t) ==
  /\ At(t, "sparse")
  /\ LET fi == Entry(Obj(t).name) IN
     \/ fi = NoEntry /\ Fallback(t)
     \/ fi # NoEntry /\ ContainsRange(fi, th[t].off, th[t].end) /\ Goto(t, "file")
     \/ fi # NoEntry /\ ~ContainsRange(fi, th[t].off, th[t].end) /\ Goto(t, "copy")
  /\ UNCHANGED <<jobVars, handles, object>>

From(t) == SparseStart(th[t].off)
To(t) == SparseEnd(th[t].end, jobs[H(t).job].obj.size)

\* downloadSparseRange: the reader is opened for the generation of the job ...
OpenSparseReader(t) ==
  /\ At(t, "copy")
  /\ \/ Generation(Obj(t).name) = jobs[H(t).job].obj.gen /\ Goto(t, "write")
     \/ (kind.faults \/ Generation(Obj(t).name) # jobs[H(t).job].obj.gen) /\ Fallback(t)
  /\ UNCHANGED <<jobVars, handles, object>>
\* ... the file by its path ...
WriteSparseRange(t) ==
  /\ At(t, "write")
  /\ LET f == disk[Obj(t).name] IN
     \/ f = 0 /\ Fallback(t) /\ UNCHANGED data
     \/ /\ f # 0
        /\ data' = [data EXCEPT ![f] = WriteAt(@, From(t), Copies(jobs[H(t).job].obj.gen, To(t) - From(t)))]
        /\ Goto(t, "range")
  /\ UNCHANGED <<kind, gcs, cache, jobs, jobOf, disk, slots, note, handles, object>>
\* ... and the entry by its name, under the lock of the job.
AddSparseRange(t) ==
  /\ At(t, "range") /\ JobFree(H(t).job)
  /\ LET fi == Entry(Obj(t).name) IN
     \/ fi = NoEntry /\ Fallback(t) /\ UNCHANGED cache
     \/ /\ fi # NoEntry
        /\ cache' = [cache EXCEPT !.val[Obj(t).name] = AddRange(fi, From(t), To(t))]
        /\ th' = [th EXCEPT ![t].pc = "size", ![t].bytes = <<BytesAdded(fi, From(t), To(t))>>]
  /\ UNCHANGED <<kind, gcs, jobs, jobOf, disk, data, slots, note, handles, object>>
UpdateSparseSize(t) ==
  /\ At(t, "size")
  /\ \/ ~Present(Obj(t).name) /\ Fallback(t) /\ UNCHANGED cache
     \/ /\ Present(Obj(t).name)
        /\ cache' = UpdateSize(cache, Obj(t).name, th[t].bytes[1])
        /\ th' = [th EXCEPT ![t].pc = "verify", ![t].bytes = << >>]
  /\ UNCHANGED <<kind, gcs, jobs, jobOf, disk, data, slots, note, handles, object>>
verifySparseRangeDownloaded(t) ==
  /\ At(t, "verify")
  /\ IF Present(Obj(t).name) /\ ContainsRange(Entry(Obj(t).name), th[t].off, th[t].end)
     THEN Goto(t, "file") ELSE Fallback(t)
  /\ UNCHANGED <<jobVars, handles, object>>

-----------------------------------------------------------------------------
Begin(t) ==
  \E r \in Readers, range \in kind.reads :
    GetCacheHandle(t, r, range[1], range[2]) \/ ReadWithHandle(t, r, range[1], range[2])
Continue(t) ==
  \/ InsertAgain(t) \/ NewCacheHandle(t) \/ Invalidate(t) \/ Invalidated(t) \/ removeEvicted(t)
  \/ ReadUnderReadLock(t) \/ Download(t) \/ Notification(t) \/ ReadFile(t) \/ CheckEntry(t)
  \/ CloseHandle(t) \/ Finish(t)
  \/ HandleSparseRead(t) \/ OpenSparseReader(t) \/ WriteSparseRange(t) \/ AddSparseRange(t)
  \/ UpdateSparseSize(t) \/ verifySparseRangeDownloaded(t)

Panicked == \E t \in Threads : At(t, "panic")
Call(t) == calls > 0 /\ calls' = calls - 1 /\ (Begin(t) \/ \E n \in Names : InvalidateCache(t, n))
Environment == (\E n \in Names : Replace(n)) \/ (\E r \in Readers : Destroy(r))
Dropped == {t \in Threads : At(t, "size") /\ th'[t].pc = "idle"}
Accounted == lost' = IF Dropped = {} THEN lost ELSE lost + th[CHOOSE t \in Dropped : TRUE].bytes[1]
Next == ~Panicked /\
  (\/ Environment /\ UNCHANGED calls
   \/ \E t \in Threads : Call(t)
   \/ \E t \in Threads : (Continue(t) \/ removeFails(t) \/ Interrupted(t) \/ Unmount(t)) /\ UNCHANGED calls
   \/ \E j \in JobIds : Goroutine(j) /\ UNCHANGED <<object, calls>>)
  /\ Accounted

-----------------------------------------------------------------------------
\* A read served from the cache returns the bytes of the generation its file
\* handle was opened for (up to damage in transfer): never those of another
\* generation, never a hole left by a truncated or a half-written file.
\* CacheHandle.Read reads the file first and checks the entry afterwards, while
\* evictions, invalidations and downloads go on.
Genuine(c, gen) == c = gen \/ c = -gen
ServedFresh ==
  [][\A t \in Threads : At(t, "check") /\ th'[t].pc = "idle" =>
       \A i \in 1..Len(th[t].bytes) : Genuine(th[t].bytes[i], Obj(t).gen)]_vars

\* "status.Offset means data in cache is present in range [0, status.offset)":
\* as long as a job is the one the job manager knows and is neither Failed nor
\* Invalid, the file at its path has that much of the job's object.  Workers of
\* a parallel download finish their ranges in any order.
OffsetIsDownloaded ==
  \A n \in Names : LET j == jobOf[n] IN
    j # 0 /\ jobs[j].st \in {"Downloading", "Completed"} /\ jobs[j].pc # "remove" /\ jobs[j].off > 0 =>
      /\ disk[n] # 0
      /\ Len(data[disk[n]]) >= jobs[j].off
      /\ \A i \in 1..jobs[j].off : Genuine(data[disk[n]][i], jobs[j].obj.gen)

\* With CRC checks on, a file whose download has ended well is the object byte
\* for byte: no reader is given a job-less entry over a damaged file.
CompletedIsIntact ==
  \A n \in Names : kind.crc /\ Present(n) /\ jobOf[n] = 0 /\ Entry(n).off = Entry(n).size /\ disk[n] # 0
    /\ HandlerFree => \A i \in 1..Entry(n).size : data[disk[n]][i] = Entry(n).gen

\* The file info cache is in order, although GetCacheHandle, the jobs and the
\* sparse reads change it under different locks: its list and its index agree,
\* and its counter is the sum of its entries' sizes, up to what a sparse read has
\* added to an entry and not yet to the counter, and to what it never adds since
\* the entry was evicted in between (fileInfo.Size and UpdateSize).  With that the
\* counter may even be below zero, as an unsigned number.  Where entries do not
\* grow it is within the limit.
SumOf(f) == LET s[S \in SUBSET DOMAIN f] == IF S = {} THEN 0
                ELSE LET x == CHOOSE x \in S : TRUE IN f[x] + s[S \ {x}] IN s[DOMAIN f]
ToAdd(t) == IF At(t, "size") THEN th[t].bytes[1] ELSE 0
CacheInOrder ==
  /\ Consistent(cache)
  /\ (cache.size + lost + SumOf([t \in Threads |-> ToAdd(t)])) % MaxUint64
       = SumOf([n \in Names |-> FileInfoSize(cache.val[n])]) % MaxUint64
  /\ ~kind.sparse => cache.size <= cache.max

\* No download goes on unaccounted for: a job that the job manager knows and that has not
\* ended badly has an entry for its generation, once nobody is in GetCacheHandle or
\* InvalidateCache, except while the job itself throws a damaged file away.
JobHasEntry ==
  \A n \in Names : LET j == jobOf[n] IN
    j # 0 /\ HandlerFree /\ jobs[j].st \in {"NotStarted", "Downloading", "Completed"} /\ jobs[j].pc # "remove" =>
      Present(n) /\ Entry(n).gen = jobs[j].obj.gen

\* Unmount leaves no download behind: once CacheHandler.Destroy has returned no
\* goroutine of a job still copies into the cache directory.
UnmountedIsQuiet ==
  (\E t \in Threads : At(t, "unmounted")) =>
    \A j \in JobIds : jobs[j].pc \in {"none", "close", "cleanup", "done"}

\* What the jobs claim to have downloaded is there: the offset published by a running job,
\* and the whole checked file once it has ended.
DownloadsInPlace == OffsetIsDownloaded /\ CompletedIsIntact

\* The file info cache is in order while jobs, readers and evictions run, every job has its
\* entry, and unmounting leaves nobody behind who could disturb either.
CacheAndJobsInOrder == CacheInOrder /\ JobHasEntry /\ UnmountedIsQuiet

\* Every read ends: a subscriber of a job is told, an evicting thread is not left
\* waiting for the goroutine it cancelled, and nobody waits for a lock for ever.
ReadsEnd == \A t \in Threads : []<>(th[t].pc \in {"idle", "unmounted", "panic"})

\* The scheduler does not stop while a thread in a call or a goroutine can run.
\* With finitely many calls that is all it takes.
Fairness == WF_vars(/\ UNCHANGED calls
                    /\ \/ \E t \in Threads : Continue(t)
                       \/ \E j \in JobIds : Goroutine(j) /\ UNCHANGED object
                    /\ Accounted)
Spec == Init /\ [][Next]_vars /\ Fairness
=============================================================================
