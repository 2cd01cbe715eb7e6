----------------------------- MODULE DownloadJob -----------------------------
(***************************************************************************)
(* The download jobs of the file cache                                     *)
(* (internal/cache/file/downloader: job.go, parallel_downloads_job.go,     *)
(* sparse_downloads_job.go, downloader.go) with the file info cache and    *)
(* the local files they fill.  A job's goroutine copies the object, one    *)
(* read chunk at a time or with several workers, and publishes in          *)
(* status.Offset how much of the file can be read.                         *)
(*                                                                         *)
(* Offsets count read chunks (ReadChunkSize); kind.chunk of them make a    *)
(* download chunk (DownloadChunkSizeMb).  A chunk of a file holds the      *)
(* generation its bytes were copied from, negative when the copy was       *)
(* damaged on its way, 0 for bytes that were never written.                *)
(***************************************************************************)
EXTENDS Integers, Sequences, FiniteSets

CONSTANTS
  Names,       \* the objects
  Threads,     \* the goroutines that serve read requests
  Readers,     \* the FileCacheReaders of the open file handles
  JobIds,      \* the addresses of the jobs in memory, positive integers
  Files,       \* the inodes of the local file system, positive integers
  Workers,     \* 0..ParallelDownloadsPerFile-1, the goroutines of a parallel download
  Slots,       \* MaxParallelDownloads
  MaxUint64,   \* the sentinel offset of a sparse entry, above every offset
  Kinds        \* the configurations of the cache and the sizes of the objects

VARIABLES
  kind,        \* the configuration, fixed at mount time
  gcs,         \* the version of each object in the bucket
  cache,       \* fileInfoCache
  jobs,        \* the jobs
  jobOf,       \* JobManager.jobs: the job of an object, 0 for none
  disk,        \* the inode at the cache path of an object, 0 for none
  data,        \* the contents of the inodes
  slots,       \* what is left of maxParallelismSem
  handles,     \* the cache handle of each reader: the open file, the job, the offsets
  note,        \* the status a subscriber finds in its channel
  th           \* where each thread is, with its arguments and local variables

jobVars == <<kind, gcs, cache, jobs, jobOf, disk, data, slots, note>>

Least(S) == CHOOSE x \in S : \A y \in S : x <= y
Smaller(a, b) == IF a < b THEN a ELSE b

\* The MinObject of version v of object n.  An appendable object grows and
\* keeps its generation; any other one changes it.
Object(n, v) ==
  [name |-> n, gen |-> IF kind.append THEN 1 ELSE v, size |-> kind.sizes[n][v]]
NoObject == [name |-> "none", gen |-> 0, size |-> 0]
Generation(n) == Object(n, gcs[n]).gen

-----------------------------------------------------------------------------
\* The entries of the file info cache (data.FileInfo, data.ByteRangeMap).

NoEntry == [gen |-> 0, off |-> 0, size |-> 0, sparse |-> FALSE, ranges |-> {}]

FileInfoSize(fi) == IF fi.sparse THEN kind.chunk * Cardinality(fi.ranges) ELSE fi.size

INSTANCE LRUCache WITH Keys <- Names, Size <- FileInfoSize, Word <- MaxUint64

NewFileInfo(o) ==
  [gen |-> o.gen, off |-> IF kind.sparse THEN MaxUint64 ELSE 0, size |-> o.size,
   sparse |-> kind.sparse, ranges |-> {}]

chunkID(off) == off \div kind.chunk
ChunksOf(start, end) == IF start >= end THEN {} ELSE chunkID(start)..chunkID(end - 1)
AddRange(fi, start, end) == [fi EXCEPT !.ranges = @ \cup ChunksOf(start, end)]
BytesAdded(fi, start, end) == kind.chunk * Cardinality(ChunksOf(start, end) \ fi.ranges)
ContainsRange(fi, start, end) == ChunksOf(start, end) \subseteq fi.ranges

\* calculateSparseChunkBoundaries: the end is rounded up and capped by the size.
SparseStart(start) == (start \div kind.chunk) * kind.chunk
SparseEnd(end, size) == Smaller(((end + kind.chunk - 1) \div kind.chunk) * kind.chunk, size)

-----------------------------------------------------------------------------
\* The local files.

WriteAt(bytes, off, new) ==
  [i \in 1..(IF Len(bytes) < off + Len(new) THEN off + Len(new) ELSE Len(bytes)) |->
     IF i > off /\ i <= off + Len(new) THEN new[i - off]
     ELSE IF i <= Len(bytes) THEN bytes[i] ELSE 0]
Copies(gen, n) == [i \in 1..n |-> gen]

\* TruncateAndRemoveFile: who still has the file open finds it empty.
TruncateAndRemoveFile(n) ==
  /\ disk' = [disk EXCEPT ![n] = 0]
  /\ data' = IF disk[n] = 0 THEN data ELSE [data EXCEPT ![disk[n]] = << >>]

-----------------------------------------------------------------------------
\* The job and its status.

Asleep == [pc |-> "asleep", at |-> 0, from |-> 0, end |-> 0]
NewJob(o) ==
  [obj |-> o, st |-> "NotStarted", off |-> 0, subs |-> {}, cb |-> TRUE, ctx |-> "none",
   pc |-> "none", at |-> 0, lim |-> 0, fd |-> 0, pub |-> 0, chan |-> << >>, closed |-> FALSE,
   err |-> "none", wk |-> [w \in Workers |-> Asleep], rmap |-> << >>]
NoJob == [NewJob(NoObject) EXCEPT !.cb = FALSE, !.st = "Invalid"]
Status(j) == [st |-> jobs[j].st, off |-> jobs[j].off]
NoNote == [st |-> "none", off |-> 0]

\* notifySubscribers, on a job about to be stored: who waits for an offset the
\* job has reached, or for a job that has ended badly, finds the status.
Ready_OffsetOnly(job) == {s \in job.subs : job.off >= s.off} \* Mutant: a failed job tells nobody.
Ready(job) == {s \in job.subs : job.st \in {"Failed", "Invalid"} \/ job.off >= s.off}
Notified(job) == [job EXCEPT !.subs = @ \ Ready(job)]
Notes(job) ==
  [t \in Threads |-> IF \E s \in Ready(job) : s.thread = t
                     THEN [st |-> job.st, off |-> job.off] ELSE note[t]]
Notify(j, job) ==
  /\ jobs' = [jobs EXCEPT ![j] = Notified(job)]
  /\ note' = Notes(job)
Step(j, job) == jobs' = [jobs EXCEPT ![j] = job] /\ UNCHANGED note

\* The last status of a goroutine; its local variables are of no use any more.
Last(job, st, pc) ==
  [NewJob(job.obj) EXCEPT !.st = st, !.pc = pc, !.off = job.off, !.subs = job.subs, !.cb = job.cb, !.ctx = job.ctx]
updateStatusAndNotifySubscribers(j, st, pc) == Notify(j, Last(jobs[j], st, pc))
\* handleError: a cancelled context makes the job Invalid, anything else Failed.
handleError(j, err, pc) ==
  updateStatusAndNotifySubscribers(j, IF err \in {"canceled", "ErrEntryNotExist"} THEN "Invalid" ELSE "Failed", pc)

\* updateStatusOffset: the entry is overwritten, then the offset published.
FileInfoAt(job, off) ==
  [gen |-> job.obj.gen, off |-> off, size |-> job.obj.size, sparse |-> FALSE, ranges |-> {}]
OffsetFails(job, off) == UpdateFails(cache, job.obj.name, FileInfoAt(job, off))
updateStatusOffset(j, job, off) ==
  /\ OffsetFails(job, off) = "ok"
  /\ cache' = UpdateWithoutChangingOrder(cache, job.obj.name, FileInfoAt(job, off))
  /\ Notify(j, [job EXCEPT !.off = off])

\* A job is freed once neither the manager, a handle, a thread nor a goroutine has it.
Swept(js, of, hs, ts) ==
  [j \in JobIds |-> IF \/ \E n \in Names : of[n] = j
                       \/ \E r \in Readers : hs[r].job = j
                       \/ \E t \in Threads : ts[t].job = j
                       \/ js[j].pc \notin {"none", "done"}
                    THEN js[j] ELSE NoJob]

\* removeJobCallback: JobManager.removeJob deletes by name, at most once a job.
removeJobCallback(j) ==
  jobOf' = IF jobs[j].cb THEN [jobOf EXCEPT ![jobs[j].obj.name] = 0] ELSE jobOf

-----------------------------------------------------------------------------
\* The goroutine of a job (downloadObjectAsync).

Cancelled(j) == jobs[j].ctx = "cancelled"
FreeFiles == {f \in Files : /\ \A n \in Names : disk[n] # f
                            /\ data[f] = << >>
                            /\ \A j \in JobIds : jobs[j].fd # f
                            /\ \A r \in Readers : handles[r].file # f}
FreshFile == Least(FreeFiles)

\* How many workers of a parallel download start at once: the first does not
\* need a slot, the others take one each, and there is one per download chunk.
Started(j) ==
  LET chunks == (jobs[j].obj.size + kind.chunk - 1) \div kind.chunk
  IN  Smaller(Smaller(Cardinality(Workers), chunks), 1 + slots)

createCacheFile(j) ==
  /\ jobs[j].pc = "create"
  /\ \/ LET n == jobs[j].obj.name
            f == IF disk[n] # 0 THEN disk[n] ELSE FreshFile
            k == IF kind.parallel THEN Started(j) ELSE 0
        IN  /\ disk' = [disk EXCEPT ![n] = f]
            /\ data' = [data EXCEPT ![f] = << >>]
            /\ slots' = IF k > 1 THEN slots - (k - 1) ELSE slots
            /\ Step(j, [jobs[j] EXCEPT !.fd = f, !.pc = IF kind.parallel THEN "publish" ELSE "read",
                          !.wk = [w \in Workers |-> IF w < k THEN [Asleep EXCEPT !.pc = "idle"] ELSE @[w]]])
     \/ /\ kind.faults
        /\ handleError(j, "error", "cleanup")
        /\ UNCHANGED <<disk, data, slots>>
  /\ UNCHANGED <<kind, gcs, cache, jobOf>>

\* One round of the loop of downloadObjectToFile: a reader is opened where there
\* is none, for the generation of the job, and a chunk is copied from it.
MayRead(j) == jobs[j].lim # 0 \/ Generation(jobs[j].obj.name) = jobs[j].obj.gen
CopyFails(j, err) ==
  \/ err = "canceled" /\ Cancelled(j)
  \/ err = "error" /\ (kind.faults \/ ~MayRead(j))
Arriving(gen) == IF kind.damage THEN {gen, -gen} ELSE {gen}

copyChunk(j) ==
  /\ jobs[j].pc = "read"
  /\ jobs[j].at < jobs[j].obj.size
  /\ LET job == jobs[j]
         lim == IF job.lim = 0 THEN Smaller(job.at + kind.sequential, job.obj.size) ELSE job.lim
     IN  \/ /\ MayRead(j) /\ (Cancelled(j) => job.lim # 0)
            /\ \E c \in Arriving(job.obj.gen) :
                 data' = [data EXCEPT ![job.fd] = WriteAt(@, job.at, <<c>>)]
            /\ Step(j, [job EXCEPT !.at = @ + 1, !.lim = IF job.at + 1 = lim THEN 0 ELSE lim,
                                   !.pc = "offset"])
         \/ \E err \in {"canceled", "error"} :
              CopyFails(j, err) /\ handleError(j, err, "close") /\ UNCHANGED data
  /\ UNCHANGED <<kind, gcs, cache, jobOf, disk, slots>>

publishOffset(j) ==
  /\ jobs[j].pc = "offset"
  /\ \/ updateStatusOffset(j, [jobs[j] EXCEPT !.pc = "read"], jobs[j].at)
     \/ /\ OffsetFails(jobs[j], jobs[j].at) # "ok"
        /\ handleError(j, OffsetFails(jobs[j], jobs[j].at), "close")
        /\ UNCHANGED cache
  /\ UNCHANGED <<kind, gcs, jobOf, disk, data, slots>>

\* The end of downloadObjectAsync: truncate to the size of the object (O_DIRECT
\* pads the last chunk), then validateCRC on the file found at the path.
Downloaded(j) ==
  \/ jobs[j].pc = "read" /\ jobs[j].at = jobs[j].obj.size
  \/ jobs[j].pc = "verify"
Truncated(bytes, n) == [i \in 1..n |-> IF i <= Len(bytes) THEN bytes[i] ELSE 0]
Damaged_Never(bytes, o) == FALSE \* Mutant: the checksums are not compared.
Damaged(bytes, o) == bytes # Copies(o.gen, o.size)

verify(j) ==
  /\ Downloaded(j)
  /\ LET job == jobs[j]
         bytes == Truncated(data[job.fd], job.obj.size)
         path == disk[job.obj.name]
         found == IF path = job.fd THEN bytes ELSE IF path = 0 THEN << >> ELSE data[path]
     IN  /\ data' = [data EXCEPT ![job.fd] = bytes]
         /\ \/ ~kind.crc /\ updateStatusAndNotifySubscribers(j, "Completed", "close")
            \/ kind.crc /\ Cancelled(j) /\ handleError(j, "canceled", "close")
            \/ /\ kind.crc /\ path = 0
               /\ handleError(j, "error", "close")
            \/ /\ kind.crc /\ path # 0 /\ ~Damaged(found, job.obj)
               /\ updateStatusAndNotifySubscribers(j, "Completed", "close")
            \/ /\ kind.crc /\ path # 0 /\ Damaged(found, job.obj)
               /\ Step(j, [job EXCEPT !.pc = "erase"])
  /\ UNCHANGED <<kind, gcs, cache, jobOf, disk, slots>>

\* A damaged file: its entry goes, then the file at the path, then the job fails.
eraseDamaged(j) ==
  /\ jobs[j].pc = "erase"
  /\ cache' = Erase(cache, jobs[j].obj.name)
  /\ Step(j, [jobs[j] EXCEPT !.pc = "remove"])
  /\ UNCHANGED <<kind, gcs, jobOf, disk, data, slots>>
removeDamaged(j) ==
  /\ jobs[j].pc = "remove"
  /\ TruncateAndRemoveFile(jobs[j].obj.name)
  /\ handleError(j, "error", "close")
  /\ UNCHANGED <<kind, gcs, cache, jobOf, slots>>

\* The deferred calls: the file is closed, which may fail even after the job
\* completed, and the job takes itself out of the job manager.
closeFails(j) ==
  /\ jobs[j].pc = "close" /\ kind.faults
  /\ handleError(j, "error", "cleanup")
  /\ UNCHANGED <<kind, gcs, cache, jobOf, disk, data, slots>>
cleanUpDownloadAsyncJob(j) ==
  /\ jobs[j].pc \in {"close", "cleanup"}
  /\ removeJobCallback(j)
  /\ jobs' = Swept([jobs EXCEPT ![j] = [@ EXCEPT !.cb = FALSE, !.ctx = "none", !.pc = "done"]], jobOf', handles, th)
  /\ UNCHANGED <<kind, gcs, cache, disk, data, slots, note>>

-----------------------------------------------------------------------------
\* The parallel download (parallelDownloadObjectToFile, downloadOffsets).

GroupDone(j) == Cancelled(j) \/ jobs[j].err # "none"

\* The producer: the next range into the channel, then a worker for every slot
\* that has become free.
publish(j) ==
  /\ jobs[j].pc = "publish"
  /\ LET job == jobs[j]
         more == job.pub < job.obj.size
         sleeping == {w \in Workers : job.wk[w].pc = "asleep"}
         k == Smaller(Cardinality(sleeping), slots)
         woken == {w \in sleeping : Cardinality({v \in sleeping : v < w}) < k}
     IN  \/ /\ more /\ Len(job.chan) < 2 * Cardinality(Workers)
            /\ slots' = slots - k
            /\ Step(j, [job EXCEPT !.chan = Append(@, job.pub),
                                   !.pub = Smaller(@ + kind.chunk, job.obj.size),
                                   !.wk = [w \in Workers |-> IF w \in woken THEN [Asleep EXCEPT !.pc = "idle"]
                                                             ELSE @[w]]])
         \/ /\ ~more \/ GroupDone(j)
            /\ Step(j, [job EXCEPT !.closed = TRUE, !.pc = IF GroupDone(j) THEN "abort" ELSE "join"])
            /\ UNCHANGED slots
  /\ UNCHANGED <<kind, gcs, cache, jobOf, disk, data>>

\* handleJobCompletion: wait for the workers.  If the context was done before,
\* its own error, context.Canceled, is part of the result.
join(j) ==
  /\ jobs[j].pc \in {"join", "abort"}
  /\ \A w \in Workers : jobs[j].wk[w].pc \in {"asleep", "gone"}
  /\ IF jobs[j].pc = "abort" THEN handleError(j, "canceled", "close")
     ELSE IF jobs[j].err # "none" THEN handleError(j, jobs[j].err, "close")
     ELSE Step(j, [jobs[j] EXCEPT !.pc = "verify"])
  /\ UNCHANGED <<kind, gcs, cache, jobOf, disk, data, slots>>

\* A worker leaves, with the error the group keeps if it is the first.
Gone(job, w, err) ==
  [job EXCEPT !.wk[w] = [Asleep EXCEPT !.pc = "gone"], !.err = IF @ = "none" THEN err ELSE @]
Released(w) == slots' = IF w > 0 THEN slots + 1 ELSE slots

takeRange(j, w) ==
  /\ jobs[j].wk[w].pc = "idle"
  /\ LET job == jobs[j] IN
     \/ /\ job.chan # << >>
        /\ LET s == Head(job.chan) IN
           Step(j, [job EXCEPT !.chan = Tail(@),
                      !.wk[w] = [pc |-> "copy", at |-> s, from |-> s, end |-> Smaller(s + kind.chunk, job.obj.size)]])
        /\ UNCHANGED slots
     \/ /\ job.chan = << >> /\ job.closed
        /\ Step(j, Gone(job, w, "none"))
        /\ Released(w)
  /\ UNCHANGED <<kind, gcs, cache, jobOf, disk, data>>

\* downloadRange: the whole range, or one read chunk of it when
\* ExperimentalParallelDownloadsDefaultOn reports each of them.
downloadRange(j, w) ==
  /\ jobs[j].wk[w].pc = "copy"
  /\ LET job == jobs[j]
         me == job.wk[w]
         to == IF kind.defaultOn THEN me.at + 1 ELSE me.end
         pad == IF kind.direct /\ to = job.obj.size THEN <<0>> ELSE << >>
     IN  \/ /\ ~GroupDone(j)
            /\ me.at > me.from \/ Generation(job.obj.name) = job.obj.gen
            /\ data' = [data EXCEPT ![job.fd] = WriteAt(@, me.at, Copies(job.obj.gen, to - me.at) \o pad)]
            /\ Step(j, [job EXCEPT !.wk[w].pc = "mark"])
            /\ UNCHANGED slots
         \/ /\ kind.faults \/ (me.at = me.from /\ Generation(job.obj.name) # job.obj.gen)
            /\ Step(j, Gone(job, w, "error")) /\ Released(w) /\ UNCHANGED data
         \/ /\ GroupDone(j)
            /\ Step(j, Gone(job, w, "canceled")) /\ Released(w) /\ UNCHANGED data
  /\ UNCHANGED <<kind, gcs, cache, jobOf, disk>>

\* updateRangeMap: rangeMap holds both ends of every downloaded range, each end
\* leading to the other one; the new range is merged with its neighbours.
Drop(m, ks) == [k \in DOMAIN m \ ks |-> m[k]]
Put(m, k, v) == [x \in DOMAIN m \cup {k} |-> IF x = k THEN v ELSE m[x]]
MergedStart_Zero(m, s) == 0 \* Mutant: every range counts as joined to the start of the file.
MergedStart(m, s) == IF s # 0 /\ s \in DOMAIN m THEN m[s] ELSE s
MergedEnd(m, e) == IF e \in DOMAIN m THEN m[e] ELSE e
Merged(m, s, e) ==
  LET left == IF s # 0 /\ s \in DOMAIN m THEN Drop(m, {s, m[s]}) ELSE m
      e2 == MergedEnd(left, e)
      right == IF e \in DOMAIN left THEN Drop(left, {e, left[e]}) ELSE left
      s2 == MergedStart(m, s)
  IN  Put(Put(right, s2, e2), e2, s2)
MergedTo(m, s, e) ==
  LET left == IF s # 0 /\ s \in DOMAIN m THEN Drop(m, {s, m[s]}) ELSE m
  IN  MergedEnd(left, e)

updateRangeMap(j, w) ==
  /\ jobs[j].wk[w].pc = "mark"
  /\ LET job == jobs[j]
         me == job.wk[w]
         to == IF kind.defaultOn THEN me.at + 1 ELSE me.end
         next == [job EXCEPT !.rmap = Merged(@, me.at, to),
                             !.wk[w] = IF to = me.end THEN [Asleep EXCEPT !.pc = "idle"]
                                       ELSE [me EXCEPT !.at = to, !.pc = "copy"]]
         off == MergedTo(job.rmap, me.at, to)
     IN  \/ /\ MergedStart(job.rmap, me.at) # 0
            /\ Step(j, next)
            /\ UNCHANGED <<cache, slots>>
         \/ /\ MergedStart(job.rmap, me.at) = 0
            /\ updateStatusOffset(j, next, off)
            /\ UNCHANGED slots
         \/ /\ MergedStart(job.rmap, me.at) = 0
            /\ OffsetFails(job, off) # "ok"
            /\ Step(j, Gone(next, w, OffsetFails(job, off))) /\ Released(w)
            /\ UNCHANGED cache
  /\ UNCHANGED <<kind, gcs, jobOf, disk, data>>

Run(j) ==
  \/ createCacheFile(j) \/ copyChunk(j) \/ publishOffset(j) \/ verify(j)
  \/ eraseDamaged(j) \/ removeDamaged(j) \/ closeFails(j) \/ cleanUpDownloadAsyncJob(j)
  \/ publish(j) \/ join(j)
  \/ \E w \in Workers : takeRange(j, w) \/ downloadRange(j, w) \/ updateRangeMap(j, w)

\* The goroutines of a job; they leave the cache handles and the threads alone.
Goroutine(j) == Run(j) /\ UNCHANGED <<handles, th>>
=============================================================================
