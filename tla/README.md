# gcsfuse: a verification project

gcsfuse mounts a Google Cloud Storage (GCS) bucket as a file system. The kernel
sends it requests, each served by a goroutine of its own; the bucket is a remote
service without POSIX semantics, shared with other clients. What is hard to get
right is the state kept between the two: inodes and their counts, data not yet
uploaded, data read ahead, caches of what the bucket said, and the locks, counts
and generation numbers that keep them in agreement.

This directory holds TLA+ models of that state, the configurations under which
TLC checks them, and proofs that TLAPS checks. `PROJECT.json` lists for every
definition the source lines it stands for, for every property a mutant of the
code under which TLC finds it violated, and under "hazards" the places in the
code that a test would hardly reach with the properties that watch them. Paths
below are relative to `src/internal` unless they start with `src/`.

Contents: [the system and its models](#the-system-and-its-models),
[modules](#modules), [runs](#runs), [bounds](#bounds),
[fairness and deadlock](#fairness-and-deadlock), [proofs](#proofs),
[what is only model checked](#what-is-only-model-checked),
[what is not modelled](#what-is-not-modelled), [observations](#observations).

## The system and its models

A request of the kernel passes the wrappers for metrics, tracing and errors
(`MountedServer`), finds its inode in the inode table (`InodeTable`) and is served
by a directory (`DirInode`) or a file.

- *Writing.* A file inode (`FileInode`) keeps unwritten data in a temp file or
  in a streaming handler (`BufferedWrites`, over `BlockPool`) until it is
  synced.
- *Reading.* A file handle (`FileHandle`) reads through a manager of three
  readers, tried in this order: the file cache (`FileCache`, `DownloadJob`,
  `LRUCache`), buffered reads (`BufferedReads`, over `BlockPool`) and
  range reads (`RangeReads`).
- *The bucket.* All of them talk to the bucket through the stat cache
  (`FastStatBucket`) and a stack of wrappers (`BucketStack`), at whose bottom
  is GCS with its retries or the in-memory bucket of the tests (`FakeBucket`).

| Source | Module | Composed with | Abstract specification |
|---|---|---|---|
| `block/` | `BlockPool` | | |
| `bufferedwrites/` | `BufferedWrites` | `BlockPool` | `StreamedFile` |
| `fs/fs.go`: inodes of a name | `InodeTable` | | |
| `fs/inode/file.go`, `gcsx/syncer.go`, `gcsx/temp_file.go` | `FileInode` | | |
| `storage/caching/`, `cache/metadata/stat_cache.go` | `FastStatBucket` | | |
| `fs/inode/dir.go`, `fs/handle/dir_handle.go`, `fs/fs.go`: names of a directory | `DirInode` | `FastStatBucket` | |
| `cache/lru/` | `LRUCache` | | |
| `cache/file/downloader/` | `DownloadJob` | `LRUCache` | |
| `cache/file/`, `gcsx/file_cache_reader.go` | `FileCache` | `DownloadJob` | |
| `bufferedread/`, `workerpool/`, `block/prefetch_block.go` | `BufferedReads` | `BlockPool` | |
| `gcsx/read_manager/`, `gcsx/client_readers/`, `gcsx/random_reader.go` | `RangeReads` | | |
| `fs/handle/file.go`, `gcsx/multi_range_downloader_wrapper.go` | `FileHandle` | | |
| `storage/fake/` | `FakeBucket` | | |
| `gcsx/bucket_manager.go` and the buckets it wraps, `ratelimit/`, `gcsx/garbage_collect.go`, `storage/bucket_handle.go` | `BucketStack` | `FakeBucket` | `Store` |
| `src/cfg/`, `src/cmd/root.go` | `Configuration` | | |
| `src/cmd/`, `fs/wrappers/`, `src/metrics/` | `MountedServer` | `Configuration` | |

## Modules

Each module is one component; `MC*` modules only instantiate, and hold the few properties
that need operators the model itself does not. Most models start by choosing a
`kind`: the settings of the mount, which requests happen and which things fail. The kinds of
a run are in its MC module.

### BlockPool

`block/block_pool.go`. A pool is a number of free blocks (`freeBlocksCh`), of lent blocks
(`lent`), the counter `totalBlocks`, and the permits it took from the semaphore
(`held`); `sem` is what the semaphore has given out. `Get` and `TryGet` are the same two
actions `GetFree` and `GetNew`; they differ in what happens when neither is
enabled (one polls, one returns an error). `ClearFreeBlockChannel` is a loop in the code
and a loop here (`ClearBlock`, `ClearDone`): other users release blocks between two
iterations. `GetFails` is a block whose memory cannot be mapped; its permit is
lost, and `lost` counts it.

### BufferedWrites and StreamedFile

`bufferedwrites/buffered_write_handler.go`, `upload_handler.go`. The handler's calls run
one at a time (the inode lock), each as a sequence of steps `pc`; the uploader
goroutine runs beside them and takes blocks from `uploadCh`. A byte is identified by its
offset, so a misplaced byte is visible wherever it ends up. The module instantiates
`BlockPool` for the pool of the file and for the other files competing for
the semaphore (`OtherFiles`). Failures: no block, no writer, an upload error,
cancellation.

`StreamedFile` is the promise: sizes are acknowledged, and the object appears
at most once, whole. `PublishedWhole` states that the handler implements it, with
`size <- acked`, as long as the file was not disturbed (`Undisturbed`): after a failed
allocation a retried write uploads bytes twice, after a failed writer the wait group is
too high, and after a write at the truncated size below the total size the
data is appended in the wrong place. What remains true then is
`NoAckedByteMissing`.

### InodeTable

`fs/fs.go`. The inodes of one file name. A step is one critical section of `fs.mu` or
what the holder of an inode lock does in GCS; `th` holds each request's program counter and
local variables, so the gap between leaving `fs.mu` and getting the inode lock is there.
`kernel` is what the kernel believes its lookup counts to be. Other clients write and
delete the object at any time; `kind.faults` are the errors the code has paths for, and
`failed` remembers those that leave counts or locks in disorder, which the
properties then name as exceptions. The kernel is as concurrent as it may be: lookups run
beside everything, including renames and creates; a forget may come at any moment, for any inode but
one that a request still refers to (`held`: the file an unlink or rename was called for, the file of an
open handle). Hence a rename, a create and a lookup whose object changed twice may find that the inode they
still have to give out was destroyed by a forget; `revived` remembers the inodes they brought back, and is
set by these three places only.

### FileInode

`fs/inode/file.go`, `gcsx/temp_file.go`, `gcsx/syncer.go`,
`gcsx/compose_object_creator.go`. One inode with its object (`obj` in the bucket,
`src` as the inode remembers it), its write handler `bwh` or temp file
`content`, its handles. The inode lock is held for a call, so at most one call is in progress (`op`);
its steps end at requests to GCS, and between them other clients overwrite, delete or
touch the object, uploads fail, and the deletion of an unlink takes effect.
`view` is the content as the acknowledged calls left it. `Current` is the content
the inode would serve or upload, wherever it is kept. The handler is represented by what
the inode sees of it (its data, its truncated size, whether it failed); how it
does its work is `BufferedWrites`.

### FastStatBucket

`storage/caching/fast_stat_bucket.go` over `cache/metadata/stat_cache.go`. A call to the
bucket is three steps: what the wrapper does to the cache before it (`Sent`,
`Exchange`), the call in GCS (`Serve`, which may fail before or after it took effect),
and what it does with the answer (`Fill`). The wrapper's mutex covers the first and the
last but not the middle. GCS itself is external. For each name `n` there are
three keys: the object `n`, the object or folder `n/`, and one object below it
standing for all. The pair of generation and meta-generation is one increasing version.

`taint` is history: why an entry may differ from the bucket (two
overlapping calls, another client, a renamed folder, a lost answer). Properties are stated for
what is not tainted, so they cover the code's own ordering and not what the
documentation excludes.

### DirInode

`fs/inode/dir.go`, `fs/handle/dir_handle.go` and the handlers of `fs/fs.go` for the children
of one directory. It extends `FastStatBucket`, so caches, lock, local files and GCS interleave in
one model. Lookups share the directory's lock (`RLock`) and make up to two calls in
parallel; creates, deletes, renames and listings take it alone and keep it across their calls;
flushes and reads of files take no directory lock. A request is a record with
a program counter; a request that looks a name up on its way continues at
`then`. A directory of a flat bucket is renamed object by object, a folder of a
hierarchical one in one call.

`implicit` is `fs.implicitDirInodes`: `RmDir` consults that index, not the result of its
lookup, to decide whether there is an object to delete. In `renameHierarchicalDir` a
destination that is not empty keeps its lock, and in `nonAtomicRename` the parent does when the file cache fails to
drop the file (`cacheFaults`): the holder of such a lock is the name of the function, and nobody gives it back.

### LRUCache, DownloadJob and FileCache

`cache/lru/lru.go`: a method holds the cache's lock for its whole body, so it is a function from
cache to cache, with `currentSize` as the unsigned counter of its own that it is in the code.

`cache/file/downloader/`: a job's goroutine step by step (open, copy a chunk, publish the
offset, notify subscribers, check, finish), sequential or parallel with workers and merged
ranges, and the download a sparse read makes itself. A chunk of a local file holds
the generation its bytes came from, negative if they were damaged on the way, so bytes of another generation
or a hole are visible. `disk` maps a cache path to a file and `data` files to contents: an
open handle keeps a file that was removed from its path.

`cache/file/cache_handler.go`, `cache_handle.go`, `gcsx/file_cache_reader.go`: threads read
through readers, whose handles and jobs are shared. `CacheHandler.mu` covers GetCacheHandle and
InvalidateCache, but neither the reads nor the goroutines. Eviction cancels a job and waits for
its goroutine while `mu` is held. Each read takes the write lock of its reader before the read lock, so it waits for the
reads in progress through that reader. `lost` is a history variable: the bytes by which an evicted sparse entry
was reduced in the counter without ever having been added (`CacheInOrder`).

### BufferedReads

`bufferedread/buffered_reader.go`, `download_task.go`, `workerpool/static_worker_pool.go`,
`block/prefetch_block.go`. A reader owns one pool of `BlockPool`, a queue of blocks around
the position it expects, and `op`, the call that holds `p.mu`, split at each wait and each
block it schedules. Tasks sit in one of two channels until a worker takes them; responses
hand slices of blocks to the kernel (`pending`), and their callbacks (`cb`) return
references when the kernel is done. Destroy waits for callbacks for a bounded time; with `kind.slow` they may come
after it. A panic ends the process (`Alive`).

### RangeReads

The classifier of the access pattern, the range reader with its stream (skip, reuse, reconnect, retry
of a short read, idle timeout), the choice of the multi-range downloader in zonal buckets, and the
random reader that these replace (`kind.old`). The content of unit `i` is `i`, so a
buffer shows where its bytes came from. Threads share the reader; `mu` is its lock.

### FileHandle

`fs/handle/file.go` and `gcsx/multi_range_downloader_wrapper.go`. A read checks under
`inode.mu` whether the inode is clean and which generation it has, releases it, takes `fh.mu` for reading, and
replaces the manager under the write lock if its generation differs; between the two locks others may come. An upload
may fail, and then the content stays local. The content of the object is its
generation. The wrapper is one per inode: its reference count, the downgrade and
upgrade of its lock, and recreation after errors are steps of the threads that read
through it.

### FakeBucket, Store and BucketStack

`storage/fake/bucket.go` as operators from a bucket and a request to the bucket after it and the answer.
A name is the sequence of its components. Not every method is one step in the code: MoveObject, RenameFolder,
NewMultiRangeDownloader, CreateAppendableObjectWriter and a writer's Write use the slices without the lock, and what creates an object on
a zonal bucket lets go of it in the middle (`Unlocked`). The model makes these requests only when no other is in progress; what they do together is a data
race, listed under Observations. The service, where they are atomic, takes them at any time.

`BucketStack` is the stack `SetUpBucket` builds: throttle, prefix, debug log, monitoring, dummy reads, and
at the bottom the fake bucket or the service with its retries, where an attempt may be lost
before or after it takes effect or arrive after its successor. Callers, a
paged listing, the garbage collector of temporary objects with its three goroutines and the
call that tries a bucket at set-up run concurrently. A rate limit no token bucket can keep fails the set-up.

`Store` is what a `gcs.Bucket` promises: each request takes effect in one step on the names its
callers use, and its answer is the bucket's at that step. `ImplementsStore` maps
the bucket to what lies below the mounted prefix. The in-memory bucket serves a request once; the service may serve it again as
attempts are retried, and that it does not where a precondition forbids it is `EffectsIntended`, not the refinement.

### Configuration and MountedServer

`Configuration`: flags over config file over defaults, then validation, then the values of the profile and of the
machine, then the derived values; all as functions on settings. `Over` is how one layer hides the next, `Parsed` what the types of
the flags admit. Numbers beyond TLC's integers have stand-ins in the order of the code's limits; the size made of a deprecated
capacity wraps at the stand-in for 2^64.

`MountedServer`: the process from its start to its end. The first process may start a
daemon, which makes its configuration anew, and waits for its outcome. Operations pass through error
mapping, tracing and monitoring; counters are atomic, latencies go through a bounded channel to
workers, an exporter reads at any time. With metrics off, or when they cannot be set up, the handle that counts
nothing takes their place (`otel` is FALSE). Signals, failing unmounts, the timer that ends
the process and panics interleave with them; a user may unmount at any time after the mount, also before success is reported,
and `Join` may return an error, with which the process then ends. The fuse and daemonize libraries are external.

## Runs

### Passing

| Run | What happens | What is checked |
|---|---|---|
| `streaming_writes` | writes, truncates, syncs, flushes, unlinks and destroys against the uploader and a second file on one semaphore; blocks and writers that cannot be had, uploads that fail | wait group, channel and blocks agree (`PipelineInOrder`); bytes are at their offsets, none acknowledged is missing, sizes are those of the data (`BytesInPlace`); refinement of `StreamedFile` (`PublishedWhole`); calls return and the uploader ends (`CallsReturn`) |
| `inode_table` | two requests of every kind at a time, other clients, every fault; lookups that race with two new generations | counts, table, indexes and locks agree (`TableInOrder`); the index never regresses (`IndexNeverRegresses`); requests return (`RequestsReturn`) |
| `file_inode` | one inode, two write handles, a change by another client between any two steps, lost answers, failing uploads | the inode serves and stages what was acknowledged (`ContentInOrder`), loses no update of others (`NoLostUpdate`), publishes what was acknowledged and nothing after an unlink (`PublishesInOrder`), drops nothing without an error (`NoSilentLoss`) |
| `directory` | two requests at a time, in scenarios of bucket, faults, names and requests | the stat cache follows the bucket and the lock orders what it covers (`StatCacheInStep`); a cached type hides nothing (`TypeHidesNothing`); lookups, listings and RmDir answer what was true while they ran (`AnswersAreLinear`); a rename leaves the file somewhere (`RenameLosesNothing`) |
| `file_cache` | two threads, two readers; downloads, evictions, invalidations, new generations, growth, damage, failures, unmount | what jobs claim is there (`DownloadsInPlace`); entries, jobs, sizes and unmount are in order (`CacheAndJobsInOrder`); reads are served from the right generation (`ServedFresh`); reads end (`ReadsEnd`) |
| `buffered_reads` | readers on one semaphore and two workers seek, prefetch, fail, are interrupted and destroyed while the kernel holds slices | blocks are in the pool, in the queue or lent, and slices stay intact (`BlocksInOrder`); permits are conserved (`PermitAccounting`); a read is complete (`ReadsComplete`); calls end (`CallsEnd`) |
| `range_reads` | two threads read one object, sequentially and at random; streams end early, fail, idle out and are cancelled | the bytes asked for, all of them (`ReadsRight`); one stream, where the reader believes it to be (`StreamInOrder`); reads return (`ReadsReturn`) |
| `file_handle` | three threads, two handles that are released and opened again, a file that is written | a read is as fresh as the file when it began (`FreshReads`); managers and downloaders in use are kept (`ReadersKeepSources`); reads return (`ReadsReturn`) |
| `store` | callers, a paged listing and the garbage collector through the wrappers, over the fake bucket and over a lossy service | listings are complete (`ListingComplete`); requests act at most once and the collector on stale objects only (`EffectsIntended`); rates and counts (`TrafficInOrder`); refinement of `Store` (`ImplementsStore`); nothing outside the prefix changes (`NothingOutside`); order and generations (`StoreInOrder`); calls return (`CallsReturn`) |
| `mounted_server` | configurations, background and foreground mounts, failing steps, operations with every error `errno` tells apart, signals, unmounts | replies are true (`RepliesFaithful`); each is counted once and exported (`Measured`); the parent is told the truth, and the configuration keeps what the user gave and is consistent (`OutcomeTrue`); a signal ends the process and the parent gets an answer (`SignalEnds`) |

### Disagreements between code and documentation

Each of these runs checks one statement and finds a behaviour of the code against it.

| Run | Statement | Behaviour |
|---|---|---|
| `sparse_generations` | `cache/file/cache_handle.go:129`, `cache_handler.go:167`: a read is served from an entry of the same generation | a sparse read that is downloading when the entry is replaced writes its bytes into the new generation's file and records them in its entry (`cache/file/downloader/sparse_downloads_job.go:206`) |
| `stale_downloader` | `src/docs/semantics.md:150`: close-to-open consistency | the multi-range downloader of the old generation is used as long as another handle keeps it (`gcsx/multi_range_downloader_wrapper.go:153`) |

### Mutants

Every property of a passing run has a mutant in `PROJECT.json`: a change of one
mapped definition such as a dropped guard, under which TLC finds the property
violated. The mutated forms stand before the definitions they change.

## Bounds

Bounds are constants of the configurations or fields of a kind. What was chosen, and
why it is enough for the cases that matter:

- `streaming_writes`: blocks of two bytes, files of three to five, two blocks per file and
  two permits, so a write spans blocks, fills one exactly, and runs out of them. Five kinds:
  a new file beside another one, with failing allocations; alone and longer; with
  writes below the total size; appended to a longer and to an empty object of a zonal bucket, where the
  writer may not be created. `MaxWg` bounds the wait group that a failed Upload inflates.
- `inode_table`: two threads, four requests; seven inodes, one for each request and
  generation, so minting is never the bound. One kind has every request over two generations, one has lookups and
  forgets over three (an object that changes twice during one lookup), one has
  creates whose write handler or temp file fails. The theorems have no such bounds.
- `file_inode`: two handles (symmetric), files of up to two bytes, five calls, one step of another
  client, contents of length 0 and 1. Five calls are enough to create, write, sync, write out
  of order and release; the compose threshold of 1 lies between the contents. The theorems
  have no such bounds.
- `directory`: two names, two callers (symmetric; no liveness is checked), versions up
  to 3. A scenario fixes the bucket (flat, with implicit directories,
  hierarchical), whether calls may fail, what exists at first and which operations happen on
  which name; they repeat without bound. All operations at once are out of reach, so each
  scenario has the few that interfere: two kinds of request with failing calls, three and more
  without. A write that would need a version past the bound does not happen.
- `file_cache`: two names, two threads, two readers, three jobs, four local files, two parallel
  workers, objects of up to three chunks. Sizes count modulo 16 where the code has 64 bits. Eleven
  kinds: eviction by the other name; invalidation by a writer; a new generation; a growing
  object; parallel downloads with small and larger chunks; damaged transfers with the
  checksum on, of an object that is replaced; failing calls; sparse reads and invalidations; unmount; names excluded and included.
- `buffered_reads`: blocks of two units, objects of up to seven, three blocks per reader of
  which one is reserved, four permits, one worker of each sort with one task in its channel. Seven kinds:
  seeks and refills; failing downloads; interrupts; two readers; an object that grows; a kernel that returns slices
  after the timeout of Destroy; pools
  without a reader in every order of getting, releasing and clearing.
- `range_reads`: an object of eight units, windows of two to four, reads that follow one another,
  skip a little, jump far and pass the end; two seeks make a pattern random. Six kinds: regional and zonal buckets with
  the new and the old readers, idle streams, interrupts.
- `file_handle`: two threads on one handle and a third on another without the downloader; the downloader
  through one handle with a written file, and through two with an unchanged
  one, by a thread each or by two on the first handle and one on the second, which is released meanwhile. Through two with a written file is the subject of `stale_downloader`.
- `store`: one or two callers with one to three requests each, three or four names, two tokens.
  Each kind isolates one thing: two callers racing on one name (`Racing`); a listing by pages, whole, with
  trailing delimiters, below a mounted directory, while objects come and go (`Listed`,
  `ListedWhole`, `Trailing`, `OnlyDir`); folders of a hierarchical bucket, also below
  a mounted one (`Folders`, `OnlyFolder`); resumable uploads, appends to unfinalized objects, and an append
  whose writer is taken over (`Uploads`, `Appends`, `TakesOver`); attempts that are lost or
  late, once and twice (`Lossy`, `LossyAgain`); throttled readers and time (`Limited`), limits that are too low or too high (`TooSlow`, `TooFast`); dummy reads
  (`Dummy`); garbage collection, also over a lossy service and below a prefix (`Temps`, `LossyTemps`, `TempsInDir`).
- `mounted_server`: two threads, two metric workers, a latency channel of one record. `Background`
  starts a daemon with failures and signals, `Foreground` serves several operations, `Errors` returns every pair
  of errors `errno` tells apart with precondition errors off and metrics on, and the other way round, `Reporting` uses all counters, and
  `Configs` gives each pair of settings by flag and by file, with two profiles on two machines; negative values of deprecated and of
  unused settings, flags that repeat a default which a rule changes, and a capacity whose size wraps are among them.

## Fairness and deadlock

Fairness is weak, of goroutines that run, GCS answers and timers; never of new requests of the kernel, of
other clients, of other files or of faults.

- `BufferedWrites`: the handler's current call, and the uploader. Both are goroutines, which the
  Go scheduler does not starve.
- `InodeTable`: the steps of each request. Waiting for a lock is a disabled step; a contended
  lock is had only if weak fairness gives it.
- `FileCache`, `BufferedReads`, `RangeReads`, `FileHandle`, `BucketStack`: one formula over all steps that continue
  something begun: something moves as long as something can.
- `MountedServer`: the goroutine of Mount, and the signal handler with its kill timer.
- `FileInode`, `DirInode`: safety only.

`CHECK_DEADLOCK FALSE` is set in all configurations, because the systems
may stop: pools, files and processes stay closed, workloads are bounded, and in
`DirInode` and `InodeTable` the code itself leaves locks behind on error paths. That
requests return is stated as liveness instead, with those paths excluded by name.

## Proofs

The theorems hold for every value of the constants that the modules' named assumptions admit, so for any number
of threads, handles, inodes, generations, calls and faults. The runs check the same definitions on
small instances. Each proof has one lemma or step per action and combines
them into `Spec => []IInv`; the properties follow from `IInv`.

### BlockPoolProofs

For any set of pools, limits and reservation (`PoolAssumption`). `PermitAccounting` says
how many permits a pool holds from the number of its blocks, so it is inductive only together with
the block count: `IInv == TypeOK /\ BlocksAccounted /\ PermitAccounting`.

- `IInvHolds`: `Spec => []IInv`.
- `PermitsConserved`, `ReleaseSafe`, `ClosedPoolsHoldNothing`: `PermitAccounting`,
  `ReleaseNeverPanics`, `ClosedPoolHoldsNothing`.

### BufferedWritesLemmas and BufferedWritesProofs

For any sizes of blocks, chunks, pools and files, any number of other files on the semaphore, and any kinds of
file (`BufferedWritesAssumption`: an object can only be appended to, and its writer only fail to be created, in a
zonal bucket). That the pools stay in order is not proved again: `BlockPoolProofs` is instantiated with the reservation of
one block that the handler makes, and its `NextIInv` cited for each step that gets, releases or clears a block.

There are two inductive invariants, the second relative to the first. `PInv` is about control: which call is at which step,
with what left to append (`Places`); what kind of thing each block is, and that a Flush has the uploader to itself once it
has waited (`Blocks`); and who may have closed the channel (`Closed`), with `WaitGroupCountsBlocks` and
`LentBlocksAreHeld`. `Closed` is what keeps a send from a closed channel: after a close there is an error, or the call is
the last one, and no block is left to be sent.

`DInv` is about the data:

- `Tasks`: what a call has still to append starts where the file ends and, in a Flush, ends at the truncated size;
- `Chain`: stream, uploader's block, channel and current block hold the bytes of the file in order, each one
  starting where the one before ends, up to the last byte copied. `BytesLandAtTheirOffset` is only about the stream, and is not
  inductive without it: the next block could start anywhere;
- `Covered`: the weaker form of `Chain` that survives a disturbance: no byte that was copied is nowhere;
- `Published`: an object published without a disturbance is the acknowledged file.

- `PipelineInvariance`, `DataInvariance`: `Spec => []PInv`, `Spec => []DInv`.
- `PipelineStaysInOrder`: `PipelineInOrder`.
- `BytesAreInPlace`, `NothingAckedIsMissing`: `BytesLandAtTheirOffset` and `NoAckedByteMissing`, two of the three parts of
  `BytesInPlace`. The third, `TotalSizeIsBuffered`, flattens the channel and is only model checked.
- `ImplementsStreamedFile`: the refinement `PublishedWhole`. Initial states map to initial states; a step that
  acknowledges a size maps to `StreamedFile`'s, the one that publishes maps to its publication because of `Published`, and every other
  step stutters. Nothing disturbs or acknowledges after the publication (`Onward`), so the mapped object never changes again.

### InodeTableProofs

For any finite set of threads and any number of requests, generations and inodes, any mix of
requests, changes by other clients and faults (`KindsOK`). The invariant adds to `TableInOrder`:

- `InOrder`: which request can be where, and that what it refers to is an inode. Without
  it a request could, say, answer with no inode.
- `HeldKnown`: the kernel has a lookup of the inode that it refers to in a request, so a flush or a write
  works on an inode of the table.
- `LocksOwned`: a lock is held by a request at a place where it will release it. This is
  the inductive form of `NoLockAfterReturn`.
- `LookupsAsked`: the kernel holds no more lookups than it asked for, which bounds a forget.

`LookupCountsAgree` compares a count with cardinalities of sets of requests. The lemma `InFlightMoves` reduces a step
to its own request: what is in flight changes by that request's `Share` before and after.
`KernelInodesLive` then follows, because a forget destroys an inode only when its count is zero, and
then nobody holds or is about to give out a lookup, except the three requests that work on an inode without a lookup of their own.

- `Invariance`: `Spec => []IInv`.
- `TableStaysInOrder`: `TableInOrder`, whose parts name the failures they exclude.
- `IndexGoesForward`: the action property `IndexNeverRegresses`. Only `NewerObject` replaces
  an entry by another, and it compares the generations under `fs.mu`; a promotion fills an empty one.

### FileInodeProofs

For any handles, bytes, contents, sizes, thresholds and numbers of calls and remote steps
(the assumptions of `FileInode`: bytes and contents are of natural numbers, contents fit the
maximal size, `None` is no object, temp file or handler).

The invariant is `IInv == TypeOK /\ Control /\ Versions /\ Staged /\ CurrentIsView`:

- `Control`: which step of which call can be in progress in which state of handler and
  temp file;
- `Versions`: how the generations of the bucket, of the inode's source and of a request in
  progress relate, in particular that a generation equal to the source has the source's content;
- `Staged`: what a loaded temp file holds, and that below its dirty threshold it is the source;
- `CurrentIsView`: needed in the induction because each call computes the new content from
  the current one.

`CurrentIsView` alone is not inductive: a composed or uploaded object equals the view only if
the part not rewritten is still the source's (`Staged`) and the generation the request named
is the one the inode branched from (`Versions`).

- `Invariant`: `Spec => []IInv`.
- `TypeCorrect`, `ServesAcknowledged`, `DirtyPrefix`, together `KeepsContent`: `TypeOK`, `CurrentIsView`,
  `DirtyPrefixUnmodified`, together `ContentInOrder`.
- `LosesNoUpdate`: the action property `NoLostUpdate`.
- `PublishesView`, `NeverRepublished`, together `Publishes`: `PublishedIsView`, `UnlinkedNotPublished`,
  together `PublishesInOrder`.

The lemmas on `Pad`, `WriteByte`, `Resize` and the handler's writes say what these do to a
sequence; they are where the arithmetic is.

### FileHandleProofs

For any threads, any finite set of handles and any bounds (`HandleAssumption`: who reads through which handle; handles are finite
because the reference count is compared with a number of them). `IInv == TypeOK /\ \A t : Locked(t) /\ Fresh(t)`:

- `Locked`: a thread on its way reads through an open handle, holds `fh.mu` where the code does, and
  finds a manager once it has the lock;
- `Fresh`: the generation the inode had when the read began is never ahead of the inode, of the source
  the thread noted, of the manager it reads through (unless another read replaced that meanwhile), or of what it
  returned. `FreshReads` is the last of these; each step hands the bound on to the next.

`WInv` is about the shared downloader, given `IInv`. `User` says what a thread may rely on at each step of the wrapper: its
manager is in use, and counted unless the thread is the one that counts it or came before that (`early`).
`InUse` says that a manager in use is counted or about to be, and `Owned` that only the wrapper's downloader is live, and only while
a manager is counted or a thread is about to count one. `WrapperInOrder` alone is not inductive: a count of managers says nothing about the
thread between marking a manager used and counting it. `OInv` carries the generation at which a handle was opened to
the source a read notes and to what it returns.

- `Invariance`: `Spec => []IInv`.
- `ReadsAreFresh`: `FreshReads` wherever range requests are used. Through the shared downloader it is
  model checked, and false with two handles (`stale_downloader`).
- `ManagersAreKept`: `ReadersKeepManager`.
- `SourcesAreKept`: `ReadersKeepSources`, that is, `ReadersKeepManager` and `WrapperInOrder`.
- `ReadsFollowOpen`: `CloseToOpen` wherever range requests are used, so the downloader is all that `stale_downloader`
  needs.

### RangeReadsProofs

For any threads, objects, requests, windows and faults, and any thresholds (`RangeAssumption`: the minimal read size and
the number of seeks that make a pattern random are at least one, as the constants of `gcsx/random_reader.go` are, and
`None`, the value of a free mutex, is no thread). The invariant `IInv`:

- `Mutex`: a thread at a step the code takes under `mu` is the one that holds it;
- `Streamed`: what is true of the stream depends on who has it. At rest (`AtRest`) its start, what the timeout reader has
  passed and the connection's position agree; in a thread's hands (`Held`) they agree up to the bytes read into the
  thread's buffer and not yet added to `start`. `StreamInPlace` says something only while `mu` is free;
- `Local`: the buffer of a read holds the object's units from the offset asked for on, the next offset is where it ends, and
  the range decided on covers the request;
- `Complete`: without an early end, a read that succeeded is as long as it should be;
- the connections are counted, and a destroyed reader has no stream and no reads.

The lemma `ThreadStep` reduces a step of a thread to its own record and the stream; lemmas on `Upto` say what
appending to and cutting a run of consecutive units gives. They need no induction, because a run is given by its first unit and its
length.

- `Invariance`: `Spec => []IInv`.
- `ReadsAreRight`: `ReadsRight`.
- `StreamStaysInOrder`: `StreamInOrder`.

### MountedServerProofs

For any finite sets of threads and metric workers, any operations, errors, reports, settings and failures
(`KindsOK`). `IInv` consists of the types, `Sequence` (the order of Mount's steps: nothing is served
before the mount, success is reported after it, operations have ended before the shutdown), `Operation` (an
operation in progress has a name the metrics know), `RepliesFaithful`, `Counted`, `Exported`, and `Fresh` (until the metrics are set up
there is nothing to count, so that either handle is right from its start).
`Counted` relates counters to cardinalities of the threads and workers in each phase;
`Measured` needs `Sequence` for its last part: the final export comes when no operation is in progress.

- `Invariance`: `Spec => []IInv`.
- `RepliesAreFaithful`: `RepliesFaithful`, for every combination of errors, from the lemma `ErrnoFaithful` about
  the order of the tests in `errno`.
- `RepliesAreMeasured`: `Measured`.
- `OutcomeIsHonest`: `OutcomeHonest`, the part of `OutcomeTrue` about the daemon and its parent.
- `OutcomeIsTrue`: `OutcomeTrue`. The lemma `ConfiguredIsSettled` is about pure functions: for all flags and entries of the
  config file that parse (`Parsed`: a value has the type of its setting), all profiles and all machines, if `ValidateConfig` accepts what
  `Unmarshalled` yields, then `Rationalize` after `ApplyOptimizations` is `Settled`. It goes layer by layer: which settings each layer may
  change and which it reads. `Setup` carries the fact through Mount, and `DaemonFlags` through the `--foreground` put before
  the flags of the daemon.

## What is only model checked

- Liveness (`CallsReturn`, `RequestsReturn`, `ReadsEnd`, `CallsEnd`, `ReadsReturn`, `SignalEnds`): fairness and ENABLED are beyond
  the prover.
- Whatever sums or recurs over data: `SemWithinLimit` and `LiveBlocksWithinLimit` of the pool, the LRU
  cache's size against its entries, listings, the fake bucket's order, `TotalSizeIsBuffered` (flattened blocks). Induction over data is beyond the
  prover.
- `NoSilentLoss` of `FileInode`: `IInv` there relates contents, not which error was returned for a change that was dropped later;
  the strengthening it needs has not been worked out.
- `FreshReads` through the multi-range downloader: false with two handles on a written file, checked with one.
- `BufferedReads` beyond its pool: a block's references are counted over the
  concatenation of all responses, so `BlocksInOrder` needs induction over them, and `ReadsComplete` has not been attempted.
- `FastStatBucket`, `DirInode`, `FileCache` with `DownloadJob` and `LRUCache`, and `BucketStack` with the refinement
  `ImplementsStore`: their invariants relate a whole bucket, cache or disk to recursive definitions (names, listings, sums of
  sizes, merged ranges), or hold for the bounded scenarios they are stated for.

## What is not modelled

- In the directory code: renames between two directories, unsupported paths, the kernel's list cache, partially read listings, ReadDirPlus beyond its
  part in `InodeTable`, more than one descendant of a directory, the flush of a file whose earlier flush failed.
- In the file inode: unfinalized objects of zonal buckets (their handler is in `BufferedWrites`) and the content cache.
- In the stat cache: UpdateObject, ComposeObjects, FinalizeUpload and FlushPendingWrites,
  which treat the cache as CreateObject does.
- In the fake bucket: concurrent use of the requests that take no lock. The downloader it returns is external.
- The base directory of a dynamic mount, symlinks, the debug wrappers of locks, logging, profiling,
  authentication, generated tables of metrics and configuration.
- GCS, the kernel, the fuse and daemonize libraries are external: GCS by the answers the code relies on, the kernel by the requests it
  sends (it does not create what exists, and has one rename in a directory at a time).

## Observations

Behaviour met while modelling that no run is about. Where it disturbs a property, the property names it
as an exception. Those against a comment or document say which.

*Inodes and names.*

- `lookUpOrCreateInodeIfNotStale` (`fs/fs.go:991`): if the object changed again after an inode was minted for it, the
  inode of the earlier round is returned: unlocked, no longer in the index and perhaps destroyed. The comment at `fs/fs.go:910` says
  that the result is locked, or nil. `StaleRecordMinted` is this path.
- `Rename` gives back its lookup of the file and unlocks it (`fs/fs.go:2272`) before it flushes it. If lookup saw a newer inode than
  the kernel has, a forget may destroy it in between, and `promoteToGenerationBacked` (`fs/fs.go:1182`) puts the destroyed
  inode into the index. `createLocalFile` likewise leaves its new inode unlocked and uncounted before it counts it (`fs/fs.go:2003`). In these
  cases an inode outside the table is in an index and is given to the kernel: `revived`.
- Closing a file that was renamed away deletes the entry of the new file of its name from `localFileInodes` (`fs/fs.go:1181`), against the
  invariant at `fs/fs.go:574`.
- `Unlink` of a local file deletes no object, but a flush in progress creates one after that decision (`fs/fs.go:2642`).
- Unlink, create and close of one name can leave an inode that the next lookup does not find
  (`fs/fs.go:1194`); rename of a file that changed in GCS leaves an inode that nothing frees
  (`fs/fs.go:2272`); `lookUpLocalFileInode` reports a file as absent after three
  attempts (`fs/fs.go:1104`).
- A failed ReadDirPlus and a failed CreateFile leave lookup counts, and CreateFile in two cases locks,
  behind (`fs/fs.go:1494`, `:1968`).

*Directories.*

- `renameHierarchicalDir` (`fs/fs.go:2466`) returns with the destination locked when it is not empty;
  `nonAtomicRename` (`fs/fs.go:2384`) with the old parent locked when invalidating the cached file fails.
- A rename of a directory in a flat bucket stops at the first failure, with its objects under both names.
- `RmDir` (`fs/fs.go:2227`) answers success without deleting anything when an inode of an
  implicit directory of that name is left while the directory has an object by now. Emptiness is checked under the lock of the
  directory and the deletion made under that of its parent (`fs/fs.go:2225`), which the comment at `fs/fs.go:2166` accepts.
- `RenameFile` and `RenameFolder` (`fs/inode/dir.go:1201`, `:1214`) erase the full object name from
  a type cache keyed by base names. After a folder rename the destination keeps the type cached before, so that one found
  absent before the rename stays absent until the entry expires. `atomicRename` leaves the same behind for a file when
  the file cache fails to drop the old one (`fs/fs.go:2346`).
- A flush that fails drops a local file from `localFileInodes` (`fs/fs.go:1214`), also when a rename asked for it:
  the file is then under neither name.
- A listing may cache the file's type for a name that a directory has too, and lookups then find the
  file (`fs/inode/dir.go:709`), against `src/docs/semantics.md:520` and `fs/inode/dir.go:731`.
- Local files, an object and a directory of one name leave two entries of one name in a
  listing (`fs/handle/dir_handle.go:190`); `ListingComplete` leaves that triple out.
- A negative entry of the stat cache below the destination of a folder rename survives it
  (`storage/caching/fast_stat_bucket.go:511`), against `src/docs/semantics.md:216`.
- Concurrent stats and flushes of a file that is not yet in the bucket can leave a stale negative
  entry in the stat cache until it expires, since flushes take no directory lock.
- `atomicRename` locks the old parent and then the new one (`fs/fs.go:2335`). One directory is modelled, so the
  order between two is not.

*Writing.*

- A write at `truncatedSize` is accepted after the size has passed it, and appended
  (`bufferedwrites/buffered_write_handler.go:138`); `src/docs/troubleshooting.md:232` says that a write at
  an unexpected offset falls back to staged writes.
- A writer that cannot be created leaves the wait group one too high (`bufferedwrites/upload_handler.go:89`): a later
  wait for the upload does not return, or the channel is closed twice (`noWriter`, the exception in `PipelineInOrder` and `CallsReturn`).
- A block that cannot be mapped keeps its permit of the global semaphore (`block/block_pool.go:109`).
- An out-of-order write first finalizes the streamed object and then stages the write; if staging fails,
  the caller sees an error though the object was published (`fs/fs.go:2953`).
- `SetMtime` (`fs/inode/file.go:741`) dereferences nil after create, a failed upload and the last
  release; the model names these states and leaves the call out of them.
- A truncate without a handle is staged and no flush follows (`fs/fs.go:1787`); with the content
  cache on, the source generation is not updated by a flush (`fs/inode/file.go:906`).

*File cache.*

- An invalidation or eviction between a sparse download's AddRange and UpdateSize takes the
  cache's size below zero, which wraps; the next insertion then evicts every entry and goes on with the nil tail (`cache/lru/lru.go:129`).
- A checksum mismatch erases the entry outside `CacheHandler.mu`.
- Reading sequentially past the cached size of a grown zonal object makes `Download` fail, where the comment at
  `cache/file/cache_handle.go:172` says that it falls back.

*Buffered reads.*

- An interrupted read abandons its slices with their references, so the blocks stay lent (`bufferedread/buffered_reader.go:391`, `:327`);
  the comments at `bufferedread/buffered_reader.go:106` and `gcsx/reader.go:85` say that Destroy waits for the callbacks of all slices
  and that a failed read has size zero.
- `CheckInvariants` (`:613`) panics if `randomSeekCount` passes the threshold; a callback after Destroy's bounded wait dereferences
  the pool it no longer has (`:545`).
- The last, short block of an object that grew stays at the head of the queue and reads at its end
  fail again and again.

*Range reads and handles.*

- A manager may be replaced by one of an older generation, noted before a newer one was installed (`fs/handle/file.go:193`).
- A cancellation that arrives late ends the next stream (`gcsx/client_readers/range_reader.go:219`; only if interrupts are not
  ignored). A failed stream that returned nothing stays open.
- In the multi-range downloader wrapper: a nil dereference when two threads share a handle, one uses the downloader before the other has counted
  their manager, and another handle drops the last reference (`early`, the exception in `WrapperInOrder`); a forced
  recreation replaces a live downloader without closing it; a read abandoned on an interrupt may
  still write to its buffer; an error of creation loses its NotFound type.

*Buckets.*

- In the fake bucket: `IncludeTrailingDelimiter` repeats a collapsed run on the next page; an index is used after the lock
  was released in zonal appends; RenameFolder onto an existing folder duplicates names; MoveObject, RenameFolder and
  NewMultiRangeDownloader take no lock, nor does a writer's Write; `addFolderEntry` searches a slice that is not sorted; the fake downloader's "Don't clear pre-existing error" is inverted.
- The debug bucket logs the end of a failed NewMultiRangeDownloader twice.
- A lost answer and its retry turn a success into NotFound or a precondition error; a late attempt without a precondition can act
  again (`EffectsIntended` is about requests whose own effect makes their precondition false). A retried create that must not overwrite
  acts again when the object was deleted in between.
- The garbage collector stops at the first object that is already gone.

*Process.*

- `metricHandle.Close` is never called, so latencies in the channel are lost at the end.
- A failed synchronous prefetch, and a SIGTERM between the success report and the signal handler, end the process with the
  mount in place. The 30-second kill timer runs on after a successful unmount.
- `GcsDownloadBytesCount` does not declare the read type Unknown, which `GcsReadCount` does.
- `ValidateConfig` runs before `Rationalize` turns parallel downloads on, so a cache directory with zero parallel
  downloads passes (`src/cfg/validate.go:29`). Values set only in the config file are overridden by profile and
  machine. The deprecated TTLs are not checked: a negative one
  gives a negative TTL that is not turned into the maximum (`Settled` says when), and limits of features that are off are not checked either.
- The size of a deprecated stat cache capacity is a product in `uint64` (`src/cfg/rationalize.go:74`), which wraps for a capacity of the order of 2^53:
  the cache is then smaller than asked for.
- A user who unmounts before the daemon reports still gets a report of success.
- The daemon reads the config file again. A failure to open its log file is known to the parent only by its end. A user's `--foreground=false`
  comes after the `--foreground` given to the daemon.
