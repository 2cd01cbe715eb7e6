--------------------------- MODULE MountedServer ----------------------------
(***************************************************************************)
(* A gcsfuse process from its start to its end (cmd/root.go,               *)
(* cmd/legacy_main.go, cmd/mount.go), and the layers every operation of    *)
(* the kernel passes through (internal/fs/server.go): from the kernel down,*)
(*   fs/wrappers/monitoring.go     counts operations, errors and latencies;*)
(*   fs/wrappers/tracing.go        spans, if tracing is on;                *)
(*   fs/wrappers/error_mapping.go  errors to errno, panics to exit.        *)
(* The metrics (metrics/otel_metrics.go) are atomic counters read by an    *)
(* exporter, and a bounded channel of latency records emptied by workers.  *)
(*                                                                         *)
(* A process that is not to run in the foreground starts a daemon, which   *)
(* comes by its configuration anew, and waits for its outcome.  Signals,   *)
(* failing unmounts, the timer that ends the process after a signal,       *)
(* operations in progress and the exporter interleave.  The fuse library   *)
(* and the daemonize library are external.                                 *)
(***************************************************************************)
EXTENDS Configuration, Sequences, FiniteSetsExt

CONSTANTS
    Kinds,       \* configurations: see KindFields
    Threads,     \* operations the kernel may have in progress
    Workers      \* goroutines that record latencies

VARIABLES
    kind,        \* the configuration and the bounds of this behaviour
    config,      \* mountInfo.config of the process that mounts
    given,       \* auxiliary: what it was made from: the config file and the machine
    otel,        \* metricHandle is the one of NewOTelMetrics, not the one that does nothing
    pc,          \* the goroutine of Mount
    outcome,     \* what the daemon told its parent: "none", "ok", "failed"
    parent,      \* the process first started: "config", "waiting", "ok", "failed", or
                 \* "absent": it mounts itself
    exit,        \* how the process ended: "no", "clean", "error" (before it was mounted),
                 \* "joinError" (of mfs.Join), "panic", "forced", "killed"
    conn,        \* the mount point: "none", "mounted", "unmounted"
    handler,     \* the signal goroutine: "off", "wait", "unmount", "gone"
    pending,     \* a signal in signalChan
    killer,      \* a goroutine sleeps before it ends the process
    op,          \* per thread: the operation in progress
    counter,     \* the atomic counters: totals per metric
    unrecognized,\* unrecognizedAttr
    ch,          \* the channel of latency records
    held,        \* per worker: it has taken a record
    seen,        \* what the exporter has read of the two counters of operations
    lat,         \* auxiliary: latencies recorded, and dropped
    done,        \* auxiliary: replies to the kernel, and error replies
    left         \* bounds: operations, signals and failures still to come

setup == <<kind, config, given, otel>>
mountVars == <<pc, outcome, parent, exit, conn, handler, pending, killer>>
metricVars == <<counter, unrecognized, ch, held, seen, lat>>
vars == <<setup, mountVars, metricVars, op, done, left>>

\* cli: the flags; files: what the config file may hold whenever it is read; machines:
\* what the metadata server may answer; dynamic: all buckets; ops: names; errs: error
\* traits; reports: what operations report; the rest are bounds.
KindFields == {"cli", "files", "machines", "dynamic", "ops", "errs", "reports", "calls", "signals",
               "failures"}

--------------------------------------------------------------------------------
(* Error mapping.  An error is the set of what errors.As, errors.Is and the     *)
(* text of the error find in its chain; no error is the empty set.              *)

\* The tests of errno, in order, and the errno for each.
Tests == << <<"clobbered", "ESTALE">>, <<"ENOENT", "ENOENT">>, <<"EEXIST", "EEXIST">>,
            <<"canceled", "EINTR">>, <<"notexist", "ENOENT">>, <<"httpcanceled", "ECANCELED">>,
            <<"oauth", "EACCES">>, <<"grpc.canceled", "EINTR">>, <<"grpc.exists", "EEXIST">>,
            <<"grpc.denied", "EACCES">>, <<"grpc.notfound", "ENOENT">>,
            <<"http.forbidden", "EACCES">>, <<"http.notfound", "ENOENT">> >>
DefaultFSError == "EIO"

errnoCanceledFirst(e, stale) ==         \* mutant: an interrupt hides a clobbered file
    LET hits == {i \in DOMAIN Tests : Tests[i][1] \in e}
    IN  IF e = {} THEN "ok"
        ELSE IF "canceled" \in e THEN "EINTR"
        ELSE IF hits = {} THEN DefaultFSError
        ELSE IF "clobbered" \in e /\ ~stale THEN "ok"
        ELSE Tests[Min(hits)][2]

errno(e, stale) ==
    LET hits == {i \in DOMAIN Tests : Tests[i][1] \in e}
    IN  IF e = {} THEN "ok"
        ELSE IF hits = {} THEN DefaultFSError
        ELSE IF "clobbered" \in e /\ ~stale THEN "ok"
        ELSE Tests[Min(hits)][2]

\* categorize: of the errnos above.
categorize(f) ==
    CASE f = "EEXIST" -> "FILE_EXISTS"
      [] f = "EIO" -> "IO_ERROR"
      [] f \in {"ECANCELED", "EINTR"} -> "INTERRUPT_ERROR"
      [] f = "ENOENT" -> "NO_FILE_OR_DIR"
      [] f = "EACCES" -> "PERM_ERROR"
      [] OTHER -> "MISC_ERROR"

\* The attribute an operation is counted under (monitoring.go).
OtherOps == {"StatFS", "RemoveXattr", "GetXattr", "ListXattr", "SetXattr", "Fallocate", "SyncFS"}
FsOp(name) == IF name \in OtherOps THEN "Others" ELSE name

--------------------------------------------------------------------------------
(* Metrics.                                                                     *)

FsOps == {"BatchForget", "CreateFile", "CreateLink", "CreateSymlink", "FlushFile", "ForgetInode",
          "GetInodeAttributes", "LookUpInode", "MkDir", "MkNode", "OpenDir", "OpenFile", "Others",
          "ReadDir", "ReadDirPlus", "ReadFile", "ReadSymlink", "ReleaseDirHandle",
          "ReleaseFileHandle", "Rename", "RmDir", "SetInodeAttributes", "SyncFile", "Unlink",
          "WriteFile"}
Categories == {"DEVICE_ERROR", "DIR_NOT_EMPTY", "FILE_DIR_ERROR", "FILE_EXISTS", "INTERRUPT_ERROR",
               "INVALID_ARGUMENT", "INVALID_OPERATION", "IO_ERROR", "MISC_ERROR", "NETWORK_ERROR",
               "NOT_A_DIR", "NOT_IMPLEMENTED", "NO_FILE_OR_DIR", "PERM_ERROR",
               "PROCESS_RESOURCE_MGMT_ERROR", "TOO_MANY_OPEN_FILES"}
ReadTypes == {"Parallel", "Random", "Sequential"}
Metrics == {"ops", "errors", "reads", "bytes", "hits", "fallbacks", "readers", "retries"}

\* A counter ignores negative increments, and attributes it does not declare: the
\* first of those since the last log line is kept for the next one.
\* c: the counters and the attribute, as [n |-> counter, odd |-> unrecognized].
Add(c, metric, declared, attr, inc) ==
    IF inc < 0 THEN c
    ELSE IF declared THEN [c EXCEPT !.n[metric] = @ + inc]
    ELSE IF c.odd = "" THEN [c EXCEPT !.odd = attr] ELSE c

FsOpsCount(c, inc, o) == Add(c, "ops", o \in FsOps, o, inc)
FsOpsErrorCount(c, inc, cat, o) == Add(c, "errors", cat \in Categories /\ o \in FsOps, cat, inc)
GcsReadCount(c, inc, t) == Add(c, "reads", t \in ReadTypes \cup {"Unknown"}, t, inc)
GcsDownloadBytesCount(c, inc, t) == Add(c, "bytes", t \in ReadTypes \cup {"Buffered"}, t, inc)
FileCacheReadCount(c, inc, t) == Add(c, "hits", t \in ReadTypes \cup {"Unknown"}, t, inc)
FallbackTriggerCount(c, inc, why) ==
    Add(c, "fallbacks", why \in {"insufficient_memory", "random_read_detected"}, why, inc)
GcsReaderCount(c, inc, m) == Add(c, "readers", m \in {"ReadHandle", "opened", "closed"}, m, inc)
GcsRetryCount(c, inc, cat) ==
    Add(c, "retries", cat \in {"OTHER_ERRORS", "STALLED_READ_REQUEST"}, cat, inc)

CaptureGCSReadMetrics(c, t, n) == GcsDownloadBytesCount(GcsReadCount(c, 1, t), n, t)

NewOTelMetrics == [m \in Metrics |-> 0]
Counters == [n |-> counter, odd |-> unrecognized]

\* NewNoopMetrics: the other handle counts nothing.
Store(c) == IF otel THEN counter' = c.n /\ unrecognized' = c.odd ELSE UNCHANGED <<counter, unrecognized>>

\* What the file system reports while it works on an operation.
Reported(what) ==
    CASE what = "read" -> CaptureGCSReadMetrics(Counters, "Sequential", 2)
      [] what = "unknown" -> CaptureGCSReadMetrics(Counters, "Unknown", 2)
      [] what = "cached" -> FileCacheReadCount(Counters, 1, "Random")
      [] what = "fallback" -> FallbackTriggerCount(Counters, 1, "insufficient_memory")
      [] what = "reader" -> GcsReaderCount(Counters, 1, "opened")
      [] what = "retry" -> GcsRetryCount(Counters, 1, "OTHER_ERRORS")

--------------------------------------------------------------------------------
(* Operations.                                                                  *)

Reports == {"read", "unknown", "cached", "fallback", "reader", "retry"}

ASSUME KindsOK ==
    /\ IsFiniteSet(Threads) /\ IsFiniteSet(Workers)
    /\ \A k \in Kinds : /\ DOMAIN k = KindFields
                        /\ k.ops \subseteq FsOps \cup OtherOps /\ k.reports \subseteq Reports
                        /\ \A e \in k.errs : e \subseteq STRING
                        /\ Parsed(k.cli) /\ \A f \in k.files : Parsed(f)

NoOp == [phase |-> "idle", name |-> "", err |-> {}, fs |-> "ok", span |-> FALSE]
Running == exit = "no"
Unserved == conn = "mounted" /\ pc # "ended"

KernelSends(t) ==
    /\ Running /\ Unserved /\ op[t].phase = "idle" /\ left.calls > 0
    /\ \E o \in kind.ops :
          op' = [op EXCEPT ![t] = [phase |-> "work", name |-> o, err |-> {}, fs |-> "ok",
                                    span |-> config.tracingMode # ""]]
    /\ left' = [left EXCEPT !.calls = @ - 1]
    /\ UNCHANGED <<setup, mountVars, metricVars, done>>

ReportsWork(t) ==
    /\ Running /\ op[t].phase = "work"
    /\ \E w \in kind.reports : Store(Reported(w))
    /\ op' = [op EXCEPT ![t].phase = "worked"]
    /\ UNCHANGED <<setup, mountVars, ch, held, seen, lat, done, left>>

\* The file system returns: errorMapping maps the error, tracing ends the span.
Returns(t) ==
    /\ Running /\ op[t].phase \in {"work", "worked"}
    /\ \E e \in kind.errs :
          op' = [op EXCEPT ![t] = [phase |-> "count", name |-> @.name, err |-> e,
                                    fs |-> errno(e, config.preconditionErrors), span |-> FALSE]]
    /\ UNCHANGED <<setup, mountVars, metricVars, done, left>>

\* It panics: handlePanic recovers, and ends the process.
handlePanic(t) ==
    /\ Running /\ op[t].phase \in {"work", "worked"} /\ left.failures > 0
    /\ exit' = "panic" /\ pc' = "ended"
    /\ left' = [left EXCEPT !.failures = @ - 1]
    /\ UNCHANGED <<setup, outcome, parent, conn, handler, pending, killer, metricVars, op, done>>

\* recordOp, on the way up: the operation, then its error, then its latency.
CountsOp(t) ==
    /\ Running /\ op[t].phase = "count"
    /\ Store(FsOpsCount(Counters, 1, FsOp(op[t].name)))
    /\ op' = [op EXCEPT ![t].phase = IF op[t].fs = "ok" THEN "time" ELSE "error"]
    /\ UNCHANGED <<setup, mountVars, ch, held, seen, lat, done, left>>

CountsError(t) ==
    /\ Running /\ op[t].phase = "error"
    /\ Store(FsOpsErrorCount(Counters, 1, categorize(op[t].fs), FsOp(op[t].name)))
    /\ op' = [op EXCEPT ![t].phase = "time"]
    /\ UNCHANGED <<setup, mountVars, ch, held, seen, lat, done, left>>

\* FsOpsLatency never blocks: a record that finds the channel full is dropped.  Then
\* the kernel has its reply.
FsOpsLatency(t) ==
    /\ Running /\ op[t].phase = "time"
    /\ IF ~otel THEN UNCHANGED <<ch, lat>>
       ELSE IF ch < config.metricBuffer THEN ch' = ch + 1 /\ lat' = lat
       ELSE ch' = ch /\ lat' = [lat EXCEPT !.dropped = @ + 1]
    /\ op' = [op EXCEPT ![t] = NoOp]
    /\ done' = [replies |-> done.replies + 1,
                errors |-> IF op[t].fs = "ok" THEN done.errors ELSE done.errors + 1]
    /\ UNCHANGED <<setup, mountVars, counter, unrecognized, held, seen, left>>

\* A worker of NewOTelMetrics.
WorkerTakes(w) ==
    /\ Running /\ ~held[w] /\ ch > 0
    /\ held' = [held EXCEPT ![w] = TRUE] /\ ch' = ch - 1
    /\ UNCHANGED <<setup, mountVars, counter, unrecognized, seen, lat, op, done, left>>

WorkerRecords(w) ==
    /\ Running /\ held[w]
    /\ held' = [held EXCEPT ![w] = FALSE]
    /\ lat' = [lat EXCEPT !.recorded = @ + 1]
    /\ UNCHANGED <<setup, mountVars, counter, unrecognized, ch, seen, op, done, left>>

\* The exporter reads the counters one after the other.
ExporterReads ==
    /\ Running /\ otel
    /\ seen' = IF seen.next = "ops" THEN [seen EXCEPT !.next = "errors", !.ops = counter["ops"]]
               ELSE [seen EXCEPT !.next = "ops", !.errors = counter["errors"]]
    /\ UNCHANGED <<setup, mountVars, counter, unrecognized, ch, held, lat, op, done, left>>

\* The sampled log takes the attribute and leaves none.
logUnrecognizedAttribute ==
    /\ Running /\ unrecognized # ""
    /\ unrecognized' = ""
    /\ UNCHANGED <<setup, mountVars, counter, ch, held, seen, lat, op, done, left>>

--------------------------------------------------------------------------------
(* Mounting.                                                                    *)

\* The daemon writes its outcome to its parent, if there is one.
SignalOutcome(o) == outcome' = IF parent # "absent" THEN o ELSE outcome

\* PersistentPreRunE: the one configuration that the flags, the file and the machine make,
\* and whether it may be used.
Configured(cli, f, m) ==
    {[config |-> Rationalize(r[2], IsSet(cli, f), r[3]), ok |-> ValidateConfig(r[1], IsSet(cli, f))] :
        r \in {<<c, ApplyOptimizations(c, cli, m), DOMAIN optimizedFlags(c, cli, m)>> :
                  c \in {Unmarshalled(cli, f)}}}

Stops == exit' = "error" /\ pc' = "ended"

\* The process first started: without the foreground flag it runs a daemon with that
\* flag, and waits.  There may be no executable, or no file for its stderr.
FirstProcess(c, ok, from) ==
    \/ /\ ~ok /\ Stops /\ parent' = "failed" /\ UNCHANGED <<config, given, left>>
    \/ /\ ok /\ c.foreground /\ config' = c /\ given' = from
       /\ pc' = "log" /\ parent' = "absent" /\ UNCHANGED <<exit, left>>
    \/ /\ ok /\ ~c.foreground
       /\ parent' = "waiting" /\ UNCHANGED <<pc, exit, config, given, left>>
    \/ /\ ok /\ ~c.foreground
       /\ left.failures > 0 /\ left' = [left EXCEPT !.failures = @ - 1]
       /\ Stops /\ parent' = "failed" /\ UNCHANGED <<config, given>>

Daemon(c, ok, from) ==
    /\ IF ok THEN config' = c /\ given' = from /\ pc' = "log" /\ exit' = exit
       ELSE Stops /\ UNCHANGED <<config, given>>
    /\ UNCHANGED <<parent, left>>

PersistentPreRun ==
    /\ Running /\ parent = "config"
    /\ \E f \in kind.files, m \in kind.machines : \E r \in Configured(kind.cli, f, m) :
          FirstProcess(r.config, r.ok, [file |-> f, machine |-> m])
    /\ UNCHANGED <<kind, otel, outcome, conn, handler, pending, killer, metricVars, op, done>>

\* The daemon does it again, with --foreground before the arguments of its parent (which
\* has no --foreground=false): the config file may have changed in between.
DaemonPreRun ==
    /\ Running /\ parent = "waiting" /\ pc = "config"
    /\ \E f \in kind.files, m \in kind.machines :
          \E r \in Configured(Over(kind.cli, [foreground |-> TRUE]), f, m) :
             Daemon(r.config, r.ok, [file |-> f, machine |-> m])
    /\ UNCHANGED <<kind, otel, outcome, conn, handler, pending, killer, metricVars, op, done>>

\* A failure here is not told to the parent: it sees the daemon end.
InitLogFile ==
    /\ Running /\ pc = "log"
    /\ \/ pc' = "metrics" /\ UNCHANGED <<exit, left>>
       \/ /\ left.failures > 0 /\ left' = [left EXCEPT !.failures = @ - 1]
          /\ exit' = "error" /\ pc' = "ended"
    /\ UNCHANGED <<setup, outcome, parent, conn, handler, pending, killer, metricVars, op,
                   done>>

\* The metrics are those of NewOTelMetrics if they are wanted, and it does not fail.
SetupMetrics ==
    /\ Running /\ pc = "metrics"
    /\ \/ otel' = IsMetricsEnabled(config) /\ left' = left
       \/ /\ IsMetricsEnabled(config)
          /\ left.failures > 0 /\ left' = [left EXCEPT !.failures = @ - 1]
          /\ otel' = FALSE
    /\ pc' = "start"
    /\ UNCHANGED <<kind, config, given, outcome, parent, exit, conn, handler, pending, killer, metricVars,
                   op, done>>

\* mountWithArgs: a storage handle, then the temporary directory, the file system and
\* the mount of mountWithStorageHandle.  Each may fail.
Fails ==
    /\ left.failures > 0 /\ left' = [left EXCEPT !.failures = @ - 1]
    /\ SignalOutcome("failed") /\ exit' = "error" /\ pc' = "ended" /\ conn' = conn

createStorageHandle ==
    /\ Running /\ pc = "start"
    /\ \/ pc' = "handle" /\ UNCHANGED <<outcome, exit, conn, left>>
       \/ Fails
    /\ UNCHANGED <<setup, parent, handler, pending, killer, metricVars, op, done>>

mountWithStorageHandle ==
    /\ Running /\ pc = "handle"
    /\ \/ /\ conn' = "mounted"
          /\ pc' = IF ~kind.dynamic /\ config.prefetch = "sync" THEN "prefetch" ELSE "mark"
          /\ UNCHANGED <<outcome, exit, left>>
       \/ Fails
    /\ UNCHANGED <<setup, parent, handler, pending, killer, metricVars, op, done>>

\* callListRecursive before the mount is reported: an error is the mount's.
callListRecursive ==
    /\ Running /\ pc = "prefetch"
    /\ \/ pc' = "mark" /\ UNCHANGED <<outcome, exit, conn, left>>
       \/ Fails
    /\ UNCHANGED <<setup, parent, handler, pending, killer, metricVars, op, done>>

\* (The read-ahead that is set next may fail, which is only logged.)
markSuccessfulMount ==
    /\ Running /\ pc = "mark"
    /\ SignalOutcome("ok") /\ pc' = "register"
    /\ UNCHANGED <<setup, parent, exit, conn, handler, pending, killer, metricVars, op, done, left>>

registerTerminatingSignalHandler ==
    /\ Running /\ pc = "register"
    /\ handler' = "wait" /\ pc' = "join"
    /\ UNCHANGED <<setup, outcome, parent, exit, conn, pending, killer, metricVars, op, done, left>>

\* daemonize.Run returns the outcome, or an error when the daemon is gone without one.
ParentReturns ==
    /\ parent = "waiting" /\ (outcome # "none" \/ ~Running)
    /\ parent' = IF outcome = "ok" THEN "ok" ELSE "failed"
    /\ UNCHANGED <<setup, pc, outcome, exit, conn, handler, pending, killer, metricVars, op, done, left>>

--------------------------------------------------------------------------------
(* Ending.                                                                      *)

\* A signal ends a process that has not asked for it; signalChan holds one.
Signal ==
    /\ Running /\ left.signals > 0
    /\ left' = [left EXCEPT !.signals = @ - 1]
    /\ IF handler = "off" THEN exit' = "killed" /\ pc' = "ended" /\ pending' = pending
       ELSE exit' = exit /\ pc' = pc /\ pending' = TRUE
    /\ UNCHANGED <<setup, outcome, parent, conn, handler, killer, metricVars, op, done>>

HandlerTakesNoTimer ==                  \* mutant: nothing ends a process that stays busy
    /\ Running /\ handler = "wait" /\ pending
    /\ pending' = FALSE /\ handler' = "unmount" /\ killer' = killer
    /\ UNCHANGED <<setup, pc, outcome, parent, exit, conn, metricVars, op, done, left>>

HandlerTakes ==
    /\ Running /\ handler = "wait" /\ pending
    /\ pending' = FALSE /\ handler' = "unmount" /\ killer' = TRUE
    /\ UNCHANGED <<setup, pc, outcome, parent, exit, conn, metricVars, op, done, left>>

\* fuse.Unmount: done, or there is nothing mounted any more, or the mount point is busy,
\* or managed by someone else.
HandlerUnmounts ==
    /\ Running /\ handler = "unmount"
    /\ \/ conn = "mounted" /\ conn' = "unmounted" /\ handler' = "gone" /\ left' = left
       \/ conn = "unmounted" /\ handler' = "wait" /\ UNCHANGED <<conn, left>>
       \/ /\ left.failures > 0 /\ left' = [left EXCEPT !.failures = @ - 1]
          /\ handler' \in {"wait", "gone"} /\ conn' = conn
    /\ UNCHANGED <<setup, pc, outcome, parent, exit, pending, killer, metricVars, op, done>>

\* Also while the mount is listed, and before success is reported.
UserUnmounts ==
    /\ Running /\ conn = "mounted"
    /\ conn' = "unmounted"
    /\ UNCHANGED <<setup, pc, outcome, parent, exit, handler, pending, killer, metricVars, op, done, left>>

\* WaitTimeOnSignalReceive has passed.
KillerEnds ==
    /\ Running /\ killer
    /\ exit' = "forced" /\ pc' = "ended"
    /\ UNCHANGED <<setup, outcome, parent, conn, handler, pending, killer, metricVars, op, done, left>>

\* The connection is closed and the last operation has its reply: the library calls
\* Destroy, which stops the garbage collectors, the file cache and the worker pool,
\* and Join returns, perhaps with an error of the connection.
JoinAtUnmount ==                        \* mutant: operations in progress are not awaited
    /\ Running /\ pc = "join" /\ conn = "unmounted"
    /\ pc' = "shutdown"
    /\ UNCHANGED <<setup, outcome, parent, exit, conn, handler, pending, killer, metricVars, op, done, left>>

Join ==
    /\ Running /\ pc = "join" /\ conn = "unmounted" /\ \A t \in Threads : op[t].phase = "idle"
    /\ \/ pc' = "shutdown" /\ left' = left
       \/ /\ left.failures > 0 /\ left' = [left EXCEPT !.failures = @ - 1]
          /\ pc' = "unjoined"
    /\ UNCHANGED <<setup, outcome, parent, exit, conn, handler, pending, killer, metricVars, op, done>>

\* The exporters are shut down: the meter provider reads the counters a last time,
\* the channel of latencies is left as it is.  Their errors are only logged, Join's is
\* returned.
Shutdown ==
    /\ Running /\ pc \in {"shutdown", "unjoined"}
    /\ seen' = IF otel THEN [next |-> "ops", ops |-> counter["ops"], errors |-> counter["errors"]] ELSE seen
    /\ exit' = (IF pc = "shutdown" THEN "clean" ELSE "joinError") /\ pc' = "ended"
    /\ UNCHANGED <<setup, outcome, parent, conn, handler, pending, killer, counter, unrecognized, ch,
                   held, lat, op, done, left>>

--------------------------------------------------------------------------------

Init ==
    /\ kind \in Kinds
    /\ pc = "config" /\ outcome = "none" /\ exit = "no" /\ conn = "none"
    /\ parent = "config" /\ config = Defaults /\ given = [file |-> <<>>, machine |-> ""]
    /\ otel = FALSE
    /\ handler = "off" /\ pending = FALSE /\ killer = FALSE
    /\ op = [t \in Threads |-> NoOp]
    /\ counter = NewOTelMetrics /\ unrecognized = ""
    /\ ch = 0 /\ held = [w \in Workers |-> FALSE]
    /\ seen = [next |-> "ops", ops |-> 0, errors |-> 0]
    /\ lat = [recorded |-> 0, dropped |-> 0]
    /\ done = [replies |-> 0, errors |-> 0]
    /\ left = [calls |-> kind.calls, signals |-> kind.signals, failures |-> kind.failures]

Serving(t) == Returns(t) \/ CountsOp(t) \/ CountsError(t) \/ FsOpsLatency(t)
Working(w) == WorkerTakes(w) \/ WorkerRecords(w)
Mounting == PersistentPreRun \/ DaemonPreRun \/ InitLogFile \/ SetupMetrics \/ createStorageHandle
            \/ mountWithStorageHandle \/ callListRecursive \/ markSuccessfulMount
            \/ registerTerminatingSignalHandler \/ ParentReturns
Ending == HandlerTakes \/ HandlerUnmounts \/ KillerEnds \/ Join \/ Shutdown

Next ==
    \/ Mounting \/ Ending \/ Signal \/ UserUnmounts \/ ExporterReads \/ logUnrecognizedAttribute
    \/ \E t \in Threads : Serving(t) \/ KernelSends(t) \/ ReportsWork(t) \/ handlePanic(t)
    \/ \E w \in Workers : Working(w)

\* The goroutines of Mount and of the signal handler do run, and timers fire.
Spec ==
    Init /\ [][Next]_vars /\ WF_vars(Mounting) /\ WF_vars(Ending)

--------------------------------------------------------------------------------
(* Properties.                                                                  *)

\* error_mapping.go: the kernel is told of success only when the operation succeeded,
\* or when the file was changed by someone else and precondition errors are off;
\* and a file changed by someone else is never hidden behind another error.
RepliesFaithful ==
    \A t \in Threads :
        op[t].phase \in {"count", "error", "time"} =>
            LET clobbered == "clobbered" \in op[t].err
            IN  /\ op[t].fs = "ok" <=> op[t].err = {} \/ (clobbered /\ ~config.preconditionErrors)
                /\ clobbered => op[t].fs \in {"ok", "ESTALE"}

\* otel_metrics.go, monitoring.go: with metrics on, every reply has been counted once, as
\* an error if it was one, and its latency is recorded, dropped or on its way, once; with
\* metrics off nothing is counted or queued; and a process that is unmounted in order has
\* no operation left, and has exported the counts of every reply it has given, also when
\* Join fails.
Measured ==
    LET past(phases) == Cardinality({t \in Threads : op[t].phase \in phases})
        failing == {t \in Threads : op[t].phase = "time" /\ op[t].fs # "ok"}
    IN  /\ otel => /\ counter["ops"] = done.replies + past({"error", "time"})
                   /\ counter["errors"] = done.errors + Cardinality(failing)
                   /\ done.replies = lat.recorded + lat.dropped + ch + Cardinality({w \in Workers : held[w]})
        /\ ~otel => counter = NewOTelMetrics /\ ch = 0
        /\ exit \in {"clean", "joinError"} =>
              /\ \A t \in Threads : op[t].phase = "idle" /\ ~op[t].span
              /\ otel => seen.ops = done.replies /\ seen.errors = done.errors

\* Settings that Rationalize or the machine may replace even if the user gave them, and
\* the flag of the daemon.
Derived == {"foreground", "machineType", "severity", "logFormat", "createEmptyFile", "metricsInterval",
            "bufferedRead"}

\* root.go, rationalize.go: the configuration mounted with keeps every flag, and every
\* entry of the config file that no rule of the profile or the machine is about (a marker
\* for "unlimited" turned into the limit it stands for); the size made of a deprecated
\* capacity is enough for it, unless the product wraps; no marker is left where the code
\* does not expect one (but for a deprecated TTL, which nothing checks); and two features
\* that exclude each other are never both on, whatever file, profile and machine add.
Settled(c, cli, file) ==
    LET isSet == IsSet(cli, file)
        user == Over(cli, file)
        kept == DOMAIN cli \cup (DOMAIN file \ DOMAIN getOptimizedValue(c.profile, c.machineType))
        limited == [ttl |-> maxSupportedTTLInSeconds, negativeTtl |-> maxSupportedTTLInSeconds,
                    statCacheMb |-> maxSupportedStatCacheMaxSizeMB, readGlobalBlocks |-> MaxBlocks,
                    writeGlobalBlocks |-> MaxBlocks, writeBlocksPerFile |-> MaxBlocksPerFile]
        bytes == c.statCacheCapacity * EntrySize
    IN  /\ \A s \in kept \cap DOMAIN limited : c[s] = Limit(user[s], limited[s])
        /\ \A s \in kept \ (DOMAIN limited \cup Derived) : c[s] = user[s]
        /\ c.negativeTtl >= 0 /\ c.statCacheMb >= 0
        /\ c.ttl >= 0 \/ c.ttl \in {c.statCacheTtl, c.typeCacheTtl}
        /\ c.bufferedRead => c.readGlobalBlocks >= 0
        /\ c.streamingWrites => c.writeGlobalBlocks >= 0 /\ c.writeBlocksPerFile >= 1
        /\ isSet \cap {"ttl", "statCacheTtl"} = {"statCacheTtl"} => c.ttl <= c.statCacheTtl
        /\ isSet \cap {"statCacheMb", "statCacheCapacity"} = {"statCacheCapacity"} /\ bytes < Uint64Range =>
               bytes \in ((c.statCacheMb - 1) * MiB + 1)..(c.statCacheMb * MiB)
        /\ ~(IsFileCacheEnabled(c) /\ c.bufferedRead) /\ ~(c.streamingWrites /\ c.createEmptyFile)
        /\ c.parallelDownloads => IsFileCacheEnabled(c)
        /\ "parallelDownloads" \in isSet => isValidParallelDownloadConfig(c)

\* Mount: success is reported only for a file system that has been mounted and, if so
\* asked, listed; and once it is reported, mounting does not fail (serving may).
OutcomeHonest ==
    /\ outcome = "ok" => pc \notin {"start", "handle", "prefetch"} /\ exit # "error"
    /\ parent = "ok" => conn # "none"

\* Mount, root.go: that, and the file system is mounted with a settled configuration.
OutcomeTrue ==
    /\ OutcomeHonest
    /\ pc \notin {"config", "ended"} => Settled(config, kind.cli, given.file)

\* registerTerminatingSignalHandler: "give 30 second for unmount to finish and then
\* exit, so application is closed": a signal that is handled ends the process, however
\* often the unmount fails; and the parent of a daemon always gets an answer.
SignalEnds ==
    /\ (handler = "unmount") ~> ~Running
    /\ (parent = "waiting") ~> (parent # "waiting")
=============================================================================
