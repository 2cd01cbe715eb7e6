-------------------------- MODULE MCMountedServer ---------------------------
(* Small processes: see README.md for what each one is for.                  *)
EXTENDS MountedServer, TLC

Traits == {Tests[i][1] : i \in DOMAIN Tests}

\* What the user may have given, one thing at a time.
Given == {[ttl |-> 0], [ttl |-> -1], [ttl |-> -2], [ttl |-> 2000000001], [negativeTtl |-> -1],
          [statCacheTtl |-> 5], [typeCacheTtl |-> -5], [statCacheMb |-> -1], [statCacheMb |-> 7], [statCacheCapacity |-> 0],
          [statCacheCapacity |-> 1000], [statCacheCapacity |-> 1200000], [writeGlobalBlocks |-> -1], [writeBlocksPerFile |-> -1],
          [writeBlocksPerFile |-> 0], [createEmptyFile |-> TRUE], [streamingWrites |-> FALSE],
          [readGlobalBlocks |-> -1], [readGlobalBlocks |-> -2], [cacheDir |-> "d"], [bufferedRead |-> TRUE],
          [parallelDownloads |-> TRUE], [maxParallelDownloads |-> 0], [implicitDirs |-> FALSE],
          [renameDirLimit |-> 7], [typeCacheMb |-> 4], [kernelListCacheTtl |-> 0], [cacheForRangeRead |-> FALSE],
          [profile |-> "aiml-training"], [profile |-> "other"], [profile |-> "aiml-serving"],
          [profile |-> "aiml-checkpointing"], [disableAutoconfig |-> TRUE],
          [machineType |-> "a3-highgpu-8g"], [endpoint |-> "bad"], [metricBuffer |-> 0],
          [readMinBlocks |-> 21, bufferedRead |-> TRUE], [stackdriverInterval |-> 5],
          [metricsInterval |-> 5], [logFormat |-> "other"], [debugGcs |-> TRUE]}

Background == [cli |-> [prefetch |-> "sync", tracingMode |-> "gcptrace", metricBuffer |-> 1, prometheusPort |-> 8080],
           files |-> {<<>>}, machines |-> {""}, dynamic |-> FALSE,
           ops |-> {"ReadFile"}, errs |-> {{}, {"clobbered", "canceled"}}, reports |-> {"read", "unknown"},
           calls |-> 1, signals |-> 2, failures |-> 2]
Foreground == [Background EXCEPT !.cli = [foreground |-> TRUE, prefetch |-> "async", metricBuffer |-> 1, metricsInterval |-> 5],
                  !.reports = {}, !.errs = {{}, {"http.forbidden"}}, !.calls = 3, !.signals = 0, !.failures = 0]
Errors == [Foreground EXCEPT !.cli = @ @@ [preconditionErrors |-> FALSE], !.ops = {"StatFS", "MkDir"}, !.calls = 1,
              !.errs = {{}, {"other"}} \cup {{a, b} : a, b \in Traits}]
Reporting == [Foreground EXCEPT !.cli = @ @@ [prefetch |-> "sync"], !.dynamic = TRUE, !.calls = 2, !.errs = {{}},
                 !.reports = {"read", "unknown", "cached", "fallback", "reader", "retry"}]
\* No operations: what a flag, the file, a profile and the machine make together.
Configs == {[Background EXCEPT !.cli = c, !.files = {<<>>, f, f @@ [profile |-> "aiml-training"]},
                !.machines = {"", "a3-highgpu-8g"}, !.calls = 0, !.signals = 0, !.failures = 0]
            : c \in Given \cup {[foreground |-> TRUE]}, f \in Given}

MCKinds == {Background, Foreground, Errors, Reporting, [Errors EXCEPT !.cli = [foreground |-> TRUE, metricBuffer |-> 1]]}
           \cup Configs
=============================================================================
