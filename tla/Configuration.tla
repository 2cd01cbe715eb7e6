--------------------------- MODULE Configuration ----------------------------
(***************************************************************************)
(* How a process comes by its configuration (cmd/root.go, cfg/): flags over *)
(* the config file over the defaults, then ValidateConfig, then             *)
(* ApplyOptimizations for the profile and the machine, then Rationalize.    *)
(*                                                                          *)
(* A configuration is a function from settings to values.  What the user    *)
(* gave is a pair of such functions, cli and file, defined on the settings  *)
(* that were given.  Settings nothing checks, derives or optimizes are left *)
(* out.  A URL or a regular expression is "", "good" or "bad", a rate is in *)
(* hundredths, a duration in seconds.                                       *)
(***************************************************************************)
EXTENDS Integers, FiniteSets

\* Stand-ins, in the order of the code's limits, for values beyond TLC's integers.
maxSupportedTTLInSeconds == 2000000000
maxSupportedStatCacheMaxSizeMB == 2000000001
MaxMiBsInInt64 == 2000000002
MaxBlocks == 2000000003         \* math.MaxInt64, and math.MaxInt32
Uint64Range == 2000000004       \* where a uint64 wraps
MaxBlocksPerFile == 32767       \* math.MaxInt16
Unlimited == -1

Profiles == {"aiml-training", "aiml-serving", "aiml-checkpointing"}

\* BuildFlagSet.
Defaults ==
    [foreground |-> FALSE, disableAutoconfig |-> FALSE, profile |-> "", machineType |-> "",
     preconditionErrors |-> TRUE, tracingMode |-> "",
     implicitDirs |-> FALSE, renameDirLimit |-> 0, kernelListCacheTtl |-> 0,
     ttl |-> 60, negativeTtl |-> 5, statCacheTtl |-> 60, typeCacheTtl |-> 60,
     statCacheMb |-> 33, statCacheCapacity |-> 20460, typeCacheMb |-> 4, prefetch |-> "disabled",
     streamingWrites |-> TRUE, createEmptyFile |-> FALSE,
     writeBlockMb |-> 32, writeGlobalBlocks |-> 4, writeBlocksPerFile |-> 1,
     bufferedRead |-> FALSE, readBlockMb |-> 16, readGlobalBlocks |-> 40,
     readStartBlocks |-> 1, readMaxBlocks |-> 20, readMinBlocks |-> 4, sequentialReadMb |-> 200,
     cacheDir |-> "", fileCacheMb |-> Unlimited, cacheForRangeRead |-> FALSE,
     parallelDownloads |-> FALSE, maxParallelDownloads |-> 16, downloadsPerFile |-> 16,
     downloadChunkMb |-> 200, writeBufferSize |-> 4194304, excludeRegex |-> "", includeRegex |-> "",
     logMaxMb |-> 512, logBackups |-> 10, debugFuse |-> FALSE, debugGcs |-> FALSE,
     debugMutex |-> FALSE, severity |-> "INFO", logFormat |-> "json",
     endpoint |-> "", tokenUrl |-> "", chunkTransferTimeout |-> 10,
     readStall |-> TRUE, increaseRate |-> 1500, targetPercentile |-> 99,
     stackdriverInterval |-> 0, metricsInterval |-> 0, prometheusPort |-> 0,
     metricWorkers |-> 3, metricBuffer |-> 256]

Settings == DOMAIN Defaults

\* A flag, or an entry of the config file, has the type of its default.
Switches == {"foreground", "disableAutoconfig", "preconditionErrors", "implicitDirs",
             "streamingWrites", "createEmptyFile", "bufferedRead", "cacheForRangeRead",
             "parallelDownloads", "debugFuse", "debugGcs", "debugMutex", "readStall"}
Texts == {"profile", "machineType", "tracingMode", "prefetch", "cacheDir", "excludeRegex",
          "includeRegex", "severity", "logFormat", "endpoint", "tokenUrl"}
Parsed(g) ==
    /\ DOMAIN g \subseteq Settings
    /\ \A s \in DOMAIN g : g[s] \in IF s \in Switches THEN BOOLEAN
                                   ELSE IF s \in Texts THEN STRING ELSE Int

\* The settings of f, and those of g that f does not have.
Over(f, g) == [s \in DOMAIN f \cup DOMAIN g |-> IF s \in DOMAIN f THEN f[s] ELSE g[s]]

\* BindFlags, Unmarshal: a flag hides the config file, which hides the default.
Unmarshalled(cli, file) == Over(cli, Over(file, Defaults))

IsFileCacheEnabled(c) == c.fileCacheMb # 0 /\ c.cacheDir # ""
IsMetricsEnabled(c) == c.metricsInterval > 0 \/ c.prometheusPort > 0

--------------------------------------------------------------------------------
(* ValidateConfig: each test is what makes it fail.  isSet: settings given.      *)

isTTLInSecsValid(secs) == secs >= Unlimited /\ secs <= maxSupportedTTLInSeconds
AtLeastOneOrUnlimited(n) == n >= 1 \/ n = Unlimited

isValidLogRotateConfig(c) == c.logMaxMb > 0 /\ c.logBackups >= 0

isValidURL(u) == u # "bad"

isValidFileCacheConfig(c) ==
    /\ c.fileCacheMb >= Unlimited /\ c.maxParallelDownloads >= Unlimited
    /\ c.downloadsPerFile >= 1 /\ c.downloadChunkMb >= 1
    /\ c.excludeRegex # "bad" /\ c.includeRegex # "bad"

isValidSequentialReadSizeMB(n) == n \in 1..1024

isValidMetadataCache(c, isSet) ==
    /\ "ttl" \in isSet => isTTLInSecsValid(c.ttl)
    /\ "negativeTtl" \in isSet => isTTLInSecsValid(c.negativeTtl)
    /\ c.typeCacheMb >= Unlimited
    /\ "statCacheMb" \in isSet =>
          c.statCacheMb >= Unlimited /\ c.statCacheMb <= maxSupportedStatCacheMaxSizeMB
    /\ c.statCacheCapacity >= 0

isValidWriteStreamingConfig(c) ==
    c.streamingWrites =>
        /\ c.writeBlockMb > 0 /\ c.writeBlockMb <= MaxMiBsInInt64
        /\ AtLeastOneOrUnlimited(c.writeBlocksPerFile)
        /\ c.writeGlobalBlocks >= Unlimited

isValidReadStallGcsRetriesConfig(c) ==
    c.readStall => c.increaseRate > 0 /\ c.targetPercentile > 0 /\ c.targetPercentile < 100

isValidMetricsConfig(c) ==
    /\ c.stackdriverInterval = 0 \/ c.metricsInterval = 0
    /\ c.prometheusPort <= 65535 /\ c.metricWorkers >= 1 /\ c.metricBuffer >= 1

isValidParallelDownloadConfig(c) ==
    c.parallelDownloads =>
        /\ IsFileCacheEnabled(c) /\ c.maxParallelDownloads # 0
        /\ c.writeBufferSize >= 4096 /\ c.writeBufferSize % 4096 = 0

isValidBufferedReadConfig(c) ==
    c.bufferedRead =>
        /\ c.readBlockMb > 0 /\ c.readBlockMb <= MaxMiBsInInt64 /\ c.readGlobalBlocks >= Unlimited
        /\ AtLeastOneOrUnlimited(c.readStartBlocks) /\ AtLeastOneOrUnlimited(c.readMaxBlocks)
        /\ c.readMinBlocks >= 1
        /\ c.readMaxBlocks = Unlimited \/ c.readMinBlocks <= c.readMaxBlocks

ValidateConfig(c, isSet) ==
    /\ isValidLogRotateConfig(c)
    /\ isValidURL(c.endpoint) /\ isValidURL(c.tokenUrl)
    /\ isValidFileCacheConfig(c)
    /\ c.prefetch \in {"disabled", "sync", "async"}
    /\ isValidSequentialReadSizeMB(c.sequentialReadMb)
    /\ isTTLInSecsValid(c.kernelListCacheTtl)
    /\ isValidMetadataCache(c, isSet)
    /\ isValidWriteStreamingConfig(c)
    /\ isValidReadStallGcsRetriesConfig(c)
    /\ c.chunkTransferTimeout \in 0..maxSupportedTTLInSeconds
    /\ isValidMetricsConfig(c)
    /\ isValidParallelDownloadConfig(c)
    /\ isValidBufferedReadConfig(c)
    /\ c.profile \in Profiles \cup {""}

--------------------------------------------------------------------------------
(* ApplyOptimizations.                                                           *)

\* AllFlagOptimizationRules: what a profile, and the high-performance group, set.
ProfileRule(p) ==
    CASE p = "aiml-training" ->
            [implicitDirs |-> TRUE, negativeTtl |-> 0, ttl |-> Unlimited,
             statCacheMb |-> Unlimited, typeCacheMb |-> Unlimited]
      [] p = "aiml-serving" ->
            [cacheForRangeRead |-> TRUE, implicitDirs |-> TRUE, kernelListCacheTtl |-> Unlimited,
             negativeTtl |-> 0, ttl |-> Unlimited, statCacheMb |-> Unlimited, typeCacheMb |-> Unlimited]
      [] p = "aiml-checkpointing" ->
            [cacheForRangeRead |-> TRUE, implicitDirs |-> TRUE, negativeTtl |-> 0, ttl |-> Unlimited,
             renameDirLimit |-> 200000, statCacheMb |-> Unlimited, typeCacheMb |-> Unlimited]
      [] OTHER -> <<>>

MachineRule ==
    [implicitDirs |-> TRUE, negativeTtl |-> 0, ttl |-> Unlimited, renameDirLimit |-> 200000,
     statCacheMb |-> 1024, typeCacheMb |-> 128, writeGlobalBlocks |-> 1600]

\* machineTypeToGroupMap: one of its types, and the only group.
HighPerformance == {"a3-highgpu-8g"}

\* The flag, then the config file, then the metadata server, which may not answer.
getMachineType(c, server) == IF c.machineType # "" THEN c.machineType ELSE server

\* getOptimizedValue: the profile's rule for a setting before the machine's.
getOptimizedValue(profile, machine) ==
    Over(ProfileRule(profile), IF machine \in HighPerformance THEN MachineRule ELSE <<>>)

optimizedFlagsOverCli(c, cli, server) ==    \* mutant: a rule overrides a flag
    LET rules == getOptimizedValue(c.profile, getMachineType(c, server))
    IN  IF c.disableAutoconfig THEN <<>>
        ELSE [s \in {s \in DOMAIN rules : c[s] # rules[s]} |-> rules[s]]

\* Only flags count as given here.  The settings whose value this changes are "optimized".
optimizedFlags(c, cli, server) ==
    LET rules == getOptimizedValue(c.profile, getMachineType(c, server))
    IN  IF c.disableAutoconfig THEN <<>>
        ELSE [s \in {s \in DOMAIN rules \ DOMAIN cli : c[s] # rules[s]} |-> rules[s]]

ApplyOptimizations(c, cli, server) ==
    IF c.disableAutoconfig THEN c
    ELSE Over(optimizedFlags(c, cli, server), [c EXCEPT !.machineType = getMachineType(c, server)])

--------------------------------------------------------------------------------
(* Rationalize.                                                                  *)

Limit(n, max) == IF n = Unlimited THEN max ELSE n
Lower(a, b) == IF a < b THEN a ELSE b

resolveSeverity(c) == IF c.debugFuse \/ c.debugGcs \/ c.debugMutex THEN "TRACE" ELSE c.severity
resolveLogFormat(c) == IF c.logFormat \in {"text", "json"} THEN c.logFormat ELSE "json"

resolveNegativeTTL(c, isSet, optimized) ==
    IF "negativeTtl" \in isSet \cup optimized THEN Limit(c.negativeTtl, maxSupportedTTLInSeconds)
    ELSE c.negativeTtl

\* The newer setting, then the deprecated ones (also by default), then an optimization.
resolveMetadataCacheTTL(c, isSet, optimized) ==
    IF /\ "ttl" \notin isSet
       /\ "ttl" \notin optimized \/ isSet \cap {"statCacheTtl", "typeCacheTtl"} # {}
    THEN Lower(c.statCacheTtl, c.typeCacheTtl)
    ELSE Limit(c.ttl, maxSupportedTTLInSeconds)

\* An entry is taken for 1448 + 240 bytes, a product that may wrap; BytesToHigherMiBs rounds up.
EntrySize == 1688
MiB == 1048576
calculateSizeFromCapacity(n) == (((n * EntrySize) % Uint64Range) + MiB - 1) \div MiB

resolveStatCacheMaxSizeMB(c, isSet, optimized) ==
    IF /\ "statCacheMb" \notin isSet
       /\ "statCacheMb" \notin optimized \/ "statCacheCapacity" \in isSet
    THEN calculateSizeFromCapacity(c.statCacheCapacity)
    ELSE Limit(c.statCacheMb, maxSupportedStatCacheMaxSizeMB)

resolveParallelDownloadsValue(c, isSet) ==
    c.parallelDownloads \/ (IsFileCacheEnabled(c) /\ "parallelDownloads" \notin isSet)

\* The steps of the code read only settings that earlier steps leave alone.
Rationalize(c, isSet, optimized) ==
    Over([severity |-> resolveSeverity(c), logFormat |-> resolveLogFormat(c),
          readGlobalBlocks |-> Limit(c.readGlobalBlocks, MaxBlocks),
          createEmptyFile |-> c.createEmptyFile /\ ~c.streamingWrites,
          writeGlobalBlocks |-> Limit(c.writeGlobalBlocks, MaxBlocks),
          writeBlocksPerFile |-> Limit(c.writeBlocksPerFile, MaxBlocksPerFile),
          negativeTtl |-> resolveNegativeTTL(c, isSet, optimized),
          ttl |-> resolveMetadataCacheTTL(c, isSet, optimized),
          statCacheMb |-> resolveStatCacheMaxSizeMB(c, isSet, optimized),
          metricsInterval |-> IF c.metricsInterval = 0 THEN c.stackdriverInterval ELSE c.metricsInterval,
          parallelDownloads |-> resolveParallelDownloadsValue(c, isSet),
          bufferedRead |-> c.bufferedRead /\ ~IsFileCacheEnabled(c)],
         c)

IsSet(cli, file) == DOMAIN cli \cup DOMAIN file
=============================================================================
