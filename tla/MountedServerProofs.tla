------------------------ MODULE MountedServerProofs -------------------------
(***************************************************************************)
(* Proofs about MountedServer, for any number of operations in progress,   *)
(* of latency workers, of errors, signals and failures, and for whatever   *)
(* configuration the flags, the file and the machine make.                 *)
(***************************************************************************)
EXTENDS MountedServer, FiniteSetTheorems, TLAPS

-----------------------------------------------------------------------------
(* The configuration.                                                      *)

\* What a profile and the machine may set.
Optimizable == {"implicitDirs", "negativeTtl", "ttl", "statCacheMb", "typeCacheMb",
                "cacheForRangeRead", "kernelListCacheTtl", "renameDirLimit", "writeGlobalBlocks"}

\* Settings that Settled is about, and those that are only read.
Settles == {"readGlobalBlocks", "createEmptyFile", "writeGlobalBlocks", "writeBlocksPerFile",
            "negativeTtl", "ttl", "statCacheMb", "parallelDownloads", "bufferedRead"}
Reads == {"statCacheTtl", "typeCacheTtl", "statCacheCapacity", "streamingWrites", "fileCacheMb",
          "cacheDir", "maxParallelDownloads", "writeBufferSize"}

\* What Rationalize may change.
Touched == {"severity", "logFormat", "readGlobalBlocks", "createEmptyFile", "writeGlobalBlocks",
            "writeBlocksPerFile", "negativeTtl", "ttl", "statCacheMb", "metricsInterval",
            "parallelDownloads", "bufferedRead"}

\* BuildFlagSet: the defaults of those.
LEMMA DefaultSettings ==
    /\ Settles \cup Reads \cup {"machineType", "foreground", "profile"} \subseteq Settings
    /\ Defaults.readGlobalBlocks \in Int /\ Defaults.writeGlobalBlocks \in Int
    /\ Defaults.writeBlocksPerFile \in Int /\ Defaults.negativeTtl = 5 /\ Defaults.ttl \in Int
    /\ Defaults.statCacheMb \in Int /\ Defaults.statCacheTtl \in Int /\ Defaults.typeCacheTtl \in Int
    /\ Defaults.statCacheCapacity \in Int /\ Defaults.fileCacheMb \in Int
    /\ Defaults.createEmptyFile \in BOOLEAN /\ Defaults.parallelDownloads \in BOOLEAN
    /\ Defaults.bufferedRead \in BOOLEAN /\ Defaults.streamingWrites \in BOOLEAN
  <1>1. Settles \cup Reads \cup {"machineType", "foreground", "profile"} \subseteq Settings
    BY DEF Defaults, Settings, Settles, Reads
  <1>2. /\ Defaults.readGlobalBlocks = 40 /\ Defaults.writeGlobalBlocks = 4
        /\ Defaults.writeBlocksPerFile = 1 /\ Defaults.negativeTtl = 5 /\ Defaults.ttl = 60
    BY DEF Defaults
  <1>3. /\ Defaults.statCacheMb = 33 /\ Defaults.statCacheTtl = 60 /\ Defaults.typeCacheTtl = 60
        /\ Defaults.statCacheCapacity = 20460 /\ Defaults.fileCacheMb = Unlimited
    BY DEF Defaults
  <1>4. /\ Defaults.createEmptyFile = FALSE /\ Defaults.parallelDownloads = FALSE
        /\ Defaults.bufferedRead = FALSE /\ Defaults.streamingWrites = TRUE
    BY DEF Defaults
  <1>5. /\ Defaults.readGlobalBlocks \in Int /\ Defaults.writeGlobalBlocks \in Int
        /\ Defaults.writeBlocksPerFile \in Int /\ Defaults.ttl \in Int
    BY <1>2
  <1>6. /\ Defaults.statCacheMb \in Int /\ Defaults.statCacheTtl \in Int /\ Defaults.typeCacheTtl \in Int
        /\ Defaults.statCacheCapacity \in Int /\ Defaults.fileCacheMb \in Int
    BY <1>3 DEF Unlimited
  <1>7. /\ Defaults.createEmptyFile \in BOOLEAN /\ Defaults.parallelDownloads \in BOOLEAN
        /\ Defaults.bufferedRead \in BOOLEAN /\ Defaults.streamingWrites \in BOOLEAN
    BY <1>4, Zenon
  <1> QED
    BY <1>1, <1>2, <1>5, <1>6, <1>7, Zenon

\* BindFlags, Unmarshal: where the value of a setting comes from.
LEMMA Layers ==
  ASSUME NEW cli, NEW f, NEW s \in Settings
  PROVE  /\ s \in DOMAIN Unmarshalled(cli, f)
         /\ Unmarshalled(cli, f)[s] = IF s \in DOMAIN cli THEN cli[s]
                                      ELSE IF s \in DOMAIN f THEN f[s] ELSE Defaults[s]
  BY DEF Unmarshalled, Over, Settings

\* ... and of which type it is.
LEMMA UnmarshalledTypes ==
  ASSUME NEW cli, NEW f, Parsed(cli), Parsed(f), NEW c, c = Unmarshalled(cli, f)
  PROVE  /\ c.readGlobalBlocks \in Int /\ c.writeGlobalBlocks \in Int /\ c.writeBlocksPerFile \in Int
         /\ c.negativeTtl \in Int /\ c.ttl \in Int /\ c.statCacheMb \in Int /\ c.statCacheTtl \in Int
         /\ c.typeCacheTtl \in Int /\ c.statCacheCapacity \in Int /\ c.fileCacheMb \in Int
         /\ c.createEmptyFile \in BOOLEAN /\ c.parallelDownloads \in BOOLEAN
         /\ c.bufferedRead \in BOOLEAN /\ c.streamingWrites \in BOOLEAN
  <1>1. ASSUME NEW s \in Settings, s \notin Switches \cup Texts, Defaults[s] \in Int
        PROVE  c[s] \in Int
    BY <1>1, Layers DEF Parsed
  <1>2. ASSUME NEW s \in Settings \cap Switches, Defaults[s] \in BOOLEAN
        PROVE  c[s] \in BOOLEAN
    BY <1>2, Layers DEF Parsed
  <1> QED
    BY <1>1, <1>2, DefaultSettings DEF Settles, Reads, Switches, Texts

\* AllFlagOptimizationRules.
LEMMA OptimizedValues ==
  ASSUME NEW c, NEW cli, NEW m, NEW o, o = optimizedFlags(c, cli, m)
  PROVE  /\ DOMAIN o \subseteq Optimizable \ DOMAIN cli
         /\ DOMAIN o \subseteq DOMAIN getOptimizedValue(c.profile, getMachineType(c, m))
         /\ "negativeTtl" \in DOMAIN o => o.negativeTtl = 0
         /\ "ttl" \in DOMAIN o => o.ttl = Unlimited
         /\ "statCacheMb" \in DOMAIN o => o.statCacheMb \in {Unlimited, 1024}
         /\ "writeGlobalBlocks" \in DOMAIN o => o.writeGlobalBlocks = 1600
  <1> DEFINE p == ProfileRule(c.profile)
             q == IF getMachineType(c, m) \in HighPerformance THEN MachineRule ELSE <<>>
             rules == getOptimizedValue(c.profile, getMachineType(c, m))
  <1>1. /\ DOMAIN p \subseteq Optimizable \ {"writeGlobalBlocks"}
        /\ "negativeTtl" \in DOMAIN p => p.negativeTtl = 0
        /\ "ttl" \in DOMAIN p => p.ttl = Unlimited
        /\ "statCacheMb" \in DOMAIN p => p.statCacheMb = Unlimited
    BY DEF ProfileRule, Optimizable
  <1>2. /\ DOMAIN q \subseteq Optimizable
        /\ "negativeTtl" \in DOMAIN q => q.negativeTtl = 0
        /\ "ttl" \in DOMAIN q => q.ttl = Unlimited
        /\ "statCacheMb" \in DOMAIN q => q.statCacheMb = 1024
        /\ "writeGlobalBlocks" \in DOMAIN q => q.writeGlobalBlocks = 1600
    BY DEF MachineRule, Optimizable
  <1>3. DOMAIN rules = DOMAIN p \cup DOMAIN q /\ \A s \in DOMAIN rules : rules[s] = IF s \in DOMAIN p THEN p[s] ELSE q[s]
    BY DEF getOptimizedValue, Over
  <1>4. DOMAIN o \subseteq DOMAIN rules \ DOMAIN cli /\ \A s \in DOMAIN o : o[s] = rules[s]
    <2> HIDE DEF rules
    <2> QED
      BY DEF optimizedFlags, rules
  <1>5. DOMAIN o \subseteq DOMAIN getOptimizedValue(c.profile, getMachineType(c, m))
    BY <1>4
  <1> HIDE DEF p, q, rules
  <1> QED
    BY <1>1, <1>2, <1>3, <1>4, <1>5

\* ApplyOptimizations: the rest stays.
LEMMA Optimized ==
  ASSUME NEW c, NEW cli, NEW m, NEW s \in DOMAIN c, s # "machineType"
  PROVE  /\ s \in DOMAIN ApplyOptimizations(c, cli, m)
         /\ ApplyOptimizations(c, cli, m)[s] =
               IF s \in DOMAIN optimizedFlags(c, cli, m) THEN optimizedFlags(c, cli, m)[s] ELSE c[s]
  <1>1. CASE c.disableAutoconfig
    BY <1>1 DEF ApplyOptimizations, optimizedFlags
  <1>2. CASE ~c.disableAutoconfig
    <2> DEFINE o == optimizedFlags(c, cli, m)
               d == [c EXCEPT !.machineType = getMachineType(c, m)]
    <2>1. ApplyOptimizations(c, cli, m) = Over(o, d)
      BY <1>2 DEF ApplyOptimizations
    <2>2. s \in DOMAIN d /\ d[s] = c[s]
      OBVIOUS
    <2> HIDE DEF o, d
    <2>3. s \in DOMAIN Over(o, d) /\ Over(o, d)[s] = IF s \in DOMAIN o THEN o[s] ELSE d[s]
      BY <2>2 DEF Over
    <2> QED
      BY <2>1, <2>2, <2>3 DEF o
  <1> QED
    BY <1>1, <1>2

\* ApplyOptimizations: the machine that the rules were for is noted.
LEMMA MachineNoted ==
  ASSUME NEW c, NEW cli, NEW m, "machineType" \in DOMAIN c
  PROVE  /\ "machineType" \in DOMAIN ApplyOptimizations(c, cli, m)
         /\ DOMAIN optimizedFlags(c, cli, m) # {} =>
               ApplyOptimizations(c, cli, m).machineType = getMachineType(c, m)
  <1>1. CASE c.disableAutoconfig
    BY <1>1 DEF ApplyOptimizations, optimizedFlags
  <1>2. CASE ~c.disableAutoconfig
    <2> DEFINE o == optimizedFlags(c, cli, m)
               d == [c EXCEPT !.machineType = getMachineType(c, m)]
    <2>1. ApplyOptimizations(c, cli, m) = Over(o, d)
      BY <1>2 DEF ApplyOptimizations
    <2>2. "machineType" \in DOMAIN d /\ d.machineType = getMachineType(c, m)
      OBVIOUS
    <2>3. "machineType" \notin DOMAIN o
      BY OptimizedValues DEF Optimizable
    <2> HIDE DEF o, d
    <2> QED
      BY <2>1, <2>2, <2>3 DEF Over
  <1> QED
    BY <1>1, <1>2

\* Rationalize: setting by setting.
LEMMA Rationalized ==
  ASSUME NEW c, NEW isSet, NEW o, Settles \cup Reads \subseteq DOMAIN c,
         NEW d, d = Rationalize(c, isSet, o)
  PROVE  /\ \A s \in DOMAIN c \ Touched : d[s] = c[s]
         /\ d.readGlobalBlocks = Limit(c.readGlobalBlocks, MaxBlocks)
         /\ d.writeGlobalBlocks = Limit(c.writeGlobalBlocks, MaxBlocks)
         /\ d.writeBlocksPerFile = Limit(c.writeBlocksPerFile, MaxBlocksPerFile)
         /\ d.createEmptyFile = (c.createEmptyFile /\ ~c.streamingWrites)
         /\ d.negativeTtl = resolveNegativeTTL(c, isSet, o)
         /\ d.ttl = resolveMetadataCacheTTL(c, isSet, o)
         /\ d.statCacheMb = resolveStatCacheMaxSizeMB(c, isSet, o)
         /\ d.parallelDownloads = resolveParallelDownloadsValue(c, isSet)
         /\ d.bufferedRead = (c.bufferedRead /\ ~IsFileCacheEnabled(c))
  <1>1. \A s \in DOMAIN c \ Touched : d[s] = c[s]
    BY DEF Rationalize, Over, Touched
  <1>2. /\ d.readGlobalBlocks = Limit(c.readGlobalBlocks, MaxBlocks)
        /\ d.writeGlobalBlocks = Limit(c.writeGlobalBlocks, MaxBlocks)
        /\ d.writeBlocksPerFile = Limit(c.writeBlocksPerFile, MaxBlocksPerFile)
        /\ d.createEmptyFile = (c.createEmptyFile /\ ~c.streamingWrites)
        /\ d.negativeTtl = resolveNegativeTTL(c, isSet, o)
        /\ d.ttl = resolveMetadataCacheTTL(c, isSet, o)
        /\ d.statCacheMb = resolveStatCacheMaxSizeMB(c, isSet, o)
        /\ d.parallelDownloads = resolveParallelDownloadsValue(c, isSet)
        /\ d.bufferedRead = (c.bufferedRead /\ ~IsFileCacheEnabled(c))
    BY DEF Rationalize, Over
  <1> QED
    BY <1>1, <1>2

\* ValidateConfig, ApplyOptimizations and Rationalize make a settled configuration of any
\* flags, file and machine that they do not refuse.
LEMMA ConfiguredIsSettled ==
  ASSUME NEW cli, NEW f, NEW m, Parsed(cli), Parsed(f), NEW r \in Configured(cli, f, m), r.ok
  PROVE  Settled(r.config, cli, f)
  <1> DEFINE a == Unmarshalled(cli, f)
             o == optimizedFlags(a, cli, m)
             b == ApplyOptimizations(a, cli, m)
             isSet == IsSet(cli, f)
             c == Rationalize(b, isSet, DOMAIN o)
             user == Over(cli, f)
             kept == DOMAIN cli \cup (DOMAIN f \ DOMAIN getOptimizedValue(c.profile, c.machineType))
             limited == [ttl |-> maxSupportedTTLInSeconds, negativeTtl |-> maxSupportedTTLInSeconds,
                         statCacheMb |-> maxSupportedStatCacheMaxSizeMB, readGlobalBlocks |-> MaxBlocks,
                         writeGlobalBlocks |-> MaxBlocks, writeBlocksPerFile |-> MaxBlocksPerFile]
             Bounded == {"ttl", "negativeTtl", "statCacheMb", "readGlobalBlocks", "writeGlobalBlocks",
                         "writeBlocksPerFile"}
  <1>1. r.config = c /\ ValidateConfig(a, isSet)
    BY DEF Configured
  <1>2. \A s \in Settings \ {"machineType"} :
           /\ s \in DOMAIN a /\ s \in DOMAIN b
           /\ a[s] = IF s \in DOMAIN cli THEN cli[s] ELSE IF s \in DOMAIN f THEN f[s] ELSE Defaults[s]
           /\ b[s] = IF s \in DOMAIN o THEN o[s] ELSE a[s]
    <2> SUFFICES ASSUME NEW s \in Settings \ {"machineType"}
                 PROVE  /\ s \in DOMAIN a /\ s \in DOMAIN b
                        /\ a[s] = IF s \in DOMAIN cli THEN cli[s] ELSE IF s \in DOMAIN f THEN f[s] ELSE Defaults[s]
                        /\ b[s] = IF s \in DOMAIN o THEN o[s] ELSE a[s]
      OBVIOUS
    <2>1. s \in DOMAIN a /\ a[s] = IF s \in DOMAIN cli THEN cli[s] ELSE IF s \in DOMAIN f THEN f[s] ELSE Defaults[s]
      BY Layers
    <2> QED
      BY <2>1, Optimized
  <1>s. Settles \cup Reads \cup {"profile"} \subseteq Settings \ {"machineType"} /\ "machineType" \in Settings
    BY DefaultSettings DEF Settles, Reads
  <1>w. \A s \in Settles \cup Reads :
           /\ a[s] = IF s \in DOMAIN cli THEN cli[s] ELSE IF s \in DOMAIN f THEN f[s] ELSE Defaults[s]
           /\ b[s] = IF s \in DOMAIN o THEN o[s] ELSE a[s]
    BY <1>2, <1>s
  <1>3. /\ a.readGlobalBlocks \in Int /\ a.writeGlobalBlocks \in Int /\ a.writeBlocksPerFile \in Int
        /\ a.negativeTtl \in Int /\ a.ttl \in Int /\ a.statCacheMb \in Int /\ a.statCacheTtl \in Int
        /\ a.typeCacheTtl \in Int /\ a.statCacheCapacity \in Int /\ a.fileCacheMb \in Int
        /\ a.createEmptyFile \in BOOLEAN /\ a.parallelDownloads \in BOOLEAN
        /\ a.bufferedRead \in BOOLEAN /\ a.streamingWrites \in BOOLEAN
    BY UnmarshalledTypes
  <1>x. DOMAIN o \subseteq DOMAIN getOptimizedValue(a.profile, getMachineType(a, m))
    BY OptimizedValues
  <1>4. /\ DOMAIN o \subseteq Optimizable \ DOMAIN cli
        /\ "negativeTtl" \in DOMAIN o => o.negativeTtl = 0
        /\ "ttl" \in DOMAIN o => o.ttl = Unlimited
        /\ "statCacheMb" \in DOMAIN o => o.statCacheMb \in {Unlimited, 1024}
        /\ "writeGlobalBlocks" \in DOMAIN o => o.writeGlobalBlocks = 1600
    BY OptimizedValues
  <1>t. "machineType" \in DOMAIN b /\ (DOMAIN o # {} => b.machineType = getMachineType(a, m))
    <2>1. "machineType" \in DOMAIN a
      BY <1>s, Layers, SMTT(30)
    <2> QED
      BY <2>1, MachineNoted
  <1> HIDE DEF a, o, b
  <1>5. /\ \A s \in DOMAIN b \ Touched : c[s] = b[s]
        /\ c.readGlobalBlocks = Limit(b.readGlobalBlocks, MaxBlocks)
        /\ c.writeGlobalBlocks = Limit(b.writeGlobalBlocks, MaxBlocks)
        /\ c.writeBlocksPerFile = Limit(b.writeBlocksPerFile, MaxBlocksPerFile)
        /\ c.createEmptyFile = (b.createEmptyFile /\ ~b.streamingWrites)
        /\ c.negativeTtl = resolveNegativeTTL(b, isSet, DOMAIN o)
        /\ c.ttl = resolveMetadataCacheTTL(b, isSet, DOMAIN o)
        /\ c.statCacheMb = resolveStatCacheMaxSizeMB(b, isSet, DOMAIN o)
        /\ c.parallelDownloads = resolveParallelDownloadsValue(b, isSet)
        /\ c.bufferedRead = (b.bufferedRead /\ ~IsFileCacheEnabled(b))
    <2>1. Settles \cup Reads \subseteq DOMAIN b
      BY <1>2, <1>s
    <2> QED
      BY <2>1, Rationalized
  <1> HIDE DEF c
  <1>6. /\ \A s \in Reads \cup {"readGlobalBlocks", "createEmptyFile", "writeBlocksPerFile", "parallelDownloads",
                               "bufferedRead", "profile"} : b[s] = a[s]
        /\ \A s \in Reads \cup {"profile"} : c[s] = a[s]
    <2>1. \A s \in Reads \cup {"readGlobalBlocks", "createEmptyFile", "writeBlocksPerFile", "parallelDownloads",
                               "bufferedRead", "profile"} : s \in Settings \ {"machineType"} /\ s \notin Optimizable
      BY <1>s DEF Reads, Settles, Optimizable
    <2>2. \A s \in Reads \cup {"profile"} : s \notin Touched
      BY DEF Reads, Touched
    <2> QED
      BY <1>2, <1>4, <1>5, <2>1, <2>2
  <1>u. kept \cap DOMAIN o = {} /\ kept \subseteq Settings
    <2>1. DOMAIN o # {} => c.machineType = getMachineType(a, m)
      BY <1>t, <1>5 DEF Touched
    <2>2. c.profile = a.profile
      BY <1>6
    <2> QED
      BY <1>4, <1>x, <2>1, <2>2 DEF Parsed
  <1>7. ASSUME NEW s \in kept, s # "machineType"
        PROVE  b[s] = user[s] /\ a[s] = user[s] /\ s \in isSet /\ s \in DOMAIN b
    <2>1. s \notin DOMAIN o /\ s \in Settings \ {"machineType"} /\ s \in DOMAIN cli \cup DOMAIN f
      BY <1>u, <1>7
    <2>2. user[s] = IF s \in DOMAIN cli THEN cli[s] ELSE f[s]
      BY <2>1 DEF Over
    <2> HIDE DEF user, kept
    <2> QED
      BY <1>2, <2>1, <2>2 DEF IsSet
  <1> HIDE DEF user, kept
  <1>a. \A s \in kept \cap DOMAIN limited : c[s] = Limit(user[s], limited[s])
    <2>1. DOMAIN limited = Bounded
      OBVIOUS
    <2>2. "ttl" \in kept => c.ttl = Limit(user.ttl, maxSupportedTTLInSeconds)
      BY <1>5, <1>7 DEF resolveMetadataCacheTTL
    <2>3. "negativeTtl" \in kept => c.negativeTtl = Limit(user.negativeTtl, maxSupportedTTLInSeconds)
      BY <1>5, <1>7 DEF resolveNegativeTTL
    <2>4. "statCacheMb" \in kept => c.statCacheMb = Limit(user.statCacheMb, maxSupportedStatCacheMaxSizeMB)
      BY <1>5, <1>7 DEF resolveStatCacheMaxSizeMB
    <2>5. /\ "readGlobalBlocks" \in kept => c.readGlobalBlocks = Limit(user.readGlobalBlocks, MaxBlocks)
          /\ "writeGlobalBlocks" \in kept => c.writeGlobalBlocks = Limit(user.writeGlobalBlocks, MaxBlocks)
          /\ "writeBlocksPerFile" \in kept => c.writeBlocksPerFile = Limit(user.writeBlocksPerFile, MaxBlocksPerFile)
      BY <1>5, <1>7
    <2> QED
      BY <2>1, <2>2, <2>3, <2>4, <2>5
  <1>v. \A s \in kept \ (DOMAIN limited \cup Derived) : c[s] = user[s]
    <2> SUFFICES ASSUME NEW s \in kept, s \notin DOMAIN limited, s \notin Derived PROVE c[s] = user[s]
      OBVIOUS
    <2>1. DOMAIN limited = Bounded
      OBVIOUS
    <2>2. s # "machineType" /\ (s \notin Touched \/ s = "parallelDownloads")
      BY <2>1 DEF Derived, Touched
    <2>3. b[s] = user[s] /\ a[s] = user[s] /\ s \in isSet /\ s \in DOMAIN b
      BY <1>7, <2>2
    <2>4. CASE s \notin Touched
      BY <1>5, <2>3, <2>4, SMTT(30)
    <2>5. CASE s = "parallelDownloads"
      <3>1. c.parallelDownloads = b.parallelDownloads
        BY <1>3, <1>5, <1>6, <2>3, <2>5, Zenon DEF resolveParallelDownloadsValue
      <3> QED
        BY <2>3, <2>5, <3>1
    <2> QED
      BY <2>2, <2>4, <2>5
  <1>b. c.negativeTtl >= 0
    <2>1. CASE "negativeTtl" \in DOMAIN o
      BY <1>w, <1>4, <1>5, <2>1, SMTT(30) DEF Settles, resolveNegativeTTL, Limit, Unlimited
    <2>2. CASE "negativeTtl" \notin DOMAIN o /\ "negativeTtl" \in isSet
      <3>1. a.negativeTtl >= Unlimited
        BY <1>1, <2>2, Zenon DEF ValidateConfig, isValidMetadataCache, isTTLInSecsValid
      <3> QED
        BY <1>w, <1>3, <1>5, <2>2, <3>1 DEF Settles, resolveNegativeTTL, Limit, Unlimited, maxSupportedTTLInSeconds
    <2>3. CASE "negativeTtl" \notin DOMAIN o /\ "negativeTtl" \notin isSet
      BY <1>w, <1>5, <2>3, DefaultSettings DEF Settles, resolveNegativeTTL, IsSet
    <2> QED
      BY <2>1, <2>2, <2>3, SMTT(30)
  <1>c. c.statCacheMb >= 0
    <2>1. CASE "statCacheMb" \notin isSet /\ ("statCacheMb" \notin DOMAIN o \/ "statCacheCapacity" \in isSet)
      <3>1. c.statCacheMb = calculateSizeFromCapacity(a.statCacheCapacity)
        BY <1>5, <1>6, <2>1 DEF resolveStatCacheMaxSizeMB, Reads
      <3>2. a.statCacheCapacity >= 0
        BY <1>1, Zenon DEF ValidateConfig, isValidMetadataCache
      <3> QED
        BY <1>3, <3>1, <3>2 DEF calculateSizeFromCapacity, EntrySize, Uint64Range, MiB
    <2>2. CASE ~("statCacheMb" \notin isSet /\ ("statCacheMb" \notin DOMAIN o \/ "statCacheCapacity" \in isSet))
      <3>1. c.statCacheMb = Limit(b.statCacheMb, maxSupportedStatCacheMaxSizeMB)
        BY <1>5, <2>2 DEF resolveStatCacheMaxSizeMB
      <3>2. b.statCacheMb \in Int /\ b.statCacheMb >= Unlimited
        <4>1. b.statCacheMb = IF "statCacheMb" \in DOMAIN o THEN o.statCacheMb ELSE a.statCacheMb
          BY <1>w DEF Settles
        <4>2. "statCacheMb" \in isSet => a.statCacheMb >= Unlimited
          BY <1>1, Zenon DEF ValidateConfig, isValidMetadataCache
        <4> QED
          BY <1>3, <1>4, <2>2, <4>1, <4>2 DEF Unlimited
      <3> QED
        BY <3>1, <3>2 DEF Limit, Unlimited, maxSupportedStatCacheMaxSizeMB
    <2> QED
      BY <2>1, <2>2
  <1>d. c.ttl >= 0 \/ c.ttl \in {c.statCacheTtl, c.typeCacheTtl}
    <2>1. CASE "ttl" \notin isSet /\ ("ttl" \notin DOMAIN o \/ isSet \cap {"statCacheTtl", "typeCacheTtl"} # {})
      BY <1>5, <1>6, <2>1 DEF resolveMetadataCacheTTL, Lower, Reads
    <2>2. CASE ~("ttl" \notin isSet /\ ("ttl" \notin DOMAIN o \/ isSet \cap {"statCacheTtl", "typeCacheTtl"} # {}))
      <3>1. c.ttl = Limit(b.ttl, maxSupportedTTLInSeconds)
        BY <1>5, <2>2 DEF resolveMetadataCacheTTL
      <3>2. b.ttl \in Int /\ b.ttl >= Unlimited
        <4>1. b.ttl = IF "ttl" \in DOMAIN o THEN o.ttl ELSE a.ttl
          BY <1>w DEF Settles
        <4>2. "ttl" \in isSet => a.ttl >= Unlimited
          BY <1>1, Zenon DEF ValidateConfig, isValidMetadataCache, isTTLInSecsValid
        <4> QED
          BY <1>3, <1>4, <2>2, <4>1, <4>2 DEF Unlimited
      <3> QED
        BY <3>1, <3>2, SMTT(30) DEF Limit, Unlimited, maxSupportedTTLInSeconds
    <2> QED
      BY <2>1, <2>2
  <1>e. c.bufferedRead => c.readGlobalBlocks >= 0
    <2>1. a.bufferedRead => a.readGlobalBlocks >= Unlimited
      BY <1>1, Zenon DEF ValidateConfig, isValidBufferedReadConfig
    <2> QED
      BY <1>3, <1>5, <1>6, <2>1 DEF Limit, Unlimited, MaxBlocks
  <1>f. c.streamingWrites => c.writeGlobalBlocks >= 0 /\ c.writeBlocksPerFile >= 1
    <2>1. c.streamingWrites = a.streamingWrites /\ b.writeBlocksPerFile = a.writeBlocksPerFile
      BY <1>6 DEF Reads
    <2>2. a.streamingWrites => /\ a.writeGlobalBlocks >= Unlimited
                               /\ a.writeBlocksPerFile >= 1 \/ a.writeBlocksPerFile = Unlimited
      BY <1>1, Zenon DEF ValidateConfig, isValidWriteStreamingConfig, AtLeastOneOrUnlimited
    <2>3. a.streamingWrites => b.writeGlobalBlocks \in Int /\ b.writeGlobalBlocks >= Unlimited
      BY <1>w, <1>3, <1>4, <2>2 DEF Settles, Unlimited
    <2> QED
      BY <1>3, <1>5, <2>1, <2>2, <2>3 DEF Limit, Unlimited, MaxBlocks, MaxBlocksPerFile
  <1>g. isSet \cap {"ttl", "statCacheTtl"} = {"statCacheTtl"} => c.ttl <= c.statCacheTtl
    <2> SUFFICES ASSUME "ttl" \notin isSet, "statCacheTtl" \in isSet PROVE c.ttl <= c.statCacheTtl
      OBVIOUS
    <2>1. c.ttl = Lower(a.statCacheTtl, a.typeCacheTtl) /\ c.statCacheTtl = a.statCacheTtl
      BY <1>5, <1>6 DEF resolveMetadataCacheTTL, Reads
    <2> QED
      BY <1>3, <2>1 DEF Lower
  <1>h. isSet \cap {"statCacheMb", "statCacheCapacity"} = {"statCacheCapacity"}
           /\ c.statCacheCapacity * EntrySize < Uint64Range =>
              c.statCacheCapacity * EntrySize \in ((c.statCacheMb - 1) * MiB + 1)..(c.statCacheMb * MiB)
    <2> DEFINE n == a.statCacheCapacity
    <2> SUFFICES ASSUME "statCacheMb" \notin isSet, "statCacheCapacity" \in isSet, n * EntrySize < Uint64Range
                 PROVE  n * EntrySize \in ((c.statCacheMb - 1) * MiB + 1)..(c.statCacheMb * MiB)
      BY <1>6 DEF Reads
    <2>1. c.statCacheMb = calculateSizeFromCapacity(n)
      BY <1>5, <1>6 DEF resolveStatCacheMaxSizeMB, Reads
    <2>2. n \in Nat
      <3>1. n >= 0
        BY <1>1, Zenon DEF ValidateConfig, isValidMetadataCache
      <3> QED
        BY <1>3, <3>1
    <2> HIDE DEF n
    <2>3. (n * EntrySize) % Uint64Range = n * EntrySize
      BY <2>2 DEF EntrySize, Uint64Range
    <2> QED
      BY <2>1, <2>2, <2>3 DEF calculateSizeFromCapacity, EntrySize, MiB
  <1>i. (IsFileCacheEnabled(c) <=> IsFileCacheEnabled(a)) /\ (IsFileCacheEnabled(b) <=> IsFileCacheEnabled(a))
    BY <1>6, Zenon DEF IsFileCacheEnabled, Reads
  <1>j. ~(IsFileCacheEnabled(c) /\ c.bufferedRead) /\ ~(c.streamingWrites /\ c.createEmptyFile)
    BY <1>5, <1>6, <1>i, ZenonT(40) DEF Reads
  <1>k. a.parallelDownloads => /\ IsFileCacheEnabled(a) /\ a.maxParallelDownloads # 0
                               /\ a.writeBufferSize >= 4096 /\ a.writeBufferSize % 4096 = 0
    BY <1>1, ZenonT(40) DEF ValidateConfig, isValidParallelDownloadConfig
  <1>l. c.parallelDownloads <=> (a.parallelDownloads \/ (IsFileCacheEnabled(a) /\ "parallelDownloads" \notin isSet))
    BY <1>5, <1>6, <1>i, Zenon DEF resolveParallelDownloadsValue
  <1>m. c.parallelDownloads => IsFileCacheEnabled(c)
    BY <1>i, <1>k, <1>l
  <1>n. "parallelDownloads" \in isSet => isValidParallelDownloadConfig(c)
    BY <1>6, <1>i, <1>k, <1>l DEF isValidParallelDownloadConfig, Reads
  <1> QED
    BY <1>1, <1>a, <1>v, <1>b, <1>c, <1>d, <1>e, <1>f, <1>g, <1>h, <1>j, <1>m, <1>n, SMTT(30) DEF Settled, user, kept

\* The flags are those of the kind, all through, and a process that is past its
\* configuration has a settled one.
Setup == kind \in Kinds /\ (pc \notin {"config", "ended"} => Settled(config, kind.cli, given.file))

\* PersistentPreRun, DaemonPreRun: the --foreground that is put before the flags of the
\* daemon makes no difference to what Settled says of them.
LEMMA DaemonFlags ==
  ASSUME NEW cli, NEW f, NEW c, Parsed(cli), NEW d, d = Over(cli, [foreground |-> TRUE])
  PROVE  Parsed(d) /\ (Settled(c, d, f) => Settled(c, cli, f))
  <1>1. DOMAIN d = DOMAIN cli \cup {"foreground"} /\ \A s \in DOMAIN cli : d[s] = cli[s]
    BY DEF Over
  <1>2. "foreground" \notin DOMAIN cli => d["foreground"] = TRUE
    BY DEF Over
  <1>3. "foreground" \in Settings /\ "foreground" \in Switches
    <2>1. "foreground" \in Settings
      BY DefaultSettings
    <2>2. "foreground" \in Switches
      BY DEF Switches
    <2> QED
      BY <2>1, <2>2
  <1>4. Parsed(d)
    <2>1. DOMAIN d \subseteq Settings
      BY <1>1, <1>3 DEF Parsed
    <2>2. ASSUME NEW s \in DOMAIN d
          PROVE  d[s] \in IF s \in Switches THEN BOOLEAN ELSE IF s \in Texts THEN STRING ELSE Int
      <3>1. CASE s \in DOMAIN cli
        BY <1>1, <3>1 DEF Parsed
      <3>2. CASE s = "foreground" /\ s \notin DOMAIN cli
        BY <1>2, <1>3, <3>2, Zenon
      <3> QED
        BY <1>1, <3>1, <3>2
    <2> QED
      BY <2>1, <2>2 DEF Parsed
  <1>5. ASSUME Settled(c, d, f) PROVE Settled(c, cli, f)
    <2> DEFINE limited == [ttl |-> maxSupportedTTLInSeconds, negativeTtl |-> maxSupportedTTLInSeconds,
                           statCacheMb |-> maxSupportedStatCacheMaxSizeMB, readGlobalBlocks |-> MaxBlocks,
                           writeGlobalBlocks |-> MaxBlocks, writeBlocksPerFile |-> MaxBlocksPerFile]
    <2>1. \A s \in {"ttl", "statCacheTtl", "statCacheMb", "statCacheCapacity", "parallelDownloads"} :
             s \in IsSet(d, f) <=> s \in IsSet(cli, f)
      BY <1>1 DEF IsSet
    <2>2. /\ IsSet(d, f) \cap {"ttl", "statCacheTtl"} = IsSet(cli, f) \cap {"ttl", "statCacheTtl"}
          /\ IsSet(d, f) \cap {"statCacheMb", "statCacheCapacity"}
                = IsSet(cli, f) \cap {"statCacheMb", "statCacheCapacity"}
          /\ "parallelDownloads" \in IsSet(d, f) <=> "parallelDownloads" \in IsSet(cli, f)
      BY <2>1
    <2> DEFINE rules == DOMAIN getOptimizedValue(c.profile, c.machineType)
               kept(g) == DOMAIN g \cup (DOMAIN f \ rules)
    <2>3. /\ kept(cli) \subseteq kept(d)
          /\ \A s \in kept(cli) : s # "foreground" => Over(d, f)[s] = Over(cli, f)[s]
      <3> HIDE DEF rules
      <3> QED
        BY <1>1 DEF Over
    <2>4. /\ \A s \in kept(d) \cap DOMAIN limited : c[s] = Limit(Over(d, f)[s], limited[s])
          /\ \A s \in kept(d) \ (DOMAIN limited \cup Derived) : c[s] = Over(d, f)[s]
      BY <1>5, Zenon DEF Settled
    <2>5. "foreground" \notin DOMAIN limited /\ "foreground" \in Derived
      BY DEF Derived
    <2>6. /\ \A s \in kept(cli) \cap DOMAIN limited : c[s] = Limit(Over(cli, f)[s], limited[s])
          /\ \A s \in kept(cli) \ (DOMAIN limited \cup Derived) : c[s] = Over(cli, f)[s]
      <3> HIDE DEF limited, kept
      <3> QED
        BY <2>3, <2>4, <2>5
    <2> QED
      BY <1>5, <2>2, <2>6, Zenon DEF Settled
  <1> QED
    BY <1>4, <1>5

\* The two that read the configuration.
LEMMA PreRunSetup ==
  ASSUME Setup, PersistentPreRun \/ DaemonPreRun PROVE Setup'
  <1>1. kind \in Kinds /\ kind' = kind /\ Parsed(kind.cli) /\ \A f \in kind.files : Parsed(f)
    BY KindsOK DEF Setup, PersistentPreRun, DaemonPreRun
  <1>2. CASE PersistentPreRun
    <2>1. PICK f \in kind.files, m \in kind.machines : \E r \in Configured(kind.cli, f, m) :
             FirstProcess(r.config, r.ok, [file |-> f, machine |-> m])
      BY <1>2 DEF PersistentPreRun
    <2>2. PICK r \in Configured(kind.cli, f, m) : FirstProcess(r.config, r.ok, [file |-> f, machine |-> m])
      BY <2>1
    <2>3. r.ok => Settled(r.config, kind.cli, f)
      BY <1>1, ConfiguredIsSettled
    <2>4. \/ pc' = "ended"
          \/ config' = r.config /\ given' = [file |-> f, machine |-> m] /\ r.ok
          \/ UNCHANGED <<pc, config, given>>
      BY <2>2 DEF FirstProcess, Stops
    <2> QED
      BY <1>1, <2>3, <2>4, SMTT(30) DEF Setup
  <1>3. CASE DaemonPreRun
    <2> DEFINE d == Over(kind.cli, [foreground |-> TRUE])
    <2>1. PICK f \in kind.files, m \in kind.machines : \E r \in Configured(d, f, m) :
             Daemon(r.config, r.ok, [file |-> f, machine |-> m])
      BY <1>3, SMTT(30) DEF DaemonPreRun
    <2>2. PICK r \in Configured(d, f, m) : Daemon(r.config, r.ok, [file |-> f, machine |-> m])
      BY <2>1
    <2>3. Parsed(d) /\ (Settled(r.config, d, f) => Settled(r.config, kind.cli, f))
      BY <1>1, DaemonFlags
    <2> HIDE DEF d
    <2>4. r.ok => Settled(r.config, kind.cli, f)
      BY <1>1, <2>3, ConfiguredIsSettled
    <2>5. \/ pc' = "ended"
          \/ config' = r.config /\ given' = [file |-> f, machine |-> m] /\ r.ok
      BY <2>2 DEF Daemon, Stops
    <2> QED
      BY <1>1, <2>4, <2>5, SMTT(30) DEF Setup
  <1> QED
    BY <1>2, <1>3, SMTT(30)

\* Every other step leaves what was configured, and none leads back to before it.
LEMMA NextSetup ==
  ASSUME Setup, [Next]_vars PROVE Setup'
  <1>1. ASSUME UNCHANGED <<kind, config, given>>, pc' \in {"config", "ended"} \/ pc \notin {"config", "ended"}
        PROVE  Setup'
    BY <1>1 DEF Setup
  <1>2. CASE PersistentPreRun \/ DaemonPreRun
    BY <1>2, PreRunSetup
  <1>3. CASE InitLogFile \/ SetupMetrics \/ createStorageHandle \/ mountWithStorageHandle \/ callListRecursive
             \/ markSuccessfulMount \/ registerTerminatingSignalHandler \/ ParentReturns
    BY <1>1, <1>3 DEF setup, InitLogFile, SetupMetrics, createStorageHandle, mountWithStorageHandle, callListRecursive,
                      markSuccessfulMount, registerTerminatingSignalHandler, ParentReturns, Fails
  <1>4. CASE Ending \/ Signal \/ UserUnmounts
    BY <1>1, <1>4 DEF setup, Ending, HandlerTakes, HandlerUnmounts, KillerEnds, Join, Shutdown, Signal, UserUnmounts
  <1>5. CASE ExporterReads \/ logUnrecognizedAttribute
    BY <1>1, <1>5, Zenon DEF setup, ExporterReads, logUnrecognizedAttribute, mountVars
  <1>6. ASSUME NEW t \in Threads, Serving(t) \/ KernelSends(t) \/ ReportsWork(t) \/ handlePanic(t)
        PROVE  Setup'
    BY <1>1, <1>6, Zenon DEF setup, Serving, Returns, CountsOp, CountsError, FsOpsLatency, KernelSends, ReportsWork,
                      handlePanic, mountVars
  <1>7. ASSUME NEW w \in Workers, Working(w) PROVE Setup'
    BY <1>1, <1>7 DEF setup, Working, WorkerTakes, WorkerRecords, mountVars
  <1>8. CASE UNCHANGED vars
    BY <1>1, <1>8 DEF setup, vars, mountVars
  <1> QED
    BY <1>2, <1>3, <1>4, <1>5, <1>6, <1>7, <1>8 DEF Next, Mounting

-----------------------------------------------------------------------------
(* Error mapping.                                                          *)

Errnos == {"ok", "ESTALE", "ENOENT", "EEXIST", "EINTR", "ECANCELED", "EACCES", "EIO"}

\* The tests of errno: being clobbered is the first, and none answers with success.
LEMMA TestsInOrder ==
    /\ DOMAIN Tests = 1..13
    /\ \A i \in 1..13 : Tests[i][2] # "ok"
    /\ Tests[1][1] = "clobbered" /\ Tests[1][2] = "ESTALE"
    /\ \A i \in 1..13 : Tests[i][2] \in Errnos
  <1>1. \A i \in 1..13 : Tests[i][2] \in Errnos
    BY DEF Tests, Errnos
  <1> QED
    BY <1>1 DEF Tests

\* The first test that an error passes.
LEMMA FirstHit ==
  ASSUME NEW S \in SUBSET (1..13), S # {}
  PROVE  Min(S) \in S /\ \A y \in S : Min(S) <= y
  <1> DEFINE Below(n) == S \cap (1..n) # {} => \E x \in S : \A y \in S : x <= y
  <1>1. \A n \in 0..12 : Below(n) => Below(n + 1)
    <2> SUFFICES ASSUME NEW n \in 0..12, Below(n) PROVE Below(n + 1)
      OBVIOUS
    <2>1. CASE S \cap (1..n) # {}
      BY <2>1
    <2>2. CASE S \cap (1..n) = {}
      BY <2>2
    <2> QED
      BY <2>1, <2>2
  <1>2. Below(0)
    OBVIOUS
  <1>3. Below(13)
    <2> HIDE DEF Below
    <2>1. Below(4)
      BY <1>1, <1>2
    <2>2. Below(8)
      BY <1>1, <2>1
    <2>3. Below(12)
      BY <1>1, <2>2
    <2> QED
      BY <1>1, <2>3
  <1> QED
    BY <1>3, Zenon DEF Min

\* errno: no error is success, and so is, on request, a file that another client changed;
\* otherwise being changed is the answer whatever else went wrong.
LEMMA ErrnoFaithful ==
  ASSUME NEW e, e \subseteq STRING, NEW stale
  PROVE  /\ errno(e, stale) \in Errnos
         /\ errno(e, stale) = "ok" <=> e = {} \/ ("clobbered" \in e /\ ~stale)
         /\ "clobbered" \in e => errno(e, stale) \in {"ok", "ESTALE"}
  <1> DEFINE hits == {i \in DOMAIN Tests : Tests[i][1] \in e}
  <1>1. hits \in SUBSET (1..13) /\ ("clobbered" \in e => 1 \in hits)
    BY TestsInOrder
  <1>2. hits # {} => Min(hits) \in 1..13 /\ Tests[Min(hits)][2] \in Errnos \ {"ok"}
    BY <1>1, FirstHit, TestsInOrder
  <1>3. "clobbered" \in e => Min(hits) = 1
    BY <1>1, FirstHit
  <1>4. errno(e, stale) = IF e = {} THEN "ok"
                          ELSE IF hits = {} THEN DefaultFSError
                          ELSE IF "clobbered" \in e /\ ~stale THEN "ok"
                          ELSE Tests[Min(hits)][2]
    BY DEF errno
  <1> HIDE DEF hits
  <1> QED
    BY <1>1, <1>2, <1>3, <1>4, TestsInOrder DEF DefaultFSError, Errnos

-----------------------------------------------------------------------------
(* The invariant.                                                          *)

Attribute == FsOps \cup Categories \cup ReadTypes \cup
             {"", "Unknown", "insufficient_memory", "opened", "OTHER_ERRORS"}
Phases == {"idle", "work", "worked", "count", "error", "time"}
Op == [phase : Phases, name : FsOps \cup OtherOps \cup {""}, err : SUBSET STRING, fs : Errnos,
       span : BOOLEAN]
Places == {"config", "log", "metrics", "start", "handle", "prefetch", "mark", "register", "join",
           "shutdown", "unjoined", "ended"}

TypeOK ==
    /\ kind \in Kinds /\ otel \in BOOLEAN
    /\ op \in [Threads -> Op]
    /\ pc \in Places /\ outcome \in {"none", "ok", "failed"}
    /\ parent \in {"config", "waiting", "ok", "failed", "absent"}
    /\ exit \in {"no", "clean", "error", "joinError", "panic", "forced", "killed"}
    /\ conn \in {"none", "mounted", "unmounted"}
    /\ handler \in {"off", "wait", "unmount", "gone"}
    /\ unrecognized \in Attribute
    /\ counter \in [Metrics -> Int] /\ ch \in Int /\ held \in [Workers -> BOOLEAN]
    /\ lat \in [recorded : Int, dropped : Int] /\ done \in [replies : Int, errors : Int]

\* Mount is a sequence: nothing is served before the mount, the signal handler comes after
\* it, success is reported after it, and operations have ended before the shutdown.
Sequence ==
    /\ parent = "config" /\ Running => pc = "config"
    /\ pc \in {"config", "log", "metrics", "start", "handle"} =>
          conn = "none" /\ (\A t \in Threads : op[t].phase = "idle")
    /\ pc \in {"prefetch", "mark", "register", "join", "shutdown", "unjoined"} => conn # "none"
    /\ handler # "off" => pc \in {"join", "shutdown", "unjoined", "ended"} /\ conn # "none"
    /\ outcome = "ok" =>
          pc \in {"register", "join", "shutdown", "unjoined", "ended"} /\ exit # "error" /\ conn # "none"
    /\ parent = "ok" => outcome = "ok"
    /\ pc \in {"shutdown", "unjoined"} => conn = "unmounted" /\ (\A t \in Threads : op[t].phase = "idle")

\* An operation in progress has a name the metrics know; its error is set once it has
\* returned, and its span has ended.
Operation(t) ==
    /\ op[t].phase = "idle" => op[t] = NoOp
    /\ op[t].phase # "idle" => op[t].name # ""
    /\ op[t].phase \in {"count", "error", "time"} => ~op[t].span
    /\ op[t].phase = "error" => op[t].fs # "ok"

Served == {t \in Threads : op[t].phase \in {"error", "time"}}
Failing == {t \in Threads : op[t].phase = "time" /\ op[t].fs # "ok"}
Busy == {w \in Workers : held[w]}

\* What Measured says of the counters while the process runs.
Counted ==
    /\ otel => /\ counter["ops"] = done.replies + Cardinality(Served)
               /\ counter["errors"] = done.errors + Cardinality(Failing)
               /\ done.replies = lat.recorded + lat.dropped + ch + Cardinality(Busy)
    /\ ~otel => counter = NewOTelMetrics /\ ch = 0

\* ... and once it has ended in order.
Orderly == {"clean", "joinError"}
Exported ==
    exit \in Orderly => /\ otel => seen.ops = done.replies /\ seen.errors = done.errors
                        /\ \A t \in Threads : op[t].phase = "idle"

\* Until the metrics are set up, there is nothing to count.
Early == {"config", "log", "metrics"}
Fresh == pc \in Early => /\ done = [replies |-> 0, errors |-> 0] /\ lat = [recorded |-> 0, dropped |-> 0]
                         /\ counter = NewOTelMetrics /\ ch = 0 /\ held = [w \in Workers |-> FALSE]

IInv == /\ TypeOK /\ Sequence /\ (\A t \in Threads : Operation(t)) /\ RepliesFaithful
        /\ Counted /\ Exported /\ Fresh

-----------------------------------------------------------------------------
(* Mounting and ending.                                                    *)

\* A process starts with nothing counted.
LEMMA InitIInv == Init => IInv
  <1> SUFFICES ASSUME Init PROVE IInv
    OBVIOUS
  <1>3. Counted /\ Fresh
    BY Zenon DEF Init, Counted, Fresh
  <1>4. TypeOK
    <2>1. NoOp \in Op
      BY DEF NoOp, Op, Phases, Errnos
    <2>2. op \in [Threads -> Op] /\ counter \in [Metrics -> Int] /\ held \in [Workers -> BOOLEAN]
      <3>1. op = [t \in Threads |-> NoOp] /\ counter = [m \in Metrics |-> 0]
            /\ held = [w \in Workers |-> FALSE]
        BY Zenon DEF Init, NewOTelMetrics
      <3> QED
        BY ONLY <2>1, <3>1
    <2>3. lat \in [recorded : Int, dropped : Int] /\ done \in [replies : Int, errors : Int]
      <3>1. lat = [recorded |-> 0, dropped |-> 0] /\ done = [replies |-> 0, errors |-> 0]
        BY Zenon DEF Init
      <3> QED
        BY ONLY <3>1
    <2> QED
      <3>1. unrecognized \in Attribute
        <4>1. unrecognized = ""
          BY Zenon DEF Init
        <4> QED
          BY ONLY <4>1, Zenon DEF Attribute
      <3> QED
        BY <2>2, <2>3, <3>1, Zenon DEF Init, TypeOK, Places
  <1> QED
    BY <1>3, <1>4, Zenon DEF Init, IInv, Sequence, Operation, NoOp, RepliesFaithful, Exported, Orderly

\* A step that touches no operation, no metric and no reply keeps what they say; the
\* configuration changes only while nothing is served.
LEMMA QuietStep ==
  ASSUME IInv, TypeOK', Sequence', UNCHANGED <<otel, op, counter, ch, held, lat, done>>,
         config' = config \/ \A t \in Threads : op[t].phase = "idle",
         exit' \notin Orderly \/ UNCHANGED <<exit, seen>>, pc' \in Early => pc \in Early
  PROVE  IInv'
  <1>1. \A t \in Threads : Operation(t)'
    BY Zenon DEF IInv, Operation
  <1>2. RepliesFaithful'
    BY DEF IInv, RepliesFaithful
  <1>3. Counted'
    BY Zenon DEF IInv, Counted, Served, Failing, Busy
  <1>4. Exported'
    BY Zenon DEF IInv, Exported
  <1>5. Fresh'
    BY Zenon DEF IInv, Fresh
  <1> QED
    BY <1>1, <1>2, <1>3, <1>4, <1>5 DEF IInv

\* The configuration is made: by the process first started, and again by the daemon.
LEMMA PreRunIInv ==
  ASSUME IInv, PersistentPreRun \/ DaemonPreRun PROVE IInv'
  <1>1. Running /\ pc = "config" /\ \A t \in Threads : op[t].phase = "idle"
    BY SMTT(30) DEF IInv, Sequence, PersistentPreRun, DaemonPreRun
  <1>2. UNCHANGED <<kind, otel, outcome, conn, handler, metricVars, op, done>>
    BY DEF PersistentPreRun, DaemonPreRun
  <1>3. \/ exit' = "error" /\ pc' = "ended" /\ parent' \in {parent, "failed"}
        \/ exit' = exit /\ pc' = "log" /\ parent' \in {parent, "absent"}
           /\ (parent' = parent => parent = "waiting")
        \/ exit' = exit /\ pc' = pc /\ parent' = "waiting"
    BY DEF PersistentPreRun, DaemonPreRun, FirstProcess, Daemon, Stops
  <1>4. TypeOK'
    BY <1>2, <1>3 DEF IInv, TypeOK, Places, metricVars
  <1>5. Sequence'
    BY <1>1, <1>2, <1>3 DEF IInv, TypeOK, Sequence, Running
  <1>6. UNCHANGED <<counter, ch, held, lat, seen>> /\ exit' \notin Orderly /\ pc \in Early
    BY <1>1, <1>2, <1>3, SMTT(30) DEF metricVars, Running, Orderly, Early
  <1> QED
    BY <1>1, <1>2, <1>4, <1>5, <1>6, QuietStep, SMTT(30)

\* The steps of Mount after that, and the parent's: each may fail.
LEMMA MountingIInv ==
  ASSUME IInv,
         InitLogFile \/ createStorageHandle \/ mountWithStorageHandle \/ callListRecursive
         \/ markSuccessfulMount \/ registerTerminatingSignalHandler \/ ParentReturns
  PROVE  IInv'
  <1> USE DEF IInv
  <1>1. UNCHANGED <<setup, metricVars, op, done>>
    BY DEF InitLogFile, createStorageHandle, mountWithStorageHandle, callListRecursive,
           markSuccessfulMount, registerTerminatingSignalHandler, ParentReturns
  <1>2. TypeOK' /\ Sequence' /\ (exit' = exit \/ exit' = "error") /\ (pc' \in Early => pc \in Early)
    <2>1. CASE InitLogFile
      BY <1>1, <2>1 DEF InitLogFile, TypeOK, Sequence, Places, Running, Early, setup, metricVars
    <2>2. CASE createStorageHandle
      BY <1>1, <2>2 DEF createStorageHandle, Fails, SignalOutcome, TypeOK, Sequence, Places, Running, Early,
                        setup, metricVars
    <2>3. CASE mountWithStorageHandle
      BY <1>1, <2>3 DEF mountWithStorageHandle, Fails, SignalOutcome, TypeOK, Sequence, Places, Running, Early,
                        setup, metricVars
    <2>4. CASE callListRecursive
      BY <1>1, <2>4, SMTT(30) DEF callListRecursive, Fails, SignalOutcome, TypeOK, Sequence, Places, Running, Early,
                        setup, metricVars
    <2>5. CASE markSuccessfulMount
      BY <1>1, <2>5, SMTT(30) DEF markSuccessfulMount, SignalOutcome, TypeOK, Sequence, Places, Running, Early,
                        setup, metricVars
    <2>6. CASE registerTerminatingSignalHandler
      BY <1>1, <2>6, SMTT(30) DEF registerTerminatingSignalHandler, TypeOK, Sequence, Places, Running, Early,
                        setup, metricVars
    <2>7. CASE ParentReturns
      BY <1>1, <2>7 DEF ParentReturns, TypeOK, Sequence, Places, Running, Early, setup, metricVars
    <2> QED
      BY <2>1, <2>2, <2>3, <2>4, <2>5, <2>6, <2>7
  <1>3. UNCHANGED <<config, otel, op, counter, ch, held, lat, done, seen>>
    BY <1>1 DEF setup, metricVars
  <1> QED
    BY <1>2, <1>3, QuietStep DEF Orderly

\* The metrics are set up: with nothing counted, either handle will do.
LEMMA SetupMetricsIInv ==
  ASSUME IInv, SetupMetrics PROVE IInv'
  <1>1. /\ UNCHANGED <<kind, config, outcome, parent, exit, conn, handler, counter, unrecognized, ch, held, seen,
                       lat, op, done>>
        /\ pc = "metrics" /\ pc' = "start" /\ Running
    BY Zenon DEF SetupMetrics, metricVars
  <1>2. otel' \in BOOLEAN
    <2>1. IsMetricsEnabled(config) \in BOOLEAN
      BY Zenon DEF IsMetricsEnabled
    <2> QED
      BY <2>1, Zenon DEF SetupMetrics
  <1>3. TypeOK' /\ Sequence'
    BY <1>1, <1>2 DEF IInv, TypeOK, Sequence, Running, Places
  <1>4. Counted' /\ Fresh'
    <2>1. /\ done = [replies |-> 0, errors |-> 0] /\ lat = [recorded |-> 0, dropped |-> 0]
          /\ counter = NewOTelMetrics /\ ch = 0 /\ held = [w \in Workers |-> FALSE]
          /\ \A t \in Threads : op[t].phase = "idle"
      BY <1>1, Zenon DEF IInv, Fresh, Early, Sequence
    <2>2. Served' = {} /\ Failing' = {} /\ Busy' = {} /\ Cardinality({}) = 0
      BY <1>1, <2>1, FS_EmptySet, SMTT(30) DEF Served, Failing, Busy
    <2>3. counter'["ops"] = 0 /\ counter'["errors"] = 0
      BY <1>1, <2>1, SMTT(30) DEF NewOTelMetrics, Metrics
    <2>4. done'.replies = 0 /\ done'.errors = 0 /\ lat'.recorded = 0 /\ lat'.dropped = 0 /\ ch' = 0
      BY <1>1, <2>1
    <2>5. counter' = NewOTelMetrics
      BY <1>1, <2>1
    <2>6. NewOTelMetrics' = NewOTelMetrics
      BY DEF NewOTelMetrics, Metrics
    <2> HIDE DEF NewOTelMetrics
    <2>7. Counted'
      BY <2>2, <2>3, <2>4, <2>5, <2>6 DEF Counted
    <2>8. Fresh'
      BY <1>1 DEF Fresh, Early
    <2> QED
      BY <2>7, <2>8
  <1>5. (\A t \in Threads : Operation(t)') /\ RepliesFaithful'
    BY <1>1, Zenon DEF IInv, Operation, RepliesFaithful
  <1>6. Exported'
    BY <1>1 DEF Exported, Orderly, Running
  <1> QED
    BY <1>3, <1>4, <1>5, <1>6 DEF IInv

\* Signals, panics, unmounts, the timer, and Join.
LEMMA EndingIInv ==
  ASSUME IInv, Signal \/ HandlerTakes \/ HandlerUnmounts \/ UserUnmounts \/ KillerEnds \/ Join
               \/ \E t \in Threads : handlePanic(t)
  PROVE  IInv'
  <1> USE DEF IInv
  <1>1. UNCHANGED <<setup, metricVars, op, done>>
    BY DEF Signal, HandlerTakes, HandlerUnmounts, UserUnmounts, KillerEnds, Join, handlePanic
  <1>2. TypeOK' /\ Sequence' /\ (exit' = exit \/ exit' \notin Orderly) /\ (pc' \in Early => pc \in Early)
    <2>1. CASE Signal
      BY <1>1, <2>1, SMTT(30) DEF Signal, TypeOK, Sequence, Places, Running, Orderly, Early, setup, metricVars
    <2>2. CASE HandlerTakes
      BY <1>1, <2>2 DEF HandlerTakes, TypeOK, Sequence, Places, Running, Orderly, Early, setup, metricVars
    <2>3. CASE HandlerUnmounts
      BY <1>1, <2>3, SMTT(30) DEF HandlerUnmounts, TypeOK, Sequence, Places, Running, Orderly, Early, setup, metricVars
    <2>4. CASE UserUnmounts
      BY <1>1, <2>4, SMTT(30) DEF UserUnmounts, TypeOK, Sequence, Places, Running, Orderly, Early, setup, metricVars
    <2>5. CASE KillerEnds
      BY <1>1, <2>5 DEF KillerEnds, TypeOK, Sequence, Places, Running, Orderly, Early, setup, metricVars
    <2>6. CASE Join
      BY <1>1, <2>6 DEF Join, TypeOK, Sequence, Places, Running, Orderly, Early, setup, metricVars
    <2>7. CASE \E t \in Threads : handlePanic(t)
      BY <1>1, <2>7 DEF handlePanic, TypeOK, Sequence, Places, Running, Orderly, Early, setup, metricVars
    <2> QED
      BY <2>1, <2>2, <2>3, <2>4, <2>5, <2>6, <2>7
  <1>3. UNCHANGED <<config, otel, op, counter, ch, held, lat, done, seen>>
    BY <1>1 DEF setup, metricVars
  <1> QED
    BY <1>2, <1>3, QuietStep

-----------------------------------------------------------------------------
(* Operations and metrics.                                                 *)

\* A counter: an increment of one metric leaves the others as they are.
LEMMA AddCounts ==
  ASSUME NEW c \in [n : [Metrics -> Int], odd : Attribute], NEW metric \in Metrics, NEW declared \in BOOLEAN,
         NEW attr \in Attribute, NEW inc \in Nat
  PROVE  /\ Add(c, metric, declared, attr, inc) \in [n : [Metrics -> Int], odd : Attribute]
         /\ \A m \in Metrics \ {metric} : Add(c, metric, declared, attr, inc).n[m] = c.n[m]
         /\ declared => Add(c, metric, declared, attr, inc).n[metric] = c.n[metric] + inc
  <1>1. CASE declared
    <2> DEFINE r == [c EXCEPT !.n[metric] = @ + inc]
    <2>1. Add(c, metric, declared, attr, inc) = r
      BY <1>1 DEF Add
    <2>2. [c.n EXCEPT ![metric] = @ + inc] \in [Metrics -> Int]
      OBVIOUS
    <2>3. r = [c EXCEPT !.n = [c.n EXCEPT ![metric] = @ + inc]]
      OBVIOUS
    <2>4. r.n = [c.n EXCEPT ![metric] = @ + inc] /\ r \in [n : [Metrics -> Int], odd : Attribute]
      BY <2>2, <2>3
    <2> HIDE DEF r
    <2> QED
      BY <1>1, <2>1, <2>4, Zenon
  <1>2. CASE ~declared
    <2>1. Add(c, metric, declared, attr, inc) \in {[c EXCEPT !.odd = attr], c}
      BY <1>2 DEF Add
    <2>2. [c EXCEPT !.odd = attr] \in [n : [Metrics -> Int], odd : Attribute] /\ [c EXCEPT !.odd = attr].n = c.n
      OBVIOUS
    <2> QED
      BY <1>2, <2>1, <2>2
  <1> QED
    BY <1>1, <1>2

\* One operation moves on: what becomes of the operations that were counted.
LEMMA Moves ==
  ASSUME TypeOK, NEW t \in Threads, NEW r \in Op, op' = [op EXCEPT ![t] = r]
  PROVE  /\ r.phase \in {"error", "time"} /\ t \notin Served => Cardinality(Served') = Cardinality(Served) + 1
         /\ r.phase \in {"error", "time"} /\ t \in Served => Cardinality(Served') = Cardinality(Served)
         /\ r.phase \notin {"error", "time"} /\ t \notin Served => Cardinality(Served') = Cardinality(Served)
         /\ r.phase \notin {"error", "time"} /\ t \in Served => Cardinality(Served') = Cardinality(Served) - 1
         /\ r.phase = "time" /\ r.fs # "ok" /\ t \notin Failing => Cardinality(Failing') = Cardinality(Failing) + 1
         /\ ~(r.phase = "time" /\ r.fs # "ok") /\ t \notin Failing => Cardinality(Failing') = Cardinality(Failing)
         /\ ~(r.phase = "time" /\ r.fs # "ok") /\ t \in Failing => Cardinality(Failing') = Cardinality(Failing) - 1
         /\ Cardinality(Served) \in Nat /\ Cardinality(Failing) \in Nat
  <1>1. IsFiniteSet(Threads)
    BY KindsOK
  <1>2. IsFiniteSet(Served) /\ IsFiniteSet(Failing)
    BY <1>1, FS_Subset DEF Served, Failing
  <1>3. op'[t] = r /\ \A u \in Threads \ {t} : op'[u] = op[u]
    BY DEF TypeOK
  <1>4. /\ r.phase \in {"error", "time"} => Served' = Served \cup {t}
        /\ r.phase \notin {"error", "time"} => Served' = Served \ {t}
    BY <1>3 DEF Served
  <1>5. /\ r.phase = "time" /\ r.fs # "ok" => Failing' = Failing \cup {t}
        /\ ~(r.phase = "time" /\ r.fs # "ok") => Failing' = Failing \ {t}
    BY <1>3 DEF Failing
  <1>6. Cardinality(Served) \in Nat /\ Cardinality(Failing) \in Nat
    BY <1>2, FS_CardinalityType
  <1>7. /\ Cardinality(Served \cup {t}) = IF t \in Served THEN Cardinality(Served) ELSE Cardinality(Served) + 1
        /\ Cardinality(Served \ {t}) = IF t \in Served THEN Cardinality(Served) - 1 ELSE Cardinality(Served)
    BY <1>2, FS_AddElement, FS_RemoveElement, Zenon
  <1>8. /\ Cardinality(Failing \cup {t}) = IF t \in Failing THEN Cardinality(Failing) ELSE Cardinality(Failing) + 1
        /\ Cardinality(Failing \ {t}) = IF t \in Failing THEN Cardinality(Failing) - 1 ELSE Cardinality(Failing)
    BY <1>2, FS_AddElement, FS_RemoveElement, Zenon
  <1> QED
    BY <1>4, <1>5, <1>6, <1>7, <1>8, Zenon

\* The phase of an operation changes.
LEMMA PhaseChange ==
  ASSUME NEW o \in Op, NEW x \in Phases
  PROVE  LET r == [o EXCEPT !.phase = x]
         IN  /\ r \in Op /\ r.phase = x /\ r.name = o.name /\ r.err = o.err
             /\ r.fs = o.fs /\ r.span = o.span
  BY Zenon DEF Op

\* A step of an operation that is served keeps the invariant if its own part is in order
\* and the counters are.
LEMMA OperationStep ==
  ASSUME IInv, NEW t \in Threads, NEW r \in Op, op' = [op EXCEPT ![t] = r], Running,
         op[t].phase # "idle" \/ Unserved, UNCHANGED <<setup, mountVars>>,
         unrecognized' \in Attribute, counter' \in [Metrics -> Int], ch' \in Int, held' = held,
         lat' \in [recorded : Int, dropped : Int], done' \in [replies : Int, errors : Int],
         r.phase = "idle" => r = NoOp, r.phase # "idle" => r.name # "",
         r.phase \in {"count", "error", "time"} =>
            /\ ~r.span
            /\ r.fs = "ok" <=> r.err = {} \/ ("clobbered" \in r.err /\ ~config.preconditionErrors)
            /\ "clobbered" \in r.err => r.fs \in {"ok", "ESTALE"},
         r.phase = "error" => r.fs # "ok",
         Counted'
  PROVE  IInv'
  <1> USE DEF IInv
  <1>1. /\ UNCHANGED <<kind, config, otel, pc, outcome, parent, exit, conn, handler>>
        /\ op'[t] = r /\ \A u \in Threads \ {t} : op'[u] = op[u]
    BY Zenon DEF setup, mountVars, TypeOK
  <1>2. TypeOK'
    BY <1>1, ZenonT(40) DEF TypeOK
  <1>3. pc \notin {"config", "log", "metrics", "start", "handle", "shutdown", "unjoined"}
    BY Zenon DEF Sequence, Unserved
  <1>4. Sequence'
    BY <1>1, <1>3, Zenon DEF Sequence, Running
  <1>5. ASSUME NEW u \in Threads PROVE Operation(u)'
    <2>1. CASE u = t
      <3>1. op'[u] = r
        BY <1>1, <2>1, Zenon
      <3>2. op'[u].phase \in {"count", "error", "time"} => ~op'[u].span
        BY <3>1, Zenon
      <3> QED
        <4>1. op'[u].phase = "idle" => op'[u] = NoOp
          BY <3>1
        <4>2. op'[u].phase # "idle" => op'[u].name # ""
          BY <3>1, Zenon
        <4>3. op'[u].phase = "error" => op'[u].fs # "ok"
          BY <3>1, Zenon
        <4>4. NoOp' = NoOp
          BY Zenon DEF NoOp
        <4> HIDE DEF NoOp
        <4> QED
          BY <3>2, <4>1, <4>2, <4>3, <4>4, Zenon DEF Operation
    <2>2. CASE u # t
      BY <1>1, <2>2, Zenon DEF Operation
    <2> QED
      BY <2>1, <2>2, Zenon
  <1>6. RepliesFaithful'
    BY <1>1, ZenonT(40) DEF RepliesFaithful
  <1>7. Exported'
    BY <1>1, Zenon DEF Exported, Orderly, Running
  <1>8. Fresh'
    BY <1>1, <1>3, Zenon DEF Fresh, Early
  <1> QED
    BY <1>2, <1>4, <1>5, <1>6, <1>7, <1>8, Zenon

\* The kernel sends an operation.
LEMMA KernelSendsIInv ==
  ASSUME IInv, NEW t \in Threads, KernelSends(t) PROVE IInv'
  <1>1. PICK o \in kind.ops :
           op' = [op EXCEPT ![t] = [phase |-> "work", name |-> o, err |-> {}, fs |-> "ok",
                                    span |-> config.tracingMode # ""]]
    BY Zenon DEF KernelSends
  <1> DEFINE r == [phase |-> "work", name |-> o, err |-> {}, fs |-> "ok", span |-> config.tracingMode # ""]
  <1>2. o \in FsOps \cup OtherOps /\ o # ""
    BY KindsOK, Zenon DEF IInv, TypeOK, FsOps, OtherOps
  <1>3. r \in Op /\ r.phase = "work" /\ r.name = o
    BY <1>2, Zenon DEF Op, Phases, Errnos
  <1> HIDE DEF r
  <1>4. op' = [op EXCEPT ![t] = r] /\ op[t].phase = "idle"
    BY <1>1, Zenon DEF r, KernelSends
  <1>5. UNCHANGED <<counter, unrecognized, ch, held, lat, done>> /\ UNCHANGED <<setup, mountVars>>
    BY Zenon DEF KernelSends, metricVars
  <1>6. Counted'
    <2>1. t \notin Served /\ t \notin Failing
      BY <1>4 DEF Served, Failing
    <2>2. Cardinality(Served') = Cardinality(Served) /\ Cardinality(Failing') = Cardinality(Failing)
      BY <1>3, <1>4, <2>1, Moves, Zenon DEF IInv
    <2>3. Busy' = Busy
      BY <1>5 DEF Busy
    <2> QED
      BY <1>5, <2>2, <2>3, Zenon DEF IInv, Counted, setup
  <1> QED
    BY <1>2, <1>3, <1>4, <1>5, <1>6, OperationStep, Zenon DEF IInv, TypeOK, KernelSends

\* The file system reports what it does: no count of operations or errors changes.
LEMMA ReportsKeep ==
  ASSUME TypeOK, NEW what \in Reports
  PROVE  /\ Reported(what) \in [n : [Metrics -> Int], odd : Attribute]
         /\ Reported(what).n["ops"] = counter["ops"] /\ Reported(what).n["errors"] = counter["errors"]
  <1> DEFINE C == [n : [Metrics -> Int], odd : Attribute]
             Same(c) == c \in C /\ c.n["ops"] = counter["ops"] /\ c.n["errors"] = counter["errors"]
  <1>1. Same(Counters)
    BY DEF TypeOK, Counters
  <1>2. ASSUME NEW c, Same(c), NEW metric \in Metrics \ {"ops", "errors"}, NEW d \in BOOLEAN,
               NEW a \in Attribute, NEW inc \in Nat
        PROVE  Same(Add(c, metric, d, a, inc))
    <2>1. "ops" \in Metrics \ {metric} /\ "errors" \in Metrics \ {metric}
      BY DEF Metrics
    <2> QED
      BY <1>2, <2>1, AddCounts
  <1>3. /\ {"Sequential", "Unknown", "Random", "insufficient_memory", "opened", "OTHER_ERRORS"} \subseteq Attribute
        /\ {"reads", "bytes", "hits", "fallbacks", "readers", "retries"} \subseteq Metrics \ {"ops", "errors"}
    BY DEF Metrics, Attribute, ReadTypes
  <1> HIDE DEF Same
  <1>4. \A x \in {"Sequential", "Unknown"} : Same(CaptureGCSReadMetrics(Counters, x, 2))
    <2> SUFFICES ASSUME NEW x \in {"Sequential", "Unknown"} PROVE Same(CaptureGCSReadMetrics(Counters, x, 2))
      OBVIOUS
    <2>1. Same(GcsReadCount(Counters, 1, x))
      <3>1. (x \in ReadTypes \cup {"Unknown"}) \in BOOLEAN /\ x \in Attribute
        BY <1>3
      <3> QED
        BY <1>1, <1>2, <1>3, <3>1, Zenon DEF GcsReadCount
    <2>2. Same(GcsDownloadBytesCount(GcsReadCount(Counters, 1, x), 2, x))
      <3>1. (x \in ReadTypes \cup {"Buffered"}) \in BOOLEAN /\ x \in Attribute
        BY <1>3
      <3> QED
        BY <1>2, <1>3, <2>1, <3>1, Zenon DEF GcsDownloadBytesCount
    <2> QED
      BY <2>2 DEF CaptureGCSReadMetrics
  <1>5. Same(FileCacheReadCount(Counters, 1, "Random"))
    BY <1>1, <1>2, <1>3, Zenon DEF FileCacheReadCount, ReadTypes
  <1>6. Same(FallbackTriggerCount(Counters, 1, "insufficient_memory"))
    BY <1>1, <1>2, <1>3, Zenon DEF FallbackTriggerCount
  <1>7. Same(GcsReaderCount(Counters, 1, "opened"))
    BY <1>1, <1>2, <1>3, Zenon DEF GcsReaderCount
  <1>8. Same(GcsRetryCount(Counters, 1, "OTHER_ERRORS"))
    BY <1>1, <1>2, <1>3, Zenon DEF GcsRetryCount
  <1>9. Same(Reported(what))
    <2>1. CASE what = "read"
      BY <1>4, <2>1 DEF Reported
    <2>2. CASE what = "unknown"
      BY <1>4, <2>2 DEF Reported
    <2>3. CASE what = "cached"
      BY <1>5, <2>3 DEF Reported
    <2>4. CASE what = "fallback"
      BY <1>6, <2>4 DEF Reported
    <2>5. CASE what = "reader"
      BY <1>7, <2>5 DEF Reported
    <2>6. CASE what = "retry"
      BY <1>8, <2>6 DEF Reported
    <2> QED
      BY <2>1, <2>2, <2>3, <2>4, <2>5, <2>6 DEF Reports
  <1> QED
    BY <1>9 DEF Same

\* An operation reports what it read, cached or retried: no reply is counted by that.
LEMMA ReportsWorkIInv ==
  ASSUME IInv, NEW t \in Threads, ReportsWork(t) PROVE IInv'
  <1>1. PICK what \in kind.reports : Store(Reported(what))
    BY DEF ReportsWork
  <1>2. what \in Reports
    BY KindsOK DEF IInv, TypeOK
  <1>3. /\ counter' \in [Metrics -> Int] /\ unrecognized' \in Attribute
        /\ counter'["ops"] = counter["ops"] /\ counter'["errors"] = counter["errors"]
        /\ ~otel => counter' = counter
    <2>1. CASE otel
      BY <1>1, <1>2, <2>1, ReportsKeep DEF Store, IInv
    <2>2. CASE ~otel
      BY <1>1, <2>2 DEF Store, IInv, TypeOK
    <2> QED
      BY <2>1, <2>2
  <1> DEFINE r == [op[t] EXCEPT !.phase = "worked"]
  <1>4. r \in Op /\ r.phase = "worked" /\ r.name = op[t].name
    <2>1. op[t] \in Op /\ "worked" \in Phases
      BY DEF IInv, TypeOK, Phases
    <2> QED
      BY <2>1, PhaseChange
  <1>5. op' = [op EXCEPT ![t] = r] /\ op[t].phase = "work" /\ Running
    BY DEF ReportsWork
  <1> HIDE DEF r
  <1>6. UNCHANGED <<ch, held, lat, done>> /\ UNCHANGED <<setup, mountVars>>
    BY DEF ReportsWork
  <1>7. Counted'
    <2>1. t \notin Served /\ t \notin Failing
      BY <1>5 DEF Served, Failing
    <2>2. Cardinality(Served') = Cardinality(Served) /\ Cardinality(Failing') = Cardinality(Failing)
      BY <1>4, <1>5, <2>1, Moves, Zenon DEF IInv
    <2>3. Busy' = Busy
      BY <1>6 DEF Busy
    <2> QED
      BY <1>3, <1>6, <2>2, <2>3, Zenon DEF IInv, Counted, setup
  <1>8. r.name # ""
    BY <1>4, <1>5, Zenon DEF IInv, Operation
  <1> QED
    BY <1>3, <1>4, <1>5, <1>6, <1>7, <1>8, OperationStep, Zenon DEF IInv, TypeOK

\* The file system returns, and its error is mapped.
LEMMA ReturnsIInv ==
  ASSUME IInv, NEW t \in Threads, Returns(t) PROVE IInv'
  <1>1. PICK e \in kind.errs :
           op' = [op EXCEPT ![t] = [phase |-> "count", name |-> @.name, err |-> e,
                                    fs |-> errno(e, config.preconditionErrors), span |-> FALSE]]
    BY Zenon DEF Returns
  <1> DEFINE f == errno(e, config.preconditionErrors)
             r == [phase |-> "count", name |-> op[t].name, err |-> e, fs |-> f, span |-> FALSE]
  <1>2. e \subseteq STRING
    BY KindsOK, SMTT(30) DEF IInv, TypeOK
  <1>3. /\ f \in Errnos
        /\ f = "ok" <=> e = {} \/ ("clobbered" \in e /\ ~config.preconditionErrors)
        /\ "clobbered" \in e => f \in {"ok", "ESTALE"}
    BY <1>2, ErrnoFaithful
  <1>4. op' = [op EXCEPT ![t] = r] /\ op[t].phase \in {"work", "worked"} /\ Running
    BY <1>1, Zenon DEF Returns, IInv, TypeOK
  <1> HIDE DEF f
  <1>5. /\ r \in Op /\ r.phase = "count" /\ r.name = op[t].name /\ r.err = e /\ r.fs = f /\ r.span = FALSE
    <2>1. op[t] \in Op
      BY DEF IInv, TypeOK
    <2> QED
      BY <1>2, <1>3, <2>1, Zenon DEF Op, Phases
  <1> HIDE DEF r
  <1>6. UNCHANGED <<counter, unrecognized, ch, held, lat, done>> /\ UNCHANGED <<setup, mountVars>>
    BY DEF Returns, metricVars
  <1>7. Counted'
    <2>1. t \notin Served /\ t \notin Failing
      BY <1>4 DEF Served, Failing
    <2>2. Cardinality(Served') = Cardinality(Served) /\ Cardinality(Failing') = Cardinality(Failing)
      BY <1>4, <1>5, <2>1, Moves, Zenon DEF IInv
    <2>3. Busy' = Busy
      BY <1>6 DEF Busy
    <2> QED
      BY <1>6, <2>2, <2>3, Zenon DEF IInv, Counted, setup
  <1>8. r.name # ""
    BY <1>4, <1>5, Zenon DEF IInv, Operation
  <1> QED
    BY <1>3, <1>4, <1>5, <1>6, <1>7, <1>8, OperationStep, Zenon DEF IInv, TypeOK

\* The attribute an operation is counted under is one the counters declare.
LEMMA FsOpDeclared ==
  ASSUME IInv, NEW t \in Threads, op[t].phase # "idle"
  PROVE  FsOp(op[t].name) \in FsOps
  <1>1. op[t] \in Op /\ op[t].name # ""
    BY Zenon DEF IInv, TypeOK, Operation
  <1>2. op[t].name \in FsOps \cup OtherOps
    BY <1>1, Zenon DEF Op
  <1>3. "Others" \in FsOps
    BY DEF FsOps
  <1> QED
    BY <1>2, <1>3 DEF FsOp

\* recordOp counts the operation, ...
LEMMA CountsOpIInv ==
  ASSUME IInv, NEW t \in Threads, CountsOp(t) PROVE IInv'
  <1> DEFINE x == IF op[t].fs = "ok" THEN "time" ELSE "error"
             r == [op[t] EXCEPT !.phase = x]
             o == FsOp(op[t].name)
  <1>1. op' = [op EXCEPT ![t] = r] /\ op[t].phase = "count" /\ Running /\ op[t] \in Op
    BY DEF CountsOp, IInv, TypeOK
  <1>2. o \in FsOps /\ o \in Attribute
    BY <1>1, FsOpDeclared, Zenon DEF Attribute
  <1>3. /\ counter' \in [Metrics -> Int] /\ unrecognized' \in Attribute
        /\ otel => counter'["ops"] = counter["ops"] + 1 /\ counter'["errors"] = counter["errors"]
        /\ ~otel => counter' = counter
    <2>1. Store([Counters EXCEPT !.n["ops"] = @ + 1])
      BY <1>2 DEF CountsOp, FsOpsCount, Add
    <2>2. /\ otel => counter' = [counter EXCEPT !["ops"] = @ + 1]
          /\ ~otel => counter' = counter
          /\ unrecognized' = unrecognized
      BY <2>1 DEF Store, Counters
    <2>3. counter \in [Metrics -> Int] /\ unrecognized \in Attribute
      BY DEF IInv, TypeOK
    <2>4. "ops" \in Metrics /\ "errors" \in Metrics
      BY DEF Metrics
    <2> QED
      BY <2>2, <2>3, <2>4
  <1>4. /\ r \in Op /\ r.phase = x /\ r.name = op[t].name /\ r.err = op[t].err
        /\ r.fs = op[t].fs /\ r.span = op[t].span
    <2>1. x \in Phases
      BY DEF Phases
    <2> QED
      BY <1>1, <2>1, PhaseChange
  <1> HIDE DEF r
  <1>5. UNCHANGED <<ch, held, lat, done>> /\ UNCHANGED <<setup, mountVars>>
    BY DEF CountsOp
  <1>6. Counted'
    <2>1. t \notin Served /\ t \notin Failing
      BY <1>1 DEF Served, Failing
    <2>2. x \in {"error", "time"} /\ (x = "time" => op[t].fs = "ok")
      OBVIOUS
    <2>3. Cardinality(Served') = Cardinality(Served) + 1 /\ Cardinality(Failing') = Cardinality(Failing)
          /\ Cardinality(Served) \in Nat
      BY <1>1, <1>4, <2>1, <2>2, Moves, Zenon DEF IInv
    <2>4. Busy' = Busy
      BY <1>5 DEF Busy
    <2>5. done \in [replies : Int, errors : Int]
      BY DEF IInv, TypeOK
    <2> QED
      BY <1>3, <1>5, <2>3, <2>4, <2>5 DEF IInv, Counted, setup, NewOTelMetrics
  <1>7. /\ r.phase \in {"error", "time"} /\ r.name # "" /\ ~r.span
        /\ r.fs = "ok" <=> r.err = {} \/ ("clobbered" \in r.err /\ ~config.preconditionErrors)
        /\ "clobbered" \in r.err => r.fs \in {"ok", "ESTALE"}
        /\ r.phase = "error" => r.fs # "ok"
    BY <1>1, <1>4, Zenon DEF IInv, Operation, RepliesFaithful
  <1> HIDE DEF x, o
  <1> QED
    BY <1>1, <1>3, <1>4, <1>5, <1>6, <1>7, OperationStep, Zenon DEF IInv, TypeOK

\* ... then its error, ...
LEMMA CountsErrorIInv ==
  ASSUME IInv, NEW t \in Threads, CountsError(t) PROVE IInv'
  <1> DEFINE r == [op[t] EXCEPT !.phase = "time"]
             o == FsOp(op[t].name)
             cat == categorize(op[t].fs)
             declared == cat \in Categories /\ o \in FsOps
  <1>1. op' = [op EXCEPT ![t] = r] /\ op[t].phase = "error" /\ Running /\ op[t] \in Op
    BY DEF CountsError, IInv, TypeOK
  <1>2. declared /\ declared \in BOOLEAN /\ cat \in Attribute
    <2>1. o \in FsOps
      BY <1>1, FsOpDeclared
    <2>2. cat \in {"FILE_EXISTS", "IO_ERROR", "INTERRUPT_ERROR", "NO_FILE_OR_DIR", "PERM_ERROR", "MISC_ERROR"}
      BY DEF categorize
    <2> QED
      BY <2>1, <2>2, Zenon DEF Attribute, Categories
  <1>3. /\ counter' \in [Metrics -> Int] /\ unrecognized' \in Attribute
        /\ otel => counter'["ops"] = counter["ops"] /\ counter'["errors"] = counter["errors"] + 1
        /\ ~otel => counter' = counter
    <2>1. Store([Counters EXCEPT !.n["errors"] = @ + 1])
      BY <1>2 DEF CountsError, FsOpsErrorCount, Add
    <2>2. /\ otel => counter' = [counter EXCEPT !["errors"] = @ + 1]
          /\ ~otel => counter' = counter
          /\ unrecognized' = unrecognized
      BY <2>1 DEF Store, Counters
    <2>3. counter \in [Metrics -> Int] /\ unrecognized \in Attribute
      BY DEF IInv, TypeOK
    <2>4. "ops" \in Metrics /\ "errors" \in Metrics
      BY DEF Metrics
    <2> QED
      BY <2>2, <2>3, <2>4
  <1>4. /\ r \in Op /\ r.phase = "time" /\ r.name = op[t].name /\ r.err = op[t].err
        /\ r.fs = op[t].fs /\ r.span = op[t].span
    <2>1. "time" \in Phases
      BY DEF Phases
    <2> QED
      BY <1>1, <2>1, PhaseChange
  <1> HIDE DEF r, declared, cat, o
  <1>5. UNCHANGED <<ch, held, lat, done>> /\ UNCHANGED <<setup, mountVars>>
    BY DEF CountsError
  <1>6. Counted'
    <2>1. t \in Served /\ t \notin Failing /\ op[t].fs # "ok"
      BY <1>1, Zenon DEF Served, Failing, IInv, Operation
    <2>2. Cardinality(Served') = Cardinality(Served) /\ Cardinality(Failing') = Cardinality(Failing) + 1
          /\ Cardinality(Failing) \in Nat
      BY <1>1, <1>4, <2>1, Moves, Zenon DEF IInv
    <2>3. Busy' = Busy
      BY <1>5 DEF Busy
    <2>4. done \in [replies : Int, errors : Int]
      BY DEF IInv, TypeOK
    <2> QED
      BY <1>3, <1>5, <2>2, <2>3, <2>4 DEF IInv, Counted, setup, NewOTelMetrics
  <1>7. /\ r.name # "" /\ ~r.span
        /\ r.fs = "ok" <=> r.err = {} \/ ("clobbered" \in r.err /\ ~config.preconditionErrors)
        /\ "clobbered" \in r.err => r.fs \in {"ok", "ESTALE"}
    BY <1>1, <1>4, Zenon DEF IInv, Operation, RepliesFaithful
  <1> QED
    BY <1>1, <1>3, <1>4, <1>5, <1>6, <1>7, OperationStep, Zenon DEF IInv, TypeOK

\* ... then its latency, which is queued or dropped, and the kernel has its reply.
LEMMA FsOpsLatencyIInv ==
  ASSUME IInv, NEW t \in Threads, FsOpsLatency(t) PROVE IInv'
  <1>1. op' = [op EXCEPT ![t] = NoOp] /\ op[t].phase = "time" /\ Running
    BY SMTT(30) DEF FsOpsLatency
  <1>2. NoOp \in Op /\ NoOp.phase = "idle"
    BY DEF NoOp, Op, Phases, Errnos
  <1>3. UNCHANGED <<counter, unrecognized, held>> /\ UNCHANGED <<setup, mountVars>>
    BY DEF FsOpsLatency
  <1>4. lat \in [recorded : Int, dropped : Int] /\ done \in [replies : Int, errors : Int] /\ ch \in Int
    BY DEF IInv, TypeOK
  <1>5. /\ lat' \in [recorded : Int, dropped : Int] /\ ch' \in Int
        /\ otel => lat'.recorded + lat'.dropped + ch' = lat.recorded + lat.dropped + ch + 1
        /\ ~otel => ch' = ch
    <2>1. CASE otel /\ ch < config.metricBuffer
      BY <1>4, <2>1 DEF FsOpsLatency
    <2>2. CASE otel /\ ~(ch < config.metricBuffer)
      BY <1>4, <2>2 DEF FsOpsLatency
    <2>3. CASE ~otel
      BY <1>4, <2>3 DEF FsOpsLatency
    <2> QED
      BY <2>1, <2>2, <2>3
  <1>6. /\ done' \in [replies : Int, errors : Int] /\ done'.replies = done.replies + 1
        /\ op[t].fs = "ok" => done'.errors = done.errors
        /\ op[t].fs # "ok" => done'.errors = done.errors + 1
    <2>1. done' = [replies |-> done.replies + 1,
                   errors |-> IF op[t].fs = "ok" THEN done.errors ELSE done.errors + 1]
      BY DEF FsOpsLatency
    <2> QED
      BY <1>4, <2>1
  <1> HIDE DEF NoOp
  <1>7. Counted'
    <2>1. t \in Served /\ (op[t].fs # "ok" <=> t \in Failing)
      BY <1>1 DEF Served, Failing
    <2>2. /\ Cardinality(Served') = Cardinality(Served) - 1
          /\ t \in Failing => Cardinality(Failing') = Cardinality(Failing) - 1
          /\ t \notin Failing => Cardinality(Failing') = Cardinality(Failing)
          /\ Cardinality(Served) \in Nat /\ Cardinality(Failing) \in Nat
      BY <1>1, <1>2, <2>1, Moves, Zenon DEF IInv
    <2>3. Busy' = Busy
      BY <1>3, SMTT(30) DEF Busy
    <2>4. Cardinality(Busy) \in Nat
      BY KindsOK, FS_Subset, FS_CardinalityType, SMTT(30) DEF Busy
    <2>5. otel => counter'["ops"] = done'.replies + Cardinality(Served')
      BY <1>3, <1>4, <1>6, <2>2, SMTT(30) DEF IInv, Counted
    <2>6. otel => counter'["errors"] = done'.errors + Cardinality(Failing')
      BY <1>3, <1>4, <1>6, <2>1, <2>2, SMTT(30) DEF IInv, Counted
    <2>7. otel => done'.replies = lat'.recorded + lat'.dropped + ch' + Cardinality(Busy')
      BY <1>4, <1>5, <1>6, <2>3, <2>4 DEF IInv, Counted
    <2>8. ~otel => counter' = NewOTelMetrics' /\ ch' = 0
      BY <1>3, <1>5, Zenon DEF IInv, Counted, NewOTelMetrics
    <2>9. otel' = otel
      BY <1>3 DEF setup
    <2> QED
      BY <2>5, <2>6, <2>7, <2>8, <2>9, Zenon DEF Counted
  <1> QED
    BY <1>1, <1>2, <1>3, <1>5, <1>6, <1>7, OperationStep, Zenon DEF IInv, TypeOK

\* A worker takes a latency from the channel, or records the one it has.
LEMMA WorkerIInv ==
  ASSUME IInv, NEW w \in Workers, Working(w) PROVE IInv'
  <1> USE DEF IInv
  <1>1. UNCHANGED <<setup, mountVars, counter, unrecognized, seen, op, done>> /\ Running
    BY DEF Working, WorkerTakes, WorkerRecords
  <1>2. lat \in [recorded : Int, dropped : Int] /\ ch \in Int /\ held \in [Workers -> BOOLEAN]
    BY DEF TypeOK
  <1>3. IsFiniteSet(Busy) /\ Cardinality(Busy) \in Nat
    BY KindsOK, FS_Subset, FS_CardinalityType DEF Busy
  <1>4. /\ lat' \in [recorded : Int, dropped : Int] /\ ch' \in Int /\ held' \in [Workers -> BOOLEAN]
        /\ lat'.recorded + lat'.dropped + ch' + Cardinality(Busy')
              = lat.recorded + lat.dropped + ch + Cardinality(Busy)
    <2>1. CASE WorkerTakes(w)
      <3>1. held' = [held EXCEPT ![w] = TRUE] /\ ch' = ch - 1 /\ lat' = lat /\ ~held[w]
        BY <2>1 DEF WorkerTakes
      <3>2. Busy' = Busy \cup {w} /\ w \notin Busy
        BY <1>2, <3>1 DEF Busy
      <3>3. Cardinality(Busy \cup {w}) = Cardinality(Busy) + 1
        BY <1>3, <3>2, FS_AddElement
      <3> QED
        BY <1>2, <1>3, <3>1, <3>2, <3>3
    <2>2. CASE WorkerRecords(w)
      <3>1. held' = [held EXCEPT ![w] = FALSE] /\ ch' = ch /\ held[w]
            /\ lat' = [lat EXCEPT !.recorded = @ + 1]
        BY <2>2 DEF WorkerRecords
      <3>2. Busy' = Busy \ {w} /\ w \in Busy
        BY <1>2, <3>1 DEF Busy
      <3>3. Cardinality(Busy \ {w}) = Cardinality(Busy) - 1
        BY <1>3, <3>2, FS_RemoveElement, SMTT(30)
      <3>4. lat' \in [recorded : Int, dropped : Int] /\ lat'.recorded = lat.recorded + 1
            /\ lat'.dropped = lat.dropped
        BY <1>2, <3>1
      <3> QED
        BY <1>2, <1>3, <3>1, <3>2, <3>3, <3>4
    <2> QED
      BY <2>1, <2>2 DEF Working
  <1>5. UNCHANGED <<kind, config, otel, pc, outcome, parent, exit, conn, handler>>
    BY <1>1, SMTT(30) DEF setup, mountVars
  <1>6. TypeOK' /\ Sequence'
    BY <1>1, <1>4, <1>5, SMTT(30) DEF TypeOK, Sequence, Running
  <1>7. Counted'
    <2>1. ~otel => ch' = 0
      BY DEF Working, WorkerTakes, WorkerRecords, Counted
    <2>2. Served' = Served /\ Failing' = Failing /\ NewOTelMetrics' = NewOTelMetrics
      BY <1>1, Zenon DEF Served, Failing, NewOTelMetrics
    <2>3. otel => done'.replies = lat'.recorded + lat'.dropped + ch' + Cardinality(Busy')
      BY <1>1, <1>4 DEF Counted
    <2> QED
      BY <1>1, <1>5, <2>1, <2>2, <2>3, Zenon DEF Counted
  <1>8. (\A t \in Threads : Operation(t)') /\ RepliesFaithful' /\ Exported'
    BY <1>1, <1>5, Zenon DEF Operation, RepliesFaithful, Exported, Orderly
  <1>9. Fresh'
    <2>1. pc \notin Early
      BY DEF Fresh, Working, WorkerTakes, WorkerRecords
    <2> QED
      BY <1>5, <2>1, Zenon DEF Fresh, Early
  <1> QED
    BY <1>6, <1>7, <1>8, <1>9

\* The exporter and the log read what the counters keep.
LEMMA ReadersIInv ==
  ASSUME IInv, ExporterReads \/ logUnrecognizedAttribute PROVE IInv'
  <1>1. UNCHANGED <<setup, mountVars, counter, ch, held, lat, op, done>> /\ Running
        /\ unrecognized' \in Attribute
    BY Zenon DEF ExporterReads, logUnrecognizedAttribute, IInv, TypeOK, Attribute
  <1>2. UNCHANGED <<kind, config, otel, pc, outcome, parent, exit, conn, handler>>
    BY <1>1, SMTT(30) DEF setup, mountVars
  <1>3. TypeOK' /\ Sequence' /\ exit' \notin Orderly
    BY <1>1, <1>2 DEF IInv, TypeOK, Sequence, Running, Orderly
  <1> QED
    BY <1>1, <1>2, <1>3, QuietStep

\* The last export: Join has waited for every operation, so the counters are the replies.
LEMMA ShutdownIInv ==
  ASSUME IInv, Shutdown PROVE IInv'
  <1> USE DEF IInv
  <1>1. /\ UNCHANGED <<kind, config, otel, outcome, parent, conn, handler, counter, unrecognized, ch, held, lat,
                       op, done>>
        /\ exit' \in Orderly /\ pc' = "ended" /\ pc \in {"shutdown", "unjoined"} /\ Running
        /\ otel => seen'.ops = counter["ops"] /\ seen'.errors = counter["errors"]
    BY SMTT(30) DEF Shutdown, setup, Orderly
  <1>2. TypeOK' /\ Sequence'
    BY <1>1, SMTT(30) DEF TypeOK, Sequence, Running, Places, Orderly
  <1>3. Served = {} /\ Failing = {}
    BY <1>1 DEF Sequence, Served, Failing
  <1>4. otel => counter["ops"] = done.replies /\ counter["errors"] = done.errors
    <2>1. Cardinality({}) = 0 /\ done \in [replies : Int, errors : Int]
      BY FS_EmptySet, SMTT(30) DEF TypeOK
    <2> QED
      BY <1>3, <2>1 DEF Counted
  <1>5. Exported' /\ Fresh'
    BY <1>1, <1>4 DEF Exported, Sequence, Fresh, Early
  <1>6. Counted' /\ RepliesFaithful' /\ \A t \in Threads : Operation(t)'
    BY <1>1, Zenon DEF Counted, Served, Failing, Busy, RepliesFaithful, Operation, NewOTelMetrics
  <1> QED
    BY <1>2, <1>5, <1>6

\* Every step preserves the invariant.
LEMMA NextIInv == IInv /\ [Next]_vars => IInv'
  <1> SUFFICES ASSUME IInv, [Next]_vars PROVE IInv'
    OBVIOUS
  <1>1. CASE Mounting
    BY <1>1, PreRunIInv, SetupMetricsIInv, MountingIInv DEF Mounting
  <1>2. CASE Ending
    BY <1>2, EndingIInv, ShutdownIInv DEF Ending
  <1>3. CASE Signal \/ UserUnmounts \/ ExporterReads \/ logUnrecognizedAttribute
    BY <1>3, EndingIInv, ReadersIInv
  <1>4. CASE \E t \in Threads : Serving(t) \/ KernelSends(t) \/ ReportsWork(t) \/ handlePanic(t)
    BY <1>4, ReturnsIInv, CountsOpIInv, CountsErrorIInv, FsOpsLatencyIInv, KernelSendsIInv,
       ReportsWorkIInv, EndingIInv DEF Serving
  <1>5. CASE \E w \in Workers : Working(w)
    BY <1>5, WorkerIInv, SMTT(30)
  <1>6. CASE UNCHANGED vars
    <2>1. UNCHANGED <<kind, config, otel, pc, outcome, parent, exit, conn, handler, op, counter,
                      unrecognized, ch, held, seen, lat, done>>
      BY <1>6, SMTT(30) DEF vars, setup, mountVars, metricVars
    <2>2. TypeOK' /\ Sequence'
      BY <2>1 DEF IInv, TypeOK, Sequence, Running
    <2> QED
      BY <2>1, <2>2, QuietStep, Zenon
  <1> QED
    BY <1>1, <1>2, <1>3, <1>4, <1>5, <1>6 DEF Next

-----------------------------------------------------------------------------
(* Theorems.                                                               *)

\* The invariant holds throughout.
THEOREM Invariance == Spec => []IInv
  <1>1. Init => IInv
    BY InitIInv
  <1>2. IInv /\ [Next]_vars => IInv'
    BY NextIInv
  <1> QED
    BY <1>1, <1>2, PTL DEF Spec

\* errno and mapError: whatever an operation fails with, and however the process was
\* configured, its reply is success only if it succeeded or the user asked for it.
THEOREM RepliesAreFaithful == Spec => []RepliesFaithful
  <1>1. IInv => RepliesFaithful
    BY SMTT(30) DEF IInv
  <1> QED
    BY <1>1, Invariance, PTL

\* recordOp, FsOpsLatency and the shutdown: for any number of operations and workers,
\* nothing is counted twice or lost, and a process that ends in order exported it all.
THEOREM RepliesAreMeasured == Spec => []Measured
  <1>1. IInv => Measured
    <2> SUFFICES ASSUME IInv PROVE Measured
      OBVIOUS
    <2>1. exit \in Orderly => \A t \in Threads : op[t].phase = "idle" /\ ~op[t].span
      <3>1. ASSUME exit \in Orderly, NEW t \in Threads PROVE op[t] = NoOp /\ op[t].phase = "idle"
        BY <3>1, Zenon DEF IInv, Exported, Operation
      <3>2. NoOp.span = FALSE
        BY SMTT(30) DEF NoOp
      <3> HIDE DEF NoOp
      <3> QED
        BY <3>1, <3>2
    <2> QED
      BY <2>1, Zenon DEF IInv, Measured, Counted, Served, Failing, Busy, Exported, Orderly
  <1> QED
    BY <1>1, Invariance, PTL

\* Mount and callListRecursive: success is reported only for a file system that is
\* mounted and listed, and never taken back, whatever fails and whoever signals.
THEOREM OutcomeIsHonest == Spec => []OutcomeHonest
  <1>1. IInv => OutcomeHonest
    BY DEF IInv, Sequence, OutcomeHonest
  <1> QED
    BY <1>1, Invariance, PTL

\* Mount, PersistentPreRunE: whatever the flags, the config file each time it is read, the
\* profile and the machine, what is mounted is settled, and what is reported is true.
THEOREM OutcomeIsTrue == Spec => []OutcomeTrue
  <1>1. Init => Setup
    BY Zenon DEF Init, Setup
  <1>2. Setup /\ [Next]_vars => Setup'
    BY NextSetup
  <1>3. Setup /\ OutcomeHonest => OutcomeTrue
    BY DEF Setup, OutcomeTrue
  <1> QED
    BY <1>1, <1>2, <1>3, OutcomeIsHonest, PTL DEF Spec
=============================================================================
