--------------------------- MODULE FastStatBucket ---------------------------
(***************************************************************************)
(* The stat cache in front of a bucket: storage/caching/fast_stat_bucket.go*)
(* over cache/metadata/stat_cache.go.  A request of the bucket is a call   *)
(* in three steps: what the wrapper does to the cache before it calls GCS  *)
(* (Send), what GCS does (Serve), what the wrapper does to the cache with  *)
(* the answer (Fill).  The mutex of the wrapper is held within Send and    *)
(* within Fill, never across them.                                         *)
(*                                                                         *)
(* A directory holds, for every name n, at most the objects "n" (file),    *)
(* "n/" (dir) and "n/x" (child, standing for all below "n/").  The pair of *)
(* generation and meta-generation of an object is one number, its version: *)
(* a later write or update of a name has the larger pair.  An entry can    *)
(* leave the cache at any time, by its expiration or by the LRU.           *)
(***************************************************************************)
EXTENDS Naturals, FiniteSets

CONSTANTS Names,       \* the names in the directory
          Slots,       \* who may have a call to the bucket in progress
          MaxVersion   \* bound on mode.versions

VARIABLES mode,         \* the bucket and the mount: hierarchical is
                        \* BucketType().Hierarchical, faults says whether a
                        \* call may fail ("yes" or "no"), versions bounds the
                        \* versions handed out
          objects,      \* GCS: the live version of every key, 0 for none
          folders,      \* GCS: the folders of a hierarchical bucket
          clock,        \* GCS: the last version handed out
          stat,         \* the stat cache
          call,         \* the calls in progress
          taint         \* history: why an entry may differ from the bucket


Keys == {"file", "dir", "child"} \X Names
Key(kind, n) == <<kind, n>>
Below(n) == {Key("dir", n), Key("child", n)}   \* the keys with the prefix "n/"

\* An entry of the stat cache: a record of an object, of a folder, or of
\* neither (negative).
NoEntry == [kind |-> "none", version |-> 0]
Negative == [kind |-> "negative", version |-> 0]
Folder == [kind |-> "folder", version |-> 0]
Object(v) == [kind |-> "object", version |-> v]
Entries == [kind : {"none", "negative", "folder", "object"}, version : 0..MaxVersion]

Ops == {"stat", "get folder", "read", "list", "children", "page", "create", "replace", "copy",
        "move", "delete", "create folder", "delete folder", "rename folder"}
Statuses == {"none", "ok", "not found", "refused", "error"}
Found == [Keys -> 0..MaxVersion]
Nothing == [k \in Keys |-> 0]

\* An idle slot, and a call: its operation, its source and destination, the
\* directory whose lock its caller holds, the version it insists on (0: any),
\* how far it is, and its answer: a status, versions of objects and folders.
NoCall == [op |-> "none", key |-> {}, to |-> {}, under |-> {}, gen |-> 0, pc |-> "idle",
           status |-> "none", found |-> Nothing, dirs |-> {}]
InFlight(s) == call[s].pc # "idle"
----------------------------------------------------------------------------
\* Keys a call reads or changes.
Touches(c) ==
  CASE c.op \in {"copy", "move"} -> c.key \cup c.to
    [] c.op = "rename folder" -> UNION {Below(k[2]) : k \in c.key \cup c.to}
    [] c.op \in {"list", "children"} -> UNION {Below(k[2]) : k \in c.key}
    [] c.op = "page" -> UNION {{Key("file", k[2])} \cup Below(k[2]) : k \in c.key}
    [] OTHER -> c.key

\* A call that may yet change the bucket.
Writing(c) ==
  /\ c.pc = "sent"
  /\ c.op \notin {"stat", "get folder", "read", "list", "children", "page"}

Busy(k) == \E s \in Slots : InFlight(s) /\ k \in Touches(call[s])

\* History.  The calls of ts on the key k overlap with that of slot s: were
\* the callers under the lock of the same directory?
Overlaps(s, k, ts) ==
  {IF call[s].under # {} /\ call[t].under = call[s].under THEN "locked" ELSE "unlocked" :
     t \in {u \in ts \ {s} : k \in Touches(call[u])}}

\* An entry that is gone, with no call left to bring it back, is forgotten.
Settled(tnt) ==
  LET touched == UNION {Touches(call'[s]) : s \in {t \in Slots : call'[t].pc # "idle"}}
  IN taint' = [k \in Keys |-> IF stat'[k].kind = "none" /\ k \notin touched THEN {} ELSE tnt[k]]
----------------------------------------------------------------------------
\* metadata.shouldReplace
shouldReplace(v, existing) == existing.kind # "object" \/ v >= existing.version

\* statCacheBucketView.Insert, for the objects of a listing or the one object
\* of another answer
Insert(cache, found) ==
  [k \in Keys |-> IF found[k] # 0 /\ shouldReplace(found[k], cache[k]) THEN Object(found[k]) ELSE cache[k]]

\* InsertFolder: no comparison with the entry that is there
InsertFolder(cache, dirs) ==
  [k \in Keys |-> IF k[1] = "dir" /\ k[2] \in dirs THEN Folder ELSE cache[k]]

\* AddNegativeEntry and AddNegativeEntryForFolder
AddNegativeEntry(cache, ks) == [k \in Keys |-> IF k \in ks THEN Negative ELSE cache[k]]

\* Erase and EraseEntriesWithGivenPrefix
Erase(cache, ks) == [k \in Keys |-> IF k \in ks THEN NoEntry ELSE cache[k]]
----------------------------------------------------------------------------
\* Mutant: a move keeps the record of its source.
Invalidated_MoveKeepsSource(op, key, to) ==
  CASE op \in {"create", "replace", "create folder"} -> key
    [] op \in {"copy", "move"} -> to
    [] OTHER -> {}

\* The keys a request throws away before it calls GCS.
Invalidated(op, key, to) ==
  CASE op \in {"create", "replace", "create folder"} -> key
    [] op = "copy" -> to
    [] op = "move" -> key \cup to
    [] OTHER -> {}

\* StatObject, GetFolder: a hit answers without a call.
Hit(op, key) == op \in {"stat", "get folder"} /\ \E k \in key : stat[k].kind # "none"
HitAnswer(op, key) ==
  LET e == stat[CHOOSE k \in key : TRUE]
  IN IF op = "stat" /\ e.kind = "object" THEN [status |-> "ok", found |-> [k \in Keys |-> IF k \in key THEN e.version ELSE 0], dirs |-> {}]
     ELSE IF op = "get folder" /\ e.kind = "folder" THEN [status |-> "ok", found |-> Nothing, dirs |-> {k[2] : k \in key}]
     ELSE [status |-> "not found", found |-> Nothing, dirs |-> {}]

Sent(op, key, to, under, gen) ==
  [op |-> op, key |-> key, to |-> to, under |-> under, gen |-> gen,
   pc |-> IF Hit(op, key) THEN "done" ELSE "sent",
   status |-> IF Hit(op, key) THEN HitAnswer(op, key).status ELSE "none",
   found |-> IF Hit(op, key) THEN HitAnswer(op, key).found ELSE Nothing,
   dirs |-> IF Hit(op, key) THEN HitAnswer(op, key).dirs ELSE {}]

\* The caller of the slots ss takes their answers and sends the calls of cs,
\* a function from slots.
Exchange(ss, cs) ==
  /\ call' = [s \in Slots |-> IF s \in DOMAIN cs THEN cs[s] ELSE IF s \in ss THEN NoCall ELSE call[s]]
  /\ stat' = Erase(stat, UNION {Invalidated(cs[s].op, cs[s].key, cs[s].to) : s \in DOMAIN cs})
  /\ Settled(taint)
  /\ UNCHANGED <<mode, objects, folders, clock>>

----------------------------------------------------------------------------
\* GCS.  What a call finds or leaves there when it succeeds.
Only(k, v) == [Nothing EXCEPT ![k] = v]
Reply(status, found, dirs) == [status |-> status, found |-> found, dirs |-> dirs, objects |-> objects, folders |-> folders]
Refusal(status) == Reply(status, Nothing, {})
Wrote(objs, flds, k) == [status |-> "ok", found |-> Only(k, objs[k]), dirs |-> {}, objects |-> objs, folders |-> flds]

\* An object below "n/" makes the folder in a hierarchical bucket.
FoldersWith(k) == IF mode.hierarchical = "yes" /\ k[1] # "file" THEN folders \cup {k[2]} ELSE folders

StatReply(k) == IF objects[k] = 0 THEN Refusal("not found") ELSE Reply("ok", Only(k, objects[k]), {})
GetFolderReply(n) == IF n \in folders THEN Reply("ok", Nothing, {n}) ELSE Refusal("not found")

\* ListObjects with the prefix "n/": the first object only, or a whole page;
\* and the page of the directory itself that holds the name n.
ListReply(n) ==
  Reply("ok", IF objects[Key("dir", n)] # 0 THEN Only(Key("dir", n), objects[Key("dir", n)])
              ELSE Only(Key("child", n), objects[Key("child", n)]), {})
ChildrenReply(n) == Reply("ok", [k \in Keys |-> IF k \in Below(n) THEN objects[k] ELSE 0], {})
PageReply(n) ==
  Reply("ok", [k \in Keys |-> IF k \in {Key("file", n), Key("dir", n)} THEN objects[k] ELSE 0],
        IF mode.hierarchical = "yes" THEN folders \cap {n}
        ELSE IF \E k \in Below(n) : objects[k] # 0 THEN {n} ELSE {})

\* The three kinds of write: only over nothing, only over something, over
\* anything.
CreateReply(k) == IF objects[k] # 0 THEN Refusal("refused")
                  ELSE Wrote([objects EXCEPT ![k] = clock + 1], FoldersWith(k), k)
ReplaceReply(k) == IF objects[k] = 0 THEN Refusal("not found")
                   ELSE Wrote([objects EXCEPT ![k] = clock + 1], folders, k)
CopyReply(k, to) == IF objects[k] = 0 THEN Refusal("not found")
                    ELSE Wrote([objects EXCEPT ![to] = clock + 1], FoldersWith(to), to)
MoveReply(k, to) == IF objects[k] = 0 THEN Refusal("not found")
                    ELSE Wrote([objects EXCEPT ![to] = clock + 1, ![k] = 0], FoldersWith(to), to)
DeleteReply(k) == IF objects[k] = 0 THEN Refusal("not found")
                  ELSE [Refusal("ok") EXCEPT !.objects[k] = 0]

CreateFolderReply(n) == IF n \in folders THEN Refusal("refused")
                        ELSE [Refusal("ok") EXCEPT !.folders = folders \cup {n}, !.dirs = {n}]
DeleteFolderReply(n) == IF n \notin folders THEN Refusal("not found")
                        ELSE IF \E k \in Below(n) : objects[k] # 0 THEN Refusal("refused")
                        ELSE [Refusal("ok") EXCEPT !.folders = folders \ {n}]
RenameFolderReply(n, m) ==
  IF n \notin folders \/ m \in folders THEN Refusal("refused")
  ELSE [Refusal("ok") EXCEPT !.folders = (folders \ {n}) \cup {m}, !.dirs = {m},
          !.objects = [k \in Keys |-> IF k \in Below(m) THEN objects[Key(k[1], n)]
                                      ELSE IF k \in Below(n) THEN 0 ELSE objects[k]]]

Success(c) ==
  LET k == CHOOSE x \in c.key : TRUE
      to == CHOOSE x \in c.to : TRUE
  IN CASE c.gen # 0 /\ objects[k] # c.gen -> Refusal("refused")
       [] c.op \in {"stat", "read"} -> StatReply(k)
       [] c.op = "get folder" -> GetFolderReply(k[2])
       [] c.op = "list" -> ListReply(k[2])
       [] c.op = "children" -> ChildrenReply(k[2])
       [] c.op = "page" -> PageReply(k[2])
       [] c.op = "create" -> CreateReply(k)
       [] c.op = "replace" -> ReplaceReply(k)
       [] c.op = "copy" -> CopyReply(k, to)
       [] c.op = "move" -> MoveReply(k, to)
       [] c.op = "delete" -> DeleteReply(k)
       [] c.op = "create folder" -> CreateFolderReply(k[2])
       [] c.op = "delete folder" -> DeleteFolderReply(k[2])
       [] c.op = "rename folder" -> RenameFolderReply(k[2], to[2])

\* Keys whose object or folder differs between the bucket now and next.
Changed(r) ==
  {k \in Keys : r.objects[k] # objects[k] \/ (k[1] = "dir" /\ (k[2] \in r.folders) # (k[2] \in folders))}

\* History.  RenameFolder brings objects to names below the destination that
\* nothing invalidates; it invalidates the source only when it is answered.
Brought(c) == IF c.op = "rename folder" THEN {Key("child", k[2]) : k \in c.to} ELSE {}
Unanswered(c) == IF c.op = "rename folder" THEN {"lost"} ELSE {}

\* A call takes effect and is answered, or fails, after or before it took
\* effect.
Effect(s, r, lost) ==
  /\ clock < mode.versions \/ \A k \in Keys : r.objects[k] <= clock
  /\ objects' = r.objects
  /\ folders' = r.folders
  /\ clock' = IF \E k \in Keys : r.objects[k] > clock THEN clock + 1 ELSE clock
  /\ Settled([k \in Keys |->
                taint[k] \cup (IF k \in Changed(r) THEN Overlaps(s, k, {u \in Slots : InFlight(u)}) \cup lost ELSE {})
                         \cup (IF k \in Changed(r) \cap Brought(call[s]) THEN {"prefix"} ELSE {})])

Serve(s) ==
  LET r == Success(call[s])
  IN /\ call[s].pc = "sent"
     /\ stat' = stat
     /\ \/ /\ call' = [call EXCEPT ![s].pc = "served", ![s].status = r.status, ![s].found = r.found, ![s].dirs = r.dirs]
           /\ Effect(s, r, {})
        \/ /\ mode.faults = "yes" /\ Changed(r) # {}
           /\ call' = [call EXCEPT ![s].pc = "served", ![s].status = "error"]
           /\ Effect(s, r, Unanswered(call[s]))
        \/ /\ mode.faults = "yes"
           /\ call' = [call EXCEPT ![s].pc = "served", ![s].status = "error"]
           /\ Settled(taint)
           /\ UNCHANGED <<objects, folders, clock>>
     /\ UNCHANGED mode
----------------------------------------------------------------------------
\* What the wrapper does to the cache with the answer.
Listed(c) == [k \in Keys |-> IF mode.hierarchical = "yes" /\ k[1] = "dir" THEN 0 ELSE c.found[k]]

Filled(c) ==
  CASE c.op = "stat" /\ c.status = "not found" -> AddNegativeEntry(stat, c.key)
    [] c.op = "get folder" /\ c.status = "not found" -> AddNegativeEntry(stat, c.key)
    [] c.op = "read" -> IF c.status = "not found" THEN Erase(stat, c.key) ELSE stat
    [] c.op \in {"delete", "delete folder"} ->
         IF c.status = "ok" THEN AddNegativeEntry(stat, c.key) ELSE Erase(stat, c.key)
    [] c.status # "ok" -> stat
    [] c.op \in {"list", "children"} -> Insert(stat, Listed(c))
    [] c.op = "page" -> InsertFolder(Insert(stat, Listed(c)), IF mode.hierarchical = "yes" THEN c.dirs ELSE {})
    [] c.op \in {"get folder", "create folder"} -> InsertFolder(stat, c.dirs)
    [] c.op = "rename folder" -> InsertFolder(Erase(stat, UNION {Below(k[2]) : k \in c.key}), c.dirs)
    [] OTHER -> Insert(stat, c.found)

Fill(s) ==
  /\ call[s].pc = "served"
  /\ stat' = Filled(call[s])
  /\ call' = [call EXCEPT ![s].pc = "done"]
  /\ Settled([k \in Keys |-> taint[k] \cup (IF k \in Touches(call[s]) THEN Overlaps(s, k, {u \in Slots : Writing(call[u])}) ELSE {})])
  /\ UNCHANGED <<mode, objects, folders, clock>>

\* An entry expires or is evicted.
Drop(k) ==
  /\ stat[k].kind # "none"
  /\ stat' = Erase(stat, {k})
  /\ call' = call
  /\ Settled(taint)
  /\ UNCHANGED <<mode, objects, folders, clock>>

\* Another client of the bucket creates, replaces or deletes an object.
OtherClient(k) ==
  /\ \E r \in {CreateReply(k), ReplaceReply(k), DeleteReply(k)} :
       /\ r.status = "ok"
       /\ clock < mode.versions \/ r.objects[k] = 0
       /\ objects' = r.objects
       /\ folders' = r.folders
       /\ clock' = IF r.objects[k] = 0 THEN clock ELSE clock + 1
       /\ stat' = stat
       /\ call' = call
       /\ Settled([j \in Keys |-> taint[j] \cup (IF j \in Changed(r) THEN {"remote"} ELSE {})])
  /\ UNCHANGED mode
----------------------------------------------------------------------------
Agrees(k) ==
  CASE stat[k].kind = "none" -> TRUE
    [] stat[k].kind = "negative" -> objects[k] = 0 /\ ~(k[1] = "dir" /\ k[2] \in folders)
    [] stat[k].kind = "folder" -> k[2] \in folders
    [] stat[k].kind = "object" -> objects[k] = stat[k].version
=============================================================================
