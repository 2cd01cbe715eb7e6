---------------------------- MODULE BucketStack -----------------------------
(***************************************************************************)
(* The stack of buckets a mount talks to, as                               *)
(* internal/gcsx/bucket_manager.go builds it.  From the callers down:      *)
(*   ratelimit/throttled_bucket.go   waits for a token before a call;      *)
(*   gcsx/prefix_bucket.go           maps names into the mounted directory;*)
(*   storage/debug_bucket.go         logs the start and end of a request;  *)
(*   monitor/bucket.go               counts requests and readers;          *)
(*   storage/dummy_io_bucket.go      answers reads itself (kind.dummy);    *)
(*   storage/bucket_handle.go over the service, with the retries of        *)
(*   storage_handle.go and storageutil/retry.go, or the in-memory bucket   *)
(*   of storage/fake (bucket.fake).                                        *)
(* Callers, a paged listing, the garbage collector of temporary objects    *)
(* (gcsx/garbage_collect.go) and the call that tries the bucket when it is *)
(* set up run concurrently.  An attempt at the service may be lost before  *)
(* or after it takes effect, or arrive late, after its successor.          *)
(*                                                                         *)
(* The in-memory bucket is used by its callers as its code allows: what    *)
(* works on its slices without the lock (Unlocked, and the check a writer  *)
(* makes when it is written to) is asked for when no other request is in   *)
(* progress.  What two such requests do to the slices at the same time is  *)
(* a data race, and no part of this model.                                 *)
(***************************************************************************)
EXTENDS FakeBucket

CONSTANTS
    Kinds,       \* configurations: see KindFields
    LimitN       \* the N of ChooseLimiterCapacity (50 in the code)

VARIABLES
    kind,      \* the configuration and the bounds of this behaviour
    up,        \* SetUpBucket: "no", "yes" or "failed"
    bucket,    \* the objects and folders at the bottom
    call,      \* per client: the call in progress
    done,      \* auxiliary, per client: the request served last, and its raw answer
    late,      \* attempts given up by the client and still on their way
    lim,       \* the token buckets of the two throttles
    now,       \* the clock, in ticks
    passed,    \* auxiliary: when the throttles let tokens through
    log,       \* the debug bucket: next request id, requests logged as open
    meter,     \* the monitoring bucket's counters
    reader,    \* per client: an open reader
    writer,    \* per client: an open writer, as a request to the bottom
    lister,    \* the paged listing
    gc,        \* the garbage collector
    calls,     \* bound: calls still to come from each plain caller
    faults,    \* bound: lost attempts and cancelled waits still to come
    once,      \* auxiliary: ids of requests that have taken effect
    again      \* auxiliary: a conditional request took effect twice

stackVars == <<call, done, late, lim, passed, log, meter, once, again>>
ioVars == <<reader, writer>>
vars == <<kind, up, bucket, now, lister, gc, calls, faults, stackVars, ioVars>>

\* callers: the plain callers; fake, hns, zonal: the bucket; objects, folders: what
\* it holds at first; prefix: of the mount; dummy; trace: the debug bucket is
\* there; rate, window: of both throttles
\* (rate 0: none); reqs: what callers ask; ls: the listing's request; tmp: the
\* prefix collected (Empty: no collector); calls, faults, ticks: bounds.
KindFields == {"callers", "fake", "hns", "zonal", "objects", "folders", "prefix", "dummy", "trace",
               "rate", "window", "reqs", "ls", "tmp", "calls", "faults", "ticks"}

ASSUME KindsOK == LimitN \in Nat \ {0} /\ \A k \in Kinds : DOMAIN k = KindFields

Mount == "mount"
Lister == "ls"
GCList == "gclist"
GCDelete == "gcdelete"
Callers == UNION {k.callers : k \in Kinds}
Clients == Callers \cup {Mount, Lister, GCList, GCDelete}

NoCall == [phase |-> "idle", req |-> NoRequest, low |-> NoRequest, at |-> 0, id |-> 0,
           ans |-> NoAnswer]
NotYet == [req |-> NoRequest, ans |-> NoAnswer]
NoReader == [open |-> FALSE, left |-> 0, id |-> 0, want |-> 0, at |-> 0]

--------------------------------------------------------------------------------
(* ratelimit: ChooseLimiterCapacity and the token bucket.                       *)

MaxCapacity == 8      \* bound: math.MaxUint64; a rate that is infinite is above it
CapacityOfWindow(rate, window) ==                    \* mutant: N forgotten
    IF window * rate \in 1..(MaxCapacity - 1) THEN window * rate ELSE 0
\* The capacity, or zero for the error: an illegal rate or window, or a capacity that
\* is less than one token or does not fit its type.
ChooseLimiterCapacity(rate, window) ==
    LET capacity == (window * rate) \div LimitN
    IN  IF rate > 0 /\ window > 0 /\ capacity \in 1..(MaxCapacity - 1) THEN capacity ELSE 0

Capacity == ChooseLimiterCapacity(kind.rate, kind.window)
setUpRateLimitingFails == kind.rate > 0 /\ Capacity = 0

\* rate.Limiter: reserve n tokens, possibly of the future, and the time when they
\* are there.
ReserveAt(x, n) ==
    LET owed == n - lim[x].tokens
    IN  IF owed <= 0 THEN now ELSE now + (owed + kind.rate - 1) \div kind.rate
Reserved(x, n) == [lim EXCEPT ![x] = [tokens |-> @.tokens - n, last |-> ReserveAt(x, n)]]

\* A wait that is cancelled gives back the tokens no later wait counts on.
Returned(x, n, at) ==
    LET back == n - (lim[x].last - at) * kind.rate
    IN  IF back <= 0 THEN lim
        ELSE [lim EXCEPT ![x] = [tokens |-> @.tokens + back,
                                 last |-> IF @.last = at /\ at - n \div kind.rate >= now
                                          THEN at - n \div kind.rate ELSE @.last]]

Tick ==
    /\ kind.rate > 0 /\ now < kind.ticks
    /\ now' = now + 1
    /\ lim' = [x \in DOMAIN lim |->
                  [lim[x] EXCEPT !.tokens = IF @ + kind.rate > Capacity THEN Capacity
                                            ELSE @ + kind.rate]]
    /\ UNCHANGED <<kind, up, bucket, lister, gc, calls, faults, call, done, late, passed, log,
                   meter, once, again, ioVars>>

\* The operations of throttledBucket that wait for the operation throttle: not
\* the end of an upload, so that no data is lost to the limiter, and not the
\* multi-range downloader.
Throttled(r) == kind.rate > 0 /\ r.op \notin {"Finalize", "Flush", "MRD"}

--------------------------------------------------------------------------------
(* gcsx/prefix_bucket.go: requests go down with the prefix in front of their    *)
(* names, answers come up without it.  A writer already has its full name.      *)

wrappedName(n) == Concat(kind.prefix, n)
localName(n) == TrimPrefix(n, kind.prefix)

\* Mutant: a move leaves the prefix off its destination.
PrefixSourceOnly(r) ==
    IF r.op \in {"Finalize", "Flush"} THEN r ELSE [r EXCEPT !.name = wrappedName(@)]

\* ListObjects puts the prefix before the query's prefix and leaves the token;
\* ComposeObjects renames every source.
PrefixRequest(r) ==
    CASE r.op \in {"Finalize", "Flush"} -> r
      [] r.op \in {"Copy", "Move", "RenameFolder"} ->
            [r EXCEPT !.name = wrappedName(@), !.dst = wrappedName(@)]
      [] r.op = "Compose" ->
            [r EXCEPT !.dst = wrappedName(@),
                      !.srcs = [i \in DOMAIN @ |-> [@[i] EXCEPT !.name = wrappedName(@)]]]
      [] OTHER -> [r EXCEPT !.name = wrappedName(@)]

PrefixAnswerObjectsOnly(r, a) ==        \* mutant: collapsed runs keep the prefix
    IF r.op = "List"
    THEN [a EXCEPT !.objs = [i \in DOMAIN @ |-> [@[i] EXCEPT !.name = localName(@)]]]
    ELSE IF a.err = "ok" THEN [a EXCEPT !.name = localName(@)] ELSE a

PrefixAnswer(r, a) ==
    IF r.op = "List"
    THEN [a EXCEPT !.objs = [i \in DOMAIN @ |-> [@[i] EXCEPT !.name = localName(@)]],
                   !.runs = [i \in DOMAIN @ |-> localName(@[i])]]
    ELSE IF a.err = "ok" THEN [a EXCEPT !.name = localName(@)] ELSE a

--------------------------------------------------------------------------------
(* storage/bucket_handle.go: what is asked of the service.                      *)

\* A precondition of metageneration zero is none at all for what creates, composes
\* or deletes an object; a generation zero of a source is the live one.
NoZero(x) == IF x = 0 THEN Nil ELSE x
HandleCreate(r) == [r EXCEPT !.meta = NoZero(@)]
HandleDelete(r) == [r EXCEPT !.gen = NoZero(@), !.meta = NoZero(@)]
HandleSource(r) == [r EXCEPT !.gen = NoZero(@)]
HandleUpdate(r) == [r EXCEPT !.gen = NoZero(@)]
HandleCompose(r) == [r EXCEPT !.meta = NoZero(@),
                              !.srcs = [i \in DOMAIN @ |-> [@[i] EXCEPT !.gen = NoZero(@)]]]

HandleRequest(r) ==
    CASE r.op \in {"Create", "ChunkWriter", "AppendableWriter", "Finalize", "Flush"} -> HandleCreate(r)
      [] r.op = "Compose" -> HandleCompose(r)
      [] r.op = "Delete" -> HandleDelete(r)
      [] r.op = "Update" -> HandleUpdate(r)
      [] r.op \in {"Copy", "Move", "NewReader", "MRD"} -> HandleSource(r)
      [] OTHER -> r

\* CreateAppendableObjectWriter takes over an object of a given generation at
\* exactly the offset asked for.
TakeOver(b, r) ==
    IF ~Found(b, r.name, r.gen) THEN Failed(b, "notfound")
    ELSE IF Len(Get(b, r.name).data) # r.lo THEN Failed(b, "offset")
    ELSE Done(b, Nothing)

\* storage/dummy_io_bucket.go: all but reads is passed on; a read needs a range that
\* is not empty, and is answered with zeros without asking the service.
Delegated(r) == ~(kind.dummy /\ r.op = "NewReader")
Zeros(n) == [i \in 1..n |-> 0]
DummyReader(b, r) ==
    IF r.lo = Nil \/ r.hi <= r.lo THEN Failed(b, "invalid")
    ELSE [Done(b, Nothing) EXCEPT !.ans.data = Zeros(r.hi - r.lo)]

Serve(b, r) ==
    IF ~Delegated(r) THEN DummyReader(b, r)
    ELSE IF b.fake THEN Apply(b, r)
    ELSE IF r.op = "AppendableWriter" THEN TakeOver(b, r)
    ELSE Apply(b, HandleRequest(r))

--------------------------------------------------------------------------------
(* A call through the stack.                                                    *)

Idle(c) == call[c].phase = "idle"

\* The debug bucket logs a request under a new id, and its end.
Begun == IF kind.trace THEN [next |-> log.next + 1, open |-> log.open \cup {log.next}] ELSE log
Ended(id) == [log EXCEPT !.open = @ \ {id}]

\* The monitoring bucket counts a request when it has been answered.
Counted(opened) == [meter EXCEPT !.requests = @ + 1, !.opened = IF opened THEN @ + 1 ELSE @]

\* The request goes down.
Down(c, r, low, at) ==
    /\ call' = [call EXCEPT ![c] = [NoCall EXCEPT !.phase = "sent", !.req = r, !.low = low,
                                                  !.id = log.next]]
    /\ log' = Begun
    /\ passed' = IF Throttled(r) THEN [passed EXCEPT !["op"] = Append(@, at)] ELSE passed

\* No other request is in progress that could meet this one without the lock.
Alone(c) == \A d \in Clients \ {c} : Idle(d)
Undisturbed(c, r) ==
    /\ Unlocked(bucket, r) => Alone(c)
    /\ \A d \in Clients \ {c} : ~Unlocked(bucket, call[d].req)

\* throttledBucket: reserve an operation token and wait for it, or go straight on.
Enter(c, r, low) ==
    /\ Idle(c) /\ Undisturbed(c, r)
    /\ lim' = IF Throttled(r) THEN Reserved("op", 1) ELSE lim
    /\ IF Throttled(r) /\ ReserveAt("op", 1) > now
       THEN /\ call' = [call EXCEPT ![c] = [NoCall EXCEPT !.phase = "wait", !.req = r, !.low = low,
                                                         !.at = ReserveAt("op", 1)]]
            /\ UNCHANGED <<log, passed>>
       ELSE Down(c, r, low, now)

\* The tokens are there.
Send(c) ==
    /\ call[c].phase = "wait" /\ call[c].at <= now
    /\ Down(c, call[c].req, call[c].low, call[c].at)
    /\ UNCHANGED <<kind, up, bucket, now, lister, gc, calls, faults, done, late, lim, meter, once,
                   again, ioVars>>

\* The answer is with the client; a plain caller goes on to its next call.
Return(c, a) ==
    [call EXCEPT ![c] = IF c \in kind.callers THEN NoCall
                        ELSE [NoCall EXCEPT !.phase = "answered", !.ans = a]]

\* The wait for the throttle ends early: the caller's context is cancelled.
WaitCancelled(c) ==
    /\ call[c].phase = "wait" /\ call[c].at > now /\ faults > 0
    /\ faults' = faults - 1
    /\ lim' = Returned("op", 1, call[c].at)
    /\ call' = Return(c, [NoAnswer EXCEPT !.err = "cancelled"])
    /\ UNCHANGED <<kind, up, bucket, now, lister, gc, calls, done, late, passed, log, meter,
                   once, again, ioVars>>

\* A request whose effect is tied to a state that the effect itself ends: the object
\* is of a generation, or (a generation of zero) there is none.
Target(r) == IF r.op = "Compose" THEN r.dst ELSE r.name
MustNotExist(r) == r.op \in {"Create", "Compose", "Finalize", "Flush"} /\ r.gen = 0
Conditional(r) ==
    \/ MustNotExist(r)
    \/ r.op \in {"Create", "Compose", "Finalize", "Flush", "Delete", "Move"} /\ r.gen > 0
    \/ r.op = "Update" /\ r.gen > 0 /\ r.meta # Nil

\* What Store promises: not the dummy reads, nor the taking over of an object.
Transparent(r) ==
    /\ Delegated(r)
    /\ ~bucket.fake => r.op # "AppendableWriter"

\* The bottom serves attempt m of client m.c: x is the bucket after it, and the answer.
\* Once an object is gone, a request that it must not exist may take effect anew.
TakeEffect(m, x) ==
    LET counted == ~bucket.fake /\ x.bkt # bucket /\ Conditional(m.low)
    IN  /\ bucket' = x.bkt
        /\ done' = IF Transparent(m.req) THEN [done EXCEPT ![m.c] = [req |-> m.req, ans |-> x.ans]]
                   ELSE done
        /\ lister' = [lister EXCEPT !.stay = @ \cap ToSet(Names(x.bkt.objects))]
        /\ once' = {k \in IF counted THEN once \cup {m} ELSE once :
                       MustNotExist(k.low) => Has(x.bkt, Target(k.low))}
        /\ again' = (again \/ (counted /\ m \in once))

Attempt(c) == [c |-> c, nr |-> IF c \in kind.callers THEN calls[c] ELSE 0, req |-> call[c].req,
               low |-> call[c].low]

\* bucketHandle.ListObjects without a limit goes on to the next page by itself.
MorePages(c, a) == ~bucket.fake /\ call[c].req.op = "List" /\ call[c].req.max = 0 /\ a.token # Empty

Served(c) ==
    /\ call[c].phase = "sent"
    /\ \E x \in {Serve(bucket, call[c].low)} :
          LET a == x.ans
              all == [a EXCEPT !.objs = call[c].ans.objs \o @, !.runs = call[c].ans.runs \o @]
          IN  /\ TakeEffect(Attempt(c), x)
              /\ call' = IF MorePages(c, a)
                         THEN [call EXCEPT ![c].ans = all, ![c].req.token = a.token,
                                           ![c].low.token = a.token]
                         ELSE [call EXCEPT ![c].phase = "replied", ![c].ans = all]
    /\ UNCHANGED <<kind, up, now, gc, calls, faults, late, lim, passed, log, meter, ioVars>>

\* The client library retries every operation, whether idempotent or not
\* (RetryAlways); ExecuteWithRetry does so for the folder operations.  The
\* attempt was lost on the way, or its answer was, or it is still under way.  (For
\* a listing, losing the answer is no different from losing the request.)
AttemptLost(c) ==
    /\ call[c].phase \in {"sent", "replied"} /\ ~bucket.fake /\ faults > 0
    /\ call[c].phase = "replied" => call[c].req.op # "List"
    /\ faults' = faults - 1
    /\ call' = [call EXCEPT ![c].phase = "retry",
                            ![c].ans = IF call[c].phase = "replied" THEN NoAnswer ELSE @]
    /\ late' \in IF call[c].phase = "sent" /\ call[c].req.op # "List"
                 THEN {late, late \cup {Attempt(c)}} ELSE {late}
    /\ UNCHANGED <<kind, up, bucket, now, lister, gc, calls, done, lim, passed, log, meter, once,
                   again, ioVars>>

Retry(c) ==
    /\ call[c].phase = "retry"
    /\ call' = [call EXCEPT ![c].phase = "sent"]
    /\ UNCHANGED <<kind, up, bucket, now, lister, gc, calls, faults, done, late, lim, passed, log,
                   meter, once, again, ioVars>>

\* The attempts or the budget are used up, or the caller's context is done.
GiveUp(c) ==
    /\ call[c].phase = "retry"
    /\ call' = [call EXCEPT ![c].phase = "replied", ![c].ans = [NoAnswer EXCEPT !.err = "unavailable"]]
    /\ UNCHANGED <<kind, up, bucket, now, lister, gc, calls, faults, done, late, lim, passed, log,
                   meter, once, again, ioVars>>

\* An attempt nobody waits for any more reaches the service.
LateAttempt ==
    \E m \in late : \E x \in {Serve(bucket, m.low)} :
        /\ late' = late \ {m}
        /\ TakeEffect(m, x)
        /\ UNCHANGED <<kind, up, now, gc, calls, faults, call, lim, passed, log, meter, ioVars>>

\* The answer comes up: counted, logged as finished (a reader when it is closed),
\* renamed; a reader and a writer are handed out open.
Answer(c) ==
    LET r == call[c].req
        a == PrefixAnswer(r, call[c].ans)
        opened == r.op = "NewReader" /\ a.err = "ok"
    IN  /\ call[c].phase = "replied"
        /\ call' = Return(c, a)
        /\ meter' = Counted(opened)
        /\ log' = IF opened THEN log ELSE Ended(call[c].id)
        /\ reader' = IF opened
                     THEN [reader EXCEPT ![c] = [NoReader EXCEPT !.open = TRUE, !.id = call[c].id,
                                                                 !.left = Len(a.data)]]
                     ELSE reader
        /\ writer' = IF r.op \in {"ChunkWriter", "AppendableWriter"} /\ a.err = "ok"
                     THEN [writer EXCEPT ![c] = [call[c].low EXCEPT !.data = <<>>]]
                     ELSE IF r.op \in {"Finalize", "Flush"} THEN [writer EXCEPT ![c] = NoRequest]
                     ELSE writer
        /\ done' = [done EXCEPT ![c] = NotYet]
        /\ UNCHANGED <<kind, up, bucket, now, lister, gc, calls, faults, late, lim, passed, once,
                       again>>

--------------------------------------------------------------------------------
(* Plain callers.                                                               *)

\* A template's precondition Seen is what the caller has just seen of the object.
Seen == -2
Instance(t) ==
    LET n == wrappedName(IF t.op = "Compose" THEN t.dst ELSE t.name)
    IN  [t EXCEPT !.gen = IF @ = Seen THEN (IF Has(bucket, n) THEN Get(bucket, n).gen ELSE 0) ELSE @,
                  !.meta = IF @ = Seen THEN (IF Has(bucket, n) THEN Get(bucket, n).meta ELSE Nil)
                           ELSE @]

\* fs.RmDir and fs.Rename delete a folder only when it is empty, and rename one
\* only to a name that is free.
Empties(n) == \A o \in ToSet(bucket.objects) : HasPrefix(o.name, n) => o.name = n
Allowed(r) ==
    /\ r.op = "DeleteFolder" =>
          /\ Empties(wrappedName(r.name))
          /\ \A f \in ToSet(bucket.folders) : HasPrefix(f, wrappedName(r.name)) => f = wrappedName(r.name)
    /\ r.op = "RenameFolder" =>
          \A n \in ToSet(bucket.folders) \cup ToSet(Names(bucket.objects)) :
             ~HasPrefix(n, wrappedName(r.dst))

CallerAsks(c) ==
    /\ c \in kind.callers /\ up = "yes" /\ calls[c] > 0
    /\ writer[c] = NoRequest /\ ~reader[c].open
    /\ \E t \in kind.reqs : Allowed(t) /\ Enter(c, Instance(t), PrefixRequest(Instance(t)))
    /\ calls' = [calls EXCEPT ![c] = @ - 1]
    /\ UNCHANGED <<kind, up, bucket, now, lister, gc, faults, done, late, meter, once,
                   again, ioVars>>

\* A write to an open writer: the in-memory one checks the preconditions first.
WriterAppends(c) ==
    /\ Idle(c) /\ writer[c] # NoRequest /\ writer[c].data = <<>>
    /\ bucket.fake => Alone(c)
    /\ writer' = IF bucket.fake /\ WriterWrite(bucket, writer[c]).ans.err # "ok"
                 THEN [writer EXCEPT ![c] = NoRequest]
                 ELSE [writer EXCEPT ![c].data = <<7>>]
    /\ UNCHANGED <<kind, up, bucket, now, lister, gc, calls, faults, stackVars, reader>>

\* FinalizeUpload or FlushPendingWrites: the request is the writer's own.
WriterEnds(c) ==
    /\ writer[c] # NoRequest /\ writer[c].data # <<>>
    /\ \E op \in {"Finalize", "Flush"} :
          LET low == [writer[c] EXCEPT !.op = op]
          IN  Enter(c, [low EXCEPT !.name = localName(@)], low)
    /\ UNCHANGED <<kind, up, bucket, now, lister, gc, calls, faults, done, late, meter,
                   once, again, ioVars>>

\* throttledReader.Read: no more than the capacity at a time, and the tokens are
\* taken before the bytes are read.
ReadLength == 3
ReadAsks(c) ==
    LET n == IF kind.rate > 0 /\ ReadLength > Capacity THEN Capacity ELSE ReadLength
    IN  /\ reader[c].open /\ reader[c].want = 0 /\ reader[c].left > 0
        /\ IF kind.rate > 0
           THEN /\ lim' = Reserved("egress", n)
                /\ reader' = [reader EXCEPT ![c].want = n, ![c].at = ReserveAt("egress", n)]
           ELSE lim' = lim /\ reader' = [reader EXCEPT ![c].want = n, ![c].at = now]
        /\ UNCHANGED <<kind, up, bucket, now, lister, gc, calls, faults, call, done, late, passed,
                       log, meter, once, again, writer>>

ReadGets(c) ==
    LET n == IF reader[c].want < reader[c].left THEN reader[c].want ELSE reader[c].left
    IN  /\ reader[c].open /\ reader[c].want > 0 /\ reader[c].at <= now
        /\ reader' = [reader EXCEPT ![c].want = 0, ![c].at = 0, ![c].left = @ - n]
        /\ meter' = [meter EXCEPT !.bytes = @ + n]
        /\ passed' = IF kind.rate > 0
                     THEN [passed EXCEPT !["egress"] = @ \o [i \in 1..n |-> reader[c].at]] ELSE passed
        /\ UNCHANGED <<kind, up, bucket, now, lister, gc, calls, faults, call, done, late, lim, log,
                       once, again, writer>>

ReaderClosesUnlogged(c) ==              \* mutant: the end of the request is not logged
    /\ reader[c].open /\ reader[c].want = 0
    /\ meter' = [meter EXCEPT !.closed = @ + 1]
    /\ reader' = [reader EXCEPT ![c] = NoReader]
    /\ UNCHANGED <<kind, up, bucket, now, lister, gc, calls, faults, call, done, late, lim, passed,
                   log, once, again, writer>>

\* Close is counted when it succeeds, and ends the request in the log either way.
ReaderCloses(c) ==
    /\ reader[c].open /\ reader[c].want = 0
    /\ \/ faults' = faults /\ meter' = [meter EXCEPT !.closed = @ + 1]
       \/ faults > 0 /\ faults' = faults - 1 /\ meter' = meter
    /\ reader' = [reader EXCEPT ![c] = NoReader]
    /\ log' = Ended(reader[c].id)
    /\ UNCHANGED <<kind, up, bucket, now, lister, gc, calls, call, done, late, lim, passed, once,
                   again, writer>>

--------------------------------------------------------------------------------
(* SetUpBucket tries the bucket with a listing of one object.                   *)

MountAsks ==
    /\ up = "no" /\ ~setUpRateLimitingFails
    /\ LET r == [NoRequest EXCEPT !.op = "List", !.max = 1] IN Enter(Mount, r, PrefixRequest(r))
    /\ UNCHANGED <<kind, up, bucket, now, lister, gc, calls, faults, done, late, meter,
                   once, again, ioVars>>

\* No token bucket can keep to the limit: the bucket is not even tried.
MountRefused ==
    /\ up = "no" /\ setUpRateLimitingFails
    /\ up' = "failed"
    /\ UNCHANGED <<kind, bucket, now, lister, gc, calls, faults, stackVars, ioVars>>

MountReturns ==
    /\ call[Mount].phase = "answered"
    /\ up' = IF call[Mount].ans.err = "ok" THEN "yes" ELSE "failed"
    /\ call' = [call EXCEPT ![Mount] = NoCall]
    /\ UNCHANGED <<kind, bucket, now, lister, gc, calls, faults, done, late, lim, passed, log, meter,
                   once, again, ioVars>>

--------------------------------------------------------------------------------
(* A listing in pages, as dir.go and storageutil.ListPrefix make them: until    *)
(* there is no continuation token.  stay: auxiliary, the names present ever     *)
(* since it began.                                                              *)

ListerAsks ==
    /\ kind.ls # NoRequest /\ up = "yes" /\ lister.pc \in {"new", "more"}
    /\ LET r == [kind.ls EXCEPT !.token = lister.token] IN Enter(Lister, r, PrefixRequest(r))
    /\ lister' = [lister EXCEPT !.pc = "page",
                                !.stay = IF lister.pc = "new" THEN ToSet(Names(bucket.objects)) ELSE @]
    /\ UNCHANGED <<kind, up, bucket, now, gc, calls, faults, done, late, meter, once,
                   again, ioVars>>

ListerReturns ==
    LET a == call[Lister].ans
    IN  /\ call[Lister].phase = "answered"
        /\ lister' = [lister EXCEPT
              !.pc = IF a.err # "ok" THEN "failed" ELSE IF a.token = Empty THEN "end" ELSE "more",
              !.token = a.token,
              !.objs = @ \o Names(a.objs), !.runs = @ \o a.runs]
        /\ call' = [call EXCEPT ![Lister] = NoCall]
        /\ UNCHANGED <<kind, up, bucket, now, gc, calls, faults, done, late, lim, passed, log, meter,
                       once, again, ioVars>>

--------------------------------------------------------------------------------
(* gcsx/garbage_collect.go: three goroutines joined by two channels, in a group *)
(* that is cancelled by the first error.                                        *)

ChannelSize == 1      \* bound: the 100 of the two channels
GCIdle == [run |-> FALSE, left |-> 1, list |-> "end", token |-> Empty, objs |-> <<>>, names |-> <<>>,
           closed1 |-> TRUE, filter |-> "end", stale |-> <<>>, closed2 |-> TRUE, del |-> "end",
           cancelled |-> FALSE, wrong |-> FALSE]

gcRest == <<kind, up, bucket, now, lister, calls, faults, done, late, meter, once, again, ioVars>>
gcCalls == <<call, lim, log, passed>>

\* now.Sub(o.Updated) >= stalenessThreshold, and whether the group is cancelled.
AnyAge(o) == TRUE                       \* mutant
Stale(o) == o.updated = "old"
NeverDone == FALSE                      \* mutant
CtxDone == gc.cancelled

\* The ticker fires: garbageCollectOnce starts its goroutines.
GCStart ==
    /\ kind.tmp # Empty /\ up = "yes" /\ ~gc.run /\ gc.left > 0
    /\ gc' = [GCIdle EXCEPT !.run = TRUE, !.left = gc.left - 1, !.list = "ask", !.closed1 = FALSE,
                            !.filter = "run", !.closed2 = FALSE, !.del = "run", !.wrong = gc.wrong]
    /\ UNCHANGED <<gcRest, gcCalls>>

GCListAsks ==
    /\ gc.list = "ask"
    /\ LET r == [NoRequest EXCEPT !.op = "List", !.name = kind.tmp, !.token = gc.token]
       IN  Enter(GCList, r, PrefixRequest(r))
    /\ gc' = [gc EXCEPT !.list = "wait"]
    /\ UNCHANGED gcRest

GCListReturns ==
    LET a == call[GCList].ans
    IN  /\ call[GCList].phase = "answered"
        /\ gc' = IF a.err = "ok" THEN [gc EXCEPT !.list = "emit", !.objs = a.objs, !.token = a.token]
                 ELSE [gc EXCEPT !.list = "end", !.closed1 = TRUE, !.cancelled = TRUE]
        /\ call' = [call EXCEPT ![GCList] = NoCall]
        /\ UNCHANGED <<gcRest, lim, log, passed>>

\* Pass one object on, or stop: the listing is over, or the group is cancelled.
GCEmits ==
    /\ gc.list = "emit"
    /\ \/ /\ gc.objs # <<>> /\ Len(gc.names) < ChannelSize
          /\ gc' = [gc EXCEPT !.objs = Tail(@), !.names = Append(@, Head(gc.objs))]
       \/ /\ gc.objs # <<>> /\ CtxDone
          /\ gc' = [gc EXCEPT !.list = "end", !.closed1 = TRUE, !.objs = <<>>]
       \/ /\ gc.objs = <<>>
          /\ gc' = IF gc.token = Empty THEN [gc EXCEPT !.list = "end", !.closed1 = TRUE]
                   ELSE [gc EXCEPT !.list = "ask"]
    /\ UNCHANGED <<gcRest, gcCalls>>

\* Only objects last updated before the threshold go on to be deleted.
GCFilters ==
    /\ gc.filter = "run"
    /\ \/ /\ gc.names # <<>> /\ ~Stale(Head(gc.names))
          /\ gc' = [gc EXCEPT !.names = Tail(@)]
       \/ /\ gc.names # <<>> /\ Stale(Head(gc.names)) /\ Len(gc.stale) < ChannelSize
          /\ gc' = [gc EXCEPT !.names = Tail(@), !.stale = Append(@, Head(gc.names).name)]
       \/ /\ gc.names # <<>> /\ Stale(Head(gc.names)) /\ CtxDone
          /\ gc' = [gc EXCEPT !.names = Tail(@), !.filter = "end", !.closed2 = TRUE]
       \/ /\ gc.names = <<>> /\ gc.closed1
          /\ gc' = [gc EXCEPT !.filter = "end", !.closed2 = TRUE]
    /\ UNCHANGED <<gcRest, gcCalls>>

\* Delete the live generation of the next name.  wrong: auxiliary, an object was
\* asked to be deleted that is not a stale temporary one.
GCDeleteAsks ==
    /\ gc.del = "run" /\ gc.stale # <<>>
    /\ LET n == Head(gc.stale)
           r == [NoRequest EXCEPT !.op = "Delete", !.name = n, !.gen = 0]
           o == wrappedName(n)
       IN  /\ Enter(GCDelete, r, PrefixRequest(r))
           /\ gc' = [gc EXCEPT !.del = "wait", !.stale = Tail(@),
                        !.wrong = @ \/ ~HasPrefix(n, kind.tmp)
                                    \/ (Has(bucket, o) /\ Get(bucket, o).updated # "old")]
    /\ UNCHANGED gcRest

GCDeleteReturns ==
    /\ call[GCDelete].phase = "answered"
    /\ gc' = IF call[GCDelete].ans.err = "ok" THEN [gc EXCEPT !.del = "run"]
             ELSE [gc EXCEPT !.del = "end", !.cancelled = TRUE]
    /\ call' = [call EXCEPT ![GCDelete] = NoCall]
    /\ UNCHANGED <<gcRest, lim, log, passed>>

GCDeletesEnd ==
    /\ gc.del = "run" /\ gc.stale = <<>> /\ gc.closed2
    /\ gc' = [gc EXCEPT !.del = "end"]
    /\ UNCHANGED <<gcRest, gcCalls>>

\* group.Wait returns; what is left in the channels is dropped with them.
GCReturns ==
    /\ gc.run /\ gc.list = "end" /\ gc.filter = "end" /\ gc.del = "end"
    /\ gc' = [GCIdle EXCEPT !.left = gc.left, !.wrong = gc.wrong]
    /\ UNCHANGED <<gcRest, gcCalls>>

--------------------------------------------------------------------------------

Init ==
    /\ kind \in Kinds
    /\ up = "no"
    /\ bucket = [objects |-> kind.objects, folders |-> kind.folders,
                 prevGeneration |-> Len(kind.objects),
                 fake |-> kind.fake, hns |-> kind.hns, zonal |-> kind.zonal]
    /\ call = [c \in Clients |-> NoCall]
    /\ done = [c \in Clients |-> NotYet]
    /\ late = {}
    /\ lim = [x \in {"op", "egress"} |-> [tokens |-> Capacity, last |-> 0]]
    /\ now = 0
    /\ passed = [x \in {"op", "egress"} |-> <<>>]
    /\ log = [next |-> 0, open |-> {}]
    /\ meter = [requests |-> 0, opened |-> 0, closed |-> 0, bytes |-> 0]
    /\ reader = [c \in Clients |-> NoReader]
    /\ writer = [c \in Clients |-> NoRequest]
    /\ lister = [pc |-> "new", token |-> Empty, objs |-> <<>>, runs |-> <<>>, stay |-> {}]
    /\ gc = GCIdle
    /\ calls = [c \in kind.callers |-> kind.calls]
    /\ faults = kind.faults
    /\ once = {} /\ again = FALSE

Steps(c) == Send(c) \/ Served(c) \/ Retry(c) \/ Answer(c)

Next ==
    \/ Tick \/ LateAttempt \/ MountAsks \/ MountRefused \/ MountReturns \/ ListerAsks \/ ListerReturns
    \/ \E c \in Clients : Steps(c) \/ WaitCancelled(c) \/ AttemptLost(c) \/ GiveUp(c)
    \/ \E c \in Callers :
          \/ CallerAsks(c) \/ WriterAppends(c) \/ WriterEnds(c)
          \/ ReadAsks(c) \/ ReadGets(c) \/ ReaderCloses(c)
    \/ GCStart \/ GCListAsks \/ GCListReturns \/ GCEmits \/ GCFilters \/ GCDeleteAsks
    \/ GCDeleteReturns \/ GCDeletesEnd \/ GCReturns

\* Time passes, and goroutines that can run do run.
Progress ==
    \/ Tick \/ MountReturns \/ ListerAsks \/ ListerReturns
    \/ \E c \in Clients : Steps(c)
    \/ \E c \in Callers : WriterAppends(c) \/ WriterEnds(c) \/ ReadAsks(c) \/ ReadGets(c) \/ ReaderCloses(c)
    \/ GCListAsks \/ GCListReturns \/ GCEmits \/ GCFilters \/ GCDeleteAsks
    \/ GCDeleteReturns \/ GCDeletesEnd \/ GCReturns

Spec == Init /\ [][Next]_vars /\ WF_vars(Progress)

--------------------------------------------------------------------------------
(* The mount as its callers see it: what lies under the prefix, without it.     *)

LocalBucket ==
    LET under(o) == HasPrefix(o.name, kind.prefix)
        below(n) == HasPrefix(n, kind.prefix)
        objs == SelectSeq(bucket.objects, under)
        dirs == SelectSeq(bucket.folders, below)
    IN  [bucket EXCEPT
            !.objects = [i \in DOMAIN objs |-> [objs[i] EXCEPT !.name = localName(@)]],
            \* the mounted folder itself is the "./" of addFolderEntry
            !.folders = [i \in DOMAIN dirs |-> IF dirs[i] = kind.prefix /\ kind.prefix # Empty
                                               THEN <<Dot, 0>> ELSE localName(dirs[i])]]

LocalDone(d) ==
    [req |-> [(IF bucket.fake THEN d.req ELSE HandleRequest(d.req)) EXCEPT !.token = localName(@)],
     ans |-> [PrefixAnswer(d.req, d.ans) EXCEPT !.token = localName(@)]]

Promised == INSTANCE Store WITH bucket <- LocalBucket,
                                done <- [c \in Clients |-> LocalDone(done[c])]

--------------------------------------------------------------------------------
(* Properties.                                                                  *)

\* The mount implements Store: through throttling, renaming, logging, counting and
\* retrying, every request takes effect in one step under the caller's own names,
\* with the answer of that step (every method of prefix_bucket.go translates both
\* ways).  Over the in-memory bucket it takes effect once; over the service, which
\* is retried, as often as attempts arrive, each time in one step.  Requests that
\* fake/bucket.go serves without its lock (Unlocked) are made one at a time.
ImplementsStore == Promised!Spec

\* A mount of one directory (--only-dir) never changes an object or a folder
\* outside it, whatever its callers, its collector and its retries do.
Outside(b) == <<SelectSeq(b.objects, LAMBDA o : ~HasPrefix(o.name, kind.prefix)),
                SelectSeq(b.folders, LAMBDA n : ~HasPrefix(n, kind.prefix))>>
NothingOutside == [][Outside(bucket') = Outside(bucket)]_vars

\* checkInvariants of fake/bucket.go, which it checks at every unlock: names in
\* strictly increasing order, generations no higher than the counter.  The binary
\* searches of find and lowerBound rest on it.
ObjectsInOrder == checkInvariants(bucket)

\* A generation stands for one content for ever: the caches above key what they
\* keep by name and generation.  A step gives contents a new generation, above all
\* earlier ones, or leaves them under the one they had (folders have none).
GenerationIdentifiesContent ==
    [][\A o \in ToSet(bucket'.objects) :
          \/ o.gen = 0
          \/ o.gen > bucket.prevGeneration
          \/ \E p \in ToSet(bucket.objects) : p.gen = o.gen /\ p.data = o.data]_vars

\* A listing in pages shows every name that was there from its first page to its
\* last, once, whatever is created, deleted or renamed between two pages.
ListingComplete ==
    lister.pc = "end" =>
        /\ IsInjective(lister.objs)
        /\ kind.ls.trailing \/ IsInjective(lister.runs)
        /\ \A n \in lister.stay :
              LET m == localName(n)
                  p == kind.ls.name
              IN  HasPrefix(n, wrappedName(p)) =>
                     \/ m \in ToSet(lister.objs)
                     \/ /\ kind.ls.delim /\ Len(m) > Len(p)
                        /\ Append(SubSeq(m, 1, Len(p)), 0) \in ToSet(lister.runs)

\* A request under a precondition that its own effect makes false takes effect at
\* most once, though every request is retried and attempts given up on may arrive
\* late (RetryAlways, storage_handle.go).  One that the object must not exist may do
\* so again when the object has been removed in between: generations are not used
\* twice, absence is.
AtMostOnce == ~again

\* limiter_capacity.go: "if we set C <= W*B/N, then we're off by no more than a
\* factor of (N+1)/N within any window of size W", for what the throttles admit.
WithinRate ==
    \A x \in DOMAIN passed : \A t \in 0..kind.ticks :
        LET admitted == {i \in DOMAIN passed[x] : passed[x][i] \in t..(t + kind.window)}
        IN  Cardinality(admitted) * LimitN <= kind.rate * kind.window * (LimitN + 1)

\* debug_bucket.go and monitor/bucket.go: the requests logged as begun and not
\* ended are those in progress and the readers still open, and no reader is
\* counted as closed that was not counted as opened.
Accounted ==
    LET busy == {c \in Clients : call[c].phase \in {"sent", "retry", "replied"}}
        reading == {c \in Clients : reader[c].open}
    IN  /\ kind.trace => log.open = {call[c].id : c \in busy} \cup {reader[c].id : c \in reading}
        /\ meter.closed + Cardinality(reading) <= meter.opened

\* garbage_collect.go deletes only temporary objects that have not been touched
\* for the staleness threshold, while their owners create and delete others.
CollectsStaleOnly == ~gc.wrong

\* Every call returns, and a collection ends once begun, also when one of its
\* three goroutines fails while another waits on a full or an empty channel.  (The
\* calls are bounded: one that never returned would keep the mount busy for ever.)
Busy == gc.run \/ \E c \in Clients : call[c].phase # "idle"
OutOfTime == kind.rate > 0 /\ now = kind.ticks     \* the bound of the clock
CallsReturn == Busy ~> (~Busy \/ OutOfTime)

\* The store's own order and the meaning of its generations survive every request.
StoreInOrder == []ObjectsInOrder /\ GenerationIdentifiesContent

\* What takes effect is what was asked for: once, and of the collector only on stale objects.
EffectsIntended == AtMostOnce /\ CollectsStaleOnly

\* What passes the throttles and what the debug and monitoring layers count is within the
\* rate and adds up, for requests and for the readers they leave open.
TrafficInOrder == WithinRate /\ Accounted
=============================================================================
