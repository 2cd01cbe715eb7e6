------------------------------- MODULE Store --------------------------------
(***************************************************************************)
(* What a gcs.Bucket promises its callers: every request takes effect in   *)
(* one step on the names the callers use, and its answer is that of the    *)
(* bucket at that step.  The stack of wrapped buckets implements it.  An   *)
(* in-memory bucket serves a request once; a service behind a client that  *)
(* retries may serve it again, until the caller has its answer and after.  *)
(***************************************************************************)
EXTENDS FakeBucket

CONSTANT Clients

VARIABLES
    bucket,   \* the bucket as the callers name its objects
    done      \* per client, the request in progress that took effect, and its answer

NotYet == [req |-> NoRequest, ans |-> NoAnswer]

Init == checkInvariants(bucket) /\ done = [c \in Clients |-> NotYet]

\* Some client's request takes effect: whichever it was, done' holds it.
Request(c) ==
    LET r == done'[c].req
    IN  /\ r.op # "none"
        /\ bucket.fake => done[c] = NotYet
        /\ \E b \in {bucket} : \E x \in {Apply(b, r)} :
              /\ done' = [done EXCEPT ![c] = [req |-> r, ans |-> x.ans]]
              /\ bucket' = x.bkt

\* The client has its answer.
Return(c) ==
    /\ done[c] # NotYet
    /\ done' = [done EXCEPT ![c] = NotYet]
    /\ bucket' = bucket

Next == \E c \in Clients : Request(c) \/ Return(c)

Spec == Init /\ [][Next]_<<bucket, done>>
=============================================================================
