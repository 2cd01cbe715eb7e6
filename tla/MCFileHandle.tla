---------------------------- MODULE MCFileHandle ----------------------------
(* Two handles, three threads.                                             *)
EXTENDS FileHandle, TLC

CONSTANTS t1, t2, t3, h1, h2

\* Two threads read through one handle, one through the other.
Ranges == [mrd |-> FALSE, user |-> t1 :> h1 @@ t2 :> h1 @@ t3 :> h2,
           faults |-> 1, writes |-> 1, calls |-> 3]
\* The downloader is used through one handle only, by two threads ...
OneUser == [mrd |-> TRUE, user |-> t1 :> h1 @@ t2 :> h1,
            faults |-> 1, writes |-> 1, calls |-> 2]
\* ... or through two, by one thread each, while the file does not change.
TwoUsers == [mrd |-> TRUE, user |-> t1 :> h1 @@ t2 :> h2,
             faults |-> 2, writes |-> 0, calls |-> 3]
\* Two threads share the first handle while the other is used and released.
Shared == [mrd |-> TRUE, user |-> t1 :> h1 @@ t2 :> h1 @@ t3 :> h2,
           faults |-> 1, writes |-> 0, calls |-> 3]

MCKinds == {Ranges, OneUser, TwoUsers, Shared}

\* Through two handles, and the file is written.
SharedKinds == {[TwoUsers EXCEPT !.writes = 1, !.faults = 0]}
=============================================================================
