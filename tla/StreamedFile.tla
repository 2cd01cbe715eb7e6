----------------------------- MODULE StreamedFile -----------------------------
(***************************************************************************)
(* What streaming writes promise: the calls that succeed add up to a size; *)
(* at most once the object is published, and then it is exactly that many  *)
(* bytes, each at the offset it was written to.  After that nothing        *)
(* changes.                                                                *)
(***************************************************************************)
EXTENDS Integers, Sequences

CONSTANTS InitialSizes, NoObject

VARIABLES size, object

vars == <<size, object>>

Init == size \in InitialSizes /\ object = NoObject

\* A write or a truncate is acknowledged.
Resize == object = NoObject /\ size' \in Nat /\ UNCHANGED object

Publish ==
    /\ object = NoObject
    /\ object' = [i \in 1..size |-> i - 1]
    /\ UNCHANGED size

Next == Resize \/ Publish

Spec == Init /\ [][Next]_vars
=============================================================================
