---------------------------- MODULE MCRangeReads ----------------------------
(* Two threads read an object of eight units through one handle.             *)
EXTENDS RangeReads

Regional == [zonal |-> FALSE, old |-> FALSE, timeout |-> FALSE, interrupts |-> FALSE,
             size |-> 8, window |-> 4, reads |-> {<<0, 1>>, <<1, 2>>, <<4, 2>>, <<7, 2>>},
             faults |-> 1, calls |-> 3]
Zonal == [Regional EXCEPT !.zonal = TRUE]
Idle == [Regional EXCEPT !.timeout = TRUE, !.reads = {<<0, 1>>, <<1, 2>>, <<2, 2>>}]
OldRegional == [Regional EXCEPT !.old = TRUE]
OldZonal == [Zonal EXCEPT !.old = TRUE]
Interrupted == [Regional EXCEPT !.interrupts = TRUE, !.faults = 0,
                                     !.reads = {<<0, 1>>, <<1, 2>>}]

MCKinds == {Regional, Zonal, Idle, OldRegional, OldZonal, Interrupted}
=============================================================================
