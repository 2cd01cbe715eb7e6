-------------------------- MODULE MCBufferedReads --------------------------
(* One or two buffered readers, or pools alone, sharing a semaphore of     *)
(* four permits and two download workers.                                  *)
EXTENDS BufferedReads, FiniteSetsExt, TLC

CONSTANTS p1, p2

Quiet == [readers |-> {p1}, others |-> FALSE, size |-> 7, init |-> 1, threshold |-> 1,
          reads |-> {<<0, 2>>, <<1, 2>>, <<3, 2>>, <<5, 3>>}, calls |-> 3,
          faults |-> FALSE, interrupts |-> FALSE, slow |-> FALSE, grow |-> FALSE]

Seeking == Quiet
Failing == [Quiet EXCEPT !.faults = TRUE, !.reads = {<<0, 3>>, <<3, 2>>}]
Interrupting == [Quiet EXCEPT !.interrupts = TRUE, !.faults = TRUE, !.reads = {<<0, 3>>, <<3, 2>>}]
Sharing == [Quiet EXCEPT !.readers = {p1, p2}, !.calls = 1, !.init = 2,
                         !.reads = {<<0, 3>>}]
Growing == [Quiet EXCEPT !.grow = TRUE, !.size = 3, !.reads = {<<0, 3>>, <<3, 1>>},
                         !.calls = 2]
Slow == [Quiet EXCEPT !.slow = TRUE, !.reads = {<<0, 3>>, <<3, 2>>}, !.calls = 2]
PoolsAlone == [Quiet EXCEPT !.readers = {}, !.others = TRUE]

MCKinds == {Seeking, Failing, Interrupting, Sharing, Growing, Slow, PoolsAlone}

\* globalMaxBlocksSem "limit[s] the total number of blocks created across
\* different files": the pools in use never have more blocks than permits exist.
LiveBlocksWithinLimit ==
    MapThenSumSet(LAMBDA p : totalBlocks[p], {q \in Pools : phase[q] # "none"}) <= SemLimit

\* A block is free or lent and counted once, a release finds room in the free channel,
\* the semaphore is neither over-committed nor returned twice, and the blocks of all
\* pools stay within the global limit (canAllocateBlock, Release,
\* ClearFreeBlockChannel).
PoolsInOrder ==
    TypeOK /\ BlocksAccounted /\ ReleaseNeverPanics /\ SemWithinLimit /\ LiveBlocksWithinLimit

\* Blocks are where they should be at every step of readers, workers and callbacks: in the
\* pool, in the queue at their place, or lent with a reference for every slice of them; and
\* the memory a read returned stays what it was until the response is called back.
BlocksInOrder == PoolsInOrder /\ LentIsHeld /\ SlicesIntact /\ QueueIsWindow /\ NoPanic
=============================================================================
