------------------------------ MODULE BlockPool ------------------------------
(***************************************************************************)
(* internal/block/block_pool.go: a pool of reusable blocks per open file,  *)
(* all pools drawing permits from one global semaphore.  A block is        *)
(* anonymous: what the pool tells apart is how many blocks are free, how   *)
(* many are lent out and how many it created.                              *)
(*                                                                         *)
(* Every pool is used by the one goroutine that holds its owner's lock     *)
(* (Get, ClearFreeBlockChannel) and by goroutines that only give blocks    *)
(* back (Release).  ClearFreeBlockChannel is a loop over a channel, so its *)
(* iterations interleave with Release.                                     *)
(***************************************************************************)
EXTENDS Integers, FiniteSets

CONSTANTS
    Pools,          \* one per file with buffered data
    MaxBlocks,      \* maxBlocks, the per-pool limit
    ReservedBlocks, \* reservedBlocks, acquired when the pool is created
    SemLimit,       \* capacity of globalMaxBlocksSem
    MaxLost         \* bound: how often createBlockFunc may fail after the permit

ASSUME PoolAssumption ==
    /\ MaxBlocks \in Nat \ {0}
    /\ ReservedBlocks \in 0..MaxBlocks
    /\ SemLimit \in Nat
    /\ MaxLost \in Nat

VARIABLES
    phase,        \* "none", "open", or the ClearFreeBlockChannel call in progress
    freeBlocksCh, \* number of blocks in the free channel
    totalBlocks,  \* blocks created and not deallocated
    lent,         \* blocks in the hands of the pool's users
    sem,          \* permits taken from globalMaxBlocksSem, all pools together
    held,         \* auxiliary: the part of sem that each pool took and not returned
    lost          \* auxiliary: permits a failed createBlockFunc never returned

vars == <<phase, freeBlocksCh, totalBlocks, lent, sem, held, lost>>

Larger(a, b) == IF a >= b THEN a ELSE b

TryAcquire(n) == sem + n <= SemLimit

Init ==
    /\ phase = [p \in Pools |-> "none"]
    /\ freeBlocksCh = [p \in Pools |-> 0]
    /\ totalBlocks = [p \in Pools |-> 0]
    /\ lent = [p \in Pools |-> 0]
    /\ sem = 0
    /\ held = [p \in Pools |-> 0]
    /\ lost = [p \in Pools |-> 0]

\* A new pool starts empty; it is the successor of one whose blocks are all gone.
NewGenBlockPool(p) ==
    /\ phase[p] = "none" /\ totalBlocks[p] = 0
    /\ TryAcquire(ReservedBlocks)
    /\ sem' = sem + ReservedBlocks
    /\ held' = [held EXCEPT ![p] = @ + ReservedBlocks]
    /\ phase' = [phase EXCEPT ![p] = "open"]
    /\ UNCHANGED <<freeBlocksCh, totalBlocks, lent, lost>>

\* Get and TryGet differ only in what they do when neither branch is enabled:
\* Get polls again, TryGet returns CantAllocateAnyBlockError.
GetFree(p) ==
    /\ phase[p] = "open"
    /\ freeBlocksCh[p] > 0
    /\ freeBlocksCh' = [freeBlocksCh EXCEPT ![p] = @ - 1]
    /\ lent' = [lent EXCEPT ![p] = @ + 1]
    /\ UNCHANGED <<phase, totalBlocks, sem, held, lost>>

\* (mutants of the two definitions below)
PermitsForNewBlock_AtMost(p) == IF totalBlocks[p] <= ReservedBlocks THEN 0 ELSE 1
canAllocateBlock_NoSem(p) == totalBlocks[p] < MaxBlocks

\* canAllocateBlock: the reserved blocks need no further permit.
PermitsForNewBlock(p) == IF totalBlocks[p] < ReservedBlocks THEN 0 ELSE 1

canAllocateBlock(p) ==
    /\ totalBlocks[p] < MaxBlocks
    /\ TryAcquire(PermitsForNewBlock(p))

GetNew(p) ==
    /\ phase[p] = "open"
    /\ freeBlocksCh[p] = 0
    /\ canAllocateBlock(p)
    /\ sem' = sem + PermitsForNewBlock(p)
    /\ held' = [held EXCEPT ![p] = @ + PermitsForNewBlock(p)]
    /\ totalBlocks' = [totalBlocks EXCEPT ![p] = @ + 1]
    /\ lent' = [lent EXCEPT ![p] = @ + 1]
    /\ UNCHANGED <<phase, freeBlocksCh, lost>>

\* createBlockFunc fails: the permit canAllocateBlock took is not given back.
GetFails(p) ==
    /\ phase[p] = "open"
    /\ freeBlocksCh[p] = 0
    /\ canAllocateBlock(p)
    /\ lost[p] < MaxLost
    /\ sem' = sem + PermitsForNewBlock(p)
    /\ held' = [held EXCEPT ![p] = @ + PermitsForNewBlock(p)]
    /\ lost' = [lost EXCEPT ![p] = @ + PermitsForNewBlock(p)]
    /\ UNCHANGED <<phase, freeBlocksCh, totalBlocks, lent>>

\* (mutant: the user keeps the block it gave back)
Release_Keeps(p) ==
    /\ lent[p] > 0
    /\ freeBlocksCh' = [freeBlocksCh EXCEPT ![p] = @ + 1]
    /\ UNCHANGED <<phase, totalBlocks, lent, sem, held, lost>>

Release(p) ==
    /\ lent[p] > 0
    /\ freeBlocksCh' = [freeBlocksCh EXCEPT ![p] = @ + 1]
    /\ lent' = [lent EXCEPT ![p] = @ - 1]
    /\ UNCHANGED <<phase, totalBlocks, sem, held, lost>>

ClearFreeBlockChannel(p, releaseReservedBlocks) ==
    /\ phase[p] = "open"
    /\ phase' = [phase EXCEPT
                   ![p] = IF releaseReservedBlocks THEN "all" ELSE "keep"]
    /\ UNCHANGED <<freeBlocksCh, totalBlocks, lent, sem, held, lost>>

\* (mutant: off by one at the reservation)
PermitsOfBlock_AtLeast(p) == IF totalBlocks[p] >= ReservedBlocks THEN 1 ELSE 0
PermitsOfBlock(p) == IF totalBlocks[p] > ReservedBlocks THEN 1 ELSE 0

\* One iteration: deallocate a block, return its permit unless it is a reserved one.
ClearBlock(p) ==
    /\ phase[p] \in {"keep", "all"}
    /\ freeBlocksCh[p] > 0
    /\ freeBlocksCh' = [freeBlocksCh EXCEPT ![p] = @ - 1]
    /\ sem' = sem - PermitsOfBlock(p)
    /\ held' = [held EXCEPT ![p] = @ - PermitsOfBlock(p)]
    /\ totalBlocks' = [totalBlocks EXCEPT ![p] = @ - 1]
    /\ UNCHANGED <<phase, lent, lost>>

\* (mutant: the reservation is never given back)
ClearDone_KeepsReservation(p) ==
    /\ phase[p] \in {"keep", "all"}
    /\ freeBlocksCh[p] = 0
    /\ phase' = [phase EXCEPT ![p] = IF @ = "all" THEN "none" ELSE "open"]
    /\ UNCHANGED <<freeBlocksCh, totalBlocks, lent, sem, held, lost>>

\* The channel was found empty: the reservation goes too if the caller asked for it.
ClearDone(p) ==
    /\ phase[p] \in {"keep", "all"}
    /\ freeBlocksCh[p] = 0
    /\ phase' = [phase EXCEPT ![p] = IF @ = "all" THEN "none" ELSE "open"]
    /\ LET n == IF phase[p] = "all" THEN ReservedBlocks ELSE 0
       IN /\ sem' = sem - n
          /\ held' = [held EXCEPT ![p] = @ - n]
    /\ UNCHANGED <<freeBlocksCh, totalBlocks, lent, lost>>

PoolStep(p) ==
    \/ NewGenBlockPool(p)
    \/ GetFree(p)
    \/ GetNew(p)
    \/ GetFails(p)
    \/ Release(p)
    \/ \E all \in BOOLEAN : ClearFreeBlockChannel(p, all)
    \/ ClearBlock(p)
    \/ ClearDone(p)

Next == \E p \in Pools : PoolStep(p)

Spec == Init /\ [][Next]_vars

-----------------------------------------------------------------------------
(* Properties.                                                             *)

\* Every variable has its type; permits and block counts never go negative.
TypeOK ==
    /\ phase \in [Pools -> {"none", "open", "keep", "all"}]
    /\ freeBlocksCh \in [Pools -> Nat]
    /\ totalBlocks \in [Pools -> 0..MaxBlocks]
    /\ lent \in [Pools -> Nat]
    /\ sem \in Int
    /\ held \in [Pools -> Int]
    /\ lost \in [Pools -> Nat]

\* A block is free or lent, never both and never forgotten by the counter that
\* canAllocateBlock compares with maxBlocks.
BlocksAccounted == \A p \in Pools : totalBlocks[p] = freeBlocksCh[p] + lent[p]

\* Release's "free blocks channel is full, this should never happen": whenever a
\* user still holds a block there is room for it in the channel.
ReleaseNeverPanics ==
    \A p \in Pools : lent[p] > 0 => freeBlocksCh[p] < MaxBlocks

\* The permits a pool holds are exactly those its blocks and its reservation
\* need: whatever the order in which blocks beyond the reservation are created,
\* lent, released and cleared, none is returned twice and none is kept, except
\* the ones a failed createBlockFunc loses.
PermitAccounting ==
    \A p \in Pools :
        held[p] = Larger(ReservedBlocks, totalBlocks[p]) + lost[p]
                    - (IF phase[p] = "none" THEN ReservedBlocks ELSE 0)

\* A pool that was cleared with releaseReservedBlocks after all its blocks came
\* back keeps nothing of the global budget, unless createBlockFunc failed.
ClosedPoolHoldsNothing ==
    \A p \in Pools :
        phase[p] = "none" /\ totalBlocks[p] = 0 => held[p] = lost[p]

\* The semaphore is never over-committed and never below zero (Release of
\* semaphore.Weighted panics when more is returned than was taken).
SemWithinLimit == sem \in 0..SemLimit
=============================================================================
