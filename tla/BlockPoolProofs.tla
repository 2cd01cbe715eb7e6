-------------------------- MODULE BlockPoolProofs --------------------------
(***************************************************************************)
(* Proofs about BlockPool for any set of pools, any limits and any         *)
(* reservation.                                                            *)
(***************************************************************************)
EXTENDS BlockPool, TLAPS

\* PermitAccounting counts the permits of a block by comparing totalBlocks with
\* the reservation, so it is inductive only together with the block count.
IInv == TypeOK /\ BlocksAccounted /\ PermitAccounting

\* The initial state, in which no pool exists, satisfies the invariant.
LEMMA InitIInv == Init => IInv
  BY PoolAssumption
     DEF Init, IInv, TypeOK, BlocksAccounted, PermitAccounting, Larger

\* Each operation of block_pool.go preserves the invariant.
LEMMA NextIInv == IInv /\ [Next]_vars => IInv'
  <1> USE PoolAssumption
          DEF IInv, TypeOK, BlocksAccounted, PermitAccounting, Larger
  <1> SUFFICES ASSUME IInv, [Next]_vars PROVE IInv'
    OBVIOUS
  <1>1. ASSUME NEW p \in Pools, NewGenBlockPool(p) PROVE IInv'
    BY <1>1 DEF NewGenBlockPool, TryAcquire
  <1>2. ASSUME NEW p \in Pools, GetFree(p) PROVE IInv'
    BY <1>2 DEF GetFree
  <1>3. ASSUME NEW p \in Pools, GetNew(p) PROVE IInv'
    <2>1. TypeOK'
      BY <1>3 DEF GetNew, canAllocateBlock, TryAcquire, PermitsForNewBlock
    <2>2. BlocksAccounted'
      BY <1>3 DEF GetNew, canAllocateBlock, TryAcquire, PermitsForNewBlock
    <2>3. PermitAccounting'
      <3>1. CASE totalBlocks[p] < ReservedBlocks
        BY <1>3, <3>1 DEF GetNew, canAllocateBlock, TryAcquire, PermitsForNewBlock
      <3>2. CASE ~(totalBlocks[p] < ReservedBlocks)
        <4>1. /\ held' = [held EXCEPT ![p] = @ + 1]
              /\ totalBlocks' = [totalBlocks EXCEPT ![p] = @ + 1]
              /\ phase[p] = "open"
              /\ UNCHANGED <<phase, lost>>
          BY ONLY <1>3, <3>2 DEF GetNew, PermitsForNewBlock
        <4>2. /\ totalBlocks[p] \in Nat /\ ReservedBlocks \in Nat
              /\ held[p] \in Int /\ lost[p] \in Nat
          OBVIOUS
        <4>3. Larger(ReservedBlocks, totalBlocks[p] + 1)
                = Larger(ReservedBlocks, totalBlocks[p]) + 1
          BY ONLY <3>2, <4>2 DEF Larger
        <4> QED
          BY <4>1, <4>2, <4>3
      <3> QED
        BY <3>1, <3>2
    <2> QED
      BY <2>1, <2>2, <2>3
  <1>4. ASSUME NEW p \in Pools, GetFails(p) PROVE IInv'
    BY <1>4 DEF GetFails, canAllocateBlock, TryAcquire, PermitsForNewBlock
  <1>5. ASSUME NEW p \in Pools, Release(p) PROVE IInv'
    <2>1. TypeOK'
      BY <1>5 DEF Release
    <2>2. BlocksAccounted'
      BY <1>5 DEF Release
    <2>3. PermitAccounting'
      BY <1>5 DEF Release
    <2> QED
      BY <2>1, <2>2, <2>3
  <1>6. ASSUME NEW p \in Pools, NEW all \in BOOLEAN, ClearFreeBlockChannel(p, all)
        PROVE IInv'
    BY <1>6 DEF ClearFreeBlockChannel
  <1>7. ASSUME NEW p \in Pools, ClearBlock(p) PROVE IInv'
    BY <1>7 DEF ClearBlock, PermitsOfBlock
  <1>8. ASSUME NEW p \in Pools, ClearDone(p) PROVE IInv'
    BY <1>8 DEF ClearDone
  <1>9. CASE UNCHANGED vars
    BY <1>9 DEF vars
  <1> QED
    BY <1>1, <1>2, <1>3, <1>4, <1>5, <1>6, <1>7, <1>8, <1>9 DEF Next, PoolStep

\* The invariant holds in every reachable state.
THEOREM IInvHolds == Spec => []IInv
  BY InitIInv, NextIInv, PTL DEF Spec

\* The permits each pool holds are those of its blocks and its reservation, for
\* every number of pools and every limit: no sequence of Get, Release and
\* ClearFreeBlockChannel returns a permit twice or keeps one.
THEOREM PermitsConserved == Spec => []PermitAccounting
  <1>1. IInv => PermitAccounting
    BY DEF IInv
  <1> QED
    BY <1>1, IInvHolds, PTL

\* Release never meets a full channel, which the code calls impossible.
THEOREM ReleaseSafe == Spec => []ReleaseNeverPanics
  <1>1. IInv => ReleaseNeverPanics
    BY PoolAssumption DEF IInv, TypeOK, BlocksAccounted, ReleaseNeverPanics
  <1> QED
    BY <1>1, IInvHolds, PTL

\* A file whose blocks all came back before its pool was cleared for good takes
\* nothing away from the other files' budget.
THEOREM ClosedPoolsHoldNothing == Spec => []ClosedPoolHoldsNothing
  <1>1. IInv => ClosedPoolHoldsNothing
    BY PoolAssumption
       DEF IInv, TypeOK, PermitAccounting, ClosedPoolHoldsNothing, Larger
  <1> QED
    BY <1>1, IInvHolds, PTL
=============================================================================
