-------------------------- MODULE InodeTableProofs --------------------------
(***************************************************************************)
(* The inductive invariant of InodeTable, what the steps of a request have *)
(* in common, one lemma per step, and the theorems: for any number of      *)
(* requests, threads, inodes, generations and failures.                    *)
(***************************************************************************)
EXTENDS InodeTable, FiniteSetTheorems, TLAPS

-----------------------------------------------------------------------------
(* The invariant.                                                          *)

\* The places where a request has, and where it waits for, the lock of the inode it wants.
Holding == {"checkLocal", "checkIndex", "flush", "promote", "write", "forget", "unlink", "init",
            "created", "failed"}
Waiting == {"lockLocal", "lockIndex", "lockFlush", "lockForget", "lockUnlink", "lockInit",
            "lockCreated", "lockFailed", "lockWrite"}

\* A request by itself: which request is where, and what it refers to.
InOrder(r) ==
    /\ r.op = "none" => r = Idle
    /\ r.pc = "idle" => r.op = "none"
    /\ r.pc \in {"local", "lockLocal", "checkLocal", "stat"} => r.op \in {"LookUp", "ReadDirPlus", "Rename"}
    /\ r.pc \in {"index", "lockIndex", "checkIndex"} => r.op \in {"LookUp", "ReadDirPlus", "Rename", "MkNode"}
    /\ r.pc = "respond" => r.op \in {"LookUp", "ReadDirPlus", "Rename", "MkNode", "Create"}
    /\ r.pc = "mknod" => r.op = "MkNode"
    /\ r.pc \in {"create", "lockInit", "init", "lockCreated", "created", "lockFailed", "failed"} => r.op = "Create"
    /\ r.pc \in {"find", "lockUnlink", "unlink", "delete"} => r.op = "Unlink"
    /\ r.pc \in {"lockFlush", "flush"} => r.op \in {"Flush", "Rename"}
    /\ r.pc = "promote" => r.op \in {"Flush", "Write", "Rename"}
    /\ r.pc = "move" => r.op = "Rename"
    /\ r.pc \in {"lockWrite", "write"} => r.op = "Write"
    /\ r.pc \in {"lockForget", "forget"} => r.op = "Forget"
    /\ r.pc \in Holding \cup Waiting \cup {"move"} => r.want \in IDs
    /\ r.pc = "respond" => r.in \in IDs
    /\ r.op = "Forget" => r.n \in 1..MaxCalls
    /\ r.op \in {"Flush", "Write"} => r.want \in IDs /\ r.held = r.want

\* The kernel keeps a lookup of the inode that a request of its own refers to.
HeldKnown == \A t \in Threads : th[t].held # None => kernel[th[t].held] > 0

\* A lock is held by a request that will release it, unless a create failed.
LocksOwned ==
    /\ "baseDir" \notin failed => fsMu = Free
    /\ "handler" \notin failed =>
         \A i \in IDs, t \in Threads :
            lock[i] = t => \/ th[t].pc \in Holding /\ th[t].want = i
                           \/ th[t].pc = "respond" /\ th[t].in = i

\* The kernel holds no more lookups than it has asked for.
Asking == {t \in Threads : th[t].op \in DirRequests}
LookupsAsked == \A i \in IDs : kernel[i] + Cardinality(Asking) <= calls

IInv ==
    /\ TypeOK /\ \A t \in Threads : InOrder(th[t])
    /\ HeldKnown /\ LocksOwned /\ LookupsAsked
    /\ LookupCountsAgree /\ KernelInodesLive /\ IndexesLive

-----------------------------------------------------------------------------
(* Lookup counts.                                                          *)

\* The lookups of inode i that a request accounts for.
Share(r, i) ==
    IF r.pc = "respond" /\ r.in = i THEN 1
    ELSE IF r.op = "Forget" /\ r.want = i THEN r.n ELSE 0

\* One request moves on: what is in flight changes by its share.
LEMMA InFlightMoves ==
  ASSUME th \in [Threads -> Thread], \A u \in Threads : InOrder(th[u]),
         NEW t \in Threads, NEW r \in Thread, InOrder(r), th' = [th EXCEPT ![t] = r], NEW i \in IDs
  PROVE  /\ InFlight(i) \in Nat /\ Share(th[t], i) \in Nat /\ Share(r, i) \in Nat
         /\ InFlight(i) >= Share(th[t], i)
         /\ InFlight(i)' = InFlight(i) - Share(th[t], i) + Share(r, i)
  <1> DEFINE A(q) == IF q.pc = "respond" /\ q.in = i THEN {t} ELSE {}
             F(q) == IF q.op = "Forget" /\ q.want = i THEN {t} \X (1..q.n) ELSE {}
             OtherA == {u \in Threads \ {t} : th[u].pc = "respond" /\ th[u].in = i}
             OtherF == {p \in (Threads \ {t}) \X (1..MaxCalls) :
                          th[p[1]].op = "Forget" /\ th[p[1]].want = i /\ p[2] <= th[p[1]].n}
  <1>1. th'[t] = r /\ (\A u \in Threads \ {t} : th'[u] = th[u]) /\ th[t] \in Thread
    OBVIOUS
  <1>2. Answering(i) = OtherA \cup A(th[t]) /\ Answering(i)' = OtherA \cup A(r)
    BY <1>1 DEF Answering
  <1>3. \A q \in Thread : InOrder(q) /\ q.op = "Forget" => q.n \in 1..MaxCalls
    BY DEF InOrder
  <1>4. Forgetting(i) = OtherF \cup F(th[t])
    BY <1>1, <1>3, KindsOK DEF Forgetting
  <1>5. Forgetting(i)' = OtherF \cup F(r)
    BY <1>1, <1>3, KindsOK DEF Forgetting
  <1>6. IsFiniteSet(OtherA) /\ Cardinality(OtherA) \in Nat
    BY KindsOK, FS_Subset, FS_CardinalityType
  <1>7. IsFiniteSet(OtherF) /\ Cardinality(OtherF) \in Nat
    <2>1. IsFiniteSet(1..MaxCalls) /\ IsFiniteSet(Threads \ {t})
      BY KindsOK, FS_Interval, FS_Subset
    <2>2. IsFiniteSet((Threads \ {t}) \X (1..MaxCalls))
      BY <2>1, FS_Product, Zenon
    <2> QED
      BY <2>2, FS_Subset, FS_CardinalityType
  <1>8. ASSUME NEW q \in Thread, InOrder(q)
        PROVE  /\ Share(q, i) \in Nat
               /\ Cardinality(OtherA \cup A(q)) + Cardinality(OtherF \cup F(q))
                     = Cardinality(OtherA) + Cardinality(OtherF) + Share(q, i)
    <2>1. ~(q.pc = "respond" /\ q.op = "Forget")
      BY <1>8 DEF InOrder
    <2>2. CASE q.pc = "respond" /\ q.in = i
      <3>1. Cardinality(OtherA \cup {t}) = Cardinality(OtherA) + 1
        <4>1. t \notin OtherA
          OBVIOUS
        <4> QED
          BY <1>6, <4>1, FS_AddElement, Zenon
      <3>2. A(q) = {t} /\ F(q) = {} /\ Share(q, i) = 1
        BY <2>1, <2>2 DEF Share
      <3> HIDE DEF OtherA, OtherF, A, F
      <3>3. OtherF \cup {} = OtherF
        OBVIOUS
      <3> QED
        BY <1>6, <1>7, <3>1, <3>2, <3>3
    <2>3. CASE q.op = "Forget" /\ q.want = i
      <3>1. q.n \in 1..MaxCalls /\ MaxCalls \in Nat
        BY <1>3, <1>8, <2>3, KindsOK
      <3>2. A(q) = {} /\ F(q) = {t} \X (1..q.n) /\ Share(q, i) = q.n
        BY <2>1, <2>3 DEF Share
      <3>3. IsFiniteSet({t} \X (1..q.n)) /\ Cardinality({t} \X (1..q.n)) = q.n
        <4>1. IsFiniteSet({t}) /\ Cardinality({t}) = 1
          BY FS_Singleton, Zenon
        <4>2. IsFiniteSet(1..q.n) /\ Cardinality(1..q.n) = q.n
          BY <3>1, FS_Interval
        <4> QED
          BY <3>1, <4>1, <4>2, FS_Product
      <3>4. OtherF \cap ({t} \X (1..q.n)) = {}
        OBVIOUS
      <3>5. Cardinality(OtherF \cup ({t} \X (1..q.n))) = Cardinality(OtherF) + q.n
        <4>1. Cardinality({}) = 0
          BY FS_EmptySet
        <4> DEFINE T == {t} \X (1..q.n)
        <4>2. IsFiniteSet(T) /\ Cardinality(T) = q.n /\ OtherF \cap T = {}
          BY <3>3, <3>4
        <4> HIDE DEF OtherF, T
        <4>3. Cardinality(OtherF \cup T) = Cardinality(OtherF) + Cardinality(T) - Cardinality(OtherF \cap T)
          BY <1>7, <4>2, FS_Union
        <4>4. Cardinality(OtherF \cup T) = Cardinality(OtherF) + q.n
          <5>1. Cardinality(OtherF \cap T) = 0 /\ q.n \in Int
            BY <3>1, <4>1, <4>2
          <5> QED
            BY ONLY <1>7, <4>2, <4>3, <5>1
        <4> QED
          BY <4>4 DEF T
      <3> HIDE DEF OtherA, OtherF, A, F
      <3>6. OtherA \cup {} = OtherA
        OBVIOUS
      <3> QED
        BY <1>6, <1>7, <3>1, <3>2, <3>5, <3>6
    <2>4. CASE ~(q.pc = "respond" /\ q.in = i) /\ ~(q.op = "Forget" /\ q.want = i)
      <3>1. A(q) = {} /\ F(q) = {} /\ Share(q, i) = 0
        BY <2>4 DEF Share
      <3> HIDE DEF OtherA, OtherF, A, F
      <3>2. OtherA \cup {} = OtherA /\ OtherF \cup {} = OtherF
        OBVIOUS
      <3> QED
        BY <1>6, <1>7, <3>1, <3>2
    <2> QED
      BY <2>2, <2>3, <2>4
  <1> HIDE DEF A, F, OtherA, OtherF
  <1>9. /\ InFlight(i) = Cardinality(OtherA) + Cardinality(OtherF) + Share(th[t], i)
        /\ Share(th[t], i) \in Nat
    BY <1>1, <1>2, <1>4, <1>8, Zenon DEF InFlight
  <1>10. /\ InFlight(i)' = Cardinality(OtherA) + Cardinality(OtherF) + Share(r, i)
         /\ Share(r, i) \in Nat
    BY <1>2, <1>5, <1>8 DEF InFlight
  <1> QED
    BY <1>6, <1>7, <1>9, <1>10

\* The counts agree after a step if it changes both sides alike.
LEMMA CountsKept ==
  ASSUME IInv, NEW t \in Threads, NEW r \in Thread, InOrder(r), th' = [th EXCEPT ![t] = r],
         count' \in [IDs -> Int], kernel' \in [IDs -> Nat], failed \subseteq failed',
         \A i \in IDs : count'[i] - kernel'[i] - Share(r, i) >= count[i] - kernel[i] - Share(th[t], i),
         failed' \cap {"entry", "handler"} = {} =>
            \A i \in IDs : count'[i] - kernel'[i] - Share(r, i) = count[i] - kernel[i] - Share(th[t], i)
  PROVE  LookupCountsAgree' /\ count' \in [IDs -> Nat]
  <1>1. ASSUME NEW i \in IDs
        PROVE  /\ count'[i] >= kernel'[i] + InFlight(i)' /\ count'[i] \in Nat
               /\ failed' \cap {"entry", "handler"} = {} => count'[i] = kernel'[i] + InFlight(i)'
    <2>1. /\ InFlight(i) \in Nat /\ Share(th[t], i) \in Nat /\ Share(r, i) \in Nat
          /\ InFlight(i) >= Share(th[t], i)
          /\ InFlight(i)' = InFlight(i) - Share(th[t], i) + Share(r, i)
      BY InFlightMoves, Zenon DEF IInv, TypeOK
    <2>2. /\ count[i] \in Nat /\ kernel[i] \in Nat /\ count'[i] \in Int /\ kernel'[i] \in Nat
          /\ count[i] >= kernel[i] + InFlight(i)
          /\ failed \cap {"entry", "handler"} = {} => count[i] = kernel[i] + InFlight(i)
      BY DEF IInv, TypeOK, LookupCountsAgree
    <2>3. count'[i] >= kernel'[i] + InFlight(i)' /\ count'[i] \in Nat
      BY <2>1, <2>2
    <2>4. failed' \cap {"entry", "handler"} = {} => count'[i] = kernel'[i] + InFlight(i)'
      <3>1. failed' \cap {"entry", "handler"} = {} => failed \cap {"entry", "handler"} = {}
        OBVIOUS
      <3> QED
        BY <2>1, <2>2, <3>1
    <2> QED
      BY <2>3, <2>4
  <1>2. LookupCountsAgree'
    BY <1>1 DEF LookupCountsAgree
  <1> QED
    BY <1>1, <1>2

\* A request goes on with the inode the kernel refers to, or ends.
LEMMA HeldKept ==
  ASSUME IInv, NEW t \in Threads, NEW r \in Thread, th' = [th EXCEPT ![t] = r],
         r = Idle \/ r.held = th[t].held,
         \A i \in IDs : kernel'[i] \in Nat /\ kernel'[i] >= kernel[i]
  PROVE  HeldKnown'
  <1>1. th'[t] = r /\ \A u \in Threads \ {t} : th'[u] = th[u]
    BY DEF IInv, TypeOK
  <1>2. Idle.held = None
    BY DEF Idle
  <1>3. \A u \in Threads : th'[u].held \in {th[u].held, None} /\ th[u].held \in IDs \cup {None}
    BY <1>1, <1>2 DEF IInv, TypeOK, Thread
  <1>4. \A i \in IDs : kernel[i] \in Nat
    BY DEF IInv, TypeOK
  <1> QED
    BY <1>3, <1>4 DEF IInv, HeldKnown

\* The kernel's lookups stay within what it asked for: a reply ends a request.
LEMMA AskedKept ==
  ASSUME IInv, NEW t \in Threads, NEW r \in Thread, th' = [th EXCEPT ![t] = r],
         r = Idle \/ r.op = th[t].op, calls' = calls, kernel' \in [IDs -> Nat],
         \/ kernel' = kernel
         \/ /\ r = Idle /\ th[t].op \in DirRequests
            /\ \A i \in IDs : kernel'[i] <= kernel[i] + 1
  PROVE  LookupsAsked'
  <1>1. th'[t] = r /\ \A u \in Threads \ {t} : th'[u] = th[u]
    BY DEF IInv, TypeOK
  <1>2. Idle.op \notin DirRequests
    BY DEF Idle, DirRequests
  <1>3. IsFiniteSet(Asking) /\ Cardinality(Asking) \in Nat
    BY KindsOK, FS_Subset, FS_CardinalityType DEF Asking
  <1>4. Asking' = Asking \/ (Asking' = Asking \ {t} /\ r = Idle)
    BY <1>1, <1>2 DEF Asking, DirRequests
  <1>5. t \in Asking => Cardinality(Asking \ {t}) = Cardinality(Asking) - 1
    BY <1>3, FS_RemoveElement, Zenon
  <1>6. t \notin Asking => Asking \ {t} = Asking
    OBVIOUS
  <1>7. th[t].op \in DirRequests <=> t \in Asking
    BY DEF Asking
  <1>8. r = Idle => Asking' = Asking \ {t}
    BY <1>1, <1>2 DEF Asking, DirRequests
  <1>9. \A i \in IDs : kernel[i] \in Nat /\ kernel'[i] \in Nat /\ kernel[i] + Cardinality(Asking) <= calls
    BY DEF IInv, TypeOK, LookupsAsked
  <1>10. calls \in Nat
    BY KindsOK DEF IInv, TypeOK
  <1>11. CASE kernel' = kernel
    <2>1. Cardinality(Asking') <= Cardinality(Asking) /\ Cardinality(Asking') \in Nat
      <3>1. Asking' \in SUBSET Asking
        BY <1>4
      <3>2. IsFiniteSet(Asking') /\ Cardinality(Asking') <= Cardinality(Asking)
        BY <1>3, <3>1, FS_Subset
      <3> QED
        BY <3>2, FS_CardinalityType
    <2> QED
      BY <1>3, <1>9, <1>10, <1>11, <2>1 DEF LookupsAsked
  <1>12. CASE r = Idle /\ th[t].op \in DirRequests /\ \A i \in IDs : kernel'[i] <= kernel[i] + 1
    <2>1. Cardinality(Asking') = Cardinality(Asking) - 1
      BY <1>5, <1>7, <1>8, <1>12, Zenon
    <2> QED
      BY <1>3, <1>9, <1>10, <1>12, <2>1 DEF LookupsAsked
  <1> QED
    BY <1>11, <1>12

\* What a request holds.
Holds(r, i) == \/ r.pc \in Holding /\ r.want = i
               \/ r.pc = "respond" /\ r.in = i

\* Locks stay owned if the request that moves owns what it has.
LEMMA LocksKept ==
  ASSUME IInv, NEW t \in Threads, NEW r \in Thread, th' = [th EXCEPT ![t] = r],
         failed \subseteq failed', fsMu' = fsMu \/ "baseDir" \in failed',
         \A i \in IDs : lock'[i] \in {lock[i], Free, t},
         "handler" \notin failed' => \A i \in IDs : lock'[i] = t => Holds(r, i)
  PROVE  LocksOwned'
  <1>1. th'[t] = r /\ \A u \in Threads \ {t} : th'[u] = th[u]
    BY DEF IInv, TypeOK
  <1>2. ASSUME "handler" \notin failed', NEW i \in IDs, NEW u \in Threads, lock'[i] = u
        PROVE  Holds(th'[u], i)
    <2>1. CASE u = t
      BY <1>1, <1>2, <2>1
    <2>2. CASE u # t
      <3>1. lock[i] = u /\ "handler" \notin failed
        BY <1>2, <2>2, KindsOK
      <3>2. Holds(th[u], i)
        BY <3>1 DEF IInv, LocksOwned, Holds
      <3> QED
        BY <1>1, <2>2, <3>2
    <2> QED
      BY <2>1, <2>2
  <1>3. "baseDir" \notin failed' => fsMu' = Free
    BY DEF IInv, LocksOwned
  <1> QED
    BY <1>2, <1>3 DEF LocksOwned, Holds

\* The inodes in use stay live if none is destroyed and what the request comes to use is live.
LEMMA LiveKept ==
  ASSUME IInv, NEW t \in Threads, NEW r \in Thread, InOrder(r), th' = [th EXCEPT ![t] = r],
         kernel' \in [IDs -> Nat], Live \subseteq Live',
         \A i \in IDs : kernel'[i] + Share(r, i) <= kernel[i] + Share(th[t], i) \/ i \in Live',
         {generationBackedInodes', localFileInodes'} \subseteq Live' \cup {None}
  PROVE  KernelInodesLive' /\ IndexesLive'
  <1>1. ASSUME NEW i \in IDs, kernel'[i] + InFlight(i)' > 0
        PROVE  i \in Live'
    <2>1. /\ InFlight(i) \in Nat /\ Share(th[t], i) \in Nat /\ Share(r, i) \in Nat
          /\ InFlight(i)' = InFlight(i) - Share(th[t], i) + Share(r, i)
      BY InFlightMoves, Zenon DEF IInv, TypeOK
    <2>2. kernel[i] \in Nat /\ kernel'[i] \in Nat
      BY DEF IInv, TypeOK
    <2>3. CASE kernel'[i] + Share(r, i) <= kernel[i] + Share(th[t], i)
      <3>1. kernel[i] + InFlight(i) > 0
        BY <1>1, <2>1, <2>2, <2>3
      <3> QED
        BY <3>1 DEF IInv, KernelInodesLive
    <2> QED
      BY <1>1, <2>3
  <1>2. KernelInodesLive'
    BY <1>1 DEF KernelInodesLive
  <1>3. IndexesLive'
    BY DEF IndexesLive
  <1> QED
    BY <1>2, <1>3

\* Every other request is in order after a step of this one.
LEMMA OrderKept ==
  ASSUME IInv, NEW t \in Threads, NEW r \in Thread, InOrder(r), th' = [th EXCEPT ![t] = r]
  PROVE  th' \in [Threads -> Thread] /\ \A u \in Threads : InOrder(th'[u])
  BY DEF IInv, TypeOK

-----------------------------------------------------------------------------
(* Steps that leave the table and the counts alone.                        *)

\* A request that waits for no lock of its own, or gives up the one it has, has none.
LEMMA Released ==
  ASSUME IInv, NEW t \in Threads,
         \/ lock' = lock /\ th[t].pc \notin Holding \cup {"respond"}
         \/ th[t].pc \in Holding /\ lock' = [lock EXCEPT ![th[t].want] = Free]
         \/ th[t].pc = "respond" /\ lock' = [lock EXCEPT ![th[t].in] = Free]
  PROVE  /\ lock' \in [IDs -> Threads \cup {Free}]
         /\ \A i \in IDs : lock'[i] \in {lock[i], Free, t}
         /\ "handler" \notin failed => \A i \in IDs : lock'[i] # t
  <1>1. lock \in [IDs -> Threads \cup {Free}] /\ t # Free
    BY KindsOK DEF IInv, TypeOK
  <1>2. "handler" \notin failed => \A i \in IDs : lock[i] = t => Holds(th[t], i)
    BY DEF IInv, LocksOwned, Holds
  <1>3. "respond" \notin Holding
    BY Zenon DEF Holding
  <1> QED
    BY <1>1, <1>2, <1>3 DEF Holds

\* What TypeOK says of the table, the inodes, the locks and the object.
TableTypes ==
    /\ kind \in Kinds
    /\ inodes \subseteq IDs /\ nextInodeID \in Nat \ {0}
    /\ generationBackedInodes \in IDs \cup {None} /\ localFileInodes \in IDs \cup {None}
    /\ fsMu \in Threads \cup {Free}
    /\ srcGen \in [IDs -> 0..MaxGen]
    /\ local \subseteq IDs /\ unlinked \subseteq IDs /\ dirty \subseteq IDs
    /\ lock \in [IDs -> Threads \cup {Free}]
    /\ objGen \in 0..kind.gens /\ lastGen \in 0..kind.gens
    /\ revived \subseteq IDs

\* A step of a request that destroys no inode.
LEMMA GrowStep ==
  ASSUME IInv, NEW t \in Threads, NEW r \in Thread, InOrder(r), th' = [th EXCEPT ![t] = r],
         r = Idle \/ (r.op = th[t].op /\ r.held = th[t].held),
         TableTypes', kind' = kind, calls' = calls,
         failed \subseteq failed', failed' \subseteq AllFaults,
         count' \in [IDs -> Int], kernel' \in [IDs -> Nat],
         \/ kernel' = kernel
         \/ /\ r = Idle /\ th[t].op \in DirRequests
            /\ \A i \in IDs : kernel'[i] >= kernel[i] /\ kernel'[i] <= kernel[i] + 1,
         \A i \in IDs : count'[i] - kernel'[i] - Share(r, i) >= count[i] - kernel[i] - Share(th[t], i),
         failed' \cap {"entry", "handler"} = {} =>
            \A i \in IDs : count'[i] - kernel'[i] - Share(r, i) = count[i] - kernel[i] - Share(th[t], i),
         Live \subseteq Live',
         \A i \in IDs : kernel'[i] + Share(r, i) <= kernel[i] + Share(th[t], i) \/ i \in Live',
         {generationBackedInodes', localFileInodes'} \subseteq Live' \cup {None},
         fsMu' = fsMu \/ "baseDir" \in failed',
         \A i \in IDs : lock'[i] \in {lock[i], Free, t},
         "handler" \notin failed' => \A i \in IDs : lock'[i] = t => Holds(r, i)
  PROVE  IInv'
  <1>1. th' \in [Threads -> Thread] /\ \A u \in Threads : InOrder(th'[u])
    BY OrderKept, Zenon
  <1>2. LookupCountsAgree' /\ count' \in [IDs -> Nat]
    BY CountsKept, Zenon
  <1>3. TypeOK'
    BY <1>1, <1>2 DEF IInv, TypeOK, TableTypes
  <1>4. HeldKnown'
    <2>1. \A i \in IDs : kernel'[i] \in Nat /\ kernel'[i] >= kernel[i]
      BY DEF IInv, TypeOK
    <2> QED
      BY <2>1, HeldKept, Zenon
  <1>5. LookupsAsked'
    BY AskedKept, Zenon
  <1>6. LocksOwned'
    BY LocksKept, Zenon
  <1>7. KernelInodesLive' /\ IndexesLive'
    BY LiveKept, Zenon
  <1> QED
    BY <1>1, <1>2, <1>3, <1>4, <1>5, <1>6, <1>7 DEF IInv

\* The request becomes this one.
Becomes(t, r, o, p, i, w, c, m) ==
    /\ r \in Thread /\ th' = [th EXCEPT ![t] = r]
    /\ r.op = o /\ r.pc = p /\ r.in = i /\ r.want = w /\ r.core = c /\ r.n = m
    /\ r.held = th[t].held

\* The ways a step changes a request.
LEMMA Moves ==
  ASSUME th \in [Threads -> Thread], NEW t \in Threads, NEW p \in Places, NEW m \in Nat,
         NEW w \in IDs \cup {None}, NEW j \in IDs \cup {None}, NEW c \in 0..MaxGen
  PROVE  LET q == th[t]
         IN  /\ th' = [th EXCEPT ![t].pc = p] =>
                   \E r : Becomes(t, r, q.op, p, q.in, q.want, q.core, q.n)
             /\ th' = [th EXCEPT ![t].pc = p, ![t].n = m] =>
                   \E r : Becomes(t, r, q.op, p, q.in, q.want, q.core, m)
             /\ th' = [th EXCEPT ![t].pc = p, ![t].n = @ + 1] =>
                   \E r : Becomes(t, r, q.op, p, q.in, q.want, q.core, q.n + 1)
             /\ th' = [th EXCEPT ![t].pc = p, ![t].want = w] =>
                   \E r : Becomes(t, r, q.op, p, q.in, w, q.core, q.n)
             /\ th' = [th EXCEPT ![t].pc = p, ![t].in = j] =>
                   \E r : Becomes(t, r, q.op, p, j, q.want, q.core, q.n)
             /\ th' = [th EXCEPT ![t].pc = p, ![t].core = c] =>
                   \E r : Becomes(t, r, q.op, p, q.in, q.want, c, q.n)
             /\ th' = [th EXCEPT ![t].pc = p, ![t].core = c, ![t].in = j] =>
                   \E r : Becomes(t, r, q.op, p, j, q.want, c, q.n)
             /\ th' = [th EXCEPT ![t].pc = p, ![t].in = j, ![t].want = w] =>
                   \E r : Becomes(t, r, q.op, p, j, w, q.core, q.n)
             /\ th' = [th EXCEPT ![t].want = w, ![t].n = m, ![t].pc = p] =>
                   \E r : Becomes(t, r, q.op, p, q.in, w, q.core, m)
  <1> DEFINE q == th[t]
  <1>0. q \in Thread
    OBVIOUS
  <1>1. ASSUME th' = [th EXCEPT ![t].pc = p]
        PROVE  \E r : Becomes(t, r, q.op, p, q.in, q.want, q.core, q.n)
    <2> DEFINE r == [q EXCEPT !.pc = p]
    <2>1. r \in Thread
      BY <1>0 DEF Thread
    <2>2. th' = [th EXCEPT ![t] = r]
      BY <1>1
    <2>3. Becomes(t, r, q.op, p, q.in, q.want, q.core, q.n)
      BY <1>0, <2>1, <2>2 DEF Becomes, Thread
    <2> QED
      BY <2>3
  <1>2. ASSUME th' = [th EXCEPT ![t].pc = p, ![t].n = m]
        PROVE  \E r : Becomes(t, r, q.op, p, q.in, q.want, q.core, m)
    <2> DEFINE r == [q EXCEPT !.pc = p, !.n = m]
    <2>1. r \in Thread
      BY <1>0, Zenon DEF Thread
    <2>2. th' = [th EXCEPT ![t] = r]
      BY <1>2, Zenon
    <2>3. Becomes(t, r, q.op, p, q.in, q.want, q.core, m)
      BY <1>0, <2>1, <2>2 DEF Becomes, Thread
    <2> QED
      BY <2>3
  <1>3. ASSUME th' = [th EXCEPT ![t].pc = p, ![t].n = @ + 1]
        PROVE  \E r : Becomes(t, r, q.op, p, q.in, q.want, q.core, q.n + 1)
    <2> DEFINE r == [q EXCEPT !.pc = p, !.n = @ + 1]
    <2>0. q.n + 1 \in Nat
      BY <1>0 DEF Thread
    <2>1. r \in Thread
      BY <1>0, <2>0, Zenon DEF Thread
    <2>2. th' = [th EXCEPT ![t] = r]
      BY <1>3, Zenon
    <2>3. Becomes(t, r, q.op, p, q.in, q.want, q.core, q.n + 1)
      BY <1>0, <2>1, <2>2 DEF Becomes, Thread
    <2> QED
      BY <2>3
  <1>4. ASSUME th' = [th EXCEPT ![t].pc = p, ![t].want = w]
        PROVE  \E r : Becomes(t, r, q.op, p, q.in, w, q.core, q.n)
    <2> DEFINE r == [q EXCEPT !.pc = p, !.want = w]
    <2>1. r \in Thread
      BY <1>0, Zenon DEF Thread
    <2>2. th' = [th EXCEPT ![t] = r]
      BY <1>4, Zenon
    <2>3. Becomes(t, r, q.op, p, q.in, w, q.core, q.n)
      BY <1>0, <2>1, <2>2 DEF Becomes, Thread
    <2> QED
      BY <2>3
  <1>5. ASSUME th' = [th EXCEPT ![t].pc = p, ![t].in = j]
        PROVE  \E r : Becomes(t, r, q.op, p, j, q.want, q.core, q.n)
    <2> DEFINE r == [q EXCEPT !.pc = p, !.in = j]
    <2>1. r \in Thread
      BY <1>0, Zenon DEF Thread
    <2>2. th' = [th EXCEPT ![t] = r]
      BY <1>5, Zenon
    <2>3. Becomes(t, r, q.op, p, j, q.want, q.core, q.n)
      BY <1>0, <2>1, <2>2 DEF Becomes, Thread
    <2> QED
      BY <2>3
  <1>6. ASSUME th' = [th EXCEPT ![t].pc = p, ![t].core = c]
        PROVE  \E r : Becomes(t, r, q.op, p, q.in, q.want, c, q.n)
    <2> DEFINE r == [q EXCEPT !.pc = p, !.core = c]
    <2>1. r \in Thread
      BY <1>0, Zenon DEF Thread
    <2>2. th' = [th EXCEPT ![t] = r]
      BY <1>6, Zenon
    <2>3. Becomes(t, r, q.op, p, q.in, q.want, c, q.n)
      BY <1>0, <2>1, <2>2 DEF Becomes, Thread
    <2> QED
      BY <2>3
  <1>7. ASSUME th' = [th EXCEPT ![t].pc = p, ![t].core = c, ![t].in = j]
        PROVE  \E r : Becomes(t, r, q.op, p, j, q.want, c, q.n)
    <2> DEFINE r == [q EXCEPT !.pc = p, !.core = c, !.in = j]
    <2>1. r \in Thread
      BY <1>0, Zenon DEF Thread
    <2>2. th' = [th EXCEPT ![t] = r]
      BY <1>7, Zenon
    <2>3. Becomes(t, r, q.op, p, j, q.want, c, q.n)
      BY <1>0, <2>1, <2>2 DEF Becomes, Thread
    <2> QED
      BY <2>3
  <1>8. ASSUME th' = [th EXCEPT ![t].pc = p, ![t].in = j, ![t].want = w]
        PROVE  \E r : Becomes(t, r, q.op, p, j, w, q.core, q.n)
    <2> DEFINE r == [q EXCEPT !.pc = p, !.in = j, !.want = w]
    <2>1. r \in Thread
      BY <1>0, Zenon DEF Thread
    <2>2. th' = [th EXCEPT ![t] = r]
      BY <1>8, Zenon
    <2>3. Becomes(t, r, q.op, p, j, w, q.core, q.n)
      BY <1>0, <2>1, <2>2 DEF Becomes, Thread
    <2> QED
      BY <2>3
  <1>9. ASSUME th' = [th EXCEPT ![t].want = w, ![t].n = m, ![t].pc = p]
        PROVE  \E r : Becomes(t, r, q.op, p, q.in, w, q.core, m)
    <2> DEFINE r == [q EXCEPT !.want = w, !.n = m, !.pc = p]
    <2>1. r \in Thread
      BY <1>0, Zenon DEF Thread
    <2>2. th' = [th EXCEPT ![t] = r]
      BY <1>9, Zenon
    <2>3. Becomes(t, r, q.op, p, q.in, w, q.core, m)
      BY <1>0, <2>1, <2>2 DEF Becomes, Thread
    <2> QED
      BY <2>3
  <1> QED
    BY <1>1, <1>2, <1>3, <1>4, <1>5, <1>6, <1>7, <1>8, <1>9

\* A request that has returned.
LEMMA IdleFacts ==
  /\ Idle \in Thread /\ InOrder(Idle)
  /\ \A i \in IDs : Share(Idle, i) = 0
  <1>1. Idle \in Thread
    BY KindsOK DEF Idle, Thread, Places, None
  <1>2. /\ Idle.op = "none" /\ Idle.pc = "idle" /\ Idle.in = None /\ Idle.want = None
        /\ Idle.core = 0 /\ Idle.n = 0
    BY DEF Idle, None
  <1> QED
    BY <1>1, <1>2, Zenon DEF InOrder, Share, Holding, Waiting

\* A step that changes no count and destroys no inode.
QuietVars ==
    /\ TableTypes' /\ UNCHANGED <<fsMu, count, kernel, kind, calls, failed>>
    /\ Live \subseteq Live'
    /\ {generationBackedInodes', localFileInodes'} \subseteq Live' \cup {None}

\* A step of one request that leaves the lookup counts alone and removes no inode.
LEMMA QuietStep ==
  ASSUME IInv, NEW t \in Threads, NEW r \in Thread, InOrder(r), th' = [th EXCEPT ![t] = r],
         r = Idle \/ (r.op = th[t].op /\ r.held = th[t].held),
         \A i \in IDs : Share(r, i) = Share(th[t], i),
         QuietVars,
         \A i \in IDs : lock'[i] \in {lock[i], Free, t},
         "handler" \notin failed => \A i \in IDs : lock'[i] = t => Holds(r, i)
  PROVE  IInv'
  <1>1. /\ kind' = kind /\ calls' = calls /\ failed' = failed /\ Live \subseteq Live'
        /\ count' = count /\ kernel' = kernel /\ fsMu' = fsMu
    BY Zenon DEF QuietVars
  <1>2. /\ count' \in [IDs -> Int] /\ kernel' \in [IDs -> Nat] /\ failed' \subseteq AllFaults
        /\ \A i \in IDs : kernel[i] \in Nat /\ count[i] \in Nat
    BY <1>1 DEF IInv, TypeOK
  <1>3. \A i \in IDs : Share(r, i) \in Nat
    BY InFlightMoves, Zenon DEF IInv, TypeOK
  <1>4. \A i \in IDs : /\ count'[i] - kernel'[i] - Share(r, i) = count[i] - kernel[i] - Share(th[t], i)
                       /\ count'[i] - kernel'[i] - Share(r, i) >= count[i] - kernel[i] - Share(th[t], i)
                       /\ kernel'[i] + Share(r, i) <= kernel[i] + Share(th[t], i)
    BY <1>1, <1>2, <1>3
  <1>5. {generationBackedInodes', localFileInodes'} \subseteq Live' \cup {None}
    BY Zenon DEF QuietVars
  <1>6. TableTypes'
    BY DEF QuietVars
  <1> QED
    BY <1>1, <1>2, <1>4, <1>5, <1>6, GrowStep, Zenon

\* The request goes on: it has no lock afterwards, or the one of the inode it wants.
LEMMA QuietMove ==
  ASSUME IInv, NEW t \in Threads, NEW r, NEW p, NEW i, NEW w, NEW c, NEW m,
         Becomes(t, r, th[t].op, p, i, w, c, m), InOrder(r), QuietVars,
         th[t].pc # "respond", p # "respond",
         th[t].op \in {"Flush", "Write", "Forget"} => w = th[t].want,
         th[t].op = "Forget" => m = th[t].n,
         \/ lock' = lock /\ th[t].pc \notin Holding
         \/ th[t].pc \in Holding /\ lock' = [lock EXCEPT ![th[t].want] = Free]
         \/ /\ p \in Holding /\ w = th[t].want
            /\ \/ lock' = lock /\ th[t].pc \in Holding
               \/ lock' = [lock EXCEPT ![w] = t] /\ th[t].pc \notin Holding
  PROVE  IInv'
  <1>1. /\ r \in Thread /\ th' = [th EXCEPT ![t] = r] /\ r.op = th[t].op /\ r.pc = p
        /\ r.want = w /\ r.n = m /\ r.held = th[t].held
    BY Zenon DEF Becomes
  <1>2. \A k \in IDs : Share(r, k) = Share(th[t], k)
    BY <1>1, Zenon DEF Share
  <1>3. /\ \A k \in IDs : lock'[k] \in {lock[k], Free, t}
        /\ "handler" \notin failed => \A k \in IDs : lock'[k] = t => Holds(r, k)
    <2>1. CASE \/ lock' = lock /\ th[t].pc \notin Holding
               \/ th[t].pc \in Holding /\ lock' = [lock EXCEPT ![th[t].want] = Free]
      BY <2>1, Released, Zenon
    <2>2. lock \in [IDs -> Threads \cup {Free}]
      BY Zenon DEF IInv, TypeOK
    <2>3. "handler" \notin failed => \A k \in IDs : lock[k] = t => Holds(th[t], k)
      BY Zenon DEF IInv, LocksOwned, Holds
    <2>4. CASE p \in Holding /\ w = th[t].want /\ lock' = lock /\ th[t].pc \in Holding
      BY <1>1, <2>2, <2>3, <2>4, Zenon DEF Holds
    <2>5. CASE p \in Holding /\ w = th[t].want /\ lock' = [lock EXCEPT ![w] = t] /\ th[t].pc \notin Holding
      BY <1>1, <2>2, <2>3, <2>5 DEF Holds
    <2> QED
      BY <2>1, <2>4, <2>5, Zenon
  <1> QED
    BY <1>1, <1>2, <1>3, QuietStep, Zenon

\* The request ends.
LEMMA QuietDone ==
  ASSUME IInv, NEW t \in Threads, th' = [th EXCEPT ![t] = Idle], QuietVars,
         th[t].pc # "respond", th[t].op # "Forget",
         \/ lock' = lock /\ th[t].pc \notin Holding
         \/ th[t].pc \in Holding /\ lock' = [lock EXCEPT ![th[t].want] = Free]
  PROVE  IInv'
  <1>1. \A k \in IDs : Share(Idle, k) = Share(th[t], k)
    BY IdleFacts DEF Share
  <1>2. /\ \A k \in IDs : lock'[k] \in {lock[k], Free, t}
        /\ "handler" \notin failed => \A k \in IDs : lock'[k] # t
    BY Released
  <1> QED
    BY <1>1, <1>2, IdleFacts, QuietStep, Zenon

\* The request counts a lookup of inode j and answers with it.
LEMMA Take ==
  ASSUME IInv, NEW t \in Threads, NEW r, NEW j \in IDs, NEW w, NEW c, NEW m,
         Becomes(t, r, th[t].op, "respond", j, w, c, m), InOrder(r),
         th[t].pc # "respond",
         count' = [count EXCEPT ![j] = @ + 1], kernel' = kernel,
         TableTypes', kind' = kind, calls' = calls,
         failed \subseteq failed', failed' \subseteq AllFaults,
         Live \subseteq Live', fsMu' = fsMu,
         j \in Live', {generationBackedInodes', localFileInodes'} \subseteq Live' \cup {None},
         \A k \in IDs : lock'[k] \in {lock[k], Free, t},
         "handler" \notin failed' => \A k \in IDs : lock'[k] = t => k = j
  PROVE  IInv'
  <1>1. /\ r \in Thread /\ th' = [th EXCEPT ![t] = r] /\ r.op = th[t].op /\ r.pc = "respond"
        /\ r.in = j /\ r.held = th[t].held
    BY Zenon DEF Becomes
  <1>2. r.op \in {"LookUp", "ReadDirPlus", "Rename", "MkNode", "Create"}
    BY <1>1, Zenon DEF InOrder
  <1>3. \A k \in IDs : Share(th[t], k) = 0 /\ Share(r, k) = IF k = j THEN 1 ELSE 0
    BY <1>1, <1>2, Zenon DEF Share
  <1>4. count \in [IDs -> Nat] /\ kernel \in [IDs -> Nat]
    BY Zenon DEF IInv, TypeOK
  <1>5. count' \in [IDs -> Int] /\ \A k \in IDs : count'[k] = IF k = j THEN count[k] + 1 ELSE count[k]
    BY <1>4
  <1>6. \A k \in IDs : /\ count'[k] - kernel'[k] - Share(r, k) >= count[k] - kernel[k] - Share(th[t], k)
                       /\ count'[k] - kernel'[k] - Share(r, k) = count[k] - kernel[k] - Share(th[t], k)
    BY <1>3, <1>4, <1>5
  <1>7. \A k \in IDs : kernel'[k] + Share(r, k) <= kernel[k] + Share(th[t], k) \/ k \in Live'
    BY <1>3, <1>4
  <1>8. "handler" \notin failed' => \A k \in IDs : lock'[k] = t => Holds(r, k)
    BY <1>1, Zenon DEF Holds
  <1> QED
    BY <1>1, <1>2, <1>4, <1>5, <1>6, <1>7, <1>8, GrowStep, Zenon

\* The table and the inodes are as they were.
LEMMA Untouched ==
  ASSUME IInv, UNCHANGED <<tableVars, inodeVars, gcsVars, count, kernel, auxVars>>,
         lock' \in [IDs -> Threads \cup {Free}]
  PROVE  QuietVars
  BY DEF IInv, TypeOK, IndexesLive, Live, QuietVars, TableTypes, tableVars, inodeVars, gcsVars, auxVars

\* What a lock becomes.
LEMMA LockTypes ==
  ASSUME IInv, NEW t \in Threads, NEW i
  PROVE  /\ lock \in [IDs -> Threads \cup {Free}]
         /\ [lock EXCEPT ![i] = Free] \in [IDs -> Threads \cup {Free}]
         /\ [lock EXCEPT ![i] = t] \in [IDs -> Threads \cup {Free}]
  BY Zenon DEF IInv, TypeOK

-----------------------------------------------------------------------------
(* The steps that find an inode.                                           *)

\* What is known of any request in progress.
LEMMA ReqFacts ==
  ASSUME IInv, NEW t \in Threads
  PROVE  /\ th \in [Threads -> Thread] /\ th[t] \in Thread /\ InOrder(th[t])
         /\ th[t].in \in IDs \cup {None} /\ th[t].want \in IDs \cup {None} /\ th[t].n \in Nat
         /\ th[t].core \in 0..MaxGen /\ None \in IDs \cup {None} /\ 0 \in Nat
  BY DEF IInv, TypeOK, Thread

\* Acquiring the lock of the inode wanted.
LEMMA LockOK ==
  ASSUME IInv, NEW t \in Threads, Lock(t)
  PROVE  IInv'
  <1> DEFINE q == th[t]
             p == AfterLock[q.pc]
  <1>1. q \in Thread /\ InOrder(q)
    BY ReqFacts, Zenon
  <1>2. q.pc \in Waiting /\ p \in Holding /\ p \in Places
    BY DEF Lock, AfterLock, Waiting, Holding, Places
  <1>3. PICK r : Becomes(t, r, q.op, p, q.in, q.want, q.core, q.n)
    <2>1. th' = [th EXCEPT ![t].pc = p]
      BY Zenon DEF Lock, Goto
    <2> HIDE DEF p
    <2> QED
      BY <1>2, <2>1, ReqFacts, Moves, Zenon
  <1>4. InOrder(r)
    <2>1. r.op = q.op /\ r.pc = p /\ r.want = q.want /\ r.n = q.n /\ r.held = q.held
      BY <1>3 DEF Becomes
    <2>2. \/ q.pc = "lockLocal" /\ p = "checkLocal"
          \/ q.pc = "lockIndex" /\ p = "checkIndex"
          \/ q.pc = "lockFlush" /\ p = "flush"
          \/ q.pc = "lockForget" /\ p = "forget"
          \/ q.pc = "lockUnlink" /\ p = "unlink"
          \/ q.pc \in {"lockInit", "lockCreated", "lockFailed"} /\ p \in {"init", "created", "failed"}
          \/ q.pc = "lockWrite" /\ p = "write"
      <3>1. p = AfterLock[q.pc]
        BY Zenon
      <3>2. /\ AfterLock["lockLocal"] = "checkLocal" /\ AfterLock["lockIndex"] = "checkIndex"
            /\ AfterLock["lockFlush"] = "flush" /\ AfterLock["lockForget"] = "forget"
            /\ AfterLock["lockUnlink"] = "unlink" /\ AfterLock["lockInit"] = "init"
            /\ AfterLock["lockCreated"] = "created" /\ AfterLock["lockFailed"] = "failed"
            /\ AfterLock["lockWrite"] = "write"
        BY Zenon DEF AfterLock
      <3> HIDE DEF p, q
      <3> QED
        BY <1>2, <3>1, <3>2 DEF Waiting
    <2>3. q.op # "none" /\ q.want \in IDs
      BY <1>1, <1>2, Zenon DEF InOrder, Waiting, Idle
    <2>4. /\ q.op = "Forget" => q.n \in 1..MaxCalls
          /\ q.op \in {"Flush", "Write"} => q.held = q.want
          /\ q.pc = "lockForget" => q.op = "Forget"
          /\ q.pc = "lockWrite" => q.op = "Write"
          /\ q.pc = "lockUnlink" => q.op = "Unlink"
          /\ q.pc \in {"lockInit", "lockCreated", "lockFailed"} => q.op = "Create"
          /\ q.pc = "lockFlush" => q.op \in {"Flush", "Rename"}
          /\ q.pc = "lockLocal" => q.op \in {"LookUp", "ReadDirPlus", "Rename"}
          /\ q.pc = "lockIndex" => q.op \in {"LookUp", "ReadDirPlus", "Rename", "MkNode"}
      BY <1>1, Zenon DEF InOrder
    <2> HIDE DEF p, q
    <2> QED
      BY <2>1, <2>2, <2>3, <2>4, Zenon DEF InOrder, Waiting, Holding
  <1>7. QuietVars
    BY LockTypes, Untouched, Zenon DEF Lock
  <1>8. q.pc \notin Holding /\ q.pc # "respond" /\ p # "respond"
    BY <1>2 DEF Waiting, Holding
  <1>9. lock' = [lock EXCEPT ![q.want] = t]
    BY DEF Lock
  <1> HIDE DEF p
  <1> QED
    BY <1>2, <1>3, <1>4, <1>7, <1>8, <1>9, QuietMove, Zenon

\* A request that goes to GCS, or gives up.
LEMMA NoLocalFileOK ==
  ASSUME IInv, NEW t \in Threads, th[t].pc \in {"local", "checkLocal"}, th' = NoLocalFile(t), QuietVars,
         \/ lock' = lock /\ th[t].pc = "local"
         \/ th[t].pc = "checkLocal" /\ lock' = [lock EXCEPT ![th[t].want] = Free]
  PROVE  IInv'
  <1> DEFINE q == th[t]
  <1>1. q \in Thread /\ InOrder(q) /\ q.op \in {"LookUp", "ReadDirPlus", "Rename"}
    BY ReqFacts, Zenon DEF InOrder
  <1>2. /\ "local" \notin Holding /\ "checkLocal" \in Holding
        /\ \/ lock' = lock /\ q.pc \notin Holding
           \/ q.pc \in Holding /\ lock' = [lock EXCEPT ![q.want] = Free]
    BY DEF Holding
  <1>3. CASE q.op = "ReadDirPlus"
    BY <1>2, <1>3, QuietDone, Zenon DEF NoLocalFile
  <1>4. CASE q.op # "ReadDirPlus"
    <2>1. PICK r : Becomes(t, r, q.op, "stat", q.in, q.want, q.core, 0)
      <3>1. th' = [th EXCEPT ![t].pc = "stat", ![t].n = 0] /\ "stat" \in Places
        BY <1>4, Zenon DEF NoLocalFile, Places
      <3> QED
        BY <3>1, ReqFacts, Moves, Zenon
    <2>2. InOrder(r)
      BY <1>1, <2>1 DEF Becomes, InOrder, Holding, Waiting
    <2> QED
      BY <1>1, <1>2, <2>1, <2>2, QuietMove, Zenon
  <1> QED
    BY <1>3, <1>4, Zenon

\* lookUpLocalFileInode takes fs.mu, reads localFileInodes and asks for the inode's lock.
LEMMA LookUpLocalOK ==
  ASSUME IInv, NEW t \in Threads, lookUpLocalFileInode(t)
  PROVE  IInv'
  <1> DEFINE q == th[t]
  <1>1. q \in Thread /\ InOrder(q) /\ q.pc = "local" /\ q.op \in {"LookUp", "ReadDirPlus", "Rename"}
    BY ReqFacts DEF lookUpLocalFileInode, At, InOrder
  <1>2. QuietVars /\ lock' = lock
    BY LockTypes, Untouched DEF lookUpLocalFileInode
  <1>3. CASE localFileInodes = None
    BY <1>1, <1>2, <1>3, NoLocalFileOK DEF lookUpLocalFileInode
  <1>4. CASE localFileInodes # None
    <2>1. localFileInodes \in IDs
      BY <1>4 DEF IInv, TypeOK
    <2>2. PICK r : Becomes(t, r, q.op, "lockLocal", q.in, localFileInodes, q.core, q.n)
      <3>1. th' = [th EXCEPT ![t].pc = "lockLocal", ![t].want = localFileInodes] /\ "lockLocal" \in Places
        BY <1>4, Zenon DEF lookUpLocalFileInode, Places, AfterLock
      <3> QED
        BY <2>1, <3>1, ReqFacts, Moves, Zenon
    <2>3. InOrder(r) /\ q.pc \notin Holding
      BY <1>1, <2>1, <2>2, Zenon DEF Becomes, InOrder, Holding, Waiting
    <2> QED
      BY <1>1, <1>2, <2>2, <2>3, QuietMove, Zenon
  <1> QED
    BY <1>3, <1>4

\* The locks of a request that answers with the inode it holds.
LEMMA OwnLock ==
  ASSUME IInv, NEW t \in Threads, th[t].pc \in Holding
  PROVE  "handler" \notin failed => \A k \in IDs : lock[k] = t => k = th[t].want
  BY DEF IInv, LocksOwned, Holding

\* lookUpLocalFileInode once it holds the lock: the inode is taken, or the search starts over.
LEMMA CheckLocalOK ==
  ASSUME IInv, NEW t \in Threads, checkLocal(t)
  PROVE  IInv'
  <1> DEFINE q == th[t]
             child == q.want
  <1>1. /\ q \in Thread /\ InOrder(q) /\ q.pc = "checkLocal" /\ q.op \in {"LookUp", "ReadDirPlus", "Rename"}
        /\ q.want \in IDs /\ q.pc \in Holding
    BY ReqFacts DEF checkLocal, At, InOrder, Holding
  <1>2. UNCHANGED <<tableVars, inodeVars, gcsVars, kernel, auxVars>>
    BY DEF checkLocal
  <1>3. CASE /\ child \notin unlinked /\ localFileInodes = child
             /\ Increment(child)
             /\ th' = [th EXCEPT ![t].pc = "respond", ![t].in = child]
             /\ UNCHANGED lock
    <2>1. PICK r : Becomes(t, r, q.op, "respond", child, q.want, q.core, q.n)
      <3>1. "respond" \in Places
        BY DEF Places
      <3> QED
        BY <1>1, <1>3, <3>1, ReqFacts, Moves, Zenon
    <2>2. InOrder(r)
      BY <1>1, <2>1, Zenon DEF Becomes, InOrder, Holding, Waiting
    <2>3. child \in Live' /\ {generationBackedInodes', localFileInodes'} \subseteq Live' \cup {None}
      <3>1. child # None
        BY <1>1 DEF IDs, None
      <3> QED
        BY <1>2, <1>3, <3>1, Zenon DEF IInv, IndexesLive, Live, tableVars, auxVars
    <2>4. TableTypes' /\ failed' = failed /\ kind' = kind /\ calls' = calls /\ Live' = Live /\ fsMu' = fsMu
      BY <1>2, <1>3 DEF IInv, TypeOK, TableTypes, Live, tableVars, inodeVars, gcsVars, auxVars
    <2>5. failed' \subseteq AllFaults /\ kernel' = kernel /\ lock' = lock
      BY <1>2, <1>3, <2>4, Zenon DEF IInv, TypeOK
    <2>6. "handler" \notin failed' => \A k \in IDs : lock'[k] = t => k = child
      BY <1>1, <2>4, <2>5, OwnLock
    <2>7. count' = [count EXCEPT ![child] = @ + 1]
      BY <1>3, Zenon DEF Increment
    <2>8. /\ failed \subseteq failed' /\ Live \subseteq Live' /\ th[t].pc # "respond" /\ child \in IDs
          /\ \A k \in IDs : lock'[k] \in {lock[k], Free, t}
      BY <1>1, <2>4, <2>5
    <2> HIDE DEF child
    <2> QED
      BY <2>1, <2>2, <2>3, <2>4, <2>5, <2>6, <2>7, <2>8, Take, Zenon
  <1>4. CASE child \in unlinked /\ Unlock(child) /\ th' = NoLocalFile(t) /\ UNCHANGED count
    <2>1. QuietVars /\ lock' = [lock EXCEPT ![child] = Free]
      BY <1>2, <1>4, LockTypes, Untouched DEF Unlock
    <2> QED
      BY <1>1, <1>4, <2>1, NoLocalFileOK, Zenon
  <1>5. CASE /\ child \notin unlinked /\ localFileInodes # child
             /\ Unlock(child)
             /\ th' = IF th[t].n < 2 THEN [th EXCEPT ![t].pc = "local", ![t].n = @ + 1] ELSE NoLocalFile(t)
             /\ UNCHANGED count
    <2>1. QuietVars /\ lock' = [lock EXCEPT ![child] = Free]
      BY <1>2, <1>5, LockTypes, Untouched DEF Unlock
    <2>2. CASE th[t].n < 2
      <3>1. PICK r : Becomes(t, r, q.op, "local", q.in, q.want, q.core, q.n + 1)
        <4>1. "local" \in Places
          BY Zenon DEF Places
        <4> QED
          BY <1>5, <2>2, <4>1, ReqFacts, Moves, Zenon
      <3>2. InOrder(r)
        BY <1>1, <3>1 DEF Becomes, InOrder, Holding, Waiting
      <3> QED
        BY <1>1, <2>1, <3>1, <3>2, QuietMove, Zenon
    <2>3. CASE ~(th[t].n < 2)
      BY <1>1, <1>5, <2>1, <2>3, NoLocalFileOK, Zenon
    <2> QED
      BY <2>2, <2>3
  <1> QED
    BY <1>3, <1>4, <1>5, Zenon DEF checkLocal

\* The generations fit.
LEMMA GenTypes ==
  ASSUME IInv
  PROVE  /\ kind.gens \in 0..MaxGen /\ objGen \in 0..MaxGen /\ lastGen \in 0..MaxGen
         /\ srcGen \in [IDs -> 0..MaxGen]
         /\ lastGen < kind.gens => lastGen + 1 \in 0..kind.gens /\ lastGen + 1 \in 0..MaxGen
  BY KindsOK DEF IInv, TypeOK

\* The object's generation and that of no object are among those of the run's kind.
LEMMA ObjectTypes ==
  ASSUME IInv
  PROVE  None \in 0..kind.gens /\ objGen \in 0..kind.gens /\ lastGen \in 0..kind.gens
  <1>1. kind.gens \in Nat
    BY KindsOK DEF IInv, TypeOK
  <1>2. None \in 0..kind.gens
    BY ONLY <1>1 DEF None
  <1> QED
    BY <1>2, Zenon DEF IInv, TypeOK

\* getLookupResult
LEMMA LookUpChildOK ==
  ASSUME IInv, NEW t \in Threads, LookUpChild(t)
  PROVE  IInv'
  <1> DEFINE q == th[t]
  <1>1. /\ q \in Thread /\ InOrder(q) /\ q.pc = "stat" /\ q.op \in {"LookUp", "ReadDirPlus", "Rename"}
        /\ q.pc \notin Holding
    BY ReqFacts DEF LookUpChild, At, InOrder, Holding
  <1>2. QuietVars /\ lock' = lock
    BY LockTypes, Untouched DEF LookUpChild
  <1>3. CASE objGen = None
    BY <1>1, <1>2, <1>3, QuietDone, Zenon DEF LookUpChild
  <1>4. CASE objGen # None
    <2>1. PICK r : Becomes(t, r, q.op, "index", None, q.want, objGen, q.n)
      <3>1. th' = [th EXCEPT ![t].pc = "index", ![t].core = objGen, ![t].in = None] /\ "index" \in Places
        BY <1>4, Zenon DEF LookUpChild, Places
      <3> QED
        BY <3>1, GenTypes, ReqFacts, Moves, Zenon
    <2>2. InOrder(r)
      BY <1>1, <2>1 DEF Becomes, InOrder, Holding, Waiting
    <2> QED
      BY <1>1, <1>2, <2>1, <2>2, QuietMove, Zenon
  <1> QED
    BY <1>3, <1>4

\* A new inode.
LEMMA MintFacts ==
  ASSUME IInv, NEW g \in 0..MaxGen, mintInode(g)
  PROVE  /\ nextInodeID \in IDs /\ nextInodeID' \in Nat \ {0}
         /\ inodes' = inodes \cup {nextInodeID} /\ inodes' \subseteq IDs
         /\ srcGen' \in [IDs -> 0..MaxGen] /\ local' \subseteq IDs /\ unlinked' = unlinked /\ fsMu' = fsMu
  <1>1. nextInodeID \in IDs /\ nextInodeID \in Nat \ {0} /\ nextInodeID' = nextInodeID + 1
    BY DEF IInv, TypeOK, mintInode
  <1>2. nextInodeID' \in Nat \ {0}
    BY <1>1
  <1>3. inodes' = inodes \cup {nextInodeID} /\ inodes' \subseteq IDs /\ unlinked' = unlinked /\ fsMu' = fsMu
    BY <1>1, Zenon DEF IInv, TypeOK, mintInode
  <1>4. srcGen' \in [IDs -> 0..MaxGen]
    BY <1>1, Zenon DEF IInv, TypeOK, mintInode
  <1>5. local' \subseteq IDs
    BY <1>1 DEF IInv, TypeOK, mintInode
  <1> QED
    BY <1>1, <1>2, <1>3, <1>4, <1>5, Zenon

\* lookUpOrCreateInodeIfNotStale under fs.mu: an inode is minted, or the one in the index wanted.
LEMMA LookUpOrCreateOK ==
  ASSUME IInv, NEW t \in Threads, lookUpOrCreateInodeIfNotStale(t)
  PROVE  IInv'
  <1> DEFINE q == th[t]
  <1>1. /\ q \in Thread /\ InOrder(q) /\ q.pc = "index" /\ q.op \in {"LookUp", "ReadDirPlus", "Rename", "MkNode"}
        /\ q.pc \notin Holding
    BY ReqFacts DEF lookUpOrCreateInodeIfNotStale, At, InOrder, Holding
  <1>2. UNCHANGED <<gcsVars, kernel, auxVars>>
    BY DEF lookUpOrCreateInodeIfNotStale
  <1>3. CASE /\ generationBackedInodes = None
             /\ mintInode(th[t].core)
             /\ generationBackedInodes' = nextInodeID
             /\ lock' = [lock EXCEPT ![nextInodeID] = t]
             /\ Increment(nextInodeID)
             /\ th' = [th EXCEPT ![t].pc = "respond", ![t].in = nextInodeID]
             /\ UNCHANGED <<localFileInodes, dirty>>
    <2>1. /\ nextInodeID \in IDs /\ nextInodeID' \in Nat \ {0}
          /\ inodes' = inodes \cup {nextInodeID} /\ inodes' \subseteq IDs
          /\ srcGen' \in [IDs -> 0..MaxGen] /\ local' \subseteq IDs /\ unlinked' = unlinked /\ fsMu' = fsMu
      BY <1>3, ReqFacts, MintFacts
    <2>2. PICK r : Becomes(t, r, q.op, "respond", nextInodeID, q.want, q.core, q.n)
      <3>1. "respond" \in Places
        BY DEF Places
      <3> QED
        BY <1>3, <2>1, <3>1, ReqFacts, Moves, Zenon
    <2>3. InOrder(r)
      BY <1>1, <2>1, <2>2 DEF Becomes, InOrder, Holding, Waiting
    <2>4. failed' = failed /\ kind' = kind /\ calls' = calls /\ kernel' = kernel /\ revived' = revived
      BY <1>2 DEF auxVars
    <2>5. nextInodeID \in Live' /\ {generationBackedInodes', localFileInodes'} \subseteq Live' \cup {None}
      BY <1>3, <2>1, <2>4 DEF IInv, IndexesLive, Live
    <2>6. TableTypes'
      BY <1>2, <1>3, <2>1, <2>4, LockTypes, Zenon DEF IInv, TypeOK, TableTypes, gcsVars
    <2>7. failed \subseteq failed' /\ failed' \subseteq AllFaults /\ Live \subseteq Live'
      BY <2>1, <2>4 DEF IInv, TypeOK, Live
    <2>8. /\ \A k \in IDs : lock'[k] \in {lock[k], Free, t}
          /\ "handler" \notin failed' => \A k \in IDs : lock'[k] = t => k = nextInodeID
      <3>1. "handler" \notin failed => \A k \in IDs : lock[k] # t
        BY <1>1 DEF IInv, LocksOwned
      <3> QED
        BY <1>3, <2>4, <3>1, LockTypes, Zenon
    <2>9. count' = [count EXCEPT ![nextInodeID] = @ + 1] /\ th[t].pc # "respond"
      BY <1>1, <1>3 DEF Increment
    <2> QED
      BY <2>1, <2>2, <2>3, <2>4, <2>5, <2>6, <2>7, <2>8, <2>9, Take, Zenon
  <1>4. CASE /\ generationBackedInodes # None
             /\ th' = [th EXCEPT ![t].pc = "lockIndex", ![t].want = generationBackedInodes]
             /\ UNCHANGED <<tableVars, inodeVars, lock, count>>
    <2>1. generationBackedInodes \in IDs
      BY <1>4 DEF IInv, TypeOK
    <2>2. PICK r : Becomes(t, r, q.op, "lockIndex", q.in, generationBackedInodes, q.core, q.n)
      <3>1. "lockIndex" \in Places
        BY Zenon DEF Places, AfterLock
      <3> QED
        BY <1>4, <2>1, <3>1, ReqFacts, Moves, Zenon
    <2>3. InOrder(r)
      BY <1>1, <2>1, <2>2 DEF Becomes, InOrder, Holding, Waiting
    <2>4. QuietVars /\ lock' = lock
      BY <1>2, <1>4, LockTypes, Untouched, Zenon
    <2> QED
      BY <1>1, <2>2, <2>3, <2>4, QuietMove, Zenon
  <1> QED
    BY <1>3, <1>4, Zenon DEF lookUpOrCreateInodeIfNotStale

\* A request at checkIndex holds the lock of the inode it wants.
LEMMA CheckIndex ==
  ASSUME IInv, NEW t \in Threads, At(t, "checkIndex")
  PROVE  /\ th[t] \in Thread /\ InOrder(th[t]) /\ th[t].pc = "checkIndex" /\ th[t].want \in IDs
         /\ th[t].op \in {"LookUp", "ReadDirPlus", "Rename", "MkNode"}
         /\ th[t].pc \in Holding /\ th[t].pc # "respond"
  BY ReqFacts DEF At, InOrder, Holding

\* lookUpOrCreateInodeIfNotStale finds that the index changed while it waited for the lock.
LEMMA IndexChangedOK ==
  ASSUME IInv, NEW t \in Threads, IndexChanged(t)
  PROVE  IInv'
  <1> DEFINE q == th[t]
  <1>1. /\ q \in Thread /\ InOrder(q) /\ q.pc = "checkIndex" /\ q.pc \in Holding
        /\ q.op \in {"LookUp", "ReadDirPlus", "Rename", "MkNode"}
    BY CheckIndex, Zenon DEF IndexChanged
  <1>2. QuietVars /\ lock' = [lock EXCEPT ![q.want] = Free]
    BY LockTypes, Untouched DEF IndexChanged, Unlock
  <1>3. PICK r : Becomes(t, r, q.op, "index", q.in, q.want, q.core, q.n)
    <2>1. th' = [th EXCEPT ![t].pc = "index"] /\ "index" \in Places
      BY Zenon DEF IndexChanged, Goto, Places
    <2> QED
      BY <2>1, ReqFacts, Moves, Zenon
  <1>4. InOrder(r)
    BY <1>1, <1>3 DEF Becomes, InOrder, Holding, Waiting
  <1> QED
    BY <1>1, <1>2, <1>3, <1>4, QuietMove, Zenon

\* lookUpOrCreateInodeIfNotStale returns the inode of the record's generation, one lookup more.
LEMMA SameGenerationOK ==
  ASSUME IInv, NEW t \in Threads, SameGeneration(t)
  PROVE  IInv'
  <1> DEFINE q == th[t]
             j == q.want
  <1>1. /\ q \in Thread /\ InOrder(q) /\ q.pc = "checkIndex" /\ q.pc \in Holding /\ j \in IDs
        /\ q.op \in {"LookUp", "ReadDirPlus", "Rename", "MkNode"} /\ q.pc # "respond"
    BY CheckIndex DEF SameGeneration
  <1>2. PICK r : Becomes(t, r, q.op, "respond", j, q.want, q.core, q.n)
    <2>1. th' = [th EXCEPT ![t].pc = "respond", ![t].in = j] /\ "respond" \in Places
      BY Zenon DEF SameGeneration, Places
    <2> QED
      BY <1>1, <2>1, ReqFacts, Moves, Zenon
  <1>3. InOrder(r)
    BY <1>1, <1>2 DEF Becomes, InOrder, Holding, Waiting
  <1>4. /\ failed' = failed /\ kind' = kind /\ calls' = calls /\ kernel' = kernel /\ lock' = lock
        /\ Live' = Live /\ revived' = revived /\ fsMu' = fsMu
        /\ count' = [count EXCEPT ![j] = @ + 1]
    BY DEF SameGeneration, Increment, Live, auxVars, tableVars
  <1>5. j \in Live' /\ {generationBackedInodes', localFileInodes'} \subseteq Live' \cup {None}
    <2>1. j # None /\ generationBackedInodes = j
      BY <1>1 DEF IDs, None, SameGeneration
    <2> QED
      BY <1>4, <2>1 DEF IInv, IndexesLive, SameGeneration, tableVars
  <1>6. TableTypes'
    BY <1>4, Zenon DEF SameGeneration, IInv, TypeOK, TableTypes, tableVars, inodeVars, gcsVars
  <1>7. failed \subseteq failed' /\ failed' \subseteq AllFaults /\ Live \subseteq Live'
    BY <1>4 DEF IInv, TypeOK
  <1>8. /\ \A k \in IDs : lock'[k] \in {lock[k], Free, t}
        /\ "handler" \notin failed' => \A k \in IDs : lock'[k] = t => k = j
    BY <1>1, <1>4, OwnLock, Zenon
  <1> HIDE DEF j
  <1> QED
    BY <1>1, <1>2, <1>3, <1>4, <1>5, <1>6, <1>7, <1>8, Take, Zenon

\* lookUpOrCreateInodeIfNotStale gives up a record older than the inode, having minted none.
LEMMA StaleRecordOK ==
  ASSUME IInv, NEW t \in Threads, StaleRecord(t)
  PROVE  IInv'
  <1> DEFINE q == th[t]
  <1>1. /\ q \in Thread /\ InOrder(q) /\ q.pc = "checkIndex" /\ q.pc \in Holding
        /\ q.op \in {"LookUp", "ReadDirPlus", "Rename", "MkNode"}
    BY CheckIndex, Zenon DEF StaleRecord
  <1>2. QuietVars /\ lock' = [lock EXCEPT ![q.want] = Free]
    BY LockTypes, Untouched DEF StaleRecord, Unlock
  <1>3. CASE q.op \in {"LookUp", "Rename"} /\ q.n < 2
    <2>1. PICK r : Becomes(t, r, q.op, "stat", q.in, q.want, q.core, q.n + 1)
      <3>1. th' = [th EXCEPT ![t].pc = "stat", ![t].n = @ + 1] /\ "stat" \in Places
        BY <1>3, Zenon DEF StaleRecord, Stale, Places
      <3> QED
        BY <3>1, ReqFacts, Moves, Zenon
    <2>2. InOrder(r)
      BY <1>1, <1>3, <2>1 DEF Becomes, InOrder, Holding, Waiting
    <2> QED
      BY <1>1, <1>2, <2>1, <2>2, QuietMove, Zenon
  <1>4. CASE ~(q.op \in {"LookUp", "Rename"} /\ q.n < 2)
    BY <1>1, <1>2, <1>4, QuietDone, Zenon DEF StaleRecord, Stale
  <1> QED
    BY <1>3, <1>4

\* lookUpOrCreateInodeIfNotStale returns the inode it minted on an earlier turn of its loop: the
\* kernel comes to know it even if the table no longer holds it ("revived").
LEMMA StaleRecordMintedOK ==
  ASSUME IInv, NEW t \in Threads, StaleRecordMinted(t)
  PROVE  IInv'
  <1> DEFINE q == th[t]
             j == q.in
  <1>1. /\ q \in Thread /\ InOrder(q) /\ q.pc = "checkIndex" /\ q.pc \in Holding
        /\ q.op \in {"LookUp", "ReadDirPlus", "Rename", "MkNode"} /\ q.pc # "respond"
    BY CheckIndex, ZenonT(40) DEF StaleRecordMinted
  <1>2. j \in IDs
    BY ReqFacts, Zenon DEF StaleRecordMinted
  <1>3. PICK r : Becomes(t, r, q.op, "respond", j, q.want, q.core, q.n)
    <2>1. th' = [th EXCEPT ![t].pc = "respond"] /\ "respond" \in Places
      BY Zenon DEF StaleRecordMinted, Goto, Places
    <2> QED
      BY <2>1, ReqFacts, Moves, Zenon
  <1>4. InOrder(r)
    BY <1>1, <1>2, <1>3, ZenonT(40) DEF Becomes, InOrder, Holding, Waiting
  <1>5. /\ failed' = failed /\ kind' = kind /\ calls' = calls /\ kernel' = kernel
        /\ revived' = revived \cup ({j} \ inodes)
        /\ lock' = [lock EXCEPT ![q.want] = Free] /\ inodes' = inodes /\ fsMu' = fsMu
        /\ count' = [count EXCEPT ![j] = @ + 1]
    BY Zenon DEF StaleRecordMinted, Increment, Unlock, tableVars
  <1>6. TableTypes'
    BY <1>2, <1>5, LockTypes, Zenon DEF StaleRecordMinted, IInv, TypeOK, TableTypes, tableVars, inodeVars, gcsVars
  <1>7. /\ failed \subseteq failed' /\ failed' \subseteq AllFaults /\ Live \subseteq Live' /\ j \in Live'
    BY <1>5 DEF IInv, TypeOK, Live
  <1>8. /\ \A k \in IDs : lock'[k] \in {lock[k], Free, t}
        /\ "handler" \notin failed' => \A k \in IDs : lock'[k] = t => k = j
    BY <1>1, <1>5, Released, Zenon
  <1>9. /\ kind' = kind /\ calls' = calls /\ kernel' = kernel /\ fsMu' = fsMu
        /\ count' = [count EXCEPT ![j] = @ + 1]
    BY <1>5, SMTT(30)
  <1>10. {generationBackedInodes', localFileInodes'} \subseteq Live' \cup {None}
    BY <1>7 DEF StaleRecordMinted, IInv, IndexesLive, tableVars
  <1> HIDE DEF j
  <1> QED
    BY <1>1, <1>2, <1>3, <1>4, <1>6, <1>7, <1>8, <1>9, <1>10, Take, Zenon

\* lookUpOrCreateInodeIfNotStale replaces the index entry of an older generation.
LEMMA NewerObjectOK ==
  ASSUME IInv, NEW t \in Threads, NewerObject(t)
  PROVE  IInv'
  <1> DEFINE q == th[t]
  <1>1. /\ q \in Thread /\ InOrder(q) /\ q.pc = "checkIndex" /\ q.pc \in Holding
        /\ q.op \in {"LookUp", "ReadDirPlus", "Rename", "MkNode"} /\ q.pc # "respond"
    BY CheckIndex DEF NewerObject
  <1>2. /\ nextInodeID \in IDs /\ nextInodeID' \in Nat \ {0}
        /\ inodes' = inodes \cup {nextInodeID} /\ inodes' \subseteq IDs
        /\ srcGen' \in [IDs -> 0..MaxGen] /\ local' \subseteq IDs /\ unlinked' = unlinked /\ fsMu' = fsMu
    BY ReqFacts, MintFacts DEF NewerObject
  <1>3. PICK r : Becomes(t, r, q.op, "lockIndex", nextInodeID, nextInodeID, q.core, q.n)
    <2>1. /\ th' = [th EXCEPT ![t].pc = "lockIndex", ![t].in = nextInodeID, ![t].want = nextInodeID]
          /\ "lockIndex" \in Places
      BY Zenon DEF NewerObject, Places, AfterLock
    <2> QED
      BY <1>2, <2>1, ReqFacts, Moves, Zenon
  <1>4. InOrder(r)
    BY <1>1, <1>2, <1>3 DEF Becomes, InOrder, Holding, Waiting
  <1>5. /\ lock' = [lock EXCEPT ![q.want] = Free] /\ generationBackedInodes' = nextInodeID
        /\ UNCHANGED <<localFileInodes, dirty, count, gcsVars, kernel, auxVars>>
    BY Zenon DEF NewerObject, Unlock
  <1>6. TableTypes'
    BY <1>2, <1>5, LockTypes, Zenon DEF IInv, TypeOK, TableTypes, gcsVars, auxVars
  <1>7. QuietVars
    <2>1. {generationBackedInodes', localFileInodes'} \subseteq Live' \cup {None}
      BY <1>2, <1>5, Zenon DEF IInv, IndexesLive, Live, auxVars
    <2> QED
      BY <1>2, <1>5, <1>6, <2>1 DEF QuietVars, Live, auxVars
  <1> QED
    BY <1>1, <1>3, <1>4, <1>5, <1>7, QuietMove, Zenon

-----------------------------------------------------------------------------
(* The steps that end a request with an inode.                             *)

\* A request about to answer counts for one lookup of its inode.
LEMMA Respond ==
  ASSUME IInv, NEW t \in Threads, At(t, "respond")
  PROVE  /\ th[t] \in Thread /\ InOrder(th[t]) /\ th[t].pc = "respond" /\ th[t].in \in IDs
         /\ th[t].op \in {"LookUp", "ReadDirPlus", "Rename", "MkNode", "Create"}
         /\ th[t].op \in DirRequests
         /\ \A k \in IDs : Share(th[t], k) = IF k = th[t].in THEN 1 ELSE 0
  <1>1. /\ th[t] \in Thread /\ InOrder(th[t]) /\ th[t].pc = "respond"
    BY ReqFacts, Zenon DEF At
  <1>2. /\ th[t].in \in IDs /\ th[t].op \in {"LookUp", "ReadDirPlus", "Rename", "MkNode", "Create"}
    BY <1>1 DEF InOrder
  <1> QED
    BY <1>1, <1>2 DEF Share, DirRequests

\* The answer to the kernel: the lookup in flight becomes one the kernel counts.
LEMMA ReplyOK ==
  ASSUME IInv, NEW t \in Threads, Reply(t)
  PROVE  IInv'
  <1> DEFINE q == th[t]
             j == q.in
  <1>1. /\ q.pc = "respond" /\ j \in IDs /\ q.op \in DirRequests
        /\ \A k \in IDs : Share(q, k) = IF k = j THEN 1 ELSE 0
    BY Respond, Zenon DEF Reply
  <1>2. /\ kernel' = [kernel EXCEPT ![j] = @ + 1] /\ lock' = [lock EXCEPT ![j] = Free]
        /\ th' = [th EXCEPT ![t] = Idle] /\ count' = count
        /\ UNCHANGED <<tableVars, inodeVars, gcsVars>>
        /\ kind' = kind /\ calls' = calls /\ failed' = failed /\ revived' = revived
    BY Zenon DEF Reply, Unlock, Done, auxVars
  <1>3. count \in [IDs -> Nat] /\ kernel \in [IDs -> Nat] /\ failed \subseteq AllFaults
    BY DEF IInv, TypeOK
  <1>4. /\ \A k \in IDs : lock'[k] \in {lock[k], Free, t}
        /\ "handler" \notin failed => \A k \in IDs : lock'[k] # t
    BY <1>1, <1>2, Released, Zenon
  <1>5. TableTypes'
    BY <1>2, LockTypes, Zenon DEF IInv, TypeOK, TableTypes, tableVars, inodeVars, gcsVars
  <1>6. kernel' \in [IDs -> Nat] /\ \A k \in IDs : kernel'[k] = IF k = j THEN kernel[k] + 1 ELSE kernel[k]
    <2>1. kernel[j] + 1 \in Nat
      BY <1>1, <1>3
    <2> QED
      BY <1>1, <1>2, <1>3, <2>1, Zenon
  <1>7. \A k \in IDs : /\ kernel'[k] >= kernel[k] /\ kernel'[k] <= kernel[k] + 1
                       /\ count'[k] - kernel'[k] - Share(Idle, k) >= count[k] - kernel[k] - Share(q, k)
                       /\ count'[k] - kernel'[k] - Share(Idle, k) = count[k] - kernel[k] - Share(q, k)
                       /\ kernel'[k] + Share(Idle, k) <= kernel[k] + Share(q, k)
    <2> SUFFICES ASSUME NEW k \in IDs
                 PROVE  /\ kernel'[k] >= kernel[k] /\ kernel'[k] <= kernel[k] + 1
                        /\ count'[k] - kernel'[k] - Share(Idle, k) >= count[k] - kernel[k] - Share(q, k)
                        /\ count'[k] - kernel'[k] - Share(Idle, k) = count[k] - kernel[k] - Share(q, k)
                        /\ kernel'[k] + Share(Idle, k) <= kernel[k] + Share(q, k)
      BY Zenon
    <2>1. /\ Share(Idle, k) = 0 /\ Share(q, k) = (IF k = j THEN 1 ELSE 0)
          /\ kernel'[k] = (IF k = j THEN kernel[k] + 1 ELSE kernel[k])
          /\ count'[k] = count[k] /\ count[k] \in Nat /\ kernel[k] \in Nat
      BY <1>1, <1>2, <1>3, <1>6, IdleFacts, Zenon
    <2> HIDE DEF q, j
    <2> QED
      BY <2>1
  <1>8. /\ {generationBackedInodes', localFileInodes'} \subseteq Live' \cup {None}
        /\ Live' = Live /\ fsMu' = fsMu
    BY <1>2, Zenon DEF IInv, IndexesLive, Live, tableVars
  <1>9. count' \in [IDs -> Int] /\ failed \subseteq failed' /\ failed' \subseteq AllFaults
    BY <1>2, <1>3
  <1> HIDE DEF j
  <1> QED
    BY <1>1, <1>2, <1>4, <1>5, <1>6, <1>7, <1>8, <1>9, IdleFacts, GrowStep, Zenon

\* The request ends, its lookup stays counted: ReadDirPlus failed on an entry.
LEMMA EntryErrorOK ==
  ASSUME IInv, NEW t \in Threads, EntryError(t)
  PROVE  IInv'
  <1> DEFINE q == th[t]
             j == q.in
  <1>1. /\ q.pc = "respond" /\ j \in IDs
        /\ \A k \in IDs : Share(q, k) = IF k = j THEN 1 ELSE 0
    BY Respond, Zenon DEF EntryError
  <1>2. /\ lock' = [lock EXCEPT ![j] = Free] /\ th' = [th EXCEPT ![t] = Idle]
        /\ count' = count /\ kernel' = kernel
        /\ UNCHANGED <<tableVars, inodeVars, gcsVars>>
        /\ kind' = kind /\ calls' = calls /\ revived' = revived
    BY Zenon DEF EntryError, Unlock, Done
  <1>3. /\ failed' = failed \cup {"entry"} /\ "entry" \in AllFaults
        /\ failed \subseteq AllFaults
    BY DEF EntryError, IInv, TypeOK, AllFaults
  <1>4. /\ "entry" \in failed' /\ failed \subseteq failed' /\ failed' \subseteq AllFaults
        /\ "handler" \notin failed' => "handler" \notin failed
    BY ONLY <1>3, Zenon
  <1>5. count \in [IDs -> Nat] /\ kernel \in [IDs -> Nat] /\ count' \in [IDs -> Int] /\ kernel' \in [IDs -> Nat]
    BY <1>2 DEF IInv, TypeOK
  <1>6. /\ \A k \in IDs : lock'[k] \in {lock[k], Free, t}
        /\ "handler" \notin failed => \A k \in IDs : lock'[k] # t
    BY <1>1, <1>2, Released, Zenon
  <1>7. TableTypes'
    BY <1>2, LockTypes, Zenon DEF IInv, TypeOK, TableTypes, tableVars, inodeVars, gcsVars
  <1>8. \A k \in IDs : /\ count'[k] - kernel'[k] - Share(Idle, k) >= count[k] - kernel[k] - Share(q, k)
                       /\ kernel'[k] + Share(Idle, k) <= kernel[k] + Share(q, k)
    <2> SUFFICES ASSUME NEW k \in IDs
                 PROVE  /\ count'[k] - kernel'[k] - Share(Idle, k) >= count[k] - kernel[k] - Share(q, k)
                        /\ kernel'[k] + Share(Idle, k) <= kernel[k] + Share(q, k)
      BY Zenon
    <2>1. /\ Share(Idle, k) = 0 /\ Share(q, k) = (IF k = j THEN 1 ELSE 0)
          /\ count'[k] = count[k] /\ kernel'[k] = kernel[k] /\ count[k] \in Nat /\ kernel[k] \in Nat
      BY <1>1, <1>2, <1>5, IdleFacts, Zenon
    <2> HIDE DEF q, j
    <2> QED
      BY <2>1
  <1>9. /\ {generationBackedInodes', localFileInodes'} \subseteq Live' \cup {None}
        /\ Live' = Live /\ fsMu' = fsMu
    BY <1>2 DEF IInv, IndexesLive, Live, tableVars
  <1> HIDE DEF j
  <1> QED
    BY <1>2, <1>4, <1>5, <1>6, <1>7, <1>8, <1>9, IdleFacts, GrowStep, Zenon

\* A rename gives up the lookup it counted and goes on with the inode.
LEMMA RenameFoundOK ==
  ASSUME IInv, NEW t \in Threads, RenameFound(t)
  PROVE  IInv'
  <1> DEFINE q == th[t]
             j == q.in
  <1>1. /\ q \in Thread /\ q.pc = "respond" /\ j \in IDs /\ q.op = "Rename"
        /\ \A k \in IDs : Share(q, k) = IF k = j THEN 1 ELSE 0
    BY Respond DEF RenameFound
  <1>2. /\ lock' = [lock EXCEPT ![j] = Free] /\ count' = [count EXCEPT ![j] = @ - 1] /\ kernel' = kernel
        /\ UNCHANGED <<tableVars, inodeVars, gcsVars>>
        /\ kind' = kind /\ calls' = calls /\ failed' = failed /\ revived' = revived
    BY DEF RenameFound, Unlock, auxVars
  <1>3. PICK r : Becomes(t, r, q.op, "lockFlush", q.in, j, q.core, q.n)
    <2>1. th' = [th EXCEPT ![t].pc = "lockFlush", ![t].want = j] /\ "lockFlush" \in Places
      BY Zenon DEF RenameFound, Places, AfterLock
    <2> QED
      BY <1>1, <2>1, ReqFacts, Moves, Zenon
  <1>4. InOrder(r) /\ \A k \in IDs : Share(r, k) = 0
    BY <1>1, <1>3 DEF Becomes, InOrder, Share, Holding, Waiting
  <1>5. count \in [IDs -> Nat] /\ kernel \in [IDs -> Nat] /\ failed \subseteq AllFaults
    BY DEF IInv, TypeOK
  <1>6. /\ \A k \in IDs : lock'[k] \in {lock[k], Free, t}
        /\ "handler" \notin failed => \A k \in IDs : lock'[k] # t
    BY <1>1, <1>2, Released, Zenon
  <1>7. TableTypes'
    BY <1>2, LockTypes DEF IInv, TypeOK, TableTypes, tableVars, inodeVars, gcsVars
  <1>8. count' \in [IDs -> Int] /\ \A k \in IDs : count'[k] = IF k = j THEN count[k] - 1 ELSE count[k]
    <2>1. count[j] - 1 \in Int /\ count \in [IDs -> Int]
      BY <1>1, <1>5, SMTT(30)
    <2> QED
      BY <1>1, <1>2, <2>1, Zenon
  <1>9. \A k \in IDs : /\ count'[k] - kernel'[k] - Share(r, k) >= count[k] - kernel[k] - Share(q, k)
                       /\ count'[k] - kernel'[k] - Share(r, k) = count[k] - kernel[k] - Share(q, k)
                       /\ kernel'[k] + Share(r, k) <= kernel[k] + Share(q, k)
    <2> SUFFICES ASSUME NEW k \in IDs
                 PROVE  /\ count'[k] - kernel'[k] - Share(r, k) >= count[k] - kernel[k] - Share(q, k)
                        /\ count'[k] - kernel'[k] - Share(r, k) = count[k] - kernel[k] - Share(q, k)
                        /\ kernel'[k] + Share(r, k) <= kernel[k] + Share(q, k)
      BY Zenon
    <2>1. /\ Share(r, k) = 0 /\ Share(q, k) = (IF k = j THEN 1 ELSE 0)
          /\ count'[k] = (IF k = j THEN count[k] - 1 ELSE count[k])
          /\ kernel'[k] = kernel[k] /\ count[k] \in Nat /\ kernel[k] \in Nat
      BY <1>1, <1>2, <1>4, <1>5, <1>8, Zenon
    <2> HIDE DEF q, j
    <2> QED
      BY <2>1
  <1>10. /\ {generationBackedInodes', localFileInodes'} \subseteq Live' \cup {None}
         /\ Live' = Live /\ fsMu' = fsMu
    BY <1>2, Zenon DEF IInv, IndexesLive, Live, tableVars
  <1>11. r \in Thread /\ th' = [th EXCEPT ![t] = r] /\ r.op = q.op /\ r.held = q.held
    BY <1>1, <1>3, Zenon DEF Becomes
  <1>12. failed \subseteq failed' /\ failed' \subseteq AllFaults /\ kernel' \in [IDs -> Nat]
    BY <1>2, <1>5
  <1> HIDE DEF j
  <1> QED
    BY <1>2, <1>4, <1>6, <1>7, <1>8, <1>9, <1>10, <1>11, <1>12, GrowStep, Zenon

\* A create that failed leaves a lookup counted and the inode locked.
LEMMA CreateFailedOK ==
  ASSUME IInv, NEW t \in Threads, CreateFailed(t)
  PROVE  IInv'
  <1> DEFINE q == th[t]
             j == q.want
  <1>1. /\ q.pc = "failed" /\ j \in IDs /\ q.op = "Create" /\ q.op \in DirRequests
    BY ReqFacts, Zenon DEF CreateFailed, At, InOrder, Holding, DirRequests
  <1>2. /\ lock' = lock /\ count' = [count EXCEPT ![j] = @ + 1] /\ kernel' = kernel
        /\ th' = [th EXCEPT ![t] = Idle]
        /\ UNCHANGED <<tableVars, inodeVars, gcsVars>>
        /\ kind' = kind /\ calls' = calls /\ revived' = revived
    BY Zenon DEF CreateFailed, Increment, Done
  <1>3. /\ failed' = failed \cup {"handler"} /\ "handler" \in AllFaults
        /\ failed \subseteq AllFaults
    BY DEF CreateFailed, IInv, TypeOK, AllFaults
  <1>4. /\ "handler" \in failed' /\ failed \subseteq failed' /\ failed' \subseteq AllFaults
        /\ failed' \cap {"entry", "handler"} # {}
    BY ONLY <1>3, Zenon
  <1>5. count \in [IDs -> Nat] /\ kernel \in [IDs -> Nat] /\ kernel' \in [IDs -> Nat]
    BY <1>2 DEF IInv, TypeOK
  <1>6. \A k \in IDs : lock'[k] \in {lock[k], Free, t}
    BY <1>2, Zenon
  <1>7. TableTypes'
    BY <1>2, LockTypes, Zenon DEF IInv, TypeOK, TableTypes, tableVars, inodeVars, gcsVars
  <1>8. count' \in [IDs -> Int] /\ \A k \in IDs : count'[k] = IF k = j THEN count[k] + 1 ELSE count[k]
    <2>1. count[j] + 1 \in Int /\ count \in [IDs -> Int]
      BY <1>1, <1>5, SMTT(30)
    <2> QED
      BY <1>1, <1>2, <2>1, Zenon
  <1>9. \A k \in IDs : /\ count'[k] - kernel'[k] - Share(Idle, k) >= count[k] - kernel[k] - Share(q, k)
                       /\ kernel'[k] + Share(Idle, k) <= kernel[k] + Share(q, k)
    <2> SUFFICES ASSUME NEW k \in IDs
                 PROVE  /\ count'[k] - kernel'[k] - Share(Idle, k) >= count[k] - kernel[k] - Share(q, k)
                        /\ kernel'[k] + Share(Idle, k) <= kernel[k] + Share(q, k)
      OBVIOUS
    <2>1. /\ Share(Idle, k) = 0 /\ Share(q, k) = 0
          /\ count'[k] = (IF k = j THEN count[k] + 1 ELSE count[k])
          /\ kernel'[k] = kernel[k] /\ count[k] \in Nat /\ kernel[k] \in Nat
      BY <1>1, <1>2, <1>5, <1>8, IdleFacts, Zenon DEF Share
    <2> HIDE DEF q, j
    <2> QED
      BY <2>1
  <1>10. /\ {generationBackedInodes', localFileInodes'} \subseteq Live' \cup {None}
         /\ Live' = Live /\ fsMu' = fsMu
    BY <1>2 DEF IInv, IndexesLive, Live, tableVars
  <1> HIDE DEF j
  <1> QED
    BY <1>2, <1>4, <1>5, <1>6, <1>7, <1>8, <1>9, <1>10, IdleFacts, GrowStep, Zenon

\* A create in the directory of buckets leaves fs.mu locked.
LEMMA BaseDirOK ==
  ASSUME IInv, NEW t \in Threads, createLocalFileInBaseDir(t)
  PROVE  IInv'
  <1> DEFINE q == th[t]
  <1>1. /\ q.pc = "create" /\ q.op = "Create" /\ q.pc \notin Holding \cup {"respond"}
    BY ReqFacts, Zenon DEF createLocalFileInBaseDir, At, InOrder, Holding
  <1>2. /\ lock' = lock /\ count' = count /\ kernel' = kernel /\ fsMu' = t
        /\ th' = [th EXCEPT ![t] = Idle]
        /\ UNCHANGED <<inodes, nextInodeID, generationBackedInodes, localFileInodes, inodeVars, gcsVars>>
        /\ kind' = kind /\ calls' = calls /\ revived' = revived
    BY DEF createLocalFileInBaseDir, Done
  <1>3. /\ failed' = failed \cup {"baseDir"} /\ "baseDir" \in AllFaults
        /\ failed \subseteq AllFaults
    BY Zenon DEF createLocalFileInBaseDir, IInv, TypeOK, AllFaults
  <1>4. /\ "baseDir" \in failed' /\ failed \subseteq failed' /\ failed' \subseteq AllFaults
        /\ "handler" \notin failed' => "handler" \notin failed
    BY ONLY <1>3, Zenon
  <1>5. /\ count \in [IDs -> Nat] /\ kernel \in [IDs -> Nat]
        /\ count' \in [IDs -> Int] /\ kernel' \in [IDs -> Nat]
    BY <1>2 DEF IInv, TypeOK
  <1>6. /\ \A k \in IDs : lock'[k] \in {lock[k], Free, t}
        /\ "handler" \notin failed => \A k \in IDs : lock'[k] # t
    BY <1>1, <1>2, Released, Zenon
  <1>7. TableTypes'
    BY <1>2, Zenon DEF IInv, TypeOK, TableTypes, inodeVars, gcsVars
  <1>8. \A k \in IDs : Share(q, k) = 0 /\ Share(Idle, k) = 0
    BY <1>1, IdleFacts, Zenon DEF Share
  <1>9. \A k \in IDs : /\ count'[k] - kernel'[k] - Share(Idle, k) = count[k] - kernel[k] - Share(q, k)
                       /\ count'[k] - kernel'[k] - Share(Idle, k) >= count[k] - kernel[k] - Share(q, k)
                       /\ kernel'[k] + Share(Idle, k) <= kernel[k] + Share(q, k)
    BY <1>2, <1>5, <1>8
  <1>10. /\ {generationBackedInodes', localFileInodes'} \subseteq Live' \cup {None}
         /\ Live' = Live
    BY <1>2 DEF IInv, IndexesLive, Live
  <1> QED
    BY <1>2, <1>4, <1>5, <1>6, <1>7, <1>9, <1>10, IdleFacts, GrowStep, Zenon

-----------------------------------------------------------------------------
(* The steps that create.                                                  *)

\* MkNode creates the object in GCS, or fails.
LEMMA CreateChildFileOK ==
  ASSUME IInv, NEW t \in Threads, CreateChildFile(t)
  PROVE  IInv'
  <1> DEFINE q == th[t]
  <1>1. q \in Thread /\ InOrder(q) /\ q.pc = "mknod" /\ q.op = "MkNode" /\ q.pc \notin Holding
    BY ReqFacts DEF CreateChildFile, At, InOrder, Holding
  <1>2. lock' = lock /\ UNCHANGED <<tableVars, inodeVars, count, kernel, auxVars>>
    BY DEF CreateChildFile
  <1>3. CASE Done(t) /\ UNCHANGED gcsVars
    <2>1. QuietVars
      BY <1>2, <1>3, LockTypes, Untouched
    <2> QED
      BY <1>1, <1>2, <1>3, <2>1, QuietDone, Zenon DEF Done
  <1>4. CASE /\ lastGen < kind.gens /\ objGen' = lastGen + 1 /\ lastGen' = lastGen + 1
             /\ th' = [th EXCEPT ![t].pc = "index", ![t].core = lastGen + 1]
    <2>1. lastGen + 1 \in 0..kind.gens /\ lastGen + 1 \in 0..MaxGen
      BY <1>4, GenTypes
    <2>2. QuietVars
      BY <1>2, <1>4, <2>1 DEF IInv, TypeOK, IndexesLive, Live, QuietVars, TableTypes, tableVars, inodeVars, auxVars
    <2>3. PICK r : Becomes(t, r, q.op, "index", q.in, q.want, lastGen + 1, q.n)
      <3>1. "index" \in Places
        BY Zenon DEF Places
      <3> QED
        BY <1>4, <2>1, <3>1, ReqFacts, Moves, Zenon
    <2>4. InOrder(r)
      BY <1>1, <2>3 DEF Becomes, InOrder, Holding, Waiting
    <2> QED
      BY <1>1, <1>2, <2>2, <2>3, <2>4, QuietMove, Zenon
  <1> QED
    BY <1>3, <1>4, Zenon DEF CreateChildFile

\* createLocalFile finds or mints the local file's inode under fs.mu.
LEMMA CreateLocalFileOK ==
  ASSUME IInv, NEW t \in Threads, createLocalFile(t)
  PROVE  IInv'
  <1> DEFINE q == th[t]
  <1>1. q \in Thread /\ InOrder(q) /\ q.pc = "create" /\ q.op = "Create" /\ q.pc \notin Holding
    BY ReqFacts DEF createLocalFile, At, InOrder, Holding
  <1>2. lock' = lock /\ UNCHANGED <<count, gcsVars, kernel, auxVars>>
    BY DEF createLocalFile
  <1>3. CASE /\ localFileInodes # None /\ localFileInodes \notin unlinked
             /\ th' = [th EXCEPT ![t].pc = "lockCreated", ![t].want = localFileInodes]
             /\ UNCHANGED <<tableVars, inodeVars>>
    <2>1. localFileInodes \in IDs
      BY <1>3 DEF IInv, TypeOK
    <2>2. QuietVars
      BY <1>2, <1>3, LockTypes, Untouched
    <2>3. PICK r : Becomes(t, r, q.op, "lockCreated", q.in, localFileInodes, q.core, q.n)
      <3>1. "lockCreated" \in Places
        BY Zenon DEF Places, AfterLock
      <3> QED
        BY <1>3, <2>1, <3>1, ReqFacts, Moves, Zenon
    <2>4. InOrder(r)
      BY <1>1, <2>1, <2>3 DEF Becomes, InOrder, Holding, Waiting
    <2> QED
      BY <1>1, <1>2, <2>1, <2>2, <2>3, <2>4, QuietMove, Zenon
  <1>4. CASE /\ mintInode(None)
             /\ localFileInodes' = nextInodeID
             /\ th' = [th EXCEPT ![t].pc = "lockInit", ![t].want = nextInodeID]
             /\ UNCHANGED <<generationBackedInodes, dirty>>
    <2>1. /\ nextInodeID \in IDs /\ nextInodeID' \in Nat \ {0}
          /\ inodes' = inodes \cup {nextInodeID} /\ inodes' \subseteq IDs
          /\ srcGen' \in [IDs -> 0..MaxGen] /\ local' \subseteq IDs /\ unlinked' = unlinked /\ fsMu' = fsMu
      <3>1. None \in 0..MaxGen
        BY KindsOK DEF None
      <3> QED
        BY <1>4, <3>1, MintFacts, Zenon
    <2>2. TableTypes'
      BY <1>2, <1>4, <2>1 DEF IInv, TypeOK, TableTypes, gcsVars, auxVars
    <2>3. {generationBackedInodes', localFileInodes'} \subseteq Live' \cup {None}
      BY <1>2, <1>4, <2>1, Zenon DEF IInv, IndexesLive, Live, auxVars
    <2>4. QuietVars
      BY <1>2, <2>1, <2>2, <2>3 DEF QuietVars, Live, auxVars
    <2>5. PICK r : Becomes(t, r, q.op, "lockInit", q.in, nextInodeID, q.core, q.n)
      <3>1. "lockInit" \in Places
        BY Zenon DEF Places, AfterLock
      <3> QED
        BY <1>4, <2>1, <3>1, ReqFacts, Moves, Zenon
    <2>6. InOrder(r)
      BY <1>1, <2>1, <2>5, Zenon DEF Becomes, InOrder, Holding, Waiting
    <2> QED
      BY <1>1, <1>2, <2>4, <2>5, <2>6, QuietMove, Zenon
  <1> QED
    BY <1>3, <1>4, Zenon DEF createLocalFile

\* createLocalFile sets up the write handler under the inode's lock.
LEMMA InitHandlerOK ==
  ASSUME IInv, NEW t \in Threads, InitHandler(t)
  PROVE  IInv'
  <1> DEFINE q == th[t]
  <1>1. /\ q \in Thread /\ InOrder(q) /\ q.pc = "init" /\ q.op = "Create" /\ q.pc \in Holding
        /\ q.want \in IDs
    BY ReqFacts, Zenon DEF InitHandler, At, InOrder, Holding
  <1>2. /\ UNCHANGED <<inodes, nextInodeID, generationBackedInodes, fsMu, srcGen, local, unlinked,
                       count, gcsVars, kernel, auxVars>>
        /\ lock' = [lock EXCEPT ![q.want] = Free]
        /\ localFileInodes' \in {localFileInodes, None} /\ dirty' \in {dirty, dirty \cup {q.want}}
    BY Zenon DEF InitHandler, Unlock
  <1>3. PICK p \in {"lockCreated", "lockFailed"} : th' = [th EXCEPT ![t].pc = p]
    BY DEF InitHandler, Goto
  <1>4. PICK r : Becomes(t, r, q.op, p, q.in, q.want, q.core, q.n)
    <2>1. p \in Places
      BY <1>3 DEF Places, AfterLock
    <2> QED
      BY <1>3, <2>1, ReqFacts, Moves, Zenon
  <1>5. InOrder(r) /\ p # "respond"
    BY <1>1, <1>3, <1>4, Zenon DEF Becomes, InOrder, Holding, Waiting
  <1>6. TableTypes'
    BY <1>1, <1>2, LockTypes, Zenon DEF IInv, TypeOK, TableTypes, gcsVars, auxVars
  <1>7. QuietVars
    BY <1>2, <1>6 DEF IInv, IndexesLive, Live, QuietVars, auxVars
  <1> QED
    BY <1>1, <1>2, <1>4, <1>5, <1>7, QuietMove, Zenon

\* createLocalFile takes the new file's lookup before it answers.
LEMMA CreatedOK ==
  ASSUME IInv, NEW t \in Threads, Created(t)
  PROVE  IInv'
  <1> DEFINE q == th[t]
             j == q.want
  <1>1. /\ q \in Thread /\ InOrder(q) /\ q.pc = "created" /\ q.op = "Create" /\ q.pc \in Holding
        /\ j \in IDs
    BY ReqFacts DEF Created, At, InOrder, Holding
  <1>2. PICK r : Becomes(t, r, q.op, "respond", j, q.want, q.core, q.n)
    <2>1. th' = [th EXCEPT ![t].pc = "respond", ![t].in = j] /\ "respond" \in Places
      BY DEF Created, Places
    <2> QED
      BY <1>1, <2>1, ReqFacts, Moves, Zenon
  <1>3. InOrder(r) /\ q.pc # "respond"
    BY <1>1, <1>2, Zenon DEF Becomes, InOrder, Holding, Waiting
  <1>4. /\ failed' = failed /\ kind' = kind /\ calls' = calls /\ kernel' = kernel /\ lock' = lock
        /\ inodes' = inodes /\ revived' = revived \cup ({j} \ inodes) /\ fsMu' = fsMu
        /\ count' = [count EXCEPT ![j] = @ + 1]
    BY DEF Created, Increment, tableVars
  <1>5. /\ j \in Live' /\ Live \subseteq Live'
        /\ {generationBackedInodes', localFileInodes'} \subseteq Live' \cup {None}
    BY <1>4 DEF IInv, IndexesLive, Live, Created, tableVars
  <1>6. TableTypes'
    BY <1>1, <1>4 DEF Created, IInv, TypeOK, TableTypes, tableVars, inodeVars, gcsVars
  <1>7. failed \subseteq failed' /\ failed' \subseteq AllFaults
    BY <1>4 DEF IInv, TypeOK
  <1>8. /\ \A k \in IDs : lock'[k] \in {lock[k], Free, t}
        /\ "handler" \notin failed' => \A k \in IDs : lock'[k] = t => k = j
    BY <1>1, <1>4, OwnLock, Zenon
  <1>9. j \in IDs
    BY <1>1
  <1> HIDE DEF j
  <1> QED
    BY <1>2, <1>3, <1>4, <1>5, <1>6, <1>7, <1>8, <1>9, Take, Zenon

-----------------------------------------------------------------------------
(* The steps that write, unlink, rename and forget.                        *)

\* The lookups in flight are a natural number.
LEMMA InFlightNat ==
  ASSUME NEW i \in IDs
  PROVE  InFlight(i) \in Nat
  <1>1. IsFiniteSet(Answering(i))
    BY KindsOK, FS_Subset DEF Answering
  <1>2. IsFiniteSet(1..MaxCalls)
    BY KindsOK, FS_Interval
  <1>3. IsFiniteSet(Threads \X (1..MaxCalls))
    BY <1>2, KindsOK, FS_Product, Zenon
  <1>4. IsFiniteSet(Forgetting(i))
    BY <1>3, FS_Subset DEF Forgetting
  <1>5. Cardinality(Answering(i)) \in Nat /\ Cardinality(Forgetting(i)) \in Nat
    BY <1>1, <1>4, FS_CardinalityType
  <1> QED
    BY <1>5 DEF InFlight

\* What a flush or a write promotes is live: the kernel holds a lookup of it.
LEMMA FlushedLive ==
  ASSUME IInv, NEW t \in Threads, th[t].pc \in {"flush", "promote"}
  PROVE  /\ th[t] \in Thread /\ InOrder(th[t]) /\ th[t].op \in {"Flush", "Write", "Rename"}
         /\ th[t].want \in IDs /\ th[t].pc \in Holding
         /\ th[t].op # "Rename" => th[t].want \in Live
  <1> DEFINE q == th[t]
  <1>1. /\ q \in Thread /\ InOrder(q) /\ q.op \in {"Flush", "Write", "Rename"}
        /\ q.want \in IDs /\ q.pc \in Holding
    BY ReqFacts, Zenon DEF InOrder, Holding
  <1>2. CASE q.op \in {"Flush", "Write"}
    <2>1. kernel[q.want] > 0
      BY <1>1, <1>2 DEF IInv, HeldKnown, InOrder, IDs, None
    <2>2. InFlight(q.want) \in Nat
      BY <1>1, InFlightNat, Zenon
    <2> QED
      BY <1>1, <2>1, <2>2, SMTT(30) DEF IInv, TypeOK, KernelInodesLive
  <1> QED
    BY <1>1, <1>2, Zenon

\* flushFile is done.
LEMMA AfterFlushOK ==
  ASSUME IInv, NEW t \in Threads, th[t].pc \in {"flush", "promote"}, AfterFlush(t), QuietVars,
         lock' = [lock EXCEPT ![th[t].want] = Free]
  PROVE  IInv'
  <1> DEFINE q == th[t]
  <1>1. /\ q \in Thread /\ InOrder(q) /\ q.op \in {"Flush", "Write", "Rename"} /\ q.want \in IDs
        /\ q.pc \in Holding /\ q.pc # "respond"
    BY FlushedLive
  <1>2. CASE q.op = "Rename"
    <2>1. PICK r : Becomes(t, r, q.op, "move", q.in, q.want, q.core, q.n)
      <3>1. th' = [th EXCEPT ![t].pc = "move"] /\ "move" \in Places
        BY <1>2, Zenon DEF AfterFlush, Goto, Places
      <3> QED
        BY <3>1, ReqFacts, Moves, Zenon
    <2>2. InOrder(r)
      BY <1>1, <1>2, <2>1, Zenon DEF Becomes, InOrder, Holding, Waiting
    <2> QED
      BY <1>1, <1>2, <2>1, <2>2, QuietMove, Zenon
  <1>3. CASE q.op # "Rename"
    BY <1>1, <1>3, QuietDone, Zenon DEF AfterFlush, Done
  <1> QED
    BY <1>2, <1>3, Zenon

\* flushFile of an unlinked file uploads nothing.
LEMMA FlushUnlinkedOK ==
  ASSUME IInv, NEW t \in Threads, FlushUnlinked(t)
  PROVE  IInv'
  <1>1. QuietVars /\ lock' = [lock EXCEPT ![th[t].want] = Free]
    BY LockTypes, Untouched DEF FlushUnlinked, Unlock
  <1> QED
    BY <1>1, AfterFlushOK, Zenon DEF FlushUnlinked, At

\* promoteToGenerationBacked
LEMMA PromoteOK ==
  ASSUME IInv, NEW t \in Threads, FlushClean(t) \/ Promote(t)
  PROVE  IInv'
  <1>1. /\ th[t].pc \in {"flush", "promote"} /\ AfterFlush(t) /\ promoteToGenerationBacked(th[t].want)
        /\ RevivedByRename(t) /\ lock' = [lock EXCEPT ![th[t].want] = Free]
        /\ UNCHANGED <<inodeVars, count, gcsVars, kernel, kind, calls, failed>>
    BY Zenon DEF FlushClean, Promote, At, Unlock
  <1>2. th[t].want \in IDs /\ (th[t].op # "Rename" => th[t].want \in Live)
    BY <1>1, FlushedLive
  <1>3. /\ localFileInodes' = None
        /\ generationBackedInodes' = IF generationBackedInodes = None THEN th[t].want ELSE generationBackedInodes
        /\ inodes' = inodes /\ nextInodeID' = nextInodeID /\ fsMu' = fsMu
        /\ revived' = IF th[t].op = "Rename" /\ generationBackedInodes = None
                      THEN revived \cup ({th[t].want} \ inodes) ELSE revived
    BY <1>1, ZenonT(40) DEF promoteToGenerationBacked, RevivedByRename
  <1>4. TableTypes'
    BY <1>1, <1>2, <1>3, LockTypes, Zenon DEF IInv, TypeOK, TableTypes, inodeVars, gcsVars
  <1>5. Live \subseteq Live' /\ {generationBackedInodes', localFileInodes'} \subseteq Live' \cup {None}
    BY <1>2, <1>3 DEF IInv, IndexesLive, Live
  <1>6. QuietVars
    BY <1>1, <1>3, <1>4, <1>5, Zenon DEF QuietVars
  <1> QED
    BY <1>1, <1>6, AfterFlushOK, Zenon

\* An object is written.
LEMMA WriteObjectTypes ==
  ASSUME IInv, NEW i \in IDs, WriteObject(i)
  PROVE  /\ objGen' \in 0..kind.gens /\ lastGen' \in 0..kind.gens
         /\ srcGen' \in [IDs -> 0..MaxGen] /\ local' \subseteq IDs
  <1>1. lastGen + 1 \in 0..kind.gens /\ lastGen + 1 \in 0..MaxGen
    BY GenTypes DEF WriteObject
  <1> QED
    BY <1>1 DEF WriteObject, IInv, TypeOK

\* flushFile writes the object: a new generation.
LEMMA FlushObjectOK ==
  ASSUME IInv, NEW t \in Threads, FlushObject(t)
  PROVE  IInv'
  <1> DEFINE q == th[t]
  <1>1. q.pc = "flush"
    BY Zenon DEF FlushObject, At
  <1>2. /\ q \in Thread /\ InOrder(q) /\ q.op \in {"Flush", "Rename"} /\ q.want \in IDs
        /\ q.pc \in Holding
    BY <1>1, FlushedLive DEF InOrder
  <1>3. /\ WriteObject(q.want) /\ dirty' = dirty \ {q.want} /\ lock' = lock
        /\ UNCHANGED <<tableVars, unlinked, count, kernel, auxVars>>
        /\ th' = [th EXCEPT ![t].pc = "promote"]
    BY Zenon DEF FlushObject, Goto
  <1>4. TableTypes'
    BY <1>2, <1>3, WriteObjectTypes DEF IInv, TypeOK, TableTypes, tableVars, auxVars
  <1>5. QuietVars
    BY <1>3, <1>4 DEF IInv, IndexesLive, Live, QuietVars, tableVars, auxVars
  <1>6. PICK r : Becomes(t, r, q.op, "promote", q.in, q.want, q.core, q.n)
    <2>1. "promote" \in Places /\ "promote" \in Holding
      BY Zenon DEF Places, Holding
    <2> QED
      BY <1>3, <2>1, ReqFacts, Moves, Zenon
  <1>7. InOrder(r) /\ "promote" \in Holding
    BY <1>1, <1>2, <1>6, Zenon DEF Becomes, InOrder, Holding, Waiting
  <1> QED
    BY <1>1, <1>2, <1>3, <1>5, <1>6, <1>7, QuietMove, Zenon

\* flushFile fails, or the object was clobbered: the local index entry goes.
LEMMA FlushFailsOK ==
  ASSUME IInv, NEW t \in Threads, FlushFails(t)
  PROVE  IInv'
  <1>1. th[t].pc = "flush"
    BY Zenon DEF FlushFails, At
  <1>2. th[t].op \in {"Flush", "Rename"} /\ th[t].pc \in Holding
    BY <1>1, FlushedLive DEF InOrder
  <1>3. /\ lock' = [lock EXCEPT ![th[t].want] = Free] /\ th' = [th EXCEPT ![t] = Idle] /\ localFileInodes' = None
        /\ UNCHANGED <<inodes, nextInodeID, generationBackedInodes, fsMu, inodeVars, count,
                       gcsVars, kernel, auxVars>>
    BY Zenon DEF FlushFails, Unlock, Done
  <1>4. TableTypes'
    BY <1>3, LockTypes DEF IInv, TypeOK, TableTypes, inodeVars, gcsVars, auxVars
  <1>5. QuietVars
    BY <1>3, <1>4, Zenon DEF IInv, IndexesLive, Live, QuietVars, auxVars
  <1> QED
    BY <1>1, <1>2, <1>3, <1>5, QuietDone, Zenon

\* A write holds the lock of its inode.
LEMMA AtWrite ==
  ASSUME IInv, NEW t \in Threads, At(t, "write")
  PROVE  /\ th[t] \in Thread /\ InOrder(th[t]) /\ th[t].pc = "write" /\ th[t].op = "Write"
         /\ th[t].want \in IDs /\ th[t].pc \in Holding /\ th[t].pc # "respond"
  BY ReqFacts DEF At, InOrder, Holding

\* WriteFile that succeeds, or fails and changes nothing.
LEMMA WriteFileOK ==
  ASSUME IInv, NEW t \in Threads, WriteFile(t) \/ WriteFails(t)
  PROVE  IInv'
  <1>1. th[t].pc = "write" /\ th[t].op = "Write" /\ th[t].want \in IDs /\ th[t].pc \in Holding
    BY AtWrite, Zenon DEF WriteFile, WriteFails
  <1>2. /\ lock' = [lock EXCEPT ![th[t].want] = Free] /\ th' = [th EXCEPT ![t] = Idle]
        /\ UNCHANGED <<tableVars, srcGen, local, unlinked, count, gcsVars, kernel, auxVars>>
        /\ dirty' \in {dirty, dirty \cup {th[t].want}}
    BY Zenon DEF WriteFile, WriteFails, Unlock, Done, inodeVars
  <1>3. TableTypes'
    BY <1>1, <1>2, LockTypes, Zenon DEF IInv, TypeOK, TableTypes, tableVars, gcsVars, auxVars
  <1>4. QuietVars
    BY <1>2, <1>3, ZenonT(40) DEF IInv, IndexesLive, Live, QuietVars, tableVars, auxVars
  <1> QED
    BY <1>1, <1>2, <1>4, QuietDone, Zenon

\* A write out of order finalizes the streamed object first.
LEMMA WriteOutOfOrderOK ==
  ASSUME IInv, NEW t \in Threads, WriteOutOfOrder(t)
  PROVE  IInv'
  <1> DEFINE q == th[t]
  <1>1. /\ q \in Thread /\ InOrder(q) /\ q.pc = "write" /\ q.op = "Write" /\ q.want \in IDs
        /\ q.pc \in Holding /\ q.pc # "respond"
    BY AtWrite, ZenonT(40) DEF WriteOutOfOrder
  <1>2. /\ WriteObject(q.want) /\ dirty' \in {dirty, dirty \ {q.want}}
        /\ UNCHANGED <<tableVars, unlinked, count, kernel, auxVars>>
    BY Zenon DEF WriteOutOfOrder
  <1>3. lock' \in [IDs -> Threads \cup {Free}]
    BY LockTypes, Zenon DEF WriteOutOfOrder, Unlock
  <1>4. TableTypes'
    BY <1>1, <1>2, <1>3, WriteObjectTypes DEF IInv, TypeOK, TableTypes, tableVars, auxVars
  <1>5. QuietVars
    BY <1>2, <1>4, Zenon DEF IInv, IndexesLive, Live, QuietVars, tableVars, auxVars
  <1>6. CASE Goto(t, "promote") /\ UNCHANGED lock
    <2>1. PICK r : Becomes(t, r, q.op, "promote", q.in, q.want, q.core, q.n)
      <3>1. "promote" \in Places /\ th' = [th EXCEPT ![t].pc = "promote"]
        BY <1>6, Zenon DEF Places, Goto
      <3> QED
        BY <3>1, ReqFacts, Moves, Zenon
    <2>2. InOrder(r) /\ "promote" \in Holding
      BY <1>1, <2>1 DEF Becomes, InOrder, Holding, Waiting
    <2> QED
      BY <1>1, <1>5, <1>6, <2>1, <2>2, QuietMove, Zenon
  <1>7. CASE Unlock(q.want) /\ Done(t)
    BY <1>1, <1>5, <1>7, QuietDone, Zenon DEF Unlock, Done
  <1> QED
    BY <1>6, <1>7, Zenon DEF WriteOutOfOrder

\* Unlink looks for a local file under fs.mu.
LEMMA UnlinkFindOK ==
  ASSUME IInv, NEW t \in Threads, UnlinkFind(t)
  PROVE  IInv'
  <1> DEFINE q == th[t]
             in == IF localFileInodes # None THEN localFileInodes ELSE generationBackedInodes
             m == IF localFileInodes # None THEN 1 ELSE 0
             p == IF in # None THEN "lockUnlink" ELSE "delete"
  <1>1. q \in Thread /\ InOrder(q) /\ q.pc = "find" /\ q.op = "Unlink" /\ q.pc \notin Holding
    BY ReqFacts DEF UnlinkFind, At, InOrder, Holding
  <1>2. QuietVars /\ lock' = lock
    BY LockTypes, Untouched, Zenon DEF UnlinkFind
  <1>3. in \in IDs \cup {None} /\ m \in Nat /\ p \in {"lockUnlink", "delete"} /\ p \in Places
    BY DEF IInv, TypeOK, Places, AfterLock
  <1>4. th' = [th EXCEPT ![t].want = in, ![t].n = m, ![t].pc = p]
    BY DEF UnlinkFind
  <1>5. p = "lockUnlink" => in \in IDs
    BY <1>3
  <1> HIDE DEF in, m, p
  <1>6. PICK r : Becomes(t, r, q.op, p, q.in, in, q.core, m)
    BY <1>3, <1>4, ReqFacts, Moves, Zenon
  <1>7. InOrder(r) /\ p # "respond"
    BY <1>1, <1>3, <1>5, <1>6, Zenon DEF Becomes, InOrder, Holding, Waiting
  <1> QED
    BY <1>1, <1>2, <1>6, <1>7, QuietMove, Zenon

\* Unlink marks the local file's inode unlinked.
LEMMA UnlinkInodeOK ==
  ASSUME IInv, NEW t \in Threads, UnlinkInode(t)
  PROVE  IInv'
  <1> DEFINE q == th[t]
  <1>1. q \in Thread /\ InOrder(q) /\ q.pc = "unlink" /\ q.op = "Unlink" /\ q.pc \in Holding /\ q.want \in IDs
    BY ReqFacts, Zenon DEF UnlinkInode, At, InOrder, Holding
  <1>2. /\ lock' = [lock EXCEPT ![q.want] = Free] /\ unlinked' = unlinked \cup {q.want}
        /\ UNCHANGED <<tableVars, srcGen, local, dirty, count, gcsVars, kernel, auxVars>>
    BY Zenon DEF UnlinkInode, Unlock
  <1>3. TableTypes'
    BY <1>1, <1>2, LockTypes, Zenon DEF IInv, TypeOK, TableTypes, tableVars, gcsVars, auxVars
  <1>4. QuietVars
    BY <1>2, <1>3 DEF IInv, IndexesLive, Live, QuietVars, tableVars, auxVars
  <1>5. CASE Done(t)
    BY <1>1, <1>2, <1>4, <1>5, QuietDone, Zenon DEF Done
  <1>6. CASE Goto(t, "delete")
    <2>1. PICK r : Becomes(t, r, q.op, "delete", q.in, q.want, q.core, q.n)
      <3>1. "delete" \in Places /\ th' = [th EXCEPT ![t].pc = "delete"]
        BY <1>6, Zenon DEF Places, Goto
      <3> QED
        BY <3>1, ReqFacts, Moves, Zenon
    <2>2. InOrder(r)
      BY <1>1, <2>1 DEF Becomes, InOrder, Holding, Waiting
    <2> QED
      BY <1>1, <1>2, <1>4, <2>1, <2>2, QuietMove, Zenon
  <1> QED
    BY <1>5, <1>6, Zenon DEF UnlinkInode

\* Unlink and Rename change the object in GCS and are done.
LEMMA DeleteOK ==
  ASSUME IInv, NEW t \in Threads, DeleteChildFile(t) \/ RenameFile(t)
  PROVE  IInv'
  <1>1. th[t].op \in {"Unlink", "Rename"} /\ th[t].pc \in {"delete", "move"} /\ th[t].pc \notin Holding
    BY ReqFacts, Zenon DEF DeleteChildFile, RenameFile, At, InOrder, Holding
  <1>2. /\ lock' = lock /\ th' = [th EXCEPT ![t] = Idle] /\ objGen' \in {objGen, None}
        /\ UNCHANGED <<tableVars, inodeVars, count, lastGen, kernel, auxVars>>
    BY DEF DeleteChildFile, RenameFile, Done
  <1>3. objGen' \in 0..kind.gens
    <2>1. objGen \in 0..kind.gens /\ None \in 0..kind.gens
      BY ObjectTypes, Zenon
    <2> QED
      BY <1>2, <2>1
  <1>4. TableTypes'
    BY <1>2, <1>3 DEF IInv, TypeOK, TableTypes, tableVars, inodeVars, auxVars
  <1>5. QuietVars
    BY <1>2, <1>4, Zenon DEF IInv, IndexesLive, Live, QuietVars, tableVars, auxVars
  <1> QED
    BY <1>1, <1>2, <1>5, QuietDone, Zenon

-----------------------------------------------------------------------------
(* The steps that let go of an inode.                                      *)

\* unlockAndDecrementLookupCount: the count drops by n, and at zero the inode leaves the table
\* and every index entry of its own.
LEMMA LetGo ==
  ASSUME IInv, NEW t \in Threads, NEW i \in IDs, NEW n \in Nat,
         unlockAndDecrementLookupCount(i, n), th' = [th EXCEPT ![t] = Idle],
         UNCHANGED <<inodeVars, gcsVars, kernel, auxVars>>,
         \A k \in IDs : Share(th[t], k) = IF k = i THEN n ELSE 0,
         \/ th[t].pc \in Holding /\ i = th[t].want
         \/ th[t].pc = "respond" /\ i = th[t].in
  PROVE  IInv'
  <1> DEFINE q == th[t]
  <1>1. /\ count' = [count EXCEPT ![i] = @ - n] /\ lock' = [lock EXCEPT ![i] = Free]
        /\ nextInodeID' = nextInodeID /\ fsMu' = fsMu /\ revived' = revived
        /\ \/ count[i] > n /\ UNCHANGED <<inodes, generationBackedInodes, localFileInodes>>
           \/ /\ ~(count[i] > n) /\ inodes' = inodes \ {i}
              /\ generationBackedInodes' = IF generationBackedInodes = i THEN None ELSE generationBackedInodes
              /\ localFileInodes' = IF localFileInodes = i THEN None ELSE localFileInodes
    BY DEF unlockAndDecrementLookupCount, Unlock, tableVars, auxVars
  <1>2. /\ kind' = kind /\ calls' = calls /\ failed' = failed /\ kernel' = kernel
    BY Zenon DEF auxVars
  <1>3. count \in [IDs -> Nat] /\ kernel \in [IDs -> Nat] /\ kernel' \in [IDs -> Nat] /\ kernel' = kernel
    BY <1>2, Zenon DEF IInv, TypeOK
  <1>4. count' \in [IDs -> Int] /\ \A k \in IDs : count'[k] = IF k = i THEN count[k] - n ELSE count[k]
    <2>1. count[i] - n \in Int /\ count \in [IDs -> Int]
      BY <1>3
    <2> QED
      BY <1>1, <2>1, Zenon
  <1>5. \A k \in IDs : /\ count'[k] - kernel'[k] - Share(Idle, k) >= count[k] - kernel[k] - Share(q, k)
                       /\ count'[k] - kernel'[k] - Share(Idle, k) = count[k] - kernel[k] - Share(q, k)
    <2> SUFFICES ASSUME NEW k \in IDs
                 PROVE  /\ count'[k] - kernel'[k] - Share(Idle, k) >= count[k] - kernel[k] - Share(q, k)
                        /\ count'[k] - kernel'[k] - Share(Idle, k) = count[k] - kernel[k] - Share(q, k)
      BY Zenon
    <2>1. /\ Share(Idle, k) = 0 /\ Share(q, k) = (IF k = i THEN n ELSE 0)
          /\ count'[k] = (IF k = i THEN count[k] - n ELSE count[k])
          /\ kernel'[k] = kernel[k] /\ count[k] \in Nat /\ kernel[k] \in Nat
      BY <1>3, <1>4, IdleFacts
    <2> HIDE DEF q
    <2> QED
      BY <2>1
  <1>6. LookupCountsAgree' /\ count' \in [IDs -> Nat]
    BY <1>2, <1>3, <1>4, <1>5, IdleFacts, CountsKept, Zenon
  <1>7. /\ \A k \in IDs : lock'[k] \in {lock[k], Free, t}
        /\ "handler" \notin failed => \A k \in IDs : lock'[k] # t
    BY <1>1, Released, Zenon
  <1>8. LocksOwned'
    BY <1>1, <1>2, <1>7, IdleFacts, LocksKept, Zenon
  <1>9. HeldKnown'
    <2>1. \A k \in IDs : kernel'[k] \in Nat /\ kernel'[k] >= kernel[k]
      BY <1>3
    <2> QED
      BY <2>1, IdleFacts, HeldKept, Zenon
  <1>10. LookupsAsked'
    BY <1>2, <1>3, IdleFacts, AskedKept, Zenon
  <1>11. th' \in [Threads -> Thread] /\ \A u \in Threads : InOrder(th'[u])
    BY IdleFacts, OrderKept, Zenon
  <1>12. inodes' \subseteq inodes
    BY <1>1, Zenon
  <1>13. TypeOK'
    BY <1>1, <1>2, <1>3, <1>6, <1>11, LockTypes, Zenon DEF IInv, TypeOK, inodeVars, gcsVars
  <1>14. KernelInodesLive'
    <2> SUFFICES ASSUME NEW k \in IDs, kernel'[k] + InFlight(k)' > 0
                 PROVE  k \in Live'
      BY DEF KernelInodesLive
    <2>1. /\ InFlight(k) \in Nat /\ Share(q, k) \in Nat /\ InFlight(k) >= Share(q, k)
          /\ InFlight(k)' = InFlight(k) - Share(q, k) + Share(Idle, k) /\ Share(Idle, k) = 0
      BY IdleFacts, InFlightMoves, ZenonT(40) DEF IInv, TypeOK
    <2>2. kernel'[k] = kernel[k] /\ kernel[k] \in Nat
      BY <1>3
    <2>3. k \in Live
      <3>1. kernel[k] + InFlight(k) > 0
        BY <2>1, <2>2
      <3> QED
        BY <3>1, Zenon DEF IInv, KernelInodesLive
    <2>4. CASE k # i
      BY <1>1, <2>3, <2>4, Zenon DEF Live
    <2>5. CASE k = i
      <3>1. count'[i] >= kernel'[i] + InFlight(i)'
        BY <1>6, Zenon DEF LookupCountsAgree
      <3>2. count'[i] > 0 /\ count'[i] = count[i] - n /\ count[i] \in Nat
        <4>1. kernel'[i] + InFlight(i)' \in Int
          BY <2>1, <2>2, <2>5
        <4>2. count'[i] \in Nat
          BY <1>6, Zenon
        <4>3. count'[i] = count[i] - n /\ count[i] \in Nat
          BY <1>3, <1>4, Zenon
        <4> QED
          BY <2>5, <3>1, <4>1, <4>2, <4>3, SMTT(30)
      <3>3. count[i] > n
        BY <3>2, SMTT(30)
      <3> QED
        BY <1>1, <2>3, <2>5, <3>3, Zenon DEF Live
    <2> QED
      BY <2>4, <2>5, Zenon
  <1>15. IndexesLive'
    BY <1>1 DEF IInv, IndexesLive, Live
  <1> QED
    BY <1>6, <1>8, <1>9, <1>10, <1>11, <1>13, <1>14, <1>15, ZenonT(40) DEF IInv

\* ForgetInode gives back the lookups that the kernel forgot.
LEMMA ForgetInodeOK ==
  ASSUME IInv, NEW t \in Threads, ForgetInode(t)
  PROVE  IInv'
  <1> DEFINE q == th[t]
  <1>1. q.pc = "forget" /\ q.op = "Forget" /\ q.want \in IDs /\ q.pc \in Holding /\ q.n \in Nat
    BY ReqFacts, Zenon DEF ForgetInode, At, InOrder, Holding
  <1>2. \A k \in IDs : Share(q, k) = IF k = q.want THEN q.n ELSE 0
    BY <1>1, Zenon DEF Share
  <1> QED
    BY <1>1, <1>2, LetGo, Zenon DEF ForgetInode, Done

\* A request that fails after its lookup (getAttributes) gives the lookup back.
LEMMA ReplyErrorOK ==
  ASSUME IInv, NEW t \in Threads, ReplyError(t)
  PROVE  IInv'
  <1> DEFINE q == th[t]
  <1>1. /\ q.pc = "respond" /\ q.in \in IDs /\ q.op \in DirRequests
        /\ \A k \in IDs : Share(q, k) = IF k = q.in THEN 1 ELSE 0
    BY Respond, Zenon DEF ReplyError
  <1>2. 1 \in Nat
    OBVIOUS
  <1> QED
    BY <1>1, <1>2, LetGo, Zenon DEF ReplyError, Done

-----------------------------------------------------------------------------
(* The kernel and the other clients.                                       *)

\* What lets the kernel send a request: it keeps a lookup of what its requests refer to.
MaySend(op, pc, i, h, n) ==
    /\ op \in AllRequests /\ pc \in Places /\ i \in IDs \cup {None} /\ h \in IDs \cup {None} /\ n \in Nat
    /\ pc \notin Holding \cup {"respond"}
    /\ kernel' \in [IDs -> Nat]
    /\ \A k \in IDs : kernel'[k] = IF op = "Forget" /\ k = i THEN kernel[k] - n ELSE kernel[k]
    /\ h # None => kernel'[h] > 0
    /\ \A u \in Threads : th[u].held # None => kernel'[th[u].held] > 0
    /\ \A r \in Thread : r.op = op /\ r.pc = pc /\ r.want = i /\ r.n = n /\ r.held = h => InOrder(r)

\* The kernel sends a request (Start): the invariant holds with one more request in the table.
LEMMA StartOK ==
  ASSUME IInv, NEW t \in Threads, NEW op, NEW pc, NEW i, NEW h, NEW n,
         Start(t, op, pc, i, h, n), MaySend(op, pc, i, h, n)
  PROVE  IInv'
  <1>0. /\ op \in AllRequests /\ pc \in Places /\ i \in IDs \cup {None} /\ h \in IDs \cup {None} /\ n \in Nat
        /\ pc \notin Holding \cup {"respond"} /\ kernel' \in [IDs -> Nat]
        /\ \A k \in IDs : kernel'[k] = IF op = "Forget" /\ k = i THEN kernel[k] - n ELSE kernel[k]
    BY Zenon DEF MaySend
  <1> DEFINE r == [Idle EXCEPT !.op = op, !.pc = pc, !.want = i, !.n = n, !.held = h]
  <1>1. r \in Thread /\ r.op = op /\ r.pc = pc /\ r.want = i /\ r.n = n /\ r.held = h
    BY <1>0, IdleFacts, Zenon DEF Thread
  <1>2. /\ th[t] = Idle /\ calls < MaxCalls /\ calls' = calls + 1 /\ th' = [th EXCEPT ![t] = r]
        /\ UNCHANGED <<tableVars, inodeVars, gcsVars>> /\ count' = count /\ lock' = lock
        /\ kind' = kind /\ failed' = failed /\ revived' = revived
    BY DEF Start
  <1> HIDE DEF r
  <1>3. InOrder(r)
    BY <1>1, Zenon DEF MaySend
  <1>4. /\ Idle.op = "none" /\ Idle.pc = "idle"
    BY Zenon DEF Idle
  <1>5. th'[t] = r /\ \A u \in Threads \ {t} : th'[u] = th[u]
    BY <1>2 DEF IInv, TypeOK
  <1>6. th' \in [Threads -> Thread] /\ \A u \in Threads : InOrder(th'[u])
    BY <1>1, <1>2, <1>3, OrderKept, Zenon
  <1>7. count \in [IDs -> Nat] /\ kernel \in [IDs -> Nat] /\ calls \in 0..MaxCalls /\ MaxCalls \in Nat
    BY KindsOK, Zenon DEF IInv, TypeOK
  <1>8. \A k \in IDs : Share(r, k) = IF op = "Forget" /\ k = i THEN n ELSE 0
    BY <1>0, <1>1 DEF Share
  <1>9. \A k \in IDs : /\ count'[k] - kernel'[k] - Share(r, k) >= count[k] - kernel[k] - Share(th[t], k)
                       /\ count'[k] - kernel'[k] - Share(r, k) = count[k] - kernel[k] - Share(th[t], k)
                       /\ kernel'[k] + Share(r, k) <= kernel[k] + Share(th[t], k)
                       /\ kernel'[k] <= kernel[k]
    <2> SUFFICES ASSUME NEW k \in IDs
                 PROVE  /\ count'[k] - kernel'[k] - Share(r, k) >= count[k] - kernel[k] - Share(th[t], k)
                        /\ count'[k] - kernel'[k] - Share(r, k) = count[k] - kernel[k] - Share(th[t], k)
                        /\ kernel'[k] + Share(r, k) <= kernel[k] + Share(th[t], k)
                        /\ kernel'[k] <= kernel[k]
      BY Zenon
    <2> DEFINE d == Share(r, k)
    <2>1. /\ Share(th[t], k) = 0 /\ d \in Nat /\ kernel'[k] = kernel[k] - d
          /\ count'[k] = count[k] /\ count[k] \in Nat /\ kernel[k] \in Nat
      <3>1. Share(th[t], k) = 0 /\ count'[k] = count[k] /\ count[k] \in Nat /\ kernel[k] \in Nat
        BY <1>2, <1>7, IdleFacts, Zenon
      <3>2. CASE op = "Forget" /\ k = i
        BY <1>0, <1>8, <3>1, <3>2, Zenon
      <3>3. CASE ~(op = "Forget" /\ k = i)
        <4>1. d = 0 /\ kernel'[k] = kernel[k]
          BY <1>0, <1>8, <3>3, Zenon
        <4> QED
          BY ONLY <3>1, <4>1
      <3> QED
        BY <3>2, <3>3, Zenon
    <2> HIDE DEF d
    <2>2. /\ count'[k] - kernel'[k] - d >= count[k] - kernel[k] - Share(th[t], k)
          /\ count'[k] - kernel'[k] - d = count[k] - kernel[k] - Share(th[t], k)
          /\ kernel'[k] + d <= kernel[k] + Share(th[t], k)
          /\ kernel'[k] <= kernel[k]
      BY ONLY <2>1
    <2> QED
      BY <2>2, Zenon DEF d
  <1>10. LookupCountsAgree'
    <2>1. count' \in [IDs -> Int] /\ failed \subseteq failed'
      BY ONLY <1>2, <1>7
    <2> QED
      BY <1>0, <1>1, <1>2, <1>3, <1>9, <2>1, CountsKept, Zenon
  <1>11. TypeOK'
    <2>1. calls' \in 0..MaxCalls
      BY ONLY <1>2, <1>7
    <2> QED
      BY <1>0, <1>2, <1>6, <2>1, Zenon DEF IInv, TypeOK, tableVars, inodeVars, gcsVars
  <1>12. KernelInodesLive' /\ IndexesLive'
    <2>1. {generationBackedInodes', localFileInodes'} \subseteq Live' \cup {None}
      BY <1>2, Zenon DEF IInv, IndexesLive, Live, tableVars
    <2>2. Live \subseteq Live'
      BY <1>2, Zenon DEF Live, tableVars
    <2> QED
      BY <1>0, <1>1, <1>2, <1>3, <1>9, <2>1, <2>2, LiveKept, Zenon
  <1>13. LocksOwned'
    <2>1. th[t].pc \notin Holding \cup {"respond"}
      BY <1>2, <1>4, Zenon DEF Holding
    <2>2. /\ \A k \in IDs : lock'[k] \in {lock[k], Free, t}
          /\ "handler" \notin failed => \A k \in IDs : lock'[k] # t
      BY <1>2, <2>1, Released, Zenon
    <2>3. fsMu' = fsMu /\ failed \subseteq failed'
      BY <1>2, Zenon DEF tableVars
    <2> QED
      BY <1>0, <1>1, <1>2, <2>2, <2>3, LocksKept, Zenon
  <1>14. HeldKnown'
    BY <1>1, <1>5, Zenon DEF MaySend, HeldKnown
  <1>15. LookupsAsked'
    <2>1. IsFiniteSet(Asking) /\ Cardinality(Asking) \in Nat
      BY KindsOK, FS_Subset, FS_CardinalityType, Zenon DEF Asking
    <2>2. t \notin Asking
      BY <1>2, <1>4 DEF Asking, DirRequests
    <2>3. Asking' = Asking \/ Asking' = Asking \cup {t}
      BY <1>1, <1>2, <1>4, <1>5, Zenon DEF Asking, DirRequests
    <2>4. Cardinality(Asking \cup {t}) = Cardinality(Asking) + 1
      BY <2>1, <2>2, FS_AddElement, Zenon
    <2>5. Cardinality(Asking') <= Cardinality(Asking) + 1 /\ Cardinality(Asking') \in Nat
      <3>1. CASE Asking' = Asking
        BY ONLY <2>1, <3>1
      <3>2. CASE Asking' = Asking \cup {t}
        <4>1. Cardinality(Asking') = Cardinality(Asking) + 1
          BY <2>4, <3>2, Zenon
        <4> QED
          BY ONLY <2>1, <4>1
      <3> QED
        BY <2>3, <3>1, <3>2, Zenon
    <2>6. \A k \in IDs : kernel[k] + Cardinality(Asking) <= calls
      BY Zenon DEF IInv, LookupsAsked
    <2>7. ASSUME NEW k \in IDs
          PROVE  kernel'[k] + Cardinality(Asking') <= calls'
      <3>1. kernel'[k] \in Nat /\ kernel[k] \in Nat /\ kernel'[k] <= kernel[k] /\ calls \in Nat /\ calls' = calls + 1
        <4>1. kernel'[k] \in Nat /\ kernel[k] \in Nat /\ kernel'[k] <= kernel[k]
          BY <1>0, <1>7, <1>9, Zenon
        <4> QED
          BY ONLY <1>2, <1>7, <4>1
      <3>2. kernel[k] + Cardinality(Asking) <= calls
        BY <2>6, Zenon
      <3> QED
        BY ONLY <2>1, <2>5, <3>1, <3>2
    <2> QED
      BY <2>7, Zenon DEF LookupsAsked
  <1> QED
    BY <1>6, <1>10, <1>11, <1>12, <1>13, <1>14, <1>15, Zenon DEF IInv

\* The kernel sends a request on the directory.
LEMMA DirRequestOK ==
  ASSUME IInv, NEW t \in Threads, DirRequest(t)
  PROVE  IInv'
  <1>1. kernel' = kernel /\ kernel \in [IDs -> Nat]
    BY Zenon DEF DirRequest, IInv, TypeOK
  <1>2. \A u \in Threads : th[u].held # None => kernel'[th[u].held] > 0
    BY <1>1, Zenon DEF IInv, HeldKnown
  <1>3. PICK op \in DirRequests, pc \in {"local", "stat", "mknod", "create", "find"}, h \in IDs \cup {None} :
           /\ Start(t, op, pc, None, h, 0)
           /\ h # None => kernel[h] > 0
           /\ <<op, pc>> \in {<<"LookUp", "local">>, <<"ReadDirPlus", "stat">>, <<"ReadDirPlus", "local">>,
                             <<"MkNode", "mknod">>, <<"Create", "create">>, <<"Unlink", "find">>,
                             <<"Rename", "local">>}
    BY DEF DirRequest, DirRequests
  <1>4. /\ op \in AllRequests /\ op \notin {"Flush", "Write", "Forget"}
        /\ pc \in Places /\ pc \notin Holding \cup {"respond"}
    BY <1>3, Zenon DEF DirRequests, AllRequests, Places, Holding
  <1>5. \A r \in Thread : r.op = op /\ r.pc = pc => InOrder(r)
    BY <1>3, Zenon DEF InOrder, Holding, Waiting
  <1>6. 0 \in Nat /\ None \in IDs \cup {None}
    OBVIOUS
  <1>7. \A k \in IDs : kernel'[k] = IF op = "Forget" /\ k = None THEN kernel[k] - 0 ELSE kernel[k]
    BY <1>1, <1>4
  <1>8. MaySend(op, pc, None, h, 0)
    BY <1>1, <1>2, <1>3, <1>4, <1>5, <1>6, <1>7, Zenon DEF MaySend
  <1> QED
    BY <1>3, <1>8, StartOK, Zenon

\* The kernel sends a request on a file that it knows.
LEMMA FileRequestOK ==
  ASSUME IInv, NEW t \in Threads, FileRequest(t)
  PROVE  IInv'
  <1>1. PICK i \in IDs :
           /\ kernel[i] > 0
           /\ \/ Start(t, "Flush", "lockFlush", i, i, 0) /\ UNCHANGED kernel
              \/ Start(t, "Write", "lockWrite", i, i, 0) /\ UNCHANGED kernel
              \/ \E n \in 1..kernel[i] :
                   /\ n = kernel[i] => \A u \in Threads : th[u].held # i
                   /\ Start(t, "Forget", "lockForget", i, None, n)
                   /\ kernel' = [kernel EXCEPT ![i] = @ - n]
    BY Zenon DEF FileRequest
  <1>2. kernel \in [IDs -> Nat] /\ MaxCalls \in Nat /\ calls \in 0..MaxCalls
    BY KindsOK, Zenon DEF IInv, TypeOK
  <1>3. \A u \in Threads : th[u].held # None => kernel[th[u].held] > 0 /\ th[u].held \in IDs
    BY DEF IInv, HeldKnown, TypeOK, Thread
  <1>4. ASSUME NEW op \in {"Flush", "Write"}, NEW pc \in {"lockFlush", "lockWrite"},
               op = "Flush" <=> pc = "lockFlush", Start(t, op, pc, i, i, 0), kernel' = kernel
        PROVE  IInv'
    <2>1. /\ op \in AllRequests /\ op # "Forget" /\ pc \in Places /\ pc \notin Holding \cup {"respond"}
      BY Zenon DEF AllRequests, Places, AfterLock, Holding
    <2>2. \A r \in Thread : r.op = op /\ r.pc = pc /\ r.want = i /\ r.n = 0 /\ r.held = i => InOrder(r)
      BY <1>4 DEF InOrder, Holding, Waiting
    <2>3. \A k \in IDs : kernel'[k] = IF op = "Forget" /\ k = i THEN kernel[k] - 0 ELSE kernel[k]
      BY <1>4, <2>1, Zenon
    <2>4. kernel'[i] > 0 /\ kernel' \in [IDs -> Nat] /\ 0 \in Nat /\ i \in IDs \cup {None}
      BY <1>1, <1>2, <1>4, Zenon
    <2>5. \A u \in Threads : th[u].held # None => kernel'[th[u].held] > 0
      BY <1>3, <1>4, Zenon
    <2>6. MaySend(op, pc, i, i, 0)
      BY <2>1, <2>2, <2>3, <2>4, <2>5, Zenon DEF MaySend
    <2> QED
      BY <1>4, <2>6, StartOK, Zenon
  <1>5. ASSUME NEW n \in 1..kernel[i], n = kernel[i] => \A u \in Threads : th[u].held # i,
               Start(t, "Forget", "lockForget", i, None, n), kernel' = [kernel EXCEPT ![i] = @ - n]
        PROVE  IInv'
    <2> DEFINE op == "Forget"
               pc == "lockForget"
    <2>1. op \in AllRequests /\ pc \in Places /\ pc \notin Holding \cup {"respond"}
      BY Zenon DEF AllRequests, Places, AfterLock, Holding
    <2>2. kernel[i] <= MaxCalls
      <3>1. kernel[i] + Cardinality(Asking) <= calls
        BY Zenon DEF IInv, LookupsAsked
      <3>2. Cardinality(Asking) \in Nat
        BY KindsOK, FS_Subset, FS_CardinalityType DEF Asking
      <3> QED
        BY <1>2, <3>1, <3>2
    <2>3. n \in 1..MaxCalls /\ n \in Nat /\ kernel[i] - n \in Nat /\ kernel[i] \in Nat
      BY <1>2, <2>2
    <2>4. \A r \in Thread : r.op = op /\ r.pc = pc /\ r.want = i /\ r.n = n => InOrder(r)
      BY <2>3, Zenon DEF InOrder, Holding, Waiting
    <2>5. /\ kernel' \in [IDs -> Nat] /\ i \in IDs \cup {None} /\ None \in IDs \cup {None}
          /\ \A k \in IDs : kernel'[k] = IF op = "Forget" /\ k = i THEN kernel[k] - n ELSE kernel[k]
      BY <1>2, <1>5, <2>3, Zenon
    <2>6. \A u \in Threads : th[u].held # None => kernel'[th[u].held] > 0
      <3> SUFFICES ASSUME NEW u \in Threads, th[u].held # None
                   PROVE  kernel'[th[u].held] > 0
        BY Zenon
      <3>1. kernel[th[u].held] > 0 /\ th[u].held \in IDs
        BY <1>3, Zenon
      <3>2. CASE th[u].held = i
        <4>1. n # kernel[i]
          BY <1>5, <3>2, Zenon
        <4>2. kernel'[i] = kernel[i] - n
          BY <2>5, Zenon
        <4> QED
          BY <2>3, <3>2, <4>1, <4>2
      <3>3. CASE th[u].held # i
        BY <2>5, <3>1, <3>3, Zenon
      <3> QED
        BY <3>2, <3>3, Zenon
    <2>7. Start(t, op, pc, i, None, n)
      BY <1>5
    <2> HIDE DEF op, pc
    <2>8. MaySend(op, pc, i, None, n)
      BY <2>1, <2>3, <2>4, <2>5, <2>6, Zenon DEF MaySend
    <2> QED
      BY <2>7, <2>8, StartOK, Zenon
  <1> QED
    BY <1>1, <1>4, <1>5, Zenon

\* Steps that change no request, no lock, no count and nothing in the table.
LEMMA RemoteOK ==
  ASSUME IInv, UNCHANGED <<tableVars, inodeVars, count, lock, kernel, th, auxVars>>,
         objGen' \in 0..kind.gens, lastGen' \in 0..kind.gens
  PROVE  IInv'
  <1>1. \A i \in IDs : InFlight(i)' = InFlight(i)
    BY DEF InFlight, Answering, Forgetting
  <1>2. Asking' = Asking
    BY Zenon DEF Asking
  <1>3. TypeOK'
    BY DEF IInv, TypeOK, tableVars, inodeVars, auxVars
  <1>4. \A u \in Threads : InOrder(th'[u])
    BY DEF IInv
  <1>5. HeldKnown' /\ LocksOwned'
    BY Zenon DEF IInv, HeldKnown, LocksOwned, tableVars, auxVars
  <1>6. LookupsAsked'
    BY <1>2, Zenon DEF IInv, LookupsAsked, auxVars
  <1>7. LookupCountsAgree' /\ KernelInodesLive'
    BY <1>1, Zenon DEF IInv, LookupCountsAgree, KernelInodesLive, Live, tableVars, auxVars
  <1>8. IndexesLive'
    BY DEF IInv, IndexesLive, Live, tableVars, auxVars
  <1> QED
    BY <1>3, <1>4, <1>5, <1>6, <1>7, <1>8, Zenon DEF IInv

-----------------------------------------------------------------------------
(* The theorems.                                                           *)

\* The inductive invariant holds when the file system is mounted.
LEMMA InitIInv == Init => IInv
  <1> SUFFICES ASSUME Init
               PROVE  IInv
    OBVIOUS
  <1>1. \A t \in Threads : th[t] = Idle
    BY Zenon DEF Init
  <1>2. Idle.op = "none" /\ Idle.pc = "idle"
    BY Zenon DEF Idle
  <1>3. \A i \in IDs : count[i] = 0 /\ kernel[i] = 0 /\ lock[i] = Free
    BY DEF Init
  <1>4. \A i \in IDs : InFlight(i) = 0
    <2> SUFFICES ASSUME NEW i \in IDs
                 PROVE  InFlight(i) = 0
      BY Zenon
    <2>1. Answering(i) = {} /\ Forgetting(i) = {}
      BY <1>1, <1>2 DEF Answering, Forgetting
    <2> QED
      BY <2>1, FS_EmptySet DEF InFlight
  <1>5. Cardinality(Asking) = 0
    <2>1. Asking = {}
      BY <1>1, <1>2, Zenon DEF Asking, DirRequests
    <2> QED
      BY <2>1, FS_EmptySet
  <1>6. TypeOK
    <2>1. objGen \in 0..kind.gens /\ lastGen \in 0..kind.gens
      BY KindsOK, Zenon DEF Init
    <2>2. 0 \in 0..MaxGen /\ 0 \in 0..MaxCalls
      BY KindsOK
    <2>3. srcGen \in [IDs -> 0..MaxGen] /\ count \in [IDs -> Nat] /\ kernel \in [IDs -> Nat]
      BY <2>2, Zenon DEF Init
    <2>4. th \in [Threads -> Thread] /\ lock \in [IDs -> Threads \cup {Free}]
      BY IdleFacts, Zenon DEF Init
    <2> QED
      BY <2>1, <2>2, <2>3, <2>4 DEF Init, TypeOK
  <1>7. \A t \in Threads : InOrder(th[t])
    BY <1>1, IdleFacts, Zenon
  <1>8. HeldKnown
    <2>1. Idle.held = None
      BY DEF Idle
    <2> QED
      BY <1>1, <2>1, Zenon DEF HeldKnown
  <1>9. LocksOwned
    BY <1>3, KindsOK, Zenon DEF LocksOwned, Init
  <1>10. LookupsAsked
    BY <1>3, <1>5 DEF LookupsAsked, Init
  <1>11. LookupCountsAgree /\ KernelInodesLive
    BY <1>3, <1>4 DEF LookupCountsAgree, KernelInodesLive
  <1>12. IndexesLive
    BY Zenon DEF IndexesLive, Live, Init
  <1> QED
    BY <1>6, <1>7, <1>8, <1>9, <1>10, <1>11, <1>12 DEF IInv

\* Every step of every handler, of the kernel and of the other clients keeps it.
LEMMA NextIInv == IInv /\ [Next]_vars => IInv'
  <1> SUFFICES ASSUME IInv, [Next]_vars
               PROVE  IInv'
    BY Zenon
  <1>1. ASSUME NEW t \in Threads, Step(t)
        PROVE  IInv'
    BY <1>1, LockOK, LookUpLocalOK, CheckLocalOK, LookUpChildOK, LookUpOrCreateOK, IndexChangedOK,
       SameGenerationOK, StaleRecordOK, StaleRecordMintedOK, NewerObjectOK, ForgetInodeOK, ReplyOK,
       ReplyErrorOK, EntryErrorOK, CreateChildFileOK, CreateLocalFileOK, BaseDirOK, InitHandlerOK,
       CreatedOK, CreateFailedOK, FlushUnlinkedOK, PromoteOK, FlushObjectOK, FlushFailsOK, WriteFileOK,
       WriteOutOfOrderOK, UnlinkFindOK, UnlinkInodeOK, DeleteOK, RenameFoundOK, SMTT(30) DEF Step
  <1>2. ASSUME NEW t \in Threads, DirRequest(t)
        PROVE  IInv'
    BY <1>2, DirRequestOK
  <1>3. ASSUME NEW t \in Threads, FileRequest(t)
        PROVE  IInv'
    BY <1>3, FileRequestOK, Zenon
  <1>4. CASE RemoteWrite
    <2>1. objGen' \in 0..kind.gens /\ lastGen' \in 0..kind.gens
      BY <1>4, GenTypes, Zenon DEF RemoteWrite
    <2> QED
      BY <1>4, <2>1, RemoteOK, Zenon DEF RemoteWrite
  <1>5. CASE RemoteDelete
    <2>1. None \in 0..kind.gens /\ lastGen \in 0..kind.gens
      BY ObjectTypes, Zenon
    <2> QED
      BY <1>5, <2>1, RemoteOK DEF RemoteDelete
  <1>6. CASE UNCHANGED vars
    <2>1. objGen' = objGen /\ lastGen' = lastGen /\ objGen \in 0..kind.gens /\ lastGen \in 0..kind.gens
      BY <1>6 DEF vars, gcsVars, IInv, TypeOK
    <2> QED
      BY <1>6, <2>1, RemoteOK, Zenon DEF vars
  <1> QED
    BY <1>1, <1>2, <1>3, <1>4, <1>5, <1>6 DEF Next

\* The table, the lookup counts, the locks and the requests stay consistent: the inductive
\* invariant of the inode table (checkInvariants, inodeOrDie, unlockAndMaybeDisposeOfInode).
THEOREM Invariance == Spec => []IInv
  BY InitIInv, NextIInv, PTL DEF Spec

\* At every step of every request the lookup counts are what the kernel and the running
\* requests hold, and a request that returned holds no lock, but for the failures named
\* there; an inode that the kernel may name or that an index refers to is in the table, or
\* was destroyed while lookUpOrCreateInodeIfNotStale, createLocalFile or Rename still had
\* it to give back.  No flush, write, forget or other lookup brings an inode back.
THEOREM TableStaysInOrder == Spec => []TableInOrder
  <1>1. IInv => NoLockAfterReturn
    <2> SUFFICES ASSUME IInv, failed \cap {"handler", "baseDir"} = {}, NEW t \in Threads, th[t] = Idle
                 PROVE  fsMu # t /\ \A i \in IDs : lock[i] # t
      BY Zenon DEF NoLockAfterReturn
    <2>1. Idle.pc = "idle"
      BY Zenon DEF Idle
    <2>2. fsMu = Free /\ t # Free
      BY KindsOK, Zenon DEF IInv, LocksOwned
    <2>3. \A i \in IDs : lock[i] # t
      BY <2>1 DEF IInv, LocksOwned, Holding
    <2> QED
      BY <2>2, <2>3
  <1>2. IInv => TableInOrder
    BY <1>1 DEF IInv, TableInOrder
  <1> QED
    BY <1>2, Invariance, PTL

\* lookUpOrCreateInodeIfNotStale never replaces an entry of generationBackedInodes by one of
\* an older or equal generation, nor does a flush that promotes a local file.
THEOREM IndexGoesForward == Spec => IndexNeverRegresses
  <1> DEFINE A == generationBackedInodes # None /\ generationBackedInodes' \notin {None, generationBackedInodes}
                    => srcGen'[generationBackedInodes'] > srcGen[generationBackedInodes]
  <1>1. IInv /\ [Next]_vars => [A]_vars
    <2> SUFFICES ASSUME IInv, Next, generationBackedInodes # None,
                        generationBackedInodes' \notin {None, generationBackedInodes}
                 PROVE  srcGen'[generationBackedInodes'] > srcGen[generationBackedInodes]
      BY DEF vars, tableVars
    <2>1. PICK t \in Threads : Step(t)
      BY ZenonT(40) DEF Next, DirRequest, FileRequest, Start, RemoteWrite, RemoteDelete, tableVars
    <2>2. NewerObject(t)
      BY <2>1, Zenon DEF Step, Lock, lookUpLocalFileInode, checkLocal, LookUpChild, lookUpOrCreateInodeIfNotStale,
         IndexChanged, SameGeneration, StaleRecord, StaleRecordMinted, ForgetInode, Reply, ReplyError,
         EntryError, CreateChildFile, createLocalFile, createLocalFileInBaseDir, InitHandler, Created,
         CreateFailed, FlushUnlinked, FlushClean, FlushObject, Promote, FlushFails, WriteFile, WriteFails,
         WriteOutOfOrder, UnlinkFind, UnlinkInode, DeleteChildFile, RenameFound, RenameFile,
         unlockAndDecrementLookupCount, promoteToGenerationBacked, tableVars
    <2>3. /\ generationBackedInodes' = nextInodeID /\ nextInodeID \in IDs
          /\ srcGen' = [srcGen EXCEPT ![nextInodeID] = th[t].core]
          /\ th[t].core > srcGen[generationBackedInodes]
      BY <2>2 DEF NewerObject, mintInode
    <2> QED
      BY <2>3, Zenon DEF IInv, TypeOK
  <1> QED
    BY <1>1, Invariance, PTL DEF Spec, IndexNeverRegresses

=============================================================================
