------------------------ MODULE BufferedWritesLemmas ------------------------
(***************************************************************************)
(* The two inductive invariants of BufferedWrites, one of the pipeline and *)
(* one of the bytes in it, and what the operations do to the pool, to the  *)
(* blocks and to the bytes: for any file, sizes of blocks and chunks, and  *)
(* numbers of blocks and of other files.                                   *)
(***************************************************************************)
EXTENDS BufferedWrites, TLAPS

-----------------------------------------------------------------------------
(* The invariant of the pipeline.                                          *)

\* The pools are in order (see BlockPoolProofs).
PoolOK == Pool!TypeOK /\ Pool!BlocksAccounted /\ Pool!PermitAccounting

\* Which call is where, what it has to append there, and what it does to the pool.
Places ==
    /\ call \in {"none", "idle", "gone"} => pc = "none"
    /\ call = "Write" => pc \in {"append", "full"}
    /\ call = "Sync" => pc \in {"last", "wait", "remote", "clear"}
    /\ call = "Flush" => pc \in {"append", "full", "last", "wait", "remote", "clear"}
    /\ call = "Unlink" => pc \in {"wait", "clear"}
    /\ call = "Destroy" => pc \in {"drain", "clear"}
    /\ pc \in {"append", "full"} <=> todo # <<>>
    /\ pc \notin {"append", "full"} => copied = 0
    /\ todo # <<>> => copied <= Len(Head(todo))
    /\ copied > 0 => totalBlocks[File] > 0
    /\ pc = "clear" /\ call = "Flush" => phase[File] = "all"

\* Nothing is with the uploader or on its way to it.
Quiet == uploadCh = <<>> /\ uploader \notin {"busy", "copied", "released"}

\* A block holds bytes, at most BlockSize of them.  A Flush has handed over the last one
\* before it waits, and has the uploader to itself after that; a published object is final.
Blocks ==
    /\ current = NoBlock \/ (current \in Seq(Nat) /\ Len(current) <= BlockSize)
    /\ pc = "full" => current # NoBlock /\ Len(current) = BlockSize
    /\ uploadCh \in Seq(Seq(Nat))
    /\ uploader = "busy" => inHand \in Seq(Nat)
    /\ call = "Flush" /\ pc \in {"wait", "remote", "clear"} => current = NoBlock
    /\ call = "Flush" /\ pc \in {"remote", "clear"} => Quiet
    /\ call = "Flush" /\ uploadError = "set" => writer = "broken"
    /\ object # NoObject => /\ (call = "Flush" /\ pc = "clear") \/ call = "gone"
                            /\ Quiet /\ current = NoBlock

\* Who closed the channel left an error or is the last call, and no block to be sent.
Closed ==
    closed = "yes" /\ noWriter = "never" =>
       /\ call # "Write"
       /\ call = "Flush" => pc \in {"remote", "clear"}
       /\ call \in {"Destroy", "gone"} \/ current = NoBlock
       /\ uploadError = "set" \/ call \in {"Flush", "Destroy", "gone"}

PInv ==
    PoolOK /\ TypeOK /\ Places /\ Blocks /\ Closed /\ WaitGroupCountsBlocks /\ LentBlocksAreHeld

-----------------------------------------------------------------------------
(* The pool.                                                               *)

Proved == INSTANCE BlockPoolProofs WITH ReservedBlocks <- 1

\* A step that leaves the pools alone leaves them in order.
LEMMA PoolSame == ASSUME PoolOK, UNCHANGED poolVars PROVE PoolOK'
  BY DEF PoolOK, Pool!TypeOK, Pool!BlocksAccounted, Pool!PermitAccounting, poolVars

\* Every operation of block_pool.go keeps the pools in order, by the theorems of BlockPool.
LEMMA PoolKept == ASSUME PoolOK, NEW p \in Pools, Pool!PoolStep(p) PROVE PoolOK'
  <1>1. Pool!PoolAssumption
    BY BufferedWritesAssumption DEF Pool!PoolAssumption
  <1>2. Proved!IInv /\ [Proved!Next]_(Proved!vars) => Proved!IInv'
    BY <1>1, Proved!NextIInv
  <1>3. Proved!IInv
    BY DEF PoolOK, Proved!IInv, Pool!TypeOK, Proved!TypeOK, Pool!BlocksAccounted, Proved!BlocksAccounted,
           Pool!PermitAccounting, Proved!PermitAccounting, Pool!Larger, Proved!Larger
  <1>4. Proved!PoolStep(p)
    BY DEF Pool!PoolStep, Proved!PoolStep, Pool!NewGenBlockPool, Proved!NewGenBlockPool, Pool!GetFree,
           Proved!GetFree, Pool!GetNew, Proved!GetNew, Pool!GetFails, Proved!GetFails, Pool!Release,
           Proved!Release, Pool!ClearFreeBlockChannel, Proved!ClearFreeBlockChannel, Pool!ClearBlock,
           Proved!ClearBlock, Pool!ClearDone, Proved!ClearDone, Pool!canAllocateBlock,
           Proved!canAllocateBlock, Pool!PermitsForNewBlock, Proved!PermitsForNewBlock,
           Pool!PermitsOfBlock, Proved!PermitsOfBlock, Pool!TryAcquire, Proved!TryAcquire
  <1>5. Proved!IInv'
    BY <1>2, <1>3, <1>4 DEF Proved!Next
  <1> QED
    BY <1>5 DEF PoolOK, Proved!IInv, Pool!TypeOK, Proved!TypeOK, Pool!BlocksAccounted, Proved!BlocksAccounted,
           Pool!PermitAccounting, Proved!PermitAccounting, Pool!Larger, Proved!Larger

\* The pool of the file, by itself.
LEMMA FilePool ==
  ASSUME PoolOK
  PROVE  /\ totalBlocks[File] \in 0..MaxBlocks /\ freeBlocksCh[File] \in Nat /\ lent[File] \in Nat
         /\ lost[File] \in Nat /\ held[File] \in Int /\ MaxBlocks \in Nat
         /\ totalBlocks[File] = freeBlocksCh[File] + lent[File]
         /\ phase[File] = "none" /\ totalBlocks[File] = 0 => held[File] = lost[File]
  BY BufferedWritesAssumption
     DEF PoolOK, Pool!TypeOK, Pool!BlocksAccounted, Pool!PermitAccounting, Pool!Larger

\* A new handler has a new pool.
LEMMA NewEffect ==
  ASSUME PoolOK, Pool!NewGenBlockPool(File)
  PROVE  PoolOK' /\ UNCHANGED <<freeBlocksCh, totalBlocks, lent, lost>>
  <1>1. PoolOK'
    BY PoolKept, BufferedWritesAssumption DEF Pool!PoolStep
  <1> QED
    BY <1>1 DEF Pool!NewGenBlockPool

\* A block is lent.
LEMMA GetEffect ==
  ASSUME PoolOK, Pool!GetFree(File) \/ Pool!GetNew(File)
  PROVE  /\ PoolOK' /\ lent'[File] = lent[File] + 1 /\ totalBlocks'[File] > 0
         /\ phase' = phase /\ lost' = lost
  <1>1. PoolOK'
    BY PoolKept, BufferedWritesAssumption DEF Pool!PoolStep
  <1>2. lent'[File] = lent[File] + 1 /\ phase' = phase /\ lost' = lost
    BY BufferedWritesAssumption DEF Pool!GetFree, Pool!GetNew, PoolOK, Pool!TypeOK
  <1>3. totalBlocks'[File] = freeBlocksCh'[File] + lent'[File] /\ freeBlocksCh'[File] \in Nat
    BY <1>1, BufferedWritesAssumption DEF PoolOK, Pool!TypeOK, Pool!BlocksAccounted
  <1> QED
    BY <1>1, <1>2, <1>3, FilePool

\* A block cannot be made: unless it was a reserved one, its permit is lost.
LEMMA FailEffect ==
  ASSUME PoolOK, Pool!GetFails(File)
  PROVE  /\ PoolOK' /\ lent' = lent /\ totalBlocks' = totalBlocks /\ phase' = phase
         /\ lost'[File] >= lost[File] /\ (totalBlocks[File] > 0 => lost'[File] > 0)
  <1>1. PoolOK'
    BY PoolKept, BufferedWritesAssumption DEF Pool!PoolStep
  <1> QED
    BY <1>1, BufferedWritesAssumption DEF Pool!GetFails, Pool!PermitsForNewBlock, PoolOK, Pool!TypeOK

\* A block comes back.
LEMMA ReleaseEffect ==
  ASSUME PoolOK, Pool!Release(File)
  PROVE  /\ PoolOK' /\ lent'[File] = lent[File] - 1
         /\ UNCHANGED <<totalBlocks, phase, lost, held>>
  <1>1. PoolOK'
    BY PoolKept, BufferedWritesAssumption DEF Pool!PoolStep
  <1> QED
    BY <1>1, BufferedWritesAssumption DEF Pool!Release, PoolOK, Pool!TypeOK

\* The free channel is about to be cleared.
LEMMA StartEffect ==
  ASSUME PoolOK, NEW all \in BOOLEAN, StartClear(all)
  PROVE  /\ PoolOK' /\ pc' = "clear" /\ phase'[File] = (IF all THEN "all" ELSE "keep")
         /\ UNCHANGED <<totalBlocks, lent, lost, held>>
  <1>1. PoolOK'
    BY PoolKept, BufferedWritesAssumption DEF Pool!PoolStep, StartClear
  <1> QED
    BY <1>1, BufferedWritesAssumption DEF StartClear, Pool!ClearFreeBlockChannel, PoolOK, Pool!TypeOK

\* A free block is deallocated.
LEMMA ClearEffect ==
  ASSUME PoolOK, Pool!ClearBlock(File)
  PROVE  PoolOK' /\ UNCHANGED <<phase, lent, lost>>
  <1>1. PoolOK'
    BY PoolKept, BufferedWritesAssumption DEF Pool!PoolStep
  <1> QED
    BY <1>1 DEF Pool!ClearBlock

\* The free channel was found empty.
LEMMA ClearedEffect ==
  ASSUME PoolOK, Pool!ClearDone(File)
  PROVE  /\ PoolOK' /\ freeBlocksCh[File] = 0 /\ UNCHANGED <<totalBlocks, lent, lost>>
         /\ phase'[File] = (IF phase[File] = "all" THEN "none" ELSE "open")
  <1>1. PoolOK'
    BY PoolKept, BufferedWritesAssumption DEF Pool!PoolStep
  <1> QED
    BY <1>1, BufferedWritesAssumption DEF Pool!ClearDone, PoolOK, Pool!TypeOK

\* Other files use their own pools.
LEMMA OtherEffect ==
  ASSUME PoolOK, NEW p \in Pools \ {File}, Pool!PoolStep(p)
  PROVE  /\ PoolOK' /\ phase'[File] = phase[File] /\ totalBlocks'[File] = totalBlocks[File]
         /\ lent'[File] = lent[File] /\ lost'[File] = lost[File] /\ held'[File] = held[File]
  <1>1. PoolOK'
    BY PoolKept
  <1> QED
    BY <1>1, BufferedWritesAssumption
       DEF Pool!PoolStep, Pool!NewGenBlockPool, Pool!GetFree, Pool!GetNew, Pool!GetFails, Pool!Release,
           Pool!ClearFreeBlockChannel, Pool!ClearBlock, Pool!ClearDone, PoolOK, Pool!TypeOK

-----------------------------------------------------------------------------
(* Bytes and chunks.                                                       *)

\* NoBlock is no block.
LEMMA NoBlockIsNone == ASSUME NEW b \in Seq(Nat) PROVE b # NoBlock
  BY DEF NoBlock

\* Bytes are integers.
LEMMA NatsAreInts == ASSUME NEW b \in Seq(Nat) PROVE b \in Seq(Int) /\ Len(b) \in Nat
  OBVIOUS

\* Bytes after bytes.
LEMMA ConcatInts ==
  ASSUME NEW a \in Seq(Int), NEW b \in Seq(Int) PROVE a \o b \in Seq(Int) /\ Len(a \o b) = Len(a) + Len(b)
  OBVIOUS

\* What Bytes makes.
LEMMA BytesType ==
  ASSUME NEW from \in Nat, NEW n \in Nat
  PROVE  /\ Bytes(from, n) \in Seq(Nat) /\ Len(Bytes(from, n)) = n
         /\ \A i \in 1..n : Bytes(from, n)[i] = from + i - 1
  BY DEF Bytes

\* The chunks of writeDataForTruncatedSize cover what is missing and nothing else.
LEMMA ChunkCount ==
  ASSUME NEW d \in Nat \ {0}, NEW c \in Nat \ {0}, NEW n, n = (d + c - 1) \div c
  PROVE  /\ n \in Nat \ {0} /\ (n - 1) * c < d /\ d <= n * c
         /\ \A i \in 1..n : (i - 1) * c \in Nat /\ (i - 1) * c < d /\ i * c = (i - 1) * c + c
         /\ \A i \in 1..(n - 1) : i * c < d
  <1>1. n \in Int /\ n * c <= d + c - 1 /\ d + c - 1 < n * c + c
    OBVIOUS
  <1>2. n >= 1
    BY <1>1
  <1>3. \A a, b \in Nat : a <= b => a * c <= b * c /\ a * c \in Nat
    <2> SUFFICES ASSUME NEW a \in Nat, NEW b \in Nat, a <= b PROVE a * c <= b * c /\ a * c \in Nat
      OBVIOUS
    <2>1. \A x, y \in Nat : x * y \in Nat
      OBVIOUS
    <2>2. (b - a) * c \in Nat /\ a * c \in Nat /\ b * c \in Nat
      BY <2>1
    <2>3. b * c = a * c + (b - a) * c
      OBVIOUS
    <2> QED
      BY <2>2, <2>3
  <1>4. \A i \in Nat : (i + 1) * c = i * c + c
    OBVIOUS
  <1>5. (n - 1) * c < d /\ d <= n * c
    BY <1>1, <1>2, <1>4
  <1>6. ASSUME NEW i \in 1..n PROVE (i - 1) * c \in Nat /\ (i - 1) * c < d /\ i * c = (i - 1) * c + c
    <2>1. i - 1 \in Nat /\ n - 1 \in Nat /\ i - 1 <= n - 1
      BY <1>1, <1>2
    <2>2. (i - 1) * c <= (n - 1) * c /\ (i - 1) * c \in Nat
      BY <2>1, <1>3
    <2>3. ((i - 1) + 1) * c = (i - 1) * c + c
      BY <2>1, <1>4
    <2> QED
      BY <2>2, <2>3, <1>5, <2>1
  <1>7. ASSUME NEW i \in 1..(n - 1) PROVE i * c < d
    <2>1. i \in Nat /\ n - 1 \in Nat /\ i <= n - 1
      BY <1>1, <1>2
    <2> QED
      BY <2>1, <1>3, <1>5
  <1> QED
    BY <1>1, <1>2, <1>5, <1>6, <1>7

\* Only the empty sequence has no element.
LEMMA EmptySeq == ASSUME NEW S, NEW s \in Seq(S) PROVE Len(s) \in Nat /\ (s = <<>> <=> Len(s) = 0)
  OBVIOUS

\* The elements of a sequence.
LEMMA ElementOfSeq == ASSUME NEW S, NEW s \in Seq(S), NEW i \in 1..Len(s) PROVE s[i] \in S
  OBVIOUS

\* Sequences with the same elements are equal.
LEMMA SeqEqual ==
  ASSUME NEW S, NEW a \in Seq(S), NEW b \in Seq(S), Len(a) = Len(b), \A i \in 1..Len(a) : a[i] = b[i]
  PROVE a = b
  OBVIOUS

\* Two sequences after one another.
LEMMA ConcatProperties ==
  ASSUME NEW S, NEW a \in Seq(S), NEW b \in Seq(S)
  PROVE  /\ a \o b \in Seq(S) /\ Len(a) \in Nat /\ Len(b) \in Nat /\ Len(a \o b) = Len(a) + Len(b)
         /\ \A i \in 1..(Len(a) + Len(b)) : (a \o b)[i] = IF i <= Len(a) THEN a[i] ELSE b[i - Len(a)]
  OBVIOUS

\* Nothing before a sequence.
LEMMA ConcatEmptySeq == ASSUME NEW S, NEW s \in Seq(S) PROVE <<>> \o s = s
  OBVIOUS

\* The first element and the others.
LEMMA HeadTail == ASSUME NEW S, NEW q \in Seq(S), q # <<>>
   PROVE /\ Head(q) \in S /\ Tail(q) \in Seq(S) /\ Len(Tail(q)) = Len(q) - 1
        /\ \A i \in 1..(Len(q) - 1) : Tail(q)[i] = q[i + 1]
  OBVIOUS

\* The last block of the channel is the new one.
LEMMA AppendOne ==
  ASSUME NEW q \in Seq(Seq(Nat)), NEW b \in Seq(Nat)
  PROVE  /\ Append(q, b) \in Seq(Seq(Nat)) /\ Len(Append(q, b)) = Len(q) + 1 /\ Append(q, b) # <<>>
         /\ Append(q, b)[Len(q) + 1] = b /\ Len(q) \in Nat
         /\ \A i \in 1..Len(q) : Append(q, b)[i] = q[i]
  <1>1. /\ Append(q, b) \in Seq(Seq(Nat)) /\ Len(Append(q, b)) = Len(q) + 1 /\ Len(q) \in Nat
        /\ Append(q, b)[Len(q) + 1] = b
    OBVIOUS
  <1>2. Append(q, b) # <<>>
    <2>1. Len(<<>>) = 0
      OBVIOUS
    <2>2. Len(Append(q, b)) # 0
      BY <1>1
    <2> QED
      BY <2>1, <2>2, Zenon
  <1>3. \A i \in 1..Len(q) : Append(q, b)[i] = q[i]
    OBVIOUS
  <1> QED
    BY <1>1, <1>2, <1>3

\* The sizes of a file's kind.
LEMMA KindSizes == ASSUME TypeOK PROVE kind.maxSize \in Nat /\ InitialSize \in Nat
  BY BufferedWritesAssumption DEF TypeOK, Kind, InitialSize

\* What appendBuffer copies into the block: some bytes, and no more than there is room for.
LEMMA CopyEffect ==
  ASSUME PInv, CopyToBlock
  PROVE  \E n \in Nat :
           /\ n = Least(BlockSize - Len(current), Len(Head(todo)) - copied)
           /\ copied' = copied + n /\ copied' <= Len(Head(todo))
           /\ Head(todo) \in Seq(Nat) /\ current \in Seq(Nat) /\ current' \in Seq(Nat)
           /\ current' = current \o SubSeq(Head(todo), copied + 1, copied + n)
           /\ Len(current') = Len(current) + n /\ Len(current') <= BlockSize
  <1> DEFINE n == Least(BlockSize - Len(current), Len(Head(todo)) - copied)
  <1>1. todo # <<>> /\ todo \in Seq(Seq(Nat)) /\ copied \in Nat /\ copied <= Len(Head(todo))
    BY DEF PInv, TypeOK, Places, CopyToBlock
  <1>2. Head(todo) \in Seq(Nat) /\ Len(Head(todo)) \in Nat
    BY <1>1
  <1>3. current \in Seq(Nat) /\ Len(current) <= BlockSize /\ Len(current) \in Nat
    BY DEF PInv, Blocks, CopyToBlock
  <1>4. n \in Nat /\ copied + n <= Len(Head(todo)) /\ Len(current) + n <= BlockSize
    BY <1>1, <1>2, <1>3, BufferedWritesAssumption DEF Least
  <1>5. current' = current \o SubSeq(Head(todo), copied + 1, copied + n) /\ copied' = copied + n
    BY DEF CopyToBlock
  <1> HIDE DEF n
  <1>6. SubSeq(Head(todo), copied + 1, copied + n) \in Seq(Nat)
        /\ Len(SubSeq(Head(todo), copied + 1, copied + n)) = n
    BY <1>1, <1>2, <1>4
  <1>7. current' \in Seq(Nat) /\ Len(current') = Len(current) + n
    BY <1>3, <1>5, <1>6
  <1> QED
    BY <1>2, <1>3, <1>4, <1>5, <1>7, Zenon DEF n

-----------------------------------------------------------------------------
(* The invariant of the data.                                              *)

\* A block of consecutive bytes, and the offset after its last one.
Contiguous(b) == b # <<>> /\ b = Bytes(b[1], Len(b))
End(b) == b[1] + Len(b)

\* What a call has still to append starts where the file ends, without a gap; the dummy
\* data ends at truncatedSize.  No Flush goes on to the upload before that is appended.
Tasks ==
    /\ rewound = "never" => acked = Greatest(totalSize, truncatedSize)
    /\ rewound = "never" /\ todo # <<>> =>
          /\ todo[1][1] = totalSize
          /\ \A i \in 1..Len(todo) : Contiguous(todo[i])
          /\ \A i \in 1..(Len(todo) - 1) : todo[i + 1][1] = End(todo[i]) /\ End(todo[i]) <= truncatedSize
          /\ call = "Flush" => End(todo[Len(todo)]) = truncatedSize
    /\ rewound = "never" /\ call = "Flush" /\ todo = <<>> => totalSize >= truncatedSize

\* What is appended still reaches the object.
Uploading == uploadError = "none" /\ writer # "cancelled" /\ call \notin {"Destroy", "gone"}

\* The offsets after the last byte of the stream, of the uploader's block and of the channel.
StreamEnd == InitialSize + Len(stream)
HandEnd == IF uploader = "busy" THEN End(inHand) ELSE StreamEnd
QueueEnd == IF uploadCh = <<>> THEN HandEnd ELSE End(uploadCh[Len(uploadCh)])
InBlock == IF current = NoBlock THEN 0 ELSE Len(current)

\* The stream, the uploader's block, the channel and the current block hold the file's
\* bytes up to the last one copied, each once and in order.  An empty block is about to be
\* filled, a full one to be sent.
Chain ==
    Uploading /\ Undisturbed =>
        /\ uploader = "busy" => Contiguous(inHand) /\ inHand[1] = StreamEnd
        /\ \A i \in 1..Len(uploadCh) : Contiguous(uploadCh[i])
        /\ \A i \in 1..(Len(uploadCh) - 1) : uploadCh[i + 1][1] = End(uploadCh[i])
        /\ uploadCh # <<>> => uploadCh[1][1] = HandEnd
        /\ current # NoBlock => current = Bytes(QueueEnd, Len(current))
        /\ current = <<>> => pc = "append" /\ copied < Len(Head(todo))
        /\ current # NoBlock /\ pc # "full" => Len(current) < BlockSize
        /\ QueueEnd + InBlock = totalSize + copied

\* Even after a disturbance no byte that was copied is nowhere.
Holds(b, k) == \E i \in 1..Len(b) : b[i] = k
Somewhere(k) ==
    \/ Holds(stream, k)
    \/ uploader = "busy" /\ Holds(inHand, k)
    \/ \E j \in 1..Len(uploadCh) : Holds(uploadCh[j], k)
    \/ Holds(current, k)
Covered ==
    Uploading /\ rewound = "never" =>
        \A k \in InitialSize..(totalSize + copied - 1) : Somewhere(k)

\* A published object is the acknowledged file.
Published == object # NoObject /\ Undisturbed => object = Bytes(0, acked)

DInv == Tasks /\ BytesLandAtTheirOffset /\ Chain /\ Covered /\ NoAckedByteMissing /\ Published

-----------------------------------------------------------------------------
(* What no step undoes.                                                    *)

\* Disturbances and errors stay, the kind is fixed, and nothing is acknowledged after the
\* object is published.
Onward ==
    /\ kind' = kind
    /\ rewound' = "never" => rewound = "never"
    /\ Undisturbed' => Undisturbed
    /\ Uploading' => Uploading
    /\ call' # "Destroy" /\ (call' = "gone" => object' # NoObject) =>
          call # "Destroy" /\ (call = "gone" => object # NoObject)
    /\ object # NoObject => UNCHANGED <<object, acked>> /\ (Undisturbed' <=> Undisturbed)

\* A call that is accepted.
LEMMA NewCallOnward == ASSUME PInv, NewCall PROVE Onward
  <1>1. call \in {"none", "idle"} /\ object = NoObject
    BY Zenon DEF PInv, Places, Blocks, NewCall, NewBWHandler, WriteCall, Truncate, SyncCall, FlushCall,
           UnlinkCall,
           DestroyCall
  <1>2. /\ UNCHANGED <<kind, noWriter, uploadError, object>> /\ lost' = lost
        /\ writer = "cancelled" => writer' = "cancelled"
        /\ rewound' = "never" => rewound = "never"
    BY NewEffect, Zenon DEF PInv, NewCall, NewBWHandler, WriteCall, Truncate, SyncCall, FlushCall, UnlinkCall,
           DestroyCall, poolVars, fileVars, gcsVars
  <1> QED
    BY <1>1, <1>2 DEF Onward, Undisturbed, Uploading

\* A step of the handler.
LEMMA HandlerOnward == ASSUME PInv, HandlerStep PROVE Onward
  <1>1. call \notin {"none", "idle", "gone"}
    BY Zenon DEF PInv, Places, HandlerStep, GetBlock, GetBlockFails, CopyToBlock, AppendDone, UploadFull,
           UploadLast,
           Wait, RemoteNoWriter, RemoteFails, FinalizeUpload, FlushPendingWrites, ClearBlock, ClearDone,
           DrainBlock, DrainDone
  <1>2. kind' = kind /\ rewound' = rewound
    BY Zenon DEF HandlerStep, GetBlock, GetBlockFails, CopyToBlock, AppendDone, UploadFull, UploadLast,
           Upload, UploadFails, Wait, RemoteNoWriter, RemoteFails, FinalizeUpload, FlushPendingWrites,
           ClearBlock, ClearDone, DrainBlock, DrainDone, fileVars, gcsVars
  <1>3. noWriter' = "never" => noWriter = "never"
    BY Zenon DEF HandlerStep, GetBlock, GetBlockFails, CopyToBlock, AppendDone, UploadFull, UploadLast,
           Upload, UploadFails, Wait, RemoteNoWriter, RemoteFails, FinalizeUpload, FlushPendingWrites,
           ClearBlock, ClearDone, DrainBlock, DrainDone, gcsVars
  <1>4. lost'[File] \in Nat /\ lost[File] \in Nat /\ lost'[File] >= lost[File]
    <2>1. CASE GetBlock
      BY <2>1, GetEffect, FilePool DEF PInv, GetBlock
    <2>2. CASE GetBlockFails
      <3>1. PoolOK' /\ lost'[File] >= lost[File]
        BY <2>2, FailEffect DEF PInv, GetBlockFails
      <3> QED
        BY <3>1, FilePool, BufferedWritesAssumption DEF PInv, PoolOK, Pool!TypeOK
    <2>3. CASE Wait \/ FinalizeUpload \/ FlushPendingWrites \/ DrainDone
      <3>1. lost' = lost
        BY <2>3, StartEffect, Zenon DEF PInv, Wait, FinalizeUpload, FlushPendingWrites, DrainDone, poolVars
      <3> QED
        BY <3>1, FilePool DEF PInv
    <2>4. CASE ClearBlock \/ ClearDone \/ DrainBlock
      <3>1. lost' = lost
        BY <2>4, ClearEffect, ClearedEffect, ReleaseEffect, Zenon DEF PInv, ClearBlock, ClearDone, DrainBlock
      <3> QED
        BY <3>1, FilePool DEF PInv
    <2>5. CASE CopyToBlock \/ AppendDone \/ UploadFull \/ UploadLast \/ RemoteNoWriter \/ RemoteFails
      <3>1. lost' = lost
        BY <2>5 DEF CopyToBlock, AppendDone, UploadFull, UploadLast, Upload, UploadFails, RemoteNoWriter,
                    RemoteFails, poolVars
      <3> QED
        BY <3>1, FilePool DEF PInv
    <2> QED
      BY <2>1, <2>2, <2>3, <2>4, <2>5 DEF HandlerStep
  <1>5. /\ uploadError' = "none" => uploadError = "none"
        /\ writer = "cancelled" => writer' = "cancelled"
    BY Zenon DEF PInv, TypeOK, HandlerStep, GetBlock, GetBlockFails, CopyToBlock, AppendDone, UploadFull,
           UploadLast,
           Upload, UploadFails, Wait, RemoteNoWriter, RemoteFails, FinalizeUpload, FlushPendingWrites,
           ClearBlock, ClearDone, DrainBlock, DrainDone, gcsVars
  <1>6. call = "Destroy" => object' = object /\ call' \in {"Destroy", "gone"} /\ object = NoObject
    BY Zenon DEF PInv, Places, Blocks, HandlerStep, GetBlock, GetBlockFails, CopyToBlock, AppendDone,
           UploadFull, UploadLast,
           Upload, UploadFails, Wait, RemoteNoWriter, RemoteFails, FinalizeUpload, FlushPendingWrites,
           ClearBlock, ClearDone, DrainBlock, DrainDone, callVars, gcsVars
  <1>7. object # NoObject => UNCHANGED <<object, acked, noWriter, lost>>
    <2>1. object # NoObject => pc = "clear"
      BY <1>1, Zenon DEF PInv, Blocks
    <2>2. pc = "clear" => ClearBlock \/ ClearDone
      BY Zenon DEF HandlerStep, GetBlock, GetBlockFails, CopyToBlock, AppendDone, UploadFull, UploadLast,
           Wait, RemoteNoWriter, RemoteFails, FinalizeUpload, FlushPendingWrites, DrainBlock, DrainDone
    <2> QED
      BY <2>1, <2>2, ClearEffect, ClearedEffect DEF PInv, ClearBlock, ClearDone, fileVars, gcsVars
  <1> QED
    BY <1>1, <1>2, <1>3, <1>4, <1>5, <1>6, <1>7 DEF Onward, Undisturbed, Uploading

\* A step of the uploader, of another file, or none.
LEMMA OthersOnward == ASSUME PInv, UploaderStep \/ OtherFiles \/ UNCHANGED vars PROVE Onward
  <1>1. UNCHANGED <<kind, callVars, fileVars, object, noWriter>>
    BY Zenon DEF UploaderStep, Receive, uploadBlock, ReleaseBlock, Done, Exit, OtherFiles, vars, gcsVars
  <1>2. lost'[File] = lost[File]
    BY ReleaseEffect, OtherEffect, Zenon DEF PInv, UploaderStep, Receive, uploadBlock, ReleaseBlock, Done, Exit,
       OtherFiles, vars, poolVars
  <1>3. /\ uploadError' = "none" => uploadError = "none"
        /\ writer = "cancelled" => writer' = "cancelled"
    BY DEF PInv, TypeOK, UploaderStep, Receive, uploadBlock, ReleaseBlock, Done, Exit, OtherFiles, vars, gcsVars
  <1> QED
    BY <1>1, <1>2, <1>3, Zenon DEF Onward, Undisturbed, Uploading, callVars, fileVars

\* Every step.
LEMMA StepOnward == ASSUME PInv, [Next]_vars PROVE Onward
  BY NewCallOnward, HandlerOnward, OthersOnward DEF Next

-----------------------------------------------------------------------------
(* Sequences of bytes.                                                     *)

\* Consecutive bytes appended to consecutive bytes.
LEMMA BytesConcat ==
  ASSUME NEW from \in Nat, NEW n \in Nat, NEW m \in Nat
  PROVE  Bytes(from, n) \o Bytes(from + n, m) = Bytes(from, n + m)
  <1> DEFINE a == Bytes(from, n)
             b == Bytes(from + n, m)
             c == Bytes(from, n + m)
  <1>1. a \in Seq(Nat) /\ Len(a) = n /\ \A i \in 1..n : a[i] = from + i - 1
    BY BytesType
  <1>0. from + n \in Nat /\ n + m \in Nat
    OBVIOUS
  <1>2. b \in Seq(Nat) /\ Len(b) = m /\ \A i \in 1..m : b[i] = from + n + i - 1
    BY <1>0, BytesType
  <1>3. c \in Seq(Nat) /\ Len(c) = n + m /\ \A i \in 1..(n + m) : c[i] = from + i - 1
    BY <1>0, BytesType
  <1> HIDE DEF a, b, c
  <1>4. /\ a \o b \in Seq(Nat) /\ Len(a \o b) = n + m
        /\ \A i \in 1..(n + m) : (a \o b)[i] = IF i <= n THEN a[i] ELSE b[i - n]
    BY <1>1, <1>2, ConcatProperties, Zenon
  <1>5. \A i \in 1..(n + m) : (a \o b)[i] = c[i]
    <2> SUFFICES ASSUME NEW i \in 1..(n + m) PROVE (a \o b)[i] = c[i]
      BY Zenon
    <2>1. CASE i <= n
      BY <2>1, <1>1, <1>3, <1>4
    <2>2. CASE i > n
      <3>1. i - n \in 1..m /\ (a \o b)[i] = b[i - n]
        BY <2>2, <1>4
      <3>2. b[i - n] = from + n + (i - n) - 1
        BY <3>1, <1>2
      <3> QED
        BY <3>1, <3>2, <1>3
    <2>3. i <= n \/ i > n
      OBVIOUS
    <2> QED
      BY <2>1, <2>2, <2>3, Zenon
  <1>6. a \o b = c
    BY <1>3, <1>4, <1>5, SeqEqual, Zenon
  <1> QED
    BY <1>6 DEF a, b, c

\* A part of consecutive bytes.
LEMMA BytesPart ==
  ASSUME NEW from \in Nat, NEW len \in Nat, NEW c \in Nat, NEW n \in Nat, c + n <= len
  PROVE  SubSeq(Bytes(from, len), c + 1, c + n) = Bytes(from + c, n)
  <1> DEFINE a == Bytes(from, len)
             b == Bytes(from + c, n)
             s == SubSeq(a, c + 1, c + n)
  <1>1. a \in Seq(Nat) /\ Len(a) = len /\ \A i \in 1..len : a[i] = from + i - 1
    BY BytesType
  <1>0. from + c \in Nat
    OBVIOUS
  <1>2. b \in Seq(Nat) /\ Len(b) = n /\ \A i \in 1..n : b[i] = from + c + i - 1
    BY <1>0, BytesType
  <1> HIDE DEF a, b
  <1>3. s \in Seq(Nat) /\ Len(s) = n
    BY <1>1
  <1>4. \A i \in 1..n : s[i] = a[c + i]
    BY <1>1
  <1>5. \A i \in 1..n : s[i] = from + c + i - 1
    BY <1>1, <1>4
  <1> HIDE DEF s
  <1>6. s = b
    BY <1>2, <1>3, <1>5
  <1> QED
    BY <1>6 DEF a, b, s

\* Taking the first block of the channel.
LEMMA TakeOne ==
  ASSUME NEW q \in Seq(Seq(Nat)), q # <<>>
  PROVE  /\ Tail(q) \in Seq(Seq(Nat)) /\ Len(q) \in Nat \ {0} /\ Len(Tail(q)) = Len(q) - 1
         /\ \A i \in 1..(Len(q) - 1) : Tail(q)[i] = q[i + 1]
         /\ Head(q) = q[1] /\ Head(q) \in Seq(Nat) /\ (Tail(q) = <<>> <=> Len(q) = 1)
  <1>1. Len(q) \in Nat \ {0}
    BY EmptySeq
  <1>2. /\ Head(q) \in Seq(Nat) /\ Tail(q) \in Seq(Seq(Nat)) /\ Len(Tail(q)) = Len(q) - 1
        /\ \A i \in 1..(Len(q) - 1) : Tail(q)[i] = q[i + 1]
    BY HeadTail
  <1>3. Head(q) = q[1]
    OBVIOUS
  <1>4. Tail(q) = <<>> <=> Len(Tail(q)) = 0
    BY <1>2, EmptySeq, Zenon
  <1> QED
    BY <1>1, <1>2, <1>3, <1>4, SMTT(30)

\* Adding a block after others.
LEMMA AddLast ==
  ASSUME NEW q \in Seq(Seq(Nat)), NEW b \in Seq(Nat)
  PROVE  /\ q \o <<b>> \in Seq(Seq(Nat)) /\ Len(q \o <<b>>) = Len(q) + 1 /\ Len(q) \in Nat
         /\ (q \o <<b>>)[Len(q) + 1] = b /\ \A i \in 1..Len(q) : (q \o <<b>>)[i] = q[i]
  OBVIOUS

\* A block of bytes made at an offset is contiguous and ends after its last byte.
LEMMA MadeContiguous ==
  ASSUME NEW from \in Nat, NEW n \in Nat \ {0}, NEW b, b = Bytes(from, n)
  PROVE  Contiguous(b) /\ b[1] = from /\ Len(b) = n /\ End(b) = from + n
  <1>1. b \in Seq(Nat) /\ Len(b) = n /\ b[1] = from
    <2>1. /\ Bytes(from, n) \in Seq(Nat) /\ Len(Bytes(from, n)) = n
          /\ \A i \in 1..n : Bytes(from, n)[i] = from + i - 1
      BY BytesType, Zenon
    <2> QED
      BY <2>1
  <1>2. b # <<>>
    BY <1>1
  <1> QED
    BY <1>1, <1>2 DEF Contiguous, End

\* The dummy data of writeDataForTruncatedSize goes from totalSize to truncatedSize, in
\* chunks without gaps.
LEMMA FillChain ==
  ASSUME TypeOK, totalSize < truncatedSize, NEW f, f = writeDataForTruncatedSize
  PROVE  /\ f \in Seq(Seq(Nat)) /\ Len(f) \in Nat \ {0} /\ f[1][1] = totalSize
         /\ \A i \in 1..Len(f) : Contiguous(f[i])
         /\ \A i \in 1..(Len(f) - 1) : f[i + 1][1] = End(f[i]) /\ End(f[i]) <= truncatedSize
         /\ End(f[Len(f)]) = truncatedSize
  <1> DEFINE d == truncatedSize - totalSize
             c == ChunkSize
             n == (d + c - 1) \div c
             from(i) == totalSize + (i - 1) * c
             len(i) == Least(c, d - (i - 1) * c)
  <1>1. d \in Nat \ {0} /\ totalSize \in Nat /\ c \in Nat \ {0} /\ truncatedSize = totalSize + d
    BY BufferedWritesAssumption DEF TypeOK
  <1>2. /\ n \in Nat \ {0} /\ (n - 1) * c < d /\ d <= n * c
        /\ \A i \in 1..n : (i - 1) * c \in Nat /\ (i - 1) * c < d /\ i * c = (i - 1) * c + c
        /\ \A i \in 1..(n - 1) : i * c < d
    BY <1>1, ChunkCount, Zenon
  <1>3. f = [i \in 1..n |-> Bytes(from(i), len(i))]
    BY <1>1 DEF writeDataForTruncatedSize
  <1> HIDE DEF n, d, c
  <1>4. \A i \in 1..n : from(i) \in Nat /\ len(i) \in Nat \ {0}
    BY <1>1, <1>2 DEF Least
  <1>5. from(1) = totalSize
    BY <1>1
  <1>6. ASSUME NEW i \in 1..(n - 1)
        PROVE  from(i) + len(i) = from(i + 1) /\ from(i) + len(i) <= truncatedSize
    <2>1. i \in 1..n /\ i \in Nat
      BY <1>2
    <2>2. i * c = (i - 1) * c + c /\ i * c < d /\ (i - 1) * c \in Nat
      BY <2>1, <1>2
    <2>3. len(i) = c
      BY <2>2, <1>1 DEF Least
    <2>4. from(i + 1) = totalSize + i * c
      BY <2>1
    <2> HIDE DEF from, len
    <2>5. from(i) = totalSize + (i - 1) * c
      BY DEF from
    <2> QED
      BY <2>2, <2>3, <2>4, <2>5, <1>1
  <1>7. from(n) + len(n) = truncatedSize
    <2>1. n * c = (n - 1) * c + c /\ (n - 1) * c \in Nat
      BY <1>2
    <2>2. len(n) = d - (n - 1) * c
      BY <2>1, <1>1, <1>2 DEF Least
    <2> QED
      BY <2>1, <2>2, <1>1
  <1> HIDE DEF from, len
  <1>8. \A i \in 1..n : Contiguous(f[i]) /\ f[i][1] = from(i) /\ End(f[i]) = from(i) + len(i)
    <2> SUFFICES ASSUME NEW i \in 1..n
                 PROVE  Contiguous(f[i]) /\ f[i][1] = from(i) /\ End(f[i]) = from(i) + len(i)
      OBVIOUS
    <2>1. f[i] = Bytes(from(i), len(i)) /\ from(i) \in Nat /\ len(i) \in Nat \ {0}
      BY <1>3, <1>4
    <2> QED
      BY <2>1, MadeContiguous, Zenon
  <1>9. f \in Seq(Seq(Nat)) /\ Len(f) = n
    <2>1. \A i \in 1..n : Bytes(from(i), len(i)) \in Seq(Nat)
      BY <1>4, BytesType
    <2> QED
      BY <2>1, <1>2, <1>3
  <1>10. 1 \in 1..n /\ n \in 1..n /\ \A i \in 1..(n - 1) : i \in 1..n /\ i + 1 \in 1..n
    BY <1>2
  <1>11. \A i \in 1..(n - 1) : f[i + 1][1] = End(f[i]) /\ End(f[i]) <= truncatedSize
    BY <1>6, <1>8, <1>10
  <1>12. f[1][1] = totalSize /\ End(f[n]) = truncatedSize
    BY <1>5, <1>7, <1>8, <1>10
  <1> QED
    BY <1>2, <1>8, <1>9, <1>11, <1>12, Zenon

-----------------------------------------------------------------------------
(* What the calls have to append.                                          *)

\* A step that leaves the calls' tasks alone, or ends them.
SameTasks ==
    /\ UNCHANGED <<acked, totalSize, truncatedSize>>
    /\ UNCHANGED <<todo, call>> \/ (todo' = <<>> /\ call' # "Flush")

\* Such a step keeps the tasks in order.
LEMMA SameTasksKeep == ASSUME Tasks, Onward, SameTasks PROVE Tasks'
  <1>1. CASE UNCHANGED <<todo, call>>
    BY <1>1, Zenon DEF Tasks, Onward, SameTasks, Contiguous, End
  <1>2. CASE todo' = <<>> /\ call' # "Flush"
    BY <1>2 DEF Tasks, Onward, SameTasks
  <1> QED
    BY <1>1, <1>2, Zenon DEF SameTasks

\* Write has the gap and its data to append.
LEMMA WriteTasks ==
  ASSUME PInv, Tasks, Onward, NEW offset \in Nat, NEW n \in Nat \ {0}, WriteCall(offset, n)
  PROVE  Tasks'
  <1> DEFINE fill == IF offset = truncatedSize THEN writeDataForTruncatedSize ELSE <<>>
             data == Bytes(offset, n)
  <1> SUFFICES ASSUME rewound' = "never" PROVE Tasks'
    BY DEF Tasks
  <1>1. /\ UNCHANGED <<totalSize, truncatedSize, acked>> /\ call' = "Write" /\ todo' = fill \o <<data>>
        /\ offset = totalSize \/ offset = truncatedSize
    BY DEF WriteCall
  <1>2. totalSize \in Nat /\ truncatedSize \in Nat \cup {-1} /\ TypeOK
    BY DEF PInv, TypeOK
  <1>3. rewound = "never" /\ offset >= totalSize
    BY <1>2 DEF WriteCall, Onward
  <1>4. acked' = Greatest(totalSize', truncatedSize')
    BY <1>1, <1>3 DEF Tasks, Greatest
  <1>5. data \in Seq(Nat) /\ Contiguous(data) /\ data[1] = offset
    BY BytesType, MadeContiguous
  <1>6. CASE offset = truncatedSize /\ totalSize < truncatedSize
    <2>1. /\ fill \in Seq(Seq(Nat)) /\ Len(fill) \in Nat \ {0} /\ fill[1][1] = totalSize
          /\ \A i \in 1..Len(fill) : Contiguous(fill[i])
          /\ \A i \in 1..(Len(fill) - 1) : fill[i + 1][1] = End(fill[i]) /\ End(fill[i]) <= truncatedSize
          /\ End(fill[Len(fill)]) = truncatedSize
      BY <1>2, <1>6, FillChain, Zenon
    <2> HIDE DEF fill, data
    <2>2. /\ todo' \in Seq(Seq(Nat)) /\ Len(todo') = Len(fill) + 1
          /\ todo'[Len(fill) + 1] = data /\ \A i \in 1..Len(fill) : todo'[i] = fill[i]
      BY <1>1, <1>5, <2>1, AddLast, Zenon
    <2>3. todo'[1][1] = totalSize'
      BY <1>1, <2>1, <2>2
    <2>4. \A i \in 1..Len(todo') : Contiguous(todo'[i])
      <3> SUFFICES ASSUME NEW i \in 1..Len(todo') PROVE Contiguous(todo'[i])
        OBVIOUS
      <3>1. i \in 1..Len(fill) \/ i = Len(fill) + 1
        BY <2>1, <2>2
      <3> QED
        BY <3>1, <2>1, <2>2, <1>5, SMTT(30)
    <2>5. \A i \in 1..(Len(todo') - 1) : /\ todo'[i + 1][1] = End(todo'[i])
                                         /\ End(todo'[i]) <= truncatedSize
      <3> SUFFICES ASSUME NEW i \in 1..Len(fill)
                   PROVE  todo'[i + 1][1] = End(todo'[i]) /\ End(todo'[i]) <= truncatedSize
        BY <2>1, <2>2
      <3>1. End(todo'[i]) = End(fill[i])
        BY <2>2, Zenon
      <3>2. CASE i = Len(fill)
        BY <3>1, <3>2, <2>1, <2>2, <1>5, <1>6, <1>2
      <3>3. CASE i # Len(fill)
        <4>1. i \in 1..(Len(fill) - 1) /\ i + 1 \in 1..Len(fill)
          BY <3>3, <2>1, SMTT(30)
        <4> QED
          BY <4>1, <3>1, <2>1, <2>2, Zenon
      <3> QED
        BY <3>2, <3>3, Zenon
    <2> QED
      BY <1>1, <1>4, <2>3, <2>4, <2>5, Zenon DEF Tasks, Contiguous, End
  <1>7. CASE ~(offset = truncatedSize /\ totalSize < truncatedSize)
    <2>1. fill = <<>> /\ offset = totalSize
      BY <1>1, <1>2, <1>3, <1>7 DEF writeDataForTruncatedSize
    <2> HIDE DEF fill, data
    <2>0. <<data>> \in Seq(Seq(Nat))
      BY <1>5
    <2>2. todo' = <<data>>
      BY <1>1, <2>0, <2>1, ConcatEmptySeq
    <2>3. Len(todo') = 1 /\ todo'[1] = data
      BY <2>2
    <2>4. /\ todo'[1][1] = totalSize' /\ \A i \in 1..Len(todo') : Contiguous(todo'[i])
          /\ 1..(Len(todo') - 1) = {}
      BY <2>1, <2>3, <1>1, <1>5
    <2> QED
      BY <1>1, <1>4, <2>4, <2>2, Zenon DEF Tasks, Contiguous, End
  <1> QED
    BY <1>6, <1>7, Zenon

\* Flush has the gap to append, if there is one.
LEMMA FlushTasks == ASSUME PInv, Tasks, Onward, FlushCall PROVE Tasks'
  <1>1. /\ UNCHANGED <<totalSize, truncatedSize, acked, rewound>> /\ call' = "Flush"
        /\ todo' = writeDataForTruncatedSize
    BY Zenon DEF FlushCall, fileVars
  <1>2. totalSize \in Nat /\ truncatedSize \in Nat \cup {-1} /\ TypeOK
    BY DEF PInv, TypeOK
  <1>3. rewound' = "never" => acked' = Greatest(totalSize', truncatedSize')
    BY <1>1, Zenon DEF Tasks, Greatest
  <1>4. CASE totalSize < truncatedSize
    <2>1. /\ todo' \in Seq(Seq(Nat)) /\ Len(todo') \in Nat \ {0} /\ todo'[1][1] = totalSize
          /\ \A i \in 1..Len(todo') : Contiguous(todo'[i])
          /\ \A i \in 1..(Len(todo') - 1) : todo'[i + 1][1] = End(todo'[i]) /\ End(todo'[i]) <= truncatedSize
          /\ End(todo'[Len(todo')]) = truncatedSize
      BY <1>1, <1>2, <1>4, FillChain
    <2>2. todo' # <<>>
      BY <2>1
    <2> QED
      BY <1>1, <1>3, <2>1, <2>2, Zenon DEF Tasks, Contiguous, End
  <1>5. CASE totalSize >= truncatedSize
    <2>1. todo' = <<>>
      BY <1>1, <1>2, <1>5 DEF writeDataForTruncatedSize
    <2> QED
      BY <1>1, <1>3, <1>5, <2>1 DEF Tasks
  <1> QED
    BY <1>2, <1>4, <1>5

\* One of the tasks is done.
LEMMA AppendTasks == ASSUME PInv, Tasks, Onward, AppendDone PROVE Tasks'
  <1> SUFFICES ASSUME rewound = "never" PROVE Tasks'
    BY Zenon DEF Tasks, Onward
  <1>1. /\ pc = "append" /\ todo # <<>> /\ todo \in Seq(Seq(Nat)) /\ call \in {"Write", "Flush"}
        /\ totalSize \in Nat /\ truncatedSize \in Nat \cup {-1}
    BY DEF AppendDone, PInv, TypeOK, Calls, Places
  <1>2. /\ todo' = Tail(todo) /\ copied = Len(Head(todo)) /\ totalSize' = totalSize + copied
        /\ UNCHANGED <<truncatedSize, rewound>>
    BY DEF AppendDone
  <1>3. /\ Len(todo) \in Nat \ {0} /\ Len(todo') = Len(todo) - 1 /\ Head(todo) = todo[1]
        /\ \A i \in 1..(Len(todo) - 1) : todo'[i] = todo[i + 1]
        /\ (todo' = <<>> <=> Len(todo) = 1)
    BY <1>1, <1>2, TakeOne, Zenon
  <1>4. /\ todo[1][1] = totalSize
        /\ \A i \in 1..Len(todo) : Contiguous(todo[i])
        /\ \A i \in 1..(Len(todo) - 1) : todo[i + 1][1] = End(todo[i]) /\ End(todo[i]) <= truncatedSize
        /\ call = "Flush" => End(todo[Len(todo)]) = truncatedSize
        /\ acked = Greatest(totalSize, truncatedSize)
    BY <1>1, Zenon DEF Tasks
  <1>5. End(todo[1]) = totalSize' /\ totalSize' \in Nat /\ totalSize' >= totalSize
    BY <1>1, <1>2, <1>3, <1>4, SMTT(30) DEF End
  <1>6. CASE todo' # <<>>
    <2>1. call' = call /\ acked' = acked /\ Len(todo) > 1
      BY <1>6, <1>2, <1>3 DEF AppendDone
    <2>2. totalSize' <= truncatedSize /\ todo'[1][1] = totalSize'
      BY <2>1, <1>3, <1>4, <1>5
    <2>3. acked' = Greatest(totalSize', truncatedSize')
      BY <2>1, <2>2, <1>1, <1>2, <1>4, <1>5, SMTT(30) DEF Greatest
    <2>4. \A i \in 1..Len(todo') : i + 1 \in 1..Len(todo) /\ todo'[i] = todo[i + 1]
      BY <1>3
    <2>5. \A i \in 1..(Len(todo') - 1) : /\ i \in 1..Len(todo') /\ i + 1 \in 1..Len(todo')
                                         /\ i + 1 \in 1..(Len(todo) - 1)
      BY <1>3
    <2>6. \A i \in 1..Len(todo') : Contiguous(todo'[i])
      BY <2>4, <1>4, Zenon
    <2>7. \A i \in 1..(Len(todo') - 1) : /\ todo'[i + 1][1] = End(todo'[i])
                                         /\ End(todo'[i]) <= truncatedSize
      BY <2>4, <2>5, <1>4, Zenon
    <2>8. call = "Flush" => End(todo'[Len(todo')]) = truncatedSize
      <3>1. Len(todo') \in 1..Len(todo') /\ Len(todo') + 1 = Len(todo)
        BY <2>1, <1>3
      <3> QED
        BY <3>1, <2>4, <1>4
    <2> QED
      BY <2>1, <2>2, <2>3, <2>6, <2>7, <2>8, <1>2, <1>6, Zenon DEF Tasks, Contiguous, End
  <1>7. CASE todo' = <<>>
    <2>1. call = "Flush" => totalSize' = truncatedSize
      BY <1>7, <1>3, <1>4, <1>5, Zenon
    <2>2. acked' = Greatest(totalSize', truncatedSize')
      <3>1. CASE call = "Write"
        BY <3>1, <1>2, <1>7, Zenon DEF AppendDone, Greatest
      <3>2. CASE call = "Flush"
        <4>1. acked' = acked
          BY <3>2, <1>7 DEF AppendDone
        <4> QED
          BY <4>1, <3>2, <2>1, <1>1, <1>2, <1>4, <1>5 DEF Greatest
      <3> QED
        BY <3>1, <3>2, <1>1, Zenon
    <2>3. call' = "Flush" => totalSize' >= truncatedSize'
      <3>1. call' = "Flush" => call = "Flush"
        BY <1>1, <1>7, Zenon DEF AppendDone
      <3> QED
        BY <3>1, <2>1, <1>1, <1>2, <1>5
    <2> QED
      BY <2>2, <2>3, <1>7 DEF Tasks
  <1> QED
    BY <1>6, <1>7, Zenon

-----------------------------------------------------------------------------
(* The chain of bytes.                                                     *)

\* A step that moves no byte.  What a call had copied counts no more if it fails, which
\* is a disturbance or finds nothing copied.
Calm ==
    /\ UNCHANGED <<stream, uploadCh, current, totalSize>>
    /\ uploader' = "busy" <=> uploader = "busy"
    /\ uploader = "busy" => inHand' = inHand
    /\ copied' \in Nat /\ copied' <= copied
    /\ Uploading' /\ Undisturbed' =>
          /\ copied' = copied
          /\ pc = "append" /\ current # NoBlock => UNCHANGED <<pc, todo>>
          /\ pc = "full" => pc' = "full"

\* Such a step keeps the chain.
LEMMA CalmChain == ASSUME PInv, Chain, Onward, Calm PROVE Chain'
  <1> SUFFICES ASSUME Uploading', Undisturbed' PROVE Chain'
    BY DEF Chain
  <1>1. Uploading /\ Undisturbed /\ kind' = kind
    BY Zenon DEF Onward
  <1>2. /\ UNCHANGED <<stream, uploadCh, current, totalSize, copied>>
        /\ uploader' = "busy" <=> uploader = "busy"
        /\ uploader = "busy" => inHand' = inHand
        /\ pc = "append" /\ current # NoBlock => UNCHANGED <<pc, todo>>
        /\ pc = "full" => pc' = "full"
    BY Zenon DEF Calm
  <1>3. StreamEnd' = StreamEnd /\ HandEnd' = HandEnd /\ InBlock' = InBlock
    BY <1>1, <1>2, Zenon DEF StreamEnd, HandEnd, InBlock, InitialSize, End
  <1>4. QueueEnd' = QueueEnd
    BY <1>2, <1>3 DEF QueueEnd, End
  <1>5. <<>> # NoBlock
    BY Zenon DEF NoBlock
  <1> QED
    BY <1>1, <1>2, <1>3, <1>4, <1>5 DEF Chain, Contiguous, End

\* Such a step keeps every byte.
LEMMA CalmCovered == ASSUME PInv, Covered, Onward, Calm PROVE Covered'
  <1> SUFFICES ASSUME Uploading', rewound' = "never",
                      NEW k, k \in InitialSize'..(totalSize' + copied' - 1)
               PROVE  Somewhere(k)'
    BY DEF Covered
  <1>1. Uploading /\ rewound = "never" /\ InitialSize' = InitialSize
    BY DEF Onward, InitialSize
  <1>2. k \in InitialSize..(totalSize + copied - 1)
    <2>1. /\ InitialSize \in Nat /\ totalSize \in Nat /\ copied \in Nat
          /\ totalSize' = totalSize /\ copied' \in Nat /\ copied' <= copied
      BY KindSizes DEF PInv, TypeOK, Calm
    <2>2. k \in InitialSize'..(totalSize' + copied' - 1)
      OBVIOUS
    <2>3. \A i, t, c, d \in Nat : d <= c => \A j \in i..(t + d - 1) : j \in i..(t + c - 1)
      OBVIOUS
    <2>4. k \in InitialSize..(totalSize + copied' - 1)
      BY <1>1, <2>1, <2>2, Zenon
    <2> QED
      BY <2>1, <2>3, <2>4, Zenon
  <1>3. Somewhere(k)
    BY <1>1, <1>2, Zenon DEF Covered
  <1> QED
    BY <1>3 DEF Somewhere, Holds, Calm

\* A call that is accepted moves no byte.
LEMMA NewCallCalm == ASSUME PInv, NewCall PROVE Calm
  <1>1. pc = "none" /\ copied = 0
    BY Zenon DEF PInv, Places, NewCall, NewBWHandler, WriteCall, Truncate, SyncCall, FlushCall, UnlinkCall,
           DestroyCall
  <1>2. copied' = 0
    BY <1>1, Zenon DEF NewCall, NewBWHandler, WriteCall, Truncate, SyncCall, FlushCall, UnlinkCall,
           DestroyCall, callVars
  <1>3. UNCHANGED <<stream, uploadCh, current, totalSize, uploader, inHand>>
    BY Zenon DEF NewCall, NewBWHandler, WriteCall, Truncate, SyncCall, FlushCall, UnlinkCall, DestroyCall,
           fileVars, queueVars, gcsVars, uploaderVars
  <1> QED
    BY <1>1, <1>2, <1>3 DEF Calm

\* A block that cannot be made: the bytes copied before are lost count of, and so is a permit.
LEMMA GetBlockFailsCalm == ASSUME PInv, GetBlockFails PROVE Calm
  <1>1. /\ copied \in Nat /\ copied' = 0 /\ current = NoBlock /\ pc = "append"
        /\ UNCHANGED <<stream, uploadCh, current, totalSize, uploader, inHand>>
    BY DEF PInv, TypeOK, GetBlockFails, ReturnError, fileVars, queueVars, gcsVars, uploaderVars
  <1>2. copied > 0 => ~Undisturbed'
    <2>1. copied > 0 => lost'[File] > 0
      BY FailEffect, Zenon DEF PInv, Places, GetBlockFails
    <2> QED
      BY <2>1 DEF Undisturbed
  <1> QED
    BY <1>1, <1>2 DEF Calm

\* A block that cannot be queued for want of a writer, and the end of the calls.
LEMMA EndCalm ==
  ASSUME PInv,
         \/ pc \in {"full", "last"} /\ UploadFails
         \/ UploadLast /\ ~HasLast
         \/ Wait \/ RemoteNoWriter \/ RemoteFails \/ FinalizeUpload \/ FlushPendingWrites
         \/ ClearBlock \/ ClearDone \/ DrainDone
  PROVE  Calm
  <1>1. UNCHANGED <<stream, uploadCh, current, totalSize, uploader, inHand>>
    BY Zenon DEF UploadFails, UploadLast, Wait, RemoteNoWriter, RemoteFails, FinalizeUpload, FlushPendingWrites,
           ClearBlock, ClearDone, DrainDone, fileVars, queueVars, gcsVars, uploaderVars
  <1>2. CASE pc = "full" /\ UploadFails
    <2>1. ~Undisturbed'
      BY <1>2 DEF UploadFails, Undisturbed
    <2> QED
      BY <1>1, <1>2, <2>1 DEF PInv, TypeOK, UploadFails, ReturnError, Calm
  <1>3. CASE pc \notin {"append", "full"}
    <2>1. copied = 0
      BY <1>3 DEF PInv, Places
    <2>2. copied' = 0
      BY <2>1, Zenon DEF UploadFails, UploadLast, Wait, RemoteNoWriter, RemoteFails, FinalizeUpload,
         FlushPendingWrites, ClearBlock, ClearDone, DrainDone, ReturnError, callVars
    <2> QED
      BY <1>1, <1>3, <2>1, <2>2 DEF Calm
  <1> QED
    BY <1>2, <1>3, Zenon DEF UploadLast, Wait, RemoteNoWriter, RemoteFails, FinalizeUpload,
         FlushPendingWrites, ClearBlock, ClearDone, DrainDone

\* The steps of the uploader but for taking and copying a block, and those of other files.
LEMMA OthersCalm ==
  ASSUME PInv, ReleaseBlock \/ Done \/ Exit \/ OtherFiles \/ UNCHANGED vars PROVE Calm
  <1>1. UNCHANGED <<stream, uploadCh, current, totalSize, callVars>>
    BY Zenon DEF ReleaseBlock, Done, Exit, OtherFiles, vars, fileVars, queueVars, gcsVars
  <1>2. (uploader' = "busy" <=> uploader = "busy") /\ (uploader = "busy" => inHand' = inHand)
    BY DEF ReleaseBlock, Done, Exit, OtherFiles, vars, uploaderVars
  <1> QED
    BY <1>1, <1>2 DEF PInv, TypeOK, Calm, callVars

\* An empty block holds nothing.
LEMMA GetBlockData == ASSUME PInv, Chain, Covered, Onward, GetBlock PROVE Chain' /\ Covered'
  <1>1. /\ UNCHANGED <<callVars, stream, uploadCh, totalSize, uploader, inHand>> /\ kind' = kind
        /\ current = NoBlock /\ current' = <<>> /\ pc = "append" /\ copied < Len(Head(todo))
    BY DEF GetBlock, Onward, queueVars, gcsVars, uploaderVars
  <1>2. <<>> # NoBlock /\ Len(<<>>) = 0
    BY Zenon DEF NoBlock
  <1>3. /\ StreamEnd' = StreamEnd /\ HandEnd' = HandEnd /\ QueueEnd' = QueueEnd
        /\ InBlock = 0 /\ InBlock' = 0
    BY <1>1, <1>2 DEF StreamEnd, HandEnd, QueueEnd, InBlock, InitialSize, End
  <1>4. Chain'
    <2> SUFFICES ASSUME Uploading', Undisturbed' PROVE Chain'
      BY Zenon DEF Chain
    <2>1. Uploading /\ Undisturbed
      BY DEF Onward
    <2>2. current' = Bytes(QueueEnd', Len(current'))
      BY <1>1, <1>2 DEF Bytes
    <2>3. Len(current') < BlockSize
      BY <1>1, <1>2, BufferedWritesAssumption
    <2> QED
      BY <1>1, <1>3, <2>1, <2>2, <2>3 DEF Chain, Contiguous, End, callVars
  <1>5. Covered'
    <2> SUFFICES ASSUME Uploading', rewound' = "never", NEW k \in InitialSize..(totalSize + copied - 1)
                 PROVE  Somewhere(k)'
      BY <1>1, Zenon DEF Covered, InitialSize, callVars
    <2>1. Somewhere(k) /\ k \in Nat
      BY KindSizes DEF Covered, Onward, PInv, TypeOK
    <2>2. ~Holds(current, k)
      BY <1>1, <2>1 DEF Holds, NoBlock
    <2> QED
      BY <1>1, <2>1, <2>2, Zenon DEF Somewhere, Holds
  <1> QED
    BY <1>4, <1>5, Zenon

\* What appendBuffer copies into the current block: the next bytes of the file.
LEMMA CopiedBytes ==
  ASSUME PInv, Tasks, CopyToBlock, rewound = "never"
  PROVE  \E n \in Nat :
           /\ copied' = copied + n /\ current' = current \o Bytes(totalSize + copied, n)
           /\ current \in Seq(Nat) /\ Len(current') = Len(current) + n /\ Len(current') \in Nat
           /\ (Len(current) < BlockSize => n > 0)
  <1>1. PICK n \in Nat :
           /\ n = Least(BlockSize - Len(current), Len(Head(todo)) - copied)
           /\ copied' = copied + n /\ copied' <= Len(Head(todo))
           /\ Head(todo) \in Seq(Nat) /\ current \in Seq(Nat) /\ current' \in Seq(Nat)
           /\ current' = current \o SubSeq(Head(todo), copied + 1, copied + n)
           /\ Len(current') = Len(current) + n /\ Len(current') <= BlockSize
    BY CopyEffect, Zenon
  <1>2. todo # <<>> /\ todo \in Seq(Seq(Nat)) /\ copied \in Nat /\ totalSize \in Nat
    BY DEF PInv, TypeOK, Places, CopyToBlock
  <1>3. Head(todo) = todo[1] /\ Len(todo) \in Nat \ {0}
    BY <1>2, TakeOne, Zenon
  <1>4. Head(todo) = Bytes(totalSize, Len(Head(todo)))
    BY <1>2, <1>3 DEF Tasks, Contiguous
  <1>5. SubSeq(Head(todo), copied + 1, copied + n) = Bytes(totalSize + copied, n)
    <2>1. Len(Head(todo)) \in Nat /\ copied + n <= Len(Head(todo))
      BY <1>1
    <2> DEFINE len == Len(Head(todo))
    <2>2. SubSeq(Bytes(totalSize, len), copied + 1, copied + n) = Bytes(totalSize + copied, n)
      <3> HIDE DEF len
      <3>1. len \in Nat /\ copied + n <= len
        BY <2>1 DEF len
      <3> QED
        BY <1>2, <3>1, BytesPart, ZenonT(40)
    <2> QED
      BY <1>4, <2>2, Zenon
  <1>6. Len(current) < BlockSize => n > 0
    <2>1. copied < Len(Head(todo)) /\ Len(Head(todo)) \in Nat /\ Len(current) \in Nat
      BY <1>1 DEF CopyToBlock
    <2> QED
      BY <1>1, <1>2, <2>1, BufferedWritesAssumption DEF Least
  <1>7. current' = current \o Bytes(totalSize + copied, n)
    BY <1>1, <1>5, Zenon
  <1>8. Len(current') \in Nat
    BY <1>1
  <1> QED
    BY <1>1, <1>6, <1>7, <1>8, Zenon

\* The offsets of the chain.
LEMMA ChainEnds ==
  ASSUME PInv, Chain, Uploading, Undisturbed
  PROVE  StreamEnd \in Nat /\ HandEnd \in Nat /\ QueueEnd \in Nat
  <1>1. StreamEnd \in Nat
    BY KindSizes DEF PInv, TypeOK, StreamEnd
  <1>2. \A b \in Seq(Nat) : Contiguous(b) => End(b) \in Nat
    <2> SUFFICES ASSUME NEW b \in Seq(Nat), b # <<>> PROVE b[1] + Len(b) \in Nat
      BY DEF Contiguous, End
    <2>1. Len(b) \in Nat \ {0}
      BY EmptySeq
    <2>2. b[1] \in Nat
      BY <2>1, ElementOfSeq
    <2> QED
      BY <2>1, <2>2
  <1>3. HandEnd \in Nat
    BY <1>1, <1>2, Zenon DEF PInv, Blocks, Chain, HandEnd
  <1>4. uploadCh # <<>> => End(uploadCh[Len(uploadCh)]) \in Nat
    <2> SUFFICES ASSUME uploadCh # <<>> PROVE End(uploadCh[Len(uploadCh)]) \in Nat
      OBVIOUS
    <2>1. uploadCh \in Seq(Seq(Nat)) /\ Len(uploadCh) \in 1..Len(uploadCh)
      BY EmptySeq DEF PInv, Blocks
    <2>2. uploadCh[Len(uploadCh)] \in Seq(Nat)
      BY <2>1, ElementOfSeq, Zenon
    <2> QED
      BY <1>2, <2>1, <2>2 DEF Chain
  <1> QED
    BY <1>1, <1>3, <1>4, Zenon DEF QueueEnd

\* The current block grows by the next bytes.
LEMMA CopyChain == ASSUME PInv, PInv', Tasks, Chain, Onward, CopyToBlock PROVE Chain'
  <1> SUFFICES ASSUME Uploading', Undisturbed' PROVE Chain'
    BY Zenon DEF Chain
  <1>1. Uploading /\ Undisturbed /\ kind' = kind /\ rewound = "never"
    BY Zenon DEF Onward, Undisturbed
  <1>2. PICK n \in Nat :
           /\ copied' = copied + n /\ current' = current \o Bytes(totalSize + copied, n)
           /\ current \in Seq(Nat) /\ Len(current') = Len(current) + n /\ Len(current') \in Nat
           /\ (Len(current) < BlockSize => n > 0)
    BY <1>1, CopiedBytes, Zenon
  <1>3. /\ UNCHANGED <<stream, uploadCh, totalSize, uploader, inHand>> /\ pc = "append" /\ current # NoBlock
        /\ pc' = IF Len(current') = BlockSize THEN "full" ELSE "append"
    BY Zenon DEF CopyToBlock, queueVars, gcsVars, uploaderVars
  <1>4. StreamEnd' = StreamEnd /\ HandEnd' = HandEnd /\ QueueEnd' = QueueEnd
    BY <1>1, <1>3, Zenon DEF StreamEnd, HandEnd, QueueEnd, InitialSize, End
  <1>5. current = Bytes(QueueEnd, Len(current))
    BY <1>1, <1>3, Zenon DEF Chain
  <1>a. Len(current) < BlockSize /\ QueueEnd + Len(current) = totalSize + copied
    BY <1>1, <1>3 DEF Chain, InBlock
  <1>b. copied' = copied + n /\ Len(current') = Len(current) + n /\ Len(current') \in Nat
    BY <1>2
  <1>6. current' = Bytes(QueueEnd', Len(current'))
    <2> DEFINE len == Len(current)
    <2>1. QueueEnd \in Nat /\ len \in Nat
      BY <1>1, <1>2, ChainEnds
    <2>2. Bytes(QueueEnd, len) \o Bytes(QueueEnd + len, n) = Bytes(QueueEnd, len + n)
      <3> HIDE DEF len
      <3> QED
        BY <2>1, BytesConcat, Zenon
    <2> QED
      BY <1>2, <1>4, <1>5, <1>a, <1>b, <2>2, Zenon
  <1>7. current' # NoBlock /\ Len(current') > 0 /\ Len(current') <= BlockSize /\ current' # <<>>
    <2>1. Len(current) \in Nat /\ current \in Seq(Nat)
      BY <1>2
    <2>2. Len(current') > 0
      BY <1>2, <1>a, <2>1
    <2>3. current' # NoBlock
      BY CopyEffect, NoBlockIsNone, Zenon
    <2> QED
      BY <2>2, <2>3 DEF PInv, Blocks
  <1>8. QueueEnd' + InBlock' = totalSize' + copied'
    <2>1. QueueEnd \in Nat /\ Len(current) \in Nat /\ totalSize \in Nat /\ copied \in Nat
      BY <1>1, <1>2, ChainEnds DEF PInv, TypeOK
    <2>2. InBlock' = Len(current) + n
      BY <1>b, <1>7, Zenon DEF InBlock
    <2> QED
      BY <2>1, <2>2, <1>b, <1>3, <1>4, <1>a
  <1>9. pc' # "full" => Len(current') < BlockSize
    BY <1>b, <1>3, <1>7, BufferedWritesAssumption
  <1> QED
    BY <1>1, <1>3, <1>4, <1>6, <1>7, <1>8, <1>9 DEF Chain, Contiguous, End

\* The bytes of two sequences after one another.
LEMMA HoldsConcat ==
  ASSUME NEW a \in Seq(Int), NEW b \in Seq(Int), NEW k, Holds(a, k) \/ Holds(b, k)
  PROVE  Holds(a \o b, k)
  <1>1. /\ Len(a) \in Nat /\ Len(b) \in Nat /\ Len(a \o b) = Len(a) + Len(b)
        /\ \A i \in 1..(Len(a) + Len(b)) : (a \o b)[i] = IF i <= Len(a) THEN a[i] ELSE b[i - Len(a)]
    BY ConcatProperties, Zenon
  <1>2. CASE Holds(a, k)
    <2>1. PICK i \in 1..Len(a) : a[i] = k
      BY <1>2, Zenon DEF Holds
    <2>2. i \in 1..Len(a \o b) /\ (a \o b)[i] = k
      BY <1>1, <2>1
    <2> QED
      BY <2>2, Zenon DEF Holds
  <1>3. CASE Holds(b, k)
    <2>1. PICK i \in 1..Len(b) : b[i] = k
      BY <1>3, Zenon DEF Holds
    <2>2. /\ Len(a) + i \in 1..(Len(a) + Len(b)) /\ ~(Len(a) + i <= Len(a))
          /\ Len(a) + i - Len(a) = i
      BY <1>1, <2>1
    <2>3. Len(a) + i \in 1..Len(a \o b) /\ (a \o b)[Len(a) + i] = k
      BY <1>1, <2>1, <2>2
    <2> QED
      BY <2>3, Zenon DEF Holds
  <1> QED
    BY <1>2, <1>3, Zenon

\* A made block holds its bytes.
LEMMA HoldsBytes ==
  ASSUME NEW from \in Nat, NEW n \in Nat, NEW k \in Int, from <= k, k < from + n
  PROVE  Holds(Bytes(from, n), k)
  <1>1. /\ Len(Bytes(from, n)) = n /\ \A i \in 1..n : Bytes(from, n)[i] = from + i - 1
    BY BytesType
  <1>2. k - from + 1 \in 1..n /\ from + (k - from + 1) - 1 = k
    OBVIOUS
  <1>3. k - from + 1 \in 1..Len(Bytes(from, n)) /\ Bytes(from, n)[k - from + 1] = k
    BY <1>1, <1>2, Zenon
  <1> QED
    BY <1>3, Zenon DEF Holds

\* What is copied into the current block is somewhere.
LEMMA CopyCovered == ASSUME PInv, PInv', Tasks, Covered, Onward, CopyToBlock PROVE Covered'
  <1> SUFFICES ASSUME Uploading', rewound' = "never",
                      NEW k, k \in InitialSize'..(totalSize' + copied' - 1)
               PROVE  Somewhere(k)'
    BY Zenon DEF Covered
  <1>1. Uploading /\ rewound = "never" /\ InitialSize' = InitialSize
    BY DEF Onward, InitialSize
  <1>2. PICK n \in Nat :
           /\ copied' = copied + n /\ current' = current \o Bytes(totalSize + copied, n)
           /\ current \in Seq(Nat)
    BY <1>1, CopiedBytes, Zenon
  <1>3. UNCHANGED <<stream, uploadCh, totalSize, uploader, inHand>>
    BY Zenon DEF CopyToBlock, queueVars, gcsVars, uploaderVars
  <1>4. totalSize \in Nat /\ copied \in Nat /\ InitialSize \in Nat /\ totalSize + copied \in Nat
    BY KindSizes DEF PInv, TypeOK
  <1>5. k \in InitialSize..(totalSize + (copied + n) - 1)
    BY <1>1, <1>2, <1>3, Zenon
  <1>6. \A i, t, c, d \in Nat : \A j \in i..(t + (c + d) - 1) :
          j \in i..(t + c - 1) \/ (j \in Int /\ t + c <= j /\ j < t + c + d)
    OBVIOUS
  <1>7. \/ k \in InitialSize..(totalSize + copied - 1)
        \/ k \in Int /\ totalSize + copied <= k /\ k < totalSize + copied + n
    BY <1>4, <1>5, <1>6, Zenon
  <1>8. current \in Seq(Int) /\ Bytes(totalSize + copied, n) \in Seq(Int)
    BY <1>2, <1>4, BytesType, NatsAreInts, Zenon
  <1>9. CASE k \in InitialSize..(totalSize + copied - 1)
    <2>1. Somewhere(k)
      BY <1>1, <1>9, Zenon DEF Covered
    <2>2. Holds(current, k) => Holds(current', k)
      BY <1>2, <1>8, HoldsConcat
    <2> QED
      BY <1>3, <2>1, <2>2, Zenon DEF Somewhere
  <1>10. CASE k \in Int /\ totalSize + copied <= k /\ k < totalSize + copied + n
    <2>1. Holds(Bytes(totalSize + copied, n), k)
      BY <1>4, <1>10, HoldsBytes, Zenon
    <2>2. Holds(current', k)
      BY <1>2, <1>8, <2>1, HoldsConcat, Zenon
    <2> QED
      BY <2>2, Zenon DEF Somewhere, Holds
  <1> QED
    BY <1>7, <1>9, <1>10, Zenon

\* Data that is counted stays where it is.
LEMMA AppendDoneData == ASSUME PInv, Chain, Covered, Onward, AppendDone PROVE Chain' /\ Covered'
  <1>1. /\ UNCHANGED <<stream, uploadCh, current, uploader, inHand>> /\ kind' = kind
        /\ pc = "append" /\ copied = Len(Head(todo)) /\ pc' # "full"
        /\ totalSize' = totalSize + copied /\ copied' = 0
    BY Zenon DEF AppendDone, Onward, queueVars, gcsVars, uploaderVars
  <1>2. totalSize' + copied' = totalSize + copied
    BY <1>1 DEF PInv, TypeOK
  <1>3. StreamEnd' = StreamEnd /\ HandEnd' = HandEnd /\ InBlock' = InBlock /\ InitialSize' = InitialSize
    BY <1>1, Zenon DEF StreamEnd, HandEnd, InBlock, InitialSize, End
  <1>4. QueueEnd' = QueueEnd
    BY <1>1, <1>3, Zenon DEF QueueEnd, End
  <1>5. Chain'
    <2> SUFFICES ASSUME Uploading', Undisturbed' PROVE Chain'
      BY Zenon DEF Chain
    <2>1. Uploading /\ Undisturbed
      BY DEF Onward
    <2>2. current # <<>>
      <3>1. current = <<>> => copied < Len(Head(todo))
        BY <2>1, Zenon DEF Chain
      <3>2. copied \in Nat
        BY DEF PInv, TypeOK
      <3>3. ~(copied < copied)
        BY <3>2
      <3> QED
        BY <1>1, <3>1, <3>3, Zenon
    <2> QED
      BY <1>1, <1>2, <1>3, <1>4, <2>1, <2>2 DEF Chain, Contiguous, End
  <1>6. Covered'
    <2> SUFFICES ASSUME Uploading', rewound' = "never",
                        NEW k, k \in InitialSize..(totalSize + copied - 1)
                 PROVE  Somewhere(k)'
      <3>1. InitialSize'..(totalSize' + copied' - 1) = InitialSize..(totalSize + copied - 1)
        <4>1. totalSize' + copied' - 1 = totalSize + copied - 1
          BY <1>1 DEF PInv, TypeOK
        <4> QED
          BY <1>3, <4>1, Zenon
      <3> QED
        BY <3>1, Zenon DEF Covered
    <2>1. Somewhere(k)
      BY Zenon DEF Covered, Onward
    <2> QED
      BY <1>1, <2>1 DEF Somewhere, Holds
  <1> QED
    BY <1>5, <1>6

\* A block drained by Destroy no longer counts.
LEMMA DrainData == ASSUME PInv, PInv', DrainBlock PROVE Chain' /\ Covered'
  <1>1. call' = "Destroy"
    BY Zenon DEF PInv, TypeOK, Calls, Places, DrainBlock, callVars
  <1> QED
    BY <1>1, Zenon DEF Chain, Covered, Uploading

\* The block copied into the stream is still somewhere, and the last one.
LEMMA uploadBlockData ==
  ASSUME PInv, Chain, Covered, BytesLandAtTheirOffset, Onward, uploadBlock
  PROVE  Chain' /\ Covered' /\ BytesLandAtTheirOffset'
  <1>1. /\ UNCHANGED <<callVars, fileVars, uploadCh, object, inHand, kind>>
        /\ uploader = "busy" /\ uploader' = "copied"
    BY Zenon DEF uploadBlock, queueVars, gcsVars
  <1>2. inHand \in Seq(Nat) /\ inHand \in Seq(Int) /\ stream \in Seq(Int)
    BY <1>1, Zenon DEF PInv, TypeOK, Blocks
  <1>3. \/ stream' = stream /\ ~Uploading'
        \/ stream' = stream \o inHand /\ uploadError = "none" /\ writer = "open"
    BY DEF uploadBlock, gcsVars, Uploading
  <1>4. InitialSize' = InitialSize /\ InitialSize \in Nat /\ Len(stream) \in Nat /\ Len(inHand) \in Nat
    BY <1>1, <1>2, KindSizes DEF PInv, InitialSize
  <1>5. CASE stream' = stream /\ ~Uploading'
    <2>1. BytesLandAtTheirOffset'
      BY <1>4, <1>5 DEF BytesLandAtTheirOffset, Onward
    <2> QED
      BY <1>5, <2>1, Zenon DEF Chain, Covered
  <1>6. CASE stream' = stream \o inHand /\ uploadError = "none" /\ writer = "open"
    <2>1. Len(stream') = Len(stream) + Len(inHand)
      BY <1>2, <1>6, ConcatInts
    <2>2. Chain'
      <3> SUFFICES ASSUME Uploading', Undisturbed' PROVE Chain'
        BY DEF Chain
      <3>1. Uploading /\ Undisturbed
        BY Zenon DEF Onward
      <3>2. inHand[1] = StreamEnd /\ HandEnd = StreamEnd + Len(inHand)
        BY <1>1, <3>1, Zenon DEF Chain, HandEnd, End
      <3>3. HandEnd' = HandEnd
        BY <1>1, <1>4, <2>1, <3>2 DEF HandEnd, StreamEnd
      <3>4. QueueEnd' = QueueEnd /\ InBlock' = InBlock
        BY <1>1, <3>3, Zenon DEF QueueEnd, InBlock, End, fileVars
      <3> QED
        BY <1>1, <3>1, <3>3, <3>4, Zenon DEF Chain, Contiguous, End, callVars, fileVars
    <2>3. Covered'
      <3> SUFFICES ASSUME Uploading', rewound' = "never",
                          NEW k, k \in InitialSize..(totalSize + copied - 1)
                   PROVE  Somewhere(k)'
        BY <1>1, <1>4, Zenon DEF Covered, callVars, fileVars
      <3>1. Somewhere(k)
        BY Zenon DEF Covered, Onward
      <3>2. Holds(stream, k) \/ Holds(inHand, k) => Holds(stream', k)
        BY <1>2, <1>6, HoldsConcat
      <3> QED
        BY <1>1, <3>1, <3>2, Zenon DEF Somewhere, Holds, fileVars
    <2>4. BytesLandAtTheirOffset'
      <3> SUFFICES ASSUME call' # "Destroy", call' = "gone" => object' # NoObject, Undisturbed'
                   PROVE  stream' = Bytes(InitialSize', Len(stream'))
        BY Zenon DEF BytesLandAtTheirOffset
      <3>1. call # "Destroy" /\ (call = "gone" => object # NoObject) /\ Undisturbed
        BY Zenon DEF Onward
      <3>2. Uploading
        BY <1>1, <1>6, <3>1, Zenon DEF PInv, Blocks, Quiet, Uploading
      <3>3. inHand = Bytes(StreamEnd, Len(inHand))
        BY <1>1, <3>1, <3>2, Zenon DEF Chain, Contiguous
      <3>4. stream = Bytes(InitialSize, Len(stream))
        BY <3>1 DEF BytesLandAtTheirOffset
      <3> DEFINE n == Len(stream)
                 m == Len(inHand)
      <3>5. Bytes(InitialSize, n) \o Bytes(InitialSize + n, m) = Bytes(InitialSize, n + m)
        <4> HIDE DEF n, m
        <4>1. n \in Nat /\ m \in Nat
          BY <1>4 DEF n, m
        <4> QED
          BY <1>4, <4>1, BytesConcat, Zenon
      <3>6. StreamEnd = InitialSize + n
        BY DEF StreamEnd
      <3> QED
        BY <1>4, <1>6, <2>1, <3>3, <3>4, <3>5, <3>6, Zenon
    <2> QED
      BY <2>2, <2>3, <2>4
  <1> QED
    BY <1>3, <1>5, <1>6, Zenon

\* A block handed over by the channel goes on where the stream ends.
LEMMA ReceiveData == ASSUME PInv, PInv', Chain, Covered, Onward, Receive PROVE Chain' /\ Covered'
  <1>1. /\ UNCHANGED <<callVars, fileVars, stream, kind>> /\ uploader = "idle" /\ uploader' = "busy"
        /\ uploadCh # <<>> /\ inHand' = Head(uploadCh) /\ uploadCh' = Tail(uploadCh)
    BY Zenon DEF Receive, gcsVars
  <1>2. uploadCh \in Seq(Seq(Nat))
    BY Zenon DEF PInv, Blocks
  <1>3. /\ Len(uploadCh) \in Nat \ {0} /\ Len(uploadCh') = Len(uploadCh) - 1
        /\ \A i \in 1..(Len(uploadCh) - 1) : uploadCh'[i] = uploadCh[i + 1]
        /\ inHand' = uploadCh[1] /\ (uploadCh' = <<>> <=> Len(uploadCh) = 1)
    BY <1>1, <1>2, TakeOne, Zenon
  <1>4. Chain'
    <2> SUFFICES ASSUME Uploading', Undisturbed' PROVE Chain'
      BY Zenon DEF Chain
    <2>1. Uploading /\ Undisturbed
      BY DEF Onward
    <2>2. /\ \A i \in 1..Len(uploadCh) : Contiguous(uploadCh[i])
          /\ \A i \in 1..(Len(uploadCh) - 1) : uploadCh[i + 1][1] = End(uploadCh[i])
          /\ uploadCh[1][1] = HandEnd
      BY <1>1, <2>1 DEF Chain
    <2>3. StreamEnd' = StreamEnd /\ HandEnd = StreamEnd /\ HandEnd' = End(uploadCh[1]) /\ InBlock' = InBlock
      BY <1>1, <1>3, Zenon DEF StreamEnd, HandEnd, InitialSize, InBlock, End, fileVars
    <2>4. Contiguous(inHand') /\ inHand'[1] = StreamEnd'
      <3>1. 1 \in 1..Len(uploadCh)
        BY <1>3
      <3> QED
        BY <1>3, <2>2, <2>3, <3>1, Zenon
    <2>5. \A i \in 1..Len(uploadCh') : i + 1 \in 1..Len(uploadCh) /\ uploadCh'[i] = uploadCh[i + 1]
      BY <1>3
    <2>6. \A i \in 1..(Len(uploadCh') - 1) : /\ i \in 1..Len(uploadCh') /\ i + 1 \in 1..Len(uploadCh')
                                             /\ i + 1 \in 1..(Len(uploadCh) - 1)
      BY <1>3
    <2>7. \A i \in 1..Len(uploadCh') : Contiguous(uploadCh'[i])
      BY <2>2, <2>5, Zenon
    <2>8. \A i \in 1..(Len(uploadCh') - 1) : uploadCh'[i + 1][1] = End(uploadCh'[i])
      BY <2>2, <2>5, <2>6, Zenon
    <2>9. uploadCh' # <<>> => uploadCh'[1][1] = HandEnd'
      <3>1. uploadCh' # <<>> => 1 \in 1..(Len(uploadCh) - 1)
        BY <1>3
      <3> QED
        BY <3>1, <1>3, <2>2, <2>3, Zenon
    <2>10. QueueEnd' = QueueEnd
      <3>1. CASE uploadCh' = <<>>
        <4>1. QueueEnd' = HandEnd'
          BY <3>1, Zenon DEF QueueEnd
        <4>2. QueueEnd = End(uploadCh[1])
          BY <1>1, <1>3, <3>1, Zenon DEF QueueEnd
        <4> QED
          BY <4>1, <4>2, <2>3, Zenon
      <3>2. CASE uploadCh' # <<>>
        <4>1. Len(uploadCh') \in 1..Len(uploadCh') /\ Len(uploadCh') + 1 = Len(uploadCh)
          BY <1>3, <3>2
        <4>2. uploadCh'[Len(uploadCh')] = uploadCh[Len(uploadCh)]
          BY <2>5, <4>1, Zenon
        <4> QED
          BY <1>1, <3>2, <4>2, Zenon DEF QueueEnd, End
      <3> QED
        BY <3>1, <3>2, Zenon
    <2> QED
      BY <1>1, <2>1, <2>3, <2>4, <2>7, <2>8, <2>9, <2>10 DEF Chain, Contiguous, End, callVars, fileVars
  <1>5. Covered'
    <2> SUFFICES ASSUME Uploading', rewound' = "never",
                        NEW k, k \in InitialSize..(totalSize + copied - 1)
                 PROVE  Somewhere(k)'
      BY <1>1, Zenon DEF Covered, InitialSize, callVars, fileVars
    <2>1. Somewhere(k)
      BY DEF Covered, Onward
    <2>2. ASSUME NEW j \in 1..Len(uploadCh), Holds(uploadCh[j], k) PROVE Somewhere(k)'
      <3>1. CASE j = 1
        BY <1>1, <1>3, <2>2, <3>1, Zenon DEF Somewhere, Holds
      <3>2. CASE j # 1
        <4>1. j - 1 \in 1..Len(uploadCh') /\ j - 1 \in 1..(Len(uploadCh) - 1) /\ (j - 1) + 1 = j
          BY <1>3, <3>2
        <4>2. uploadCh'[j - 1] = uploadCh[j]
          BY <4>1, <1>3, Zenon
        <4> QED
          BY <2>2, <4>1, <4>2, Zenon DEF Somewhere, Holds
      <3> QED
        BY <3>1, <3>2, Zenon
    <2>3. Holds(stream, k) \/ Holds(current, k) => Somewhere(k)'
      BY <1>1 DEF Somewhere, Holds, fileVars
    <2> QED
      BY <1>1, <2>1, <2>2, <2>3, Zenon DEF Somewhere
  <1> QED
    BY <1>4, <1>5, Zenon

\* A block that is queued goes on where the channel ends.
LEMMA UploadData ==
  ASSUME PInv, PInv', Chain, Covered, Onward, NEW next,
         (pc = "full" /\ next = "append") \/ (pc = "last" /\ HasLast /\ next = "wait"), Upload(next)
  PROVE  Chain' /\ Covered'
  <1>1. /\ UNCHANGED <<call, todo, copied, totalSize, stream, kind, inHand>>
        /\ uploader' = "busy" <=> uploader = "busy"
        /\ uploadCh' = Append(uploadCh, current) /\ current' = NoBlock /\ pc' \in {"append", "wait"}
    BY Zenon DEF Upload
  <1>2. uploadCh \in Seq(Seq(Nat)) /\ current # NoBlock /\ current \in Seq(Nat)
    BY DEF PInv, Blocks, HasLast
  <1>3. /\ Len(uploadCh') = Len(uploadCh) + 1 /\ Len(uploadCh) \in Nat /\ uploadCh' # <<>>
        /\ uploadCh'[Len(uploadCh')] = current
        /\ \A i \in 1..Len(uploadCh) : uploadCh'[i] = uploadCh[i]
    <2>1. /\ Len(uploadCh') = Len(uploadCh) + 1 /\ Len(uploadCh) \in Nat /\ uploadCh' # <<>>
          /\ uploadCh'[Len(uploadCh) + 1] = current
          /\ \A i \in 1..Len(uploadCh) : uploadCh'[i] = uploadCh[i]
      BY <1>1, <1>2, AppendOne, Zenon
    <2> QED
      BY <2>1, Zenon
  <1>4. Chain'
    <2> SUFFICES ASSUME Uploading', Undisturbed' PROVE Chain'
      BY Zenon DEF Chain
    <2>1. Uploading /\ Undisturbed
      BY DEF Onward
    <2>2. /\ \A i \in 1..Len(uploadCh) : Contiguous(uploadCh[i])
          /\ \A i \in 1..(Len(uploadCh) - 1) : uploadCh[i + 1][1] = End(uploadCh[i])
          /\ uploadCh # <<>> => uploadCh[1][1] = HandEnd
          /\ current # <<>>
          /\ QueueEnd + Len(current) = totalSize + copied
      BY <1>2, <2>1, Zenon DEF Chain, InBlock
    <2>3. Contiguous(current) /\ current[1] = QueueEnd /\ End(current) = QueueEnd + Len(current)
      <3> DEFINE n == Len(current)
      <3>1. current = Bytes(QueueEnd, n)
        BY <1>2, <2>1, Zenon DEF Chain
      <3>2. n \in Nat \ {0} /\ QueueEnd \in Nat
        BY <1>2, <2>1, <2>2, EmptySeq, ChainEnds
      <3> HIDE DEF n
      <3>3. Contiguous(current) /\ current[1] = QueueEnd /\ End(current) = QueueEnd + n
        BY <3>1, <3>2, MadeContiguous, Zenon
      <3> QED
        BY <3>3, Zenon DEF n
    <2>4. StreamEnd' = StreamEnd /\ HandEnd' = HandEnd /\ InBlock' = 0
      BY <1>1, Zenon DEF StreamEnd, HandEnd, InitialSize, InBlock, End
    <2>5. QueueEnd' = End(current)
      BY <1>3, Zenon DEF QueueEnd, End
    <2>6. \A i \in 1..Len(uploadCh') : Contiguous(uploadCh'[i])
      <3> SUFFICES ASSUME NEW i \in 1..Len(uploadCh') PROVE Contiguous(uploadCh'[i])
        BY Zenon
      <3>1. i \in 1..Len(uploadCh) \/ i = Len(uploadCh')
        BY <1>3
      <3> QED
        BY <3>1, <1>3, <2>2, <2>3, Zenon
    <2>7. \A i \in 1..(Len(uploadCh') - 1) : uploadCh'[i + 1][1] = End(uploadCh'[i])
      <3> SUFFICES ASSUME NEW i \in 1..Len(uploadCh) PROVE uploadCh'[i + 1][1] = End(uploadCh'[i])
        BY <1>3
      <3>1. uploadCh'[i] = uploadCh[i]
        BY <1>3, Zenon
      <3>2. CASE i = Len(uploadCh)
        <4>1. QueueEnd = End(uploadCh[i]) /\ i + 1 = Len(uploadCh')
          BY <1>3, <3>2 DEF QueueEnd
        <4> QED
          BY <4>1, <3>1, <1>3, <2>3, Zenon
      <3>3. CASE i # Len(uploadCh)
        <4>1. i \in 1..(Len(uploadCh) - 1) /\ i + 1 \in 1..Len(uploadCh)
          BY <1>3, <3>3
        <4> QED
          BY <4>1, <3>1, <1>3, <2>2, Zenon
      <3> QED
        BY <3>2, <3>3, Zenon
    <2>8. uploadCh'[1][1] = HandEnd'
      <3>1. CASE uploadCh = <<>>
        <4>1. QueueEnd = HandEnd /\ uploadCh'[1] = current
          BY <1>3, <3>1 DEF QueueEnd
        <4> QED
          BY <4>1, <2>3, <2>4, Zenon
      <3>2. CASE uploadCh # <<>>
        <4>1. 1 \in 1..Len(uploadCh)
          BY <1>2, <3>2, EmptySeq
        <4> QED
          BY <4>1, <1>3, <2>2, <2>4, <3>2, Zenon
      <3> QED
        BY <3>1, <3>2, Zenon
    <2>9. QueueEnd' + InBlock' = totalSize' + copied'
      <3>1. QueueEnd \in Nat /\ Len(current) \in Nat
        BY <1>2, <2>1, ChainEnds
      <3>2. QueueEnd' + InBlock' = (QueueEnd + Len(current)) + 0
        BY <2>3, <2>4, <2>5, Zenon
      <3>3. (QueueEnd + Len(current)) + 0 = QueueEnd + Len(current)
        BY <3>1
      <3> QED
        BY <1>1, <2>2, <3>2, <3>3, Zenon
    <2>10. current' # <<>>
      BY <1>1 DEF NoBlock
    <2> QED
      BY <1>1, <2>1, <2>4, <2>6, <2>7, <2>8, <2>9, <2>10, Zenon DEF Chain, Contiguous, End
  <1>5. Covered'
    <2> SUFFICES ASSUME Uploading', rewound' = "never",
                        NEW k, k \in InitialSize..(totalSize + copied - 1)
                 PROVE  Somewhere(k)'
      BY <1>1, Zenon DEF Covered, InitialSize
    <2>1. Somewhere(k)
      BY DEF Covered, Onward
    <2>2. ASSUME NEW j \in 1..Len(uploadCh), Holds(uploadCh[j], k) PROVE Somewhere(k)'
      <3>1. j \in 1..Len(uploadCh') /\ uploadCh'[j] = uploadCh[j]
        BY <1>3
      <3> QED
        BY <2>2, <3>1, Zenon DEF Somewhere, Holds
    <2>3. Holds(current, k) => Somewhere(k)'
      <3>1. Len(uploadCh') \in 1..Len(uploadCh')
        BY <1>3
      <3> QED
        BY <1>3, <3>1, Zenon DEF Somewhere, Holds
    <2>4. Holds(stream, k) \/ (uploader = "busy" /\ Holds(inHand, k)) => Somewhere(k)'
      BY <1>1 DEF Somewhere, Holds
    <2> QED
      BY <2>1, <2>2, <2>3, <2>4, Zenon DEF Somewhere
  <1> QED
    BY <1>4, <1>5, Zenon
=============================================================================
