-------------------------- MODULE MCBufferedWrites --------------------------
(* One streaming file; the other pools only compete for the semaphore.     *)
EXTENDS BufferedWrites, SequencesExt

\* A new object, with failing allocations, beside another file or alone and longer; callers
\* that write below totalSize; a longer or an empty unfinalized object of a zonal bucket.
New == [zonal |-> FALSE, initialSize |-> 0, writerMayFail |-> FALSE, blockMayFail |-> TRUE,
        rewinds |-> FALSE, others |-> TRUE, maxSize |-> 3]
Alone == [New EXCEPT !.others = FALSE, !.maxSize = 5]
Rewound == [Alone EXCEPT !.rewinds = TRUE, !.blockMayFail = FALSE, !.maxSize = 4]
Appended == [Alone EXCEPT !.zonal = TRUE, !.initialSize = 1, !.writerMayFail = TRUE, !.maxSize = 4]
AppendedEmpty == [Appended EXCEPT !.initialSize = 0, !.blockMayFail = FALSE]
AllKinds == {New, Alone, Rewound, Appended, AppendedEmpty}

\* All the bytes accepted and not lost to an error or a cancellation.
Buffered ==
    stream \o (IF uploader = "busy" THEN inHand ELSE <<>>) \o FlattenSeq(uploadCh)
      \o (IF current = NoBlock THEN <<>> ELSE current)

\* totalSize is the "[t]otal size of data buffered so far" between two calls, as long as
\* appendBuffer always got the blocks it needed and Upload the writer.
TotalSizeIsBuffered ==
    call = "idle" /\ uploadError = "none" /\ writer # "cancelled"
    /\ lost[File] = 0 /\ noWriter = "never"
      => totalSize = InitialSize + Len(Buffered)

\* Every byte is uploaded where the caller put it, none that was acknowledged is missing
\* from the object, and the size reported is that of the data (appendBuffer, Sync, Flush).
BytesInPlace == BytesLandAtTheirOffset /\ NoAckedByteMissing /\ TotalSizeIsBuffered
=============================================================================
