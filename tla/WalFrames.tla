----------------------------- MODULE WalFrames -----------------------------
(***************************************************************************)
(* How a record lies in a segment of the log (internal/wal): Append cuts   *)
(* it into frames that never cross a block, the reader puts the frames     *)
(* together again, and a reopened log goes on where its reader stopped.    *)
(*                                                                         *)
(* One segment is modelled, the current one; rotation starts a new file of *)
(* zeros.  A file is the frames at the byte positions of their headers:    *)
(* everywhere else it holds zeros, padding included.  The bytes of a frame *)
(* are named by the record they belong to and their range in it.           *)
(***************************************************************************)
EXTENDS Integers, Sequences, SequencesExt, FiniteSets, TLC

CONSTANTS
    BlockSize,
    FrameHeaderSize,     \* frameHeaderSize
    SegmentSizeBlocks,
    RecordsPerSegment,
    Sizes,               \* lengths of serialized records
    MaxFaults            \* bound: writes that fail in one behaviour

MaxSegmentBytes == BlockSize * SegmentSizeBlocks

ASSUME WalFramesAssumption ==
    /\ FrameHeaderSize \in Nat \ {0}
    /\ BlockSize \in Nat
    /\ BlockSize > FrameHeaderSize
    /\ SegmentSizeBlocks \in Nat \ {0}
    /\ RecordsPerSegment \in Nat \ {0}
    /\ Sizes \subseteq Nat \ {0}
    /\ MaxFaults \in Nat

VARIABLES
    file,                  \* position of a header -> the frame there
    currentRecordCount,
    currentBlockOffset,
    currentSegmentBytes,
    record,                \* the record being appended: its number and length
    remaining,             \* its bytes not yet in a frame
    pc,
    \* history
    written,               \* the records appended to the segment in full
    zeroFirst,             \* some frame of the segment holds no byte
    faults                 \* bound

position == <<currentRecordCount, currentBlockOffset, currentSegmentBytes>>
vars == <<file, position, record, remaining, pc, written, zeroFirst, faults>>

NoRecord == [number |-> 0, size |-> 0]
NoFrames == [p \in {} |-> NoRecord]

-----------------------------------------------------------------------------
(* The reader *)

ReaderAtStart ==
    [bytesRead |-> 0, blockOffset |-> 0, assembled |-> <<>>, inFragmented |-> FALSE,
     records |-> <<>>, status |-> "reading"]

\* The padding the reader skips at the end of a block
PaddingAt(offset) ==
    IF offset # 0 /\ BlockSize - offset < FrameHeaderSize THEN BlockSize - offset ELSE 0

AlignedUncounted(r) ==
    IF PaddingAt(r.blockOffset) = 0 THEN r ELSE [r EXCEPT !.blockOffset = 0]
Aligned(r) ==
    IF PaddingAt(r.blockOffset) = 0 THEN r
    ELSE [r EXCEPT !.bytesRead = @ + PaddingAt(r.blockOffset), !.blockOffset = 0]

\* The fragments are one whole record: the lengths and the checksum fit
Whole(fragments) ==
    LET last == fragments[Len(fragments)]
    IN  /\ fragments[1].from = 0
        /\ last.upto = last.record.size
        /\ \A i \in 1..Len(fragments) - 1 :
              /\ fragments[i].record = fragments[i + 1].record
              /\ fragments[i].upto = fragments[i + 1].from

Failed(r) == [r EXCEPT !.status = "error"]

\* A record ends with these fragments
Completed(r, fragments) ==
    IF ~Whole(fragments) THEN Failed(r)
    ELSE [r EXCEPT !.records = Append(@, fragments[1].record),
                   !.assembled = <<>>, !.inFragmented = FALSE]

\* One turn of the loop of ReadNextRecord, for the frame f
Taken(r, f) ==
    CASE f.type = "full" ->
            IF r.inFragmented THEN Failed(r) ELSE Completed(r, <<f>>)
      [] f.type = "first" ->
            IF r.inFragmented THEN Failed(r)
            ELSE [r EXCEPT !.assembled = <<f>>, !.inFragmented = TRUE]
      [] f.type = "middle" ->
            IF ~r.inFragmented THEN Failed(r) ELSE [r EXCEPT !.assembled = Append(@, f)]
      [] f.type = "last" ->
            IF ~r.inFragmented THEN Failed(r) ELSE Completed(r, Append(r.assembled, f))

\* The end of the frames inside a record is an error if a byte of the record was read
AtEnd(r) ==
    [r EXCEPT !.status =
        IF \E i \in DOMAIN r.assembled : r.assembled[i].upto > 0 THEN "error" ELSE "eof"]

\* readFrame, and what ReadNextRecord makes of the frame
ReadFrame(reader) ==
    LET r == Aligned(reader)
        f == file[r.bytesRead]
        after == FrameHeaderSize + f.upto - f.from
        passed == [r EXCEPT !.bytesRead = @ + after,
                            !.blockOffset = (@ + after) % BlockSize]
    IN  IF reader.status # "reading" THEN reader
        ELSE IF r.bytesRead \notin DOMAIN file THEN AtEnd(r)
        ELSE IF r.blockOffset + after > BlockSize THEN Failed(r)
        ELSE Taken(passed, f)

\* The reader after n turns
Reading[n \in Nat] == IF n = 0 THEN ReaderAtStart ELSE ReadFrame(Reading[n - 1])

\* scanSegmentState and Replay read the segment to its end
Scanned == Reading[Cardinality(DOMAIN file) + 1]

-----------------------------------------------------------------------------
(* The writer *)

\* Where the next frame's header goes, and in which block offset: padBlock fills a
\* block that has no room for a header
Padding ==
    IF BlockSize - currentBlockOffset < FrameHeaderSize THEN BlockSize - currentBlockOffset
    ELSE 0

FrameOffset == IF BlockSize - currentBlockOffset < FrameHeaderSize THEN 0 ELSE currentBlockOffset

Smaller(a, b) == IF a < b THEN a ELSE b

FramedSizeUnpadded(offset, size) == size + FrameHeaderSize

\* framedSize: bytes a record takes from a block offset on, padding and headers included
framed[rest \in (0..BlockSize) \X Nat] ==
    IF rest[2] = 0 THEN 0
    ELSE LET pads == BlockSize - rest[1] < FrameHeaderSize
             start == IF pads THEN 0 ELSE rest[1]
             chunk == Smaller(BlockSize - start - FrameHeaderSize, rest[2])
             end == start + FrameHeaderSize + chunk
         IN  (IF pads THEN BlockSize - rest[1] ELSE 0) + FrameHeaderSize + chunk
                + framed[<<end % BlockSize, rest[2] - chunk>>]

FramedSize(offset, size) == framed[<<offset, size>>]

ShouldRotateBeforeWrite(size) ==
    /\ currentRecordCount # 0 \/ currentSegmentBytes # 0
    /\ currentSegmentBytes + FramedSize(currentBlockOffset, size) > MaxSegmentBytes

SegmentFull(count, bytes) == count >= RecordsPerSegment \/ bytes >= MaxSegmentBytes

\* A new segment: a file of zeros, nothing counted
NewSegment ==
    /\ file' = NoFrames
    /\ currentRecordCount' = 0
    /\ currentBlockOffset' = 0
    /\ currentSegmentBytes' = 0
    /\ written' = <<>>
    /\ zeroFirst' = FALSE

FragmentType(chunk, left) ==
    CASE record.size = chunk -> "full"
      [] record.size # chunk /\ left = 0 -> "last"
      [] record.size # chunk /\ left # 0 /\ record.size = chunk + left -> "first"
      [] OTHER -> "middle"

Init ==
    /\ file = NoFrames
    /\ currentRecordCount = 0
    /\ currentBlockOffset = 0
    /\ currentSegmentBytes = 0
    /\ record = NoRecord
    /\ remaining = 0
    /\ pc = "idle"
    /\ written = <<>>
    /\ zeroFirst = FALSE
    /\ faults = 0

\* Append, up to its loop.  A record that no segment can hold is refused.
AppendStart ==
    /\ pc = "idle"
    /\ \E size \in {s \in Sizes : FramedSize(0, s) <= MaxSegmentBytes} :
          /\ IF ShouldRotateBeforeWrite(size) THEN NewSegment
             ELSE UNCHANGED <<file, position, written, zeroFirst>>
          /\ record' = [number |-> Len(written') + faults + 1, size |-> size]
          /\ remaining' = size
    /\ pc' = "append"
    /\ UNCHANGED faults

\* The next frame of the record
Chunk == Smaller(BlockSize - FrameOffset - FrameHeaderSize, remaining)
Left == remaining - Chunk
From == record.size - remaining

Frame == [type |-> FragmentType(Chunk, Left), record |-> record,
          from |-> From, upto |-> From + Chunk]

\* What a failed append left in the place of the frame is written over
FileWith(frame) ==
    LET here == currentSegmentBytes + Padding
    IN  [p \in DOMAIN file \cup {here} |-> IF p = here THEN frame ELSE file[p]]

\* The header of the frame over zeros
HeaderOnly == [Frame EXCEPT !.record = NoRecord]

\* One turn of the loop of Append
WriteFrame ==
    /\ pc = "append"
    /\ file' = FileWith(Frame)
    /\ currentBlockOffset' = FrameOffset + FrameHeaderSize + Chunk
    /\ currentSegmentBytes' = currentSegmentBytes + Padding + FrameHeaderSize + Chunk
    /\ remaining' = Left
    /\ zeroFirst' = (zeroFirst \/ Chunk = 0)
    /\ \/ /\ Left > 0
          /\ UNCHANGED <<currentRecordCount, written, pc>>
       \/ /\ Left = 0
          /\ currentRecordCount' = currentRecordCount + 1
          /\ written' = Append(written, record)
          /\ pc' = IF SegmentFull(currentRecordCount', currentSegmentBytes')
                   THEN "rotate" ELSE "idle"
    /\ UNCHANGED <<record, faults>>

\* Padding, a header or the data of a frame cannot be written: Append returns the error
\* and stands behind the last whole frame, or the padding; the log is used on
WriteFails ==
    /\ pc = "append"
    /\ faults < MaxFaults
    /\ faults' = faults + 1
    /\ \/ UNCHANGED <<file, position>>
       \/ /\ file' \in {file} \cup IF Chunk > 0 THEN {FileWith(HeaderOnly)} ELSE {}
          /\ currentBlockOffset' = FrameOffset
          /\ currentSegmentBytes' = currentSegmentBytes + Padding
          /\ UNCHANGED currentRecordCount
    /\ record' = NoRecord
    /\ remaining' = 0
    /\ pc' = "idle"
    /\ UNCHANGED <<written, zeroFirst>>

Rotate ==
    /\ pc = "rotate"
    /\ NewSegment
    /\ pc' = "idle"
    /\ UNCHANGED <<record, remaining, faults>>

Down ==
    /\ pc' = "down"
    /\ currentRecordCount' = 0
    /\ currentBlockOffset' = 0
    /\ currentSegmentBytes' = 0
    /\ record' = NoRecord
    /\ remaining' = 0

\* The process ends between two frames
Crash ==
    /\ pc # "down"
    /\ Down
    /\ UNCHANGED <<file, written, zeroFirst, faults>>

\* The process ends between the two writes of writeFrame: a header over zeros
CrashInFrame ==
    /\ pc = "append"
    /\ Down
    /\ file' = FileWith(HeaderOnly)
    /\ zeroFirst' = (zeroFirst \/ Chunk = 0)
    /\ UNCHANGED <<written, faults>>

\* OpenConfigured: go on where the reader stopped, or in a new segment
Reopen ==
    /\ pc = "down"
    /\ Scanned.status = "eof"
    /\ IF SegmentFull(Len(Scanned.records), Scanned.bytesRead) THEN NewSegment
       ELSE /\ currentRecordCount' = Len(Scanned.records)
            /\ currentBlockOffset' = Scanned.blockOffset
            /\ currentSegmentBytes' = Scanned.bytesRead
            /\ UNCHANGED <<file, written, zeroFirst>>
    /\ pc' = "idle"
    /\ UNCHANGED <<record, remaining, faults>>

\* OpenConfigured returns the reader's error; another attempt ends the same way
ReopenFails ==
    /\ pc = "down"
    /\ Scanned.status = "error"
    /\ UNCHANGED vars

Next ==
    \/ AppendStart \/ WriteFrame \/ WriteFails \/ Rotate
    \/ Crash \/ CrashInFrame \/ Reopen \/ ReopenFails

Spec == Init /\ [][Next]_vars

-----------------------------------------------------------------------------
(* Properties *)

\* Whenever the process ends, whatever it was writing, the reader finds exactly the
\* records written in full, or it says that the segment is damaged: it never makes a
\* record of a part of one, nor loses one silently (record.go:163-271).
NeverMisread == Scanned.status = "error" \/ Scanned.records = written

\* The segment holds a frame of a record whose append failed
Stranded == \E p \in DOMAIN file : file[p].record \notin ToSet(written)

\* Between two appends the reader stops where the writer stands: same count, and the
\* next frame goes to the same place whether or not the log is reopened before it, also
\* when an append failed before its first frame (wal.go:92-128, 236-257, 288-306).  A frame
\* without data spoils that, and a frame that a failed append left.
ReopenedWhereItStood ==
    pc = "idle" /\ ~zeroFirst /\ ~Stranded =>
        /\ Scanned.status = "eof"
        /\ Len(Scanned.records) = currentRecordCount
        /\ Scanned.bytesRead = currentSegmentBytes + PaddingAt(currentBlockOffset)
        /\ Scanned.blockOffset % BlockSize
              = (currentBlockOffset + PaddingAt(currentBlockOffset)) % BlockSize

\* What framedSize promises before the first frame holds after the last: no frame
\* reaches past the fixed length of a segment or over the end of a block, and no
\* header is written over (wal.go:355-362, 450-477; wal_test.go:38-70).
SegmentKeepsItsLength ==
    \A p \in DOMAIN file :
        LET end == p + FrameHeaderSize + file[p].upto - file[p].from
        IN  /\ end <= MaxSegmentBytes
            /\ p \div BlockSize = (end - 1) \div BlockSize
            /\ \A q \in DOMAIN file : q <= p \/ q >= end

\* What the reader's checks take for granted of a log that was closed between two
\* appends: that no record starts inside another (record.go:192-200).
LogReadable == pc = "idle" => Scanned.status = "eof"

\* The same where no frame is without data, after an append that succeeded: that an
\* earlier one failed does not cost the records acknowledged since (record.go:192-200,
\* wal.go:112-116).
ReadableAfterFailure ==
    pc = "idle" /\ ~zeroFirst /\ record # NoRecord => Scanned.status = "eof"
=============================================================================
