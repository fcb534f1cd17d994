---------------------------- MODULE WalFramesProofs ----------------------------
(***************************************************************************)
(* A segment of the log is read as it was written, for every size of a     *)
(* block, a header, a segment and a record and every number of failures.   *)
(*                                                                         *)
(* The invariant speaks of a place, a byte and a block offset, where the   *)
(* writer stands or, after the process has ended, stood: every frame       *)
(* before the place keeps to its block, and the reader reaches the place   *)
(* by so many of them, unless it has failed on the way.                    *)
(***************************************************************************)
EXTENDS WalFrames, CommonProofs, FiniteSetTheorems

-----------------------------------------------------------------------------
(* The inductive invariant *)

Records == [number : Nat, size : Nat]

Frames ==
    {f \in [type : {"full", "first", "middle", "last"}, record : Records,
            from : Nat, upto : Nat] : f.from <= f.upto}

End(p) == p + FrameHeaderSize + file[p].upto - file[p].from

Typed ==
    /\ DOMAIN file \in SUBSET Nat /\ IsFiniteSet(DOMAIN file) /\ file \in [DOMAIN file -> Frames]
    /\ currentRecordCount \in Nat
    /\ currentBlockOffset \in 0..BlockSize
    /\ currentSegmentBytes \in Nat
    /\ record \in Records
    /\ remaining \in 0..record.size
    /\ pc \in {"idle", "append", "rotate", "down"}
    /\ written \in Seq(Records)
    /\ zeroFirst \in BOOLEAN
    /\ faults \in Nat

\* Where the frame after a place goes, and at which offset of its block
NextOffset(off) == IF BlockSize - off < FrameHeaderSize THEN 0 ELSE off
NextByte(at, off) ==
    at + (IF BlockSize - off < FrameHeaderSize THEN BlockSize - off ELSE 0)

InBlock(at, off) ==
    \E block \in Nat : at = BlockSize * block + off

\* The frames before a byte
Before(at) == {p \in DOMAIN file : p < at}

\* The header without data that a failed write left where the next frame goes
Leftover(at, off) ==
    at \in DOMAIN file =>
        /\ NextOffset(off) = off
        /\ file[at].record = NoRecord
        /\ file[at].type \in {"full", "last"} => file[at].upto > 0
        /\ pc # "down" => file[at].upto > 0
        /\ file[at].upto = 0 => zeroFirst

\* The frames lie before the place, but for such a header
FramesBefore(at, off) ==
    /\ \A p \in DOMAIN file : p < at => End(p) <= at
    /\ \A p \in DOMAIN file : p <= at
    /\ Leftover(at, off)

\* The number of the next record
NextNumber == Len(written) + faults + 1

\* A record whose append failed keeps a frame before the place, or a frame has no data
Stuck(at) ==
    \/ zeroFirst
    \/ \E p \in Before(at) :
           file[p].record \notin ToSet(written) /\ file[p].record.number < NextNumber

\* The reader reads m frames before the place
Reads(m, at) ==
    \A k \in 0..m - 1 :
        /\ Reading[k].status = "reading"
        /\ Aligned(Reading[k]).bytesRead \in Before(at)

\* It stands before the next frame
ReaderAt(r, at, off) ==
    /\ r.status = "reading"
    /\ Aligned(r).bytesRead = NextByte(at, off)
    /\ Aligned(r).blockOffset = NextOffset(off)
    /\ r.records = written

\* The bytes of the record that are in frames
Reached == IF pc = "append" THEN record.size - remaining ELSE 0

\* It holds nothing
Clean(r) == r.assembled = <<>> /\ ~r.inFragmented

\* It holds fragments
Holding(r) == r.assembled # <<>> /\ r.inFragmented

\* They are the first bytes of the record that is appended, so many
Follows(r, reached) ==
    /\ r.assembled[1].from = 0
    /\ r.assembled[Len(r.assembled)].upto = reached
    /\ \A i \in DOMAIN r.assembled : r.assembled[i].record = record
    /\ \A i \in 1..Len(r.assembled) - 1 : r.assembled[i].upto = r.assembled[i + 1].from

Following(r) == Follows(r, Reached)

\* The process has ended between two frames of a record
Half(r) == pc = "down" /\ \E i \in DOMAIN r.assembled : r.assembled[i].upto > 0

InStep(r, at) ==
    \/ Reached = 0 /\ Clean(r)
    \/ Reached > 0 /\ Holding(r) /\ Following(r)
    \/ Holding(r) /\ Stuck(at)
    \/ Holding(r) /\ Half(r)

ReaderIn(at, off) ==
    \E m \in 0..Cardinality(Before(at)) :
        /\ Reads(m, at)
        /\ \/ Reading[m].status = "error" /\ Stuck(at)
           \/ ReaderAt(Reading[m], at, off) /\ InStep(Reading[m], at)

Place(at, off) == InBlock(at, off) /\ FramesBefore(at, off) /\ ReaderIn(at, off)

FramesKept ==
    /\ SegmentKeepsItsLength
    /\ \A i \in DOMAIN written : written[i].size > 0 /\ written[i].number < NextNumber

WriterStands ==
    pc # "down" =>
        /\ Place(currentSegmentBytes, currentBlockOffset)
        /\ currentRecordCount = Len(written)
        /\ Reached > 0 => \E p \in Before(currentSegmentBytes) : file[p].record = record

\* The rest of the record fits into the segment
RestFits ==
    /\ pc = "append" =>
          /\ record.number = NextNumber
          /\ remaining > 0
          /\ currentSegmentBytes + FramedSize(currentBlockOffset, remaining) <= MaxSegmentBytes
    /\ pc # "append" => remaining = 0

WriterStood == pc = "down" => \E at \in Nat, off \in 0..BlockSize : Place(at, off)

FramesInv == Typed /\ FramesKept /\ WriterStands /\ RestFits /\ WriterStood
-----------------------------------------------------------------------------
(* The reader's turns *)

Readers ==
    [bytesRead : Nat, blockOffset : 0..BlockSize - 1, assembled : Seq(Frames),
     inFragmented : BOOLEAN, records : Seq(Records), status : {"reading", "eof", "error"}]

FileTyped == DOMAIN file \in SUBSET Nat /\ file \in [DOMAIN file -> Frames]

LEMMA ModIs ==
    ASSUME NEW n \in Nat \ {0}, NEW i \in 0..n
    PROVE  i % n = IF i = n THEN 0 ELSE i
OBVIOUS

LEMMA AlignedIs ==
    ASSUME WalFramesAssumption, NEW r \in Readers
    PROVE  /\ Aligned(r) \in Readers
           /\ Aligned(r).bytesRead = r.bytesRead + PaddingAt(r.blockOffset)
           /\ Aligned(r).blockOffset = IF PaddingAt(r.blockOffset) = 0 THEN r.blockOffset ELSE 0
           /\ Aligned(r).assembled = r.assembled
           /\ Aligned(r).inFragmented = r.inFragmented
           /\ Aligned(r).records = r.records
           /\ Aligned(r).status = r.status
           /\ PaddingAt(r.blockOffset) \in Nat
<1>1. PaddingAt(r.blockOffset) \in Nat
    BY DEF PaddingAt, Readers, WalFramesAssumption
<1>2. CASE PaddingAt(r.blockOffset) = 0
    BY <1>1, <1>2 DEF Aligned, Readers
<1>3. CASE PaddingAt(r.blockOffset) # 0
    <2>1. Aligned(r) = [r EXCEPT !.bytesRead = @ + PaddingAt(r.blockOffset), !.blockOffset = 0]
        BY <1>3 DEF Aligned
    <2>2. 0 \in 0..BlockSize - 1
        BY DEF WalFramesAssumption
    <2>3. PICK bytes \in Nat : bytes = r.bytesRead + PaddingAt(r.blockOffset)
        BY <1>1 DEF Readers
    <2>4. Aligned(r) = [r EXCEPT !.bytesRead = bytes, !.blockOffset = 0]
        BY <2>1, <2>3
    <2> QED BY <1>1, <1>3, <2>2, <2>3, <2>4 DEF Readers
<1> QED BY <1>2, <1>3

LEMMA FailedIs ==
    ASSUME NEW r \in Readers
    PROVE  /\ Failed(r) \in Readers /\ Failed(r).status = "error"
           /\ Failed(r).bytesRead = r.bytesRead
BY DEF Failed, Readers

LEMMA AtEndIs ==
    ASSUME NEW r \in Readers
    PROVE  /\ AtEnd(r) \in Readers
           /\ AtEnd(r).status = IF \E i \in DOMAIN r.assembled : r.assembled[i].upto > 0
                                THEN "error" ELSE "eof"
           /\ AtEnd(r).bytesRead = r.bytesRead
           /\ AtEnd(r).blockOffset = r.blockOffset
           /\ AtEnd(r).records = r.records
<1> DEFINE b == \E i \in DOMAIN r.assembled : r.assembled[i].upto > 0
<1>1. AtEnd(r) = [r EXCEPT !.status = IF b THEN "error" ELSE "eof"]
    BY DEF AtEnd
<1> HIDE DEF b
<1>2. /\ AtEnd(r) \in Readers
      /\ AtEnd(r).status = IF b THEN "error" ELSE "eof"
      /\ AtEnd(r).bytesRead = r.bytesRead
      /\ AtEnd(r).blockOffset = r.blockOffset
      /\ AtEnd(r).records = r.records
    BY <1>1 DEF Readers
<1> QED BY <1>2 DEF b

LEMMA CompletedIs ==
    ASSUME NEW r \in Readers, NEW fragments \in Seq(Frames), fragments # <<>>
    PROVE  /\ Completed(r, fragments) \in Readers
           /\ ~Whole(fragments) => Completed(r, fragments).status = "error"
           /\ Whole(fragments) =>
                  /\ Completed(r, fragments).status = r.status
                  /\ Completed(r, fragments).bytesRead = r.bytesRead
                  /\ Completed(r, fragments).blockOffset = r.blockOffset
                  /\ Completed(r, fragments).records = Append(r.records, fragments[1].record)
                  /\ Completed(r, fragments).assembled = <<>>
                  /\ ~Completed(r, fragments).inFragmented
<1>1. fragments[1].record \in Records
    BY DEF Frames
<1>2. CASE ~Whole(fragments)
    BY <1>2, FailedIs DEF Completed
<1>3. CASE Whole(fragments)
    <2>1. Completed(r, fragments) =
              [r EXCEPT !.records = Append(@, fragments[1].record),
                        !.assembled = <<>>, !.inFragmented = FALSE]
        BY <1>3 DEF Completed
    <2>2. PICK rec \in Records : rec = fragments[1].record
        BY <1>1
    <2>3. <<>> \in Seq(Frames) /\ Append(r.records, rec) \in Seq(Records)
        BY DEF Readers
    <2> QED BY <1>3, <2>1, <2>2, <2>3 DEF Readers
<1> QED BY <1>2, <1>3

LEMMA TakenIs ==
    ASSUME NEW r \in Readers, NEW f \in Frames
    PROVE  Taken(r, f) \in Readers
<1>1. <<f>> \in Seq(Frames) /\ <<f>> # <<>>
    OBVIOUS
<1>2. Append(r.assembled, f) \in Seq(Frames) /\ Append(r.assembled, f) # <<>>
    BY DEF Readers
<1>3. Completed(r, <<f>>) \in Readers /\ Completed(r, Append(r.assembled, f)) \in Readers
    BY <1>1, <1>2, CompletedIs
<1>4. Failed(r) \in Readers
    BY FailedIs
<1>5. [r EXCEPT !.assembled = <<f>>, !.inFragmented = TRUE] \in Readers
    BY <1>1 DEF Readers
<1>6. [r EXCEPT !.assembled = Append(@, f)] \in Readers
    BY <1>2 DEF Readers
<1>7. f.type \in {"full", "first", "middle", "last"}
    BY DEF Frames
<1> QED BY <1>3, <1>4, <1>5, <1>6, <1>7 DEF Taken

\* What a turn makes of a reader: the end of the frames, an error, or the next frame
LEMMA ReadFrameIs ==
    ASSUME WalFramesAssumption, FileTyped, NEW reader \in Readers
    PROVE  LET r == Aligned(reader)
               f == file[r.bytesRead]
               after == FrameHeaderSize + f.upto - f.from
               passed == [r EXCEPT !.bytesRead = @ + after,
                                   !.blockOffset = (@ + after) % BlockSize]
           IN  /\ ReadFrame(reader) \in Readers
               /\ reader.status # "reading" => ReadFrame(reader) = reader
               /\ reader.status = "reading" /\ r.bytesRead \notin DOMAIN file =>
                      ReadFrame(reader) = AtEnd(r)
               /\ reader.status = "reading" /\ r.bytesRead \in DOMAIN file =>
                      /\ after \in Nat /\ f \in Frames
                      /\ passed \in Readers
                      /\ r.blockOffset + after > BlockSize => ReadFrame(reader).status = "error"
                      /\ r.blockOffset + after <= BlockSize =>
                             ReadFrame(reader) = Taken(passed, f)
<1> DEFINE r == Aligned(reader)
           f == file[r.bytesRead]
           after == FrameHeaderSize + f.upto - f.from
           passed == [r EXCEPT !.bytesRead = @ + after,
                               !.blockOffset = (@ + after) % BlockSize]
<1>1. r \in Readers
    BY AlignedIs
<1>2. ASSUME r.bytesRead \in DOMAIN file
      PROVE  after \in Nat /\ f \in Frames /\ passed \in Readers
    <2>1. f \in Frames
        BY <1>2 DEF FileTyped
    <2>2. f.upto \in Nat /\ f.from \in Nat /\ f.from <= f.upto
        BY <2>1 DEF Frames
    <2>3. after \in Nat
        BY <2>2 DEF WalFramesAssumption
    <2>4. r.bytesRead + after \in Nat /\ r.blockOffset + after \in Nat
        BY <1>1, <2>3, SMTT(20) DEF Readers
    <2>5. (r.blockOffset + after) % BlockSize \in 0..BlockSize - 1
        BY <2>4 DEF WalFramesAssumption
    <2> HIDE DEF after, r, f
    <2> QED BY <1>1, <2>1, <2>3, <2>4, <2>5 DEF Readers
<1>3. reader.status # "reading" => ReadFrame(reader) = reader
    BY DEF ReadFrame
<1>4. reader.status = "reading" /\ r.bytesRead \notin DOMAIN file => ReadFrame(reader) = AtEnd(r)
    BY DEF ReadFrame
<1>5. reader.status = "reading" /\ r.bytesRead \in DOMAIN file =>
          ReadFrame(reader) = IF r.blockOffset + after > BlockSize THEN Failed(r)
                              ELSE Taken(passed, f)
    BY DEF ReadFrame
<1> HIDE DEF r, f, after, passed
<1>6. Failed(r) \in Readers /\ Failed(r).status = "error" /\ AtEnd(r) \in Readers
    BY <1>1, FailedIs, AtEndIs
<1>7. r.bytesRead \in DOMAIN file => Taken(passed, f) \in Readers
    BY <1>2, TakenIs
<1>8. after \in Nat /\ r.blockOffset \in Nat => (r.blockOffset + after > BlockSize <=>
          ~(r.blockOffset + after <= BlockSize))
    BY DEF WalFramesAssumption
<1>9. r.blockOffset \in Nat
    BY <1>1 DEF Readers
<1>10. /\ ReadFrame(reader) \in Readers
       /\ reader.status # "reading" => ReadFrame(reader) = reader
       /\ reader.status = "reading" /\ r.bytesRead \notin DOMAIN file =>
              ReadFrame(reader) = AtEnd(r)
       /\ reader.status = "reading" /\ r.bytesRead \in DOMAIN file =>
              /\ after \in Nat /\ f \in Frames
              /\ passed \in Readers
              /\ r.blockOffset + after > BlockSize => ReadFrame(reader).status = "error"
              /\ r.blockOffset + after <= BlockSize => ReadFrame(reader) = Taken(passed, f)
    BY <1>2, <1>3, <1>4, <1>5, <1>6, <1>7, <1>8, <1>9
<1> QED BY <1>10 DEF r, f, after, passed

LEMMA ReadFrameEnds ==
    ASSUME WalFramesAssumption, FileTyped, NEW reader \in Readers,
           reader.status = "reading", Aligned(reader).bytesRead \notin DOMAIN file
    PROVE  ReadFrame(reader) = AtEnd(Aligned(reader))
BY DEF ReadFrame

LEMMA ReadFrameTakes ==
    ASSUME WalFramesAssumption, FileTyped, NEW reader \in Readers, NEW p \in DOMAIN file,
           reader.status = "reading", Aligned(reader).bytesRead = p
    PROVE  \/ /\ Aligned(reader).blockOffset + (End(p) - p) > BlockSize
              /\ ReadFrame(reader).status = "error"
           \/ \E r \in Readers :
                  /\ Aligned(reader).blockOffset + (End(p) - p) <= BlockSize
                  /\ r.bytesRead = End(p)
                  /\ r.blockOffset = (Aligned(reader).blockOffset + (End(p) - p)) % BlockSize
                  /\ r.assembled = reader.assembled
                  /\ r.inFragmented = reader.inFragmented
                  /\ r.records = reader.records
                  /\ r.status = "reading"
                  /\ ReadFrame(reader) = Taken(r, file[p])
<1> DEFINE a == Aligned(reader)
           f == file[p]
           after == FrameHeaderSize + f.upto - f.from
           passed == [a EXCEPT !.bytesRead = @ + after,
                               !.blockOffset = (@ + after) % BlockSize]
<1>1. /\ a \in Readers /\ a.bytesRead = p /\ a.status = "reading"
      /\ a.assembled = reader.assembled /\ a.inFragmented = reader.inFragmented
      /\ a.records = reader.records
    BY AlignedIs
<1>2. /\ after \in Nat /\ passed \in Readers
      /\ a.blockOffset + after > BlockSize => ReadFrame(reader).status = "error"
      /\ a.blockOffset + after <= BlockSize => ReadFrame(reader) = Taken(passed, f)
    BY ReadFrameIs
<1>3. End(p) - p = after /\ End(p) = p + after
    <2>1. p \in Nat /\ f \in Frames
        BY DEF FileTyped
    <2>2. f.upto \in Nat /\ f.from \in Nat
        BY <2>1 DEF Frames
    <2> QED BY <2>1, <2>2 DEF End, WalFramesAssumption
<1>4. /\ passed.bytesRead = p + after
      /\ passed.blockOffset = (a.blockOffset + after) % BlockSize
      /\ passed.assembled = reader.assembled /\ passed.inFragmented = reader.inFragmented
      /\ passed.records = reader.records /\ passed.status = "reading"
    <2> HIDE DEF a, after
    <2> QED BY <1>1 DEF Readers
<1>5. a.blockOffset + after > BlockSize \/ a.blockOffset + after <= BlockSize
    <2>1. a.blockOffset \in Nat
        BY <1>1 DEF Readers
    <2> QED BY <1>2, <2>1 DEF WalFramesAssumption
<1> HIDE DEF passed, after, a, f
<1>6. CASE a.blockOffset + after > BlockSize
    BY <1>2, <1>3, <1>6 DEF a
<1>7. CASE a.blockOffset + after <= BlockSize
    BY <1>2, <1>3, <1>4, <1>7 DEF a, f
<1> QED BY <1>5, <1>6, <1>7

LEMMA ReadFrameTyped ==
    ASSUME WalFramesAssumption, FileTyped, NEW r \in Readers
    PROVE  ReadFrame(r) \in Readers
BY ReadFrameIs

LEMMA ReadingIs ==
    ASSUME WalFramesAssumption, FileTyped
    PROVE  /\ Reading[0] = ReaderAtStart
           /\ \A n \in Nat : Reading[n] \in Readers /\ Reading[n + 1] = ReadFrame(Reading[n])
<1> DEFINE step == [r \in Readers |-> ReadFrame(r)]
<1>1. step \in [Readers -> Readers]
    BY ReadFrameTyped
<1>2. ReaderAtStart \in Readers
    BY DEF ReaderAtStart, Readers, WalFramesAssumption
<1>3. \A r \in Readers : step[r] = ReadFrame(r)
    OBVIOUS
<1> HIDE DEF step
<1>4. PICK f \in [Nat -> Readers] :
          f[0] = ReaderAtStart /\ \A n \in Nat : f[n + 1] = step[f[n]]
    BY <1>1, <1>2, IterateExists
<1>5. f = [n \in Nat |-> IF n = 0 THEN ReaderAtStart ELSE ReadFrame(f[n - 1])]
    <2>1. ASSUME NEW n \in Nat, n # 0
          PROVE  f[n] = ReadFrame(f[n - 1])
        <3>1. n - 1 \in Nat /\ n - 1 + 1 = n
            BY <2>1
        <3>2. f[n - 1 + 1] = step[f[n - 1]]
            BY <1>4, <3>1
        <3> QED BY <1>3, <3>1, <3>2
    <2> DEFINE g == [n \in Nat |-> IF n = 0 THEN ReaderAtStart ELSE ReadFrame(f[n - 1])]
    <2>2. \A n \in Nat : f[n] = g[n]
        BY <1>4, <2>1
    <2> QED BY <2>2
<1>6. Reading = [n \in Nat |-> IF n = 0 THEN ReaderAtStart ELSE ReadFrame(Reading[n - 1])]
    BY <1>5 DEF Reading
<1> DEFINE bad == {n \in Nat : Reading[n] # f[n]}
<1>7. bad = {}
    <2>1. SUFFICES ASSUME bad # {}
                   PROVE  FALSE
        OBVIOUS
    <2>2. PICK n \in bad : \A m \in bad : n <= m
        BY <2>1, LeastElement
    <2>3. n # 0
        BY <1>4, <1>6, <2>2
    <2>4. n - 1 \in Nat /\ n - 1 \notin bad
        BY <2>2, <2>3
    <2>5. f[n] = ReadFrame(f[n - 1])
        BY <1>5, <2>3
    <2>6. Reading[n] = ReadFrame(Reading[n - 1])
        BY <1>6, <2>3
    <2> QED BY <2>2, <2>4, <2>5, <2>6
<1>8. ASSUME NEW n \in Nat
      PROVE  Reading[n] \in Readers /\ Reading[n + 1] = ReadFrame(Reading[n])
    <2>1. Reading[n] = f[n]
        BY <1>7
    <2>2. n + 1 \in Nat /\ n + 1 # 0 /\ n + 1 - 1 = n
        OBVIOUS
    <2>3. Reading[n + 1] = ReadFrame(Reading[n + 1 - 1])
        BY <1>6, <2>2
    <2> QED BY <1>4, <2>1, <2>2, <2>3
<1>9. Reading[0] = ReaderAtStart
    BY <1>6
<1> QED BY <1>8, <1>9

-----------------------------------------------------------------------------
(* The size of a record in frames *)

FrameAfter(off, n) == Smaller(BlockSize - NextOffset(off) - FrameHeaderSize, n)

\* From a place on, the bytes a frame takes, and the block offset after it
FrameBytes(off, n) ==
    (IF BlockSize - off < FrameHeaderSize THEN BlockSize - off ELSE 0)
        + FrameHeaderSize + FrameAfter(off, n)
OffsetAfter(off, n) == (NextOffset(off) + FrameHeaderSize + FrameAfter(off, n)) % BlockSize

\* A record gets shorter with every frame, but for one that fills a block with its header
Measure(off, n) == 2 * n + (IF off = 0 THEN 0 ELSE 1)

LEMMA FrameAfterIs ==
    ASSUME WalFramesAssumption, NEW off \in 0..BlockSize, NEW n \in Nat \ {0}
    PROVE  /\ NextOffset(off) \in 0..BlockSize - FrameHeaderSize
           /\ FrameAfter(off, n) \in 0..n /\ n - FrameAfter(off, n) \in Nat
           /\ NextOffset(off) + FrameHeaderSize + FrameAfter(off, n) \in 1..BlockSize
           /\ FrameBytes(off, n) \in Nat
           /\ OffsetAfter(off, n) \in 0..BlockSize - 1
           /\ OffsetAfter(off, n) =
                  IF NextOffset(off) + FrameHeaderSize + FrameAfter(off, n) = BlockSize THEN 0
                  ELSE NextOffset(off) + FrameHeaderSize + FrameAfter(off, n)
           /\ FrameAfter(off, n) < n =>
                  NextOffset(off) + FrameHeaderSize + FrameAfter(off, n) = BlockSize
           /\ FrameAfter(off, n) = 0 => off # 0
           /\ Measure(OffsetAfter(off, n), n - FrameAfter(off, n)) < Measure(off, n)
           /\ Measure(off, n) \in Nat
           /\ Measure(OffsetAfter(off, n), n - FrameAfter(off, n)) \in Nat
<1> DEFINE start == NextOffset(off)
           chunk == FrameAfter(off, n)
           end == start + FrameHeaderSize + chunk
<1>1. start \in 0..BlockSize - FrameHeaderSize
    BY DEF NextOffset, WalFramesAssumption
<1>2. /\ chunk \in 0..n /\ end \in 1..BlockSize
      /\ chunk < n => end = BlockSize
      /\ chunk = 0 => off # 0
    BY <1>1 DEF FrameAfter, Smaller, WalFramesAssumption, NextOffset
<1>3. end % BlockSize = IF end = BlockSize THEN 0 ELSE end
    BY <1>2, ModIs DEF WalFramesAssumption
<1>4. OffsetAfter(off, n) = end % BlockSize
    BY DEF OffsetAfter
<1>5. OffsetAfter(off, n) \in 0..BlockSize - 1
    BY <1>2, <1>3, <1>4 DEF WalFramesAssumption
<1>6. FrameBytes(off, n) \in Nat
    BY <1>2 DEF FrameBytes, WalFramesAssumption
<1> HIDE DEF start, chunk, end
<1>7. /\ Measure(OffsetAfter(off, n), n - chunk) < Measure(off, n) /\ Measure(off, n) \in Nat
      /\ Measure(OffsetAfter(off, n), n - chunk) \in Nat
    <2>1. CASE chunk = 0
        BY <1>2, <1>3, <1>4, <2>1 DEF Measure
    <2>2. CASE chunk # 0
        BY <1>2, <1>5, <2>2 DEF Measure
    <2> QED BY <2>1, <2>2
<1> QED BY <1>1, <1>2, <1>3, <1>4, <1>5, <1>6, <1>7 DEF start, chunk, end

Pairs == (0..BlockSize) \X Nat

\* One more turn of the loop of framedSize
Unfolded(f) ==
    [p \in Pairs |->
        IF p[2] = 0 THEN 0
        ELSE FrameBytes(p[1], p[2])
                + f[<<OffsetAfter(p[1], p[2]), p[2] - FrameAfter(p[1], p[2])>>]]

LEMMA UnfoldedTyped ==
    ASSUME WalFramesAssumption, NEW f \in [Pairs -> Nat]
    PROVE  Unfolded(f) \in [Pairs -> Nat]
<1>1. ASSUME NEW p \in Pairs
      PROVE  Unfolded(f)[p] \in Nat
    <2>1. p[1] \in 0..BlockSize /\ p[2] \in Nat
        BY DEF Pairs
    <2>2. CASE p[2] = 0
        BY <2>2 DEF Unfolded
    <2>3. CASE p[2] # 0
        <3> DEFINE q == <<OffsetAfter(p[1], p[2]), p[2] - FrameAfter(p[1], p[2])>>
        <3>0. PICK off \in 0..BlockSize, n \in Nat \ {0} : off = p[1] /\ n = p[2]
            BY <2>1, <2>3
        <3>1. /\ OffsetAfter(off, n) \in 0..BlockSize - 1
              /\ n - FrameAfter(off, n) \in Nat
              /\ FrameBytes(off, n) \in Nat
            BY FrameAfterIs
        <3>2. q \in Pairs
            BY <3>0, <3>1 DEF Pairs, WalFramesAssumption
        <3>3. f[q] \in Nat
            BY <3>2
        <3>4. Unfolded(f)[p] = FrameBytes(p[1], p[2]) + f[q]
            BY <2>3 DEF Unfolded
        <3> QED BY <3>0, <3>1, <3>3, <3>4
    <2> QED BY <2>2, <2>3
<1>2. Unfolded(f) = [p \in Pairs |-> Unfolded(f)[p]]
    BY DEF Unfolded
<1> QED BY <1>1, <1>2

\* The loop ends: some function has the values that framedSize computes
LEMMA FramedExists ==
    ASSUME WalFramesAssumption
    PROVE  \E f \in [Pairs -> Nat] : f = Unfolded(f)
<1> DEFINE Tables == [Pairs -> Nat]
           next == [f \in Tables |-> Unfolded(f)]
           zero == [p \in Pairs |-> 0]
           M(p) == Measure(p[1], p[2])
           after(p) == <<OffsetAfter(p[1], p[2]), p[2] - FrameAfter(p[1], p[2])>>
<1>1. next \in [Tables -> Tables] /\ zero \in Tables /\ \A f \in Tables : next[f] = Unfolded(f)
    BY UnfoldedTyped
<1> HIDE DEF next, zero, Tables
<1>2. PICK it \in [Nat -> Tables] : it[0] = zero /\ \A n \in Nat : it[n + 1] = next[it[n]]
    <2>1. next \in [Tables -> Tables] /\ zero \in Tables
        BY <1>1
    <2> QED BY <2>1, IterateExists
<1>3. ASSUME NEW p \in Pairs, p[2] # 0
      PROVE  /\ after(p) \in Pairs
             /\ M(after(p)) < M(p) /\ M(p) \in Nat /\ M(after(p)) \in Nat
             /\ FrameBytes(p[1], p[2]) \in Nat
    <2>0. p[1] \in 0..BlockSize /\ p[2] \in Nat \ {0}
        BY <1>3 DEF Pairs
    <2>1. PICK off \in 0..BlockSize, n \in Nat \ {0} : off = p[1] /\ n = p[2]
        BY <2>0
    <2>4. /\ OffsetAfter(off, n) \in 0..BlockSize - 1
          /\ n - FrameAfter(off, n) \in Nat
          /\ FrameBytes(off, n) \in Nat
          /\ Measure(OffsetAfter(off, n), n - FrameAfter(off, n)) < Measure(off, n)
          /\ Measure(off, n) \in Nat
        BY FrameAfterIs
    <2>2. /\ OffsetAfter(p[1], p[2]) \in 0..BlockSize - 1
          /\ p[2] - FrameAfter(p[1], p[2]) \in Nat
          /\ FrameBytes(p[1], p[2]) \in Nat
          /\ Measure(OffsetAfter(p[1], p[2]), p[2] - FrameAfter(p[1], p[2]))
                 < Measure(p[1], p[2])
          /\ Measure(p[1], p[2]) \in Nat
        BY <2>1, <2>4
    <2>3. Measure(OffsetAfter(p[1], p[2]), p[2] - FrameAfter(p[1], p[2])) \in Nat
        BY <2>2 DEF Measure
    <2> QED BY <2>2, <2>3 DEF Pairs
<1>4. ASSUME NEW p \in Pairs, NEW n \in Nat
      PROVE  it[n + 1][p] = IF p[2] = 0 THEN 0
                            ELSE FrameBytes(p[1], p[2]) + it[n][after(p)]
    <2>1. it[n] \in Tables /\ it[n + 1] = Unfolded(it[n])
        BY <1>1, <1>2
    <2> QED BY <2>1 DEF Unfolded, Tables
<1>5. \A p \in Pairs : M(p) \in Nat
    BY DEF Pairs, Measure
<1> HIDE DEF M, after
<1> DEFINE settled(k) == \A p \in Pairs : M(p) < k => it[k][p] = it[M(p) + 1][p]
           bad == {k \in Nat : ~settled(k)}
<1>6. bad = {}
    <2>1. SUFFICES ASSUME bad # {}
                   PROVE  FALSE
        OBVIOUS
    <2>2. PICK k \in bad : \A l \in bad : k <= l
        BY <2>1, LeastElement
    <2>3. PICK p \in Pairs : M(p) < k /\ it[k][p] # it[M(p) + 1][p]
        BY <2>2
    <2>4. M(p) \in Nat /\ k - 1 \in Nat /\ k - 1 + 1 = k /\ M(p) < k - 1
        BY <1>5, <2>3
    <2>5. p[2] # 0
        BY <1>4, <2>3, <2>4
    <2>6. /\ it[k][p] = FrameBytes(p[1], p[2]) + it[k - 1][after(p)]
          /\ it[M(p) + 1][p] = FrameBytes(p[1], p[2]) + it[M(p)][after(p)]
        <3>1. it[k - 1 + 1][p] = FrameBytes(p[1], p[2]) + it[k - 1][after(p)]
            BY <1>4, <2>4, <2>5
        <3> QED BY <1>4, <2>4, <2>5, <3>1
    <2>7. settled(k - 1) /\ settled(M(p))
        <3>1. k - 1 \notin bad /\ M(p) \notin bad
            BY <2>2, <2>4
        <3> QED BY <2>4, <3>1
    <2>8. after(p) \in Pairs /\ M(after(p)) < M(p) /\ M(after(p)) \in Nat
        BY <1>3, <2>5
    <2>9. M(after(p)) < k - 1
        BY <2>4, <2>8
    <2>10. /\ it[k - 1][after(p)] = it[M(after(p)) + 1][after(p)]
           /\ it[M(p)][after(p)] = it[M(after(p)) + 1][after(p)]
        BY <2>7, <2>8, <2>9
    <2> QED BY <2>3, <2>6, <2>10
<1> DEFINE f == [p \in Pairs |-> it[M(p) + 1][p]]
<1>7. ASSUME NEW p \in Pairs
      PROVE  f[p] \in Nat
    <2>1. M(p) + 1 \in Nat
        BY <1>5
    <2> QED BY <2>1, <1>2 DEF Tables
<1>8. ASSUME NEW p \in Pairs
      PROVE  f[p] = Unfolded(f)[p]
    <2>1. CASE p[2] = 0
        <3>1. M(p) \in Nat
            BY <1>5
        <3> QED BY <1>4, <2>1, <3>1 DEF Unfolded
    <2>2. CASE p[2] # 0
        <3>1. after(p) \in Pairs /\ M(after(p)) < M(p) /\ M(p) \in Nat /\ M(after(p)) \in Nat
            BY <1>3, <2>2
        <3>2. it[M(p) + 1][p] = FrameBytes(p[1], p[2]) + it[M(p)][after(p)]
            BY <1>4, <2>2, <3>1
        <3>3. settled(M(p))
            BY <1>6, <3>1
        <3>4. it[M(p)][after(p)] = f[after(p)]
            BY <3>1, <3>3
        <3>5. Unfolded(f)[p] = FrameBytes(p[1], p[2]) + f[after(p)]
            BY <2>2 DEF Unfolded, after
        <3> QED BY <3>2, <3>4, <3>5
    <2> QED BY <2>1, <2>2
<1>9. f \in [Pairs -> Nat]
    BY <1>7
<1>10. f = Unfolded(f)
    <2>1. Unfolded(f) = [p \in Pairs |-> Unfolded(f)[p]]
        BY DEF Unfolded
    <2> QED BY <1>8, <2>1
<1> QED BY <1>9, <1>10

\* FramedSize counts frame by frame
LEMMA FramedSizeIs ==
    ASSUME WalFramesAssumption, NEW off \in 0..BlockSize, NEW n \in Nat
    PROVE  /\ FramedSize(off, n) \in Nat
           /\ n = 0 => FramedSize(off, n) = 0
           /\ n > 0 => FramedSize(off, n) =
                  FrameBytes(off, n) + FramedSize(OffsetAfter(off, n), n - FrameAfter(off, n))
<1>1. PICK g \in [Pairs -> Nat] : g = Unfolded(g)
    BY FramedExists
<1>2. framed = Unfolded(framed)
    BY <1>1, ZenonT(30) DEF framed, Unfolded, Pairs, FrameBytes, OffsetAfter, FrameAfter, NextOffset
<1> DEFINE M(p) == Measure(p[1], p[2])
           bad(k) == \E p \in Pairs : M(p) = k /\ framed[p] \notin Nat
<1>3. \A p \in Pairs : framed[p] \in Nat
    <2>1. SUFFICES ASSUME NEW p \in Pairs, framed[p] \notin Nat
                   PROVE  FALSE
        OBVIOUS
    <2>2. \A q \in Pairs : M(q) \in Nat
        BY DEF Pairs, Measure
    <2>3. PICK k \in Nat : bad(k) /\ \A l \in Nat : bad(l) => k <= l
        <3> DEFINE S == {k \in Nat : bad(k)}
        <3>1. S \in SUBSET Nat /\ S # {}
            BY <2>1, <2>2
        <3>2. PICK k \in S : \A l \in S : k <= l
            BY <3>1, LeastElement
        <3> QED BY <3>2
    <2>4. PICK q \in Pairs : M(q) = k /\ framed[q] \notin Nat
        BY <2>3
    <2>5. PICK o \in 0..BlockSize, m \in Nat : q = <<o, m>>
        BY DEF Pairs
    <2>6. framed[q] = IF m = 0 THEN 0
                      ELSE FrameBytes(o, m) + framed[<<OffsetAfter(o, m), m - FrameAfter(o, m)>>]
        BY <1>2, <2>5 DEF Unfolded
    <2>7. m # 0
        BY <2>4, <2>6
    <2>8. /\ OffsetAfter(o, m) \in 0..BlockSize - 1 /\ m - FrameAfter(o, m) \in Nat
          /\ FrameBytes(o, m) \in Nat
          /\ Measure(OffsetAfter(o, m), m - FrameAfter(o, m)) < Measure(o, m)
          /\ Measure(OffsetAfter(o, m), m - FrameAfter(o, m)) \in Nat
        BY <2>7, FrameAfterIs
    <2> DEFINE next == <<OffsetAfter(o, m), m - FrameAfter(o, m)>>
    <2>9. next \in Pairs
        BY <2>8 DEF Pairs, WalFramesAssumption
    <2>10. M(next) < k /\ M(next) \in Nat
        BY <2>4, <2>5, <2>8
    <2>11. framed[next] \in Nat
        BY <2>3, <2>9, <2>10
    <2> QED BY <2>4, <2>6, <2>7, <2>8, <2>11
<1>4. <<off, n>> \in Pairs
    BY DEF Pairs
<1>5. framed[<<off, n>>] = IF n = 0 THEN 0
          ELSE FrameBytes(off, n) + framed[<<OffsetAfter(off, n), n - FrameAfter(off, n)>>]
    BY <1>2, <1>4 DEF Unfolded
<1> QED BY <1>3, <1>4, <1>5 DEF FramedSize

-----------------------------------------------------------------------------
(* Places *)

LEMMA NextIs ==
    ASSUME WalFramesAssumption, NEW at \in Nat, NEW off \in 0..BlockSize
    PROVE  /\ NextByte(at, off) \in Nat /\ at <= NextByte(at, off)
           /\ NextOffset(off) \in 0..BlockSize - 1
           /\ NextOffset(off) \in 0..BlockSize
           /\ NextOffset(NextOffset(off)) = NextOffset(off)
           /\ NextByte(NextByte(at, off), NextOffset(off)) = NextByte(at, off)
           /\ NextOffset(off) = off => NextByte(at, off) = at
           /\ InBlock(at, off) => InBlock(NextByte(at, off), NextOffset(off))
<1>1. CASE BlockSize - off < FrameHeaderSize
    <2>1. NextOffset(off) = 0 /\ NextByte(at, off) = at + (BlockSize - off)
        BY <1>1 DEF NextOffset, NextByte
    <2>2. \A b \in Nat : NextByte(b, 0) = b /\ NextOffset(0) = 0
        BY DEF NextOffset, NextByte, WalFramesAssumption
    <2>3. InBlock(at, off) => InBlock(NextByte(at, off), NextOffset(off))
        <3>1. SUFFICES ASSUME NEW block \in Nat, at = BlockSize * block + off
                       PROVE  InBlock(NextByte(at, off), NextOffset(off))
            BY DEF InBlock
        <3>2. PICK begin \in Nat : begin = BlockSize * block
            BY DEF WalFramesAssumption
        <3>3. begin + BlockSize = BlockSize * (block + 1)
            BY <3>2 DEF WalFramesAssumption
        <3>4. NextByte(at, off) = begin + BlockSize
            BY <2>1, <3>1, <3>2 DEF WalFramesAssumption
        <3>5. PICK next \in Nat : next = block + 1
            OBVIOUS
        <3>6. NextByte(at, off) = BlockSize * next + 0
            BY <3>2, <3>3, <3>4, <3>5 DEF WalFramesAssumption
        <3> QED BY <2>1, <3>6 DEF InBlock
    <2>4. off # 0 /\ NextByte(at, off) \in Nat /\ at <= NextByte(at, off)
        BY <1>1, <2>1 DEF WalFramesAssumption
    <2> QED BY <2>1, <2>2, <2>3, <2>4 DEF WalFramesAssumption
<1>2. CASE ~(BlockSize - off < FrameHeaderSize)
    <2>1. NextOffset(off) = off /\ NextByte(at, off) = at
        BY <1>2 DEF NextOffset, NextByte
    <2> QED BY <1>2, <2>1 DEF WalFramesAssumption
<1> QED BY <1>1, <1>2

\* The reader skips the padding that the writer writes
LEMMA AlignedAt ==
    ASSUME WalFramesAssumption, NEW r \in Readers, NEW off \in 0..BlockSize,
           r.blockOffset = off % BlockSize
    PROVE  /\ Aligned(r).bytesRead = NextByte(r.bytesRead, off)
           /\ Aligned(r).blockOffset = NextOffset(off)
<1>1. r.blockOffset = IF off = BlockSize THEN 0 ELSE off
    BY ModIs DEF WalFramesAssumption
<1>2. r.bytesRead \in Nat
    BY DEF Readers
<1>3. CASE off = BlockSize
    BY <1>1, <1>2, <1>3, AlignedIs DEF PaddingAt, NextByte, NextOffset, WalFramesAssumption
<1>4. CASE off # BlockSize
    <2>1. r.blockOffset = off
        BY <1>1, <1>4
    <2>2. CASE off # 0 /\ BlockSize - off < FrameHeaderSize
        BY <1>2, <1>4, <2>1, <2>2, AlignedIs
           DEF PaddingAt, NextByte, NextOffset, WalFramesAssumption
    <2>3. CASE ~(off # 0 /\ BlockSize - off < FrameHeaderSize)
        <3>1. ~(BlockSize - off < FrameHeaderSize)
            BY <2>3 DEF WalFramesAssumption
        <3>2. PaddingAt(r.blockOffset) = 0
            BY <2>1, <3>1 DEF PaddingAt
        <3> QED BY <1>2, <2>1, <3>1, <3>2, AlignedIs DEF NextByte, NextOffset
    <2> QED BY <2>2, <2>3
<1> QED BY <1>3, <1>4

LEMMA FileIs == Typed => FileTyped
BY DEF Typed, FileTyped

LEMMA BeforeIs ==
    ASSUME Typed, NEW at \in Nat
    PROVE  /\ IsFiniteSet(Before(at)) /\ Cardinality(Before(at)) \in Nat
           /\ Cardinality(DOMAIN file) \in Nat
           /\ Cardinality(Before(at)) <= Cardinality(DOMAIN file)
           /\ \A b \in Nat : at <= b => /\ Before(at) \subseteq Before(b)
                                        /\ Cardinality(Before(at)) <= Cardinality(Before(b))
           /\ \A b \in Nat : at < b /\ at \in DOMAIN file =>
                  Cardinality(Before(at)) + 1 <= Cardinality(Before(b))
<1>1. IsFiniteSet(DOMAIN file) /\ DOMAIN file \in SUBSET Nat
    BY DEF Typed
<1>2. ASSUME NEW b \in Nat
      PROVE  /\ IsFiniteSet(Before(b)) /\ Cardinality(Before(b)) \in Nat
             /\ Cardinality(Before(b)) <= Cardinality(DOMAIN file)
    <2>1. Before(b) \in SUBSET DOMAIN file
        BY DEF Before
    <2> QED BY <1>1, <2>1, FS_Subset, FS_CardinalityType
<1>3. Cardinality(DOMAIN file) \in Nat
    BY <1>1, FS_CardinalityType
<1>4. ASSUME NEW b \in Nat, at <= b
      PROVE  /\ Before(at) \subseteq Before(b)
             /\ Cardinality(Before(at)) <= Cardinality(Before(b))
    <2>1. Before(at) \in SUBSET Before(b)
        BY <1>1, <1>4 DEF Before
    <2> QED BY <1>2, <2>1, FS_Subset
<1>5. ASSUME NEW b \in Nat, at < b, at \in DOMAIN file
      PROVE  Cardinality(Before(at)) + 1 <= Cardinality(Before(b))
    <2>1. Before(at) \cup {at} \in SUBSET Before(b)
        BY <1>1, <1>5 DEF Before
    <2>2. at \notin Before(at)
        BY DEF Before
    <2>3. /\ IsFiniteSet(Before(at) \cup {at})
          /\ Cardinality(Before(at) \cup {at}) = Cardinality(Before(at)) + 1
        BY <1>2, <2>2, FS_AddElement
    <2>4. Cardinality(Before(at) \cup {at}) <= Cardinality(Before(b))
        BY <1>2, <2>1, FS_Subset
    <2> QED BY <2>3, <2>4
<1> QED BY <1>2, <1>3, <1>4, <1>5

LEMMA StuckFurther ==
    ASSUME Typed, NEW at \in Nat, NEW b \in Nat, at <= b, Stuck(at)
    PROVE  Stuck(b)
BY BeforeIs DEF Stuck

LEMMA ReadsFurther ==
    ASSUME Typed, NEW at \in Nat, NEW b \in Nat, at <= b, NEW m \in Nat, Reads(m, at)
    PROVE  Reads(m, b)
BY BeforeIs DEF Reads

-----------------------------------------------------------------------------
(* How far the reader comes *)

\* A reader that has stopped stays where it is
LEMMA Stationary ==
    ASSUME WalFramesAssumption, FileTyped, NEW m \in Nat, NEW n \in Nat, m <= n,
           Reading[m].status # "reading"
    PROVE  Reading[n] = Reading[m]
<1>1. SUFFICES ASSUME Reading[n] # Reading[m]
               PROVE  FALSE
    OBVIOUS
<1> DEFINE bad == {k \in Nat : m <= k /\ Reading[k] # Reading[m]}
<1>2. PICK k \in bad : \A l \in bad : k <= l
    <2>1. bad \in SUBSET Nat /\ n \in bad
        BY <1>1
    <2> QED BY <2>1, LeastElement
<1>3. k # m /\ k \in Nat /\ m <= k
    BY <1>2
<1>4. k - 1 \in Nat /\ m <= k - 1 /\ k - 1 + 1 = k
    BY <1>3
<1>5. Reading[k - 1] = Reading[m]
    BY <1>2, <1>4
<1>6. Reading[k - 1 + 1] = ReadFrame(Reading[k - 1]) /\ Reading[k - 1] \in Readers
    BY <1>4, ReadingIs
<1>7. ReadFrame(Reading[k - 1]) = Reading[k - 1]
    BY <1>5, <1>6, ReadFrameIs
<1> QED BY <1>2, <1>4, <1>5, <1>6, <1>7

LEMMA ScannedIs ==
    ASSUME WalFramesAssumption, Typed, NEW m \in Nat, m <= Cardinality(DOMAIN file) + 1,
           Reading[m].status # "reading"
    PROVE  Scanned = Reading[m]
<1>1. Cardinality(DOMAIN file) + 1 \in Nat
    BY FS_CardinalityType DEF Typed
<1> QED BY <1>1, FileIs, Stationary DEF Scanned

Turns ==
    /\ Reading[0] = ReaderAtStart
    /\ \A n \in Nat, r \in Readers : r = Reading[n] => Reading[n + 1] = ReadFrame(r)

LEMMA ReadingTurns ==
    ASSUME WalFramesAssumption, FileTyped
    PROVE  Turns
BY ReadingIs DEF Turns

\* What a turn makes of the frame at a position
Takes ==
    \A reader \in Readers, p \in DOMAIN file :
        reader.status = "reading" /\ Aligned(reader).bytesRead = p =>
            \/ /\ Aligned(reader).blockOffset + (End(p) - p) > BlockSize
               /\ ReadFrame(reader).status = "error"
            \/ \E r \in Readers :
                   /\ Aligned(reader).blockOffset + (End(p) - p) <= BlockSize
                   /\ r.bytesRead = End(p)
                   /\ r.blockOffset = (Aligned(reader).blockOffset + (End(p) - p)) % BlockSize
                   /\ r.assembled = reader.assembled
                   /\ r.inFragmented = reader.inFragmented
                   /\ r.records = reader.records
                   /\ r.status = "reading"
                   /\ ReadFrame(reader) = Taken(r, file[p])

LEMMA ReadingTakes ==
    ASSUME WalFramesAssumption, FileTyped
    PROVE  Takes
BY ReadFrameTakes DEF Takes

\* What the reader has read does not change with the frames behind
LEMMA ReadsSame ==
    ASSUME WalFramesAssumption, FileTyped, FileTyped', NEW m \in Nat, NEW at \in Nat,
           Reads(m, at), \A p \in Before(at) : p \in DOMAIN file' /\ file'[p] = file[p]
    PROVE  /\ \A k \in 0..m : Reading'[k] = Reading[k]
           /\ Reads(m, at)'
<1>1. /\ Reading'[0] = ReaderAtStart
      /\ \A n \in Nat, r \in Readers : r = Reading'[n] => Reading'[n + 1] = ReadFrame(r)'
    <2>1. Turns'
        BY ReadingTurns, PTL
    <2> QED BY <2>1 DEF Turns
<1> DEFINE bad == {k \in 0..m : Reading'[k] # Reading[k]}
<1>2. bad = {}
    <2>1. SUFFICES ASSUME bad # {}
                   PROVE  FALSE
        OBVIOUS
    <2>2. PICK k \in bad : \A l \in bad : k <= l
        <3>1. bad \in SUBSET Nat
            OBVIOUS
        <3> QED BY <2>1, <3>1, LeastElement
    <2>3. k # 0
        BY <1>1, <2>2, ReadingIs
    <2>4. k - 1 \in 0..m - 1 /\ k - 1 \in Nat /\ k - 1 + 1 = k /\ k - 1 \notin bad
        BY <2>2, <2>3
    <2>5. PICK r \in Readers : r = Reading[k - 1] /\ r = Reading'[k - 1]
        BY <2>4, ReadingIs
    <2>6. r.status = "reading" /\ Aligned(r).bytesRead \in Before(at)
        BY <2>4, <2>5 DEF Reads
    <2>7. ReadFrame(r)' = ReadFrame(r)
        <3>1. /\ Aligned(r).bytesRead \in DOMAIN file /\ Aligned(r).bytesRead \in DOMAIN file'
              /\ file'[Aligned(r).bytesRead] = file[Aligned(r).bytesRead]
            BY <2>6 DEF Before
        <3> QED BY <3>1 DEF ReadFrame
    <2>8. Reading[k] = ReadFrame(r)
        BY <2>4, <2>5, ReadingIs
    <2>9. Reading'[k] = ReadFrame(r)'
        BY <1>1, <2>4, <2>5
    <2> QED BY <2>2, <2>7, <2>8, <2>9
<1>3. \A k \in 0..m : Reading'[k] = Reading[k]
    BY <1>2
<1>4. ASSUME NEW k \in 0..m - 1
      PROVE  Reading'[k].status = "reading" /\ Aligned(Reading'[k]).bytesRead \in Before(at)'
    <2>1. Reading'[k] = Reading[k]
        BY <1>3
    <2>2. Before(at) \subseteq Before(at)'
        BY DEF Before
    <2> QED BY <2>1, <2>2 DEF Reads
<1> QED BY <1>3, <1>4 DEF Reads

\* The reader stops at a byte with all records that were written in full, and the writer
\* can go on there
StopsAt(m, byte, off) ==
    /\ m <= Cardinality(Before(byte))
    /\ Reads(m, byte)
    /\ Reading[m].status = "reading"
    /\ Aligned(Reading[m]).bytesRead = byte
    /\ Aligned(Reading[m]).blockOffset = off
    /\ Reading[m].records = written
    /\ Scanned = AtEnd(Aligned(Reading[m])) /\ Scanned.status = "eof"
    /\ InBlock(byte, off) /\ NextOffset(off) = off
    /\ \A p \in DOMAIN file : p < byte /\ End(p) <= byte
    /\ \/ Clean(Reading[m])
       \/ Holding(Reading[m]) /\ Stuck(byte)

\* Where no failed write left a header, the reader stops where the next frame would go
LEMMA ScannedAtPlace ==
    ASSUME WalFramesAssumption, Typed, NEW at \in Nat, NEW off \in 0..BlockSize,
           Place(at, off), at \notin DOMAIN file
    PROVE  \/ Scanned.status = "error" /\ (Stuck(at) \/ pc = "down" \/ Reached > 0)
           \/ \E m \in Nat : StopsAt(m, NextByte(at, off), NextOffset(off))
<1> DEFINE b == NextByte(at, off)
<1>0. FileTyped /\ DOMAIN file \in SUBSET Nat
    BY FileIs DEF Typed
<1>1. PICK m \in 0..Cardinality(Before(at)) :
          /\ Reads(m, at)
          /\ \/ Reading[m].status = "error" /\ Stuck(at)
             \/ ReaderAt(Reading[m], at, off) /\ InStep(Reading[m], at)
    BY DEF Place, ReaderIn
<1>2. m \in Nat /\ m <= Cardinality(DOMAIN file)
    BY BeforeIs
<1>3. CASE Reading[m].status = "error" /\ Stuck(at)
    <2>1. m <= Cardinality(DOMAIN file) + 1
        BY <1>2, BeforeIs
    <2> QED BY <1>2, <1>3, <2>1, ScannedIs
<1>4. CASE ReaderAt(Reading[m], at, off) /\ InStep(Reading[m], at)
    <2>1. /\ Reading[m] \in Readers /\ Reading[m + 1] = ReadFrame(Reading[m])
        BY <1>0, <1>2, ReadingIs
    <2>2. /\ b \in Nat /\ at <= b /\ NextOffset(off) \in 0..BlockSize - 1
          /\ NextOffset(NextOffset(off)) = NextOffset(off) /\ InBlock(b, NextOffset(off))
        BY NextIs DEF Place
    <2>3. \A p \in DOMAIN file : p < at /\ End(p) <= at
        BY <1>0 DEF Place, FramesBefore
    <2>4. b \notin DOMAIN file
        BY <1>0, <2>2, <2>3
    <2> DEFINE r == Aligned(Reading[m])
    <2>5. /\ r \in Readers /\ r.bytesRead = b /\ r.blockOffset = NextOffset(off)
          /\ r.assembled = Reading[m].assembled /\ Reading[m].status = "reading"
          /\ Reading[m].records = written
        BY <1>4, <2>1, AlignedIs DEF ReaderAt
    <2>6. Reading[m + 1] = AtEnd(r)
        BY <1>0, <2>1, <2>4, <2>5, ReadFrameEnds
    <2>7. Reading[m + 1].status = IF \E i \in DOMAIN r.assembled : r.assembled[i].upto > 0
                                  THEN "error" ELSE "eof"
        BY <2>5, <2>6, AtEndIs
    <2>8. Scanned = Reading[m + 1]
        <3>1. m + 1 \in Nat /\ m + 1 <= Cardinality(DOMAIN file) + 1
            BY <1>2, BeforeIs
        <3> QED BY <2>7, <3>1, ScannedIs
    <2>9. CASE \E i \in DOMAIN r.assembled : r.assembled[i].upto > 0
        <3>1. ~Clean(Reading[m])
            BY <2>5, <2>9 DEF Clean
        <3> QED BY <1>4, <2>7, <2>8, <2>9, <3>1 DEF InStep, Half
    <2>10. CASE ~ \E i \in DOMAIN r.assembled : r.assembled[i].upto > 0
        <3>1. ~Half(Reading[m])
            BY <2>5, <2>10 DEF Half
        <3>2. Reached > 0 => ~(Holding(Reading[m]) /\ Following(Reading[m]))
            <4>1. Reading[m].assembled \in Seq(Frames)
                BY <2>1 DEF Readers
            <4>2. Holding(Reading[m]) =>
                      Len(Reading[m].assembled) \in DOMAIN Reading[m].assembled
                BY <4>1 DEF Holding
            <4> QED BY <2>5, <2>10, <4>2 DEF Following, Follows
        <3>3. Clean(Reading[m]) \/ (Holding(Reading[m]) /\ Stuck(b))
            BY <1>4, <2>2, <3>1, <3>2, StuckFurther DEF InStep
        <3>4. Reads(m, b) /\ m <= Cardinality(Before(b))
            BY <1>1, <1>2, <2>2, ReadsFurther, BeforeIs
        <3>5. \A p \in DOMAIN file : p < b /\ End(p) <= b
            <4>1. ASSUME NEW p \in DOMAIN file
                  PROVE  End(p) \in Int /\ p \in Int
                <5>1. file[p] \in Frames /\ p \in Nat
                    BY <1>0 DEF FileTyped
                <5> QED BY <5>1 DEF End, Frames, WalFramesAssumption
            <4> QED BY <2>2, <2>3, <4>1
        <3>6. Scanned = AtEnd(r) /\ Scanned.status = "eof"
            BY <2>6, <2>7, <2>8, <2>10
        <3> QED BY <1>2, <2>2, <2>5, <3>3, <3>4, <3>5, <3>6 DEF StopsAt
    <2> QED BY <2>9, <2>10
<1> QED BY <1>1, <1>3, <1>4

\* What a turn makes of a header without data
LEMMA LeftoverRead ==
    ASSUME NEW r \in Readers, NEW f \in Frames, f.record = NoRecord, r.status = "reading",
           f.type \in {"full", "last"} => f.upto > 0
    PROVE  \/ Taken(r, f).status = "error"
           \/ /\ Taken(r, f) \in Readers
              /\ Taken(r, f).bytesRead = r.bytesRead
              /\ Taken(r, f).blockOffset = r.blockOffset
              /\ Taken(r, f).records = r.records
              /\ Taken(r, f).status = "reading"
              /\ Holding(Taken(r, f))
              /\ \E i \in DOMAIN Taken(r, f).assembled : Taken(r, f).assembled[i] = f
<1>0. f.upto \in Nat /\ f.type \in {"full", "first", "middle", "last"}
    BY DEF Frames
<1>1. CASE f.type = "full"
    <2>1. ~Whole(<<f>>)
        BY <1>0, <1>1 DEF Whole, NoRecord
    <2>2. <<f>> \in Seq(Frames) /\ <<f>> # <<>>
        OBVIOUS
    <2> QED BY <1>1, <2>1, <2>2, CompletedIs, FailedIs DEF Taken
<1>2. CASE f.type = "last"
    <2> DEFINE a == Append(r.assembled, f)
    <2>1. a \in Seq(Frames) /\ a # <<>> /\ a[Len(a)] = f
        BY DEF Readers
    <2>2. ~Whole(a)
        BY <1>0, <1>2, <2>1 DEF Whole, NoRecord
    <2> HIDE DEF a
    <2>3. Completed(r, a).status = "error"
        BY <2>1, <2>2, CompletedIs
    <2>4. Taken(r, f) = IF ~r.inFragmented THEN Failed(r) ELSE Completed(r, a)
        BY <1>2 DEF Taken, a
    <2> QED BY <2>3, <2>4, FailedIs
<1>3. CASE f.type = "first" /\ ~r.inFragmented
    <2>1. Taken(r, f) = [r EXCEPT !.assembled = <<f>>, !.inFragmented = TRUE]
        BY <1>3 DEF Taken
    <2>2. <<f>> \in Seq(Frames) /\ <<f>> # <<>> /\ 1 \in DOMAIN <<f>> /\ <<f>>[1] = f
        OBVIOUS
    <2> QED BY <2>1, <2>2 DEF Readers, Holding
<1>4. CASE f.type = "middle" /\ r.inFragmented
    <2> DEFINE a == Append(r.assembled, f)
    <2>1. a \in Seq(Frames) /\ a # <<>> /\ a[Len(a)] = f /\ Len(a) \in DOMAIN a
        BY DEF Readers
    <2>2. Taken(r, f) = [r EXCEPT !.assembled = a] /\ r.inFragmented
        BY <1>4 DEF Taken
    <2>3. PICK c \in Seq(Frames) : c = a
        BY <2>1
    <2>4. PICK s \in Readers : s = [r EXCEPT !.assembled = c]
        BY DEF Readers
    <2>5. /\ s.bytesRead = r.bytesRead /\ s.blockOffset = r.blockOffset /\ s.records = r.records
          /\ s.status = r.status /\ s.assembled = c /\ s.inFragmented = r.inFragmented
        BY <2>4 DEF Readers
    <2>6. s = Taken(r, f)
        BY <2>2, <2>3, <2>4
    <2>7. Holding(s) /\ \E i \in DOMAIN s.assembled : s.assembled[i] = f
        BY <2>1, <2>2, <2>3, <2>5 DEF Holding
    <2> HIDE DEF a
    <2> QED BY <2>5, <2>6, <2>7
<1>5. CASE f.type = "first" /\ r.inFragmented
    <2>1. Taken(r, f) = Failed(r)
        BY <1>5 DEF Taken
    <2> QED BY <2>1, FailedIs
<1>6. CASE f.type = "middle" /\ ~r.inFragmented
    <2>1. Taken(r, f) = Failed(r)
        BY <1>6 DEF Taken
    <2> QED BY <2>1, FailedIs
<1>7. CASE f.type = "first"
    BY <1>3, <1>5, <1>7
<1>8. CASE f.type = "middle"
    BY <1>4, <1>6, <1>8
<1> QED BY <1>0, <1>1, <1>2, <1>7, <1>8

\* A header without data is an error, or the reader stops behind it
LEMMA ScannedAtLeftover ==
    ASSUME WalFramesAssumption, Typed, NEW at \in Nat, NEW off \in 0..BlockSize,
           Place(at, off), at \in DOMAIN file
    PROVE  \/ Scanned.status = "error"
           \/ /\ zeroFirst
              /\ \E m \in Nat, byte \in Nat, o \in 0..BlockSize : StopsAt(m, byte, o)
<1>0. FileTyped /\ DOMAIN file \in SUBSET Nat
    BY FileIs DEF Typed
<1>1. PICK m \in 0..Cardinality(Before(at)) :
          /\ Reads(m, at)
          /\ \/ Reading[m].status = "error" /\ Stuck(at)
             \/ ReaderAt(Reading[m], at, off) /\ InStep(Reading[m], at)
    BY DEF Place, ReaderIn
<1>2. /\ m \in Nat /\ m + 1 \in Nat /\ m + 2 \in Nat /\ m <= Cardinality(DOMAIN file) + 1
      /\ m + 1 <= Cardinality(DOMAIN file) + 1 /\ m <= Cardinality(Before(at))
    BY BeforeIs
<1>3. CASE Reading[m].status = "error"
    BY <1>2, <1>3, ScannedIs
<1>4. CASE ReaderAt(Reading[m], at, off)
    <2>1. /\ NextOffset(off) = off
          /\ file[at].record = NoRecord
          /\ file[at].type \in {"full", "last"} => file[at].upto > 0
          /\ file[at].upto = 0 => zeroFirst
          /\ file[at] \in Frames
          /\ \A p \in DOMAIN file : p <= at
          /\ \A p \in DOMAIN file : p < at => End(p) <= at
        BY <1>0 DEF Place, FramesBefore, Leftover, FileTyped
    <2>2. /\ Reading[m].status = "reading" /\ Aligned(Reading[m]).bytesRead = at
          /\ Aligned(Reading[m]).blockOffset = off /\ Reading[m].records = written
        BY <1>4, <2>1, NextIs DEF ReaderAt
    <2>3. /\ Reading[m] \in Readers /\ Reading[m + 1] = ReadFrame(Reading[m])
          /\ Reading[m + 1] \in Readers
        BY <1>0, <1>2, ReadingIs
    <2>4. CASE Reading[m + 1].status = "error"
        BY <1>2, <2>4, ScannedIs
    <2>5. CASE Reading[m + 1].status # "error"
        <3>1. PICK r \in Readers :
                  /\ off + (End(at) - at) <= BlockSize
                  /\ r.bytesRead = End(at)
                  /\ r.blockOffset = (off + (End(at) - at)) % BlockSize
                  /\ r.records = written
                  /\ r.status = "reading"
                  /\ Reading[m + 1] = Taken(r, file[at])
            BY <1>0, <2>2, <2>3, <2>5, ReadFrameTakes
        <3> DEFINE R == Reading[m + 1]
        <3>2. /\ R.bytesRead = End(at) /\ R.blockOffset = (off + (End(at) - at)) % BlockSize
              /\ R.records = written /\ R.status = "reading" /\ Holding(R)
              /\ \E i \in DOMAIN R.assembled : R.assembled[i] = file[at]
            BY <2>1, <2>5, <3>1, LeftoverRead
        <3>3. End(at) \in Nat /\ at < End(at)
            BY <2>1 DEF End, Frames, WalFramesAssumption
        <3> DEFINE o == off + (End(at) - at)
                   b == NextByte(End(at), o)
        <3>4. o \in 0..BlockSize
            BY <3>1, <3>3 DEF WalFramesAssumption
        <3>5. /\ Aligned(R).bytesRead = b /\ Aligned(R).blockOffset = NextOffset(o)
            BY <2>3, <3>2, <3>4, AlignedAt
        <3>6. InBlock(End(at), o)
            <4>1. PICK block \in Nat : at = BlockSize * block + off
                BY DEF Place, InBlock
            <4>2. BlockSize * block \in Nat
                BY DEF WalFramesAssumption
            <4>3. End(at) = BlockSize * block + o
                BY <3>3, <4>1, <4>2
            <4> QED BY <4>3 DEF InBlock
        <3>7. /\ b \in Nat /\ End(at) <= b /\ InBlock(b, NextOffset(o))
              /\ NextOffset(o) \in 0..BlockSize
              /\ NextOffset(NextOffset(o)) = NextOffset(o)
            <4> HIDE DEF o
            <4> QED BY <3>3, <3>4, <3>6, NextIs
        <3> HIDE DEF o, b
        <3>8. at < b
            BY <3>3, <3>7
        <3>9. \A p \in DOMAIN file : p < b /\ End(p) <= b
            <4>1. ASSUME NEW p \in DOMAIN file
                  PROVE  End(p) \in Int /\ p \in Int
                <5>1. file[p] \in Frames /\ p \in Nat
                    BY <1>0 DEF FileTyped
                <5> QED BY <5>1 DEF End, Frames, WalFramesAssumption
            <4>2. ASSUME NEW p \in DOMAIN file, p # at
                  PROVE  End(p) <= at
                <5>1. p <= at /\ p \in Int
                    BY <2>1, <4>1
                <5>2. p < at
                    BY <4>2, <5>1
                <5> QED BY <2>1, <5>2
            <4>3. \A p \in DOMAIN file : p <= at
                BY <2>1
            <4> QED BY <3>3, <3>7, <3>8, <4>1, <4>2, <4>3
        <3>10. Reading[m + 1 + 1] = AtEnd(Aligned(R))
            <4>1. b \notin DOMAIN file
                BY <3>7, <3>9
            <4>2. Reading[m + 1 + 1] = ReadFrame(Reading[m + 1])
                BY <1>0, <1>2, ReadingIs
            <4> QED BY <1>0, <2>3, <3>2, <3>5, <4>1, <4>2, ReadFrameEnds
        <3>11. Aligned(R) \in Readers /\ Aligned(R).assembled = R.assembled
            BY <2>3, AlignedIs
        <3>12. Reading[m + 1 + 1].status =
                   IF \E i \in DOMAIN R.assembled : R.assembled[i].upto > 0
                   THEN "error" ELSE "eof"
            BY <3>10, <3>11, AtEndIs
        <3>13. m + 1 <= Cardinality(Before(b))
            BY <1>2, <3>7, <3>8, BeforeIs
        <3>14. Scanned = AtEnd(Aligned(R)) /\ Scanned.status = Reading[m + 1 + 1].status
            <4>1. m + 1 + 1 \in Nat /\ m + 1 + 1 <= Cardinality(DOMAIN file) + 1
                BY <1>2, <3>7, <3>13, BeforeIs
            <4>2. Reading[m + 1 + 1].status # "reading"
                BY <3>12
            <4> QED BY <3>10, <4>1, <4>2, ScannedIs
        <3>15. CASE \E i \in DOMAIN R.assembled : R.assembled[i].upto > 0
            BY <3>12, <3>14, <3>15
        <3>16. CASE ~ \E i \in DOMAIN R.assembled : R.assembled[i].upto > 0
            <4>1. zeroFirst
                <5>1. ~(file[at].upto > 0) /\ file[at].upto \in Nat
                    BY <2>1, <3>2, <3>16 DEF Frames
                <5> QED BY <2>1, <5>1
            <4>2. Reads(m + 1, b)
                <5>1. Reads(m, b)
                    BY <1>1, <1>2, <3>7, <3>8, ReadsFurther
                <5>2. Reading[m].status = "reading" /\ Aligned(Reading[m]).bytesRead \in Before(b)
                    BY <2>2, <3>8 DEF Before
                <5>3. \A k \in 0..(m + 1) - 1 : k = m \/ k \in 0..m - 1
                    BY <1>2
                <5> QED BY <5>1, <5>2, <5>3 DEF Reads
            <4>3. StopsAt(m + 1, b, NextOffset(o))
                BY <3>2, <3>5, <3>7, <3>9, <3>12, <3>13, <3>14, <3>16, <4>1, <4>2
                   DEF StopsAt, Stuck
            <4> QED BY <1>2, <3>7, <4>1, <4>3
        <3> QED BY <3>15, <3>16
    <2> QED BY <2>4, <2>5
<1> QED BY <1>1, <1>3, <1>4

\* Where the reader stops it has the records that were written in full
LEMMA StopsWith ==
    ASSUME WalFramesAssumption, Typed, NEW m \in Nat, NEW byte \in Nat,
           NEW off \in 0..BlockSize, StopsAt(m, byte, off)
    PROVE  /\ Scanned.status = "eof" /\ Scanned.records = written
           /\ Scanned.bytesRead = byte /\ Scanned.blockOffset = off
           /\ Reading[m] \in Readers
<1>1. Reading[m] \in Readers
    BY FileIs, ReadingIs
<1>2. PICK r \in Readers : r = Aligned(Reading[m])
    BY <1>1, AlignedIs
<1>3. r.bytesRead = byte /\ r.blockOffset = off /\ r.records = written /\ Scanned = AtEnd(r)
    BY <1>1, <1>2, AlignedIs DEF StopsAt
<1> QED BY <1>1, <1>3, AtEndIs DEF StopsAt

LEMMA ScannedSomewhere ==
    ASSUME WalFramesAssumption, Typed, NEW at \in Nat, NEW off \in 0..BlockSize,
           Place(at, off), Scanned.status # "error"
    PROVE  \E m \in Nat, byte \in Nat, o \in 0..BlockSize : StopsAt(m, byte, o)
<1>1. CASE at \in DOMAIN file
    BY <1>1, ScannedAtLeftover
<1>2. CASE at \notin DOMAIN file
    <2>1. NextByte(at, off) \in Nat /\ NextOffset(off) \in 0..BlockSize
        BY NextIs
    <2>2. \E m \in Nat : StopsAt(m, NextByte(at, off), NextOffset(off))
        BY <1>2, ScannedAtPlace
    <2> QED BY <2>1, <2>2
<1> QED BY <1>1, <1>2

\* The place of a stopped process
LEMMA SomePlace ==
    ASSUME FramesInv
    PROVE  \E at \in Nat, off \in 0..BlockSize : Place(at, off)
BY DEF FramesInv, Typed, WriterStands, WriterStood

LEMMA InvNeverMisreads ==
    ASSUME WalFramesAssumption, FramesInv
    PROVE  NeverMisread
<1>1. PICK at \in Nat, off \in 0..BlockSize : Place(at, off)
    BY SomePlace
<1>2. CASE Scanned.status = "error"
    BY <1>2 DEF NeverMisread
<1>3. CASE Scanned.status # "error"
    <2>1. PICK m \in Nat, byte \in Nat, o \in 0..BlockSize : StopsAt(m, byte, o)
        BY <1>1, <1>3, ScannedSomewhere DEF FramesInv
    <2> QED BY <2>1, StopsWith DEF FramesInv, NeverMisread
<1> QED BY <1>2, <1>3

LEMMA PaddingIs ==
    ASSUME WalFramesAssumption, NEW at \in Nat, NEW off \in 0..BlockSize
    PROVE  /\ NextByte(at, off) = at + PaddingAt(off)
           /\ NextOffset(off) % BlockSize = (off + PaddingAt(off)) % BlockSize
<1>1. CASE BlockSize - off < FrameHeaderSize
    <2>1. off # 0 /\ PaddingAt(off) = BlockSize - off
        BY <1>1 DEF PaddingAt, WalFramesAssumption
    <2>2. off + PaddingAt(off) = BlockSize /\ NextOffset(off) = 0
        BY <1>1, <2>1 DEF NextOffset, WalFramesAssumption
    <2>3. BlockSize % BlockSize = 0 /\ 0 % BlockSize = 0
        BY ModIs DEF WalFramesAssumption
    <2> QED BY <1>1, <2>1, <2>2, <2>3 DEF NextByte
<1>2. CASE ~(BlockSize - off < FrameHeaderSize)
    BY <1>2 DEF PaddingAt, NextByte, NextOffset
<1> QED BY <1>1, <1>2

LEMMA InvReopens ==
    ASSUME WalFramesAssumption, FramesInv
    PROVE  ReopenedWhereItStood
<1>1. SUFFICES ASSUME pc = "idle", ~zeroFirst, ~Stranded
               PROVE  /\ Scanned.status = "eof"
                      /\ Len(Scanned.records) = currentRecordCount
                      /\ Scanned.bytesRead = currentSegmentBytes + PaddingAt(currentBlockOffset)
                      /\ Scanned.blockOffset % BlockSize
                            = (currentBlockOffset + PaddingAt(currentBlockOffset)) % BlockSize
    BY DEF ReopenedWhereItStood
<1>2. PICK at \in Nat, off \in 0..BlockSize :
          at = currentSegmentBytes /\ off = currentBlockOffset
    BY DEF FramesInv, Typed
<1>3. Place(at, off) /\ currentRecordCount = Len(written)
    BY <1>1, <1>2 DEF FramesInv, WriterStands
<1>4. ~Stuck(at)
    BY <1>1 DEF Stuck, Stranded, Before
<1>5. at \notin DOMAIN file
    <2>1. SUFFICES ASSUME at \in DOMAIN file
                   PROVE  FALSE
        OBVIOUS
    <2>2. NoRecord \in ToSet(written)
        BY <1>1, <1>3, <2>1 DEF Place, FramesBefore, Leftover, Stranded
    <2>3. PICK i \in DOMAIN written : written[i] = NoRecord
        BY <2>2 DEF ToSet
    <2> QED BY <2>3 DEF FramesInv, FramesKept, NoRecord
<1>6. pc # "down" /\ ~(Reached > 0)
    BY <1>1 DEF Reached
<1>7. PICK m \in Nat : StopsAt(m, NextByte(at, off), NextOffset(off))
    BY <1>3, <1>4, <1>5, <1>6, ScannedAtPlace DEF FramesInv
<1>8. /\ Scanned.status = "eof" /\ Scanned.records = written
      /\ Scanned.bytesRead = NextByte(at, off) /\ Scanned.blockOffset = NextOffset(off)
    BY <1>7, NextIs, StopsWith DEF FramesInv
<1> QED BY <1>2, <1>3, <1>8, PaddingIs

-----------------------------------------------------------------------------
(* The place moves *)

\* While no frame is read, the reader comes to a place as before
LEMMA PlaceMoves ==
    ASSUME WalFramesAssumption, Typed, Typed', NEW at \in Nat, NEW off \in 0..BlockSize,
           NEW b \in Nat, NEW o \in 0..BlockSize,
           Place(at, off), at <= b, Before(b) = Before(at),
           NextByte(b, o) = NextByte(at, off), NextOffset(o) = NextOffset(off), InBlock(b, o),
           \A p \in Before(at) : p \in DOMAIN file' /\ file'[p] = file[p],
           \A p \in DOMAIN file' : p <= b,
           \A p \in DOMAIN file' : p < b => p \in Before(at),
           written' = written, Leftover(b, o)', Stuck(at) => Stuck(b)',
           \A r \in Readers : InStep(r, at) => InStep(r, b)'
    PROVE  Place(b, o)'
<1>1. PICK m \in 0..Cardinality(Before(at)) :
          /\ Reads(m, at)
          /\ \/ Reading[m].status = "error" /\ Stuck(at)
             \/ ReaderAt(Reading[m], at, off) /\ InStep(Reading[m], at)
    BY DEF Place, ReaderIn
<1>2. m \in Nat /\ FileTyped /\ FileTyped'
    <2>1. m \in Nat
        BY BeforeIs
    <2>2. FileTyped'
        BY DEF Typed, FileTyped
    <2> QED BY <2>1, <2>2, FileIs
<1>3. Before(b)' = Before(at)
    <2>1. \A p \in Before(at) : p \in DOMAIN file' /\ p < b
        BY DEF Before
    <2> QED BY <2>1 DEF Before
<1>4. Reading'[m] = Reading[m] /\ Reads(m, at)'
    BY <1>1, <1>2, ReadsSame
<1>5. Reads(m, b)'
    <2>1. Before(at)' \subseteq Before(b)'
        BY <1>2 DEF Before, FileTyped
    <2> QED BY <1>4, <2>1 DEF Reads
<1>6. PICK r \in Readers : r = Reading[m] /\ r = Reading'[m]
    BY <1>2, <1>4, ReadingIs
<1>7. ReaderAt(r, at, off) => ReaderAt(r, b, o)'
    BY DEF ReaderAt
<1>8. ReaderIn(b, o)'
    <2>1. m \in 0..Cardinality(Before(b)')
        BY <1>3
    <2> QED BY <1>1, <1>5, <1>6, <1>7, <2>1 DEF ReaderIn
<1>9. InBlock(b, o)'
    BY DEF InBlock
<1>10. FramesBefore(b, o)'
    <2>1. \A p \in DOMAIN file' : p < b => End(p)' <= b
        <3> SUFFICES ASSUME NEW p \in DOMAIN file', p < b
                     PROVE  End(p)' <= b
            OBVIOUS
        <3>1. p \in Before(at) /\ End(p)' = End(p)
            BY DEF End
        <3>2. End(p) <= at
            BY <3>1 DEF Place, FramesBefore, Before
        <3>3. End(p) \in Int
            BY <1>2, <3>1 DEF End, FileTyped, Frames, Before, WalFramesAssumption
        <3> QED BY <3>1, <3>2, <3>3
    <2> QED BY <2>1 DEF FramesBefore
<1> QED BY <1>8, <1>9, <1>10 DEF Place

-----------------------------------------------------------------------------
(* A new segment *)

EmptySegment == file = NoFrames /\ written = <<>> /\ Reached = 0 => Place(0, 0)

LEMMA EmptySegmentHolds ==
    ASSUME WalFramesAssumption
    PROVE  EmptySegment
<1>1. SUFFICES ASSUME file = NoFrames, written = <<>>, Reached = 0
               PROVE  Place(0, 0)
    BY DEF EmptySegment
<1>2. DOMAIN file = {} /\ FileTyped
    BY <1>1 DEF NoFrames, FileTyped
<1>3. InBlock(0, 0)
    <2>1. 0 = BlockSize * 0 + 0
        BY DEF WalFramesAssumption
    <2> QED BY <2>1 DEF InBlock
<1>4. FramesBefore(0, 0)
    BY <1>2 DEF FramesBefore, Leftover
<1>5. ReaderIn(0, 0)
    <2>1. Before(0) = {} /\ Cardinality(Before(0)) = 0
        BY <1>2, FS_EmptySet DEF Before
    <2>2. Reading[0] = ReaderAtStart
        BY <1>2, ReadingIs
    <2>3. ReaderAtStart \in Readers /\ ReaderAtStart.blockOffset = 0 % BlockSize
        BY ModIs DEF ReaderAtStart, Readers, WalFramesAssumption
    <2>4. /\ Aligned(ReaderAtStart).bytesRead = NextByte(0, 0)
          /\ Aligned(ReaderAtStart).blockOffset = NextOffset(0)
        <3>1. 0 \in 0..BlockSize /\ ReaderAtStart.bytesRead = 0
            BY DEF WalFramesAssumption, ReaderAtStart
        <3> QED BY <2>3, <3>1, AlignedAt
    <2>5. ReaderAt(ReaderAtStart, 0, 0)
        BY <1>1, <2>4 DEF ReaderAt, ReaderAtStart
    <2>6. InStep(ReaderAtStart, 0)
        BY <1>1 DEF InStep, Clean, ReaderAtStart
    <2>7. Reads(0, 0) /\ 0 \in 0..Cardinality(Before(0))
        BY <2>1 DEF Reads
    <2> QED BY <2>2, <2>5, <2>6, <2>7 DEF ReaderIn
<1> QED BY <1>3, <1>4, <1>5 DEF Place

LEMMA NewSegmentIs ==
    ASSUME WalFramesAssumption, NewSegment, Reached' = 0
    PROVE  /\ Place(0, 0)' /\ FramesKept'
           /\ currentSegmentBytes' = 0 /\ currentBlockOffset' = 0
           /\ currentRecordCount' = 0 /\ written' = <<>> /\ zeroFirst' = FALSE
           /\ DOMAIN file' = {} /\ IsFiniteSet(DOMAIN file') /\ file' \in [DOMAIN file' -> Frames]
<1>1. EmptySegment'
    BY EmptySegmentHolds, PTL
<1>2. DOMAIN file' = {} /\ file' = NoFrames /\ written' = <<>>
    BY DEF NewSegment, NoFrames
<1>3. Place(0, 0)'
    BY <1>1, <1>2 DEF EmptySegment
<1>4. FramesKept'
    BY <1>2 DEF FramesKept, SegmentKeepsItsLength
<1>5. IsFiniteSet(DOMAIN file') /\ file' \in [DOMAIN file' -> Frames]
    <2>1. file' \in [DOMAIN file' -> Frames]
        BY <1>2 DEF NoFrames
    <2> QED BY <1>2, <2>1, FS_EmptySet
<1> QED BY <1>2, <1>3, <1>4, <1>5 DEF NewSegment

LEMMA InitFramesInv ==
    ASSUME WalFramesAssumption, Init
    PROVE  FramesInv
<1>1. Reached = 0 /\ EmptySegment
    BY EmptySegmentHolds DEF Init, Reached
<1>2. Place(0, 0)
    BY <1>1 DEF EmptySegment, Init
<1>3. Typed
    <2>1. DOMAIN file = {} /\ file \in [DOMAIN file -> Frames]
        BY DEF Init, NoFrames
    <2>2. IsFiniteSet(DOMAIN file)
        BY <2>1, FS_EmptySet
    <2>3. record \in Records /\ remaining \in 0..record.size /\ 0 \in 0..BlockSize
        BY DEF Init, NoRecord, Records, WalFramesAssumption
    <2>4. <<>> \in Seq(Records) /\ DOMAIN file \in SUBSET Nat
        BY <2>1
    <2>5. /\ currentRecordCount = 0 /\ currentBlockOffset = 0 /\ currentSegmentBytes = 0
          /\ pc = "idle" /\ written = <<>> /\ zeroFirst = FALSE /\ faults = 0
        BY DEF Init
    <2> QED BY <2>1, <2>2, <2>3, <2>4, <2>5 DEF Typed
<1>4. FramesKept
    BY DEF Init, FramesKept, SegmentKeepsItsLength, NoFrames
<1> QED BY <1>1, <1>2, <1>3, <1>4 DEF Init, FramesInv, WriterStands, RestFits, WriterStood

-----------------------------------------------------------------------------
(* The next frame *)

LEMMA FramedSizeAtEnd ==
    ASSUME WalFramesAssumption, NEW n \in Nat
    PROVE  FramedSize(BlockSize, n) = FramedSize(0, n)
<1>1. BlockSize \in 0..BlockSize /\ 0 \in 0..BlockSize
    BY DEF WalFramesAssumption
<1>2. NextOffset(BlockSize) = 0 /\ NextOffset(0) = 0
    BY DEF NextOffset, WalFramesAssumption
<1>3. /\ FrameAfter(BlockSize, n) = FrameAfter(0, n)
      /\ OffsetAfter(BlockSize, n) = OffsetAfter(0, n)
    BY <1>2 DEF FrameAfter, OffsetAfter
<1>4. FrameBytes(BlockSize, n) = FrameBytes(0, n)
    BY <1>3 DEF FrameBytes, WalFramesAssumption
<1> QED BY <1>1, <1>3, <1>4, FramedSizeIs

\* The frame that the writer writes next
LEMMA FrameIs ==
    ASSUME WalFramesAssumption, Typed, RestFits, pc = "append",
           NEW at \in Nat, NEW off \in 0..BlockSize,
           at = currentSegmentBytes, off = currentBlockOffset
    PROVE  /\ FrameOffset = NextOffset(off)
           /\ currentSegmentBytes + Padding = NextByte(at, off)
           /\ Chunk \in Nat /\ Left \in Nat /\ From \in Nat
           /\ Chunk <= record.size
           /\ Chunk + Left = remaining /\ From + Chunk + Left = record.size
           /\ FrameOffset + FrameHeaderSize + Chunk \in 1..BlockSize
           /\ Left > 0 => FrameOffset + FrameHeaderSize + Chunk = BlockSize
           /\ NextByte(at, off) + FrameHeaderSize + Chunk
                  + FramedSize(FrameOffset + FrameHeaderSize + Chunk, Left) <= MaxSegmentBytes
           /\ FramedSize(FrameOffset + FrameHeaderSize + Chunk, Left) \in Nat
<1>1. FrameOffset = NextOffset(off) /\ currentSegmentBytes + Padding = NextByte(at, off)
    BY DEF FrameOffset, NextOffset, Padding, NextByte
<1>2. Chunk = FrameAfter(off, remaining)
    BY <1>1 DEF Chunk, FrameAfter
<1>3. PICK n \in Nat \ {0} : n = remaining /\ n <= record.size
    BY DEF Typed, RestFits, Records
<1>4. record.size \in Nat
    BY DEF Typed, Records
<1> DEFINE c == FrameAfter(off, n)
           end == NextOffset(off) + FrameHeaderSize + c
<1>5. /\ NextOffset(off) \in 0..BlockSize - FrameHeaderSize
      /\ c \in 0..n /\ n - c \in Nat
      /\ end \in 1..BlockSize
      /\ OffsetAfter(off, n) = IF end = BlockSize THEN 0 ELSE end
      /\ c < n => end = BlockSize
      /\ OffsetAfter(off, n) \in 0..BlockSize
    BY FrameAfterIs DEF WalFramesAssumption
<1>6. Chunk = c /\ Left = n - c /\ From = record.size - n
    BY <1>2, <1>3 DEF Left, From
<1> HIDE DEF c
<1>7. FramedSize(off, n) = FrameBytes(off, n) + FramedSize(OffsetAfter(off, n), n - c)
    BY FramedSizeIs DEF c
<1>8. FramedSize(end, n - c) \in Nat
    <2>1. end \in 0..BlockSize
        BY <1>5
    <2> HIDE DEF end
    <2> QED BY <1>5, <2>1, FramedSizeIs
<1>9. FramedSize(OffsetAfter(off, n), n - c) = FramedSize(end, n - c)
    BY <1>5, FramedSizeAtEnd
<1>10. at + FrameBytes(off, n) = NextByte(at, off) + FrameHeaderSize + c
    BY <1>5 DEF FrameBytes, NextByte, c, WalFramesAssumption
<1>11. at + FramedSize(off, n) <= MaxSegmentBytes
    BY <1>3 DEF RestFits
<1>12. FrameBytes(off, n) \in Nat
    BY FrameAfterIs
<1>13. NextByte(at, off) + FrameHeaderSize + c + FramedSize(end, n - c) <= MaxSegmentBytes
    <2>1. PICK s \in Nat : s = FramedSize(end, n - c)
        BY <1>8
    <2>2. at + (FrameBytes(off, n) + s) <= MaxSegmentBytes
        BY <1>7, <1>9, <1>11, <2>1
    <2>3. (at + FrameBytes(off, n)) + s <= MaxSegmentBytes
        BY <1>12, <2>2
    <2> QED BY <1>10, <2>1, <2>3
<1>14. FrameOffset + FrameHeaderSize + Chunk = end
    BY <1>1, <1>6
<1> HIDE DEF end
<1>15. /\ Chunk \in Nat /\ Left \in Nat /\ From \in Nat /\ Chunk <= record.size
       /\ Chunk + Left = remaining /\ From + Chunk + Left = record.size
    BY <1>3, <1>4, <1>5, <1>6
<1>16. Left > 0 => end = BlockSize
    BY <1>5, <1>6
<1> QED BY <1>1, <1>5, <1>6, <1>8, <1>13, <1>14, <1>15, <1>16

\* The file with a frame at the next byte
LEMMA FileWithIs ==
    ASSUME WalFramesAssumption, Typed, FramesKept, RestFits, pc = "append",
           NEW at \in Nat, NEW off \in 0..BlockSize,
           at = currentSegmentBytes, off = currentBlockOffset, Place(at, off),
           NEW f \in Frames, f.from = From, f.upto = From + Chunk,
           file' = FileWith(f), NEW b \in Nat, b = NextByte(at, off)
    PROVE  /\ DOMAIN file' = DOMAIN file \cup {b} /\ b \in DOMAIN file' /\ file'[b] = f
           /\ \A p \in DOMAIN file : p # b => file'[p] = file[p]
           /\ \A p \in DOMAIN file : p # b => p < b /\ p < at /\ End(p) <= at
           /\ DOMAIN file' \in SUBSET Nat /\ IsFiniteSet(DOMAIN file')
           /\ file' \in [DOMAIN file' -> Frames]
           /\ End(b)' = b + FrameHeaderSize + Chunk
           /\ at <= b
           /\ Before(b) = Before(at)
           /\ InBlock(b, NextOffset(off))
           /\ InBlock(b + FrameHeaderSize + Chunk, FrameOffset + FrameHeaderSize + Chunk)
           /\ SegmentKeepsItsLength'
<1>1. /\ FrameOffset = NextOffset(off) /\ currentSegmentBytes + Padding = b
      /\ Chunk \in Nat /\ From \in Nat
      /\ FrameOffset + FrameHeaderSize + Chunk \in 1..BlockSize
      /\ b + FrameHeaderSize + Chunk
             + FramedSize(FrameOffset + FrameHeaderSize + Chunk, Left) <= MaxSegmentBytes
      /\ FramedSize(FrameOffset + FrameHeaderSize + Chunk, Left) \in Nat
    BY FrameIs
<1>2. file' = [p \in DOMAIN file \cup {b} |-> IF p = b THEN f ELSE file[p]]
    BY <1>1 DEF FileWith
<1>3. /\ DOMAIN file' = DOMAIN file \cup {b} /\ b \in DOMAIN file' /\ file'[b] = f
      /\ \A p \in DOMAIN file : p # b => file'[p] = file[p]
    BY <1>2
<1>4. /\ DOMAIN file \in SUBSET Nat /\ IsFiniteSet(DOMAIN file)
      /\ file \in [DOMAIN file -> Frames]
    BY DEF Typed
<1>5. /\ DOMAIN file' \in SUBSET Nat /\ IsFiniteSet(DOMAIN file')
      /\ file' \in [DOMAIN file' -> Frames]
    <2>1. IsFiniteSet(DOMAIN file \cup {b})
        BY <1>4, FS_AddElement
    <2> QED BY <1>2, <1>3, <1>4, <2>1
<1>6. /\ at <= b /\ InBlock(b, NextOffset(off)) /\ NextOffset(off) \in 0..BlockSize - 1
    BY NextIs DEF Place
<1>7. at \in DOMAIN file => b = at
    BY NextIs DEF Place, FramesBefore, Leftover
<1>8. ASSUME NEW p \in DOMAIN file, p # b
      PROVE  p < b /\ p < at /\ End(p) <= at
    <2>1. p <= at /\ p # at /\ p \in Nat
        BY <1>4, <1>7, <1>8 DEF Place, FramesBefore
    <2>2. p < at
        BY <2>1
    <2> QED BY <1>6, <2>1, <2>2 DEF Place, FramesBefore
<1>9. Before(b) = Before(at)
    <2>1. \A p \in DOMAIN file : p < b <=> p < at
        BY <1>4, <1>6, <1>8
    <2> QED BY <2>1 DEF Before
<1>10. End(b)' = b + FrameHeaderSize + Chunk
    <2>1. End(b)' = b + FrameHeaderSize + (From + Chunk) - From
        BY <1>3 DEF End
    <2> QED BY <1>1, <2>1 DEF WalFramesAssumption
<1>11. PICK block \in Nat : b = BlockSize * block + NextOffset(off)
    BY <1>6 DEF InBlock
<1>12. PICK begin \in Nat : begin = BlockSize * block
    BY DEF WalFramesAssumption
<1>13. PICK no \in 0..BlockSize - 1 : no = NextOffset(off)
    BY <1>6
<1> DEFINE e == b + FrameHeaderSize + Chunk
           eo == FrameOffset + FrameHeaderSize + Chunk
<1>14. /\ b = begin + no /\ e = begin + eo /\ eo \in 1..BlockSize /\ e \in Nat /\ b < e
    BY <1>1, <1>11, <1>12, <1>13 DEF WalFramesAssumption
<1>15. InBlock(e, eo)
    BY <1>12, <1>14 DEF InBlock
<1>16. e <= MaxSegmentBytes
    <2>1. PICK s \in Nat : s = FramedSize(eo, Left)
        BY <1>1
    <2>2. e + s <= MaxSegmentBytes
        BY <1>1, <2>1
    <2>3. MaxSegmentBytes \in Nat
        BY DEF MaxSegmentBytes, WalFramesAssumption
    <2> HIDE DEF e
    <2> QED BY <1>14, <2>2, <2>3
<1>17. b \div BlockSize = block /\ (e - 1) \div BlockSize = block
    <2>1. \A i \in 0..BlockSize - 1 : (BlockSize * block + i) \div BlockSize = block
        BY DEF WalFramesAssumption
    <2>2. PICK i \in 0..BlockSize - 1 : i = eo - 1 /\ e - 1 = begin + i
        <3> HIDE DEF e, eo
        <3> QED BY <1>14 DEF WalFramesAssumption
    <2> HIDE DEF e
    <2> QED BY <1>12, <1>13, <1>14, <2>1, <2>2
<1> HIDE DEF e, eo
<1>18. SegmentKeepsItsLength'
    <2> DEFINE end(p) == p + FrameHeaderSize + file'[p].upto - file'[p].from
    <2>0. \A p \in DOMAIN file' : end(p) = End(p)'
        BY DEF End
    <2> HIDE DEF end
    <2>1. SUFFICES ASSUME NEW p \in DOMAIN file'
                   PROVE  /\ end(p) <= MaxSegmentBytes
                          /\ p \div BlockSize = (end(p) - 1) \div BlockSize
                          /\ \A q \in DOMAIN file' : q <= p \/ q >= end(p)
        BY DEF SegmentKeepsItsLength, end
    <2>2. CASE p = b
        <3>1. end(p) = e
            BY <1>10, <2>0, <2>2 DEF e
        <3>2. \A q \in DOMAIN file' : q <= b
            BY <1>3, <1>5, <1>8
        <3> QED BY <1>16, <1>17, <2>2, <3>1, <3>2
    <2>3. CASE p # b
        <3>1. p \in DOMAIN file /\ end(p) = End(p)
            <4>1. p \in DOMAIN file /\ file'[p] = file[p]
                BY <1>3, <2>3
            <4> QED BY <4>1 DEF end, End
        <3>2. /\ End(p) <= MaxSegmentBytes
              /\ p \div BlockSize = (End(p) - 1) \div BlockSize
              /\ \A q \in DOMAIN file : q <= p \/ q >= End(p)
            BY <3>1 DEF FramesKept, SegmentKeepsItsLength, End
        <3>3. End(p) \in Int
            BY <1>4, <3>1 DEF End, Frames, WalFramesAssumption
        <3>4. b >= End(p)
            BY <1>6, <1>8, <2>3, <3>1, <3>3
        <3> QED BY <1>3, <3>1, <3>2, <3>4
    <2> QED BY <2>2, <2>3
<1> QED BY <1>3, <1>5, <1>6, <1>8, <1>9, <1>10, <1>15, <1>18 DEF e, eo

LEMMA FrameHolds ==
    ASSUME WalFramesAssumption, Typed, RestFits, pc = "append"
    PROVE  /\ Frame \in Frames /\ Frame.record = record
           /\ Frame.from = From /\ Frame.upto = From + Chunk
           /\ From = 0 /\ Left = 0 => Frame.type = "full"
           /\ From = 0 /\ Left > 0 => Frame.type = "first"
           /\ From > 0 /\ Left = 0 => Frame.type = "last"
           /\ From > 0 /\ Left > 0 => Frame.type = "middle"
           /\ HeaderOnly \in Frames /\ HeaderOnly.record = NoRecord
           /\ HeaderOnly.from = From /\ HeaderOnly.upto = From + Chunk
           /\ HeaderOnly.type = Frame.type
<1>1. PICK at \in Nat, off \in 0..BlockSize :
          at = currentSegmentBytes /\ off = currentBlockOffset
    BY DEF Typed
<1>2. /\ Chunk \in Nat /\ Left \in Nat /\ From \in Nat /\ From + Chunk + Left = record.size
    BY <1>1, FrameIs
<1>3. record \in Records /\ NoRecord \in Records
    BY DEF Typed, NoRecord, Records
<1> DEFINE t == FragmentType(Chunk, Left)
<1>4. /\ t \in {"full", "first", "middle", "last"}
      /\ From = 0 /\ Left = 0 => t = "full"
      /\ From = 0 /\ Left > 0 => t = "first"
      /\ From > 0 /\ Left = 0 => t = "last"
      /\ From > 0 /\ Left > 0 => t = "middle"
    BY <1>2 DEF FragmentType
<1> HIDE DEF t
<1>5. Frame = [type |-> t, record |-> record, from |-> From, upto |-> From + Chunk]
    BY DEF Frame, t
<1>6. HeaderOnly = [type |-> t, record |-> NoRecord, from |-> From, upto |-> From + Chunk]
    BY <1>5 DEF HeaderOnly
<1>7. From + Chunk \in Nat /\ From <= From + Chunk
    BY <1>2
<1>8. Frame \in Frames /\ HeaderOnly \in Frames
    BY <1>2, <1>3, <1>4, <1>5, <1>6, <1>7 DEF Frames
<1> QED BY <1>4, <1>5, <1>6, <1>8

\* Fragments that fit to each other are of one record
LEMMA FragmentsOfOne ==
    ASSUME NEW a \in Seq(Frames), a # <<>>,
           \A i \in 1..Len(a) - 1 : a[i].record = a[i + 1].record
    PROVE  \A i \in DOMAIN a : a[i].record = a[Len(a)].record
<1> DEFINE bad == {n \in 0..Len(a) - 1 : a[Len(a) - n].record # a[Len(a)].record}
<1>1. bad = {}
    <2>1. SUFFICES ASSUME bad # {}
                   PROVE  FALSE
        OBVIOUS
    <2>2. PICK n \in bad : \A m \in bad : n <= m
        <3>1. bad \in SUBSET Nat
            OBVIOUS
        <3> QED BY <2>1, <3>1, LeastElement
    <2>3. n # 0
        <3>1. SUFFICES ASSUME n = 0
                       PROVE  FALSE
            OBVIOUS
        <3>2. Len(a) - n = Len(a)
            BY <3>1
        <3> QED BY <2>2, <3>2
    <2>4. n - 1 \in 0..Len(a) - 1 /\ n - 1 \notin bad
        <3>1. n \in Int /\ n - 1 \in 0..Len(a) - 1 /\ ~(n <= n - 1)
            BY <2>2, <2>3
        <3> HIDE DEF bad
        <3> QED BY <2>2, <3>1
    <2>5. Len(a) - n \in 1..Len(a) - 1 /\ Len(a) - n + 1 = Len(a) - (n - 1)
        BY <2>2, <2>3
    <2> QED BY <2>2, <2>4, <2>5
<1>2. ASSUME NEW i \in DOMAIN a
      PROVE  a[i].record = a[Len(a)].record
    <2>1. Len(a) - i \in 0..Len(a) - 1 /\ Len(a) - (Len(a) - i) = i
        OBVIOUS
    <2> QED BY <1>1, <2>1
<1> QED BY <1>2

\* The reader went over the next frame
Went(x, r, at) ==
    /\ x.status = "reading" /\ x.bytesRead = r.bytesRead /\ x.blockOffset = r.blockOffset
    /\ x.records = IF Left = 0 THEN Append(written, record) ELSE written
    /\ \/ Left = 0 /\ Clean(x)
       \/ Left > 0 /\ Holding(x) /\ From + Chunk = 0
       \/ Left > 0 /\ Holding(x) /\ From + Chunk > 0 /\ Follows(x, From + Chunk)
       \/ Left > 0 /\ Holding(x) /\ Stuck(at)

\* What the reader makes of the next frame
LEMMA TakesFrame ==
    ASSUME WalFramesAssumption, Typed, RestFits, pc = "append",
           NEW at \in Nat, NEW off \in 0..BlockSize,
           at = currentSegmentBytes, off = currentBlockOffset,
           NEW r \in Readers, r.status = "reading", r.records = written, InStep(r, at),
           NEW x, x = Taken(r, Frame)
    PROVE  \/ x.status = "error" /\ Stuck(at)
           \/ Went(x, r, at)
<1>1. /\ Chunk \in Nat /\ Left \in Nat /\ From \in Nat /\ Chunk + Left = remaining
      /\ From + Chunk + Left = record.size
    BY FrameIs
<1>2. Reached = From /\ ~Half(r)
    BY DEF Reached, From, Half
<1>3. PICK f \in Frames : /\ f = Frame /\ f.record = record
                         /\ f.from = From /\ f.upto = From + Chunk
    BY FrameHolds
<1>4. /\ From = 0 /\ Left = 0 => f.type = "full"
      /\ From = 0 /\ Left > 0 => f.type = "first"
      /\ From > 0 /\ Left = 0 => f.type = "last"
      /\ From > 0 /\ Left > 0 => f.type = "middle"
    BY <1>3, FrameHolds
<1>5. PICK one \in Seq(Frames) : one = <<f>> /\ one # <<>> /\ Len(one) = 1 /\ one[1] = f
    <2>1. <<f>> \in Seq(Frames) /\ <<f>> # <<>> /\ Len(<<f>>) = 1 /\ <<f>>[1] = f
        OBVIOUS
    <2> QED BY <2>1
<1>6. PICK a \in Seq(Frames) : a = Append(r.assembled, f)
    <2>1. r.assembled \in Seq(Frames)
        BY DEF Readers
    <2>2. Append(r.assembled, f) \in Seq(Frames)
        BY <2>1
    <2> QED BY <2>2
<1>7. /\ r.assembled \in Seq(Frames) /\ a # <<>> /\ Len(a) = Len(r.assembled) + 1 /\ a[Len(a)] = f
      /\ \A i \in 1..Len(r.assembled) : a[i] = r.assembled[i]
    BY <1>6 DEF Readers
<1>8. /\ From = 0 => Clean(r) \/ (Holding(r) /\ Stuck(at))
      /\ From > 0 => Holding(r) /\ (Follows(r, From) \/ Stuck(at))
    BY <1>1, <1>2 DEF InStep, Following
<1>9. CASE From = 0 /\ Left = 0
    <2>1. CASE Clean(r)
        <3>1. x = Completed(r, one)
            BY <1>3, <1>4, <1>5, <1>9, <2>1 DEF Taken, Clean
        <3>2. Whole(one)
            BY <1>1, <1>3, <1>5, <1>9 DEF Whole
        <3>3. /\ x.status = r.status /\ x.bytesRead = r.bytesRead
              /\ x.blockOffset = r.blockOffset /\ x.records = Append(r.records, record)
              /\ x.assembled = <<>> /\ ~x.inFragmented
            BY <1>3, <1>5, <3>1, <3>2, CompletedIs, ZenonT(30)
        <3> QED BY <1>9, <3>3 DEF Went, Clean
    <2>2. CASE Holding(r) /\ Stuck(at)
        <3>1. x = Failed(r)
            BY <1>3, <1>4, <1>9, <2>2 DEF Taken, Holding
        <3> QED BY <2>2, <3>1, FailedIs
    <2> QED BY <1>8, <1>9, <2>1, <2>2
<1>10. CASE From = 0 /\ Left > 0
    <2>1. CASE Clean(r)
        <3>1. x = [r EXCEPT !.assembled = one, !.inFragmented = TRUE]
            BY <1>3, <1>4, <1>5, <1>10, <2>1 DEF Taken, Clean
        <3>2. /\ x.assembled = one /\ x.inFragmented = TRUE
              /\ x.bytesRead = r.bytesRead /\ x.blockOffset = r.blockOffset
              /\ x.records = r.records /\ x.status = r.status
            BY <3>1 DEF Readers
        <3>3. Holding(x)
            BY <1>5, <3>2 DEF Holding
        <3>4. Follows(x, From + Chunk)
            BY <1>3, <1>5, <1>10, <3>2 DEF Follows
        <3>5. From + Chunk = 0 \/ From + Chunk > 0
            BY <1>1
        <3> QED BY <1>10, <3>2, <3>3, <3>4, <3>5 DEF Went
    <2>2. CASE Holding(r) /\ Stuck(at)
        <3>1. x = Failed(r)
            BY <1>3, <1>4, <1>10, <2>2 DEF Taken, Holding
        <3> QED BY <2>2, <3>1, FailedIs
    <2> QED BY <1>8, <1>10, <2>1, <2>2
<1>11. CASE From > 0 /\ Left = 0
    <2>1. x = Completed(r, a) /\ Holding(r)
        BY <1>3, <1>4, <1>6, <1>8, <1>11 DEF Taken, Holding
    <2>2. CASE Whole(a)
        <3>1. /\ x.status = r.status /\ x.bytesRead = r.bytesRead
              /\ x.blockOffset = r.blockOffset /\ x.records = Append(r.records, a[1].record)
              /\ x.assembled = <<>> /\ ~x.inFragmented
            BY <1>7, <2>1, <2>2, CompletedIs
        <3>2. a[1].record = record
            <4>1. \A i \in 1..Len(a) - 1 : a[i].record = a[i + 1].record
                BY <2>2 DEF Whole
            <4>2. 1 \in DOMAIN a
                BY <1>7
            <4> QED BY <1>3, <1>7, <4>1, <4>2, FragmentsOfOne
        <3> QED BY <1>11, <3>1, <3>2 DEF Went, Clean
    <2>3. CASE ~Whole(a)
        <3>1. x.status = "error"
            BY <1>7, <2>1, <2>3, CompletedIs
        <3>2. ~Follows(r, From)
            <4>1. SUFFICES ASSUME Follows(r, From)
                           PROVE  Whole(a)
                BY <2>3
            <4>2. PICK n \in Nat \ {0} : n = Len(r.assembled)
                <5>1. Len(r.assembled) \in Nat \ {0}
                    BY <1>7, <2>1 DEF Holding
                <5> QED BY <5>1
            <4>3. a[1].from = 0 /\ a[Len(a)].upto = a[Len(a)].record.size
                <5>1. a[1] = r.assembled[1]
                    BY <1>7, <4>2, SMTT(20)
                <5>2. From + Chunk = record.size
                    BY <1>1, <1>11
                <5> QED BY <1>3, <1>7, <4>1, <5>1, <5>2 DEF Follows
            <4>4. ASSUME NEW i \in 1..Len(a) - 1
                  PROVE  a[i].record = a[i + 1].record /\ a[i].upto = a[i + 1].from
                <5>1. i \in 1..n /\ a[i] = r.assembled[i] /\ a[i].record = record
                    BY <1>7, <4>1, <4>2 DEF Follows
                <5>2. CASE i = n
                    <6>1. a[i + 1] = f /\ r.assembled[i].upto = From
                        BY <1>7, <4>1, <4>2, <5>2 DEF Follows
                    <6> QED BY <1>3, <5>1, <6>1
                <5>3. CASE i # n
                    <6>1. i + 1 \in 1..n /\ i \in 1..n - 1
                        BY <5>1, <5>3
                    <6>2. a[i + 1] = r.assembled[i + 1]
                        BY <1>7, <4>2, <6>1
                    <6> QED BY <4>1, <4>2, <5>1, <6>1, <6>2 DEF Follows
                <5> QED BY <5>2, <5>3
            <4> QED BY <4>3, <4>4 DEF Whole
        <3> QED BY <1>8, <1>11, <3>1, <3>2
    <2> QED BY <2>2, <2>3
<1>12. CASE From > 0 /\ Left > 0
    <2>1. Holding(r) /\ r.inFragmented = TRUE
        BY <1>8, <1>12 DEF Holding, Readers
    <2>2. x = [r EXCEPT !.assembled = a]
        BY <1>3, <1>4, <1>6, <1>12, <2>1 DEF Taken
    <2>4. /\ x.assembled = a /\ x.inFragmented = TRUE
          /\ x.bytesRead = r.bytesRead /\ x.blockOffset = r.blockOffset
          /\ x.records = r.records /\ x.status = r.status
        BY <2>1, <2>2 DEF Readers
    <2>5. Holding(x)
        BY <1>7, <2>4 DEF Holding
    <2>6. CASE Follows(r, From)
        <3>1. PICK n \in Nat \ {0} : n = Len(r.assembled)
            <4>1. Len(r.assembled) \in Nat \ {0}
                BY <1>7, <2>1 DEF Holding
            <4> QED BY <4>1
        <3>2. a[1].from = 0 /\ a[Len(a)].upto = From + Chunk
            BY <1>3, <1>7, <2>6, <3>1 DEF Follows
        <3>3. ASSUME NEW i \in 1..Len(a)
              PROVE  a[i].record = record
            BY <1>3, <1>7, <2>6, <3>1, <3>3, SMTT(20) DEF Follows
        <3>4. ASSUME NEW i \in 1..Len(a) - 1
              PROVE  a[i].upto = a[i + 1].from
            <4>1. i \in 1..n /\ a[i] = r.assembled[i]
                BY <1>7, <3>1
            <4>2. CASE i = n
                <5>1. a[i + 1] = f /\ r.assembled[i].upto = From
                    BY <1>7, <2>6, <3>1, <4>2 DEF Follows
                <5> QED BY <1>3, <4>1, <5>1
            <4>3. CASE i # n
                <5>1. i + 1 \in 1..n /\ i \in 1..n - 1
                    BY <4>1, <4>3
                <5>2. a[i + 1] = r.assembled[i + 1]
                    BY <1>7, <3>1, <5>1
                <5> QED BY <2>6, <3>1, <4>1, <5>1, <5>2 DEF Follows
            <4> QED BY <4>2, <4>3
        <3>5. Follows(x, From + Chunk)
            BY <1>7, <2>4, <3>2, <3>3, <3>4 DEF Follows
        <3>6. From + Chunk > 0
            BY <1>1, <1>12
        <3> QED BY <1>12, <2>4, <2>5, <3>5, <3>6 DEF Went
    <2>7. CASE Stuck(at)
        BY <1>12, <2>4, <2>5, <2>7 DEF Went
    <2> QED BY <1>8, <1>12, <2>6, <2>7
<1>13. (From = 0 \/ From > 0) /\ (Left = 0 \/ Left > 0)
    BY <1>1
<1> QED BY <1>9, <1>10, <1>11, <1>12, <1>13

-----------------------------------------------------------------------------
(* The steps of the writer *)

\* The records get more, and their numbers greater
LEMMA NumbersGrow ==
    ASSUME Typed, faults' \in Nat, faults <= faults',
           \/ written' = written
           \/ /\ record.number = NextNumber
              /\ written' = Append(written, record)
    PROVE  /\ NextNumber \in Nat /\ NextNumber' \in Nat /\ NextNumber <= NextNumber'
           /\ \A rec \in Records : rec \notin ToSet(written) /\ rec.number < NextNumber =>
                  rec \notin ToSet(written') /\ rec.number < NextNumber'
<1>1. Len(written) \in Nat /\ faults \in Nat /\ written \in Seq(Records) /\ record \in Records
    BY DEF Typed
<1>2. Len(written') \in Nat /\ Len(written) <= Len(written')
    BY <1>1
<1>3. NextNumber \in Nat /\ NextNumber' \in Nat /\ NextNumber <= NextNumber'
    BY <1>1, <1>2 DEF NextNumber
<1>4. ASSUME NEW rec \in Records, rec \notin ToSet(written), rec.number < NextNumber
      PROVE  rec \notin ToSet(written') /\ rec.number < NextNumber'
    <2>1. rec.number \in Nat
        BY DEF Records
    <2>2. rec.number < NextNumber'
        BY <1>3, <1>4, <2>1
    <2>3. CASE written' = written
        BY <1>4, <2>2, <2>3
    <2>4. CASE record.number = NextNumber /\ written' = Append(written, record)
        <3>1. rec # record
            BY <1>3, <1>4, <2>1, <2>4
        <3>2. SUFFICES ASSUME NEW i \in DOMAIN written', written'[i] = rec
                       PROVE  FALSE
            BY <2>2 DEF ToSet
        <3>3. \/ i \in DOMAIN written /\ written[i] = written'[i]
              \/ written'[i] = record
            BY <1>1, <2>4
        <3> QED BY <1>4, <3>1, <3>2, <3>3 DEF ToSet
    <2> QED BY <2>3, <2>4
<1> QED BY <1>3, <1>4

\* A frame of a failed append stays one
LEMMA StuckStays ==
    ASSUME Typed, NEW at \in Nat, NEW b \in Nat, at <= b, Stuck(at),
           \A p \in Before(at) : p \in DOMAIN file' /\ file'[p] = file[p],
           zeroFirst => zeroFirst', faults' \in Nat, faults <= faults',
           \/ written' = written
           \/ /\ record.number = NextNumber
              /\ written' = Append(written, record)
    PROVE  Stuck(b)'
<1>1. CASE zeroFirst
    BY <1>1 DEF Stuck
<1>2. CASE ~zeroFirst
    <2>1. PICK p \in Before(at) :
              file[p].record \notin ToSet(written) /\ file[p].record.number < NextNumber
        BY <1>2 DEF Stuck
    <2>2. p \in Nat /\ p < at /\ p \in DOMAIN file' /\ file'[p] = file[p]
        BY <2>1 DEF Before, Typed
    <2>3. p \in Before(b)'
        BY <2>2 DEF Before
    <2>4. file[p].record \in Records
        BY <2>1 DEF Typed, Before, Frames
    <2>5. PICK rec \in Records : rec = file[p].record /\ rec = file'[p].record
        BY <2>2, <2>4
    <2>6. rec \notin ToSet(written') /\ rec.number < NextNumber'
        BY <2>1, <2>5, NumbersGrow
    <2> QED BY <2>3, <2>5, <2>6 DEF Stuck
<1> QED BY <1>1, <1>2

LEMMA StepWriteFrame ==
    ASSUME WalFramesAssumption, FramesInv, WriteFrame
    PROVE  FramesInv'
<1>1. PICK at \in Nat, off \in 0..BlockSize :
          at = currentSegmentBytes /\ off = currentBlockOffset
    BY DEF FramesInv, Typed
<1>2. Typed /\ FramesKept /\ RestFits /\ pc = "append" /\ Place(at, off)
    BY <1>1 DEF FramesInv, WriterStands, WriteFrame
<1>3. /\ record.number = NextNumber /\ remaining > 0 /\ remaining <= record.size
      /\ record \in Records /\ record.size \in Nat
    BY <1>2 DEF RestFits, Typed, Records
<1>4. PICK b \in Nat : b = NextByte(at, off) /\ at <= b
    BY NextIs
<1>5. PICK e \in Nat, eo \in 1..BlockSize :
          e = b + FrameHeaderSize + Chunk /\ eo = FrameOffset + FrameHeaderSize + Chunk
    <2>1. Chunk \in Nat /\ FrameOffset + FrameHeaderSize + Chunk \in 1..BlockSize
        BY <1>1, <1>2, FrameIs
    <2>2. b + FrameHeaderSize + Chunk \in Nat
        BY <2>1 DEF WalFramesAssumption
    <2> QED BY <2>1, <2>2
<1>6. /\ FrameOffset = NextOffset(off) /\ currentSegmentBytes + Padding = b
      /\ Chunk \in Nat /\ Left \in Nat /\ From \in Nat
      /\ Chunk + Left = remaining /\ From + Chunk + Left = record.size
      /\ e + FramedSize(eo, Left) <= MaxSegmentBytes /\ FramedSize(eo, Left) \in Nat
    BY <1>1, <1>2, <1>4, <1>5, FrameIs
<1>7. PICK f \in Frames : /\ f = Frame /\ f.record = record /\ f.from = From
                         /\ f.upto = From + Chunk
    BY <1>2, FrameHolds
<1>8. /\ DOMAIN file' = DOMAIN file \cup {b} /\ b \in DOMAIN file' /\ file'[b] = f
      /\ \A p \in DOMAIN file : p # b => file'[p] = file[p]
      /\ \A p \in DOMAIN file : p # b => p < b /\ p < at /\ End(p) <= at
      /\ DOMAIN file' \in SUBSET Nat /\ IsFiniteSet(DOMAIN file')
      /\ file' \in [DOMAIN file' -> Frames]
      /\ End(b)' = e
      /\ Before(b) = Before(at)
      /\ InBlock(e, eo)
      /\ SegmentKeepsItsLength'
    <2>1. file' = FileWith(f)
        BY <1>7 DEF WriteFrame
    <2> QED BY <1>1, <1>2, <1>7, <1>4, <1>5, <2>1, FileWithIs
<1>9. /\ currentSegmentBytes' = e /\ currentBlockOffset' = eo /\ remaining' = Left
      /\ record' = record /\ faults' = faults
      /\ zeroFirst' \in BOOLEAN /\ (zeroFirst => zeroFirst') /\ (Chunk = 0 => zeroFirst')
    <2>1. currentSegmentBytes' = e
        BY <1>6, <1>5 DEF WriteFrame
    <2>2. currentBlockOffset' = eo /\ remaining' = Left /\ record' = record /\ faults' = faults
        BY <1>5 DEF WriteFrame
    <2>3. zeroFirst' = (zeroFirst \/ Chunk = 0)
        BY DEF WriteFrame
    <2> QED BY <2>1, <2>2, <2>3
<1>10. b < e /\ eo \in 0..BlockSize /\ at <= e
    BY <1>6, <1>4, <1>5 DEF WalFramesAssumption
<1>11. \/ /\ Left > 0 /\ written' = written /\ pc' = "append"
          /\ currentRecordCount' = currentRecordCount
       \/ /\ Left = 0 /\ written' = Append(written, record) /\ pc' \in {"idle", "rotate"}
          /\ currentRecordCount' = currentRecordCount + 1
    BY <1>2 DEF WriteFrame
<1>12. currentRecordCount \in Nat /\ faults \in Nat /\ written \in Seq(Records)
    BY <1>2 DEF Typed
<1>13. /\ NextNumber \in Nat /\ NextNumber' \in Nat /\ NextNumber <= NextNumber'
    BY <1>2, <1>3, <1>9, <1>11, <1>12, NumbersGrow
<1>14. Typed'
    <2>1. currentRecordCount' \in Nat /\ pc' \in {"idle", "append", "rotate", "down"}
        <3>1. currentRecordCount + 1 \in Nat
            BY <1>12
        <3>2. CASE currentRecordCount' = currentRecordCount /\ pc' = "append"
            BY <1>12, <3>2
        <3>3. CASE currentRecordCount' = currentRecordCount + 1 /\ pc' \in {"idle", "rotate"}
            BY <3>1, <3>3
        <3> QED BY <1>11, <3>2, <3>3
    <2>2. written' \in Seq(Records)
        <3>1. Append(written, record) \in Seq(Records)
            BY <1>3, <1>12
        <3> QED BY <1>11, <1>12, <3>1
    <2>3. Left \in 0..record.size
        BY <1>3, <1>6
    <2>4. faults' \in Nat
        BY <1>9, <1>12
    <2> QED BY <1>3, <1>8, <1>9, <1>10, <2>1, <2>2, <2>3, <2>4 DEF Typed
<1>15. ASSUME Stuck(at)
       PROVE  Stuck(e)'
    <2>1. \A p \in Before(at) : p \in DOMAIN file' /\ file'[p] = file[p]
        <3>1. \A p \in Before(at) : p \in DOMAIN file /\ p # b
            BY <1>2, <1>4, SMTT(20) DEF Before, Typed
        <3> QED BY <1>8, <3>1
    <2>2. faults' \in Nat /\ faults <= faults'
        BY <1>9, <1>12
    <2> QED BY <1>2, <1>3, <1>9, <1>10, <1>11, <1>15, <2>1, <2>2, StuckStays
<1>16. FramesKept'
    <2>1. ASSUME NEW i \in DOMAIN written'
          PROVE  written'[i].size > 0 /\ written'[i].number < NextNumber'
        <3>2. CASE i \in DOMAIN written /\ written'[i] = written[i]
            <4>1. written[i].size > 0 /\ written[i].number < NextNumber
                BY <1>2, <3>2 DEF FramesKept
            <4>2. written[i].number \in Nat
                <5>1. written[i] \in Records
                    BY <1>12, <3>2
                <5> QED BY <5>1 DEF Records
            <4> QED BY <1>13, <3>2, <4>1, <4>2
        <3>3. CASE written'[i] = record /\ Left = 0
            <4>1. NextNumber' = NextNumber + 1
                <5>1. Len(written') = Len(written) + 1 /\ Len(written) \in Nat
                    BY <1>11, <1>12, <3>3
                <5> QED BY <1>9, <1>12, <5>1 DEF NextNumber
            <4>2. record.size > 0
                BY <1>3, <1>6
            <4> QED BY <1>3, <1>13, <3>3, <4>1, <4>2
        <3>4. \/ i \in DOMAIN written /\ written'[i] = written[i]
              \/ written'[i] = record /\ Left = 0
            <4>1. CASE written' = written
                BY <4>1
            <4>2. CASE Left = 0 /\ written' = Append(written, record)
                BY <1>12, <4>2
            <4> QED BY <1>11, <4>1, <4>2
        <3> QED BY <3>2, <3>3, <3>4
    <2> QED BY <1>8, <2>1 DEF FramesKept
<1>17. ReaderIn(e, eo)'
    <2>1. PICK m \in 0..Cardinality(Before(at)) :
              /\ Reads(m, at)
              /\ \/ Reading[m].status = "error" /\ Stuck(at)
                 \/ ReaderAt(Reading[m], at, off) /\ InStep(Reading[m], at)
        BY <1>2 DEF Place, ReaderIn
    <2>2. /\ m \in Nat /\ FileTyped /\ FileTyped' /\ IsFiniteSet(Before(at))
          /\ Cardinality(Before(at)) \in Nat
        <3>1. FileTyped'
            BY <1>14 DEF Typed, FileTyped
        <3> QED BY <1>2, <3>1, FileIs, BeforeIs
    <2>3. /\ Before(e)' = Before(at) \cup {b} /\ b \notin Before(at)
          /\ Before(at)' \subseteq Before(e)'
        <3>1. \A p \in DOMAIN file : p \in Nat /\ (p < at <=> p < b)
            BY <1>2, <1>4, <1>8 DEF Typed, Before
        <3>2. \A p \in DOMAIN file' : p \in Nat /\ p < e
            BY <1>8, <1>10, <3>1
        <3>3. Before(e)' = DOMAIN file'
            BY <3>2 DEF Before
        <3>4. Before(at) \cup {b} = DOMAIN file \cup {b} /\ b \notin Before(at)
            BY <1>4, <1>8, <3>1 DEF Before
        <3> QED BY <1>8, <3>3, <3>4 DEF Before
    <2>4. Cardinality(Before(e)') = Cardinality(Before(at)) + 1
        BY <2>2, <2>3, FS_AddElement
    <2>5. \A p \in Before(at) : p \in DOMAIN file' /\ file'[p] = file[p]
        <3>1. \A p \in Before(at) : p \in DOMAIN file /\ p # b
            BY <2>3 DEF Before
        <3> QED BY <1>8, <3>1
    <2>6. Reading'[m] = Reading[m] /\ Reads(m, at)'
        BY <2>1, <2>2, <2>5, ReadsSame
    <2>7. Reads(m, e)'
        BY <2>3, <2>6 DEF Reads
    <2>8. PICK r \in Readers : r = Reading[m] /\ r = Reading'[m]
        BY <2>2, <2>6, ReadingIs
    <2>9. m \in 0..Cardinality(Before(e)') /\ m + 1 \in 0..Cardinality(Before(e)')
        BY <2>2, <2>4
    <2>10. CASE r.status = "error" /\ Stuck(at)
        BY <1>15, <2>7, <2>8, <2>9, <2>10 DEF ReaderIn
    <2>11. CASE ReaderAt(r, at, off) /\ InStep(r, at)
        <3>1. /\ r.status = "reading" /\ Aligned(r).bytesRead = b
              /\ Aligned(r).blockOffset = FrameOffset /\ r.records = written
            BY <1>6, <1>4, <2>11 DEF ReaderAt
        <3>2. Turns' /\ Takes'
            BY <2>2, ReadingTurns, ReadingTakes, PTL
        <3>3. Reading'[m + 1] = ReadFrame(r)'
            BY <2>2, <2>8, <3>2 DEF Turns
        <3>4. PICK q \in Readers :
                  /\ q.bytesRead = e /\ q.blockOffset = eo % BlockSize
                  /\ q.assembled = r.assembled /\ q.inFragmented = r.inFragmented
                  /\ q.records = r.records /\ q.status = "reading"
                  /\ ReadFrame(r)' = Taken(q, f)
            <4>1. End(b)' = e /\ FrameOffset + (e - b) = eo /\ ~(eo > BlockSize)
                <5>1. FrameOffset \in Int
                    BY <1>6, NextIs
                <5> QED BY <1>6, <1>8, <1>5, <5>1 DEF WalFramesAssumption
            <4> QED BY <1>8, <3>1, <3>2, <4>1 DEF Takes
        <3>5. InStep(q, at)
            BY <2>11, <3>4, SMTT(20) DEF InStep, Clean, Holding, Following, Follows, Half
        <3>6. PICK x \in Readers : x = Taken(q, f)
            BY TakenIs
        <3>7. \/ x.status = "error" /\ Stuck(at)
              \/ Went(x, q, at)
            BY <1>1, <1>2, <1>7, <3>1, <3>4, <3>5, <3>6, TakesFrame
        <3>8. Reads(m + 1, e)'
            <4>1. \A k \in 0..(m + 1) - 1 : k = m \/ k \in 0..m - 1
                BY <2>2
            <4>2. r.status = "reading" /\ Aligned(r).bytesRead \in Before(e)'
                BY <2>3, <3>1
            <4> QED BY <2>7, <2>8, <4>1, <4>2 DEF Reads
        <3>9. Reading'[m + 1] = x
            BY <3>3, <3>4, <3>6
        <3>10. CASE x.status = "error" /\ Stuck(at)
            BY <1>15, <2>9, <3>8, <3>9, <3>10 DEF ReaderIn
        <3>11. CASE Went(x, q, at)
            <4>1. /\ Aligned(x).bytesRead = NextByte(e, eo)
                  /\ Aligned(x).blockOffset = NextOffset(eo)
                BY <1>10, <3>4, <3>11, AlignedAt DEF Went
            <4>2. x.records = written'
                <5>1. x.records = IF Left = 0 THEN Append(written, record) ELSE written
                    BY <3>11 DEF Went
                <5> QED BY <1>6, <1>11, <5>1
            <4>3. ReaderAt(x, e, eo)'
                BY <3>11, <4>1, <4>2 DEF ReaderAt, Went
            <4>4. InStep(x, e)'
                <5>1. CASE Left = 0 /\ Clean(x)
                    <6>1. Reached' = 0
                        BY <1>6, <1>11, <5>1 DEF Reached
                    <6> QED BY <5>1, <6>1 DEF InStep, Clean
                <5>2. CASE Left > 0 /\ Holding(x) /\ From + Chunk = 0
                    <6>1. zeroFirst'
                        <7>1. Chunk = 0
                            BY <1>6, <5>2
                        <7> QED BY <1>9, <7>1
                    <6> QED BY <5>2, <6>1 DEF InStep, Stuck, Holding
                <5>3. CASE Left > 0 /\ Holding(x) /\ From + Chunk > 0 /\ Follows(x, From + Chunk)
                    <6>1. Reached' = From + Chunk
                        <7>1. pc' = "append"
                            BY <1>6, <1>11, <5>3
                        <7>2. record.size - Left = From + Chunk
                            BY <1>3, <1>6
                        <7> QED BY <1>9, <7>1, <7>2 DEF Reached
                    <6>2. PICK n \in Nat : n = From + Chunk
                        BY <1>6
                    <6>3. Follows(x, n)'
                        BY <1>9, <5>3, <6>2 DEF Follows
                    <6>4. Following(x)'
                        BY <6>1, <6>2, <6>3 DEF Following
                    <6> QED BY <5>3, <6>1, <6>2, <6>4 DEF InStep, Holding
                <5>4. CASE Left > 0 /\ Holding(x) /\ Stuck(at)
                    BY <1>15, <5>4 DEF InStep, Holding
                <5> QED BY <3>11, <5>1, <5>2, <5>3, <5>4 DEF Went
            <4> QED BY <2>9, <3>8, <3>9, <4>3, <4>4 DEF ReaderIn
        <3> QED BY <3>7, <3>10, <3>11
    <2> QED BY <2>1, <2>8, <2>10, <2>11
<1>18. FramesBefore(e, eo)'
    <2>1. \A p \in DOMAIN file' : p < e /\ p \in Nat
        BY <1>4, <1>8, <1>10
    <2>2. ASSUME NEW p \in DOMAIN file'
          PROVE  End(p)' <= e
        <3>1. CASE p = b
            BY <1>8, <3>1
        <3>2. CASE p # b
            <4>1. p \in DOMAIN file /\ End(p)' = End(p) /\ End(p) <= at
                <5>1. p \in DOMAIN file /\ file'[p] = file[p]
                    BY <1>8, <3>2
                <5> QED BY <1>8, <3>2, <5>1 DEF End
            <4>2. End(p) \in Int
                <5>1. p \in Nat /\ file[p] \in Frames
                    BY <1>2, <4>1 DEF Typed
                <5> QED BY <5>1 DEF End, Frames, WalFramesAssumption
            <4> QED BY <1>4, <1>10, <4>1, <4>2
        <3> QED BY <3>1, <3>2
    <2>3. e \notin DOMAIN file'
        BY <1>10, <2>1
    <2> QED BY <1>10, <2>1, <2>2, <2>3 DEF FramesBefore, Leftover
<1>19. Place(e, eo)'
    <2>1. InBlock(e, eo)'
        BY <1>8 DEF InBlock
    <2> QED BY <1>17, <1>18, <2>1 DEF Place
<1>20. WriterStands'
    <2>1. (currentRecordCount = Len(written))'
        <3>1. currentRecordCount = Len(written)
            BY <1>2 DEF FramesInv, WriterStands
        <3> QED BY <1>11, <1>12, <3>1
    <2>2. b \in Before(e)' /\ file'[b].record = record'
        BY <1>7, <1>8, <1>9, <1>10 DEF Before
    <2>3. (\E p \in Before(currentSegmentBytes) : file[p].record = record)'
        BY <1>9, <2>2
    <2> QED BY <1>9, <1>19, <2>1, <2>3 DEF WriterStands
<1>21. RestFits'
    <2>1. CASE Left > 0
        <3>1. NextNumber' = NextNumber
            BY <1>6, <1>9, <1>11, <2>1 DEF NextNumber
        <3>2. e + FramedSize(eo, Left) <= MaxSegmentBytes
            BY <1>6
        <3>3. NextNumber' = record'.number
            BY <1>3, <1>9, <3>1
        <3> QED BY <1>6, <1>9, <1>11, <2>1, <3>2, <3>3 DEF RestFits
    <2>2. CASE Left = 0
        BY <1>6, <1>9, <1>11, <2>2 DEF RestFits
    <2> QED BY <1>6, <2>1, <2>2
<1>22. WriterStood'
    BY <1>11 DEF WriterStood
<1> QED BY <1>14, <1>16, <1>20, <1>21, <1>22 DEF FramesInv

\* Nothing is written and nothing rotates
LEMMA PlaceKept ==
    ASSUME WalFramesAssumption, Typed, Typed', NEW at \in Nat, NEW off \in 0..BlockSize,
           Place(at, off), file' = file, written' = written, zeroFirst' = zeroFirst,
           faults' \in Nat, faults <= faults', pc' # "down" => pc # "down",
           \A r \in Readers : InStep(r, at) => InStep(r, at)'
    PROVE  Place(at, off)'
<1>1. InBlock(at, off) /\ FramesBefore(at, off) /\ FileTyped /\ DOMAIN file \in SUBSET Nat
    BY FileIs DEF Place, Typed
<1>2. Leftover(at, off)'
    BY <1>1 DEF FramesBefore, Leftover
<1>3. Stuck(at) => Stuck(at)'
    BY StuckStays DEF Before
<1>4. \A p \in DOMAIN file' : p <= at /\ (p < at => p \in Before(at))
    BY <1>1 DEF FramesBefore, Before
<1>5. \A p \in Before(at) : p \in DOMAIN file' /\ file'[p] = file[p]
    BY DEF Before
<1> QED BY <1>1, <1>2, <1>3, <1>4, <1>5, PlaceMoves

LEMMA StepStutter ==
    ASSUME WalFramesAssumption, FramesInv, UNCHANGED vars
    PROVE  FramesInv'
<1>1. /\ file' = file /\ written' = written /\ zeroFirst' = zeroFirst /\ faults' = faults
      /\ pc' = pc /\ record' = record /\ remaining' = remaining
      /\ currentRecordCount' = currentRecordCount
      /\ currentBlockOffset' = currentBlockOffset
      /\ currentSegmentBytes' = currentSegmentBytes
    BY DEF vars, position
<1>2. Typed /\ Typed' /\ faults \in Nat
    BY <1>1 DEF FramesInv, Typed
<1>3. \A at \in Nat : \A r \in Readers : InStep(r, at) => InStep(r, at)'
    BY <1>1 DEF InStep, Reached, Clean, Holding, Following, Follows, Stuck, Half,
           Before, NextNumber
<1>4. \A at \in Nat, off \in 0..BlockSize : Place(at, off) => Place(at, off)'
    BY <1>1, <1>2, <1>3, PlaceKept
<1>5. FramesKept'
    BY <1>1 DEF FramesInv, FramesKept, SegmentKeepsItsLength, NextNumber
<1>6. WriterStands' /\ RestFits' /\ WriterStood'
    <2>1. RestFits'
        BY <1>1 DEF FramesInv, RestFits, NextNumber
    <2>2. WriterStood'
        BY <1>1, <1>4 DEF FramesInv, WriterStood
    <2>3. WriterStands'
        <3>1. PICK at \in Nat, off \in 0..BlockSize :
                  at = currentSegmentBytes /\ off = currentBlockOffset
            BY <1>2 DEF Typed
        <3>2. pc # "down" => Place(at, off)'
            BY <1>4, <3>1 DEF FramesInv, WriterStands
        <3>3. pc # "down" => (Reached > 0 =>
                  \E p \in Before(currentSegmentBytes) : file[p].record = record)'
            BY <1>1 DEF FramesInv, WriterStands, Reached, Before
        <3>4. pc # "down" => currentRecordCount = Len(written)
            BY DEF FramesInv, WriterStands
        <3> QED BY <1>1, <3>1, <3>2, <3>3, <3>4 DEF WriterStands
    <2> QED BY <2>1, <2>2, <2>3
<1> QED BY <1>2, <1>5, <1>6 DEF FramesInv

LEMMA StepNewSegment ==
    ASSUME WalFramesAssumption, FramesInv, NewSegment, pc' = "idle", faults' = faults,
           record' \in Records, remaining' = 0
    PROVE  FramesInv'
<1>1. Reached' = 0
    BY DEF Reached
<1>2. /\ Place(0, 0)' /\ FramesKept'
      /\ currentSegmentBytes' = 0 /\ currentBlockOffset' = 0
      /\ currentRecordCount' = 0 /\ written' = <<>> /\ zeroFirst' = FALSE
      /\ DOMAIN file' = {} /\ IsFiniteSet(DOMAIN file') /\ file' \in [DOMAIN file' -> Frames]
    BY <1>1, NewSegmentIs
<1>3. Typed'
    <2>1. 0 \in 0..record'.size /\ 0 \in 0..BlockSize
        BY DEF Records, WalFramesAssumption
    <2>2. <<>> \in Seq(Records) /\ faults' \in Nat
        BY DEF FramesInv, Typed
    <2> QED BY <1>2, <2>1, <2>2 DEF Typed
<1>4. WriterStands'
    <2>1. currentRecordCount' = Len(written')
        BY <1>2
    <2> QED BY <1>1, <1>2, <2>1 DEF WriterStands
<1> QED BY <1>2, <1>3, <1>4 DEF FramesInv, RestFits, WriterStood

LEMMA StepRotate ==
    ASSUME WalFramesAssumption, FramesInv, Rotate
    PROVE  FramesInv'
<1>1. remaining = 0 /\ record \in Records
    BY DEF FramesInv, RestFits, Rotate, Typed
<1> QED BY <1>1, StepNewSegment DEF Rotate

LEMMA StepAppendStart ==
    ASSUME WalFramesAssumption, FramesInv, AppendStart
    PROVE  FramesInv'
<1>1. PICK size \in Sizes :
          /\ FramedSize(0, size) <= MaxSegmentBytes
          /\ IF ShouldRotateBeforeWrite(size) THEN NewSegment
             ELSE UNCHANGED <<file, position, written, zeroFirst>>
          /\ record' = [number |-> Len(written') + faults + 1, size |-> size]
          /\ remaining' = size
    BY DEF AppendStart
<1>2. /\ pc = "idle" /\ pc' = "append" /\ faults' = faults /\ faults \in Nat
      /\ size \in Nat /\ size > 0 /\ Typed /\ written \in Seq(Records)
    BY SMTT(20) DEF AppendStart, FramesInv, Typed, WalFramesAssumption
<1>3. PICK at \in Nat, off \in 0..BlockSize :
          at = currentSegmentBytes /\ off = currentBlockOffset
    BY <1>2 DEF Typed
<1>4. Reached' = 0
    <2>1. record'.size - remaining' = 0
        BY <1>1, <1>2
    <2> QED BY <1>2, <2>1 DEF Reached
<1>5. record'.number = NextNumber' /\ remaining' > 0
    BY <1>1, <1>2 DEF NextNumber
<1>6. ASSUME written' \in Seq(Records)
      PROVE  record' \in Records /\ remaining' \in 0..record'.size
    <2>1. Len(written') + faults + 1 \in Nat
        BY <1>2, <1>6
    <2>2. PICK n \in Nat : n = Len(written') + faults + 1
        BY <2>1
    <2> QED BY <1>1, <1>2, <2>2 DEF Records
<1>7. CASE ShouldRotateBeforeWrite(size)
    <2>1. /\ Place(0, 0)' /\ FramesKept'
          /\ currentSegmentBytes' = 0 /\ currentBlockOffset' = 0
          /\ currentRecordCount' = 0 /\ written' = <<>> /\ zeroFirst' = FALSE
          /\ DOMAIN file' = {} /\ IsFiniteSet(DOMAIN file')
          /\ file' \in [DOMAIN file' -> Frames]
        BY <1>1, <1>4, <1>7, NewSegmentIs
    <2>2. <<>> \in Seq(Records) /\ 0 \in 0..BlockSize
        BY DEF WalFramesAssumption
    <2>3. Typed'
        BY <1>2, <1>6, <2>1, <2>2 DEF Typed
    <2>4. WriterStands'
        <3>1. currentRecordCount' = Len(written')
            BY <2>1
        <3> QED BY <1>4, <2>1, <3>1 DEF WriterStands
    <2>5. RestFits'
        <3>1. FramedSize(0, size) \in Nat
            BY <1>2, <2>2, FramedSizeIs
        <3>2. (currentSegmentBytes + FramedSize(currentBlockOffset, remaining)
                  <= MaxSegmentBytes)'
            BY <1>1, <2>1, <3>1 DEF FramedSize
        <3> QED BY <1>2, <1>5, <3>2 DEF RestFits
    <2> QED BY <1>2, <2>1, <2>3, <2>4, <2>5 DEF FramesInv, WriterStood
<1>8. CASE ~ShouldRotateBeforeWrite(size)
    <2>1. /\ file' = file /\ written' = written /\ zeroFirst' = zeroFirst
          /\ currentRecordCount' = currentRecordCount
          /\ currentBlockOffset' = off /\ currentSegmentBytes' = at
        BY <1>1, <1>3, <1>8 DEF position
    <2>2. Typed'
        BY <1>2, <1>3, <1>6, <2>1 DEF Typed
    <2>3. /\ Place(at, off) /\ currentRecordCount = Len(written) /\ Reached = 0
        BY <1>2, <1>3 DEF FramesInv, WriterStands, Reached
    <2>4. ASSUME NEW r \in Readers, InStep(r, at)
          PROVE  InStep(r, at)'
        <3>1. Stuck(at) => Stuck(at)'
            BY <1>2, <2>1, StuckStays DEF Before
        <3>2. Clean(r) \/ (Holding(r) /\ Stuck(at))
            BY <1>2, <2>3, <2>4 DEF InStep, Half
        <3> QED BY <1>4, <3>1, <3>2 DEF InStep, Clean, Holding
    <2>5. Place(at, off)'
        BY <1>2, <2>1, <2>2, <2>3, <2>4, PlaceKept
    <2>6. WriterStands'
        BY <1>2, <1>4, <2>1, <2>3, <2>5 DEF WriterStands
    <2>7. FramesKept'
        BY <1>2, <2>1 DEF FramesInv, FramesKept, SegmentKeepsItsLength, NextNumber
    <2>8. at + FramedSize(off, size) <= MaxSegmentBytes
        <3>1. CASE currentRecordCount # 0 \/ currentSegmentBytes # 0
            <4>1. FramedSize(off, size) \in Nat /\ MaxSegmentBytes \in Nat
                BY <1>2, FramedSizeIs DEF MaxSegmentBytes, WalFramesAssumption
            <4>2. ~(at + FramedSize(off, size) > MaxSegmentBytes)
                BY <1>3, <1>8, <3>1 DEF ShouldRotateBeforeWrite
            <4> QED BY <4>1, <4>2
        <3>2. CASE currentSegmentBytes = 0
            <4>1. off = 0
                <5>1. PICK block \in Nat : 0 = BlockSize * block + off
                    BY <1>3, <2>3, <3>2 DEF Place, InBlock
                <5>2. BlockSize * block \in Nat
                    BY DEF WalFramesAssumption
                <5> QED BY <5>1, <5>2
            <4>2. FramedSize(0, size) \in Nat
                BY <1>2, FramedSizeIs DEF WalFramesAssumption
            <4> QED BY <1>1, <1>3, <3>2, <4>1, <4>2
        <3> QED BY <3>1, <3>2
    <2>9. RestFits'
        <3>1. (currentSegmentBytes + FramedSize(currentBlockOffset, remaining)
                  <= MaxSegmentBytes)'
            BY <1>1, <2>1, <2>8 DEF FramedSize
        <3> QED BY <1>2, <1>5, <3>1 DEF RestFits
    <2> QED BY <1>2, <2>2, <2>6, <2>7, <2>9 DEF FramesInv, WriterStood
<1> QED BY <1>7, <1>8

\* The record that failed has left a frame
LEMMA FailedLeavesFrame ==
    ASSUME WalFramesAssumption, FramesInv, pc = "append", Reached > 0,
           NEW at \in Nat, at = currentSegmentBytes, NEW b \in Nat, at <= b,
           \A p \in Before(at) : p \in DOMAIN file' /\ file'[p] = file[p],
           faults' = faults + 1, written' = written
    PROVE  Stuck(b)'
<1>1. PICK p \in Before(at) : file[p].record = record
    BY DEF FramesInv, WriterStands
<1>2. p \in Before(b)' /\ file'[p].record = record
    <2>1. p \in Nat /\ p < at /\ p \in DOMAIN file'
        BY <1>1 DEF Before, FramesInv, Typed
    <2> QED BY <1>1, <2>1 DEF Before
<1>3. /\ record.number = NextNumber /\ Len(written) \in Nat /\ faults \in Nat
      /\ written \in Seq(Records)
    BY DEF FramesInv, RestFits, Typed
<1>4. NextNumber \in Nat /\ NextNumber' = NextNumber + 1
    BY <1>3 DEF NextNumber
<1>5. record \notin ToSet(written')
    <2>1. SUFFICES ASSUME NEW i \in DOMAIN written, written[i] = record
                   PROVE  FALSE
        BY DEF ToSet
    <2>2. written[i].number < NextNumber
        BY DEF FramesInv, FramesKept
    <2> QED BY <1>3, <1>4, <2>1, <2>2
<1>6. record.number < NextNumber'
    BY <1>3, <1>4
<1>7. PICK rec : rec = record
    OBVIOUS
<1>8. file'[p].record \notin ToSet(written') /\ file'[p].record.number < NextNumber'
    BY <1>2, <1>5, <1>6
<1> QED BY <1>2, <1>8 DEF Stuck

\* The place behind the padding, with or without a header there
LEMMA PlaceAfterPadding ==
    ASSUME WalFramesAssumption, FramesInv, Typed', pc = "append",
           NEW at \in Nat, NEW off \in 0..BlockSize,
           at = currentSegmentBytes, off = currentBlockOffset,
           \/ file' = file
           \/ /\ file' = FileWith(HeaderOnly)
              /\ \/ Chunk > 0
                 \/ Chunk = 0 /\ pc' = "down" /\ zeroFirst',
           written' = written, zeroFirst => zeroFirst', faults <= faults',
           \A p \in Nat : at <= p /\
               (\A q \in Before(at) : q \in DOMAIN file' /\ file'[q] = file[q]) =>
                   \A r \in Readers : InStep(r, at) => InStep(r, p)'
    PROVE  Place(NextByte(at, off), NextOffset(off))'
<1>1. /\ Typed /\ FramesKept /\ RestFits /\ Place(at, off) /\ DOMAIN file \in SUBSET Nat
      /\ faults' \in Nat
    BY DEF FramesInv, WriterStands, Typed
<1>2. PICK b \in Nat, o \in 0..BlockSize :
          /\ b = NextByte(at, off) /\ o = NextOffset(off) /\ at <= b
          /\ NextOffset(o) = o /\ NextByte(b, o) = b /\ InBlock(b, o)
    <2>1. /\ NextByte(at, off) \in Nat /\ at <= NextByte(at, off)
          /\ NextOffset(off) \in 0..BlockSize
          /\ NextOffset(NextOffset(off)) = NextOffset(off)
          /\ NextByte(NextByte(at, off), NextOffset(off)) = NextByte(at, off)
          /\ InBlock(NextByte(at, off), NextOffset(off))
        BY <1>1, NextIs DEF Place
    <2> QED BY <2>1
<1>3. at \in DOMAIN file => b = at
    BY <1>1, <1>2, NextIs DEF Place, FramesBefore, Leftover
<1>4. \A p \in DOMAIN file : p # b => p < at /\ p < b
    <2>1. ASSUME NEW p \in DOMAIN file, p # b
          PROVE  p < at /\ p < b
        <3>1. p <= at /\ p # at /\ p \in Nat
            BY <1>1, <1>3, <2>1 DEF Place, FramesBefore
        <3> QED BY <1>2, <3>1
    <2> QED BY <2>1
<1>5. Before(b) = Before(at)
    <2>1. \A p \in DOMAIN file : p < b <=> p < at
        BY <1>1, <1>2, <1>4
    <2> QED BY <2>1 DEF Before
<1>6. /\ \A p \in DOMAIN file' : p = b \/ p \in DOMAIN file
      /\ \A p \in Before(at) : p \in DOMAIN file' /\ file'[p] = file[p]
      /\ Leftover(b, o)'
    <2>1. CASE file' = file
        <3>1. Leftover(b, o)'
            <4>1. SUFFICES ASSUME b \in DOMAIN file
                           PROVE  Leftover(b, o)'
                BY <2>1 DEF Leftover
            <4>2. b = at
                BY <1>1, <1>2, <4>1 DEF Place, FramesBefore
            <4> QED BY <1>1, <1>2, <2>1, <4>1, <4>2 DEF Place, FramesBefore, Leftover
        <3> QED BY <2>1, <3>1 DEF Before
    <2>2. CASE /\ file' = FileWith(HeaderOnly)
               /\ Chunk > 0 \/ (Chunk = 0 /\ pc' = "down" /\ zeroFirst')
        <3>1. /\ Chunk \in Nat /\ From \in Nat /\ Left \in Nat
              /\ From + Chunk + Left = record.size /\ Chunk + Left = remaining
            BY <1>1, FrameIs
        <3>2. remaining > 0 /\ remaining <= record.size /\ record.size \in Nat
            BY <1>1 DEF RestFits, Typed, Records
        <3>3. PICK f \in Frames :
                  /\ f = HeaderOnly /\ f.from = From /\ f.upto = From + Chunk
                  /\ f.record = NoRecord /\ f.type = Frame.type
            BY <1>1, FrameHolds
        <3>4. /\ DOMAIN file' = DOMAIN file \cup {b} /\ file'[b] = f
              /\ \A p \in DOMAIN file : p # b => file'[p] = file[p]
            BY <1>1, <1>2, <2>2, <3>3, FileWithIs
        <3>5. f.type \in {"full", "last"} => Left = 0
            <4>1. /\ From = 0 /\ Left > 0 => f.type = "first"
                  /\ From > 0 /\ Left > 0 => f.type = "middle"
                BY <1>1, <3>3, FrameHolds
            <4> QED BY <3>1, <4>1
        <3>6. /\ Left = 0 => f.upto > 0
              /\ Chunk > 0 => f.upto > 0
            BY <3>1, <3>2, <3>3
        <3>7. f.upto = 0 => Chunk = 0
            BY <3>1, <3>3
        <3>9. Leftover(b, o)'
            BY <1>2, <2>2, <3>1, <3>3, <3>4, <3>5, <3>6, <3>7 DEF Leftover
        <3>10. \A p \in Before(at) : p # b
            BY <1>2, <1>1 DEF Before
        <3> QED BY <3>4, <3>9, <3>10 DEF Before
    <2> QED BY <2>1, <2>2
<1>7. Stuck(at) => Stuck(b)'
    BY <1>1, <1>2, <1>6, StuckStays
<1>8. \A r \in Readers : InStep(r, at) => InStep(r, b)'
    BY <1>2, <1>6
<1>9. \A p \in DOMAIN file' : p <= b /\ (p < b => p \in Before(at))
    <2>1. ASSUME NEW p \in DOMAIN file'
          PROVE  p <= b /\ (p < b => p \in Before(at))
        <3>1. CASE p = b
            BY <1>2, <3>1
        <3>2. CASE p # b
            <4>1. p \in DOMAIN file /\ p < at /\ p < b /\ p \in Nat
                BY <1>1, <1>4, <1>6, <3>2
            <4> QED BY <1>2, <4>1 DEF Before
        <3> QED BY <3>1, <3>2
    <2> QED BY <2>1
<1>10. Place(b, o)'
    BY <1>1, <1>2, <1>5, <1>6, <1>7, <1>8, <1>9, PlaceMoves
<1> QED BY <1>2, <1>10

LEMMA StepWriteFails ==
    ASSUME WalFramesAssumption, FramesInv, WriteFails
    PROVE  FramesInv'
<1>1. PICK at \in Nat, off \in 0..BlockSize :
          at = currentSegmentBytes /\ off = currentBlockOffset
    BY DEF FramesInv, Typed
<1>2. /\ Typed /\ FramesKept /\ RestFits /\ Place(at, off) /\ pc = "append"
      /\ currentRecordCount = Len(written) /\ faults \in Nat /\ written \in Seq(Records)
    BY <1>1 DEF FramesInv, WriterStands, WriteFails, Typed
<1>3. /\ faults' = faults + 1 /\ record' = NoRecord /\ remaining' = 0 /\ pc' = "idle"
      /\ written' = written /\ zeroFirst' = zeroFirst
    BY DEF WriteFails
<1>4. Reached' = 0 /\ faults' \in Nat /\ faults <= faults'
    BY <1>2, <1>3 DEF Reached
<1>5. ASSUME NEW b \in Nat, at <= b, NEW r \in Readers, InStep(r, at),
             \A q \in Before(at) : q \in DOMAIN file' /\ file'[q] = file[q]
      PROVE  InStep(r, b)'
    <2>1. CASE Reached = 0 /\ Clean(r)
        BY <1>4, <2>1 DEF InStep, Clean
    <2>2. CASE Reached > 0 /\ Holding(r) /\ Following(r)
        <3>1. Stuck(b)'
            BY <1>1, <1>2, <1>3, <1>5, <2>2, FailedLeavesFrame
        <3> QED BY <2>2, <3>1 DEF InStep, Holding
    <2>3. CASE Holding(r) /\ Stuck(at)
        <3>1. Stuck(b)'
            BY <1>2, <1>3, <1>4, <1>5, <2>3, StuckStays
        <3> QED BY <2>3, <3>1 DEF InStep, Holding
    <2>4. ~Half(r)
        BY <1>2 DEF Half
    <2> QED BY <1>5, <2>1, <2>2, <2>3, <2>4 DEF InStep
<1>6. \A b \in Nat : at <= b /\
          (\A q \in Before(at) : q \in DOMAIN file' /\ file'[q] = file[q]) =>
              \A r \in Readers : InStep(r, at) => InStep(r, b)'
    BY <1>5
<1>7. record' \in Records /\ remaining' \in 0..record'.size
    BY <1>3 DEF Records, NoRecord
<1>8. NextNumber \in Nat /\ NextNumber' \in Nat /\ NextNumber <= NextNumber'
    BY <1>2, <1>3 DEF NextNumber
<1>9. ASSUME SegmentKeepsItsLength'
      PROVE  FramesKept'
    <2>1. ASSUME NEW i \in DOMAIN written
          PROVE  written[i].size > 0 /\ written[i].number < NextNumber'
        <3>1. written[i] \in Records
            BY <1>2
        <3>2. written[i].number \in Nat
            BY <3>1 DEF Records
        <3>3. written[i].size > 0 /\ written[i].number < NextNumber
            BY <1>2 DEF FramesKept
        <3> QED BY <1>8, <3>2, <3>3
    <2> QED BY <1>3, <1>9, <2>1 DEF FramesKept
<1>10. RestFits' /\ WriterStood'
    BY <1>3 DEF RestFits, WriterStood
<1>11. CASE UNCHANGED <<file, position>>
    <2>1. /\ file' = file /\ currentRecordCount' = currentRecordCount
          /\ currentSegmentBytes' = at /\ currentBlockOffset' = off
        BY <1>1, <1>11 DEF position
    <2>2. Typed'
        BY <1>1, <1>2, <1>3, <1>4, <1>7, <2>1 DEF Typed
    <2>3. \A r \in Readers : InStep(r, at) => InStep(r, at)'
        BY <1>5, <2>1 DEF Before
    <2>4. Place(at, off)'
        BY <1>2, <1>3, <1>4, <2>1, <2>2, <2>3, PlaceKept
    <2>5. WriterStands'
        BY <1>2, <1>3, <1>4, <2>1, <2>4 DEF WriterStands
    <2>6. SegmentKeepsItsLength'
        BY <1>2, <2>1 DEF FramesKept, SegmentKeepsItsLength
    <2> QED BY <1>9, <1>10, <2>2, <2>5, <2>6 DEF FramesInv
<1>12. CASE /\ file' \in {file} \cup IF Chunk > 0 THEN {FileWith(HeaderOnly)} ELSE {}
            /\ currentBlockOffset' = FrameOffset
            /\ currentSegmentBytes' = currentSegmentBytes + Padding
            /\ UNCHANGED currentRecordCount
    <2>1. PICK b \in Nat, o \in 0..BlockSize : b = NextByte(at, off) /\ o = NextOffset(off)
        BY NextIs
    <2>2. /\ currentRecordCount' = currentRecordCount
          /\ currentSegmentBytes' = b /\ currentBlockOffset' = o
        BY <1>1, <1>2, <1>12, <2>1, FrameIs
    <2>3. file' = file \/ (Chunk > 0 /\ file' = FileWith(HeaderOnly))
        BY <1>12
    <2>4. /\ DOMAIN file' \in SUBSET Nat /\ IsFiniteSet(DOMAIN file')
          /\ file' \in [DOMAIN file' -> Frames] /\ SegmentKeepsItsLength'
        <3>1. CASE file' = file
            BY <1>2, <3>1 DEF Typed, FramesKept, SegmentKeepsItsLength
        <3>2. CASE file' = FileWith(HeaderOnly)
            <4>1. PICK f \in Frames : f = HeaderOnly /\ f.from = From /\ f.upto = From + Chunk
                BY <1>2, FrameHolds
            <4> QED BY <1>1, <1>2, <2>1, <3>2, <4>1, FileWithIs
        <3> QED BY <2>3, <3>1, <3>2
    <2>5. Typed'
        BY <1>2, <1>3, <1>4, <1>7, <2>2, <2>4 DEF Typed
    <2>6. Place(b, o)'
        BY <1>1, <1>2, <1>3, <1>4, <1>6, <2>1, <2>3, <2>5, PlaceAfterPadding
    <2>7. WriterStands'
        BY <1>2, <1>3, <1>4, <2>2, <2>6 DEF WriterStands
    <2> QED BY <1>9, <1>10, <2>4, <2>5, <2>7 DEF FramesInv
<1> QED BY <1>11, <1>12 DEF WriteFails

\* A process that ends leaves the reader with the fragments of a record
LEMMA CrashLeavesHalf ==
    ASSUME Typed, pc # "down", pc' = "down", written' = written, faults' = faults,
           zeroFirst => zeroFirst',
           NEW at \in Nat, NEW b \in Nat, at <= b,
           \A q \in Before(at) : q \in DOMAIN file' /\ file'[q] = file[q],
           NEW r \in Readers, InStep(r, at)
    PROVE  InStep(r, b)'
<1>1. Reached' = 0 /\ faults' \in Nat /\ faults <= faults' /\ r.assembled \in Seq(Frames)
    BY DEF Reached, Typed, Readers
<1>2. CASE Reached = 0 /\ Clean(r)
    BY <1>1, <1>2 DEF InStep, Clean
<1>3. CASE Reached > 0 /\ Holding(r) /\ Following(r)
    <2>1. Len(r.assembled) \in DOMAIN r.assembled
        BY <1>1, <1>3 DEF Holding
    <2>2. r.assembled[Len(r.assembled)].upto > 0
        BY <1>3 DEF Following, Follows
    <2>3. Half(r)'
        BY <2>1, <2>2 DEF Half
    <2> QED BY <1>3, <2>3 DEF InStep, Holding
<1>4. CASE Holding(r) /\ Stuck(at)
    <2>1. Stuck(b)'
        BY <1>1, <1>4, StuckStays
    <2> QED BY <1>4, <2>1 DEF InStep, Holding
<1>5. ~Half(r)
    BY DEF Half
<1> QED BY <1>2, <1>3, <1>4, <1>5 DEF InStep

LEMMA StepCrash ==
    ASSUME WalFramesAssumption, FramesInv, Crash
    PROVE  FramesInv'
<1>1. PICK at \in Nat, off \in 0..BlockSize :
          at = currentSegmentBytes /\ off = currentBlockOffset
    BY DEF FramesInv, Typed
<1>2. /\ Typed /\ FramesKept /\ Place(at, off) /\ pc # "down" /\ faults \in Nat
    BY <1>1 DEF FramesInv, WriterStands, Crash, Typed
<1>3. /\ file' = file /\ written' = written /\ zeroFirst' = zeroFirst /\ faults' = faults
      /\ pc' = "down" /\ currentRecordCount' = 0 /\ currentBlockOffset' = 0
      /\ currentSegmentBytes' = 0 /\ record' = NoRecord /\ remaining' = 0
    BY DEF Crash, Down
<1>4. Typed'
    <2>1. NoRecord \in Records /\ 0 \in 0..NoRecord.size /\ 0 \in 0..BlockSize
        BY DEF NoRecord, Records, WalFramesAssumption
    <2> QED BY <1>2, <1>3, <2>1 DEF Typed
<1>5. \A r \in Readers : InStep(r, at) => InStep(r, at)'
    BY <1>2, <1>3, CrashLeavesHalf DEF Before
<1>6. Place(at, off)'
    BY <1>2, <1>3, <1>4, <1>5, PlaceKept
<1>7. FramesKept'
    BY <1>2, <1>3 DEF FramesKept, SegmentKeepsItsLength, NextNumber
<1> QED BY <1>3, <1>4, <1>6, <1>7 DEF FramesInv, WriterStands, RestFits, WriterStood

LEMMA StepCrashInFrame ==
    ASSUME WalFramesAssumption, FramesInv, CrashInFrame
    PROVE  FramesInv'
<1>1. PICK at \in Nat, off \in 0..BlockSize :
          at = currentSegmentBytes /\ off = currentBlockOffset
    BY DEF FramesInv, Typed
<1>2. /\ Typed /\ FramesKept /\ RestFits /\ Place(at, off) /\ pc = "append" /\ faults \in Nat
    BY <1>1 DEF FramesInv, WriterStands, CrashInFrame, Typed
<1>3. /\ written' = written /\ faults' = faults
      /\ pc' = "down" /\ currentRecordCount' = 0 /\ currentBlockOffset' = 0
      /\ currentSegmentBytes' = 0 /\ record' = NoRecord /\ remaining' = 0
      /\ file' = FileWith(HeaderOnly)
    BY DEF CrashInFrame, Down
<1>4. /\ zeroFirst' \in BOOLEAN /\ (zeroFirst => zeroFirst') /\ (Chunk = 0 => zeroFirst')
    <2>1. zeroFirst' = (zeroFirst \/ Chunk = 0)
        BY DEF CrashInFrame
    <2> QED BY <2>1
<1>5. PICK b \in Nat, o \in 0..BlockSize : b = NextByte(at, off) /\ o = NextOffset(off)
    BY NextIs
<1>6. /\ DOMAIN file' \in SUBSET Nat /\ IsFiniteSet(DOMAIN file')
      /\ file' \in [DOMAIN file' -> Frames] /\ SegmentKeepsItsLength'
    <2>1. PICK f \in Frames : f = HeaderOnly /\ f.from = From /\ f.upto = From + Chunk
        BY <1>2, FrameHolds
    <2> QED BY <1>1, <1>2, <1>3, <1>5, <2>1, FileWithIs
<1>7. Typed'
    <2>1. NoRecord \in Records /\ 0 \in 0..NoRecord.size /\ 0 \in 0..BlockSize
        BY DEF NoRecord, Records, WalFramesAssumption
    <2>2. written \in Seq(Records)
        BY <1>2 DEF Typed
    <2> QED BY <1>2, <1>3, <1>4, <1>6, <2>1, <2>2 DEF Typed
<1>8. \A p \in Nat : at <= p /\
          (\A q \in Before(at) : q \in DOMAIN file' /\ file'[q] = file[q]) =>
              \A r \in Readers : InStep(r, at) => InStep(r, p)'
    BY <1>2, <1>3, <1>4, CrashLeavesHalf
<1>9. Place(b, o)'
    <2>1. Chunk > 0 \/ Chunk = 0
        BY <1>1, <1>2, FrameIs
    <2>2. faults <= faults'
        BY <1>2, <1>3
    <2> QED BY <1>1, <1>2, <1>3, <1>4, <1>5, <1>7, <1>8, <2>1, <2>2, PlaceAfterPadding
<1>10. FramesKept'
    BY <1>2, <1>3, <1>6 DEF FramesKept, NextNumber
<1> QED BY <1>3, <1>7, <1>9, <1>10 DEF FramesInv, WriterStands, RestFits, WriterStood

LEMMA StepReopen ==
    ASSUME WalFramesAssumption, FramesInv, Reopen
    PROVE  FramesInv'
<1>1. /\ Typed /\ FramesKept /\ pc = "down" /\ pc' = "idle" /\ remaining = 0 /\ remaining' = 0
      /\ record' = record /\ record \in Records /\ faults' = faults /\ faults \in Nat
      /\ Scanned.status = "eof" /\ written \in Seq(Records)
    BY DEF FramesInv, RestFits, Reopen, Typed
<1>2. PICK at \in Nat, off \in 0..BlockSize : Place(at, off)
    BY SomePlace
<1>3. PICK m \in Nat, b \in Nat, o \in 0..BlockSize : StopsAt(m, b, o)
    BY <1>1, <1>2, ScannedSomewhere
<1>4. /\ Scanned.records = written /\ Scanned.bytesRead = b /\ Scanned.blockOffset = o
      /\ Reading[m] \in Readers
    BY <1>1, <1>3, StopsWith
<1>5. CASE SegmentFull(Len(Scanned.records), Scanned.bytesRead)
    <2>1. NewSegment
        BY <1>5 DEF Reopen
    <2> QED BY <1>1, <2>1, StepNewSegment
<1>6. CASE ~SegmentFull(Len(Scanned.records), Scanned.bytesRead)
    <2>1. /\ file' = file /\ written' = written /\ zeroFirst' = zeroFirst
          /\ currentRecordCount' = Len(written) /\ currentBlockOffset' = o
          /\ currentSegmentBytes' = b
        BY <1>4, <1>6 DEF Reopen
    <2>2. Typed'
        <3>1. Len(written) \in Nat
            BY <1>1
        <3> QED BY <1>1, <2>1, <3>1 DEF Typed
    <2>3. /\ m <= Cardinality(Before(b)) /\ Reads(m, b)
          /\ Reading[m].status = "reading"
          /\ Aligned(Reading[m]).bytesRead = b /\ Aligned(Reading[m]).blockOffset = o
          /\ Reading[m].records = written
          /\ InBlock(b, o) /\ NextOffset(o) = o
          /\ \A p \in DOMAIN file : p < b /\ End(p) <= b
          /\ Clean(Reading[m]) \/ (Holding(Reading[m]) /\ Stuck(b))
        BY <1>3 DEF StopsAt
    <2>4. FileTyped /\ FileTyped' /\ DOMAIN file \in SUBSET Nat
        BY <1>1, <2>1, FileIs DEF Typed, FileTyped
    <2>5. Before(b)' = Before(b)
        BY <2>1 DEF Before
    <2>6. Reading'[m] = Reading[m] /\ Reads(m, b)'
        BY <2>1, <2>3, <2>4, ReadsSame DEF Before
    <2>7. PICK r \in Readers : r = Reading[m] /\ r = Reading'[m]
        BY <1>4, <2>6
    <2>8. Stuck(b) => Stuck(b)'
        BY <2>1, <1>1, <2>5 DEF Stuck, NextNumber
    <2>9. InStep(r, b)'
        <3>1. Reached' = 0
            BY <1>1 DEF Reached
        <3> QED BY <2>3, <2>7, <2>8, <3>1 DEF InStep, Clean, Holding
    <2>10. ReaderAt(r, b, o)'
        <3>1. NextByte(b, o) = b
            BY <2>3, NextIs
        <3> QED BY <2>1, <2>3, <2>7, <3>1 DEF ReaderAt
    <2>11. ReaderIn(b, o)'
        <3>1. m \in 0..Cardinality(Before(b)')
            <4>1. Cardinality(Before(b)) \in Nat
                BY <1>1, BeforeIs
            <4> QED BY <2>3, <2>5, <4>1
        <3> QED BY <2>6, <2>7, <2>9, <2>10, <3>1 DEF ReaderIn
    <2>12. FramesBefore(b, o)'
        <3>1. b \notin DOMAIN file
            BY <2>3
        <3>2. \A p \in DOMAIN file' : End(p)' <= b /\ p <= b
            BY <2>1, <2>3, <2>4 DEF End
        <3>3. Leftover(b, o)'
            BY <2>1, <3>1 DEF Leftover
        <3> QED BY <3>2, <3>3 DEF FramesBefore
    <2>13. Place(b, o)'
        BY <2>3, <2>11, <2>12 DEF Place, InBlock
    <2>14. WriterStands'
        <3>1. Reached' = 0
            BY <1>1 DEF Reached
        <3> QED BY <2>1, <2>13, <3>1 DEF WriterStands
    <2>15. FramesKept'
        BY <1>1, <2>1 DEF FramesKept, SegmentKeepsItsLength, NextNumber
    <2>16. RestFits' /\ WriterStood'
        BY <1>1 DEF RestFits, WriterStood
    <2> QED BY <2>2, <2>14, <2>15, <2>16 DEF FramesInv
<1> QED BY <1>5, <1>6

-----------------------------------------------------------------------------
(* The theorems *)

LEMMA InvHolds == Spec => []FramesInv
<1>0. WalFramesAssumption
    BY WalFramesAssumption
<1>1. Init => FramesInv
    BY <1>0, InitFramesInv
<1>2. FramesInv /\ [Next]_vars => FramesInv'
    <2> SUFFICES ASSUME FramesInv, [Next]_vars
                 PROVE  FramesInv'
        OBVIOUS
    <2>1. CASE AppendStart
        BY <1>0, <2>1, StepAppendStart
    <2>2. CASE WriteFrame
        BY <1>0, <2>2, StepWriteFrame
    <2>3. CASE WriteFails
        BY <1>0, <2>3, StepWriteFails
    <2>4. CASE Rotate
        BY <1>0, <2>4, StepRotate
    <2>5. CASE Crash
        BY <1>0, <2>5, StepCrash
    <2>6. CASE CrashInFrame
        BY <1>0, <2>6, StepCrashInFrame
    <2>7. CASE Reopen
        BY <1>0, <2>7, StepReopen
    <2>8. CASE ReopenFails
        <3>1. UNCHANGED vars
            BY <2>8 DEF ReopenFails
        <3> QED BY <1>0, <3>1, StepStutter
    <2>9. CASE UNCHANGED vars
        BY <1>0, <2>9, StepStutter
    <2> QED BY <2>1, <2>2, <2>3, <2>4, <2>5, <2>6, <2>7, <2>8, <2>9 DEF Next
<1> QED BY <1>1, <1>2, PTL DEF Spec

\* The state of the log of one segment is what its code declares, for every size of a
\* block, of a header, of a segment and of a record (wal.go:20-44, record.go:40-62).
THEOREM FramesTyped == Spec => []Typed
<1>1. FramesInv => Typed
    BY DEF FramesInv
<1> QED BY <1>1, InvHolds, PTL

\* No frame reaches over the end of a block or of the segment, and none is written over
\* another: what framedSize counts before the first frame of a record holds after its last,
\* also where appends failed and the log was reopened (wal.go:355-362, 450-477).
THEOREM SegmentLengthKept == Spec => []SegmentKeepsItsLength
<1>1. FramesInv => SegmentKeepsItsLength
    BY DEF FramesInv, FramesKept
<1> QED BY <1>1, InvHolds, PTL

\* Whatever was being written when the process ended, the reader finds exactly the records
\* that were written in full, in their order, or reports an error (record.go:163-271).
THEOREM NothingIsMisread == Spec => []NeverMisread
<1>1. FramesInv => NeverMisread
    BY WalFramesAssumption, InvNeverMisreads
<1> QED BY <1>1, InvHolds, PTL

\* Between two appends the reader stops where the writer stands, with the same count, unless
\* a frame has no data or a failed append left one (wal.go:92-128, 236-257, 288-306).
THEOREM LogReopensWhereItStood == Spec => []ReopenedWhereItStood
<1>1. FramesInv => ReopenedWhereItStood
    BY WalFramesAssumption, InvReopens
<1> QED BY <1>1, InvHolds, PTL
=============================================================================
