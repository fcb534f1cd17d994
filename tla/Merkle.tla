------------------------------- MODULE Merkle -------------------------------
(***************************************************************************)
(* ValidateMerkle of one table (internal/sstable) and the tree it reads    *)
(* (internal/merkle): the table's data file is compared, entry by entry,   *)
(* with the hashes kept in its metadata file, after bytes of either file   *)
(* were changed, cut off or added behind the engine's back.                *)
(*                                                                         *)
(* A file is a sequence of bytes; there are few different bytes, and a     *)
(* size takes one byte instead of four.  A hash is the value it is taken   *)
(* of, so that SHA-256 is taken to be injective.                           *)
(***************************************************************************)
EXTENDS Integers, Sequences, SequencesExt, FiniteSets

CONSTANTS
    Tables,            \* sequences of entries that tables are created with
    MaxByte,           \* a byte is in 0..MaxByte
    MaxDamages         \* bound: changes made to the files

Byte == 0 .. MaxByte

ASSUME MerkleAssumption ==
    /\ MaxByte \in Nat \ {0}
    /\ MaxDamages \in Nat
    /\ Tables \subseteq Seq([deleted : BOOLEAN, key : Seq(Byte), value : Seq(Byte)])
    /\ \A t \in Tables : \A i \in DOMAIN t : {Len(t[i].key), Len(t[i].value)} \subseteq Byte

VARIABLES
    table,             \* the entries that the table was created with
    data,              \* the bytes of the data file
    metadata,          \* the metadata file: [count, leaves]
    damages            \* bound

vars == <<table, data, metadata, damages>>

-----------------------------------------------------------------------------
(* The tree *)

Hash(v) == [hash |-> v]

\* A hash that a changed byte leaves in the metadata
OtherHash == [other |-> 0]

CombinedLeftTwice(left, right) == Hash([left |-> left, right |-> left])
Combined(left, right) == Hash([left |-> left, right |-> right])

\* newFromLeaves: an odd last node is combined with itself
Level(current) ==
    [i \in 1 .. (Len(current) + 1) \div 2 |->
        Combined(current[2 * i - 1],
                 current[IF 2 * i <= Len(current) THEN 2 * i ELSE 2 * i - 1])]

\* The loop ends at a level of one node
Above(current) == IF Len(current) <= 1 THEN current ELSE Level(current)

Root(leaves) ==
    LET level[n \in Nat] == IF n = 0 THEN leaves ELSE Above(level[n - 1])
    IN  level[Len(leaves)][1]

-----------------------------------------------------------------------------
(* The files *)

SerializeEntry(e) ==
    <<IF e.deleted THEN 1 ELSE 0, Len(e.key), Len(e.value)>> \o e.key \o e.value

Serialized(entries) == [i \in DOMAIN entries |-> SerializeEntry(entries[i])]

Leaves(entries) == [i \in DOMAIN entries |-> Hash(SerializeEntry(entries[i]))]

HeaderSize == 3

\* io.ReadFull of n bytes behind the first p: none is read at the end of the file
ReadFull(p, n) ==
    CASE n = 0 \/ p + n <= Len(data) -> "ok"
      [] n > 0 /\ p = Len(data) -> "eof"
      [] OTHER -> "unexpected eof"

KeySize(p) == data[p + 2]
ValueSize(p) == data[p + 3]
EntryEnd(p) == p + HeaderSize + KeySize(p) + ValueSize(p)

\* How DeserializeEntry ends behind the first p bytes
Outcome(p) ==
    IF ReadFull(p, HeaderSize) # "ok" THEN ReadFull(p, HeaderSize)
    ELSE LET k == p + HeaderSize IN
         IF ReadFull(k, KeySize(p)) # "ok" THEN ReadFull(k, KeySize(p))
         ELSE ReadFull(k + KeySize(p), ValueSize(p))

EntryAtAnyFlag(p) ==
    [deleted |-> data[p + 1] # 0,
     key |-> SubSeq(data, p + HeaderSize + 1, p + HeaderSize + KeySize(p)),
     value |-> SubSeq(data, p + HeaderSize + KeySize(p) + 1, EntryEnd(p))]

EntryAt(p) ==
    [deleted |-> data[p + 1] = 1,
     key |-> SubSeq(data, p + HeaderSize + 1, p + HeaderSize + KeySize(p)),
     value |-> SubSeq(data, p + HeaderSize + KeySize(p) + 1, EntryEnd(p))]

-----------------------------------------------------------------------------
(* ValidateMerkle *)

MatchesLeaf(index, value) ==
    index \in DOMAIN metadata.leaves /\ metadata.leaves[index] = Hash(value)

\* Where the loop stands in the data file after n entries: it stays where it cannot read on
Beyond(p) == IF Outcome(p) = "ok" THEN EntryEnd(p) ELSE p
Offset[n \in Nat] == IF n = 0 THEN 0 ELSE Beyond(Offset[n - 1])

\* The entries that it finds, and how the last read ends.  The end of the file counts as
\* such also behind a header, or a header and a key
EntryCount ==
    CHOOSE n \in 0 .. Len(data) :
        Outcome(Offset[n]) # "ok" /\ \A m \in 0 .. n - 1 : Outcome(Offset[m]) = "ok"
EntriesFound == [i \in 1 .. EntryCount |-> EntryAt(Offset[i - 1])]
LastOutcome == Outcome(Offset[EntryCount])

\* validateDataAgainstMerkle
ChangedFound(entries) ==
    {i \in DOMAIN entries : ~MatchesLeaf(i, SerializeEntry(entries[i]))}
Changed(entries) ==
    {i \in 1 .. Len(entries) + Len(metadata.leaves) :
        IF i <= Len(entries) THEN ~MatchesLeaf(i, SerializeEntry(entries[i]))
        ELSE i <= Len(metadata.leaves)}

\* DeserializeFromReader: as many leaves as counted, and nothing behind them
MetadataReadable == metadata.count = Len(metadata.leaves)

Failed == [ok |-> FALSE]

ValidateMerkle ==
    IF ~MetadataReadable \/ LastOutcome # "eof" THEN Failed
    ELSE [ok |-> TRUE, changed |-> Changed(EntriesFound)]

-----------------------------------------------------------------------------

Init ==
    /\ table \in Tables
    /\ data = FlattenSeq(Serialized(table))
    /\ metadata = [count |-> Len(table), leaves |-> Leaves(table)]
    /\ damages = 0

Damage == damages < MaxDamages /\ damages' = damages + 1 /\ UNCHANGED table

ChangeByte ==
    /\ Damage
    /\ \E i \in DOMAIN data, b \in Byte : data' = [data EXCEPT ![i] = b]
    /\ UNCHANGED metadata

CutData ==
    /\ Damage
    /\ \E n \in 0 .. Len(data) - 1 : data' = SubSeq(data, 1, n)
    /\ UNCHANGED metadata

AddByte ==
    /\ Damage
    /\ \E b \in Byte : data' = Append(data, b)
    /\ UNCHANGED metadata

ChangeLeaf ==
    /\ Damage
    /\ \E i \in DOMAIN metadata.leaves : metadata' = [metadata EXCEPT !.leaves[i] = OtherHash]
    /\ UNCHANGED data

CutMetadata ==
    /\ Damage
    /\ \E n \in 0 .. Len(metadata.leaves) - 1 :
           metadata' = [metadata EXCEPT !.leaves = SubSeq(@, 1, n)]
    /\ UNCHANGED data

ChangeCount ==
    /\ Damage
    /\ \E n \in 0 .. Len(metadata.leaves) + 1 : metadata' = [metadata EXCEPT !.count = n]
    /\ UNCHANGED data

Next == ChangeByte \/ CutData \/ AddByte \/ ChangeLeaf \/ CutMetadata \/ ChangeCount

Spec == Init /\ [][Next]_vars

-----------------------------------------------------------------------------
(* Properties *)

\* The bytes that the table was created with, and where its entries begin and end in them
written == FlattenSeq(Serialized(table))
Begin(i) == Len(FlattenSeq(Serialized(SubSeq(table, 1, i - 1))))
End(i) == Begin(i + 1)

\* A byte that a reader takes for the one written: a deleted flag is 1 or is not
SameByte(i) ==
    \/ data[i] = written[i]
    \/ /\ \E e \in DOMAIN table : i = Begin(e) + 1
       /\ written[i] # 1 /\ data[i] # 1

Intact(from, upto) ==
    /\ upto <= Len(data)
    /\ \A i \in from + 1 .. upto : SameByte(i)

MetadataIntact == metadata = [count |-> Len(table), leaves |-> Leaves(table)]

\* No change to what was written goes unnoticed as long as the number of leaves is what it
\* was: a table is valid only if its data still begins with every byte written.  Changed
\* sizes that make the reader find other entries at other places cannot hide a change
\* (sstable.go:218-233, 342-372).
DamageDetected ==
    Len(metadata.leaves) = Len(table) /\ ValidateMerkle = [ok |-> TRUE, changed |-> {}]
        => Intact(0, Len(written)) /\ MetadataIntact

\* No false alarm: what is reported as changed lies behind a change, and where no size was
\* changed and no byte is missing, exactly the changed entries are reported, of those the
\* table was created with (sstable.go:358-369).
ChangesLocated ==
    LET result == ValidateMerkle
        sizes == UNION {{Begin(e) + 2, Begin(e) + 3} : e \in DOMAIN table}
    IN  result.ok /\ MetadataIntact =>
            /\ \A i \in result.changed \cap DOMAIN table : ~Intact(0, End(i))
            /\ Len(data) >= Len(written) /\ (\A i \in sizes : data[i] = written[i])
                 => result.changed \cap DOMAIN table
                        = {e \in DOMAIN table : ~Intact(Begin(e), End(e))}

\* Two tables of as many entries have the same root only if they have the same entries,
\* though an odd node is combined with itself (tree.go:140-168).
RootDistinguishes ==
    Len(EntriesFound) = Len(table) /\ Root(Leaves(EntriesFound)) = Root(Leaves(table))
        => Leaves(EntriesFound) = Leaves(table)
=============================================================================
