------------------------------ MODULE SSTable ------------------------------
(***************************************************************************)
(* The files of one table directory (internal/sstable): the order in which *)
(* they are written, what an interrupted write leaves, and what Lookup     *)
(* finds for a key by way of filter, summary, index and data.              *)
(*                                                                         *)
(* The engine may write one directory more than once, with other entries,  *)
(* when an attempt fails; the module shows what the engine's model takes   *)
(* for granted: that a lookup in a directory with files of two attempts    *)
(* finds what one of them wrote, or nothing.                               *)
(*                                                                         *)
(* Keys are numbers in the order of the strings.  A file is the sequence   *)
(* of its items; one cut short holds the first of them.  Reading at an     *)
(* offset where no entry begins finds no entry with the key looked for.    *)
(***************************************************************************)
EXTENDS Integers, Sequences, SequencesExt, FiniteSets

CONSTANTS
    Keys,
    Values,
    Absent,
    Tombstone,
    Size,                 \* value or Tombstone -> bytes of its entry
    FnvHash,              \* key -> its 32-bit hash
    FilterSize,           \* bits of a Bloom filter
    SummarySteps,         \* summaryStep, which a new configuration may change
    MaxAttempts           \* bound: attempts at writing the table

ASSUME SSTableAssumption ==
    /\ Keys \subseteq Nat /\ IsFiniteSet(Keys)
    /\ Absent \notin Values \cup {Tombstone}
    /\ Tombstone \notin Values
    /\ Size \in [Values \cup {Tombstone} -> Nat \ {0}]
    /\ FnvHash \in [Keys -> Nat]
    /\ FilterSize \in Nat \ {0}
    /\ SummarySteps \subseteq Nat \ {0}
    /\ MaxAttempts \in Nat

VARIABLES
    data, index, summary, filter,   \* the files, NoFile as long as they are missing
    entries,                        \* what the attempt that runs, or ran last, writes
    summaryStep,
    pc,                             \* the file to write next, or "idle" or "complete"
    \* bound and history
    attempts,
    tried                           \* the entries of earlier attempts

vars == <<data, index, summary, filter, entries, summaryStep, pc, attempts, tried>>

NoFile == [exists |-> FALSE, items |-> <<>>]
File(items) == [exists |-> TRUE, items |-> items]

Nothing == [k \in Keys |-> Absent]
Held(e) == {k \in Keys : e[k] # Absent}

-----------------------------------------------------------------------------
(* What is written *)

\* The i-th of the keys, which has i - 1 of them below it
KeyAt(e, i) == CHOOSE k \in Held(e) : Cardinality({j \in Held(e) : j < k}) = i - 1

\* The entries in the order of their keys
Sorted ==
    [i \in 1..Cardinality(Held(entries)) |->
        [key |-> KeyAt(entries, i), value |-> entries[KeyAt(entries, i)]]]

\* The bytes before the i-th item of a data file
Offset(items, i) ==
    LET upto[n \in 0..Len(items)] == IF n = 0 THEN 0 ELSE upto[n - 1] + Size[items[n].value]
    IN  upto[i - 1]

IndexItems ==
    [i \in DOMAIN Sorted |-> [key |-> Sorted[i].key, offset |-> Offset(Sorted, i)]]

\* BuildSummary: every summaryStep-th entry of the index, whose positions count from 0
SummaryEntries ==
    [j \in 1..(Len(IndexItems) + summaryStep - 1) \div summaryStep |->
        [key |-> IndexItems[(j - 1) * summaryStep + 1].key,
         position |-> (j - 1) * summaryStep]]

\* The smallest and the largest key stand before the entries of the summary
Bounds == <<[min |-> Sorted[1].key, max |-> Sorted[Len(Sorted)].key]>>

SummaryItems == Bounds \o SummaryEntries

\* The bit of a key in a Bloom filter of a size
Bit(k, size) == FnvHash[k] % size

\* Serialize: the size stands before the bits, of which the set ones are listed
FilterItems == <<FilterSize, {Bit(k, FilterSize) : k \in Held(entries)}>>

-----------------------------------------------------------------------------
(* Lookup *)

\* findIndexRange: from the last summary entry not above the key to the one after it;
\* an end of -1 is no end
IndexRangePastNext(items, k) ==
    LET later == {i \in 3..Len(items) : k <= items[i].key}
    IN  IF Len(items) < 2 THEN [start |-> 0, end |-> 0]
        ELSE IF later = {} THEN [start |-> items[Len(items)].position, end |-> -1]
        ELSE [start |-> items[Min(later) - 1].position, end |-> items[Min(later)].position]

IndexRange(items, k) ==
    LET later == {i \in 3..Len(items) : k < items[i].key}
    IN  IF Len(items) < 2 THEN [start |-> 0, end |-> 0]
        ELSE IF later = {} THEN [start |-> items[Len(items)].position, end |-> -1]
        ELSE [start |-> items[Min(later) - 1].position, end |-> items[Min(later)].position]

\* findIndexEntry: the offsets it finds, none or one
IndexOffsets(range, k) ==
    LET reached == {i \in DOMAIN index.items : i > range.start /\ index.items[i].key >= k}
        first == Min(reached)
    IN  IF \/ reached = {}
           \/ range.end >= 0 /\ first > range.end
           \/ index.items[first].key # k
        THEN {}
        ELSE {index.items[first].offset}

EntriesAtUnchecked(offset, k) ==
    {data.items[i].value : i \in {j \in DOMAIN data.items : Offset(data.items, j) = offset}}

\* The values read at an offset of the data file, if the entry there is the key's
EntriesAt(offset, k) ==
    {data.items[i].value :
        i \in {j \in DOMAIN data.items : /\ Offset(data.items, j) = offset
                                         /\ data.items[j].key = k}}

\* DeserializeFromReader wants all bits; the size is the one in the file
MightContain(items, k) == Len(items) = 2 /\ Bit(k, items[1]) \in items[2]

\* The filter lets the key pass and the bounds of the summary hold it
Considered(k) ==
    /\ MightContain(filter.items, k)
    /\ summary.items # <<>>
    /\ summary.items[1].min <= k /\ k <= summary.items[1].max

\* A file that is missing or ends too early ends the lookup: not found
Lookup(k) ==
    LET found == UNION {EntriesAt(o, k) : o \in IndexOffsets(IndexRange(summary.items, k), k)}
    IN  IF ~Considered(k) \/ found = {} THEN Absent ELSE CHOOSE v \in found : TRUE

-----------------------------------------------------------------------------
(* Writing *)

Init ==
    /\ data = NoFile
    /\ index = NoFile
    /\ summary = NoFile
    /\ filter = NoFile
    /\ entries = Nothing
    /\ summaryStep \in SummarySteps
    /\ pc = "idle"
    /\ attempts = 0
    /\ tried = {}

\* CreateFromEntries: flushMemtables never calls it without entries
Create ==
    /\ pc = "idle"
    /\ attempts < MaxAttempts
    /\ attempts' = attempts + 1
    /\ tried' = tried \cup {entries}
    /\ entries' \in [Keys -> Values \cup {Tombstone, Absent}] \ {Nothing}
    /\ summaryStep' \in SummarySteps
    /\ pc' = "data"
    /\ UNCHANGED <<data, index, summary, filter>>

\* WriteFile replaces the file, or an error or a crash cuts it short and ends the attempt
Written(name, file, next, items) ==
    /\ pc = name
    /\ \/ file' = File(items) /\ pc' = next
       \/ /\ \E n \in 0..Len(items) : file' = File(SubSeq(items, 1, n))
          /\ pc' = "idle"
    /\ UNCHANGED <<entries, summaryStep, attempts, tried>>

WriteData == Written("data", data, "index", Sorted) /\ UNCHANGED <<index, summary, filter>>

WriteIndex ==
    Written("index", index, "summary", IndexItems) /\ UNCHANGED <<data, summary, filter>>

WriteSummary ==
    Written("summary", summary, "filter", SummaryItems) /\ UNCHANGED <<data, index, filter>>

WriteFilter ==
    /\ Written("filter", filter, "metadata", FilterItems)
    /\ UNCHANGED <<data, index, summary>>

\* metadata.bin, which no lookup reads; an error there ends the attempt like any other
WriteMetadata ==
    /\ pc = "metadata"
    /\ pc' \in {"complete", "idle"}
    /\ UNCHANGED <<data, index, summary, filter, entries, summaryStep, attempts, tried>>

Next ==
    \/ Create \/ WriteData \/ WriteIndex \/ WriteSummary \/ WriteFilter \/ WriteMetadata

Spec == Init /\ [][Next]_vars

-----------------------------------------------------------------------------
(* Properties *)

\* From the moment its filter is written a table answers for every key with exactly
\* the entry it was given: no key is lost between two entries of the summary, at its
\* bounds, or to the filter, and no key is found that is not there, whatever an
\* earlier attempt left in the directory (sstable.go:118-153, 167-216, 287-340).
LookupExact ==
    pc \in {"metadata", "complete"} => \A k \in Keys : Lookup(k) = entries[k]

\* While the files of one attempt replace those of another, and after an attempt that
\* failed, a lookup finds for a key what one of the attempts wrote for it, or nothing
\* (sstable.go:200-215, engine.go:313-317).
LookupOfSomeAttempt ==
    \A k \in Keys : Lookup(k) \in {Absent, entries[k]} \cup {e[k] : e \in tried}
=============================================================================
