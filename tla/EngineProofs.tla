---------------------------- MODULE EngineProofs ----------------------------
(***************************************************************************)
(* Theorems about Engine, for every value of its constants.  The first     *)
(* part is about types, the position in the log, table ids and the cache.  *)
(*                                                                         *)
(* The second is about what survives.  As long as nothing is back that a   *)
(* Reset removed, the log only grows at its end, a process that serves     *)
(* calls has no half-written record in it, what the process answers is     *)
(* what a restart would recover from its files, and only the append of a   *)
(* record changes that.  A restart then neither takes nor refunds tokens,  *)
(* but for those whose logging was interrupted or failed, and the engine   *)
(* implements the map of KVStore.                                          *)
(***************************************************************************)
EXTENDS Engine, CommonProofs, FiniteSetTheorems

-----------------------------------------------------------------------------
(* Numbers *)

\* A bounded non-empty set of naturals contains its Max
LEMMA MaxElement ==
    ASSUME NEW S \in SUBSET Nat, S # {}, NEW b \in Nat, \A m \in S : m <= b
    PROVE  Max(S) \in S /\ \A m \in S : Max(S) >= m
<1> DEFINE Bounds == {n \in Nat : \A m \in S : m <= n}
<1>1. PICK n \in Bounds : \A m \in Bounds : n <= m
    BY LeastElement
<1>2. n \in S
    <2>1. SUFFICES ASSUME n \notin S PROVE FALSE
        OBVIOUS
    <2>2. PICK x \in S : TRUE
        OBVIOUS
    <2>3. n - 1 \in Bounds
        BY <2>1, <2>2
    <2> QED BY <1>1, <2>3
<1>3. \A m \in S : n >= m
    BY <1>1
<1> QED BY <1>2, <1>3 DEF Max

\* The fields of a call
LEMMA CallTyped ==
    ASSUME NEW c \in Calls
    PROVE  /\ c.op \in {"put", "get", "delete"}
           /\ c.key \in Keys
           /\ c.op = "put" => c.value \in Values
<1>1. CASE c \in [op : {"put"}, key : Keys, value : Values]
    BY <1>1
<1>2. CASE c \in [op : {"get", "delete"}, key : Keys, value : {Absent}]
    BY <1>2
<1> QED BY <1>1, <1>2 DEF Calls

-----------------------------------------------------------------------------
(* The memtables *)

LEMMA ConstantsFacts ==
    /\ Absent # Tombstone /\ MaxEntries \in Nat \ {0} /\ Instances \in Nat \ {0}
    /\ BucketKey \in AllKeys
    /\ TokenCapacity \in Nat \ {0}
    /\ CacheCapacity \in Nat
    /\ RecordsPerSegment \in Nat \ {0}
    /\ MaxCalls \in Nat /\ MaxFaults \in Nat
    /\ NoCall \notin Calls
BY MemtablesAssumption, EngineAssumption DEF Calls

LEMMA EmptyMemtableTyped == EmptyMemtable \in Contents
BY DEF EmptyMemtable, Contents

LEMMA NoMemtablesTyped == NoMemtables \in Seq(Contents) \ {<<>>}
BY EmptyMemtableTyped DEF NoMemtables

\* What a lookup finds in typed memtables fits the key
LEMMA MemLookupTyped ==
    ASSUME NEW m \in Seq(Contents), NEW k \in AllKeys
    PROVE  MemLookup(m, k) \in ValuesOf(k) \cup {Absent}
<1> DEFINE holding == {i \in DOMAIN m : m[i][k] # Absent}
<1>1. CASE holding = {}
    BY <1>1 DEF MemLookup
<1>2. CASE holding # {}
    <2>1. Max(holding) \in holding
        <3>1. DOMAIN m = 1..Len(m) /\ Len(m) \in Nat
            BY LenProperties
        <3>2. holding \in SUBSET Nat /\ \A i \in holding : i <= Len(m)
            BY <3>1
        <3> HIDE DEF holding
        <3> QED BY <1>2, <3>1, <3>2, MaxElement
    <2>2. m[Max(holding)] \in Contents
        BY <2>1, ElementOfSeq, LenProperties
    <2> QED BY <1>2, <2>2 DEF MemLookup, Contents
<1> QED BY <1>1, <1>2

LEMMA EntriesTyped ==
    ASSUME NEW m \in Seq(Contents)
    PROVE  Entries(m) \in Contents
<1>1. \A k \in AllKeys : MemLookup(m, k) \in ValuesOf(k) \cup {Absent}
    BY MemLookupTyped
<1>2. \A k \in AllKeys : ValuesOf(k) \subseteq Data \cup {Tombstone}
    BY DEF ValuesOf, Data
<1> QED BY <1>1, <1>2 DEF Entries, Contents

\* Put and Delete keep the memtables typed, whether or not they add one
LEMMA UpdateTyped ==
    ASSUME NEW m \in Seq(Contents) \ {<<>>}, NEW k \in AllKeys, NEW v \in ValuesOf(k)
    PROVE  Rolled(Update(m, k, v)) \in Seq(Contents) \ {<<>>}
<1> DEFINE u == Update(m, k, v)
<1>1. Len(m) \in 1..Len(m)
    BY LenProperties, EmptySeq
<1>2. m[Len(m)] \in Contents
    BY <1>1, ElementOfSeq
<1>3. [m[Len(m)] EXCEPT ![k] = v] \in Contents
    <2>1. v \in Data \cup {Tombstone}
        BY DEF ValuesOf, Data
    <2> QED BY <1>2, <2>1 DEF Contents
<1>4. u = [m EXCEPT ![Len(m)] = [m[Len(m)] EXCEPT ![k] = v]]
    BY DEF Update
<1>5. u \in Seq(Contents) /\ Len(u) = Len(m)
    BY <1>1, <1>3, <1>4, ExceptSeq
<1>6. u # <<>>
    BY <1>1, <1>5
<1>7. Append(u, EmptyMemtable) \in Seq(Contents) \ {<<>>}
    BY <1>5, EmptyMemtableTyped
<1> HIDE DEF u
<1>8. Rolled(u) \in {u, Append(u, EmptyMemtable)}
    BY DEF Rolled
<1> QED BY <1>5, <1>6, <1>7, <1>8 DEF u

-----------------------------------------------------------------------------
(* The record cache *)

CacheTyped(c) == c \in Seq([key : Keys, value : Values])

LEMMA CachedValueTyped ==
    ASSUME NEW c, CacheTyped(c), NEW k, Cached(c, k)
    PROVE  CachedValue(c, k) \in Values
<1>1. c \in Lists(Keys, Values)
    BY DEF CacheTyped, Lists
<1> QED BY <1>1, FoundIs, ListIs

LEMMA CacheDeleteTyped ==
    ASSUME NEW c, CacheTyped(c), NEW k
    PROVE  CacheTyped(CacheDelete(c, k))
BY DeleteIs DEF CacheTyped, Lists

LEMMA CachePutTyped ==
    ASSUME NEW c, CacheTyped(c), NEW k \in Keys, NEW v \in Values
    PROVE  CacheTyped(CachePut(c, CacheCapacity, k, v))
BY PutIs, ConstantsFacts DEF CacheTyped, Lists

LEMMA CacheGetTyped ==
    ASSUME NEW c, CacheTyped(c), NEW k
    PROVE  CacheTyped(CacheGet(c, k))
BY GetIs DEF CacheTyped, Lists

-----------------------------------------------------------------------------
(* The files *)

\* There are finitely many files: their numbers have a bound.  (TLC cannot evaluate
\* the quantifier; every state it reaches has finite domains.)
FilesBounded ==
    \E b \in Nat : /\ \A i \in DOMAIN segments : i <= b
                   /\ \A id \in DOMAIN sstables : id <= b

\* The first gap in the numbers of the segments exists: New finds the last one
LEMMA LastSegmentFound ==
    ASSUME FilesTyped, FilesBounded
    PROVE  /\ LastSegment \in Nat
           /\ 1..LastSegment \subseteq DOMAIN segments
           /\ LastSegment + 1 \notin DOMAIN segments
<1> DEFINE Gaps == {n \in Nat : n + 1 \notin DOMAIN segments}
<1>1. PICK b \in Nat : \A i \in DOMAIN segments : i <= b
    BY DEF FilesBounded
<1>2. b \in Gaps
    BY <1>1
<1>3. PICK n \in Gaps : \A m \in Gaps : n <= m
    BY <1>2, LeastElement
<1>4. 1..n \subseteq DOMAIN segments
    <2> SUFFICES ASSUME NEW i \in 1..n, i \notin DOMAIN segments
                 PROVE  FALSE
        OBVIOUS
    <2>1. i - 1 \in Gaps
        OBVIOUS
    <2> QED BY <1>3, <2>1
<1>5. n \in {0} \cup DOMAIN segments
    BY <1>4
<1>6. \E x \in {0} \cup DOMAIN segments :
          1..x \subseteq DOMAIN segments /\ x + 1 \notin DOMAIN segments
    BY <1>3, <1>4, <1>5
<1>7. /\ LastSegment \in {0} \cup DOMAIN segments
      /\ 1..LastSegment \subseteq DOMAIN segments
      /\ LastSegment + 1 \notin DOMAIN segments
    BY <1>6 DEF LastSegment
<1> QED BY <1>7 DEF FilesTyped

LEMMA RecordsInTyped ==
    ASSUME FilesTyped, NEW i
    PROVE  /\ RecordsIn(i) \in Seq(Records)
           /\ Len(RecordsIn(i)) \in Nat
           /\ Len(RecordsIn(i)) > 0 => i \in DOMAIN segments
<1>1. RecordsIn(i) \in Seq(Records)
    BY DEF RecordsIn, FilesTyped
<1>2. i \notin DOMAIN segments => Len(RecordsIn(i)) = 0
    BY DEF RecordsIn
<1> QED BY <1>1, <1>2, LenProperties

LEMMA WithSegmentsTyped ==
    ASSUME FilesTyped, NEW S \in SUBSET (Nat \ {0})
    PROVE  /\ DOMAIN WithSegments(S) = DOMAIN segments \cup S
           /\ WithSegments(S) \in [DOMAIN segments \cup S -> Seq(Records)]
           /\ \A i \in DOMAIN segments : WithSegments(S)[i] = segments[i]
           /\ \A i \in DOMAIN WithSegments(S) \ DOMAIN segments : WithSegments(S)[i] = <<>>
BY RecordsInTyped DEF WithSegments, RecordsIn

LEMMA WithTableTyped ==
    ASSUME FilesTyped, NEW id \in Nat \ {0},
           NEW t \in [entries : Contents, stage : {"data", "filter", "complete"}]
    PROVE  /\ DOMAIN WithTable(id, t) = DOMAIN sstables \cup {id}
           /\ WithTable(id, t) \in
                  [DOMAIN WithTable(id, t) ->
                      [entries : Contents, stage : {"data", "filter", "complete"}]]
           /\ \A i \in DOMAIN sstables \ {id} : WithTable(id, t)[i] = sstables[i]
BY DEF WithTable, FilesTyped

\* loadSSTables gives out an id above every directory
LEMMA NextIDAbove ==
    ASSUME FilesTyped, FilesBounded
    PROVE  /\ NextID(DOMAIN sstables) \in Nat \ {0}
           /\ \A id \in DOMAIN sstables : id < NextID(DOMAIN sstables)
<1> DEFINE S == {0} \cup DOMAIN sstables
<1>1. PICK b \in Nat : \A id \in DOMAIN sstables : id <= b
    BY DEF FilesBounded
<1>2. S \in SUBSET Nat /\ S # {} /\ \A id \in S : id <= b
    BY <1>1 DEF FilesTyped
<1>3. Max(S) \in S /\ \A id \in S : Max(S) >= id
    <2> HIDE DEF S
    <2> QED BY <1>2, MaxElement
<1>4. NextID(DOMAIN sstables) = Max(S) + 1 /\ DOMAIN sstables \subseteq S
    BY DEF NextID
<1> DEFINE m == Max(S)
<1>5. m \in Nat /\ \A id \in DOMAIN sstables : id <= m /\ id \in Nat
    BY <1>2, <1>3, <1>4
<1>6. NextID(DOMAIN sstables) = m + 1
    BY <1>4
<1> HIDE DEF m
<1> QED BY <1>5, <1>6

\* Creating missing segments keeps the files typed
LEMMA SegmentsAdded ==
    ASSUME FilesTyped, NEW S \in SUBSET (Nat \ {0}), segments' = WithSegments(S),
           UNCHANGED sstables
    PROVE  FilesTyped'
<1>0. /\ DOMAIN segments' = DOMAIN segments \cup S
      /\ segments' \in [DOMAIN segments \cup S -> Seq(Records)]
    BY WithSegmentsTyped
<1>1. DOMAIN segments' \subseteq Nat \ {0}
    BY <1>0 DEF FilesTyped
<1>2. segments' \in [DOMAIN segments' -> Seq(Records)]
    BY <1>0
<1> QED BY <1>1, <1>2 DEF FilesTyped

\* So does writing records to one of them
LEMMA SegmentWritten ==
    ASSUME FilesTyped, NEW i \in Nat \ {0}, NEW s \in Seq(Records),
           segments' = WithSegment(i, s), UNCHANGED sstables
    PROVE  /\ FilesTyped'
           /\ DOMAIN segments' = DOMAIN segments \cup {i}
           /\ RecordsIn(i)' = s
<1>0. DOMAIN segments' = DOMAIN segments \cup {i} /\ segments'[i] = s
    BY DEF WithSegment
<1>1. DOMAIN segments' \subseteq Nat \ {0}
    BY <1>0 DEF FilesTyped
<1>2. segments' \in [DOMAIN segments' -> Seq(Records)]
    BY <1>0 DEF FilesTyped, WithSegment
<1>3. FilesTyped'
    BY <1>1, <1>2 DEF FilesTyped
<1> QED BY <1>0, <1>3 DEF RecordsIn

\* So does writing a table
LEMMA TableWritten ==
    ASSUME FilesTyped, NEW id \in Nat \ {0},
           NEW t \in [entries : Contents, stage : {"data", "filter", "complete"}],
           sstables' = WithTable(id, t), UNCHANGED segments
    PROVE  FilesTyped'
<1>0. DOMAIN sstables' = DOMAIN sstables \cup {id}
    BY WithTableTyped
<1>1. DOMAIN sstables' \subseteq Nat \ {0}
    BY <1>0 DEF FilesTyped
<1>2. sstables' \in [DOMAIN sstables' ->
                        [entries : Contents, stage : {"data", "filter", "complete"}]]
    BY WithTableTyped
<1> QED BY <1>1, <1>2 DEF FilesTyped

LEMMA OverwrittenTyped ==
    ASSUME NEW old \in Seq(Records), NEW p \in 1..Len(old) + 1, NEW r \in Records,
           NEW s \in Overwritten(old, p, r)
    PROVE  s \in Seq(Records) /\ Len(s) >= p
<1>1. Len(old) \in Nat /\ \A i \in 1..Len(old) : old[i] \in Records
    BY LenProperties, ElementOfSeq
<1>2. SubSeq(old, 1, p - 1) \in Seq(Records) /\ Len(SubSeq(old, 1, p - 1)) = p - 1
    BY <1>1, SubSeqProperties
<1>3. SubSeq(old, p + 1, Len(old)) \in Seq(Records)
    BY <1>1, SubSeqProperties
<1>4. <<>> \in Seq(Records) /\ <<Torn>> \in Seq(Records) /\ <<r>> \in Seq(Records)
    BY DEF Records
<1>5. PICK rest \in Seq(Records) : s = SubSeq(old, 1, p - 1) \o <<r>> \o rest
    BY <1>3, <1>4 DEF Overwritten
<1>6. /\ SubSeq(old, 1, p - 1) \o <<r>> \in Seq(Records)
      /\ Len(SubSeq(old, 1, p - 1) \o <<r>>) = p
    BY <1>2, <1>4, ConcatProperties
<1> QED BY <1>5, <1>6, ConcatProperties, LenProperties

\* What a lookup in a set of existing tables finds fits the key
LEMMA TableLookupTyped ==
    ASSUME FilesTyped, FilesBounded, NEW ids \in SUBSET DOMAIN sstables, NEW k \in AllKeys
    PROVE  TableLookup(ids, k) \in ValuesOf(k) \cup {Absent}
<1> DEFINE holding == {id \in ids : Readable(id) /\ sstables[id].entries[k] # Absent}
<1>1. CASE holding = {}
    BY <1>1 DEF TableLookup
<1>2. CASE holding # {}
    <2>1. PICK b \in Nat : \A id \in DOMAIN sstables : id <= b
        BY DEF FilesBounded
    <2>2. holding \in SUBSET Nat /\ \A id \in holding : id <= b
        BY <2>1 DEF FilesTyped
    <2>3. Max(holding) \in holding
        <3> HIDE DEF holding
        <3> QED BY <1>2, <2>2, MaxElement
    <2>4. sstables[Max(holding)].entries \in Contents
        BY <2>3 DEF FilesTyped
    <2> QED BY <1>2, <2>4 DEF TableLookup, Contents
<1> QED BY <1>1, <1>2

LEMMA StoredTyped ==
    ASSUME FilesTyped, FilesBounded, ProcessTyped, NEW k \in AllKeys
    PROVE  Stored(k) \in ValuesOf(k) \cup {Absent}
<1>1. MemLookup(memtables, k) \in ValuesOf(k) \cup {Absent}
    BY MemLookupTyped DEF ProcessTyped
<1>2. TableLookup(tables, k) \in ValuesOf(k) \cup {Absent}
    BY TableLookupTyped DEF ProcessTyped
<1> QED BY <1>1, <1>2 DEF Stored

LEMMA MixedTyped ==
    ASSUME NEW old \in Contents, NEW new \in Contents
    PROVE  Mixed(old, new) \subseteq Contents
<1> SUFFICES ASSUME NEW f \in Mixed(old, new)
             PROVE  f \in Contents
    OBVIOUS
<1>1. DOMAIN f = AllKeys /\ f = [k \in AllKeys |-> f[k]]
    BY DEF Mixed
<1>2. \A k \in AllKeys : f[k] \in ValuesOf(k) \cup {Absent}
    BY DEF Mixed, Contents
<1>3. \A k \in AllKeys : f[k] \in Data \cup {Absent, Tombstone}
    BY <1>2 DEF ValuesOf, Data
<1> QED BY <1>1, <1>2, <1>3 DEF Contents

-----------------------------------------------------------------------------
(* The inductive invariant *)

\* Only a segment that holds a record is rotated because it is full
RotatesFull == pc = "rotate" => currentRecordCount # 0

\* While Reset still has a segment to remove, the rest of the log stands as it stood
ResetPosition ==
    pc = "reset" /\ DOMAIN segments \cap 1..currentSegmentIndex # {} =>
        /\ resetUndone \/ \A i \in DOMAIN segments :
                             i..currentSegmentIndex - 1 \subseteq DOMAIN segments
        /\ currentRecordCount <= Len(RecordsIn(currentSegmentIndex))

IInv ==
    /\ TypeOK
    /\ PhaseOK
    /\ LogPosition
    /\ RotatesFull
    /\ ResetPosition
    /\ IDsFresh
    /\ FilesBounded

LEMMA InitIInv == Init => IInv
<1> SUFFICES ASSUME Init PROVE IInv
    OBVIOUS
<1>1. FilesTyped
    BY DEF Init, FilesTyped
<1>2. ProcessTyped
    <2>1. memtables \in Seq(Contents) \ {<<>>} /\ cache \in Seq([key : Keys, value : Values])
        BY NoMemtablesTyped DEF Init
    <2> QED BY <2>1, ConstantsFacts DEF Init, ProcessTyped
<1>3. ControlTyped /\ FlagsTyped
    <2>1. calls \in 0..MaxCalls /\ faults \in 0..MaxFaults
        BY ConstantsFacts DEF Init
    <2>2. unlogged \in Nat /\ unsure \subseteq AllKeys
        BY DEF Init
    <2> QED BY <2>1, <2>2, Zenon DEF Init, ControlTyped, FlagsTyped
<1>4. PhaseOK /\ LogPosition /\ IDsFresh /\ RotatesFull /\ ResetPosition
    BY DEF Init, PhaseOK, CallInPhase, ReplayInStart, LogPosition, IDsFresh, Running,
           RotatesFull, ResetPosition
<1>5. FilesBounded
    BY DEF Init, FilesBounded
<1> QED BY <1>1, <1>2, <1>3, <1>4, <1>5 DEF IInv, TypeOK

\* In a phase of a call, the record to log is a record of the key's type
LEMMA WrittenTyped ==
    ASSUME IInv, phase # "start"
    PROVE  /\ Written \in Records
           /\ Written.key \in AllKeys
           /\ Written.value \in ValuesOf(Written.key)
<1>1. phase \in {"allow", "op"} /\ tokens \in 0..TokenCapacity
    BY DEF IInv, TypeOK, ProcessTyped, ControlTyped
<1>2. CASE phase = "allow"
    BY <1>1, <1>2, ConstantsFacts DEF Written, Record, Records, ValuesOf, Data
<1>3. CASE phase = "op"
    <2>1. call \in Calls /\ call.op # "get"
        BY <1>3 DEF IInv, TypeOK, ControlTyped, PhaseOK, CallInPhase
    <2>2. /\ call.op \in {"put", "get", "delete"}
          /\ call.key \in Keys
          /\ call.op = "put" => call.value \in Values
        BY <2>1, CallTyped
    <2> QED BY <1>3, <2>1, <2>2 DEF Written, Record, Records, ValuesOf, Data, Keys
<1> QED BY <1>1, <1>2, <1>3

\* Outside Reset, what an append may leave in the current segment is typed and holds
\* the new record
LEMMA AppendedTyped ==
    ASSUME IInv, pc = "append", NEW r \in Records,
           NEW s \in Overwritten(RecordsIn(currentSegmentIndex), currentRecordCount + 1, r)
    PROVE  /\ s \in Seq(Records)
           /\ Len(s) >= currentRecordCount + 1
<1> DEFINE old == RecordsIn(currentSegmentIndex)
<1>1. currentRecordCount \in Nat /\ currentRecordCount <= Len(old)
    BY DEF IInv, TypeOK, ProcessTyped, LogPosition, Running
<1>2. old \in Seq(Records) /\ Len(old) \in Nat
    BY RecordsInTyped DEF IInv, TypeOK
<1>3. currentRecordCount + 1 \in 1..Len(old) + 1
    BY <1>1, <1>2
<1> HIDE DEF old
<1>4. s \in Overwritten(old, currentRecordCount + 1, r)
    BY DEF old
<1> QED BY <1>1, <1>2, <1>3, <1>4, OverwrittenTyped

\* The same when stale blocks bring old records back behind it
LEMMA AppendedAmongOldTyped ==
    ASSUME IInv, pc = "append", NEW r \in Records,
           NEW n \in Nat, NEW old \in [1..n -> Records]
    PROVE  LET s == SubSeq(RecordsIn(currentSegmentIndex), 1, currentRecordCount)
                        \o <<r>> \o old
           IN  /\ s \in Seq(Records)
               /\ Len(s) >= currentRecordCount + 1
<1> DEFINE here == RecordsIn(currentSegmentIndex)
           c == currentRecordCount
<1>1. here \in Seq(Records) /\ Len(here) \in Nat /\ c \in Nat /\ c <= Len(here)
    BY RecordsInTyped DEF IInv, TypeOK, ProcessTyped, LogPosition, Running
<1>2. old \in Seq(Records)
    OBVIOUS
<1> HIDE DEF here, c
<1>3. \A i \in 1..c : here[i] \in Records
    BY <1>1, ElementOfSeq, LenProperties
<1>4. SubSeq(here, 1, c) \in Seq(Records) /\ Len(SubSeq(here, 1, c)) = c
    BY <1>1, <1>3, SubSeqProperties
<1>5. /\ SubSeq(here, 1, c) \o <<r>> \in Seq(Records)
      /\ Len(SubSeq(here, 1, c) \o <<r>>) = c + 1
    BY <1>4, ConcatProperties
<1>6. /\ SubSeq(here, 1, c) \o <<r>> \o old \in Seq(Records)
      /\ Len(SubSeq(here, 1, c) \o <<r>> \o old) >= c + 1
    BY <1>1, <1>2, <1>5, ConcatProperties, LenProperties
<1> QED BY <1>6 DEF here, c

\* An append leaves the current segment typed, with one record more than were counted
LEMMA Appended ==
    ASSUME IInv, AppendRecord
    PROVE  \E s \in Seq(Records) : /\ segments' = WithSegment(currentSegmentIndex, s)
                                   /\ Len(s) >= currentRecordCount + 1
<1>1. Written \in Records /\ pc = "append"
    BY WrittenTyped DEF AppendRecord, IInv, PhaseOK, CallInPhase
<1>2. CASE Framed
    BY <1>1, <1>2, AppendedTyped DEF Framed
<1>3. CASE FramedAmongOld
    <2>1. PICK n \in 1..MaxOldRecords : \E o \in [1..n -> Records] :
              segments' = WithSegment(currentSegmentIndex,
                              SubSeq(RecordsIn(currentSegmentIndex), 1, currentRecordCount)
                                  \o <<Written>> \o o)
        BY <1>3 DEF FramedAmongOld
    <2>2. n \in Nat
        BY <2>1, EngineAssumption
    <2> QED BY <1>1, <2>1, <2>2, AppendedAmongOldTyped
<1> QED BY <1>2, <1>3 DEF AppendRecord

LEMMA FilesStep ==
    ASSUME IInv, [Next]_vars
    PROVE  FilesTyped'
<1>0. /\ FilesTyped /\ ProcessTyped /\ ControlTyped
      /\ PhaseOK /\ LogPosition /\ IDsFresh /\ FilesBounded
    BY DEF IInv, TypeOK
<1>1. CASE Open
    <2>1. 1..currentSegmentIndex' \in SUBSET (Nat \ {0})
        OBVIOUS
    <2>2. segments' = WithSegments(1..currentSegmentIndex')
        BY <1>0, <1>1 DEF Open
    <2> QED BY <1>0, <1>1, <2>1, <2>2, SegmentsAdded DEF Open
<1>2. CASE CrashInAppend
    <2> DEFINE old == RecordsIn(currentSegmentIndex)
               torn == SubSeq(old, 1, currentRecordCount) \o <<Torn>>
    <2>1. currentRecordCount <= Len(old) /\ currentRecordCount \in Nat
        BY <1>0, <1>2 DEF CrashInAppend, LogPosition, Running, ProcessTyped
    <2>2. old \in Seq(Records) /\ Len(old) \in Nat
        BY <1>0, RecordsInTyped
    <2> HIDE DEF old
    <2>3. \A j \in 1..currentRecordCount : old[j] \in Records
        BY <2>1, <2>2, ElementOfSeq, LenProperties
    <2>4. SubSeq(old, 1, currentRecordCount) \in Seq(Records)
        BY <2>1, <2>2, <2>3, SubSeqProperties
    <2>5. <<Torn>> \in Seq(Records)
        BY DEF Records
    <2>6. torn \in Seq(Records)
        BY <2>4, <2>5, ConcatProperties
    <2>7. segments' = WithSegment(currentSegmentIndex, torn) /\ UNCHANGED sstables
        BY <1>2 DEF CrashInAppend, old
    <2> HIDE DEF torn
    <2> QED BY <1>0, <2>6, <2>7, SegmentWritten DEF ProcessTyped
<1>3. CASE RotateBefore \/ Rotate
    <2>1. /\ segments' = WithSegments({currentSegmentIndex'})
          /\ currentSegmentIndex' = currentSegmentIndex + 1
          /\ UNCHANGED sstables
        BY <1>3 DEF RotateBefore, Rotate, Rotated
    <2>2. {currentSegmentIndex'} \in SUBSET (Nat \ {0})
        BY <1>0, <2>1 DEF ProcessTyped
    <2> QED BY <1>0, <2>1, <2>2, SegmentsAdded
<1>4. CASE AppendRecord
    <2>1. PICK s \in Seq(Records) : segments' = WithSegment(currentSegmentIndex, s)
        BY <1>4, Appended
    <2>2. UNCHANGED sstables
        BY <1>4 DEF AppendRecord
    <2> QED BY <1>0, <2>1, <2>2, SegmentWritten DEF ProcessTyped
<1>6. CASE FlushData
    <2>1. Entries(memtables) \in Contents
        BY <1>0, EntriesTyped DEF ProcessTyped
    <2>2. nextTableID \in DOMAIN sstables =>
              Mixed(sstables[nextTableID].entries, Entries(memtables)) \subseteq Contents
        BY <1>0, <2>1, MixedTyped DEF FilesTyped
    <2>3. PICK t \in [entries : Contents, stage : {"data", "filter", "complete"}] :
              sstables' = WithTable(nextTableID, t)
        BY <1>0, <1>6, <2>1, <2>2 DEF FlushData
    <2> QED BY <1>0, <1>6, <2>3, TableWritten DEF FlushData, ProcessTyped
<1>7. CASE FlushFilter
    <2>1. Entries(memtables) \in Contents
        BY <1>0, EntriesTyped DEF ProcessTyped
    <2> QED BY <1>0, <1>7, <2>1, TableWritten DEF FlushFilter, ProcessTyped
<1>8. CASE FlushMetadata
    <2>1. nextTableID \in DOMAIN sstables
        BY <1>0, <1>8 DEF FlushMetadata, IDsFresh, Running
    <2> DEFINE t == [entries |-> sstables[nextTableID].entries, stage |-> "complete"]
    <2>2. t \in [entries : Contents, stage : {"data", "filter", "complete"}]
        BY <1>0, <2>1 DEF FilesTyped
    <2>3. sstables' = WithTable(nextTableID, t) /\ UNCHANGED segments
        BY <1>0, <1>8 DEF FlushMetadata
    <2> HIDE DEF t
    <2> QED BY <1>0, <2>2, <2>3, TableWritten DEF ProcessTyped
<1>9. CASE ResetRemove
    BY <1>0, <1>9 DEF ResetRemove, FilesTyped
<1>10. CASE ResetDone
    <2>1. segments' = WithSegments({1}) /\ UNCHANGED sstables
        BY <1>0, <1>10 DEF ResetDone
    <2> QED BY <1>0, <2>1, SegmentsAdded
<1>11. CASE UNCHANGED files
    BY <1>0, <1>11 DEF files, FilesTyped
<1>12. CASE OpenFails \/ Quit \/ Crash \/ Call \/ Deny
    BY <1>0, <1>11, <1>12 DEF OpenFails, Quit, Crash, Call, Deny
<1>5. CASE AppendFails \/ RotateFails \/ FlushFails \/ ResetFails
    BY <1>0, <1>11, <1>5 DEF AppendFails, RotateFails, FlushFails, ResetFails
<1>13. CASE ReplayRecord \/ ReplayTorn \/ ReplayNextSegment \/ ReplayEnd \/ Restore
    BY <1>0, <1>11, <1>13 DEF ReplayRecord, ReplayTorn, ReplayNextSegment, ReplayEnd,
        ReplayOver, Restore
<1>14. CASE Apply \/ Read
    BY <1>0, <1>11, <1>14 DEF Apply, Read
<1>15. CASE UNCHANGED vars
    BY <1>0, <1>11, <1>15 DEF vars, files
<1> QED
    BY <1>1, <1>2, <1>3, <1>4, <1>5, <1>6, <1>7, <1>8, <1>9, <1>10, <1>12, <1>13, <1>14,
       <1>15 DEF Next, Step

\* The process starts, or has ended, with typed variables
LEMMA FreshTyped ==
    ASSUME Fresh
    PROVE  /\ (memtables \in Seq(Contents) \ {<<>>})'
           /\ (cache \in Seq([key : Keys, value : Values]))'
           /\ (tokens \in 0..TokenCapacity)'
           /\ (cursor \in [seg : Nat \ {0}, pos : Nat \ {0}])'
           /\ (stale \subseteq Nat \ {0})'
<1>4. (stale \subseteq Nat \ {0})'
    BY DEF Fresh
<1>1. (cache \in Seq([key : Keys, value : Values]))'
    BY DEF Fresh
<1>2. (memtables \in Seq(Contents) \ {<<>>})'
    BY NoMemtablesTyped DEF Fresh
<1>3. (tokens \in 0..TokenCapacity)' /\ (cursor \in [seg : Nat \ {0}, pos : Nat \ {0}])'
    BY ConstantsFacts DEF Fresh
<1> QED BY <1>1, <1>2, <1>3, <1>4

LEMMA DownTyped ==
    ASSUME Down
    PROVE  ProcessTyped'
BY FreshTyped DEF Down, ProcessTyped

LEMMA ProcessStep ==
    ASSUME IInv, [Next]_vars
    PROVE  ProcessTyped'
<1>0. /\ FilesTyped /\ ProcessTyped /\ ControlTyped
      /\ PhaseOK /\ LogPosition /\ IDsFresh /\ FilesBounded
    BY DEF IInv, TypeOK
<1>1. CASE Open
    <2> DEFINE last == LastSegment
    <2>1. last \in Nat /\ 1..last \subseteq DOMAIN segments
        BY <1>0, LastSegmentFound
    <2>2. Scanned(last) \in Nat
        <3>1. last # 0 => segments[last] \in Seq(Records)
            BY <1>0, <2>1 DEF FilesTyped
        <3> QED BY <2>1, <3>1, LenProperties DEF Scanned
    <2>3. /\ currentSegmentIndex' \in {last, last + 1}
          /\ last = 0 => currentSegmentIndex' = last + 1
          /\ currentRecordCount' \in {0, Scanned(last)}
        BY <1>1 DEF Open
    <2>4. nextTableID' \in Nat \ {0} /\ tables' \subseteq DOMAIN sstables'
        BY <1>0, <1>1, NextIDAbove DEF Open
    <2>5. Fresh
        BY <1>1 DEF Open
    <2> HIDE DEF last
    <2> QED BY <2>1, <2>2, <2>3, <2>4, <2>5, FreshTyped DEF ProcessTyped
<1>2. CASE OpenFails \/ Quit \/ Crash \/ CrashInAppend \/ ReplayTorn
    BY <1>2, DownTyped DEF OpenFails, Quit, Crash, CrashInAppend, ReplayTorn
<1>3. CASE Call
    <2>1. tokens' \in 0..TokenCapacity
        BY <1>0, <1>3, ConstantsFacts DEF Call, Available, ProcessTyped
    <2> QED BY <1>0, <1>3, <2>1
            DEF Call, ProcessTyped, files, walVars, tableVars, startVars
<1>4. CASE Deny
    BY <1>0, <1>4 DEF Deny, ProcessTyped, files, walVars, tableVars, startVars
<1>5. CASE FlushFails
    <2>1. CASE Down
        BY <2>1, DownTyped
    <2>2. CASE UNCHANGED <<walVars, tableVars, startVars, memtables, cache, tokens>>
        BY <1>0, <1>5, <2>2
           DEF FlushFails, ProcessTyped, files, walVars, tableVars, startVars
    <2> QED BY <1>5, <2>1, <2>2 DEF FlushFails
<1>6. CASE ReplayRecord
    <2> DEFINE r == segments[cursor.seg][cursor.pos]
    <2>1. r \in Records /\ r # Torn
        <3>1. /\ cursor.pos \in Nat \ {0}
              /\ cursor.pos <= Len(RecordsIn(cursor.seg))
            BY <1>0, <1>6 DEF ReplayRecord, AtRecord, ProcessTyped
        <3>2. /\ segments[cursor.seg] = RecordsIn(cursor.seg)
              /\ RecordsIn(cursor.seg) \in Seq(Records)
              /\ Len(RecordsIn(cursor.seg)) \in Nat
            BY <1>0, <3>1, RecordsInTyped DEF RecordsIn
        <3>3. cursor.pos \in 1..Len(segments[cursor.seg])
            BY <3>1, <3>2
        <3>4. r # Torn
            BY <1>6 DEF ReplayRecord, Decodable
        <3> QED BY <3>2, <3>3, <3>4, ElementOfSeq
    <2>2. r.key \in AllKeys /\ r.value \in ValuesOf(r.key)
        BY <2>1 DEF Records
    <2>3. memtables' = Rolled(Update(memtables, r.key, r.value))
        BY <1>6 DEF ReplayRecord
    <2>4. memtables' \in Seq(Contents) \ {<<>>}
        <3> HIDE DEF r
        <3> QED BY <1>0, <2>2, <2>3, UpdateTyped DEF ProcessTyped
    <2>5. cursor' \in [seg : Nat \ {0}, pos : Nat \ {0}]
        BY <1>0, <1>6 DEF ReplayRecord, ProcessTyped
    <2> QED BY <1>0, <1>6, <2>4, <2>5
            DEF ReplayRecord, ProcessTyped, files, walVars, tableVars
<1>7. CASE ReplayNextSegment
    <2>1. cursor' \in [seg : Nat \ {0}, pos : Nat \ {0}]
        BY <1>0, <1>7 DEF ReplayNextSegment, NextSegment, ProcessTyped
    <2> QED BY <1>0, <1>7, <2>1
            DEF ReplayNextSegment, ProcessTyped, files, walVars, tableVars
<1>8. CASE ReplayEnd
    BY <1>0, <1>8 DEF ReplayEnd, ReplayOver, ProcessTyped, files, walVars, tableVars
<1>9. CASE Restore
    <2>1. Stored(BucketKey) \in 0..TokenCapacity \cup {Absent}
        BY <1>0, ConstantsFacts, StoredTyped DEF ValuesOf
    <2>2. tokens' \in 0..TokenCapacity
        BY <1>0, <1>9, <2>1 DEF Restore, RestoredTokens, Live, ProcessTyped
    <2>3. cursor' \in [seg : Nat \ {0}, pos : Nat \ {0}]
        BY <1>9 DEF Restore
    <2> QED BY <1>0, <1>9, <2>2, <2>3
            DEF Restore, ProcessTyped, files, walVars, tableVars
<1>10. CASE RotateBefore \/ Rotate
    <2>0. /\ currentSegmentIndex' = currentSegmentIndex + 1 /\ currentRecordCount' = 0
          /\ stale' \subseteq stale
        BY <1>10 DEF RotateBefore, Rotate, Rotated
    <2>1. /\ currentSegmentIndex' \in Nat \ {0} /\ currentRecordCount' \in Nat
          /\ stale' \subseteq Nat \ {0}
        BY <1>0, <2>0 DEF ProcessTyped
    <2> QED BY <1>0, <1>10, <2>1
            DEF RotateBefore, Rotate, Rotated, ProcessTyped, tableVars, startVars
<1>11. CASE AppendRecord
    BY <1>0, <1>11 DEF AppendRecord, ProcessTyped, tableVars, startVars
<1>12. CASE Apply
    <2>1. phase # "start"
        BY <1>0, <1>12 DEF Apply, PhaseOK, CallInPhase
    <2>2. memtables' \in Seq(Contents) \ {<<>>}
        BY <1>0, <1>12, <2>1, WrittenTyped, UpdateTyped DEF Apply, ProcessTyped
    <2>3. cache' \in Seq([key : Keys, value : Values])
        <3>1. cache' = CacheWritten
            BY <1>12 DEF Apply
        <3>2. CacheTyped(cache)
            BY <1>0 DEF ProcessTyped, CacheTyped
        <3>3. phase = "allow" \/ call.op = "delete" \/
                  (call.key \in Keys /\ call.value \in Values)
            <4>1. call \in Calls
                BY <1>0, <2>1 DEF ControlTyped, PhaseOK, CallInPhase
            <4>2. phase \in {"allow", "op"} /\ (phase = "op" => call.op # "get")
                BY <1>0, <2>1 DEF ControlTyped, PhaseOK, CallInPhase
            <4>3. /\ call.op \in {"put", "get", "delete"}
                  /\ call.key \in Keys
                  /\ call.op = "put" => call.value \in Values
                BY <4>1, CallTyped
            <4> QED BY <4>2, <4>3
        <3>4. CacheTyped(CacheWritten)
            BY <3>2, <3>3, CacheDeleteTyped, CachePutTyped DEF CacheWritten
        <3> QED BY <3>1, <3>4 DEF CacheTyped
    <2> QED BY <1>0, <1>12, <2>2, <2>3
            DEF Apply, ProcessTyped, files, walVars, tableVars, startVars
<1>13. CASE Read
    <2>1. call \in Calls /\ call.key \in Keys
        <3>1. call \in Calls
            BY <1>0, <1>13 DEF Read, ControlTyped, PhaseOK, CallInPhase
        <3> QED BY <3>1, CallTyped
    <2>2. CacheTyped(cache)
        BY <1>0 DEF ProcessTyped, CacheTyped
    <2>3. Live(Stored(call.key)) # Absent => Stored(call.key) \in Values
        BY <1>0, <2>1, StoredTyped DEF Live, ValuesOf, Keys
    <2>4. \/ cache' = CacheGet(cache, call.key)
          \/ cache' = cache
          \/ /\ Live(Stored(call.key)) # Absent
             /\ cache' = CachePut(cache, CacheCapacity, call.key, Stored(call.key))
        BY <1>13 DEF Read
    <2>5. cache' \in Seq([key : Keys, value : Values])
        BY <2>1, <2>2, <2>3, <2>4, CacheGetTyped, CachePutTyped DEF CacheTyped
    <2> QED BY <1>0, <1>13, <2>5
            DEF Read, ProcessTyped, files, walVars, tableVars, startVars
<1>14. CASE FlushData \/ FlushFilter
    <2>1. DOMAIN sstables \subseteq DOMAIN sstables'
        BY <1>14 DEF FlushData, FlushFilter, WithTable
    <2> QED BY <1>0, <1>14, <2>1
            DEF FlushData, FlushFilter, ProcessTyped, walVars, tableVars, startVars
<1>15. CASE FlushMetadata
    <2>1. DOMAIN sstables \cup {nextTableID} = DOMAIN sstables'
        BY <1>15 DEF FlushMetadata, WithTable
    <2> QED BY <1>0, <1>15, <2>1, NoMemtablesTyped DEF FlushMetadata, ProcessTyped, walVars
<1>16. CASE ResetRemove \/ ResetDone
    <2>1. stale' \subseteq Nat \ {0}
        BY <1>0, <1>16 DEF ResetRemove, ResetDone, ProcessTyped, FilesTyped
    <2> QED BY <1>0, <1>16, <2>1 DEF ResetRemove, ResetDone, ProcessTyped, tableVars, startVars
<1>17. CASE UNCHANGED vars
    BY <1>0, <1>17 DEF vars, ProcessTyped
<1>18. CASE AppendFails \/ RotateFails
    <2>1. /\ currentSegmentIndex' \in {currentSegmentIndex, currentSegmentIndex + 1}
          /\ currentRecordCount' \in {currentRecordCount, 0}
        BY <1>18 DEF AppendFails, RotateFails, walVars
    <2>2. UNCHANGED <<files, stale, tableVars, startVars, memtables, cache, tokens>>
        BY <1>18 DEF AppendFails, RotateFails, walVars
    <2> QED BY <1>0, <2>1, <2>2 DEF ProcessTyped, files, tableVars, startVars
<1>19. CASE ResetFails
    <2>1. CASE Down
        BY <2>1, DownTyped
    <2>2. CASE UNCHANGED <<tableVars, startVars, memtables, cache, tokens>> /\ ~Down
        <3>1. /\ currentSegmentIndex' \in {currentSegmentIndex, 1}
              /\ currentRecordCount' \in {currentRecordCount, 0}
              /\ UNCHANGED <<sstables, stale>>
            BY <1>19, <2>2 DEF ResetFails, walVars, files
        <3> QED BY <1>0, <2>2, <3>1 DEF ProcessTyped, tableVars, startVars
    <2> QED BY <1>19, <2>1, <2>2 DEF ResetFails
<1> QED
    BY <1>1, <1>2, <1>3, <1>4, <1>5, <1>6, <1>7, <1>8, <1>9, <1>10, <1>11, <1>12, <1>13,
       <1>14, <1>15, <1>16, <1>17, <1>18, <1>19 DEF Next, Step

\* What a running process may be doing, apart from the counters of the bounds
ControlOK ==
    /\ pc \in {"down", "failed", "replay", "restore", "idle", "append", "rotate", "apply",
               "read", "flush", "filter", "metadata", "reset"}
    /\ phase \in {"start", "allow", "op"}
    /\ call \in Calls \cup {NoCall}
    /\ result \in {"ok", "error", "limited", Absent} \cup Values
    /\ CallInPhase

LEMMA AnswerOK ==
    ASSUME NEW r \in {"ok", "error", "limited", Absent} \cup Values, Answer(r)
    PROVE  ControlOK'
BY DEF Answer, ControlOK, CallInPhase

LEMMA ProceedOK ==
    ASSUME ControlOK, Proceed
    PROVE  ControlOK'
<1>1. CASE phase = "op"
    BY <1>1, AnswerOK DEF Proceed
<1>2. CASE phase # "op"
    BY <1>2 DEF Proceed, ControlOK, CallInPhase
<1> QED BY <1>1, <1>2

LEMMA DownOK ==
    ASSUME ControlOK, Down, UNCHANGED result, pc' \in {"down", "failed"}
    PROVE  ControlOK'
BY DEF Down, Fresh, ControlOK, CallInPhase

LEMMA ControlStep ==
    ASSUME IInv, [Next]_vars
    PROVE  ControlOK'
<1>0. /\ FilesTyped /\ FilesBounded /\ ProcessTyped
      /\ ControlOK /\ ReplayInStart
    BY DEF IInv, TypeOK, ControlTyped, PhaseOK, ControlOK
<1>1. CASE Open
    BY <1>0, <1>1 DEF Open, Fresh, ControlOK, CallInPhase
<1>2. CASE OpenFails \/ Quit \/ Crash \/ CrashInAppend \/ ReplayTorn
    BY <1>0, <1>2, DownOK DEF OpenFails, Quit, Crash, CrashInAppend, ReplayTorn
<1>3. CASE Call
    <2>1. call' \in Calls /\ call' # NoCall
        BY <1>3, ConstantsFacts DEF Call
    <2> QED BY <1>0, <1>3, <2>1 DEF Call, ControlOK, CallInPhase
<1>4. CASE Deny
    BY <1>0, <1>4 DEF Deny, ControlOK, CallInPhase
<1>5. CASE AppendFails \/ RotateFails \/ FlushFails \/ ResetFails
    <2>1. CASE Down /\ pc' = "failed" /\ UNCHANGED result
        BY <1>0, <2>1, DownOK
    <2>2. CASE Answer("error")
        BY <2>2, AnswerOK
    <2> QED BY <1>5, <2>1, <2>2 DEF AppendFails, RotateFails, FlushFails, ResetFails
<1>6. CASE ReplayRecord
    BY <1>0, <1>6 DEF ReplayRecord, ControlOK, CallInPhase
<1>7. CASE ReplayNextSegment \/ ReplayEnd \/ Restore
    BY <1>0, <1>7 DEF ReplayNextSegment, ReplayEnd, ReplayOver, Restore, ControlOK, CallInPhase
<1>8. CASE RotateBefore
    BY <1>0, <1>8 DEF RotateBefore, ControlOK, CallInPhase
<1>9. CASE AppendRecord \/ Rotate
    BY <1>0, <1>9 DEF AppendRecord, Rotate, Rotated, ControlOK, CallInPhase
<1>10. CASE Apply
    <2>1. CASE pc' = "flush" /\ UNCHANGED <<phase, call, result>>
        BY <1>0, <1>10, <2>1 DEF Apply, ControlOK, CallInPhase
    <2>2. CASE Proceed
        BY <1>0, <2>2, ProceedOK
    <2> QED BY <1>10, <2>1, <2>2 DEF Apply
<1>11. CASE Read
    <2>1. call \in Calls
        BY <1>0, <1>11 DEF Read, ControlOK, CallInPhase
    <2>2. call.key \in Keys
        BY <2>1, CallTyped
    <2>3. Live(Stored(call.key)) \in {Absent} \cup Values
        BY <1>0, <2>2, StoredTyped DEF Live, ValuesOf, Keys
    <2>4. Cached(cache, call.key) => CachedValue(cache, call.key) \in Values
        BY <1>0, CachedValueTyped DEF ProcessTyped, CacheTyped
    <2>5. \E r \in {Absent} \cup Values : Answer(r)
        BY <1>11, <2>3, <2>4 DEF Read
    <2> QED BY <2>5, AnswerOK
<1>12. CASE FlushData \/ FlushFilter
    BY <1>0, <1>12 DEF FlushData, FlushFilter, ControlOK, CallInPhase
<1>13. CASE FlushMetadata
    BY <1>0, <1>13 DEF FlushMetadata, ControlOK, CallInPhase, ReplayInStart
<1>14. CASE ResetRemove
    BY <1>0, <1>14 DEF ResetRemove, ControlOK, CallInPhase
<1>15. CASE ResetDone
    BY <1>0, <1>15, ProceedOK DEF ResetDone
<1>16. CASE UNCHANGED vars
    BY <1>0, <1>16 DEF vars, ControlOK, CallInPhase
<1> QED
    BY <1>1, <1>2, <1>3, <1>4, <1>5, <1>6, <1>7, <1>8, <1>9, <1>10, <1>11, <1>12, <1>13,
       <1>14, <1>15, <1>16 DEF Next, Step

\* The counters stay within their bounds and the flags are Booleans
LEMMA CountersStep ==
    ASSUME IInv, [Next]_vars
    PROVE  (calls \in 0..MaxCalls /\ faults \in 0..MaxFaults)' /\ FlagsTyped'
<1>0. /\ calls \in 0..MaxCalls /\ faults \in 0..MaxFaults /\ FlagsTyped
      /\ CallInPhase
    BY DEF IInv, TypeOK, ControlTyped, PhaseOK
<1>1. /\ calls' \in {calls, calls + 1} /\ (calls' # calls => calls < MaxCalls)
      /\ faults' \in {faults, faults + 1} /\ (faults' # faults => faults < MaxFaults)
    BY DEF Next, Step, Open, OpenFails, Quit, Crash, CrashInAppend, Call, Deny, AppendFails,
           RotateFails, FlushFails, ResetFails,
           ReplayRecord, ReplayTorn, ReplayNextSegment, ReplayEnd, ReplayOver, Restore,
           RotateBefore, AppendRecord, Rotate, Rotated, Apply, Read, FlushData, FlushFilter,
           FlushMetadata, ResetRemove, ResetDone, vars, history
<1>2. (calls \in 0..MaxCalls /\ faults \in 0..MaxFaults)'
    BY <1>0, <1>1, ConstantsFacts
<1>3. (replaying \in BOOLEAN /\ replayFlush \in BOOLEAN /\ resetUndone \in BOOLEAN)'
    BY <1>0, ZenonT(60)
       DEF Next, Step, Open, OpenFails, Quit, Crash, CrashInAppend, Call, Deny, AppendFails,
           RotateFails, FlushFails, ResetFails,
           ReplayRecord, ReplayTorn, ReplayNextSegment, ReplayEnd, ReplayOver, Restore,
           RotateBefore, AppendRecord, Framed, FramedAmongOld, Rotate, Rotated, Apply, Read,
           FlushData, FlushFilter, FlushMetadata, ResetRemove, ResetDone, vars, history,
           startVars, Fresh, Down, FlagsTyped
<1>4. unlogged' \in {0, unlogged, unlogged + 1}
    BY DEF Next, Step, Open, OpenFails, Quit, Crash, CrashInAppend, Call, Deny, AppendFails,
           RotateFails, FlushFails, ResetFails,
           ReplayRecord, ReplayTorn, ReplayNextSegment, ReplayEnd, ReplayOver, Restore,
           RotateBefore, AppendRecord, Rotate, Rotated, Apply, Read, FlushData, FlushFilter,
           FlushMetadata, ResetRemove, ResetDone, vars, history, doubts
<1>5. unsure' \subseteq AllKeys
    <2>1. CASE RotateFails
        <3>1. Written.key \in AllKeys
            BY <1>0, <2>1, WrittenTyped DEF RotateFails, CallInPhase
        <3> QED BY <1>0, <2>1, <3>1 DEF RotateFails, FlagsTyped
    <2>2. CASE unsure' \subseteq unsure
        BY <1>0, <2>2 DEF FlagsTyped
    <2> QED BY <2>1, <2>2
       DEF Next, Step, Open, OpenFails, Quit, Crash, CrashInAppend, Call, Deny, AppendFails,
           FlushFails, ResetFails,
           ReplayRecord, ReplayTorn, ReplayNextSegment, ReplayEnd, ReplayOver, Restore,
           RotateBefore, AppendRecord, Rotate, Rotated, Apply, Read, FlushData, FlushFilter,
           FlushMetadata, ResetRemove, ResetDone, vars, history, doubts
<1>6. unlogged' \in Nat
    BY <1>0, <1>4 DEF FlagsTyped
<1> QED BY <1>2, <1>3, <1>5, <1>6, Zenon DEF FlagsTyped

\* Only Start replays
LEMMA ReplayStep ==
    ASSUME IInv, [Next]_vars
    PROVE  ReplayInStart'
<1>0. CallInPhase /\ ReplayInStart
    BY DEF IInv, PhaseOK
<1>1. CASE Open \/ OpenFails \/ Quit \/ Crash \/ CrashInAppend \/ ReplayTorn
    BY <1>1 DEF Open, OpenFails, Quit, Crash, CrashInAppend, ReplayTorn, Fresh, Down,
                ReplayInStart
<1>2. CASE Call \/ Deny
    BY <1>0, <1>2 DEF Call, Deny, ReplayInStart, startVars
<1>3. CASE AppendFails \/ RotateFails \/ FlushFails \/ ResetFails
    BY <1>0, <1>3 DEF AppendFails, RotateFails, FlushFails, ResetFails, Down, ReplayInStart,
                      startVars
<1>4. CASE ReplayRecord \/ ReplayNextSegment \/ ReplayEnd \/ Restore
    BY <1>0, <1>4 DEF ReplayRecord, ReplayNextSegment, ReplayEnd, ReplayOver, Restore,
        ReplayInStart
<1>5. CASE RotateBefore \/ AppendRecord \/ Rotate \/ Apply \/ Read
    BY <1>0, <1>5 DEF RotateBefore, AppendRecord, Rotate, Rotated, Apply, Read, ReplayInStart,
                      startVars
<1>6. CASE FlushData \/ FlushFilter
    BY <1>0, <1>6 DEF FlushData, FlushFilter, ReplayInStart, startVars
<1>7. CASE FlushMetadata
    BY <1>0, <1>7 DEF FlushMetadata, ReplayInStart
<1>8. CASE ResetRemove \/ ResetDone
    BY <1>0, <1>8 DEF ResetRemove, ResetDone, ReplayInStart, startVars
<1>9. CASE UNCHANGED vars
    BY <1>0, <1>9 DEF vars, ReplayInStart
<1> QED BY <1>1, <1>2, <1>3, <1>4, <1>5, <1>6, <1>7, <1>8, <1>9 DEF Next, Step

\* A current segment that holds a counted record exists, and so do those before it
LEMMA AllSegments ==
    ASSUME FilesTyped, ProcessTyped, LogPosition, Running, pc # "reset",
           currentRecordCount # 0
    PROVE  resetUndone \/ 1..currentSegmentIndex \subseteq DOMAIN segments
<1>1. /\ resetUndone \/ 1..currentSegmentIndex - 1 \subseteq DOMAIN segments
      /\ currentRecordCount <= Len(RecordsIn(currentSegmentIndex))
    BY DEF LogPosition
<1>2. currentSegmentIndex \in Nat \ {0} /\ currentRecordCount \in Nat
    BY DEF ProcessTyped
<1>3. currentSegmentIndex \in DOMAIN segments
    BY <1>1, <1>2, RecordsInTyped
<1> QED BY <1>1, <1>2, <1>3

LEMMA NextRecordsTyped ==
    ASSUME FilesTyped'
    PROVE  Len(RecordsIn(currentSegmentIndex)') >= 0
<1>1. RecordsIn(currentSegmentIndex)' \in Seq(Records)
    BY DEF RecordsIn, FilesTyped
<1> QED BY <1>1, LenProperties

\* Every segment before the current one exists, and the current one holds the records
\* counted in it
LEMMA LogStep ==
    ASSUME IInv, [Next]_vars
    PROVE  LogPosition'
<1>0. /\ FilesTyped /\ ProcessTyped /\ FilesBounded /\ LogPosition
      /\ CallInPhase /\ ReplayInStart /\ RotatesFull /\ ResetPosition /\ FilesTyped'
    BY FilesStep DEF IInv, TypeOK, PhaseOK
<1>1. CASE Open
    <2> DEFINE last == LastSegment
    <2>1. last \in Nat /\ 1..last \subseteq DOMAIN segments /\ last + 1 \notin DOMAIN segments
        BY <1>0, LastSegmentFound
    <2>2. PICK full \in SegmentFull(Scanned(last)) :
              /\ currentSegmentIndex' = IF last = 0 \/ full THEN last + 1 ELSE last
              /\ currentRecordCount' = IF full THEN 0 ELSE Scanned(last)
        BY <1>1 DEF Open
    <2>3. segments' = WithSegments(1..currentSegmentIndex')
        BY <1>1 DEF Open
    <2>4. currentSegmentIndex' \in Nat \ {0} /\ 1..currentSegmentIndex' \in SUBSET (Nat \ {0})
        BY <2>1, <2>2
    <2>5. /\ 1..currentSegmentIndex' \subseteq DOMAIN segments'
          /\ \A i \in DOMAIN segments : segments'[i] = segments[i] /\ i \in DOMAIN segments'
        BY <1>0, <2>3, <2>4, WithSegmentsTyped
    <2>6. currentRecordCount' <= Len(RecordsIn(currentSegmentIndex)')
        <3>0. Len(RecordsIn(currentSegmentIndex)') >= 0
            BY <1>0, NextRecordsTyped
        <3>1. CASE full \/ last = 0
            BY <2>2, <3>0, <3>1 DEF Scanned
        <3>2. CASE ~full /\ last # 0
            <4>1. /\ currentSegmentIndex' = last /\ last \in DOMAIN segments
                  /\ currentRecordCount' = Len(segments[last])
                BY <2>1, <2>2, <3>2 DEF Scanned
            <4>2. RecordsIn(currentSegmentIndex)' = segments[last]
                BY <2>5, <4>1 DEF RecordsIn
            <4>3. segments[last] \in Seq(Records)
                BY <1>0, <4>1 DEF FilesTyped
            <4> QED BY <4>1, <4>2, <4>3, LenProperties
        <3> QED BY <3>1, <3>2
    <2>7. 1..currentSegmentIndex' - 1 \subseteq 1..currentSegmentIndex'
        <3>1. \A x \in Nat : 1..x - 1 \subseteq 1..x
            OBVIOUS
        <3> QED BY <2>4, <3>1
    <2> QED BY <2>5, <2>6, <2>7 DEF LogPosition
<1>2. CASE OpenFails \/ Quit \/ Crash \/ CrashInAppend \/ ReplayTorn
    BY <1>2 DEF OpenFails, Quit, Crash, CrashInAppend, ReplayTorn, LogPosition, Running
<1>3. CASE RotateBefore \/ Rotate
    <2>1. /\ currentSegmentIndex' = currentSegmentIndex + 1 /\ currentRecordCount' = 0
          /\ segments' = WithSegments({currentSegmentIndex'})
          /\ UNCHANGED resetUndone
          /\ Running /\ pc # "reset" /\ currentRecordCount # 0
        BY <1>0, <1>3 DEF RotateBefore, Rotate, Rotated, history, Running, RotatesFull,
                          ProcessTyped
    <2>2. resetUndone \/ 1..currentSegmentIndex \subseteq DOMAIN segments
        BY <1>0, <2>1, AllSegments
    <2>3. DOMAIN segments \subseteq DOMAIN segments'
        BY <2>1 DEF WithSegments
    <2>4. Len(RecordsIn(currentSegmentIndex)') >= 0
        BY <1>0, NextRecordsTyped
    <2>5. currentSegmentIndex' - 1 = currentSegmentIndex
        BY <1>0, <2>1 DEF ProcessTyped
    <2> QED BY <2>1, <2>2, <2>3, <2>4, <2>5 DEF LogPosition
<1>4. CASE AppendRecord
    <2>1. pc = "append"
        BY <1>4 DEF AppendRecord
    <2>2. PICK s \in Seq(Records) : /\ segments' = WithSegment(currentSegmentIndex, s)
                                   /\ Len(s) >= currentRecordCount + 1
        BY <1>4, Appended
    <2>3. s \in Seq(Records) /\ Len(s) >= currentRecordCount + 1
        BY <2>2
    <2>4. /\ UNCHANGED <<currentSegmentIndex, sstables>> /\ (resetUndone => resetUndone')
          /\ currentRecordCount' = currentRecordCount + 1
        BY <1>4 DEF AppendRecord, Framed, FramedAmongOld
    <2>5. DOMAIN segments \subseteq DOMAIN segments' /\ RecordsIn(currentSegmentIndex)' = s
        <3>1. currentSegmentIndex \in Nat \ {0}
            BY <1>0 DEF ProcessTyped
        <3>2. /\ DOMAIN segments' = DOMAIN segments \cup {currentSegmentIndex}
              /\ segments'[currentSegmentIndex] = s
            BY <2>2 DEF WithSegment
        <3> QED BY <2>4, <3>2 DEF RecordsIn
    <2>6. resetUndone \/ 1..currentSegmentIndex - 1 \subseteq DOMAIN segments
        BY <1>0, <2>1 DEF LogPosition, Running
    <2> QED BY <2>3, <2>4, <2>5, <2>6 DEF LogPosition
<1>5. CASE ResetDone
    <2>1. currentSegmentIndex' = 1 /\ currentRecordCount' = 0
        BY <1>5 DEF ResetDone
    <2>2. Len(RecordsIn(currentSegmentIndex)') >= 0
        BY <1>0, NextRecordsTyped
    <2> QED BY <2>1, <2>2 DEF LogPosition
<1>6. CASE ResetRemove
    BY <1>6 DEF ResetRemove, LogPosition, Running
<1>7. ASSUME UNCHANGED <<segments, walVars>>, resetUndone => resetUndone',
             Running' => Running /\ pc # "reset"
      PROVE  LogPosition'
    BY <1>0, <1>7 DEF LogPosition, walVars, RecordsIn
<1>8. CASE Call \/ Deny \/ FlushFails
    <2>1. Running' => /\ UNCHANGED <<segments, walVars>> /\ (resetUndone => resetUndone')
                      /\ Running /\ pc # "reset"
        BY <1>8 DEF Call, Deny, FlushFails, Running, files, history
    <2>2. ~Running' => LogPosition'
        BY DEF LogPosition
    <2> QED BY <1>7, <2>1, <2>2
<1>9. CASE ReplayRecord \/ ReplayNextSegment \/ ReplayEnd \/ Restore
    BY <1>7, <1>9 DEF ReplayRecord, ReplayNextSegment, ReplayEnd, ReplayOver, Restore,
        Running, files, history
<1>10. CASE Apply \/ Read \/ FlushData \/ FlushFilter \/ FlushMetadata
    BY <1>7, <1>10 DEF Apply, Read, FlushData, FlushFilter, FlushMetadata, Running, files,
        history
<1>11. CASE UNCHANGED vars
    BY <1>0, <1>11 DEF vars, LogPosition, Running, RecordsIn
<1>12. CASE AppendFails \/ RotateFails
    <2>1. /\ Running /\ pc # "reset" /\ UNCHANGED <<segments, resetUndone>>
          /\ \/ UNCHANGED walVars
             \/ /\ currentSegmentIndex' = currentSegmentIndex + 1
                /\ currentRecordCount' = 0
                /\ currentRecordCount # 0
        BY <1>0, <1>12 DEF AppendFails, RotateFails, Running, files, RotatesFull, ProcessTyped
    <2>2. CASE UNCHANGED walVars
        BY <1>7, <2>1, <2>2
    <2>3. CASE ~UNCHANGED walVars
        <3>1. resetUndone \/ 1..currentSegmentIndex \subseteq DOMAIN segments
            BY <1>0, <2>1, <2>3, AllSegments
        <3>2. Len(RecordsIn(currentSegmentIndex)') >= 0
            BY <1>0, NextRecordsTyped
        <3>3. currentSegmentIndex' - 1 = currentSegmentIndex
            BY <1>0, <2>1, <2>3 DEF ProcessTyped
        <3> QED BY <2>1, <2>3, <3>1, <3>2, <3>3 DEF LogPosition
    <2> QED BY <2>2, <2>3
<1>13. CASE ResetFails
    <2>1. CASE ~Running'
        BY <2>1 DEF LogPosition
    <2>2. CASE /\ Running' /\ DOMAIN segments \cap 1..currentSegmentIndex # {}
        <3>1. /\ UNCHANGED <<segments, walVars>> /\ resetUndone' = (resetUndone \/ Gap)
              /\ pc = "reset"
            BY <1>13, <2>2 DEF ResetFails, Running, files
        <3>2. /\ resetUndone \/ \A i \in DOMAIN segments :
                                i..currentSegmentIndex - 1 \subseteq DOMAIN segments
              /\ currentRecordCount <= Len(RecordsIn(currentSegmentIndex))
            BY <1>0, <2>2, <3>1 DEF ResetPosition
        <3>3. resetUndone' \/ 1..currentSegmentIndex - 1 \subseteq DOMAIN segments
            BY <2>2, <3>1, <3>2 DEF Gap
        <3> QED BY <3>1, <3>2, <3>3 DEF LogPosition, walVars, RecordsIn
    <2>3. CASE /\ Running' /\ DOMAIN segments \cap 1..currentSegmentIndex = {}
        <3>1. currentSegmentIndex' = 1 /\ currentRecordCount' = 0
            BY <1>13, <2>3 DEF ResetFails, Running
        <3>2. Len(RecordsIn(currentSegmentIndex)') >= 0
            BY <1>0, NextRecordsTyped
        <3> QED BY <3>1, <3>2 DEF LogPosition
    <2> QED BY <2>1, <2>2, <2>3
<1> QED
    BY <1>1, <1>2, <1>3, <1>4, <1>5, <1>6, <1>8, <1>9, <1>10, <1>11, <1>12, <1>13
       DEF Next, Step

\* A segment is full only when it holds a record
LEMMA RotatesStep ==
    ASSUME IInv, [Next]_vars
    PROVE  RotatesFull'
<1>0. ProcessTyped /\ RotatesFull
    BY DEF IInv, TypeOK
<1>1. CASE AppendRecord
    BY <1>0, <1>1 DEF AppendRecord, RotatesFull, ProcessTyped
<1>2. CASE Call \/ Deny \/ AppendFails \/ RotateFails \/ FlushFails \/ ResetFails
    BY <1>2 DEF Call, Deny, AppendFails, RotateFails, FlushFails, ResetFails, Answer,
                RotatesFull
<1>3. CASE Open \/ OpenFails \/ Quit \/ Crash \/ CrashInAppend \/ ReplayTorn
    BY <1>3 DEF Open, OpenFails, Quit, Crash, CrashInAppend, ReplayTorn, RotatesFull
<1>4. CASE ReplayRecord \/ ReplayNextSegment \/ ReplayEnd \/ Restore
    BY <1>4 DEF ReplayRecord, ReplayNextSegment, ReplayEnd, Restore, RotatesFull
<1>5. CASE RotateBefore \/ Rotate \/ Apply \/ Read \/ ResetDone
    BY <1>5 DEF RotateBefore, Rotate, Apply, Read, ResetDone, Proceed, Answer, RotatesFull
<1>6. CASE FlushData \/ FlushFilter \/ FlushMetadata \/ ResetRemove
    BY <1>6 DEF FlushData, FlushFilter, FlushMetadata, ResetRemove, RotatesFull
<1>7. CASE UNCHANGED vars
    BY <1>0, <1>7 DEF vars, RotatesFull
<1> QED BY <1>1, <1>2, <1>3, <1>4, <1>5, <1>6, <1>7 DEF Next, Step

\* Reset begins with the log in place, and takes its segments from the first on
LEMMA ResetPositionStep ==
    ASSUME IInv, [Next]_vars
    PROVE  ResetPosition'
<1>0. FilesTyped /\ ProcessTyped /\ LogPosition /\ ResetPosition
    BY DEF IInv, TypeOK
<1>1. CASE FlushMetadata \/ ReplayEnd
    <2>1. /\ UNCHANGED <<segments, walVars, resetUndone>> /\ Running /\ pc # "reset"
        BY <1>1 DEF FlushMetadata, ReplayEnd, Running, files, history
    <2>2. /\ resetUndone \/ 1..currentSegmentIndex - 1 \subseteq DOMAIN segments
          /\ currentRecordCount <= Len(RecordsIn(currentSegmentIndex))
        BY <1>0, <2>1 DEF LogPosition
    <2>3. \A i \in DOMAIN segments :
              i..currentSegmentIndex - 1 \subseteq 1..currentSegmentIndex - 1
        BY <1>0 DEF FilesTyped, ProcessTyped
    <2> QED BY <2>1, <2>2, <2>3 DEF ResetPosition, walVars, RecordsIn
<1>2. CASE ResetRemove
    <2> DEFINE left == DOMAIN segments \cap 1..currentSegmentIndex
               first == NextRemoved(left)
    <2>1. /\ UNCHANGED <<currentSegmentIndex, currentRecordCount, resetUndone>>
          /\ pc = "reset" /\ left # {}
          /\ segments' = [i \in DOMAIN segments \ {first} |-> segments[i]]
        BY <1>2 DEF ResetRemove, history
    <2>2. first \in left /\ \A m \in left : first <= m
        <3>1. left \in SUBSET Nat /\ left # {}
            BY <1>0, <2>1 DEF FilesTyped
        <3>2. PICK n \in left : \A m \in left : n <= m
            <4> HIDE DEF left
            <4> QED BY <3>1, LeastElement
        <3> HIDE DEF left
        <3> QED BY <3>2 DEF NextRemoved, Min
    <2>3. SUFFICES ASSUME DOMAIN segments' \cap 1..currentSegmentIndex # {}
                   PROVE  ResetPosition'
        BY <2>1 DEF ResetPosition, walVars
    <2>4. first < currentSegmentIndex
        <3>1. PICK j \in left : j # first
            BY <2>1, <2>3
        <3>2. j \in 1..currentSegmentIndex /\ first \in 1..currentSegmentIndex
            BY <2>2
        <3>3. currentSegmentIndex \in Nat
            BY <1>0 DEF ProcessTyped
        <3> HIDE DEF left, first
        <3> QED BY <2>2, <3>1, <3>2, <3>3
    <2>5. /\ resetUndone \/ \A i \in DOMAIN segments :
                            i..currentSegmentIndex - 1 \subseteq DOMAIN segments
          /\ currentRecordCount <= Len(RecordsIn(currentSegmentIndex))
        BY <1>0, <2>1 DEF ResetPosition
    <2>6. RecordsIn(currentSegmentIndex)' = RecordsIn(currentSegmentIndex)
        <3>1. first # currentSegmentIndex
            BY <1>0, <2>4 DEF ProcessTyped
        <3>2. UNCHANGED currentSegmentIndex
            BY <2>1 DEF walVars
        <3> QED BY <2>1, <3>1, <3>2 DEF RecordsIn
    <2>7. ASSUME NEW i \in DOMAIN segments', ~resetUndone
          PROVE  i..currentSegmentIndex - 1 \subseteq DOMAIN segments'
        <3>1. i \in DOMAIN segments /\ i # first /\ i \in Nat \ {0}
            BY <1>0, <2>1, <2>7 DEF FilesTyped
        <3>2. i..currentSegmentIndex - 1 \subseteq DOMAIN segments
            BY <2>5, <2>7, <3>1
        <3>3. first \notin i..currentSegmentIndex - 1
            <4> SUFFICES ASSUME first \in i..currentSegmentIndex - 1
                         PROVE  FALSE
                OBVIOUS
            <4>1. currentSegmentIndex \in Nat /\ first \in Nat
                BY <1>0, <2>2 DEF ProcessTyped
            <4>2. i <= first /\ i \in 1..currentSegmentIndex
                <5> HIDE DEF left, first
                <5> QED BY <2>4, <3>1, <4>1
            <4>3. i \in left
                BY <3>1, <4>2
            <4>4. first <= i
                BY <2>2, <4>3
            <4> HIDE DEF left, first
            <4> QED BY <3>1, <4>1, <4>2, <4>4
        <3> QED BY <2>1, <3>2, <3>3
    <2> HIDE DEF left, first
    <2> QED BY <2>1, <2>5, <2>6, <2>7 DEF ResetPosition, walVars
<1>3. CASE Call \/ Deny \/ AppendFails \/ RotateFails \/ FlushFails \/ ResetFails
    BY <1>3 DEF Call, Deny, AppendFails, RotateFails, FlushFails, ResetFails, Answer,
                ResetPosition
<1>4. CASE Open \/ OpenFails \/ Quit \/ Crash \/ CrashInAppend \/ ReplayTorn
    BY <1>4 DEF Open, OpenFails, Quit, Crash, CrashInAppend, ReplayTorn, ResetPosition
<1>5. CASE ReplayRecord \/ ReplayNextSegment \/ Restore
    BY <1>5 DEF ReplayRecord, ReplayNextSegment, Restore, ResetPosition
<1>6. CASE RotateBefore \/ AppendRecord \/ Rotate \/ Apply \/ Read \/ ResetDone
    BY <1>6 DEF RotateBefore, AppendRecord, Rotate, Apply, Read, ResetDone, Proceed, Answer,
                ResetPosition
<1>7. CASE FlushData \/ FlushFilter
    BY <1>7 DEF FlushData, FlushFilter, ResetPosition
<1>8. CASE UNCHANGED vars
    BY <1>0, <1>8 DEF vars, ResetPosition, RecordsIn
<1> QED BY <1>1, <1>2, <1>3, <1>4, <1>5, <1>6, <1>7, <1>8 DEF Next, Step

\* Table ids only grow while the process runs, and start above every directory
LEMMA IDsStep ==
    ASSUME IInv, [Next]_vars
    PROVE  IDsFresh'
<1>0. FilesTyped /\ ProcessTyped /\ FilesBounded /\ IDsFresh
    BY DEF IInv, TypeOK
<1>1. CASE Open
    <2>1. /\ tables' = DOMAIN sstables /\ sstables' = sstables /\ pc' = "replay"
          /\ nextTableID' = NextID(DOMAIN sstables)
        BY <1>1 DEF Open
    <2>2. \A id \in DOMAIN sstables : id \in Nat /\ id < nextTableID'
        BY <1>0, <2>1, NextIDAbove DEF FilesTyped
    <2>3. nextTableID' \in Nat
        BY <1>0, <2>1, NextIDAbove
    <2> QED BY <2>1, <2>2, <2>3 DEF IDsFresh
<1>2. CASE OpenFails \/ Quit \/ Crash \/ CrashInAppend \/ ReplayTorn
    BY <1>2 DEF OpenFails, Quit, Crash, CrashInAppend, ReplayTorn, IDsFresh, Running
<1>3. CASE FlushData \/ FlushFilter
    <2>1. DOMAIN sstables' = DOMAIN sstables \cup {nextTableID}
        BY <1>3 DEF FlushData, FlushFilter, WithTable
    <2>2. /\ tables' = tables /\ nextTableID' = nextTableID
          /\ pc' \in {"filter", "metadata"} /\ Running
        BY <1>3 DEF FlushData, FlushFilter, tableVars, Running
    <2>3. nextTableID \in Nat
        BY <1>0 DEF ProcessTyped
    <2> QED BY <1>0, <2>1, <2>2, <2>3 DEF IDsFresh
<1>4. CASE FlushMetadata
    <2>1. DOMAIN sstables' = DOMAIN sstables \cup {nextTableID}
        BY <1>4 DEF FlushMetadata, WithTable
    <2>2. /\ tables' = tables \cup {nextTableID} /\ nextTableID' = nextTableID + 1
          /\ pc' \in {"replay", "reset"} /\ Running
        BY <1>4 DEF FlushMetadata, Running
    <2>3. /\ nextTableID \in Nat /\ tables \subseteq DOMAIN sstables
          /\ DOMAIN sstables \subseteq Nat
        BY <1>0 DEF ProcessTyped, FilesTyped
    <2>4. /\ \A id \in tables : id < nextTableID
          /\ \A id \in DOMAIN sstables : id <= nextTableID
        BY <1>0, <2>2 DEF IDsFresh
    <2>5. /\ \A id \in tables' : id < nextTableID'
          /\ \A id \in DOMAIN sstables' : id <= nextTableID'
        BY <2>1, <2>2, <2>3, <2>4
    <2> QED BY <2>2, <2>5 DEF IDsFresh
<1>5. ASSUME UNCHANGED <<sstables, tableVars>>, Running' => Running,
             pc' \in {"filter", "metadata"} => pc' = pc
      PROVE  IDsFresh'
    BY <1>0, <1>5 DEF IDsFresh, tableVars
<1>6. CASE AppendFails \/ RotateFails \/ FlushFails \/ ResetFails
    <2>1. Running' => UNCHANGED <<sstables, tableVars>> /\ Running
        BY <1>6 DEF AppendFails, RotateFails, FlushFails, ResetFails, Running, files
    <2>2. pc' \notin {"filter", "metadata"}
        BY <1>6 DEF AppendFails, RotateFails, FlushFails, ResetFails, Answer
    <2>3. ~Running' => IDsFresh'
        BY DEF IDsFresh
    <2> QED BY <1>5, <2>1, <2>2, <2>3
<1>7. CASE Call \/ Deny
    BY <1>5, <1>7 DEF Call, Deny, files, Running
<1>8. CASE ReplayRecord \/ ReplayNextSegment \/ ReplayEnd \/ Restore
    BY <1>5, <1>8 DEF ReplayRecord, ReplayNextSegment, ReplayEnd, ReplayOver, Restore, files,
        Running
<1>9. CASE RotateBefore \/ AppendRecord \/ Rotate \/ ResetRemove
    BY <1>5, <1>9 DEF RotateBefore, AppendRecord, Rotate, Rotated, ResetRemove, Running
<1>10. CASE Apply \/ Read \/ ResetDone
    <2>1. pc' \notin {"filter", "metadata"}
        BY <1>10 DEF Apply, Read, ResetDone, Proceed, Answer
    <2> QED BY <1>5, <1>10, <2>1 DEF Apply, Read, ResetDone, files, Running
<1>11. CASE UNCHANGED vars
    BY <1>0, <1>11 DEF vars, IDsFresh, Running
<1> QED
    BY <1>1, <1>2, <1>3, <1>4, <1>6, <1>7, <1>8, <1>9, <1>10, <1>11 DEF Next, Step

\* A step adds at most the current segment's successors and the next table
LEMMA BoundedStep ==
    ASSUME IInv, [Next]_vars
    PROVE  FilesBounded'
<1>0. FilesTyped /\ ProcessTyped /\ FilesBounded
    BY DEF IInv, TypeOK
<1>1. PICK b \in Nat : /\ \A i \in DOMAIN segments : i <= b
                       /\ \A id \in DOMAIN sstables : id <= b
    BY <1>0 DEF FilesBounded
<1>2. /\ currentSegmentIndex' \in Nat \ {0} /\ nextTableID \in Nat
      /\ currentSegmentIndex \in Nat \ {0}
      /\ DOMAIN segments \subseteq Nat /\ DOMAIN sstables \subseteq Nat
    BY <1>0, ProcessStep DEF ProcessTyped, FilesTyped
<1>3. DOMAIN sstables' \subseteq DOMAIN sstables \cup {nextTableID}
    <2>1. CASE FlushData \/ FlushFilter \/ FlushMetadata
        BY <2>1 DEF FlushData, FlushFilter, FlushMetadata, WithTable
    <2>2. CASE UNCHANGED sstables
        BY <2>2
    <2> QED BY <2>1, <2>2
            DEF Next, Step, Open, OpenFails, Quit, Crash, CrashInAppend, Call, Deny,
                AppendFails, RotateFails, FlushFails, ResetFails, ReplayRecord, ReplayTorn,
                ReplayNextSegment, ReplayEnd,
                ReplayOver, Restore,
                RotateBefore, AppendRecord, Rotate, Rotated, Apply, Read, ResetRemove,
                ResetDone,
                vars, files
<1>4. DOMAIN segments' \subseteq
          DOMAIN segments \cup 1..currentSegmentIndex' \cup 1..currentSegmentIndex
    <2>1. CASE Open \/ RotateBefore \/ Rotate \/ ResetDone
        BY <1>0, <1>2, <2>1
           DEF Open, RotateBefore, Rotate, Rotated, ResetDone, WithSegments, ProcessTyped
    <2>2. CASE CrashInAppend \/ AppendRecord
        BY <1>0, <2>2
           DEF CrashInAppend, AppendRecord, Framed, FramedAmongOld, WithSegment, ProcessTyped
    <2>3. CASE ResetRemove
        BY <2>3 DEF ResetRemove
    <2>4. CASE UNCHANGED segments
        BY <2>4
    <2> QED BY <2>1, <2>2, <2>3, <2>4
            DEF Next, Step, OpenFails, Quit, Crash, Call, Deny,
                AppendFails, RotateFails, FlushFails, ResetFails, ReplayRecord, ReplayTorn,
                ReplayNextSegment, ReplayEnd,
                ReplayOver, Restore,
                Apply, Read, FlushData, FlushFilter, FlushMetadata, vars, files
<1>5. PICK c \in Nat : /\ c >= b /\ c >= nextTableID
                       /\ c >= currentSegmentIndex' /\ c >= currentSegmentIndex
    <2>1. \A w, x, y, z \in Nat : \E c \in Nat : c >= w /\ c >= x /\ c >= y /\ c >= z
        <3> TAKE w, x, y, z \in Nat
        <3> WITNESS w + x + y + z \in Nat
        <3> QED OBVIOUS
    <2>2. currentSegmentIndex \in Nat
        BY <1>0 DEF ProcessTyped
    <2> QED BY <1>1, <1>2, <2>1, <2>2
<1>6. \A i \in DOMAIN segments' : i <= c
    BY <1>1, <1>2, <1>4, <1>5
<1>7. \A id \in DOMAIN sstables' : id <= c
    BY <1>1, <1>2, <1>3, <1>5
<1> QED BY <1>5, <1>6, <1>7 DEF FilesBounded

LEMMA IInvStep == IInv /\ [Next]_vars => IInv'
<1> SUFFICES ASSUME IInv, [Next]_vars PROVE IInv'
    OBVIOUS
<1>1. TypeOK'
    BY FilesStep, ProcessStep, ControlStep, CountersStep DEF TypeOK, ControlTyped, ControlOK
<1>2. PhaseOK'
    BY ControlStep, ReplayStep DEF PhaseOK, ControlOK
<1> QED BY <1>1, <1>2, LogStep, RotatesStep, ResetPositionStep, IDsStep, BoundedStep DEF IInv

LEMMA Invariance == Spec => []IInv
BY InitIInv, IInvStep, PTL DEF Spec

-----------------------------------------------------------------------------
(* The theorems *)

\* Types, and with them: only counts of tokens within the capacity are ever logged,
\* kept or flushed under the bucket's reserved key.
THEOREM TypeCorrect == Spec => []TypeOK
<1>1. IInv => TypeOK
    BY DEF IInv
<1> QED BY <1>1, Invariance, PTL

\* Flush, reset and append always know whom they serve.
THEOREM PhaseCorrect == Spec => []PhaseOK
<1>1. IInv => PhaseOK
    BY DEF IInv
<1> QED BY <1>1, Invariance, PTL

\* The position the log appends at exists and lies within what the segment holds.
THEOREM LogPositionCorrect == Spec => []LogPosition
<1>1. IInv => LogPosition
    BY DEF IInv
<1> QED BY <1>1, Invariance, PTL

\* The id of the next table is above every table that reads consult.
THEOREM IDsAreFresh == Spec => []IDsFresh
<1>1. IInv => IDsFresh
    BY DEF IInv
<1> QED BY <1>1, Invariance, PTL

\* No step of the engine, failed, retried or after a restart, writes a table that a
\* read may consult.
THEOREM TablesNeverRewritten == Spec => TablesImmutable
<1>1. ASSUME IInv, [Next]_vars
      PROVE  \A id \in tables : id \in DOMAIN sstables' /\ sstables'[id] = sstables[id]
    <2>0. FilesTyped /\ ProcessTyped /\ IDsFresh
        BY <1>1 DEF IInv, TypeOK
    <2>1. CASE FlushData \/ FlushFilter \/ FlushMetadata
        <3>1. Running
            BY <2>1 DEF FlushData, FlushFilter, FlushMetadata, Running
        <3>2. PICK t : sstables' = WithTable(nextTableID, t)
            BY <2>1 DEF FlushData, FlushFilter, FlushMetadata
        <3>3. \A id \in tables : id \in DOMAIN sstables /\ id < nextTableID
            BY <2>0, <3>1 DEF IDsFresh, ProcessTyped
        <3>4. \A id \in tables : id # nextTableID
            BY <2>0, <3>3 DEF FilesTyped, ProcessTyped
        <3> QED BY <3>2, <3>3, <3>4 DEF WithTable
    <2>2. CASE UNCHANGED sstables
        BY <2>0, <2>2 DEF ProcessTyped
    <2> QED BY <1>1, <2>1, <2>2
            DEF Next, Step, Open, OpenFails, Quit, Crash, CrashInAppend, Call, Deny,
                AppendFails, RotateFails, FlushFails, ResetFails, ReplayRecord, ReplayTorn,
                ReplayNextSegment, ReplayEnd,
                ReplayOver, Restore,
                RotateBefore, AppendRecord, Rotate, Rotated, Apply, Read, ResetRemove,
                ResetDone,
                vars, files
<1> QED BY <1>1, Invariance, PTL DEF Spec, TablesImmutable

-----------------------------------------------------------------------------
(* Lookups *)

LEMMA MaxIs ==
    ASSUME NEW S \in SUBSET Nat, NEW n \in S, \A m \in S : m <= n
    PROVE  Max(S) = n
<1>1. Max(S) \in S /\ \A m \in S : Max(S) >= m
    BY MaxElement
<1> DEFINE x == Max(S)
<1>2. x \in Nat /\ x <= n /\ x >= n
    BY <1>1
<1> HIDE DEF x
<1>3. x = n
    BY <1>2
<1> QED BY <1>3 DEF x

\* A new empty memtable hides nothing
LEMMA LookupAfterRoll ==
    ASSUME NEW m \in Seq(Contents), NEW k \in AllKeys
    PROVE  MemLookup(Rolled(m), k) = MemLookup(m, k)
<1> DEFINE n == Append(m, EmptyMemtable)
<1>1. /\ Len(m) \in Nat
      /\ DOMAIN m = 1..Len(m)
      /\ DOMAIN n = 1..Len(m) + 1
      /\ \A i \in 1..Len(m) : n[i] = m[i]
      /\ n[Len(m) + 1] = EmptyMemtable
    BY EmptyMemtableTyped, LenProperties, AppendProperties
<1> HIDE DEF n
<1>2. {i \in DOMAIN n : n[i][k] # Absent} = {i \in DOMAIN m : m[i][k] # Absent}
    BY <1>1 DEF EmptyMemtable
<1> DEFINE holding == {i \in DOMAIN m : m[i][k] # Absent}
<1>3. MemLookup(n, k) = MemLookup(m, k)
    <2>1. CASE holding = {}
        BY <1>2, <2>1 DEF MemLookup
    <2>2. CASE holding # {}
        <3>1. holding \in SUBSET Nat /\ \A i \in holding : i <= Len(m)
            BY <1>1
        <3>2. Max(holding) \in 1..Len(m)
            <4>1. Max(holding) \in holding
                <5> HIDE DEF holding
                <5> QED BY <1>1, <2>2, <3>1, MaxElement
            <4> QED BY <1>1, <4>1
        <3> QED BY <1>1, <1>2, <2>2, <3>2 DEF MemLookup
    <2> QED BY <2>1, <2>2
<1> QED BY <1>3 DEF Rolled, n

\* After an update, its key has its value and every other key what it had
LEMMA LookupAfterUpdate ==
    ASSUME NEW m \in Seq(Contents) \ {<<>>}, NEW k \in AllKeys, NEW v \in ValuesOf(k),
           NEW j \in AllKeys
    PROVE  MemLookup(Rolled(Update(m, k, v)), j) = IF j = k THEN v ELSE MemLookup(m, j)
<1> DEFINE u == Update(m, k, v)
           newest == [m[Len(m)] EXCEPT ![k] = v]
<1>1. Len(m) \in Nat /\ Len(m) \in 1..Len(m) /\ DOMAIN m = 1..Len(m)
    BY LenProperties, EmptySeq
<1>2. m[Len(m)] \in Contents
    BY <1>1, ElementOfSeq
<1>3. v \in Data \cup {Tombstone} /\ v # Absent
    <2>1. ValuesOf(k) \subseteq Data \cup {Tombstone}
        BY DEF ValuesOf, Data
    <2> QED BY <2>1, EngineAssumption, MemtablesAssumption
<1>4. newest \in Contents /\ newest[k] = v /\ \A l \in AllKeys \ {k} : newest[l] = m[Len(m)][l]
    BY <1>2, <1>3 DEF Contents
<1>5. u = [m EXCEPT ![Len(m)] = newest]
    BY DEF Update
<1> HIDE DEF newest
<1>6. /\ u \in Seq(Contents)
      /\ Len(u) = Len(m)
      /\ \A i \in 1..Len(m) : u[i] = IF i = Len(m) THEN newest ELSE m[i]
    BY <1>1, <1>4, <1>5, ExceptSeq
<1>7. DOMAIN u = 1..Len(m)
    BY <1>6, LenProperties
<1> HIDE DEF u
<1>8. MemLookup(Rolled(u), j) = MemLookup(u, j)
    BY <1>6, LookupAfterRoll
<1>9. CASE j = k
    <2> DEFINE holding == {i \in DOMAIN u : u[i][k] # Absent}
    <2>1. Len(m) \in holding
        BY <1>1, <1>3, <1>4, <1>6, <1>7
    <2>2. holding \in SUBSET Nat /\ \A i \in holding : i <= Len(m)
        BY <1>1, <1>7
    <2>3. Max(holding) = Len(m)
        <3> HIDE DEF holding
        <3> QED BY <2>1, <2>2, MaxIs
    <2>4. MemLookup(u, k) = u[Len(m)][k]
        BY <2>1, <2>3 DEF MemLookup
    <2> QED BY <1>1, <1>4, <1>6, <1>8, <1>9, <2>4 DEF u
<1>10. CASE j # k
    <2>1. \A i \in 1..Len(m) : u[i][j] = m[i][j]
        BY <1>4, <1>6, <1>10
    <2>2. {i \in DOMAIN u : u[i][j] # Absent} = {i \in DOMAIN m : m[i][j] # Absent}
        BY <1>1, <1>7, <2>1
    <2> DEFINE holding == {i \in DOMAIN m : m[i][j] # Absent}
    <2>3. CASE holding = {}
        BY <1>8, <1>10, <2>2, <2>3 DEF MemLookup, u
    <2>4. CASE holding # {}
        <3>1. holding \in SUBSET Nat /\ \A i \in holding : i <= Len(m)
            BY <1>1
        <3>2. Max(holding) \in 1..Len(m)
            <4>1. Max(holding) \in holding
                <5> HIDE DEF holding
                <5> QED BY <1>1, <2>4, <3>1, MaxElement
            <4> QED BY <1>1, <4>1
        <3> QED BY <1>8, <1>10, <2>1, <2>2, <2>4, <3>2 DEF MemLookup, u
    <2> QED BY <2>3, <2>4
<1> QED BY <1>9, <1>10

\* So it is when the running process writes its memtables
LEMMA LookupWritten ==
    ASSUME ProcessTyped, NEW r, r.key \in AllKeys, r.value \in ValuesOf(r.key),
           memtables' = Rolled(Update(memtables, r.key, r.value)), NEW j \in AllKeys
    PROVE  /\ r.value # Absent
           /\ MemLookup(memtables, j)' =
                  IF j = r.key THEN r.value ELSE MemLookup(memtables, j)
<1>1. PICK m \in Seq(Contents) \ {<<>>}, k \in AllKeys, v \in Data \cup {Tombstone} :
          m = memtables /\ k = r.key /\ v = r.value
    <2>1. r.value \in Data \cup {Tombstone}
        BY DEF ValuesOf, Data
    <2> QED BY <2>1 DEF ProcessTyped
<1>2. v # Absent /\ v \in ValuesOf(k)
    BY <1>1, EngineAssumption, MemtablesAssumption
<1>3. MemLookup(Rolled(Update(m, k, v)), j) = IF j = k THEN v ELSE MemLookup(m, j)
    BY <1>2, LookupAfterUpdate
<1>4. MemLookup(memtables, j)' = MemLookup(Rolled(Update(m, k, v)), j)
    <2>1. memtables' = Rolled(Update(m, k, v))
        BY <1>1
    <2> QED BY <2>1 DEF MemLookup
<1> QED BY <1>1, <1>2, <1>3, <1>4

\* No memtable holds anything after Clear
LEMMA LookupInNone ==
    ASSUME NEW k \in AllKeys
    PROVE  MemLookup(NoMemtables, k) = Absent
BY DEF MemLookup, NoMemtables, EmptyMemtable

\* A set of tables holds the newest of those that hold a key
LEMMA NewestTable ==
    ASSUME FilesTyped, FilesBounded, NEW ids \in SUBSET DOMAIN sstables, ids # {}
    PROVE  Max(ids) \in ids
<1>1. PICK b \in Nat : \A id \in DOMAIN sstables : id <= b
    BY DEF FilesBounded
<1>2. ids \in SUBSET Nat /\ \A id \in ids : id <= b
    BY <1>1 DEF FilesTyped
<1> QED BY <1>2, MaxElement

\* What tables answer depends on their own files only
LEMMA TablesUntouched ==
    ASSUME FilesTyped, FilesBounded, NEW ids \in SUBSET DOMAIN sstables, NEW k,
           \A id \in ids : sstables'[id] = sstables[id]
    PROVE  TableLookup(ids, k)' = TableLookup(ids, k)
<1> DEFINE old == {id \in ids : Readable(id) /\ sstables[id].entries[k] # Absent}
           new == {id \in ids : Readable(id)' /\ sstables'[id].entries[k] # Absent}
<1>1. \A id \in ids : Readable(id)' <=> Readable(id)
    BY DEF Readable
<1>2. new = old
    BY <1>1
<1>3. CASE old = {}
    BY <1>2, <1>3 DEF TableLookup
<1>4. CASE old # {}
    <2>1. Max(old) \in old
        <3>1. old \in SUBSET DOMAIN sstables
            OBVIOUS
        <3> HIDE DEF old
        <3> QED BY <1>4, <3>1, NewestTable
    <2>2. sstables'[Max(old)].entries[k] = sstables[Max(old)].entries[k]
        BY <2>1
    <2> QED BY <1>2, <1>4, <2>2 DEF TableLookup
<1> QED BY <1>3, <1>4

\* A new table on top of the others hides them for the keys it holds
LEMMA TableAdded ==
    ASSUME FilesTyped, FilesBounded, NEW ids \in SUBSET DOMAIN sstables,
           NEW n \in Nat \ {0}, \A id \in ids : id < n, NEW k, NEW t,
           t.stage # "data", sstables' = WithTable(n, t)
    PROVE  TableLookup(ids \cup {n}, k)' =
               IF t.entries[k] # Absent THEN t.entries[k] ELSE TableLookup(ids, k)
<1> DEFINE old == {id \in ids : Readable(id) /\ sstables[id].entries[k] # Absent}
           new == {id \in ids \cup {n} : Readable(id)' /\ sstables'[id].entries[k] # Absent}
<1>1. ids \subseteq Nat
    BY DEF FilesTyped
<1>2. /\ sstables'[n] = t
      /\ \A id \in ids : id # n /\ sstables'[id] = sstables[id]
    BY <1>1 DEF WithTable
<1>3. /\ Readable(n)'
      /\ \A id \in ids : Readable(id)' <=> Readable(id)
    BY <1>2 DEF Readable
<1>4. CASE t.entries[k] = Absent
    <2>1. new = old
        BY <1>2, <1>3, <1>4
    <2>2. TableLookup(ids \cup {n}, k)' = TableLookup(ids, k)'
        <3>1. {id \in ids : Readable(id)' /\ sstables'[id].entries[k] # Absent} = old
            BY <1>2, <1>3
        <3> QED BY <2>1, <3>1 DEF TableLookup
    <2>3. TableLookup(ids, k)' = TableLookup(ids, k)
        BY <1>2, TablesUntouched
    <2> QED BY <1>4, <2>2, <2>3
<1>5. CASE t.entries[k] # Absent
    <2>1. n \in new
        BY <1>2, <1>3, <1>5
    <2>2. new \in SUBSET Nat /\ \A id \in new : id <= n
        BY <1>1
    <2>3. Max(new) = n
        <3> HIDE DEF new
        <3> QED BY <2>1, <2>2, MaxIs
    <2>4. TableLookup(ids \cup {n}, k)' = sstables'[n].entries[k]
        BY <2>1, <2>3 DEF TableLookup
    <2> QED BY <1>2, <1>5, <2>4
<1> QED BY <1>4, <1>5

-----------------------------------------------------------------------------
(* The list of the cache *)

\* Every entry of the list has a key of its own and the value that a store has for the key
Holds(c, store) ==
    /\ \A i, j \in DOMAIN c : c[i].key = c[j].key => i = j
    /\ \A i \in DOMAIN c : c[i].value = store[c[i].key]

\* Deleting the key that a store changes keeps the list in agreement
LEMMA DeleteHolds ==
    ASSUME NEW c, CacheTyped(c), NEW k, NEW s, NEW t, Holds(c, s),
           \A j \in Keys \ {k} : t[j] = s[j]
    PROVE  /\ Holds(CacheDelete(c, k), t)
           /\ Len(CacheDelete(c, k)) <= Len(c)
<1> DEFINE d == CacheDelete(c, k)
<1>1. c \in Lists(Keys, Values) /\ Single(c)
    BY DEF CacheTyped, Lists, Holds, Single
<1>2. /\ d \in Lists(Keys, Values) /\ Single(d) /\ ~Cached(d, k) /\ KeptBut(d, c, k)
      /\ Len(d) <= Len(c)
    BY <1>1, DeleteIs, ListIs
<1> HIDE DEF d
<1>3. \A i \in DOMAIN d : d[i].key \in Keys \ {k} /\ \E j \in DOMAIN c : d[i] = c[j]
    BY <1>2, ListIs DEF KeptBut, Cached
<1> QED BY <1>2, <1>3 DEF Holds, Single, d

\* Getting a value changes nothing but the order of the list
LEMMA CacheGetHolds ==
    ASSUME NEW c, CacheTyped(c), NEW k, NEW s, Holds(c, s)
    PROVE  /\ Holds(CacheGet(c, k), s)
           /\ Len(CacheGet(c, k)) = Len(c)
<1> DEFINE d == CacheGet(c, k)
<1>1. c \in Lists(Keys, Values) /\ Single(c)
    BY DEF CacheTyped, Lists, Holds, Single
<1>2. /\ Len(d) = Len(c) /\ Single(d)
      /\ \A i \in DOMAIN d : \E j \in DOMAIN c : d[i] = c[j]
    BY <1>1, GetIs
<1> HIDE DEF d
<1> QED BY <1>2 DEF Holds, Single, d

\* Putting it with its new value keeps the agreement, and a cache without room stays empty
LEMMA CachePutHolds ==
    ASSUME NEW c, CacheTyped(c), NEW k \in Keys, NEW v \in Values, NEW s, NEW t,
           Holds(c, s), t[k] = v, \A j \in Keys \ {k} : t[j] = s[j],
           Len(c) <= CacheCapacity
    PROVE  /\ Holds(CachePut(c, CacheCapacity, k, v), t)
           /\ Len(CachePut(c, CacheCapacity, k, v)) <= CacheCapacity
<1> DEFINE d == CachePut(c, CacheCapacity, k, v)
<1>1. c \in Lists(Keys, Values) /\ Single(c)
    BY DEF CacheTyped, Lists, Holds, Single
<1>2. /\ d \in Lists(Keys, Values) /\ Len(d) <= CacheCapacity
      /\ Single(d) /\ KeptBut(d, c, k)
      /\ \A i \in DOMAIN d : d[i].key = k => d[i].value = v
    BY <1>1, PutIs, ConstantsFacts
<1> HIDE DEF d
<1>3. \A i \in DOMAIN d : d[i].key \in Keys
    BY <1>2, ListIs
<1>4. \A i \in DOMAIN d : d[i].value = t[d[i].key]
    BY <1>2, <1>3 DEF KeptBut, Holds
<1> QED BY <1>2, <1>4 DEF Holds, Single, d

-----------------------------------------------------------------------------
(* The inductive invariant *)

StoreMap == [k \in Keys |-> Stored(k)]

CacheAgrees == Holds(cache, StoreMap)

CacheBounded == Len(cache) <= CacheCapacity

\* A start begins with an empty cache and does not fill it
CacheUnused == phase = "start" /\ pc # "idle" => cache = <<>>

\* The table a flush has written is what the memtables hold
TableCurrent ==
    pc = "metadata" =>
        sstables[nextTableID] = [entries |-> Entries(memtables), stage |-> "filter"]

CacheInv == CacheAgrees /\ CacheBounded /\ CacheUnused /\ TableCurrent

LEMMA EmptyHolds ==
    ASSUME NEW s
    PROVE  Holds(<<>>, s) /\ Len(<<>>) <= CacheCapacity
BY ConstantsFacts DEF Holds

LEMMA InitCacheInv == Init => CacheInv
<1> SUFFICES ASSUME Init PROVE CacheInv
    OBVIOUS
<1>1. cache = <<>> /\ pc = "down"
    BY DEF Init
<1> QED BY <1>1, EmptyHolds
        DEF CacheInv, CacheAgrees, CacheBounded, CacheUnused, TableCurrent

\* The steps that end a process or begin one leave no cache
LEMMA EndedStep ==
    ASSUME IInv, Next,
           \/ Open \/ OpenFails \/ Quit \/ Crash \/ CrashInAppend \/ ReplayTorn
           \/ (FlushFails \/ ResetFails) /\ phase = "start"
    PROVE  cache' = <<>> /\ pc' \in {"replay", "down", "failed"}
BY DEF Open, OpenFails, Quit, Crash, CrashInAppend, ReplayTorn, FlushFails, ResetFails,
       Down, Fresh

\* Steps that touch neither memtables nor tables nor cache
KeepsStore ==
    \/ ReplayNextSegment \/ ReplayEnd \/ Restore \/ Call \/ Deny
    \/ RotateBefore \/ AppendRecord \/ Rotate \/ AppendFails \/ RotateFails
    \/ (FlushFails \/ ResetFails) /\ phase # "start"
    \/ ResetRemove \/ ResetDone

LEMMA KeptStep ==
    ASSUME KeepsStore
    PROVE  UNCHANGED <<memtables, sstables, tables, cache>>
BY DEF KeepsStore, ReplayNextSegment, ReplayEnd, Restore, Call, Deny, RotateBefore,
       AppendRecord, Rotate, AppendFails, RotateFails, FlushFails, ResetFails,
       ResetRemove, ResetDone, files, tableVars

\* The store is what it was when its parts are
LEMMA StoreKept ==
    ASSUME UNCHANGED <<memtables, sstables, tables>>
    PROVE  \A k : Stored(k)' = Stored(k)
BY DEF Stored, MemLookup, TableLookup, Readable

\* A flush that is not finished changes no answer
LEMMA StoreUnderFlush ==
    ASSUME IInv, FlushData \/ FlushFilter, NEW k
    PROVE  Stored(k)' = Stored(k)
<1>0. FilesTyped /\ ProcessTyped /\ IDsFresh /\ FilesBounded
    BY DEF IInv, TypeOK
<1>1. PICK t : sstables' = WithTable(nextTableID, t)
    BY DEF FlushData, FlushFilter
<1>2. UNCHANGED <<memtables, tables>> /\ Running
    BY DEF FlushData, FlushFilter, tableVars, Running
<1>3. tables \in SUBSET DOMAIN sstables /\ \A id \in tables : id # nextTableID
    BY <1>0, <1>2 DEF IDsFresh, ProcessTyped, FilesTyped
<1>4. \A id \in tables : sstables'[id] = sstables[id]
    BY <1>1, <1>3 DEF WithTable
<1>5. TableLookup(tables, k)' = TableLookup(tables, k)
    <2>1. PICK ids \in SUBSET DOMAIN sstables : ids = tables
        BY <1>3
    <2>2. TableLookup(ids, k)' = TableLookup(ids, k)
        BY <1>0, <1>4, <2>1, TablesUntouched
    <2>3. tables = ids /\ tables' = ids
        BY <1>2, <2>1
    <2> QED BY <2>2, <2>3 DEF TableLookup
<1>6. MemLookup(memtables, k)' = MemLookup(memtables, k)
    BY <1>2 DEF MemLookup
<1> QED BY <1>5, <1>6 DEF Stored

\* The table that takes the place of the memtables answers as they did
LEMMA StoreFlushed ==
    ASSUME IInv, TableCurrent, FlushMetadata, NEW k \in AllKeys
    PROVE  Stored(k)' = Stored(k)
<1>0. FilesTyped /\ ProcessTyped /\ IDsFresh /\ FilesBounded
    BY DEF IInv, TypeOK
<1> DEFINE t == [entries |-> sstables[nextTableID].entries, stage |-> "complete"]
<1>1. /\ sstables' = WithTable(nextTableID, t)
      /\ tables' = tables \cup {nextTableID}
      /\ memtables' = NoMemtables
      /\ pc = "metadata"
    BY DEF FlushMetadata
<1>2. t.entries[k] = MemLookup(memtables, k) /\ t.stage # "data"
    BY <1>1 DEF TableCurrent, Entries
<1> HIDE DEF t
<1>3. /\ tables \in SUBSET DOMAIN sstables
      /\ nextTableID \in Nat \ {0}
      /\ \A id \in tables : id < nextTableID
    BY <1>0, <1>1 DEF IDsFresh, ProcessTyped, Running
<1>4. PICK ids \in SUBSET DOMAIN sstables, n \in Nat \ {0} :
          ids = tables /\ n = nextTableID
    BY <1>3
<1>5. PICK table : table = t
    OBVIOUS
<1>6. TableLookup(ids \cup {n}, k)' =
          IF table.entries[k] # Absent THEN table.entries[k] ELSE TableLookup(ids, k)
    BY <1>0, <1>1, <1>2, <1>3, <1>4, <1>5, TableAdded
<1>7. TableLookup(tables, k)' = TableLookup(ids \cup {n}, k)'
    <2>1. tables' = ids \cup {n}
        BY <1>1, <1>4
    <2> QED BY <2>1 DEF TableLookup
<1>8. MemLookup(memtables, k)' = Absent
    <2>1. MemLookup(memtables, k)' = MemLookup(NoMemtables, k)
        BY <1>1 DEF MemLookup
    <2> QED BY <2>1, LookupInNone
<1>9. TableLookup(tables, k)' =
          IF MemLookup(memtables, k) # Absent THEN MemLookup(memtables, k)
          ELSE TableLookup(tables, k)
    BY <1>2, <1>4, <1>5, <1>6, <1>7
<1> QED BY <1>8, <1>9 DEF Stored

\* The store after a call's record is in a memtable
LEMMA StoreApplied ==
    ASSUME IInv, Apply, NEW j \in AllKeys
    PROVE  Stored(j)' = IF j = Written.key THEN Written.value ELSE Stored(j)
<1>0. FilesTyped /\ ProcessTyped /\ FilesBounded /\ phase # "start"
    BY DEF IInv, TypeOK, PhaseOK, CallInPhase, Apply
<1>1. /\ memtables' = Rolled(Update(memtables, Written.key, Written.value))
      /\ UNCHANGED <<sstables, tables>>
    BY DEF Apply, files, tableVars
<1>2. Written.key \in AllKeys /\ Written.value \in ValuesOf(Written.key)
    BY <1>0, WrittenTyped
<1>3. /\ Written.value # Absent
      /\ MemLookup(memtables, j)' =
             IF j = Written.key THEN Written.value ELSE MemLookup(memtables, j)
    BY <1>0, <1>1, <1>2, LookupWritten
<1>4. TableLookup(tables, j)' = TableLookup(tables, j)
    BY <1>1 DEF TableLookup, Readable
<1> QED BY <1>3, <1>4 DEF Stored

\* A call changes the cache for the key it changes the store for
LEMMA CacheApplied ==
    ASSUME IInv, CacheInv, Apply
    PROVE  Holds(cache', StoreMap') /\ Len(cache') <= CacheCapacity
<1>0. /\ CacheTyped(cache) /\ Holds(cache, StoreMap) /\ Len(cache) <= CacheCapacity
      /\ phase \in {"allow", "op"} /\ call \in Calls
      /\ phase = "op" => call.op # "get"
    BY DEF IInv, TypeOK, ProcessTyped, ControlTyped, PhaseOK, CallInPhase, Apply, CacheInv,
           CacheAgrees, CacheBounded, CacheTyped
<1>1. cache' = CacheWritten
    BY DEF Apply
<1>2. \A j \in Keys : /\ StoreMap[j] = Stored(j)
                       /\ StoreMap'[j] = Stored(j)'
                       /\ Stored(j)' = IF j = Written.key THEN Written.value ELSE Stored(j)
    BY StoreApplied DEF StoreMap, Keys
<1>3. /\ call.op \in {"put", "get", "delete"}
      /\ call.key \in Keys
      /\ call.op = "put" => call.value \in Values
    BY <1>0, CallTyped
<1>4. CASE phase = "allow"
    <2>1. Written.key \notin Keys /\ cache' = cache
        BY <1>1, <1>4 DEF Written, Record, Keys, CacheWritten
    <2>2. StoreMap' = StoreMap
        BY <1>2, <2>1 DEF StoreMap
    <2> QED BY <1>0, <2>1, <2>2
<1>5. CASE phase = "op" /\ call.op = "delete"
    <2>1. Written.key = call.key /\ cache' = CacheDelete(cache, call.key)
        BY <1>1, <1>5 DEF Written, Record, CacheWritten
    <2>2. \A j \in Keys \ {call.key} : StoreMap'[j] = StoreMap[j]
        BY <1>2, <2>1
    <2>3. PICK k, s, t : k = call.key /\ s = StoreMap /\ t = StoreMap'
        OBVIOUS
    <2>4. PICK c : c = cache
        OBVIOUS
    <2>5. CacheTyped(c) /\ Holds(c, s) /\ Len(c) <= CacheCapacity
        BY <1>0, <2>3, <2>4
    <2>6. Holds(CacheDelete(c, k), t) /\ Len(CacheDelete(c, k)) <= Len(c)
        BY <2>2, <2>3, <2>5, DeleteHolds
    <2>7. Len(c) \in Nat /\ Len(CacheDelete(c, k)) \in Nat
        BY <2>5, CacheDeleteTyped, LenProperties DEF CacheTyped
    <2>8. Len(CacheDelete(c, k)) <= CacheCapacity
        BY <2>5, <2>6, <2>7, ConstantsFacts
    <2> QED BY <2>1, <2>3, <2>4, <2>6, <2>8
<1>6. CASE phase = "op" /\ call.op = "put"
    <2>1. /\ Written.key = call.key /\ Written.value = call.value
          /\ cache' = CachePut(cache, CacheCapacity, call.key, call.value)
        BY <1>1, <1>6 DEF Written, Record, CacheWritten
    <2>2. /\ StoreMap'[call.key] = call.value
          /\ \A j \in Keys \ {call.key} : StoreMap'[j] = StoreMap[j]
        BY <1>2, <1>3, <2>1
    <2> QED BY <1>0, <1>3, <1>6, <2>1, <2>2, CachePutHolds
<1> QED BY <1>0, <1>3, <1>4, <1>5, <1>6

\* A read leaves the store, and caches what it found there
LEMMA CacheRead ==
    ASSUME IInv, CacheInv, Read
    PROVE  Holds(cache', StoreMap') /\ Len(cache') <= CacheCapacity
<1>0. /\ CacheTyped(cache) /\ Holds(cache, StoreMap) /\ Len(cache) <= CacheCapacity
      /\ call \in Calls
      /\ FilesTyped /\ FilesBounded /\ ProcessTyped
    BY DEF IInv, TypeOK, ProcessTyped, ControlTyped, PhaseOK, CallInPhase, Read, CacheInv,
           CacheAgrees, CacheBounded, CacheTyped
<1>1. call.key \in Keys
    BY <1>0, CallTyped
<1>2. StoreMap' = StoreMap
    <2>1. \A k : Stored(k)' = Stored(k)
        BY StoreKept DEF Read, files, tableVars
    <2> QED BY <2>1 DEF StoreMap
<1>3. StoreMap[call.key] = Stored(call.key)
    BY <1>1 DEF StoreMap
<1>4. CASE Cached(cache, call.key)
    <2>1. cache' = CacheGet(cache, call.key)
        BY <1>4 DEF Read
    <2> QED BY <1>0, <1>2, <2>1, CacheGetHolds
<1>5. CASE cache' = cache
    BY <1>0, <1>2, <1>5
<1>6. CASE /\ ~Cached(cache, call.key)
           /\ Live(Stored(call.key)) # Absent
           /\ cache' = CachePut(cache, CacheCapacity, call.key, Stored(call.key))
    <2>1. Stored(call.key) \in Values
        <3>1. Stored(call.key) \in Values \cup {Tombstone, Absent}
            BY <1>0, <1>1, StoredTyped DEF ValuesOf, Keys
        <3> QED BY <1>6, <3>1 DEF Live
    <2> QED BY <1>0, <1>1, <1>2, <1>3, <1>6, <2>1, CachePutHolds
<1> QED BY <1>4, <1>5, <1>6 DEF Read

-----------------------------------------------------------------------------
(* The step *)

LEMMA AgreesStep ==
    ASSUME IInv, CacheInv, [Next]_vars
    PROVE  Holds(cache', StoreMap') /\ Len(cache') <= CacheCapacity
<1>0. /\ Holds(cache, StoreMap) /\ Len(cache) <= CacheCapacity
      /\ CallInPhase /\ CacheUnused /\ TableCurrent
    BY DEF IInv, PhaseOK, CacheInv, CacheAgrees, CacheBounded
<1>1. CASE cache' = <<>>
    BY <1>1, EmptyHolds
<1>2. ASSUME cache' = cache, \A k \in Keys : Stored(k)' = Stored(k)
      PROVE  Holds(cache', StoreMap') /\ Len(cache') <= CacheCapacity
    <2>1. StoreMap' = StoreMap
        BY <1>2 DEF StoreMap
    <2> QED BY <1>0, <1>2, <2>1
<1>3. CASE \/ Open \/ OpenFails \/ Quit \/ Crash \/ CrashInAppend \/ ReplayTorn
           \/ (FlushFails \/ ResetFails) /\ phase = "start"
    <2>1. Next
        BY <1>3 DEF Next, Step
    <2> QED BY <1>1, <1>3, <2>1, EndedStep
<1>4. CASE KeepsStore
    BY <1>2, <1>4, KeptStep, StoreKept
<1>5. CASE ReplayRecord
    <2>1. cache' = <<>>
        BY <1>0, <1>5 DEF ReplayRecord, CallInPhase, CacheUnused
    <2> QED BY <1>1, <2>1
<1>6. CASE FlushData \/ FlushFilter
    <2>1. cache' = cache
        BY <1>6 DEF FlushData, FlushFilter
    <2> QED BY <1>2, <1>6, <2>1, StoreUnderFlush
<1>7. CASE FlushMetadata
    <2>1. cache' = cache
        BY <1>7 DEF FlushMetadata
    <2> QED BY <1>0, <1>2, <1>7, <2>1, StoreFlushed DEF Keys
<1>8. CASE Apply
    BY <1>8, CacheApplied
<1>9. CASE Read
    BY <1>9, CacheRead
<1>10. CASE UNCHANGED vars
    BY <1>2, <1>10, StoreKept DEF vars
<1> QED BY <1>3, <1>4, <1>5, <1>6, <1>7, <1>8, <1>9, <1>10 DEF Next, Step, KeepsStore

LEMMA UnusedStep ==
    ASSUME IInv, CacheInv, [Next]_vars
    PROVE  CacheUnused'
<1>0. CallInPhase /\ CacheUnused /\ ControlTyped
    BY DEF IInv, TypeOK, PhaseOK, CacheInv
<1>1. CASE \/ Open \/ OpenFails \/ Quit \/ Crash \/ CrashInAppend \/ ReplayTorn
           \/ (FlushFails \/ ResetFails) /\ phase = "start"
    <2>1. Next
        BY <1>1 DEF Next, Step
    <2> QED BY <1>1, <2>1, EndedStep DEF CacheUnused
<1>2. CASE pc' = "idle"
    BY <1>2 DEF CacheUnused
<1>3. CASE phase' # "start"
    BY <1>3 DEF CacheUnused
<1>4. CASE cache' = cache /\ phase = "start" /\ pc # "idle"
    BY <1>0, <1>4 DEF CacheUnused
<1>5. CASE \/ Call \/ AppendFails \/ RotateFails \/ Restore \/ Read
           \/ (FlushFails \/ ResetFails) /\ phase # "start"
    BY <1>2, <1>3, <1>5
       DEF Call, AppendFails, RotateFails, Restore, Read, FlushFails, ResetFails, Answer
<1>6. CASE Deny \/ UNCHANGED vars
    BY <1>0, <1>6 DEF Deny, vars, CacheUnused
<1>7. CASE RotateBefore \/ AppendRecord \/ Rotate
    BY <1>0, <1>3, <1>7 DEF RotateBefore, AppendRecord, Rotate, CallInPhase
<1>8. CASE ReplayRecord \/ ReplayNextSegment \/ ReplayEnd
    BY <1>0, <1>4, <1>8 DEF ReplayRecord, ReplayNextSegment, ReplayEnd, CallInPhase
<1>9. CASE FlushData \/ FlushFilter \/ FlushMetadata \/ ResetRemove
    BY <1>3, <1>4, <1>9 DEF FlushData, FlushFilter, FlushMetadata, ResetRemove
<1>10. CASE Apply
    <2>1. phase # "start"
        BY <1>0, <1>10 DEF Apply, CallInPhase
    <2>2. CASE Proceed
        BY <1>2, <1>3, <2>1, <2>2 DEF Proceed, Answer
    <2>3. CASE UNCHANGED phase
        BY <1>3, <2>1, <2>3
    <2> QED BY <1>10, <2>2, <2>3 DEF Apply
<1>11. CASE ResetDone
    <2>1. Proceed /\ cache' = cache /\ pc = "reset"
        BY <1>11 DEF ResetDone
    <2> QED BY <1>2, <1>3, <1>4, <2>1 DEF Proceed, Answer
<1> QED BY <1>1, <1>5, <1>6, <1>7, <1>8, <1>9, <1>10, <1>11 DEF Next, Step

LEMMA CurrentStep ==
    ASSUME IInv, CacheInv, [Next]_vars
    PROVE  TableCurrent'
<1>0. CallInPhase /\ TableCurrent
    BY DEF IInv, PhaseOK, CacheInv
<1>1. CASE pc' # "metadata"
    BY <1>1 DEF TableCurrent
<1>2. CASE FlushFilter
    <2>1. /\ sstables' = WithTable(nextTableID,
                              [entries |-> Entries(memtables), stage |-> "filter"])
          /\ UNCHANGED <<memtables, nextTableID>>
        BY <1>2 DEF FlushFilter, tableVars
    <2>2. sstables'[nextTableID] = [entries |-> Entries(memtables), stage |-> "filter"]
        BY <2>1 DEF WithTable
    <2>3. Entries(memtables)' = Entries(memtables)
        BY <2>1 DEF Entries, MemLookup
    <2> QED BY <2>1, <2>2, <2>3 DEF TableCurrent
<1>3. CASE UNCHANGED vars
    BY <1>0, <1>3 DEF vars, TableCurrent, Entries, MemLookup
<1>4. CASE \/ Open \/ OpenFails \/ Quit \/ Crash \/ CrashInAppend \/ ReplayTorn
           \/ (FlushFails \/ ResetFails) /\ phase = "start"
    <2>1. Next
        BY <1>4 DEF Next, Step
    <2> QED BY <1>1, <1>4, <2>1, EndedStep
<1>5. CASE \/ Call \/ AppendFails \/ RotateFails \/ Restore \/ Read \/ Deny
           \/ (FlushFails \/ ResetFails) /\ phase # "start"
    BY <1>1, <1>5
       DEF Call, AppendFails, RotateFails, Restore, Read, Deny, FlushFails, ResetFails, Answer
<1>6. CASE \/ RotateBefore \/ AppendRecord \/ Rotate
           \/ ReplayRecord \/ ReplayNextSegment \/ ReplayEnd
           \/ FlushData \/ FlushMetadata \/ ResetRemove
    BY <1>1, <1>6
       DEF RotateBefore, AppendRecord, Rotate, ReplayRecord, ReplayNextSegment, ReplayEnd,
           FlushData, FlushMetadata, ResetRemove
<1>7. CASE Apply \/ ResetDone
    BY <1>1, <1>7 DEF Apply, ResetDone, Proceed, Answer
<1> QED BY <1>2, <1>3, <1>4, <1>5, <1>6, <1>7 DEF Next, Step

LEMMA CacheInvariance == Spec => [](IInv /\ CacheInv)
<1>1. Init => CacheInv
    BY InitCacheInv
<1>2. IInv /\ CacheInv /\ [Next]_vars => CacheInv'
    BY AgreesStep, UnusedStep, CurrentStep DEF CacheInv, CacheAgrees, CacheBounded
<1> QED BY <1>1, <1>2, Invariance, PTL DEF Spec

LEMMA CachedIsStored == IInv /\ CacheInv => CacheCoherent
<1> SUFFICES ASSUME CacheInv, NEW k \in Keys, Cached(cache, k)
             PROVE  CachedValue(cache, k) = Stored(k)
    BY DEF CacheCoherent
<1>1. /\ Position(cache, k) \in DOMAIN cache
      /\ cache[Position(cache, k)].key = k
    BY DEF Cached, Position
<1>2. Holds(cache, StoreMap)
    BY DEF CacheInv, CacheAgrees
<1> QED BY <1>1, <1>2 DEF Holds, StoreMap, CachedValue

\* The record cache never answers with anything but what the memtables and the tables
\* hold, whatever calls, flushes, failures and restarts came before.
THEOREM CacheIsCoherent == Spec => []CacheCoherent
BY CachedIsStored, CacheInvariance, PTL

-----------------------------------------------------------------------------
(* Writing at the end of a segment *)

LEMMA PrefixItself ==
    ASSUME NEW s \in Seq(Records)
    PROVE  IsPrefix(s, s)
BY LenProperties DEF IsPrefix

LEMMA PrefixGrown ==
    ASSUME NEW s \in Seq(Records), NEW r \in Records
    PROVE  /\ s \o <<r>> \in Seq(Records)
           /\ IsPrefix(s, s \o <<r>>)
           /\ Len(s \o <<r>>) = Len(s) + 1
           /\ \A p \in 1..Len(s) : (s \o <<r>>)[p] = s[p]
           /\ (s \o <<r>>)[Len(s) + 1] = r
<1> DEFINE t == s \o <<r>>
<1>1. <<r>> \in Seq(Records) /\ Len(<<r>>) = 1 /\ <<r>>[1] = r
    OBVIOUS
<1>2. Len(s) \in Nat
    BY LenProperties
<1>3. /\ t \in Seq(Records)
      /\ Len(t) = Len(s) + Len(<<r>>)
      /\ \A i \in 1..Len(s) + Len(<<r>>) : t[i] = IF i <= Len(s) THEN s[i] ELSE <<r>>[i - Len(s)]
    BY <1>1, ConcatProperties
<1>4. SubSeq(t, 1, Len(s)) = s /\ SubSeq(s, 1, Len(s)) = s
    BY <1>1, SubSeqOfConcat1, SubSeqFull
<1> DEFINE one == <<r>>
<1> HIDE DEF t, one
<1>5. Len(t) = Len(s) + 1 /\ Len(s) <= Len(t)
    BY <1>1, <1>2, <1>3 DEF one
<1>6. \A p \in 1..Len(s) : t[p] = s[p]
    BY <1>1, <1>2, <1>3
<1>7. t[Len(s) + 1] = r
    <2>1. t[Len(s) + 1] = one[Len(s) + 1 - Len(s)]
        BY <1>1, <1>2, <1>3 DEF one
    <2>2. Len(s) + 1 - Len(s) = 1
        BY <1>2
    <2> QED BY <1>1, <2>1, <2>2 DEF one
<1>8. IsPrefix(s, t)
    BY <1>4, <1>5 DEF IsPrefix
<1> QED BY <1>3, <1>5, <1>6, <1>7, <1>8 DEF t

\* A record written behind all that a segment holds replaces nothing
LEMMA WrittenAtEnd ==
    ASSUME NEW old \in Seq(Records), NEW r \in Records,
           NEW s \in Overwritten(old, Len(old) + 1, r)
    PROVE  s = old \o <<r>>
<1>1. Len(old) \in Nat
    BY LenProperties
<1>2. Len(old) < Len(old) + 1 /\ Len(old) + 1 - 1 = Len(old)
    BY <1>1
<1>3. s = SubSeq(old, 1, Len(old) + 1 - 1) \o <<r>> \o <<>>
    BY <1>2 DEF Overwritten
<1>4. SubSeq(old, 1, Len(old) + 1 - 1) = old
    BY <1>2, SubSeqFull
<1>5. old \o <<r>> \in Seq(Records)
    BY PrefixGrown
<1>6. s = (old \o <<r>>) \o <<>>
    BY <1>3, <1>4
<1> QED BY <1>5, <1>6, ConcatEmptySeq

\* What follows an old end, by one record or more, has the old records before it
LEMMA PrefixExtended ==
    ASSUME NEW s \in Seq(Records), NEW t \in Seq(Records)
    PROVE  IsPrefix(s, s \o t)
<1>1. Len(s) \in Nat /\ Len(t) \in Nat
    BY LenProperties
<1>2. Len(s \o t) = Len(s) + Len(t)
    BY ConcatProperties
<1>3. SubSeq(s \o t, 1, Len(s)) = s /\ SubSeq(s, 1, Len(s)) = s
    BY SubSeqOfConcat1, SubSeqFull
<1>4. Len(s) <= Len(s \o t)
    BY <1>1, <1>2
<1> QED BY <1>3, <1>4 DEF IsPrefix

-----------------------------------------------------------------------------
(* The log grows at its end *)

\* Reset has removed the first segment
FirstGone == pc = "reset" /\ 1 \notin DOMAIN segments

\* The files of the log are numbered from 1 without a gap
NoGaps ==
    ~resetUndone /\ ~FirstGone => \A i \in DOMAIN segments : 1..i \subseteq DOMAIN segments

\* No file is left of a log that reached further than this one
NoneBeyond == ~resetUndone /\ Running => DOMAIN segments \subseteq 1..currentSegmentIndex

\* The current segment holds no more than was counted in it
AtEnd ==
    ~resetUndone /\ Running /\ ~FirstGone =>
        currentRecordCount = Len(RecordsIn(currentSegmentIndex))

\* The replay has still to come to the p-th record of segment i
Ahead(i, p) == cursor.seg < i \/ (cursor.seg = i /\ cursor.pos <= p)

\* Half a record can only be where the replay has not come to
OnlyAhead ==
    ~resetUndone /\ Running =>
        \A i \in DOMAIN segments : \A p \in DOMAIN segments[i] :
            segments[i][p] = Torn => replaying /\ Ahead(i, p)

LogInv == NoGaps /\ NoneBeyond /\ AtEnd /\ OnlyAhead

LEMMA InitLogInv == Init => LogInv
BY DEF Init, LogInv, NoGaps, NoneBeyond, AtEnd, OnlyAhead, Running, FirstGone

\* Records that were brought back stay so, and those of a Reset that was cut
LEMMA CutStays ==
    ASSUME [Next]_vars, resetUndone \in BOOLEAN, ~resetUndone'
    PROVE  ~resetUndone
BY Zenon
   DEF Next, Step, Open, OpenFails, Quit, Crash, CrashInAppend, Call, Deny,
       AppendFails, RotateFails, FlushFails, ResetFails, ReplayRecord, ReplayTorn,
       ReplayNextSegment, ReplayEnd, Restore, RotateBefore, AppendRecord, Framed,
       FramedAmongOld, Rotate, Apply, Read,
       FlushData, FlushFilter, FlushMetadata, ResetRemove, ResetDone,
       vars, history

\* An append that brings nothing back writes its frames and nothing else
LEMMA FramedAlone ==
    ASSUME AppendRecord, ~resetUndone'
    PROVE  Framed
BY DEF AppendRecord, FramedAmongOld

\* The steps that leave no process
Stops ==
    \/ OpenFails \/ Quit \/ Crash \/ CrashInAppend \/ ReplayTorn
    \/ (FlushFails \/ ResetFails) /\ phase = "start"

LEMMA StopsStep ==
    ASSUME Stops
    PROVE  ~Running'
BY DEF Stops, OpenFails, Quit, Crash, CrashInAppend, ReplayTorn, FlushFails, ResetFails, Running

\* The steps of a running process that leave the log and its position alone
KeepsLog ==
    \/ ReplayRecord \/ ReplayNextSegment \/ ReplayEnd \/ Restore \/ Call \/ Deny
    \/ Apply \/ Read \/ FlushData \/ FlushFilter \/ FlushMetadata
    \/ FlushFails /\ phase # "start"
    \/ UNCHANGED vars

LEMMA KeptLog ==
    ASSUME KeepsLog
    PROVE  /\ UNCHANGED <<segments, currentSegmentIndex, currentRecordCount, resetUndone>>
           /\ Running' => Running
           /\ FirstGone => UNCHANGED vars
BY DEF KeepsLog, ReplayRecord, ReplayNextSegment, ReplayEnd, Restore, Call, Deny, Apply, Read,
       FlushData, FlushFilter, FlushMetadata, FlushFails, files, walVars, history, vars,
       Running, FirstGone

\* What New finds: the files from 1 to the last one and no others
LEMMA FilesNumbered ==
    ASSUME IInv, LogInv, ~FirstGone, ~resetUndone
    PROVE  /\ LastSegment \in Nat
           /\ DOMAIN segments = 1..LastSegment
<1>1. /\ LastSegment \in Nat
      /\ 1..LastSegment \subseteq DOMAIN segments
      /\ LastSegment + 1 \notin DOMAIN segments
    BY LastSegmentFound DEF IInv, TypeOK
<1>2. \A i \in DOMAIN segments : i \in Nat \ {0} /\ 1..i \subseteq DOMAIN segments
    BY DEF IInv, TypeOK, FilesTyped, LogInv, NoGaps
<1> DEFINE n == LastSegment
<1> HIDE DEF n
<1>3. ASSUME NEW i \in DOMAIN segments
      PROVE  i \in 1..n
    <2>1. i \in Nat \ {0} /\ n + 1 \notin 1..i /\ n \in Nat
        BY <1>1, <1>2 DEF n
    <2> QED BY <2>1
<1> QED BY <1>1, <1>3 DEF n

\* A reset that ends leaves nothing of the log
LEMMA AllGone ==
    ASSUME IInv, LogInv, pc = "reset", ~resetUndone,
           DOMAIN segments \cap 1..currentSegmentIndex = {}
    PROVE  DOMAIN segments = {}
BY DEF LogInv, NoneBeyond, Running

LEMMA NoneBeyondStep ==
    ASSUME IInv, LogInv, [Next]_vars
    PROVE  NoneBeyond'
<1> SUFFICES ASSUME ~resetUndone', Running'
             PROVE  DOMAIN segments' \subseteq 1..currentSegmentIndex'
    BY DEF NoneBeyond
<1>0. /\ FilesTyped /\ currentSegmentIndex \in Nat \ {0} /\ ~resetUndone
      /\ Running => DOMAIN segments \subseteq 1..currentSegmentIndex
    BY CutStays DEF IInv, TypeOK, ProcessTyped, FlagsTyped, LogInv, NoneBeyond
<1>1. CASE Open
    <2> DEFINE n == LastSegment
    <2>1. n \in Nat /\ DOMAIN segments = 1..n
        BY <1>0, <1>1, FilesNumbered DEF Open, FirstGone
    <2>2. /\ currentSegmentIndex' \in {n, n + 1}
          /\ DOMAIN segments' = DOMAIN segments \cup 1..currentSegmentIndex'
        BY <1>1 DEF Open, WithSegments
    <2> HIDE DEF n
    <2> QED BY <2>1, <2>2
<1>2. CASE Stops
    BY <1>2, StopsStep
<1>3. CASE KeepsLog
    BY <1>0, <1>3, KeptLog
<1>4. CASE AppendFails \/ RotateFails
    <2>1. /\ UNCHANGED segments /\ Running
          /\ currentSegmentIndex' \in {currentSegmentIndex, currentSegmentIndex + 1}
        BY <1>4 DEF AppendFails, RotateFails, files, walVars, Running
    <2> QED BY <1>0, <2>1
<1>5. CASE RotateBefore \/ Rotate
    <2>1. /\ currentSegmentIndex' = currentSegmentIndex + 1 /\ Running
          /\ DOMAIN segments' = DOMAIN segments \cup {currentSegmentIndex'}
        BY <1>5 DEF RotateBefore, Rotate, Rotated, WithSegments, Running
    <2> QED BY <1>0, <2>1
<1>6. CASE AppendRecord
    <2>1. /\ currentSegmentIndex' = currentSegmentIndex /\ Running
          /\ DOMAIN segments' = DOMAIN segments \cup {currentSegmentIndex}
        BY <1>6 DEF AppendRecord, Framed, FramedAmongOld, WithSegment, Running
    <2> QED BY <1>0, <2>1
<1>7. CASE ResetRemove
    <2>1. /\ currentSegmentIndex' = currentSegmentIndex /\ Running
          /\ DOMAIN segments' \subseteq DOMAIN segments
        BY <1>7 DEF ResetRemove, walVars, Running
    <2> QED BY <1>0, <2>1
<1>8. CASE ResetDone
    <2>1. DOMAIN segments = {}
        BY <1>0, <1>8, AllGone DEF ResetDone
    <2> QED BY <1>8, <2>1 DEF ResetDone, WithSegments
<1>9. CASE ResetFails /\ phase # "start"
    <2>1. CASE UNCHANGED walVars
        BY <1>0, <1>9, <2>1 DEF ResetFails, files, walVars, Running
    <2>2. CASE DOMAIN segments \cap 1..currentSegmentIndex = {}
        BY <1>0, <1>9, <2>2, AllGone DEF ResetFails, files
    <2> QED BY <1>9, <2>1, <2>2 DEF ResetFails
<1> QED BY <1>1, <1>2, <1>3, <1>4, <1>5, <1>6, <1>7, <1>8, <1>9
        DEF Next, Step, Stops, KeepsLog

\* Reset removes the first segment first
LEMMA FirstRemoved ==
    ASSUME IInv, ResetRemove
    PROVE  1 \notin DOMAIN segments'
<1> DEFINE left == DOMAIN segments \cap 1..currentSegmentIndex
           first == NextRemoved(left)
<1>1. /\ left # {}
      /\ segments' = [i \in DOMAIN segments \ {first} |-> segments[i]]
    BY DEF ResetRemove
<1>2. left \in SUBSET (Nat \ {0}) /\ currentSegmentIndex \in Nat \ {0}
    BY DEF IInv, TypeOK, FilesTyped, ProcessTyped
<1>3. first \in left /\ \A m \in left : first <= m
    <2>1. PICK n \in left : \A m \in left : n <= m
        <3> HIDE DEF left
        <3> QED BY <1>1, <1>2, LeastElement
    <2> HIDE DEF left
    <2> QED BY <2>1 DEF NextRemoved, Min
<1>4. CASE 1 \in DOMAIN segments
    <2>1. 1 \in left
        BY <1>2, <1>4
    <2>2. first = 1
        <3>1. first \in Nat \ {0} /\ first <= 1
            BY <1>2, <1>3, <2>1
        <3> HIDE DEF first
        <3> QED BY <3>1
    <2> HIDE DEF first
    <2> QED BY <1>1, <2>2
<1>5. CASE 1 \notin DOMAIN segments
    BY <1>1, <1>5
<1> QED BY <1>4, <1>5

LEMMA NoGapsStep ==
    ASSUME IInv, LogInv, [Next]_vars
    PROVE  NoGaps'
<1> SUFFICES ASSUME ~resetUndone', ~FirstGone', NEW i \in DOMAIN segments'
             PROVE  1..i \subseteq DOMAIN segments'
    BY DEF NoGaps
<1>0. /\ FilesTyped /\ currentSegmentIndex \in Nat \ {0} /\ ~resetUndone
      /\ ~FirstGone => \A j \in DOMAIN segments : 1..j \subseteq DOMAIN segments
    BY CutStays DEF IInv, TypeOK, ProcessTyped, FlagsTyped, LogInv, NoGaps
<1>1. CASE Running' /\ pc' # "reset"
    <2>1. LogPosition' /\ FilesTyped' /\ (currentSegmentIndex \in Nat \ {0})'
        BY IInvStep DEF IInv, TypeOK, ProcessTyped
    <2>2. 1..currentSegmentIndex' - 1 \subseteq DOMAIN segments'
        BY <1>1, <2>1 DEF LogPosition
    <2>3. i \in 1..currentSegmentIndex'
        BY <1>1, NoneBeyondStep DEF NoneBeyond
    <2>4. PICK c \in Nat \ {0} : c = currentSegmentIndex'
        BY <2>1
    <2>5. 1..c - 1 \subseteq DOMAIN segments' /\ i \in 1..c
        BY <2>2, <2>3, <2>4
    <2>6. ASSUME NEW j \in 1..i
          PROVE  j \in DOMAIN segments'
        <3>1. j \in 1..c - 1 \/ j = i
            BY <2>5
        <3> QED BY <2>5, <3>1
    <2> QED BY <2>6
<1>2. CASE UNCHANGED segments /\ ~FirstGone
    BY <1>0, <1>2
<1>3. CASE pc' = "reset"
    <2>1. CASE ResetRemove
        BY <1>3, <2>1, FirstRemoved DEF FirstGone
    <2>2. CASE FlushMetadata \/ ReplayEnd
        BY <1>2, <2>2 DEF FlushMetadata, ReplayEnd, files, FirstGone
    <2>3. CASE UNCHANGED vars
        BY <1>2, <2>3 DEF vars, FirstGone
    <2> QED BY <1>3, <2>1, <2>2, <2>3
        DEF Next, Step, Open, OpenFails, Quit, Crash, CrashInAppend, Call, Deny,
            AppendFails, RotateFails, FlushFails, ResetFails, ReplayRecord, ReplayTorn,
            ReplayNextSegment, Restore, RotateBefore, AppendRecord, Rotate, Apply, Read,
            FlushData, FlushFilter, ResetDone, Proceed, Answer
<1>4. CASE ~Running'
    <2>1. CASE CrashInAppend
        <3>1. /\ DOMAIN segments' = DOMAIN segments \cup {currentSegmentIndex}
              /\ Running /\ pc = "append"
            BY <2>1 DEF CrashInAppend, WithSegment, Running
        <3>2. 1..currentSegmentIndex - 1 \subseteq DOMAIN segments
            BY <1>0, <3>1 DEF IInv, LogPosition
        <3>3. CASE i \in DOMAIN segments
            BY <1>0, <3>1, <3>3 DEF FirstGone
        <3>4. CASE i = currentSegmentIndex
            BY <1>0, <3>1, <3>2, <3>4
        <3> QED BY <3>1, <3>3, <3>4
    <2>2. CASE OpenFails \/ Quit \/ ReplayTorn \/ (FlushFails /\ phase = "start")
        BY <1>2, <2>2 DEF OpenFails, Quit, ReplayTorn, FlushFails, files, FirstGone
    <2>3. CASE Crash \/ (ResetFails /\ phase = "start")
        <3>1. UNCHANGED segments /\ (FirstGone => ~Gap)
            BY <2>3 DEF Crash, ResetFails, files, FirstGone
        <3>2. CASE FirstGone
            BY <3>1, <3>2 DEF FirstGone, Gap
        <3> QED BY <1>2, <3>1, <3>2
    <2>4. CASE UNCHANGED vars
        BY <1>2, <1>4, <2>4 DEF vars, Running, FirstGone
    <2> QED BY <1>4, <2>1, <2>2, <2>3, <2>4
        DEF Next, Step, Open, Call, Deny,
            AppendFails, RotateFails, FlushFails, ResetFails, ReplayRecord,
            ReplayNextSegment, ReplayEnd, Restore, RotateBefore, AppendRecord, Rotate, Apply,
            Read, FlushData, FlushFilter, FlushMetadata, ResetRemove, ResetDone, Proceed,
            Answer, Running
<1> QED BY <1>1, <1>3, <1>4

LEMMA AtEndStep ==
    ASSUME IInv, LogInv, [Next]_vars
    PROVE  AtEnd'
<1> SUFFICES ASSUME ~resetUndone', Running', ~FirstGone'
             PROVE  currentRecordCount' = Len(RecordsIn(currentSegmentIndex)')
    BY DEF AtEnd
<1>0. /\ FilesTyped /\ currentSegmentIndex \in Nat \ {0} /\ ~resetUndone
      /\ currentRecordCount \in Nat
      /\ Running => DOMAIN segments \subseteq 1..currentSegmentIndex
      /\ Running /\ ~FirstGone => currentRecordCount = Len(RecordsIn(currentSegmentIndex))
    BY CutStays DEF IInv, TypeOK, ProcessTyped, FlagsTyped, LogInv, NoneBeyond, AtEnd
<1>a. ASSUME currentRecordCount' = 0,
             currentSegmentIndex' \in DOMAIN segments' => segments'[currentSegmentIndex'] = <<>>
      PROVE  currentRecordCount' = Len(RecordsIn(currentSegmentIndex)')
    BY <1>a DEF RecordsIn
<1>1. CASE Open
    <2> DEFINE n == LastSegment
    <2>1. n \in Nat /\ DOMAIN segments = 1..n
        BY <1>0, <1>1, FilesNumbered DEF Open, FirstGone
    <2>2. segments' = WithSegments(1..currentSegmentIndex')
        BY <1>1 DEF Open
    <2>3. PICK full \in SegmentFull(Scanned(n)) :
              /\ currentSegmentIndex' = IF n = 0 \/ full THEN n + 1 ELSE n
              /\ currentRecordCount' = IF full THEN 0 ELSE Scanned(n)
        BY <1>1 DEF Open
    <2>4. CASE n = 0 \/ full
        <3>1. currentRecordCount' = 0 /\ currentSegmentIndex' = n + 1
            BY <2>3, <2>4 DEF Scanned
        <3>2. n + 1 \notin DOMAIN segments
            <4> HIDE DEF n
            <4> QED BY <2>1
        <3>3. currentSegmentIndex' \in DOMAIN segments' => segments'[currentSegmentIndex'] = <<>>
            BY <2>2, <3>1, <3>2 DEF WithSegments, RecordsIn
        <3> QED BY <1>a, <3>1, <3>3
    <2>5. CASE n # 0 /\ ~full
        <3>1. currentRecordCount' = Len(segments[n]) /\ currentSegmentIndex' = n
            BY <2>3, <2>5 DEF Scanned
        <3>2. n \in DOMAIN segments
            <4> HIDE DEF n
            <4> QED BY <2>1, <2>5
        <3>3. n \in DOMAIN segments' /\ segments'[n] = segments[n]
            BY <2>2, <3>2 DEF WithSegments, RecordsIn
        <3> HIDE DEF n
        <3> QED BY <3>1, <3>3 DEF RecordsIn
    <2> QED BY <2>4, <2>5
<1>2. CASE Stops
    BY <1>2, StopsStep
<1>3. CASE KeepsLog
    <2>1. /\ UNCHANGED <<segments, currentSegmentIndex, currentRecordCount>> /\ Running
          /\ FirstGone => UNCHANGED vars
        BY <1>3, KeptLog
    <2>2. ~FirstGone
        BY <2>1 DEF FirstGone, vars
    <2> QED BY <1>0, <2>1, <2>2 DEF RecordsIn
<1>4. CASE AppendFails \/ RotateFails
    <2>1. /\ UNCHANGED segments /\ Running /\ ~FirstGone
          /\ \/ UNCHANGED <<currentSegmentIndex, currentRecordCount>>
             \/ /\ currentSegmentIndex' = currentSegmentIndex + 1
                /\ currentRecordCount' = 0
        BY <1>4 DEF AppendFails, RotateFails, files, walVars, Running, FirstGone
    <2>2. currentSegmentIndex + 1 \notin DOMAIN segments
        BY <1>0, <2>1
    <2>3. CASE UNCHANGED <<currentSegmentIndex, currentRecordCount>>
        BY <1>0, <2>1, <2>3 DEF RecordsIn
    <2> QED BY <1>a, <2>1, <2>2, <2>3
<1>5. CASE RotateBefore \/ Rotate
    <2>1. /\ currentSegmentIndex' = currentSegmentIndex + 1 /\ currentRecordCount' = 0
          /\ segments' = WithSegments({currentSegmentIndex'}) /\ Running
        BY <1>5 DEF RotateBefore, Rotate, Rotated, Running
    <2>2. currentSegmentIndex' \notin DOMAIN segments
        BY <1>0, <2>1
    <2>3. currentSegmentIndex' \in DOMAIN segments' => segments'[currentSegmentIndex'] = <<>>
        BY <2>1, <2>2 DEF WithSegments, RecordsIn
    <2> QED BY <1>a, <2>1, <2>3
<1>6. CASE AppendRecord
    <2> DEFINE old == RecordsIn(currentSegmentIndex)
    <2>1. /\ Running /\ ~FirstGone /\ pc = "append" /\ phase # "start"
          /\ currentSegmentIndex' = currentSegmentIndex
          /\ currentRecordCount' = currentRecordCount + 1
        BY <1>6 DEF AppendRecord, Running, FirstGone, IInv, PhaseOK, CallInPhase
    <2>2. currentRecordCount = Len(old) /\ old \in Seq(Records) /\ Written \in Records
        BY <1>0, <2>1, RecordsInTyped, WrittenTyped
    <2>3. PICK written \in Overwritten(old, Len(old) + 1, Written) :
              segments' = WithSegment(currentSegmentIndex, written)
        BY <1>0, <1>6, <2>2, FramedAlone DEF Framed
    <2>4. RecordsIn(currentSegmentIndex)' = written
        BY <2>1, <2>3 DEF WithSegment, RecordsIn
    <2> HIDE DEF old
    <2>5. Len(written) = Len(old) + 1
        BY <2>2, WrittenAtEnd, PrefixGrown
    <2> QED BY <2>1, <2>2, <2>4, <2>5
<1>7. CASE ResetRemove
    BY <1>7, FirstRemoved DEF ResetRemove, FirstGone
<1>8. CASE ResetDone
    <2>1. DOMAIN segments = {}
        BY <1>0, <1>8, AllGone DEF ResetDone
    <2>2. /\ currentSegmentIndex' = 1 /\ currentRecordCount' = 0
          /\ segments' = WithSegments({1})
        BY <1>8 DEF ResetDone
    <2>3. segments'[1] = <<>>
        BY <2>1, <2>2 DEF WithSegments, RecordsIn
    <2> QED BY <1>a, <2>2, <2>3
<1>9. CASE ResetFails /\ phase # "start"
    <2>1. /\ UNCHANGED segments /\ Running /\ ~Gap
        BY <1>9 DEF ResetFails, files, Running
    <2>2. CASE DOMAIN segments \cap 1..currentSegmentIndex = {}
        <3>1. DOMAIN segments = {}
            BY <1>0, <1>9, <2>2, AllGone DEF ResetFails
        <3>2. /\ currentSegmentIndex' = 1 /\ currentRecordCount' = 0
            BY <1>9, <2>2 DEF ResetFails
        <3> QED BY <1>a, <2>1, <3>1, <3>2
    <2>3. CASE DOMAIN segments \cap 1..currentSegmentIndex # {}
        <3>1. UNCHANGED <<currentSegmentIndex, currentRecordCount>>
            BY <1>9, <2>3 DEF ResetFails, walVars
        <3>2. ~FirstGone
            BY <2>1, <2>3 DEF Gap, FirstGone
        <3> QED BY <1>0, <2>1, <3>1, <3>2 DEF RecordsIn
    <2> QED BY <2>2, <2>3
<1> QED BY <1>1, <1>2, <1>3, <1>4, <1>5, <1>6, <1>7, <1>8, <1>9
        DEF Next, Step, Stops, KeepsLog

LEMMA OnlyAheadStep ==
    ASSUME IInv, LogInv, [Next]_vars
    PROVE  OnlyAhead'
<1> SUFFICES ASSUME ~resetUndone', Running',
                    NEW i \in DOMAIN segments', NEW p \in DOMAIN segments'[i],
                    segments'[i][p] = Torn
             PROVE  replaying' /\ Ahead(i, p)'
    BY DEF OnlyAhead
<1>0. /\ FilesTyped /\ ProcessTyped /\ ~resetUndone /\ FilesTyped'
      /\ CallInPhase /\ ReplayInStart
      /\ Running => DOMAIN segments \subseteq 1..currentSegmentIndex
    BY CutStays, IInvStep
       DEF IInv, TypeOK, FlagsTyped, PhaseOK, LogInv, NoneBeyond
<1>1. i \in Nat \ {0} /\ p \in Nat \ {0} /\ p \in 1..Len(segments'[i])
    <2>1. segments'[i] \in Seq(Records) /\ i \in Nat \ {0}
        BY <1>0 DEF FilesTyped
    <2> QED BY <2>1, LenProperties
<1>2. cursor.seg \in Nat \ {0} /\ cursor.pos \in Nat \ {0}
    BY <1>0 DEF ProcessTyped
<1>3. ASSUME Running, i \in DOMAIN segments, segments'[i] = segments[i]
      PROVE  replaying /\ Ahead(i, p)
    BY <1>0, <1>3 DEF LogInv, OnlyAhead
\* A file that this step creates holds nothing
<1>4. ASSUME NEW S, segments' = WithSegments(S)
      PROVE  i \in DOMAIN segments /\ segments'[i] = segments[i]
    <2>1. segments'[i] = RecordsIn(i)
        BY <1>4 DEF WithSegments
    <2>2. RecordsIn(i) # <<>>
        BY <1>1, <2>1
    <2> QED BY <2>1, <2>2 DEF RecordsIn
<1>5. CASE Open
    <2>1. cursor' = [seg |-> 1, pos |-> 1] /\ replaying'
        BY <1>5 DEF Open, Fresh
    <2> QED BY <1>1, <2>1 DEF Ahead
<1>6. CASE Stops
    BY <1>6, StopsStep
<1>7. CASE \/ Call \/ Deny \/ Apply \/ Read \/ FlushData \/ FlushFilter \/ FlushMetadata
           \/ AppendFails \/ RotateFails
           \/ (FlushFails \/ ResetFails) /\ phase # "start"
           \/ UNCHANGED vars
    <2>1. /\ UNCHANGED <<segments, replaying, cursor>>
          /\ Running
        BY <1>7 DEF Call, Deny, Apply, Read, FlushData, FlushFilter, FlushMetadata,
            AppendFails, RotateFails, FlushFails, ResetFails, files, startVars, vars, Running
    <2> QED BY <1>3, <2>1 DEF Ahead
<1>8. CASE ReplayRecord
    <2>1. /\ UNCHANGED <<segments, replaying>> /\ Running
          /\ cursor' = [seg |-> cursor.seg, pos |-> cursor.pos + 1]
          /\ segments[cursor.seg][cursor.pos] # Torn
        BY <1>8 DEF ReplayRecord, files, Running, Decodable
    <2>2. replaying /\ Ahead(i, p) /\ ~(i = cursor.seg /\ p = cursor.pos)
        BY <1>3, <2>1
    <2> QED BY <1>1, <1>2, <2>1, <2>2 DEF Ahead
<1>9. CASE ReplayNextSegment
    <2>1. /\ UNCHANGED <<segments, replaying>> /\ Running
          /\ cursor' = [seg |-> cursor.seg + 1, pos |-> 1]
          /\ AtSegment /\ ~AtRecord
        BY <1>9 DEF ReplayNextSegment, NextSegment, files, Running
    <2>2. replaying /\ Ahead(i, p) /\ segments'[i] = segments[i] /\ i \in DOMAIN segments
        BY <1>3, <2>1
    <2>3. i # cursor.seg
        <3> SUFFICES ASSUME i = cursor.seg PROVE FALSE
            OBVIOUS
        <3>1. cursor.pos <= p /\ p <= Len(RecordsIn(i))
            BY <1>1, <1>2, <2>2 DEF Ahead, RecordsIn
        <3>2. ~(cursor.pos <= Len(RecordsIn(i))) /\ Len(RecordsIn(i)) \in Nat
            BY <1>0, <2>1, RecordsInTyped DEF AtRecord
        <3> QED BY <1>1, <1>2, <3>1, <3>2
    <2> QED BY <1>1, <1>2, <2>1, <2>2, <2>3 DEF Ahead
<1>10. CASE ReplayEnd
    <2>1. UNCHANGED segments /\ Running /\ ~(cursor.seg <= currentSegmentIndex)
        BY <1>10 DEF ReplayEnd, AtSegment, files, Running
    <2>2. Ahead(i, p) /\ i \in 1..currentSegmentIndex /\ currentSegmentIndex \in Nat \ {0}
        BY <1>0, <1>3, <2>1 DEF ProcessTyped
    <2> QED BY <1>1, <1>2, <2>1, <2>2 DEF Ahead
<1>11. CASE Restore
    <2>1. UNCHANGED segments /\ Running /\ ~replaying
        BY <1>0, <1>11 DEF Restore, ReplayInStart, files, Running
    <2> QED BY <1>3, <2>1
<1>12. CASE RotateBefore \/ Rotate \/ ResetDone
    <2>1. /\ UNCHANGED <<replaying, cursor>> /\ Running
          /\ \E S : segments' = WithSegments(S)
        BY <1>12 DEF RotateBefore, Rotate, Rotated, ResetDone, startVars, Running
    <2>2. replaying /\ Ahead(i, p)
        BY <1>3, <1>4, <2>1
    <2> QED BY <2>1, <2>2 DEF Ahead
<1>13. CASE AppendRecord
    <2> DEFINE old == RecordsIn(currentSegmentIndex)
    <2>1. Running /\ pc = "append" /\ phase # "start" /\ ~FirstGone /\ ~replaying
        BY <1>0, <1>13 DEF AppendRecord, Running, FirstGone, CallInPhase, ReplayInStart
    <2>2. currentRecordCount = Len(old) /\ old \in Seq(Records) /\ Written \in Records
        BY <1>0, <2>1, RecordsInTyped, WrittenTyped DEF LogInv, AtEnd
    <2>3. PICK written \in Overwritten(old, Len(old) + 1, Written) :
              segments' = WithSegment(currentSegmentIndex, written)
        BY <1>0, <1>13, <2>2, FramedAlone DEF Framed
    <2> HIDE DEF old
    <2>4. Len(old) \in Nat
        BY <2>2, LenProperties
    <2>5. /\ Len(written) = Len(old) + 1
          /\ \A q \in 1..Len(old) : written[q] = old[q]
          /\ written[Len(old) + 1] = Written
        <3>1. written = old \o <<Written>>
            BY <2>2, WrittenAtEnd
        <3>2. /\ Len(old \o <<Written>>) = Len(old) + 1
              /\ \A q \in 1..Len(old) : (old \o <<Written>>)[q] = old[q]
              /\ (old \o <<Written>>)[Len(old) + 1] = Written
            BY <2>2, PrefixGrown
        <3> QED BY <3>1, <3>2
    <2>6. CASE i # currentSegmentIndex
        <3>1. i \in DOMAIN segments /\ segments'[i] = segments[i]
            BY <2>3, <2>6 DEF WithSegment
        <3> QED BY <1>3, <2>1, <3>1
    <2>7. CASE i = currentSegmentIndex
        <3>1. segments'[i] = written /\ p \in 1..Len(old) + 1
            <4>1. segments'[i] = written
                BY <2>3, <2>7 DEF WithSegment
            <4> QED BY <1>1, <2>5, <4>1
        <3>2. Written # Torn
            BY <1>0, <2>1, WrittenTyped, EngineAssumption DEF Torn, Record
        <3>3. p \in 1..Len(old) /\ old[p] = Torn
            BY <2>4, <2>5, <3>1, <3>2
        <3>4. i \in DOMAIN segments /\ segments[i] = old
            BY <2>4, <2>7, <3>3 DEF old, RecordsIn
        <3>5. p \in DOMAIN segments[i] /\ segments[i][p] = Torn
            BY <2>2, <3>3, <3>4, LenProperties
        <3> QED BY <1>0, <2>1, <3>4, <3>5 DEF LogInv, OnlyAhead
    <2> QED BY <2>6, <2>7
<1>14. CASE ResetRemove
    <2>1. /\ UNCHANGED <<replaying, cursor>> /\ Running
          /\ i \in DOMAIN segments /\ segments'[i] = segments[i]
        BY <1>14 DEF ResetRemove, startVars, Running
    <2> QED BY <1>3, <2>1 DEF Ahead
<1> QED BY <1>5, <1>6, <1>7, <1>8, <1>9, <1>10, <1>11, <1>12, <1>13, <1>14
        DEF Next, Step, Stops

LEMMA LogInvariance == Spec => [](IInv /\ LogInv)
<1>1. Init => LogInv
    BY InitLogInv
<1>2. IInv /\ LogInv /\ [Next]_vars => LogInv'
    BY NoneBeyondStep, NoGapsStep, AtEndStep, OnlyAheadStep DEF LogInv
<1> QED BY <1>1, <1>2, Invariance, PTL DEF Spec

\* A process that serves calls has met and refused every half-written record there was:
\* none is left in the log it appends to.
THEOREM NoTornRecordServed == Spec => []TornNeverServed
<1>1. IInv /\ LogInv => TornNeverServed
    <2> SUFFICES ASSUME IInv, LogInv, Serving, ~resetUndone,
                        NEW i \in 1..LastSegment, NEW p \in DOMAIN segments[i]
                 PROVE  segments[i][p] # Torn
        BY DEF TornNeverServed
    <2>1. i \in DOMAIN segments
        BY LastSegmentFound DEF IInv, TypeOK
    <2>2. Running /\ ~replaying
        BY DEF IInv, PhaseOK, CallInPhase, ReplayInStart, Serving, Running
    <2> QED BY <2>1, <2>2 DEF LogInv, OnlyAhead
<1> QED BY <1>1, LogInvariance, PTL

\* No append, rotation, start or crash ever puts a record over an earlier one.
THEOREM RecordsStay == Spec => NoRecordOverwritten
<1>1. ASSUME IInv, LogInv, [Next]_vars, ~resetUndone,
             NEW i \in DOMAIN segments \cap DOMAIN segments'
      PROVE  IsPrefix(segments[i], segments'[i])
    <2>0. segments[i] \in Seq(Records) /\ FilesTyped
        BY <1>1 DEF IInv, TypeOK, FilesTyped
    <2>1. CASE segments'[i] = segments[i]
        BY <2>0, <2>1, PrefixItself
    <2>2. CASE AppendRecord \/ CrashInAppend
        <3> DEFINE old == RecordsIn(currentSegmentIndex)
        <3>1. Running /\ pc = "append" /\ phase # "start" /\ ~FirstGone
            BY <1>1, <2>2
               DEF AppendRecord, CrashInAppend, Running, FirstGone, IInv, PhaseOK, CallInPhase
        <3>2. currentRecordCount = Len(old) /\ old \in Seq(Records) /\ Written \in Records
            BY <1>1, <2>0, <3>1, RecordsInTyped, WrittenTyped DEF LogInv, AtEnd
        <3>3. PICK more \in Seq(Records) :
                  segments' = WithSegment(currentSegmentIndex, old \o more)
            <4>1. CASE AppendRecord /\ Framed
                <5>1. PICK written \in Overwritten(old, Len(old) + 1, Written) :
                          segments' = WithSegment(currentSegmentIndex, written)
                    BY <3>2, <4>1 DEF Framed
                <5> HIDE DEF old
                <5>2. written = old \o <<Written>> /\ <<Written>> \in Seq(Records)
                    BY <3>2, <5>1, WrittenAtEnd
                <5> QED BY <5>1, <5>2
            <4>3. CASE AppendRecord /\ FramedAmongOld
                <5>1. PICK n \in 1..MaxOldRecords : \E o \in [1..n -> Records] :
                          segments' = WithSegment(currentSegmentIndex,
                                          SubSeq(old, 1, Len(old)) \o <<Written>> \o o)
                    BY <3>2, <4>3 DEF FramedAmongOld
                <5>2. PICK o \in [1..n -> Records] :
                          segments' = WithSegment(currentSegmentIndex,
                                          SubSeq(old, 1, Len(old)) \o <<Written>> \o o)
                    BY <5>1
                <5>3. n \in Nat
                    BY <5>1, EngineAssumption
                <5>4. o \in Seq(Records)
                    BY <5>3
                <5> HIDE DEF old
                <5>5. SubSeq(old, 1, Len(old)) = old
                    BY <3>2, SubSeqFull
                <5>6. /\ <<Written>> \o o \in Seq(Records)
                      /\ old \o <<Written>> \o o = old \o (<<Written>> \o o)
                    BY <3>2, <5>4, ConcatProperties, ConcatAssociative
                <5> QED BY <5>2, <5>5, <5>6
            <4>2. CASE CrashInAppend
                <5>1. segments' = WithSegment(currentSegmentIndex,
                                              SubSeq(old, 1, Len(old)) \o <<Torn>>)
                    BY <3>2, <4>2 DEF CrashInAppend
                <5> HIDE DEF old
                <5>2. SubSeq(old, 1, Len(old)) = old /\ <<Torn>> \in Seq(Records)
                    BY <3>2, SubSeqFull DEF Records
                <5> QED BY <5>1, <5>2
            <4> QED BY <2>2, <4>1, <4>2, <4>3 DEF AppendRecord
        <3>4. CASE i # currentSegmentIndex
            BY <2>1, <3>3, <3>4 DEF WithSegment
        <3>5. CASE i = currentSegmentIndex
            <4>1. segments[i] = old /\ segments'[i] = old \o more
                BY <1>1, <3>3, <3>5 DEF WithSegment, RecordsIn
            <4> HIDE DEF old
            <4> QED BY <3>2, <4>1, PrefixExtended
        <3> QED BY <3>4, <3>5
    <2>3. CASE Open \/ RotateBefore \/ Rotate \/ ResetDone
        <3>1. PICK S : segments' = WithSegments(S)
            BY <2>3 DEF Open, RotateBefore, Rotate, Rotated, ResetDone
        <3>2. segments'[i] = segments[i]
            BY <1>1, <3>1 DEF WithSegments, RecordsIn
        <3> QED BY <2>1, <3>2
    <2>4. CASE ResetRemove
        <3>1. segments'[i] = segments[i]
            BY <1>1, <2>4 DEF ResetRemove
        <3> QED BY <2>1, <3>1
    <2>5. CASE UNCHANGED segments
        BY <2>1, <2>5
    <2> QED BY <1>1, <2>2, <2>3, <2>4, <2>5
        DEF Next, Step, OpenFails, Quit, Crash, Call, Deny,
            AppendFails, RotateFails, FlushFails, ResetFails, ReplayRecord, ReplayTorn,
            ReplayNextSegment, ReplayEnd, Restore, Apply, Read, FlushData, FlushFilter,
            FlushMetadata, files, vars
<1>2. IInv /\ LogInv /\ [Next]_vars =>
          [~resetUndone => \A i \in DOMAIN segments \cap DOMAIN segments' :
                            IsPrefix(segments[i], segments'[i])]_vars
    BY <1>1
<1> QED BY <1>2, LogInvariance, PTL DEF Spec, NoRecordOverwritten

-----------------------------------------------------------------------------
(* Lookups in a log: segs are files, of which those in S are read *)

Files(segs, S) ==
    /\ S \in SUBSET Nat
    /\ \E b \in Nat : \A i \in S : i <= b
    /\ \A i \in S : segs[i] \in Seq(Records)

Positions(records, k) == {p \in DOMAIN records : records[p].key = k}

LookupIn(segs, S, k) ==
    LET holding == {i \in S : Positions(segs[i], k) # {}}
    IN  IF holding = {} THEN Absent
        ELSE segs[Max(holding)][Max(Positions(segs[Max(holding)], k))].value

\* The p-th record of file i is the last one of key k
Latest(segs, S, k, i, p) ==
    /\ i \in S
    /\ p \in Positions(segs[i], k)
    /\ \A j \in S : \A q \in Positions(segs[j], k) : j < i \/ (j = i /\ q <= p)

LEMMA LogLookupIs ==
    ASSUME NEW S, NEW k
    PROVE  /\ LogLookup(S, k) = LookupIn(segments, S, k)
           /\ LogLookup(S, k)' = LookupIn(segments', S, k)
BY DEF LogLookup, LookupIn, Positions

LEMMA LookupNone ==
    ASSUME NEW segs, NEW S, NEW k, \A i \in S : Positions(segs[i], k) = {}
    PROVE  LookupIn(segs, S, k) = Absent
<1>1. {i \in S : Positions(segs[i], k) # {}} = {}
    OBVIOUS
<1> QED BY <1>1 DEF LookupIn

\* A log that holds a record of a key has a last one
LEMMA LatestExists ==
    ASSUME NEW segs, NEW S, Files(segs, S), NEW k,
           NEW h \in S, Positions(segs[h], k) # {}
    PROVE  \E i, p : Latest(segs, S, k, i, p)
<1> DEFINE holding == {i \in S : Positions(segs[i], k) # {}}
           i == Max(holding)
           P == Positions(segs[i], k)
           p == Max(P)
<1>1. i \in holding /\ \A j \in holding : i >= j
    <2>1. PICK b \in Nat : \A j \in S : j <= b
        BY DEF Files
    <2>2. holding \in SUBSET Nat /\ holding # {} /\ \A j \in holding : j <= b
        BY <2>1 DEF Files
    <2> HIDE DEF holding
    <2> QED BY <2>2, MaxElement
<1> HIDE DEF i
<1>2. i \in S /\ P # {} /\ segs[i] \in Seq(Records)
    BY <1>1 DEF Files
<1>3. P \in SUBSET Nat /\ \A q \in P : q <= Len(segs[i])
    <2>1. DOMAIN segs[i] = 1..Len(segs[i])
        BY <1>2, LenProperties
    <2> QED BY <2>1 DEF Positions
<1>4. p \in P /\ \A q \in P : p >= q
    <2>1. Len(segs[i]) \in Nat
        BY <1>2, LenProperties
    <2> HIDE DEF P
    <2> QED BY <1>2, <1>3, <2>1, MaxElement
<1>5. ASSUME NEW j \in S, NEW q \in Positions(segs[j], k)
      PROVE  j < i \/ (j = i /\ q <= p)
    <2>1. j \in holding /\ j \in Nat /\ i \in Nat
        BY <1>2 DEF Files
    <2>2. i >= j
        BY <1>1, <2>1
    <2>3. CASE j = i
        <3>1. q \in P /\ q \in Nat /\ p \in Nat
            BY <1>3, <1>4, <2>3
        <3>2. p >= q
            BY <1>4, <3>1
        <3> HIDE DEF p, P
        <3> QED BY <2>3, <3>1, <3>2
    <2> QED BY <2>1, <2>2, <2>3
<1>6. Latest(segs, S, k, i, p)
    <2> HIDE DEF p
    <2> QED BY <1>2, <1>4, <1>5 DEF Latest
<1> QED BY <1>6

\* It is the one that a lookup finds
LEMMA LatestLooked ==
    ASSUME NEW segs, NEW S, Files(segs, S), NEW k, NEW i, NEW p, Latest(segs, S, k, i, p)
    PROVE  LookupIn(segs, S, k) = segs[i][p].value
<1> DEFINE holding == {j \in S : Positions(segs[j], k) # {}}
           P == Positions(segs[i], k)
<1>1. i \in S /\ p \in P /\ segs[i] \in Seq(Records) /\ S \in SUBSET Nat
    BY DEF Latest, Files
<1>2. Max(holding) = i
    <2>1. i \in holding /\ holding \in SUBSET Nat
        BY <1>1
    <2>2. ASSUME NEW j \in holding
          PROVE  j <= i
        <3>1. PICK q \in Positions(segs[j], k) : TRUE
            OBVIOUS
        <3>2. j < i \/ j = i
            BY <3>1 DEF Latest
        <3> HIDE DEF holding
        <3> QED BY <2>1, <3>2
    <2> HIDE DEF holding
    <2> QED BY <2>1, <2>2, MaxIs
<1>3. Max(P) = p
    <2>1. P \in SUBSET Nat
        BY <1>1, LenProperties DEF Positions
    <2>2. \A q \in P : q <= p
        <3>1. i \in Nat
            BY <1>1
        <3> QED BY <1>1, <3>1 DEF Latest
    <2> HIDE DEF P
    <2> QED BY <1>1, <2>1, <2>2, MaxIs
<1>4. holding # {}
    BY <1>1
<1> QED BY <1>2, <1>3, <1>4 DEF LookupIn

\* The records of key k that segs holds in S are in tegs, in T
Kept(segs, S, tegs, T, k) ==
    \A i \in S : \A p \in Positions(segs[i], k) :
        i \in T /\ p \in Positions(tegs[i], k) /\ tegs[i][p] = segs[i][p]

\* Two logs with the same records of a key answer the same
LEMMA SameRecords ==
    ASSUME NEW segs, NEW S, Files(segs, S), NEW tegs, NEW T, Files(tegs, T), NEW k,
           Kept(segs, S, tegs, T, k), Kept(tegs, T, segs, S, k)
    PROVE  LookupIn(tegs, T, k) = LookupIn(segs, S, k)
<1>1. CASE \A i \in S : Positions(segs[i], k) = {}
    <2>1. \A i \in T : Positions(tegs[i], k) = {}
        BY <1>1 DEF Kept
    <2> QED BY <1>1, <2>1, LookupNone
<1>2. CASE \E i \in S : Positions(segs[i], k) # {}
    <2>1. PICK i, p : Latest(segs, S, k, i, p)
        <3>1. PICK h \in S : Positions(segs[h], k) # {}
            BY <1>2
        <3> QED BY <3>1, LatestExists
    <2>2. Latest(tegs, T, k, i, p) /\ tegs[i][p] = segs[i][p]
        BY <2>1 DEF Latest, Kept
    <2> QED BY <2>1, <2>2, LatestLooked
<1> QED BY <1>1, <1>2

-----------------------------------------------------------------------------
(* The answers and the log *)

\* The running process has the p-th record of file i in its store
Applied(i, p) == ~(replaying /\ Ahead(i, p))

LastApplied(k, i, p) ==
    /\ i \in DOMAIN segments
    /\ p \in Positions(segments[i], k)
    /\ Applied(i, p)
    /\ \A j \in DOMAIN segments : \A q \in Positions(segments[j], k) :
           Applied(j, q) => j < i \/ (j = i /\ q <= p)

\* The store holds the last value of a key that it took from the log
Agrees(k) == \A i, p : LastApplied(k, i, p) => Stored(k) = segments[i][p].value

\* The log is ahead of the store: a call is between the two, or failed there
InDoubt(k) == k \in unsure \/ (pc \in {"rotate", "apply"} /\ k = Written.key)

StoreCurrent == ~resetUndone /\ Running => \A k \in AllKeys : InDoubt(k) \/ Agrees(k)

Unlogged(k) == \A i \in DOMAIN segments : Positions(segments[i], k) = {}

\* A key that the log does not hold is in the tables that reads consult, or nowhere
LoggedFirst ==
    ~resetUndone /\ Running =>
        \A k \in AllKeys : Unlogged(k) =>
            /\ MemLookup(memtables, k) = Absent
            /\ \A id \in DOMAIN sstables \ tables : sstables[id].entries[k] = Absent

\* The record a call is about to apply is the last one of its key in the log
WrittenIsLast ==
    ~resetUndone /\ pc \in {"rotate", "apply"} =>
        \E i, p : /\ Latest(segments, DOMAIN segments, Written.key, i, p)
                  /\ segments[i][p] = Written

\* Only a failed flush leaves a table that reads do not consult, and replay and reset
\* follow one that did not fail; a reset finds nothing in the memtables, and a replay
\* knows that it is one
Settled ==
    Running =>
        /\ DOMAIN sstables \subseteq tables \cup {nextTableID}
        /\ pc \in {"replay", "reset"} => tables = DOMAIN sstables
        /\ pc = "reset" => \A k \in AllKeys : MemLookup(memtables, k) = Absent
        /\ pc = "replay" => replaying

StoreInv == StoreCurrent /\ LoggedFirst /\ WrittenIsLast /\ Settled

AllInv == IInv /\ CacheInv /\ LogInv /\ StoreInv

LEMMA InitStoreInv == Init => StoreInv
BY DEF Init, StoreInv, StoreCurrent, LoggedFirst, WrittenIsLast, Settled, Running

LEMMA FilesNow ==
    ASSUME FilesTyped, FilesBounded, NEW S \in SUBSET DOMAIN segments
    PROVE  Files(segments, S)
BY DEF FilesTyped, FilesBounded, Files

LEMMA FilesNext ==
    ASSUME FilesTyped', FilesBounded', NEW S \in SUBSET DOMAIN segments'
    PROVE  Files(segments', S)
<1>1. DOMAIN segments' \subseteq Nat \ {0} /\ segments' \in [DOMAIN segments' -> Seq(Records)]
    BY DEF FilesTyped
<1>2. PICK b \in Nat : \A i \in DOMAIN segments' : i <= b
    BY DEF FilesBounded
<1> QED BY <1>1, <1>2 DEF Files

-----------------------------------------------------------------------------
(* What a step of a running process leaves alone *)

\* The same records of a key, whatever files the step creates
SameLog(k) ==
    /\ Kept(segments, DOMAIN segments, segments', DOMAIN segments', k)
    /\ Kept(segments', DOMAIN segments', segments, DOMAIN segments, k)

LEMMA SegmentsSame ==
    ASSUME UNCHANGED segments, NEW k
    PROVE  SameLog(k)
BY DEF SameLog, Kept

LEMMA SegmentsCreated ==
    ASSUME NEW S, segments' = WithSegments(S), NEW k
    PROVE  SameLog(k)
<1>1. ASSUME NEW i \in DOMAIN segments
      PROVE  i \in DOMAIN segments' /\ segments'[i] = segments[i]
    BY DEF WithSegments, RecordsIn
<1>2. ASSUME NEW i \in DOMAIN segments', Positions(segments'[i], k) # {}
      PROVE  i \in DOMAIN segments
    <2>1. segments'[i] = RecordsIn(i)
        BY DEF WithSegments
    <2>2. RecordsIn(i) # <<>>
        BY <1>2, <2>1 DEF Positions
    <2> QED BY <2>2 DEF RecordsIn
<1> QED BY <1>1, <1>2 DEF SameLog, Kept

LEMMA LogKept ==
    ASSUME [Next]_vars, Running, Running', ~AppendRecord, ~ResetRemove, NEW k
    PROVE  SameLog(k)
<1>1. CASE UNCHANGED segments
    BY <1>1, SegmentsSame
<1>2. CASE \E S : segments' = WithSegments(S)
    BY <1>2, SegmentsCreated
<1> QED BY <1>1, <1>2
        DEF Next, Step, Open, OpenFails, Quit, Crash, CrashInAppend, Call, Deny,
            AppendFails, RotateFails, FlushFails, ResetFails, ReplayRecord, ReplayTorn,
            ReplayNextSegment, ReplayEnd, Restore, RotateBefore, Rotate, Rotated, Apply, Read,
            FlushData, FlushFilter, FlushMetadata, ResetDone, files, vars, Running

LEMMA StoredKept ==
    ASSUME IInv, CacheInv, [Next]_vars, Running, Running', ~ReplayRecord, ~Apply,
           NEW k \in AllKeys
    PROVE  Stored(k)' = Stored(k)
<1>1. CASE UNCHANGED <<memtables, sstables, tables>>
    BY <1>1, StoreKept
<1>2. CASE FlushData \/ FlushFilter
    BY <1>2, StoreUnderFlush
<1>3. CASE FlushMetadata
    BY <1>3, StoreFlushed DEF CacheInv
<1>4. CASE KeepsStore
    BY <1>1, <1>4, KeptStep
<1>5. CASE Read \/ UNCHANGED vars
    BY <1>1, <1>5 DEF Read, files, tableVars, vars
<1>6. CASE Open \/ Stops
    BY <1>6, StopsStep DEF Open, Running
<1> QED BY <1>2, <1>3, <1>4, <1>5, <1>6 DEF Next, Step, KeepsStore, Stops

LEMMA AppliedKept ==
    ASSUME IInv, LogInv, [Next]_vars, Running, Running', ~resetUndone, ~ReplayRecord,
           NEW i \in DOMAIN segments, NEW p \in DOMAIN segments[i]
    PROVE  Applied(i, p)' <=> Applied(i, p)
<1>0. /\ FilesTyped /\ ProcessTyped /\ CallInPhase /\ ReplayInStart
      /\ DOMAIN segments \subseteq 1..currentSegmentIndex
    BY DEF IInv, TypeOK, PhaseOK, LogInv, NoneBeyond
<1>1. /\ i \in Nat \ {0} /\ i <= currentSegmentIndex
      /\ p \in Nat \ {0} /\ p <= Len(RecordsIn(i)) /\ Len(RecordsIn(i)) \in Nat
    <2>1. i \in 1..currentSegmentIndex /\ currentSegmentIndex \in Nat
        BY <1>0 DEF ProcessTyped
    <2>2. RecordsIn(i) = segments[i] /\ segments[i] \in Seq(Records)
        BY <1>0 DEF RecordsIn, FilesTyped
    <2> QED BY <2>1, <2>2, LenProperties
<1>2. /\ cursor.seg \in Nat \ {0} /\ cursor.pos \in Nat \ {0}
      /\ currentSegmentIndex \in Nat
    BY <1>0 DEF ProcessTyped
<1>3. CASE UNCHANGED <<replaying, cursor>>
    BY <1>3 DEF Applied, Ahead
<1>4. CASE ReplayNextSegment
    <2>1. /\ UNCHANGED replaying
          /\ cursor' = [seg |-> cursor.seg + 1, pos |-> 1]
          /\ AtSegment /\ ~AtRecord
        BY <1>4 DEF ReplayNextSegment, NextSegment
    <2>2. i = cursor.seg => ~(cursor.pos <= p)
        BY <1>1, <1>2, <2>1 DEF AtRecord
    <2>3. Ahead(i, p)' <=> Ahead(i, p)
        BY <1>1, <1>2, <2>1, <2>2 DEF Ahead
    <2> QED BY <2>1, <2>3 DEF Applied
<1>5. CASE ReplayEnd
    <2>1. ~(cursor.seg <= currentSegmentIndex) /\ ~replaying'
        BY <1>5 DEF ReplayEnd, AtSegment, ReplayOver
    <2>2. ~Ahead(i, p)
        BY <1>1, <1>2, <2>1 DEF Ahead
    <2> QED BY <2>1, <2>2 DEF Applied
<1>6. CASE Restore
    BY <1>0, <1>6 DEF Restore, ReplayInStart, Applied
<1>7. CASE Open \/ Stops
    BY <1>7, StopsStep DEF Open, Running
<1> QED BY <1>3, <1>4, <1>5, <1>6, <1>7
        DEF Next, Step, Stops, Call, Deny,
            AppendFails, RotateFails, FlushFails, ResetFails,
            RotateBefore, AppendRecord, Rotate, Apply, Read,
            FlushData, FlushFilter, FlushMetadata, ResetRemove, ResetDone, startVars, vars

-----------------------------------------------------------------------------
(* The store holds what it took from the log *)

LEMMA AgreesKept ==
    ASSUME NEW k, Agrees(k), Stored(k)' = Stored(k), SameLog(k),
           \A i \in DOMAIN segments : \A p \in DOMAIN segments[i] :
               Applied(i, p)' <=> Applied(i, p)
    PROVE  Agrees(k)'
<1> SUFFICES ASSUME NEW i, NEW p, LastApplied(k, i, p)'
             PROVE  Stored(k)' = segments'[i][p].value
    BY DEF Agrees
<1>1. /\ i \in DOMAIN segments' /\ p \in Positions(segments'[i], k)
      /\ Applied(i, p)'
      /\ \A j \in DOMAIN segments' : \A q \in Positions(segments'[j], k) :
             Applied(j, q)' => j < i \/ (j = i /\ q <= p)
    BY DEF LastApplied, Positions
<1>2. /\ i \in DOMAIN segments /\ p \in Positions(segments[i], k)
      /\ segments[i][p] = segments'[i][p]
    BY <1>1 DEF SameLog, Kept
<1>3. Applied(i, p)
    BY <1>1, <1>2 DEF Positions
<1>4. ASSUME NEW j \in DOMAIN segments, NEW q \in Positions(segments[j], k), Applied(j, q)
      PROVE  j < i \/ (j = i /\ q <= p)
    <2>1. j \in DOMAIN segments' /\ q \in Positions(segments'[j], k)
        BY DEF SameLog, Kept
    <2>2. Applied(j, q)'
        BY <1>4 DEF Positions
    <2> QED BY <1>1, <2>1, <2>2
<1>5. LastApplied(k, i, p)
    BY <1>2, <1>3, <1>4 DEF LastApplied
<1> QED BY <1>2, <1>5 DEF Agrees

\* The replay applies the records in their order
LEMMA AgreesReplayed ==
    ASSUME IInv, LogInv, Settled, ReplayRecord, NEW k \in AllKeys, Agrees(k)
    PROVE  Agrees(k)'
<1>a. PICK a, b, r : a = cursor.seg /\ b = cursor.pos /\ r = segments[a][b]
    OBVIOUS
<1>0. FilesTyped /\ ProcessTyped /\ replaying
    BY DEF IInv, TypeOK, Settled, Running, ReplayRecord
<1>1. /\ UNCHANGED <<segments, sstables, tables, replaying>>
      /\ memtables' = Rolled(Update(memtables, r.key, r.value))
      /\ cursor' = [seg |-> a, pos |-> b + 1]
      /\ Decodable(r) /\ AtRecord
    BY <1>a DEF ReplayRecord, files, tableVars
<1>2. a \in Nat \ {0} /\ b \in Nat \ {0}
    BY <1>0, <1>a DEF ProcessTyped
<1>3. a \in DOMAIN segments /\ b \in DOMAIN segments[a] /\ r \in Records
    <2>1. b <= Len(RecordsIn(a)) /\ Len(RecordsIn(a)) \in Nat /\ RecordsIn(a) \in Seq(Records)
        BY <1>0, <1>1, <1>a, RecordsInTyped DEF AtRecord
    <2>2. a \in DOMAIN segments
        BY <1>0, <1>2, <2>1, RecordsInTyped
    <2>3. b \in 1..Len(RecordsIn(a)) /\ RecordsIn(a) = segments[a]
        BY <1>2, <2>1, <2>2 DEF RecordsIn
    <2> QED BY <1>a, <2>1, <2>2, <2>3, ElementOfSeq, LenProperties
<1>4. r.key \in AllKeys /\ r.value \in ValuesOf(r.key)
    BY <1>1, <1>3 DEF Decodable, Records
<1>5. Stored(k)' = IF k = r.key THEN r.value ELSE Stored(k)
    <2>4. /\ r.value # Absent
          /\ MemLookup(memtables, k)' =
                 IF k = r.key THEN r.value ELSE MemLookup(memtables, k)
        BY <1>0, <1>1, <1>4, LookupWritten
    <2>5. TableLookup(tables, k)' = TableLookup(tables, k)
        BY <1>1 DEF TableLookup, Readable
    <2> QED BY <2>4, <2>5 DEF Stored
<1>6. ASSUME NEW i \in DOMAIN segments, NEW p \in DOMAIN segments[i]
      PROVE  Applied(i, p)' <=> Applied(i, p) \/ (i = a /\ p = b)
    <2>1. i \in Nat /\ p \in Nat
        BY <1>0, LenProperties DEF FilesTyped
    <2>2. replaying' /\ replaying
        BY <1>0, <1>1
    <2> QED
        <3>2. Ahead(i, p)' <=> a < i \/ (a = i /\ b + 1 <= p)
            BY <1>1 DEF Ahead
        <3>3. Ahead(i, p) <=> a < i \/ (a = i /\ b <= p)
            BY <1>a DEF Ahead
        <3>4. (a < i \/ (a = i /\ b + 1 <= p)) <=>
                  (a < i \/ (a = i /\ b <= p)) /\ ~(i = a /\ p = b)
            BY <1>2, <2>1
        <3>5. i = a /\ p = b => Ahead(i, p)
            BY <1>2, <3>3
        <3> QED BY <2>2, <3>2, <3>3, <3>4, <3>5 DEF Applied
<1> SUFFICES ASSUME NEW i, NEW p, LastApplied(k, i, p)'
             PROVE  Stored(k)' = segments'[i][p].value
    BY DEF Agrees
<1>7. /\ i \in DOMAIN segments /\ p \in Positions(segments[i], k)
      /\ Applied(i, p)'
      /\ \A j \in DOMAIN segments : \A q \in Positions(segments[j], k) :
             Applied(j, q)' => j < i \/ (j = i /\ q <= p)
    BY <1>1 DEF LastApplied, Positions
<1>8. i \in Nat /\ p \in Nat /\ p \in DOMAIN segments[i] /\ segments[i][p].key = k
    BY <1>0, <1>7, LenProperties DEF FilesTyped, Positions
<1>9. CASE k = r.key
    <2>1. b \in Positions(segments[a], k) /\ Applied(a, b)'
        BY <1>3, <1>6, <1>9, <1>a DEF Positions
    <2>2. a < i \/ (a = i /\ b <= p)
        BY <1>3, <1>7, <2>1
    <2>3. Applied(i, p) \/ (i = a /\ p = b)
        BY <1>6, <1>7, <1>8
    <2>4. i = a /\ p = b
        <3>1. Ahead(i, p) \/ (i = a /\ p = b)
            BY <1>2, <1>8, <1>a, <2>2 DEF Ahead
        <3> QED BY <1>0, <2>3, <3>1 DEF Applied
    <2> QED BY <1>1, <1>5, <1>9, <1>a, <2>4
<1>10. CASE k # r.key
    <2>1. Applied(i, p)
        BY <1>6, <1>7, <1>8, <1>10, <1>a
    <2>2. ASSUME NEW j \in DOMAIN segments, NEW q \in Positions(segments[j], k), Applied(j, q)
          PROVE  j < i \/ (j = i /\ q <= p)
        BY <1>6, <1>7, <2>2 DEF Positions
    <2>3. LastApplied(k, i, p)
        BY <1>7, <2>1, <2>2 DEF LastApplied
    <2> QED BY <1>1, <1>5, <1>10, <2>3 DEF Agrees
<1> QED BY <1>9, <1>10

\* A record appended at the end of the log comes after all others
LEMMA AppendedLog ==
    ASSUME IInv, LogInv, pc = "append", ~resetUndone, NEW r \in Records,
           segments' = WithSegment(currentSegmentIndex,
                                   RecordsIn(currentSegmentIndex) \o <<r>>)
    PROVE  /\ \A k : k # r.key => SameLog(k)
           /\ \E i, p : /\ Latest(segments', DOMAIN segments', r.key, i, p)
                        /\ segments'[i][p] = r
<1> DEFINE old == RecordsIn(currentSegmentIndex)
           new == old \o <<r>>
<1>a. PICK c : c = currentSegmentIndex
    OBVIOUS
<1>0. /\ FilesTyped /\ c \in Nat \ {0} /\ DOMAIN segments \subseteq 1..c
    BY <1>a DEF IInv, TypeOK, ProcessTyped, LogInv, NoneBeyond, Running
<1>1. old \in Seq(Records) /\ Len(old) \in Nat /\ DOMAIN old = 1..Len(old)
    BY <1>0, RecordsInTyped, LenProperties
<1>2. /\ DOMAIN segments' = DOMAIN segments \cup {c}
      /\ segments'[c] = new
      /\ \A i \in DOMAIN segments \ {c} : segments'[i] = segments[i]
      /\ c \in DOMAIN segments => segments[c] = old
      /\ c \notin DOMAIN segments => old = <<>>
    BY <1>a DEF WithSegment, RecordsIn
<1> HIDE DEF old
<1>3. /\ DOMAIN new = 1..Len(old) + 1
      /\ \A q \in 1..Len(old) : new[q] = old[q]
      /\ new[Len(old) + 1] = r
    BY <1>1, PrefixGrown, LenProperties
<1> HIDE DEF new
<1>4. ASSUME NEW k, k # r.key
      PROVE  SameLog(k)
    <2>1. Positions(new, k) = Positions(old, k)
        BY <1>1, <1>3, <1>4 DEF Positions
    <2>2. \A q \in Positions(old, k) : new[q] = old[q]
        BY <1>1, <1>3 DEF Positions
    <2>3. old = <<>> => Positions(old, k) = {}
        BY DEF Positions
    <2> QED BY <1>2, <2>1, <2>2, <2>3 DEF SameLog, Kept
<1>5. Latest(segments', DOMAIN segments', r.key, c, Len(old) + 1)
    <2>1. c \in DOMAIN segments' /\ Len(old) + 1 \in Positions(segments'[c], r.key)
        BY <1>1, <1>2, <1>3 DEF Positions
    <2>2. ASSUME NEW j \in DOMAIN segments', NEW q \in Positions(segments'[j], r.key)
          PROVE  j < c \/ (j = c /\ q <= Len(old) + 1)
        <3>1. CASE j = c
            BY <1>1, <1>2, <1>3, <3>1 DEF Positions
        <3>2. CASE j # c
            BY <1>0, <1>2, <3>2
        <3> QED BY <3>1, <3>2
    <2> QED BY <2>1, <2>2 DEF Latest
<1>6. segments'[c][Len(old) + 1] = r
    BY <1>2, <1>3
<1> QED BY <1>4, <1>5, <1>6

LEMMA AppendedHere ==
    ASSUME IInv, LogInv, ~resetUndone, ~resetUndone', AppendRecord
    PROVE  /\ Written \in Records
           /\ segments' = WithSegment(currentSegmentIndex,
                                      RecordsIn(currentSegmentIndex) \o <<Written>>)
<1> DEFINE old == RecordsIn(currentSegmentIndex)
<1>1. Running /\ pc = "append" /\ phase # "start" /\ ~FirstGone /\ FilesTyped
    BY DEF AppendRecord, Running, FirstGone, IInv, TypeOK, PhaseOK, CallInPhase
<1>2. currentRecordCount = Len(old) /\ old \in Seq(Records) /\ Written \in Records
    BY <1>1, RecordsInTyped, WrittenTyped DEF LogInv, AtEnd
<1>3. PICK written \in Overwritten(old, Len(old) + 1, Written) :
          segments' = WithSegment(currentSegmentIndex, written)
    BY <1>2, FramedAlone DEF Framed
<1> HIDE DEF old
<1>4. written = old \o <<Written>>
    BY <1>2, WrittenAtEnd
<1> QED BY <1>2, <1>3, <1>4 DEF old

\* The value a call has written is the one its key has
LEMMA AgreesCalled ==
    ASSUME AllInv, Apply, ~resetUndone, NEW k \in AllKeys, ~InDoubt(k)'
    PROVE  Agrees(k)'
<1>0. /\ IInv /\ Running /\ phase # "start" /\ pc = "apply" /\ ~replaying
      /\ FilesTyped
    BY DEF AllInv, IInv, TypeOK, PhaseOK, CallInPhase, ReplayInStart, Apply, Running
<1>1. /\ UNCHANGED <<segments, replaying>>
      /\ unsure' = unsure \ {Written.key}
    BY DEF Apply, files, startVars
<1>2. Stored(k)' = IF k = Written.key THEN Written.value ELSE Stored(k)
    BY <1>0, StoreApplied
<1>3. CASE k = Written.key
    <2> SUFFICES ASSUME NEW i, NEW p, LastApplied(k, i, p)'
                 PROVE  segments'[i][p].value = Written.value
        BY <1>2, <1>3 DEF Agrees
    <2>1. PICK a, b : /\ Latest(segments, DOMAIN segments, k, a, b)
                      /\ segments[a][b] = Written
        BY <1>0, <1>3 DEF AllInv, StoreInv, WrittenIsLast
    <2>2. /\ i \in DOMAIN segments /\ p \in Positions(segments[i], k)
          /\ \A j \in DOMAIN segments : \A q \in Positions(segments[j], k) :
                 j < i \/ (j = i /\ q <= p)
        BY <1>0, <1>1 DEF LastApplied, Positions, Applied
    <2>3. /\ a < i \/ (a = i /\ b <= p)
          /\ i < a \/ (i = a /\ p <= b)
          /\ a \in DOMAIN segments /\ b \in Positions(segments[a], k)
        BY <2>1, <2>2 DEF Latest
    <2>4. a \in Nat /\ i \in Nat /\ b \in Nat /\ p \in Nat
        BY <1>0, <2>2, <2>3, LenProperties DEF Positions, FilesTyped
    <2>5. a = i /\ b = p
        BY <2>3, <2>4
    <2> QED BY <1>1, <2>1, <2>5
<1>4. CASE k # Written.key
    <2>1. ~InDoubt(k)
        BY <1>1, <1>4 DEF InDoubt
    <2>2. Agrees(k)
        BY <1>0, <2>1 DEF AllInv, StoreInv, StoreCurrent
    <2>3. SameLog(k)
        BY <1>1, SegmentsSame
    <2>4. \A i \in DOMAIN segments : \A p \in DOMAIN segments[i] :
              Applied(i, p)' <=> Applied(i, p)
        BY <1>0, <1>1 DEF Applied
    <2> QED BY <1>2, <1>4, <2>2, <2>3, <2>4, AgreesKept
<1> QED BY <1>3, <1>4

\* Reset removes the oldest of the segments
LEMMA OldestRemoved ==
    ASSUME IInv, LogInv, ~resetUndone, ResetRemove
    PROVE  \E first \in DOMAIN segments :
               /\ segments' = [i \in DOMAIN segments \ {first} |-> segments[i]]
               /\ \A i \in DOMAIN segments : first <= i
<1> DEFINE left == DOMAIN segments \cap 1..currentSegmentIndex
           first == NextRemoved(left)
<1>1. /\ left # {} /\ Running
      /\ segments' = [i \in DOMAIN segments \ {first} |-> segments[i]]
    BY DEF ResetRemove, Running
<1>2. left \in SUBSET Nat /\ left = DOMAIN segments
    BY <1>1 DEF IInv, TypeOK, FilesTyped, LogInv, NoneBeyond
<1>3. first \in left /\ \A m \in left : first <= m
    <2>1. PICK n \in left : \A m \in left : n <= m
        <3> HIDE DEF left
        <3> QED BY <1>1, <1>2, LeastElement
    <2> HIDE DEF left
    <2> QED BY <2>1 DEF NextRemoved, Min
<1> HIDE DEF first
<1> QED BY <1>1, <1>2, <1>3

LEMMA AgreesAfterRemoval ==
    ASSUME IInv, CacheInv, LogInv, ~resetUndone, ResetRemove, NEW k \in AllKeys, Agrees(k)
    PROVE  Agrees(k)'
<1>0. FilesTyped /\ ~replaying /\ ~replaying' /\ Running /\ Running'
    BY DEF IInv, TypeOK, PhaseOK, ReplayInStart, ResetRemove, startVars, Running
<1>1. Stored(k)' = Stored(k)
    BY StoreKept DEF ResetRemove, tableVars
<1>2. PICK first \in DOMAIN segments :
          /\ segments' = [i \in DOMAIN segments \ {first} |-> segments[i]]
          /\ \A i \in DOMAIN segments : first <= i
    BY OldestRemoved
<1> SUFFICES ASSUME NEW i, NEW p, LastApplied(k, i, p)'
             PROVE  Stored(k)' = segments'[i][p].value
    BY DEF Agrees
<1>3. /\ i \in DOMAIN segments \ {first} /\ p \in Positions(segments[i], k)
      /\ \A j \in DOMAIN segments \ {first} : \A q \in Positions(segments[j], k) :
             j < i \/ (j = i /\ q <= p)
    BY <1>0, <1>2 DEF LastApplied, Positions, Applied
<1>4. first < i
    BY <1>0, <1>2, <1>3 DEF FilesTyped
<1>5. LastApplied(k, i, p)
    BY <1>0, <1>3, <1>4 DEF LastApplied, Applied
<1> QED BY <1>1, <1>2, <1>3, <1>5 DEF Agrees

\* A doubt ends when the record is applied or the log is gone
LEMMA DoubtStays ==
    ASSUME [Next]_vars, Running, Running', NEW k, InDoubt(k), ~Apply, ~ResetDone,
           ~(ResetFails /\ DOMAIN segments \cap 1..currentSegmentIndex = {})
    PROVE  InDoubt(k)'
<1>1. CASE RotateFails
    BY <1>1 DEF RotateFails, InDoubt
<1>2. CASE Rotate
    <2>1. Written' = Written
        BY <1>2 DEF Rotate, Written
    <2> QED BY <1>2, <2>1 DEF Rotate, InDoubt, history
<1>3. CASE UNCHANGED vars
    <2>1. Written' = Written
        BY <1>3 DEF vars, Written
    <2> QED BY <1>3, <2>1 DEF vars, InDoubt
<1>4. ASSUME UNCHANGED unsure, pc \notin {"rotate", "apply"}
      PROVE  InDoubt(k)'
    BY <1>4 DEF InDoubt
<1>5. CASE Open \/ Stops
    BY <1>5, StopsStep DEF Open, Running
<1>6. CASE ResetFails /\ phase # "start"
    BY <1>4, <1>6 DEF ResetFails
<1>7. CASE FlushFails /\ phase # "start"
    BY <1>4, <1>7 DEF FlushFails, doubts
<1>8. CASE \/ Call \/ Deny \/ AppendFails \/ ReplayRecord \/ ReplayNextSegment \/ ReplayEnd
           \/ Restore \/ RotateBefore \/ AppendRecord \/ Read \/ FlushData \/ FlushFilter
           \/ FlushMetadata \/ ResetRemove
    BY <1>4, <1>8
       DEF Call, Deny, AppendFails, ReplayRecord, ReplayNextSegment, ReplayEnd, Restore,
           RotateBefore, AppendRecord, Read, FlushData, FlushFilter, FlushMetadata,
           ResetRemove, doubts, history
<1> QED BY <1>1, <1>2, <1>3, <1>5, <1>6, <1>7, <1>8 DEF Next, Step, Stops

LEMMA StoreCurrentStep ==
    ASSUME AllInv, [Next]_vars
    PROVE  StoreCurrent'
<1> SUFFICES ASSUME ~resetUndone', Running', NEW k \in AllKeys, ~InDoubt(k)'
             PROVE  Agrees(k)'
    BY DEF StoreCurrent
<1>0. /\ IInv /\ CacheInv /\ LogInv /\ StoreInv /\ ~resetUndone
      /\ Running /\ ~InDoubt(k) => Agrees(k)
    BY CutStays DEF AllInv, StoreInv, StoreCurrent, IInv, TypeOK, FlagsTyped
<1>1. CASE Open
    <2>1. FilesTyped' /\ replaying' /\ cursor' = [seg |-> 1, pos |-> 1]
        BY <1>0, <1>1, IInvStep DEF IInv, TypeOK, Open, Fresh
    <2>2. ASSUME NEW i \in DOMAIN segments', NEW p \in Positions(segments'[i], k)
          PROVE  ~Applied(i, p)'
        <3>1. segments'[i] \in Seq(Records) /\ i \in Nat \ {0}
            BY <2>1 DEF FilesTyped
        <3>2. p \in Nat \ {0}
            BY <3>1, LenProperties DEF Positions
        <3> QED BY <2>1, <3>1, <3>2 DEF Applied, Ahead
    <2> QED BY <2>2 DEF Agrees, LastApplied, Positions
<1>2. CASE Stops
    BY <1>2, StopsStep
<1>3. CASE ReplayRecord
    <2>1. ~InDoubt(k) /\ Running
        BY <1>3 DEF ReplayRecord, InDoubt, history, Running
    <2> QED BY <1>0, <1>3, <2>1, AgreesReplayed DEF StoreInv
<1>4. CASE AppendRecord
    <2>1. /\ Running /\ k # Written.key /\ ~InDoubt(k) /\ pc = "append"
        <3>1. Written' = Written
            BY <1>4 DEF AppendRecord, Written
        <3> QED BY <1>4, <3>1 DEF AppendRecord, InDoubt, Running
    <2>2. PICK r \in Records : r = Written
        BY <1>0, <1>4, AppendedHere
    <2>3. SameLog(k)
        BY <1>0, <1>4, <2>1, <2>2, AppendedHere, AppendedLog
    <2>4. Stored(k)' = Stored(k)
        BY <1>4, StoreKept DEF AppendRecord, tableVars
    <2>5. \A i \in DOMAIN segments : \A p \in DOMAIN segments[i] :
              Applied(i, p)' <=> Applied(i, p)
        BY <1>4 DEF AppendRecord, startVars, Applied, Ahead
    <2> QED BY <1>0, <2>1, <2>3, <2>4, <2>5, AgreesKept
<1>5. CASE Apply
    BY <1>0, <1>5, AgreesCalled
<1>6. CASE ResetRemove
    <2>1. ~InDoubt(k) /\ Running
        BY <1>6 DEF ResetRemove, InDoubt, history, Running
    <2> QED BY <1>0, <1>6, <2>1, AgreesAfterRemoval
<1>7. CASE ResetDone \/ (ResetFails /\ phase # "start"
                            /\ DOMAIN segments \cap 1..currentSegmentIndex = {})
    <2>1. DOMAIN segments = {}
        BY <1>0, <1>7, AllGone DEF ResetDone, ResetFails
    <2>2. SameLog(k)
        BY <1>7, SegmentsSame, SegmentsCreated DEF ResetDone, ResetFails, files
    <2> QED BY <2>1, <2>2 DEF Agrees, LastApplied, SameLog, Kept, Positions
<1>8. ASSUME Running, ~Apply, ~ResetDone, ~ReplayRecord, ~AppendRecord, ~ResetRemove,
             ~(ResetFails /\ DOMAIN segments \cap 1..currentSegmentIndex = {})
      PROVE  Agrees(k)'
    <2>1. Agrees(k)
        BY <1>0, <1>8, DoubtStays
    <2>2. SameLog(k)
        BY <1>8, LogKept
    <2>3. Stored(k)' = Stored(k)
        BY <1>0, <1>8, StoredKept
    <2>4. \A i \in DOMAIN segments : \A p \in DOMAIN segments[i] :
              Applied(i, p)' <=> Applied(i, p)
        BY <1>0, <1>8, AppliedKept
    <2> QED BY <2>1, <2>2, <2>3, <2>4, AgreesKept
<1>9. CASE ~Running
    <2>1. CASE UNCHANGED vars
        BY <1>9, <2>1 DEF vars, Running
    <2>2. CASE Open \/ Stops
        BY <1>1, <1>2, <2>2
    <2> QED BY <1>9, <2>1, <2>2
        DEF Next, Step, Stops, Call, Deny, AppendFails, RotateFails, FlushFails, ResetFails,
            ReplayRecord, ReplayNextSegment, ReplayEnd, Restore, RotateBefore, AppendRecord,
            Rotate, Apply, Read, FlushData, FlushFilter, FlushMetadata, ResetRemove,
            ResetDone, Running
<1> QED BY <1>2, <1>3, <1>4, <1>5, <1>6, <1>7, <1>8, <1>9 DEF Stops

-----------------------------------------------------------------------------
(* What the log does not hold *)

LEMMA UnloggedSame ==
    ASSUME NEW k, SameLog(k)
    PROVE  Unlogged(k)' <=> Unlogged(k)
BY DEF Unlogged, SameLog, Kept, Positions

LEMMA LoggedFirstStep ==
    ASSUME AllInv, [Next]_vars
    PROVE  LoggedFirst'
<1> SUFFICES ASSUME ~resetUndone', Running', NEW k \in AllKeys, Unlogged(k)'
             PROVE  /\ MemLookup(memtables, k)' = Absent
                    /\ \A id \in DOMAIN sstables' \ tables' : sstables'[id].entries[k] = Absent
    BY DEF LoggedFirst
<1>0. /\ IInv /\ LogInv /\ ~resetUndone /\ FilesTyped /\ ProcessTyped /\ IDsFresh /\ Settled
    BY CutStays DEF AllInv, StoreInv, IInv, TypeOK, FlagsTyped
<1>1. ASSUME Running, Unlogged(k)
      PROVE  /\ MemLookup(memtables, k) = Absent
             /\ \A id \in DOMAIN sstables \ tables : sstables[id].entries[k] = Absent
    BY <1>0, <1>1 DEF AllInv, StoreInv, LoggedFirst
<1>2. ASSUME Running, SameLog(k), UNCHANGED <<memtables, sstables, tables>>
      PROVE  /\ MemLookup(memtables, k)' = Absent
             /\ \A id \in DOMAIN sstables' \ tables' : sstables'[id].entries[k] = Absent
    <2>1. Unlogged(k)
        BY <1>2, UnloggedSame
    <2> QED BY <1>1, <1>2, <2>1 DEF MemLookup
<1>3. CASE Open
    <2>1. memtables' = NoMemtables /\ tables' = DOMAIN sstables'
        BY <1>3 DEF Open, Fresh
    <2>2. MemLookup(memtables, k)' = MemLookup(NoMemtables, k)
        BY <2>1 DEF MemLookup
    <2> QED BY <2>1, <2>2, LookupInNone
<1>4. CASE Stops
    BY <1>4, StopsStep
<1>5. ASSUME Running, SameLog(k), UNCHANGED <<sstables, tables>>,
             NEW r \in Records, r.key # k, r # Torn,
             memtables' = Rolled(Update(memtables, r.key, r.value))
      PROVE  /\ MemLookup(memtables, k)' = Absent
             /\ \A id \in DOMAIN sstables' \ tables' : sstables'[id].entries[k] = Absent
    <2>1. r.key \in AllKeys /\ r.value \in ValuesOf(r.key)
        BY <1>5 DEF Records
    <2>2. MemLookup(memtables, k)' = MemLookup(memtables, k)
        BY <1>0, <1>5, <2>1, LookupWritten
    <2>3. Unlogged(k)
        BY <1>5, UnloggedSame
    <2> QED BY <1>1, <1>5, <2>2, <2>3
<1>6. CASE ReplayRecord
    <2>1. /\ Running /\ UNCHANGED <<segments, sstables, tables>> /\ AtRecord
        BY <1>6 DEF ReplayRecord, files, tableVars, Running
    <2>2. PICK i, p : i = cursor.seg /\ p = cursor.pos
        OBVIOUS
    <2>3. /\ p \in 1..Len(RecordsIn(i)) /\ i \in DOMAIN segments
          /\ RecordsIn(i) = segments[i] /\ segments[i] \in Seq(Records)
        <3>1. /\ p \in Nat \ {0} /\ p <= Len(RecordsIn(i)) /\ Len(RecordsIn(i)) \in Nat
            BY <1>0, <2>1, <2>2, RecordsInTyped DEF AtRecord, ProcessTyped
        <3>2. i \in DOMAIN segments
            BY <1>0, <3>1, RecordsInTyped
        <3> QED BY <1>0, <3>1, <3>2 DEF RecordsIn, FilesTyped
    <2>4. PICK r \in Records : r = segments[i][p]
        BY <2>3, ElementOfSeq
    <2>5. r.key # k
        <3>1. p \in DOMAIN segments[i]
            BY <2>3, LenProperties
        <3> QED BY <2>1, <2>3, <2>4, <3>1 DEF Unlogged, Positions
    <2>6. /\ memtables' = Rolled(Update(memtables, r.key, r.value))
          /\ r # Torn
        BY <1>6, <2>2, <2>4 DEF ReplayRecord, Decodable
    <2> QED BY <1>5, <2>1, <2>4, <2>5, <2>6, SegmentsSame
<1>7. CASE Apply
    <2>1. /\ UNCHANGED <<segments, sstables, tables>> /\ Running /\ pc = "apply"
          /\ phase # "start"
          /\ memtables' = Rolled(Update(memtables, Written.key, Written.value))
        BY <1>0, <1>7 DEF Apply, files, tableVars, Running, IInv, PhaseOK, CallInPhase
    <2>2. Written \in Records /\ Written.key \in AllKeys
        BY <1>0, <2>1, WrittenTyped
    <2>3. Written # Torn
        BY <2>2, EngineAssumption DEF Torn, Record
    <2>4. Written.key # k
        <3>1. PICK i, p : Latest(segments, DOMAIN segments, Written.key, i, p)
            BY <1>0, <2>1 DEF AllInv, StoreInv, WrittenIsLast
        <3> QED BY <2>1, <3>1 DEF Latest, Unlogged, Positions
    <2> QED BY <1>5, <2>1, <2>2, <2>3, <2>4, SegmentsSame
<1>8. CASE AppendRecord
    <2>1. Running /\ pc = "append" /\ UNCHANGED <<memtables, sstables, tables>>
        BY <1>8 DEF AppendRecord, tableVars, Running
    <2>2. PICK r \in Records : r = Written
        BY <1>0, <1>8, AppendedHere
    <2>3. /\ \A l : l # r.key => SameLog(l)
          /\ \E i, p : Latest(segments', DOMAIN segments', r.key, i, p)
        BY <1>0, <1>8, <2>1, <2>2, AppendedHere, AppendedLog
    <2>4. k # r.key
        BY <2>3 DEF Latest, Unlogged, Positions
    <2> QED BY <1>2, <2>1, <2>3, <2>4
<1>9. CASE FlushData \/ FlushFilter
    <2>1. /\ UNCHANGED <<segments, memtables, tables, nextTableID>> /\ Running
        BY <1>9 DEF FlushData, FlushFilter, tableVars, Running
    <2>2. Unlogged(k)
        BY <2>1, SegmentsSame, UnloggedSame
    <2>3. /\ MemLookup(memtables, k) = Absent
          /\ \A id \in DOMAIN sstables \ tables : sstables[id].entries[k] = Absent
        BY <1>1, <2>1, <2>2
    <2>4. nextTableID \notin tables
        BY <1>0, <2>1 DEF IDsFresh, ProcessTyped, FilesTyped
    <2>5. Entries(memtables)[k] = Absent
        BY <2>3 DEF Entries
    <2>6. PICK t : sstables' = WithTable(nextTableID, t) /\ t.entries[k] = Absent
        <3>1. CASE FlushFilter
            BY <2>5, <3>1 DEF FlushFilter
        <3>2. CASE FlushData
            <4>1. PICK t \in IF nextTableID \in DOMAIN sstables /\ Readable(nextTableID)
                             THEN [entries : Mixed(sstables[nextTableID].entries, Entries(memtables)),
                                   stage : {"filter"}]
                             ELSE [entries : {Entries(memtables)}, stage : {"data"}] :
                      sstables' = WithTable(nextTableID, t)
                BY <3>2 DEF FlushData
            <4>2. CASE nextTableID \in DOMAIN sstables /\ Readable(nextTableID)
                <5>1. t.entries \in Mixed(sstables[nextTableID].entries, Entries(memtables))
                    BY <4>1, <4>2
                <5>2. t.entries[k] \in
                          {sstables[nextTableID].entries[k], Entries(memtables)[k], Absent}
                    BY <5>1 DEF Mixed
                <5> QED BY <2>3, <2>4, <2>5, <4>1, <4>2, <5>2
            <4>3. CASE ~(nextTableID \in DOMAIN sstables /\ Readable(nextTableID))
                BY <2>5, <4>1, <4>3
            <4> QED BY <4>2, <4>3
        <3> QED BY <1>9, <3>1, <3>2
    <2>7. \A id \in DOMAIN sstables' \ tables' : sstables'[id].entries[k] = Absent
        BY <2>1, <2>3, <2>6 DEF WithTable
    <2> QED BY <2>1, <2>3, <2>7 DEF MemLookup
<1>10. CASE FlushMetadata
    <2>1. /\ memtables' = NoMemtables
          /\ DOMAIN sstables' = DOMAIN sstables \cup {nextTableID}
          /\ tables' = tables \cup {nextTableID} /\ Running
        BY <1>10 DEF FlushMetadata, WithTable, Running
    <2>2. DOMAIN sstables' \ tables' = {}
        BY <1>0, <2>1 DEF Settled
    <2>3. MemLookup(memtables, k)' = MemLookup(NoMemtables, k)
        BY <2>1 DEF MemLookup
    <2> QED BY <2>2, <2>3, LookupInNone
<1>11. CASE ResetRemove
    <2>1. UNCHANGED <<memtables, sstables, tables>> /\ pc = "reset" /\ Running
        BY <1>11 DEF ResetRemove, tableVars, Running
    <2>2. MemLookup(memtables, k) = Absent /\ tables = DOMAIN sstables
        BY <1>0, <2>1 DEF Settled
    <2> QED BY <2>1, <2>2 DEF MemLookup
<1>12. CASE KeepsStore /\ ~AppendRecord /\ ~ResetRemove
    <2>1. UNCHANGED <<memtables, sstables, tables>>
        BY <1>12, KeptStep
    <2>2. Running
        BY <1>12 DEF KeepsStore, Running, ReplayNextSegment, ReplayEnd, Restore, Call, Deny,
           RotateBefore, Rotate, AppendFails, RotateFails, FlushFails, ResetFails,
           ResetDone
    <2> QED BY <1>2, <1>12, <2>1, <2>2, LogKept
<1>13. CASE Read \/ UNCHANGED vars
    <2>1. UNCHANGED <<memtables, sstables, tables, segments>> /\ Running
        BY <1>13 DEF Read, files, tableVars, vars, Running
    <2> QED BY <1>2, <2>1, SegmentsSame
<1> QED BY <1>3, <1>4, <1>6, <1>7, <1>8, <1>9, <1>10, <1>11, <1>12, <1>13
        DEF Next, Step, KeepsStore, Stops

LEMMA WrittenIsLastStep ==
    ASSUME AllInv, [Next]_vars
    PROVE  WrittenIsLast'
<1> SUFFICES ASSUME ~resetUndone', pc' \in {"rotate", "apply"}
             PROVE  WrittenIsLast'
    BY DEF WrittenIsLast
<1>0. IInv /\ LogInv /\ ~resetUndone /\ WrittenIsLast
    BY CutStays DEF AllInv, StoreInv, IInv, TypeOK, FlagsTyped
<1>1. CASE AppendRecord
    <2>1. pc = "append" /\ Written' = Written
        BY <1>1 DEF AppendRecord, Written
    <2>2. PICK r \in Records : r = Written
        BY <1>0, <1>1, AppendedHere
    <2>3. \E i, p : /\ Latest(segments', DOMAIN segments', r.key, i, p)
                    /\ segments'[i][p] = r
        BY <1>0, <1>1, <2>1, <2>2, AppendedHere, AppendedLog
    <2> QED BY <2>1, <2>2, <2>3 DEF WrittenIsLast, Latest, Positions
<1>2. CASE Rotate \/ UNCHANGED vars
    <2>1. Written' = Written /\ pc \in {"rotate", "apply"}
        BY <1>2 DEF Rotate, Written, vars
    <2>2. SameLog(Written.key)
        BY <1>2, SegmentsSame, SegmentsCreated DEF Rotate, Rotated, vars
    <2>3. PICK r : r = Written
        OBVIOUS
    <2>4. PICK i, p : Latest(segments, DOMAIN segments, r.key, i, p) /\ segments[i][p] = r
        BY <1>0, <2>1, <2>3 DEF WrittenIsLast
    <2>5. Latest(segments', DOMAIN segments', r.key, i, p) /\ segments'[i][p] = r
        BY <2>2, <2>3, <2>4 DEF Latest, SameLog, Kept
    <2> QED BY <2>1, <2>3, <2>5 DEF WrittenIsLast, Latest, Positions
<1> QED BY <1>1, <1>2
        DEF Next, Step, Open, OpenFails, Quit, Crash, CrashInAppend, Call, Deny,
            AppendFails, RotateFails, FlushFails, ResetFails, ReplayRecord, ReplayTorn,
            ReplayNextSegment, ReplayEnd, Restore, RotateBefore, Apply, Read,
            FlushData, FlushFilter, FlushMetadata, ResetRemove, ResetDone, Proceed, Answer

LEMMA SettledStep ==
    ASSUME AllInv, [Next]_vars
    PROVE  Settled'
<1>0. Settled /\ CallInPhase /\ ReplayInStart /\ ProcessTyped
    BY DEF AllInv, StoreInv, IInv, TypeOK, PhaseOK
<1>1. CASE Open
    BY <1>1 DEF Open, Settled
<1>2. CASE Stops
    BY <1>2, StopsStep DEF Settled
<1>3. CASE ReplayRecord \/ ReplayNextSegment
    BY <1>0, <1>3 DEF ReplayRecord, ReplayNextSegment, files, tableVars, Settled, Running
<1>4. CASE ReplayEnd
    BY <1>0, <1>4 DEF ReplayEnd, HasEntries, MemLookup, files, tableVars, Settled, Running
<1>5. CASE FlushData \/ FlushFilter
    BY <1>0, <1>5 DEF FlushData, FlushFilter, WithTable, tableVars, Settled, Running
<1>6. CASE FlushMetadata
    <2>1. \A k \in AllKeys : MemLookup(memtables, k)' = Absent
        <3>1. \A k \in AllKeys : MemLookup(memtables, k)' = MemLookup(NoMemtables, k)
            BY <1>6 DEF FlushMetadata, MemLookup
        <3> QED BY <3>1, LookupInNone
    <2>2. DOMAIN sstables' = DOMAIN sstables \cup {nextTableID} /\ tables' = tables \cup {nextTableID}
        BY <1>6 DEF FlushMetadata, WithTable
    <2>3. DOMAIN sstables \ tables \subseteq {nextTableID} /\ tables \subseteq DOMAIN sstables
        BY <1>0, <1>6 DEF FlushMetadata, Settled, Running, ProcessTyped
    <2>4. pc' = "replay" => replaying'
        BY <1>6 DEF FlushMetadata
    <2> QED BY <2>1, <2>2, <2>3, <2>4 DEF Settled
<1>7. CASE ResetRemove \/ UNCHANGED vars
    BY <1>0, <1>7 DEF ResetRemove, tableVars, vars, MemLookup, Settled, Running
<1>8. ASSUME UNCHANGED <<sstables, tables, nextTableID>>, Running, pc' \notin {"replay", "reset"}
      PROVE  Settled'
    BY <1>0, <1>8 DEF Settled
<1>9. CASE Apply \/ ResetDone
    BY <1>8, <1>9 DEF Apply, ResetDone, Proceed, Answer, files, tableVars, Running
<1>10. CASE \/ Call \/ Deny \/ AppendFails \/ RotateFails \/ Restore \/ RotateBefore
            \/ AppendRecord \/ Rotate \/ Read
            \/ (FlushFails \/ ResetFails) /\ phase # "start"
    BY <1>8, <1>10
       DEF Call, Deny, AppendFails, RotateFails, Restore, RotateBefore, AppendRecord, Rotate,
           Read, FlushFails, ResetFails, Answer, files, tableVars, Running
<1> QED BY <1>1, <1>2, <1>3, <1>4, <1>5, <1>6, <1>7, <1>9, <1>10 DEF Next, Step, Stops

LEMMA AllInvariance == Spec => []AllInv
<1>1. Init => StoreInv
    BY InitStoreInv
<1>2. AllInv /\ [Next]_vars => StoreInv'
    BY StoreCurrentStep, LoggedFirstStep, WrittenIsLastStep, SettledStep DEF StoreInv
<1>3. IInv /\ CacheInv /\ LogInv /\ StoreInv => AllInv
    BY DEF AllInv
<1>4. AllInv => IInv /\ CacheInv /\ LogInv /\ StoreInv
    BY DEF AllInv
<1> QED BY <1>1, <1>2, <1>3, <1>4, CacheInvariance, LogInvariance, PTL DEF Spec

-----------------------------------------------------------------------------
(* What the process answers, and what a restart would recover *)

\* A log that holds a record of a key answers with what the store has of it
LEMMA LoggedIsStored ==
    ASSUME AllInv, Running, ~resetUndone, ~replaying, NEW k \in AllKeys, ~InDoubt(k),
           ~Unlogged(k)
    PROVE  /\ LogLookup(DOMAIN segments, k) = Stored(k)
           /\ Stored(k) # Absent
<1>0. IInv /\ FilesTyped /\ FilesBounded /\ Agrees(k)
    BY DEF AllInv, IInv, TypeOK, StoreInv, StoreCurrent
<1>1. Files(segments, DOMAIN segments)
    BY <1>0, FilesNow
<1>2. PICK h \in DOMAIN segments : Positions(segments[h], k) # {}
    BY DEF Unlogged
<1>3. PICK i, p : Latest(segments, DOMAIN segments, k, i, p)
    BY <1>1, <1>2, LatestExists
<1>4. LogLookup(DOMAIN segments, k) = segments[i][p].value
    BY <1>1, <1>3, LatestLooked, LogLookupIs
<1>5. Stored(k) = segments[i][p].value
    <2>1. LastApplied(k, i, p)
        BY <1>3 DEF Latest, LastApplied, Applied
    <2> QED BY <1>0, <2>1 DEF Agrees
<1>6. segments[i][p].value # Absent
    <2>1. i \in DOMAIN segments /\ p \in DOMAIN segments[i] /\ segments[i][p].key = k
        BY <1>3 DEF Latest, Positions
    <2>2. segments[i][p] \in Records
        BY <1>0, <2>1, LenProperties, ElementOfSeq DEF FilesTyped
    <2>3. k # Absent
        BY EngineAssumption
    <2>4. segments[i][p].value \in ValuesOf(k)
        BY <2>1, <2>2, <2>3 DEF Records, Torn, Record
    <2> QED BY <2>4, ConstantsFacts, EngineAssumption DEF ValuesOf, Data
<1> QED BY <1>4, <1>5, <1>6

\* A log without a record of a key leaves the answer to the tables
LEMMA UnloggedIsTable ==
    ASSUME AllInv, Running, ~resetUndone, NEW k \in AllKeys, Unlogged(k)
    PROVE  /\ LogLookup(DOMAIN segments, k) = Absent
           /\ TableLookup(DOMAIN sstables, k) = Stored(k)
<1>0. /\ tables \subseteq DOMAIN sstables
      /\ MemLookup(memtables, k) = Absent
      /\ \A id \in DOMAIN sstables \ tables : sstables[id].entries[k] = Absent
    BY DEF AllInv, IInv, TypeOK, ProcessTyped, StoreInv, LoggedFirst
<1>1. LogLookup(DOMAIN segments, k) = Absent
    BY LookupNone, LogLookupIs DEF Unlogged
<1>2. {id \in DOMAIN sstables : Readable(id) /\ sstables[id].entries[k] # Absent}
          = {id \in tables : Readable(id) /\ sstables[id].entries[k] # Absent}
    BY <1>0
<1>3. TableLookup(DOMAIN sstables, k) = TableLookup(tables, k)
    BY <1>2 DEF TableLookup
<1> QED BY <1>0, <1>1, <1>3 DEF Stored

LEMMA StoredIsRecovered ==
    ASSUME AllInv, Running, ~resetUndone, ~replaying, NEW k \in AllKeys, ~InDoubt(k)
    PROVE  Live(Stored(k)) = Recovered(k)
<1>0. IInv /\ LogInv /\ FilesTyped /\ FilesBounded
    BY DEF AllInv, IInv, TypeOK
<1>1. CASE ~FirstGone
    <2>1. 1..LastSegment = DOMAIN segments
        BY <1>0, <1>1, FilesNumbered
    <2> QED BY <2>1, LoggedIsStored, UnloggedIsTable DEF Recovered
<1>2. CASE FirstGone
    <2>1. LastSegment \in Nat /\ 1..LastSegment \subseteq DOMAIN segments
        BY <1>0, LastSegmentFound
    <2>2. 1..LastSegment = {}
        <3> DEFINE n == LastSegment
        <3>1. n \in Nat /\ 1 \notin 1..n
            BY <1>2, <2>1 DEF FirstGone
        <3> HIDE DEF n
        <3>2. 1..n = {}
            BY <3>1
        <3> QED BY <3>2 DEF n
    <2>3. LogLookup(1..LastSegment, k) = Absent
        BY <2>2 DEF LogLookup
    <2>4. tables = DOMAIN sstables /\ MemLookup(memtables, k) = Absent
        BY <1>2 DEF AllInv, StoreInv, Settled, FirstGone
    <2> QED BY <2>3, <2>4 DEF Recovered, Stored
<1> QED BY <1>1, <1>2

\* What the engine answers and what a restart would recover from its files are the same
\* for every key that no call is writing, through every flush, reset and failure.
THEOREM AnswersSurvive == Spec => []ReadsAgreeWithRecovery
<1>1. AllInv => ReadsAgreeWithRecovery
    <2> SUFFICES ASSUME AllInv, Serving, ~resetUndone, NEW k \in AllKeys
                 PROVE  \/ Live(Stored(k)) = Recovered(k)
                        \/ phase = "allow" /\ k = BucketKey
                        \/ phase = "op" /\ k = call.key
                        \/ k \in unsure
        BY DEF ReadsAgreeWithRecovery
    <2>1. Running /\ ~replaying
        BY DEF AllInv, IInv, PhaseOK, CallInPhase, ReplayInStart, Serving, Running
    <2>2. CASE ~InDoubt(k)
        BY <2>1, <2>2, StoredIsRecovered
    <2>3. CASE pc \in {"rotate", "apply"} /\ k = Written.key
        <3>1. phase \in {"allow", "op"}
            BY <2>3 DEF AllInv, IInv, TypeOK, ControlTyped, PhaseOK, CallInPhase
        <3>2. Written.key = IF phase = "allow" THEN BucketKey ELSE call.key
            BY DEF Written, Record
        <3> QED BY <2>3, <3>1, <3>2
    <2> QED BY <2>2, <2>3 DEF InDoubt
<1> QED BY <1>1, AllInvariance, PTL

\* The log that a reset deletes holds nothing that the tables do not hold.
THEOREM ResetLosesNothing == Spec => []ResetCovered
<1>1. AllInv => ResetCovered
    <2> SUFFICES ASSUME AllInv, pc = "reset", ~resetUndone, NEW k \in AllKeys \ unsure,
                        LogLookup(DOMAIN segments \cap 1..currentSegmentIndex, k) # Absent
                 PROVE  LogLookup(DOMAIN segments \cap 1..currentSegmentIndex, k)
                            = TableLookup(tables, k)
        BY DEF ResetCovered
    <2>1. Running /\ ~replaying
        BY DEF AllInv, IInv, PhaseOK, ReplayInStart, Running
    <2>2. DOMAIN segments \cap 1..currentSegmentIndex = DOMAIN segments
        BY <2>1 DEF AllInv, LogInv, NoneBeyond
    <2>3. ~InDoubt(k)
        BY DEF InDoubt
    <2>4. LogLookup(DOMAIN segments, k) = Stored(k)
        BY <2>1, <2>2, <2>3, LoggedIsStored, UnloggedIsTable
    <2>5. MemLookup(memtables, k) = Absent
        BY <2>1 DEF AllInv, StoreInv, Settled
    <2> QED BY <2>2, <2>4, <2>5 DEF Stored
<1> QED BY <1>1, AllInvariance, PTL

-----------------------------------------------------------------------------
(* What the invariant says of the log that a restart reads *)

\* A restart reads the whole log, or nothing when Reset has removed the first segment
ReadBack == ~resetUndone => 1..LastSegment = IF FirstGone THEN {} ELSE DOMAIN segments

\* A key that the log holds is recovered from it
LoggedPresent ==
    \A k \in AllKeys : LogLookup(DOMAIN segments, k) = Absent => Unlogged(k)

\* The store of a running process is what a restart recovers
InStep ==
    Running /\ ~resetUndone /\ ~replaying =>
        \A k \in AllKeys : InDoubt(k) \/ Live(Stored(k)) = Recovered(k)

RecoveryInv == AllInv /\ ReadBack /\ LoggedPresent /\ InStep

\* A record of a key carries a value
LEMMA RecordPresent ==
    ASSUME FilesTyped, NEW k \in AllKeys, NEW i \in DOMAIN segments,
           NEW p \in Positions(segments[i], k)
    PROVE  segments[i][p].value \in ValuesOf(k) /\ segments[i][p].value # Absent
<1>1. p \in DOMAIN segments[i] /\ segments[i][p].key = k
    BY DEF Positions
<1>2. segments[i][p] \in Records
    BY <1>1, LenProperties, ElementOfSeq DEF FilesTyped
<1>3. k # Absent
    BY EngineAssumption
<1>4. segments[i][p].value \in ValuesOf(k)
    BY <1>1, <1>2, <1>3 DEF Records, Torn, Record
<1> QED BY <1>4, ConstantsFacts, EngineAssumption DEF ValuesOf, Data

LEMMA RecoveryFacts == AllInv => RecoveryInv
<1> SUFFICES ASSUME AllInv
             PROVE  RecoveryInv
    OBVIOUS
<1>0. IInv /\ LogInv /\ FilesTyped /\ FilesBounded
    BY DEF AllInv, IInv, TypeOK
<1>1. ReadBack
    <2>1. CASE ~FirstGone
        BY <1>0, <2>1, FilesNumbered DEF ReadBack
    <2>2. CASE FirstGone
        <3> DEFINE n == LastSegment
        <3>1. n \in Nat /\ 1 \notin 1..n
            BY <1>0, <2>2, LastSegmentFound DEF FirstGone
        <3> HIDE DEF n
        <3>2. 1..n = {}
            BY <3>1
        <3> QED BY <2>2, <3>2 DEF n, ReadBack
    <2> QED BY <2>1, <2>2
<1>2. LoggedPresent
    <2> SUFFICES ASSUME NEW k \in AllKeys, ~Unlogged(k)
                 PROVE  LogLookup(DOMAIN segments, k) # Absent
        BY DEF LoggedPresent
    <2>1. Files(segments, DOMAIN segments)
        BY <1>0, FilesNow
    <2>2. PICK h \in DOMAIN segments : Positions(segments[h], k) # {}
        BY DEF Unlogged
    <2>3. PICK i, p : Latest(segments, DOMAIN segments, k, i, p)
        BY <2>1, <2>2, LatestExists
    <2>4. segments[i][p].value # Absent
        BY <1>0, <2>3, RecordPresent DEF Latest
    <2> QED BY <2>1, <2>3, <2>4, LatestLooked, LogLookupIs
<1>3. InStep
    BY StoredIsRecovered DEF InStep
<1> QED BY <1>1, <1>2, <1>3 DEF RecoveryInv

-----------------------------------------------------------------------------
(* Steps and what is recovered *)

\* The record of key k in the log and the tables stay: so does what is recovered
LEMMA RecoveredSame ==
    ASSUME FilesTyped, FilesBounded, FilesTyped', FilesBounded',
           1..LastSegment = DOMAIN segments, (1..LastSegment = DOMAIN segments)',
           UNCHANGED sstables, NEW k, SameLog(k)
    PROVE  Recovered(k)' = Recovered(k)
<1>1. PICK S, T, segs, tegs : /\ S = DOMAIN segments /\ segs = segments
                              /\ T = DOMAIN segments' /\ tegs = segments'
    OBVIOUS
<1>2. Files(segs, S) /\ Files(tegs, T)
    BY <1>1, FilesNow, FilesNext
<1>3. LookupIn(tegs, T, k) = LookupIn(segs, S, k)
    BY <1>1, <1>2, SameRecords DEF SameLog
<1> DEFINE R == 1..LastSegment
<1>4. R = S /\ R' = T
    BY <1>1
<1> HIDE DEF R
<1>5. /\ LogLookup(R, k) = LookupIn(segs, S, k)
      /\ LogLookup(R, k)' = LookupIn(tegs, T, k)
    BY <1>1, <1>4 DEF LogLookup, LookupIn, Positions
<1>6. TableLookup(DOMAIN sstables, k)' = TableLookup(DOMAIN sstables, k)
    BY DEF TableLookup, Readable
<1> QED BY <1>3, <1>5, <1>6 DEF R, Recovered

\* A table without an entry of key k is written: what is recovered for k stays
LEMMA RecoveredBeside ==
    ASSUME FilesTyped, FilesBounded, UNCHANGED segments,
           NEW n, NEW t, sstables' = WithTable(n, t), NEW k,
           n \in DOMAIN sstables => sstables[n].entries[k] = Absent,
           t.entries[k] = Absent
    PROVE  Recovered(k)' = Recovered(k)
<1>1. /\ DOMAIN sstables' = DOMAIN sstables \cup {n} /\ sstables'[n] = t
      /\ \A id \in DOMAIN sstables \ {n} : sstables'[id] = sstables[id]
    BY DEF WithTable
<1> DEFINE old == {id \in DOMAIN sstables : Readable(id) /\ sstables[id].entries[k] # Absent}
           new == {id \in DOMAIN sstables' : Readable(id)' /\ sstables'[id].entries[k] # Absent}
<1>2. new = old
    BY <1>1 DEF Readable
<1>3. \A id \in old : sstables'[id] = sstables[id]
    BY <1>1
<1>4. TableLookup(DOMAIN sstables, k)' = TableLookup(DOMAIN sstables, k)
    <2>1. CASE old = {}
        BY <1>2, <2>1 DEF TableLookup
    <2>2. CASE old # {}
        <3>1. old \in SUBSET DOMAIN sstables
            OBVIOUS
        <3>2. Max(old) \in old
            <4> HIDE DEF old
            <4> QED BY <2>2, <3>1, NewestTable
        <3> QED BY <1>2, <1>3, <2>2, <3>2 DEF TableLookup
    <2> QED BY <2>1, <2>2
<1>5. LogLookup(1..LastSegment, k)' = LogLookup(1..LastSegment, k)
    BY DEF LogLookup, LastSegment
<1> QED BY <1>4, <1>5 DEF Recovered

\* Starts, rotations and the new first segment keep every record
LEMMA RecoveredOverFiles ==
    ASSUME RecoveryInv, RecoveryInv', ~resetUndone, ~resetUndone',
           Open \/ RotateBefore \/ Rotate \/ ResetDone, NEW k
    PROVE  Recovered(k)' = Recovered(k)
<1>0. /\ FilesTyped /\ FilesBounded /\ IInv /\ LogInv
      /\ FilesTyped' /\ FilesBounded'
      /\ ReadBack /\ ReadBack'
    BY DEF RecoveryInv, AllInv, IInv, TypeOK
<1>1. PICK S : segments' = WithSegments(S)
    BY DEF Open, RotateBefore, Rotate, Rotated, ResetDone
<1>2. SameLog(k)
    BY <1>1, SegmentsCreated
<1>3. UNCHANGED sstables
    BY DEF Open, RotateBefore, Rotate, ResetDone
<1>4. 1..LastSegment = DOMAIN segments
    <2>1. CASE ResetDone
        BY <1>0, <2>1, AllGone DEF ReadBack, ResetDone
    <2>2. CASE ~ResetDone
        BY <1>0, <2>2 DEF ReadBack, FirstGone, Open, RotateBefore, Rotate
    <2> QED BY <2>1, <2>2
<1>5. ~FirstGone'
    <2>1. CASE ResetDone
        BY <2>1 DEF ResetDone, WithSegments, FirstGone
    <2>2. CASE ~ResetDone
        BY <2>2 DEF FirstGone, Open, RotateBefore, Rotate
    <2> QED BY <2>1, <2>2
<1>6. (1..LastSegment = DOMAIN segments)'
    BY <1>0, <1>5 DEF ReadBack
<1> QED BY <1>0, <1>2, <1>3, <1>4, <1>6, RecoveredSame

\* A record at the end of the log is recovered for its key, and changes no other
LEMMA RecoveredAppended ==
    ASSUME RecoveryInv, RecoveryInv', ~resetUndone, ~resetUndone', pc = "append",
           pc' # "reset", UNCHANGED sstables, NEW r \in Records,
           segments' = WithSegment(currentSegmentIndex,
                                   RecordsIn(currentSegmentIndex) \o <<r>>)
    PROVE  /\ \A k \in AllKeys : k # r.key => Recovered(k)' = Recovered(k)
           /\ r.value # Absent => Recovered(r.key)' = Live(r.value)
<1>0. /\ FilesTyped /\ FilesBounded /\ IInv /\ LogInv
      /\ FilesTyped' /\ FilesBounded'
      /\ ReadBack /\ ReadBack'
    BY DEF RecoveryInv, AllInv, IInv, TypeOK
<1>1. /\ 1..LastSegment = DOMAIN segments
      /\ (1..LastSegment = DOMAIN segments)'
    BY <1>0 DEF ReadBack, FirstGone
<1>2. ASSUME NEW k \in AllKeys, k # r.key
      PROVE  Recovered(k)' = Recovered(k)
    <2>1. SameLog(k)
        BY <1>0, <1>2, AppendedLog
    <2> QED BY <1>0, <1>1, <2>1, RecoveredSame
<1>3. ASSUME r.value # Absent
      PROVE  Recovered(r.key)' = Live(r.value)
    <2>1. PICK i, p : /\ Latest(segments', DOMAIN segments', r.key, i, p)
                      /\ segments'[i][p] = r
        BY <1>0, AppendedLog
    <2>2. PICK T, tegs, k : T = DOMAIN segments' /\ tegs = segments' /\ k = r.key
        OBVIOUS
    <2>3. LookupIn(tegs, T, k) = r.value
        BY <1>0, <2>1, <2>2, FilesNext, LatestLooked
    <2> DEFINE R == 1..LastSegment
    <2>4. R' = T
        BY <1>1, <2>2
    <2> HIDE DEF R
    <2>5. LogLookup(R, k)' = LookupIn(tegs, T, k)
        BY <2>2, <2>4 DEF LogLookup, LookupIn, Positions
    <2>6. Recovered(k)' = Live(r.value)
        BY <1>3, <2>3, <2>5 DEF R, Recovered, Live
    <2> QED BY <2>2, <2>6
<1> QED BY <1>2, <1>3

\* A flush writes what a restart would have recovered anyway
LEMMA RecoveredUnderFlush ==
    ASSUME RecoveryInv, ~resetUndone, FlushData \/ FlushFilter \/ FlushMetadata,
           NEW k \in AllKeys
    PROVE  Recovered(k)' = Recovered(k)
<1>0. /\ FilesTyped /\ FilesBounded /\ ProcessTyped /\ IDsFresh /\ LoggedFirst
      /\ 1..LastSegment = DOMAIN segments /\ LoggedPresent
    BY DEF RecoveryInv, AllInv, IInv, TypeOK, StoreInv, ReadBack, FirstGone,
           FlushData, FlushFilter, FlushMetadata
<1>1. Running /\ UNCHANGED segments
    BY DEF FlushData, FlushFilter, FlushMetadata, Running
<1>2. CASE LogLookup(1..LastSegment, k) = Absent
    <2>1. /\ MemLookup(memtables, k) = Absent
          /\ \A id \in DOMAIN sstables \ tables : sstables[id].entries[k] = Absent
        BY <1>0, <1>1, <1>2 DEF LoggedPresent, LoggedFirst
    <2>2. /\ nextTableID \in DOMAIN sstables => sstables[nextTableID].entries[k] = Absent
          /\ pc \in {"filter", "metadata"} => nextTableID \in DOMAIN sstables
        BY <1>0, <1>1, <2>1 DEF IDsFresh, ProcessTyped, FilesTyped
    <2>3. Entries(memtables)[k] = Absent
        BY <2>1 DEF Entries
    <2>4. \E t : sstables' = WithTable(nextTableID, t) /\ t.entries[k] = Absent
        <3>1. CASE FlushData
            <4>1. PICK t \in IF nextTableID \in DOMAIN sstables /\ Readable(nextTableID)
                             THEN [entries : Mixed(sstables[nextTableID].entries,
                                                   Entries(memtables)),
                                   stage : {"filter"}]
                             ELSE [entries : {Entries(memtables)}, stage : {"data"}] :
                      sstables' = WithTable(nextTableID, t)
                BY <3>1 DEF FlushData
            <4>2. \/ t.entries = Entries(memtables)
                  \/ /\ nextTableID \in DOMAIN sstables
                     /\ t.entries \in Mixed(sstables[nextTableID].entries, Entries(memtables))
                BY <4>1
            <4>3. t.entries[k] = Absent
                BY <2>2, <2>3, <4>2 DEF Mixed
            <4> QED BY <4>1, <4>3
        <3>2. CASE FlushFilter
            BY <2>3, <3>2 DEF FlushFilter
        <3>3. CASE FlushMetadata
            BY <2>2, <3>3 DEF FlushMetadata
        <3> QED BY <3>1, <3>2, <3>3
    <2>5. PICK n, t : /\ n = nextTableID
                      /\ sstables' = WithTable(n, t) /\ t.entries[k] = Absent
        BY <2>4
    <2> QED BY <1>0, <1>1, <2>2, <2>5, RecoveredBeside
<1>3. CASE LogLookup(1..LastSegment, k) # Absent
    <2>1. LogLookup(1..LastSegment, k)' = LogLookup(1..LastSegment, k)
        BY <1>1 DEF LogLookup, LastSegment
    <2> QED BY <1>3, <2>1 DEF Recovered
<1> QED BY <1>2, <1>3

\* A reset under way takes nothing away that is not in doubt
LEMMA RecoveredUnderReset ==
    ASSUME RecoveryInv, RecoveryInv', ~resetUndone, ~resetUndone', ResetRemove,
           NEW k \in AllKeys, k \notin unsure
    PROVE  Recovered(k)' = Recovered(k)
<1>1. /\ pc = "reset" /\ pc' = "reset" /\ Running /\ Running'
      /\ UNCHANGED <<memtables, sstables, tables, unsure, replaying>>
    BY DEF ResetRemove, tableVars, startVars, history, Running
<1>2. ~replaying
    BY <1>1 DEF RecoveryInv, AllInv, IInv, PhaseOK, ReplayInStart
<1>3. ~InDoubt(k) /\ ~InDoubt(k)'
    BY <1>1 DEF InDoubt
<1>4. Live(Stored(k)) = Recovered(k)
    BY <1>1, <1>2, <1>3 DEF RecoveryInv, InStep
<1>5. Live(Stored(k))' = Recovered(k)'
    BY <1>1, <1>2, <1>3 DEF RecoveryInv, InStep
<1>6. Stored(k)' = Stored(k)
    BY <1>1, StoreKept
<1> QED BY <1>4, <1>5, <1>6 DEF Live

LEMMA RecoveredStep ==
    ASSUME RecoveryInv, RecoveryInv', [Next]_vars, ~resetUndone', NEW k \in AllKeys
    PROVE  \/ Recovered(k)' = Recovered(k)
           \/ pc = "reset" /\ k \in unsure
           \/ /\ pc = "append" /\ pc' \in {"rotate", "apply"}
              /\ k = Written.key
              /\ Recovered(k)' = Live(Written.value)
<1>0. IInv /\ LogInv /\ ~resetUndone /\ FilesTyped
    BY CutStays DEF RecoveryInv, AllInv, IInv, TypeOK, FlagsTyped
<1>1. CASE Open \/ RotateBefore \/ Rotate \/ ResetDone
    BY <1>0, <1>1, RecoveredOverFiles
<1>2. CASE AppendRecord
    <2>1. /\ Written \in Records
          /\ segments' = WithSegment(currentSegmentIndex,
                                     RecordsIn(currentSegmentIndex) \o <<Written>>)
        BY <1>0, <1>2, AppendedHere
    <2>2. pc = "append" /\ pc' \in {"rotate", "apply"} /\ UNCHANGED sstables
        BY <1>2 DEF AppendRecord
    <2>3. PICK r \in Records : r = Written
        BY <2>1
    <2>4. r.value # Absent
        <3>1. phase # "start"
            BY <1>0, <2>2 DEF IInv, PhaseOK, CallInPhase
        <3>2. r.key \in AllKeys /\ r.value \in ValuesOf(r.key)
            BY <1>0, <2>3, <3>1, WrittenTyped
        <3> QED BY <3>2, ConstantsFacts, EngineAssumption DEF ValuesOf, Data
    <2>5. /\ k # r.key => Recovered(k)' = Recovered(k)
          /\ Recovered(r.key)' = Live(r.value)
        BY <1>0, <2>1, <2>2, <2>3, <2>4, RecoveredAppended
    <2> QED BY <2>2, <2>3, <2>5
<1>3. CASE CrashInAppend
    <2>1. RecordsIn(currentSegmentIndex) \in Seq(Records)
        BY <1>0, RecordsInTyped DEF IInv, TypeOK, ProcessTyped
    <2>2. currentRecordCount = Len(RecordsIn(currentSegmentIndex))
        BY <1>0, <1>3 DEF LogInv, AtEnd, CrashInAppend, Running, FirstGone
    <2>3. SubSeq(RecordsIn(currentSegmentIndex), 1, currentRecordCount)
              = RecordsIn(currentSegmentIndex)
        BY <2>1, <2>2, SubSeqFull
    <2>4. /\ segments' = WithSegment(currentSegmentIndex,
                                     RecordsIn(currentSegmentIndex) \o <<Torn>>)
          /\ pc = "append" /\ pc' # "reset" /\ UNCHANGED sstables
        BY <1>3, <2>3 DEF CrashInAppend
    <2>5. PICK r \in Records : r = Torn
        BY DEF Records
    <2>6. k # r.key
        BY <2>5, EngineAssumption DEF Torn, Record
    <2> QED BY <1>0, <2>4, <2>5, <2>6, RecoveredAppended
<1>4. CASE FlushData \/ FlushFilter \/ FlushMetadata
    BY <1>0, <1>4, RecoveredUnderFlush
<1>5. CASE ResetRemove
    <2>1. pc = "reset"
        BY <1>5 DEF ResetRemove
    <2> QED BY <1>0, <1>5, <2>1, RecoveredUnderReset
<1>6. CASE UNCHANGED files
    BY <1>6 DEF Recovered, LogLookup, LastSegment, TableLookup, Readable, files
<1> QED BY <1>1, <1>2, <1>3, <1>4, <1>5, <1>6
    DEF Next, Step, OpenFails, Quit, Crash, Call, Deny, AppendFails, RotateFails,
        FlushFails, ResetFails, ReplayRecord, ReplayTorn, ReplayNextSegment, ReplayEnd,
        Restore, Apply, Read, files, vars

\* No other step takes a call from its append to what follows
LEMMA RecordOnly ==
    ASSUME [Next]_vars, ~AppendRecord, pc = "append"
    PROVE  pc' \notin {"rotate", "apply"}
BY DEF Next, Step, Open, OpenFails, Quit, Crash, CrashInAppend, Call, Deny,
       AppendFails, RotateFails, FlushFails, ResetFails, ReplayRecord, ReplayTorn,
       ReplayNextSegment, ReplayEnd, Restore, RotateBefore, Rotate, Apply, Read,
       FlushData, FlushFilter, FlushMetadata, ResetRemove, ResetDone, Answer, vars

\* Flushes, resets, starts, rotations and crashes keep what a restart recovers: only the
\* append of a record changes it, for its key and to its value.
THEOREM OnlyAppendsChange == Spec => OnlyAppendsChangeTheStore
<1>1. RecoveryInv /\ RecoveryInv' /\ [Next]_vars =>
          [\/ resetUndone'
           \/ UNCHANGED files
           \/ \A k \in AllKeys :
                 \/ Recovered(k)' = Recovered(k)
                 \/ pc = "reset" /\ k \in unsure
                 \/ /\ pc = "append" /\ pc' \in {"rotate", "apply"}
                    /\ k = Written.key
                    /\ Recovered(k)' = Live(Written.value)]_vars
    BY RecoveredStep
<1> QED BY <1>1, RecoveryFacts, AllInvariance, PTL DEF Spec, OnlyAppendsChangeTheStore

-----------------------------------------------------------------------------
(* The tokens that the log holds *)

\* The tokens a restart gives the bucket
RestoredByRestart ==
    IF Recovered(BucketKey) = Absent THEN TokenCapacity ELSE Recovered(BucketKey)

\* A start works on a full bucket, with nothing in doubt, until it restores the bucket
StartFresh ==
    phase = "start" /\ pc # "idle" =>
        /\ tokens = TokenCapacity
        /\ Running => unlogged = 0 /\ unsure = {}

\* A doubt about the bucket's record is over before the log can be reset: the next call
\* logs the bucket again
BucketDoubt ==
    Running /\ BucketKey \in unsure =>
        pc = "idle" \/ (phase = "allow" /\ pc \in {"append", "rotate", "apply"})

\* The log has every token taken but those whose logging failed or is still to come
TokensLogged ==
    Serving /\ ~resetUndone =>
        /\ phase = "allow" /\ pc = "append" => RestoredByRestart <= tokens + unlogged + 1
        /\ ~(phase = "allow" /\ pc = "append") =>
               /\ unlogged = 0 => RestoredByRestart = tokens
               /\ RestoredByRestart <= tokens + unlogged

TokenInv == StartFresh /\ BucketDoubt /\ TokensLogged

LEMMA InitTokenInv == Init => TokenInv
BY DEF Init, TokenInv, StartFresh, BucketDoubt, TokensLogged, Running, Serving

LEMMA StartFreshStep ==
    ASSUME RecoveryInv, TokenInv, [Next]_vars
    PROVE  StartFresh'
<1>0. /\ CallInPhase /\ ReplayInStart /\ StartFresh
    BY DEF RecoveryInv, AllInv, IInv, PhaseOK, TokenInv
<1>1. CASE Open
    BY <1>1 DEF Open, Fresh, StartFresh
<1>2. CASE Stops
    BY <1>2 DEF Stops, OpenFails, Quit, Crash, CrashInAppend, ReplayTorn, FlushFails,
                ResetFails, Down, Fresh, StartFresh, Running
<1>3. CASE pc' = "idle" \/ phase' # "start"
    BY <1>3 DEF StartFresh
<1>4. ASSUME phase = "start", pc # "idle", Running, UNCHANGED <<tokens, unlogged>>,
             unsure' \in {unsure, {}}
      PROVE  StartFresh'
    BY <1>0, <1>4 DEF StartFresh
<1>5. CASE \/ ReplayRecord \/ ReplayNextSegment \/ ReplayEnd
           \/ FlushData \/ FlushFilter \/ FlushMetadata \/ ResetRemove \/ ResetDone
    <2>1. CASE phase = "start"
        BY <1>4, <1>5, <2>1
           DEF ReplayRecord, ReplayNextSegment, ReplayEnd, FlushData, FlushFilter,
               FlushMetadata, ResetRemove, ResetDone, history, Running
    <2>2. CASE phase # "start"
        BY <1>3, <1>5, <2>2
           DEF ReplayRecord, ReplayNextSegment, ReplayEnd, FlushData, FlushFilter,
               FlushMetadata, ResetRemove, ResetDone, Proceed, Answer
    <2> QED BY <2>1, <2>2
<1>6. CASE \/ Restore \/ Call \/ Deny \/ AppendFails \/ RotateFails \/ Read
           \/ (FlushFails \/ ResetFails) /\ phase # "start"
    BY <1>3, <1>6 DEF Restore, Call, Deny, AppendFails, RotateFails, Read, FlushFails,
                      ResetFails, Answer
<1>7. CASE RotateBefore \/ AppendRecord \/ Rotate \/ Apply
    BY <1>0, <1>3, <1>7
       DEF RotateBefore, AppendRecord, Rotate, Apply, Proceed, Answer, CallInPhase
<1>8. CASE UNCHANGED vars
    BY <1>0, <1>8 DEF vars, StartFresh, Running
<1> QED BY <1>1, <1>2, <1>5, <1>6, <1>7, <1>8 DEF Next, Step, Stops

LEMMA BucketDoubtStep ==
    ASSUME RecoveryInv, TokenInv, [Next]_vars
    PROVE  BucketDoubt'
<1>0. /\ CallInPhase /\ ReplayInStart /\ StartFresh /\ BucketDoubt
      /\ phase \in {"start", "allow", "op"}
    BY DEF RecoveryInv, AllInv, IInv, TypeOK, ControlTyped, PhaseOK, TokenInv
<1>1. CASE Open
    BY <1>1 DEF Open, BucketDoubt
<1>2. CASE Stops
    BY <1>2, StopsStep DEF BucketDoubt
<1>3. CASE pc' = "idle"
    BY <1>3 DEF BucketDoubt
<1>4. ASSUME Running, unsure' \subseteq unsure, BucketKey \notin unsure'
      PROVE  BucketDoubt'
    BY <1>4 DEF BucketDoubt
<1>5. CASE \/ ReplayRecord \/ ReplayNextSegment \/ ReplayEnd \/ FlushData \/ FlushFilter
           \/ FlushMetadata \/ ResetRemove \/ ResetDone
    <2>1. Running /\ BucketKey \notin unsure /\ unsure' \subseteq unsure
        BY <1>0, <1>5
           DEF ReplayRecord, ReplayNextSegment, ReplayEnd, FlushData, FlushFilter,
               FlushMetadata, ResetRemove, ResetDone, history, Running, BucketDoubt
    <2> QED BY <1>4, <2>1
<1>6. CASE \/ Restore \/ Deny \/ AppendFails \/ RotateFails \/ Read
           \/ (FlushFails \/ ResetFails) /\ phase # "start"
    BY <1>3, <1>6 DEF Restore, Deny, AppendFails, RotateFails, Read, FlushFails,
                      ResetFails, Answer
<1>7. CASE Call
    BY <1>7 DEF Call, BucketDoubt
<1>8. CASE RotateBefore \/ AppendRecord \/ Rotate
    BY <1>0, <1>8 DEF RotateBefore, AppendRecord, Rotate, history, BucketDoubt, Running
<1>9. CASE Apply
    <2>1. phase # "start" /\ unsure' = unsure \ {Written.key} /\ Running
        BY <1>0, <1>9 DEF Apply, CallInPhase, Running
    <2>2. phase = "allow" => Written.key = BucketKey
        BY DEF Written, Record
    <2>3. phase = "op" => BucketKey \notin unsure
        BY <1>0, <1>9, <2>1 DEF Apply, BucketDoubt
    <2> QED BY <1>0, <1>4, <2>1, <2>2, <2>3
<1>10. CASE UNCHANGED vars
    BY <1>0, <1>10 DEF vars, BucketDoubt, Running
<1> QED BY <1>1, <1>2, <1>5, <1>6, <1>7, <1>8, <1>9, <1>10 DEF Next, Step, Stops

-----------------------------------------------------------------------------
(* What a restart gives the bucket *)

LEMMA RestoredTyped ==
    ASSUME RecoveryInv, ~resetUndone
    PROVE  RestoredByRestart \in 0..TokenCapacity
<1>0. FilesTyped /\ FilesBounded /\ ReadBack
    BY DEF RecoveryInv, AllInv, IInv, TypeOK
<1> DEFINE logged == LogLookup(1..LastSegment, BucketKey)
<1>1. PICK S : S = 1..LastSegment
    OBVIOUS
<1>2. S \in SUBSET DOMAIN segments
    BY <1>0, <1>1 DEF ReadBack
<1>3. Files(segments, S)
    BY <1>0, <1>2, FilesNow
<1>4. logged \in 0..TokenCapacity \cup {Absent}
    <2>1. LogLookup(S, BucketKey) = LookupIn(segments, S, BucketKey)
        BY LogLookupIs
    <2>2. CASE \A i \in S : Positions(segments[i], BucketKey) = {}
        BY <1>1, <2>1, <2>2, LookupNone
    <2>3. CASE \E i \in S : Positions(segments[i], BucketKey) # {}
        <3>1. PICK h \in S : Positions(segments[h], BucketKey) # {}
            BY <2>3
        <3>2. PICK i, p : Latest(segments, S, BucketKey, i, p)
            BY <1>3, <3>1, LatestExists
        <3>3. segments[i][p].value \in ValuesOf(BucketKey)
            BY <1>0, <1>2, <3>2, ConstantsFacts, RecordPresent DEF Latest
        <3>4. LookupIn(segments, S, BucketKey) = segments[i][p].value
            BY <1>3, <3>2, LatestLooked
        <3> QED BY <1>1, <2>1, <3>3, <3>4 DEF ValuesOf
    <2> QED BY <2>2, <2>3
<1>5. TableLookup(DOMAIN sstables, BucketKey) \in 0..TokenCapacity \cup {Absent}
    BY <1>0, ConstantsFacts, TableLookupTyped DEF ValuesOf
<1>6. Tombstone \notin 0..TokenCapacity /\ Absent # Tombstone
    BY ConstantsFacts, EngineAssumption DEF Data
<1>7. Recovered(BucketKey) \in 0..TokenCapacity \cup {Absent}
    <2> HIDE DEF logged
    <2>1. Recovered(BucketKey) = Live(IF logged # Absent THEN logged
                                      ELSE TableLookup(DOMAIN sstables, BucketKey))
        BY DEF logged, Recovered
    <2> QED BY <1>4, <1>5, <1>6, <2>1 DEF Live
<1>8. TokenCapacity \in 0..TokenCapacity
    BY ConstantsFacts
<1> QED BY <1>7, <1>8 DEF RestoredByRestart

\* The append of a call's first record is what brings the log up to the bucket
LEMMA BucketAppended ==
    ASSUME RecoveryInv, RecoveryInv', AppendRecord, ~resetUndone, ~resetUndone'
    PROVE  Recovered(BucketKey)' = IF phase = "allow" THEN tokens ELSE Recovered(BucketKey)
<1>0. /\ IInv /\ LogInv /\ pc = "append" /\ phase \in {"allow", "op"}
      /\ tokens \in 0..TokenCapacity
    BY DEF RecoveryInv, AllInv, IInv, TypeOK, ProcessTyped, ControlTyped, PhaseOK, CallInPhase,
           AppendRecord
<1>1. /\ Written \in Records
      /\ segments' = WithSegment(currentSegmentIndex,
                                 RecordsIn(currentSegmentIndex) \o <<Written>>)
      /\ pc' # "reset" /\ UNCHANGED sstables
    BY <1>0, AppendedHere DEF AppendRecord
<1>2. PICK r \in Records : r = Written
    BY <1>1
<1>3. /\ \A k \in AllKeys : k # r.key => Recovered(k)' = Recovered(k)
      /\ r.value # Absent => Recovered(r.key)' = Live(r.value)
    BY <1>0, <1>1, <1>2, RecoveredAppended
<1>4. CASE phase = "allow"
    <2>1. r.key = BucketKey /\ r.value = tokens
        BY <1>2, <1>4 DEF Written, Record
    <2>2. tokens # Absent /\ tokens # Tombstone
        BY <1>0, EngineAssumption DEF Data
    <2>3. Recovered(BucketKey)' = Live(r.value)
        BY <1>3, <2>1, <2>2
    <2> QED BY <1>4, <2>1, <2>2, <2>3 DEF Live
<1>5. CASE phase = "op"
    <2>1. call \in Calls
        BY <1>0, <1>5 DEF IInv, TypeOK, ControlTyped, PhaseOK, CallInPhase
    <2>2. r.key # BucketKey
        BY <1>2, <1>5, <2>1, CallTyped DEF Written, Record, Keys
    <2> QED BY <1>3, <1>5, <2>2, ConstantsFacts
<1> QED BY <1>0, <1>4, <1>5

LEMMA TokensLoggedStep ==
    ASSUME RecoveryInv, RecoveryInv', TokenInv, [Next]_vars
    PROVE  TokensLogged'
<1> SUFFICES ASSUME Serving', ~resetUndone'
             PROVE  TokensLogged'
    BY DEF TokensLogged
<1> DEFINE R == RestoredByRestart
<1>0. /\ ~resetUndone /\ CallInPhase /\ ReplayInStart /\ StartFresh /\ BucketDoubt
      /\ TokensLogged
      /\ tokens \in Nat /\ unlogged \in Nat /\ TokenCapacity \in Nat
      /\ FilesTyped /\ FilesBounded /\ ProcessTyped
    BY CutStays, ConstantsFacts
       DEF RecoveryInv, AllInv, IInv, TypeOK, FlagsTyped, ProcessTyped, PhaseOK, TokenInv
<1>1. R \in 0..TokenCapacity
    BY <1>0, RestoredTyped
<1>2. ASSUME Recovered(BucketKey)' = Recovered(BucketKey)
      PROVE  R' = R
    BY <1>2 DEF RestoredByRestart
<1>3. CASE AppendRecord
    <2>1. pc = "append" /\ pc' # "append" /\ Serving /\ UNCHANGED <<phase, tokens>>
          /\ unlogged' = IF phase = "allow" THEN 0 ELSE unlogged
        BY <1>0, <1>3 DEF AppendRecord, CallInPhase, Serving
    <2>2. Recovered(BucketKey)' = IF phase = "allow" THEN tokens ELSE Recovered(BucketKey)
        BY <1>0, <1>3, BucketAppended
    <2>3. CASE phase = "allow"
        <3>1. tokens # Absent
            BY <1>0, EngineAssumption DEF ProcessTyped, Data
        <3>2. R' = tokens
            BY <2>2, <2>3, <3>1 DEF RestoredByRestart
        <3> HIDE DEF R
        <3>3. R' = tokens' /\ unlogged' = 0
            BY <2>1, <2>3, <3>2
        <3>4. tokens' <= tokens' + unlogged'
            BY <1>0, <2>1, <3>3
        <3> QED BY <2>1, <3>3, <3>4 DEF R, TokensLogged
    <2>4. CASE phase # "allow"
        <3>1. R' = R
            BY <1>2, <2>2, <2>4
        <3>2. /\ unlogged = 0 => R = tokens
              /\ R <= tokens + unlogged
            BY <1>0, <2>1, <2>4 DEF TokensLogged
        <3> HIDE DEF R
        <3>3. /\ unlogged' = 0 => R' = tokens'
              /\ R' <= tokens' + unlogged'
            BY <2>1, <2>4, <3>1, <3>2
        <3> QED BY <2>1, <3>3 DEF R, TokensLogged
    <2> QED BY <2>3, <2>4
<1>4. CASE ~AppendRecord
    <2>1. R' = R
        <3>1. BucketKey \in unsure => pc # "reset"
            BY <1>0 DEF BucketDoubt, Running
        <3>2. pc = "append" => pc' \notin {"rotate", "apply"}
            BY <1>4, RecordOnly
        <3>3. Recovered(BucketKey)' = Recovered(BucketKey)
            BY <3>1, <3>2, ConstantsFacts, RecoveredStep
        <3> QED BY <1>2, <3>3
    <2>2. CASE Restore
        <3>1. /\ pc = "restore" /\ Running /\ ~replaying /\ phase = "start"
              /\ tokens = TokenCapacity /\ unlogged = 0 /\ unsure = {}
            BY <1>0, <2>2 DEF Restore, CallInPhase, ReplayInStart, StartFresh, Running
        <3>2. /\ tokens' = RestoredTokens /\ unlogged' = 0
              /\ phase' = "start" /\ pc' = "idle"
            BY <2>2, <3>1 DEF Restore, history
        <3>3. Live(Stored(BucketKey)) = Recovered(BucketKey)
            BY <1>0, <3>1, ConstantsFacts DEF RecoveryInv, InStep, InDoubt
        <3>4. Live(Stored(BucketKey)) = Stored(BucketKey)
            <4>1. Stored(BucketKey) \in 0..TokenCapacity \cup {Absent}
                BY <1>0, ConstantsFacts, StoredTyped DEF ValuesOf
            <4>2. Stored(BucketKey) # Tombstone
                BY <4>1, ConstantsFacts, EngineAssumption DEF Data
            <4> QED BY <4>2 DEF Live
        <3>5. RestoredTokens = R
            BY <3>1, <3>3, <3>4 DEF RestoredTokens, RestoredByRestart
        <3> HIDE DEF R
        <3>6. R' = tokens' /\ R' <= tokens' + unlogged'
            BY <1>1, <2>1, <3>2, <3>5
        <3> QED BY <3>2, <3>6 DEF R, TokensLogged
    <2>3. CASE Call
        <3>1. /\ Serving /\ phase = "start"
              /\ phase' = "allow" /\ pc' = "append" /\ unlogged' = unlogged
            BY <1>0, <2>3 DEF Call, Serving, CallInPhase, doubts
        <3>2. PICK a \in Available : tokens' = a - 1
            BY <2>3 DEF Call
        <3>3. a \in Nat /\ (a = tokens \/ a = TokenCapacity)
            BY <1>0, <3>2 DEF Available
        <3>4. R <= tokens + unlogged
            BY <1>0, <3>1 DEF TokensLogged
        <3> HIDE DEF R
        <3>5. R <= a + unlogged
            BY <1>0, <1>1, <3>3, <3>4
        <3>6. R' <= tokens' + unlogged' + 1
            BY <1>0, <1>1, <2>1, <3>1, <3>2, <3>3, <3>5
        <3> QED BY <3>1, <3>6 DEF R, TokensLogged
    <2>4. CASE AppendFails
        <3>1. /\ pc = "append" /\ Serving /\ phase \in {"allow", "op"}
              /\ phase' = "start" /\ pc' = "idle" /\ tokens' = tokens
              /\ unlogged' = IF phase = "allow" THEN unlogged + 1 ELSE unlogged
            BY <1>0, <2>4 DEF AppendFails, Answer, Serving, CallInPhase, RecoveryInv, AllInv,
                              IInv, TypeOK, ControlTyped
        <3>2. /\ phase = "allow" => R <= tokens + unlogged + 1
              /\ phase = "op" => /\ unlogged = 0 => R = tokens
                                 /\ R <= tokens + unlogged
            BY <1>0, <3>1 DEF TokensLogged
        <3> HIDE DEF R
        <3>3. /\ unlogged' = 0 => R' = tokens'
              /\ R' <= tokens' + unlogged'
            BY <1>0, <1>1, <2>1, <3>1, <3>2
        <3> QED BY <3>1, <3>3 DEF R, TokensLogged
    <2>5. ASSUME Serving, UNCHANGED <<tokens, unlogged>>,
                 (phase = "allow" /\ pc = "append") <=> (phase' = "allow" /\ pc' = "append")
          PROVE  TokensLogged'
        BY <1>0, <2>1, <2>5 DEF TokensLogged
    <2>6. CASE \/ Deny \/ RotateBefore \/ Rotate \/ RotateFails \/ Apply \/ Read
               \/ (FlushFails \/ ResetFails) /\ phase # "start"
        BY <1>0, <2>5, <2>6
           DEF Deny, RotateBefore, Rotate, RotateFails, Apply, Proceed, Read, FlushFails,
               ResetFails, Answer, history, doubts, Serving, CallInPhase
    <2>7. CASE \/ FlushData \/ FlushFilter \/ FlushMetadata \/ ResetRemove \/ ResetDone
        <3>1. Serving
            BY <1>0, <2>7
               DEF FlushData, FlushFilter, FlushMetadata, ResetRemove, ResetDone, Proceed,
                   Answer, Serving, CallInPhase
        <3> QED BY <1>0, <2>5, <2>7, <3>1
               DEF FlushData, FlushFilter, FlushMetadata, ResetRemove, ResetDone, Proceed,
                   Answer, history, Serving
    <2>8. CASE UNCHANGED vars
        BY <1>0, <2>5, <2>8 DEF vars, Serving
    <2>9. CASE \/ Open \/ Stops \/ ReplayRecord \/ ReplayNextSegment \/ ReplayEnd
        BY <1>0, <2>9
           DEF Open, Stops, OpenFails, Quit, Crash, CrashInAppend, ReplayTorn, FlushFails,
               ResetFails, Down, Fresh, ReplayRecord, ReplayNextSegment, ReplayEnd, Serving,
               CallInPhase
    <2> QED BY <1>4, <2>2, <2>3, <2>4, <2>6, <2>7, <2>8, <2>9 DEF Next, Step, Stops
<1> QED BY <1>3, <1>4

LEMMA TokenInvariance == Spec => [](RecoveryInv /\ TokenInv)
<1>1. Init => TokenInv
    BY InitTokenInv
<1>2. RecoveryInv /\ RecoveryInv' /\ TokenInv /\ [Next]_vars => TokenInv'
    BY StartFreshStep, BucketDoubtStep, TokensLoggedStep DEF TokenInv
<1> QED BY <1>1, <1>2, RecoveryFacts, AllInvariance, PTL DEF Spec

\* Restarting is no way round the rate limit: what a restart gives a waiting engine is what
\* it had, and at any other time at most the tokens whose taking has not been logged more.
THEOREM RestartKeepsTokens == Spec => []TokensKept
<1>1. RecoveryInv /\ TokenInv => TokensKept
    <2> SUFFICES ASSUME RecoveryInv, TokenInv, Serving, ~resetUndone
                 PROVE  IF call = NoCall /\ unlogged = 0 THEN RestoredByRestart = tokens
                        ELSE RestoredByRestart <=
                                 tokens + unlogged + IF call = NoCall THEN 0 ELSE 1
        BY DEF TokensKept, RestoredByRestart
    <2>0. /\ CallInPhase /\ TokensLogged /\ RestoredByRestart \in 0..TokenCapacity
          /\ tokens \in Nat /\ unlogged \in Nat /\ TokenCapacity \in Nat
        BY RestoredTyped, ConstantsFacts
           DEF RecoveryInv, AllInv, IInv, TypeOK, FlagsTyped, ProcessTyped, PhaseOK, TokenInv
    <2>1. call = NoCall => phase = "start"
        BY <2>0 DEF CallInPhase
    <2> QED BY <2>0, <2>1 DEF TokensLogged
<1> QED BY <1>1, TokenInvariance, PTL

\* No failure has left the log with less than it held, or with a record nobody applied
Undisturbed == ~resetUndone /\ unsure = {}

-----------------------------------------------------------------------------
(* The refinement mapping *)

Map == [k \in Keys |-> Recovered(k)]

Effective == phase = "op" /\ pc # "append"

LEMMA MapKept ==
    ASSUME RecoveryInv, RecoveryInv', Undisturbed, Undisturbed', [Next]_vars,
           ~(AppendRecord /\ phase = "op")
    PROVE  Map' = Map
<1> SUFFICES ASSUME NEW k \in Keys
             PROVE  Recovered(k)' = Recovered(k)
    BY DEF Map
<1>0. k \in AllKeys /\ k # BucketKey
    BY DEF Keys
<1>1. CASE AppendRecord
    <2>1. phase = "allow"
        BY <1>1 DEF RecoveryInv, AllInv, IInv, TypeOK, ControlTyped, PhaseOK, CallInPhase,
                    AppendRecord
    <2>2. Written.key = BucketKey
        BY <2>1 DEF Written, Record
    <2> QED BY <1>0, <2>2, RecoveredStep DEF Undisturbed
<1>2. CASE ~AppendRecord
    <2>1. pc = "append" => pc' \notin {"rotate", "apply"}
        BY <1>2, RecordOnly
    <2> QED BY <1>0, <2>1, RecoveredStep DEF Undisturbed
<1> QED BY <1>1, <1>2

\* The append of a put's or delete's record writes the map
LEMMA MapWritten ==
    ASSUME RecoveryInv, RecoveryInv', Undisturbed, Undisturbed', AppendRecord, phase = "op"
    PROVE  Map' = [Map EXCEPT ![call.key] = call.value]
<1>0. /\ IInv /\ LogInv /\ pc = "append" /\ call \in Calls /\ call.op # "get"
    BY DEF RecoveryInv, AllInv, IInv, TypeOK, ControlTyped, PhaseOK, CallInPhase, AppendRecord
<1>1. /\ Written \in Records
      /\ segments' = WithSegment(currentSegmentIndex,
                                 RecordsIn(currentSegmentIndex) \o <<Written>>)
      /\ pc' # "reset" /\ UNCHANGED sstables
    BY <1>0, AppendedHere DEF AppendRecord, Undisturbed
<1>2. PICK r \in Records : r = Written
    BY <1>1
<1>3. /\ \A k \in AllKeys : k # r.key => Recovered(k)' = Recovered(k)
      /\ r.value # Absent => Recovered(r.key)' = Live(r.value)
    BY <1>0, <1>1, <1>2, RecoveredAppended DEF Undisturbed
<1>4. /\ call.key \in Keys /\ call.key \in AllKeys
      /\ call.op = "put" => call.value \in Values
      /\ call.op = "delete" => call.value = Absent
      /\ call.op \in {"put", "delete"}
    BY <1>0, CallTyped DEF Calls, Keys
<1>5. r.key = call.key /\ r.value = IF call.op = "delete" THEN Tombstone ELSE call.value
    BY <1>2 DEF Written, Record
<1>6. r.value # Absent /\ Live(r.value) = call.value
    BY <1>4, <1>5, ConstantsFacts, EngineAssumption DEF Live, Data
<1>7. Recovered(r.key)' = call.value
    BY <1>3, <1>6
<1>8. PICK key, value : key = call.key /\ value = call.value
    OBVIOUS
<1>9. Recovered(key)' = value /\ \A k \in Keys : k # key => Recovered(k)' = Recovered(k)
    BY <1>3, <1>5, <1>7, <1>8 DEF Keys
<1>10. Map' = [Map EXCEPT ![key] = value]
    BY <1>4, <1>8, <1>9 DEF Map
<1> QED BY <1>8, <1>10

\* A get answers what the map holds
LEMMA ReadAnswers ==
    ASSUME RecoveryInv, Undisturbed, Read
    PROVE  result' = Map[call.key]
<1>0. /\ IInv /\ CacheInv /\ pc = "read" /\ Running /\ ~replaying
      /\ FilesTyped /\ FilesBounded /\ ProcessTyped
    BY DEF RecoveryInv, AllInv, IInv, TypeOK, PhaseOK, ReplayInStart, Read, Running
<1>1. call \in Calls /\ call.key \in Keys /\ call.key \in AllKeys
    BY <1>0, CallTyped DEF IInv, TypeOK, ControlTyped, PhaseOK, CallInPhase, Keys
<1>2. Live(Stored(call.key)) = Recovered(call.key)
    BY <1>0, <1>1 DEF RecoveryInv, InStep, InDoubt, Undisturbed
<1>3. CASE Cached(cache, call.key)
    <2>1. CachedValue(cache, call.key) = Stored(call.key)
        BY <1>0, <1>1, <1>3, CachedIsStored DEF CacheCoherent
    <2>2. CachedValue(cache, call.key) \in Values
        BY <1>0, <1>3, CachedValueTyped DEF ProcessTyped, CacheTyped
    <2>3. Live(Stored(call.key)) = Stored(call.key)
        BY <2>1, <2>2, EngineAssumption DEF Live, Data
    <2> QED BY <1>1, <1>2, <1>3, <2>1, <2>3 DEF Read, Answer, Map
<1>4. CASE ~Cached(cache, call.key)
    BY <1>1, <1>2, <1>4 DEF Read, Answer, Map
<1> QED BY <1>3, <1>4

-----------------------------------------------------------------------------
(* The steps of the engine are steps of the map *)

LEMMA InitMap == Init /\ RecoveryInv => KV!Init
<1> SUFFICES ASSUME Init, RecoveryInv
             PROVE  KV!Init
    OBVIOUS
<1>1. /\ DOMAIN segments = {} /\ DOMAIN sstables = {}
      /\ call = NoCall /\ phase = "start" /\ result = "ok"
    BY DEF Init
<1>2. ASSUME NEW k \in Keys
      PROVE  Recovered(k) = Absent
    <2> DEFINE R == 1..LastSegment
    <2>1. R = {}
        BY <1>1 DEF RecoveryInv, ReadBack, Init
    <2> HIDE DEF R
    <2>2. LogLookup(R, k) = Absent
        BY <2>1 DEF LogLookup
    <2>3. TableLookup(DOMAIN sstables, k) = Absent
        BY <1>1 DEF TableLookup
    <2> QED BY <2>2, <2>3, ConstantsFacts DEF R, Recovered, Live
<1>3. (~resetUndone /\ unsure = {}) = TRUE
    BY DEF Init
<1> QED BY <1>1, <1>2, <1>3 DEF KV!Init

LEMMA PromiseKept ==
    ASSUME RecoveryInv, RecoveryInv', Undisturbed, Undisturbed', [Next]_vars
    PROVE  [KV!Promised]_(KV!kvVars)
<1>0. /\ CallInPhase /\ ReplayInStart
      /\ phase \in {"start", "allow", "op"}
      /\ call \in Calls \cup {NoCall}
    BY DEF RecoveryInv, AllInv, IInv, TypeOK, ControlTyped, PhaseOK
<1>1. CASE AppendRecord /\ phase = "op"
    <2>1. /\ call # NoCall /\ call.op # "get" /\ ~Effective /\ Effective'
          /\ UNCHANGED <<call, result>>
        BY <1>0, <1>1 DEF AppendRecord, CallInPhase, Effective
    <2>2. Map' = [Map EXCEPT ![call.key] = call.value]
        BY <1>1, MapWritten
    <2>3. KV!Effect
        BY <2>1, <2>2 DEF KV!Effect, Map, Effective
    <2> QED BY <2>3 DEF KV!Promised
<1>2. CASE ~(AppendRecord /\ phase = "op")
    <2>0. Map' = Map
        BY <1>2, MapKept
    <2>1. ASSUME UNCHANGED <<call, result>>, Effective' = Effective
          PROVE  UNCHANGED KV!kvVars
        <3>1. Undisturbed' = Undisturbed
            BY DEF Undisturbed
        <3> QED BY <2>0, <2>1, <3>1 DEF KV!kvVars, Map, Effective, Undisturbed
    <2>2. ASSUME call' = NoCall, phase' = "start", UNCHANGED result
          PROVE  KV!Stop
        BY <2>0, <2>2 DEF KV!Stop, Map
    <2>3. ASSUME call # NoCall, Answer("error")
          PROVE  KV!Fail
        BY <2>0, <2>3 DEF KV!Fail, Map, Answer
    <2>4. ASSUME call # NoCall, call.op # "get", Effective, Answer("ok")
          PROVE  KV!AnswerWrite
        BY <2>0, <2>4 DEF KV!AnswerWrite, Map, Effective, Answer
    <2>5. CASE Open \/ Stops
        BY <2>2, <2>5 DEF Open, Stops, OpenFails, Quit, Crash, CrashInAppend, ReplayTorn,
                          FlushFails, ResetFails, Down, Fresh, KV!Promised
    <2>6. CASE Call
        <3>1. call = NoCall /\ call' \in Calls /\ ~Effective /\ ~Effective'
            BY <1>0, <2>6 DEF Call, CallInPhase, Effective
        <3>2. KV!Invoke
            BY <2>0, <2>6, <3>1 DEF Call, Calls, KV!Invoke, KV!Calls, Map, Effective
        <3> QED BY <3>2 DEF KV!Promised
    <2>7. CASE Deny
        <3>1. call = NoCall /\ UNCHANGED <<call, phase, pc>> /\ result' = "limited"
            BY <1>0, <2>7 DEF Deny, CallInPhase
        <3>2. KV!Refuse
            BY <2>0, <3>1 DEF KV!Refuse, Map
        <3> QED BY <3>2 DEF KV!Promised
    <2>8. CASE \/ AppendFails \/ RotateFails
               \/ (FlushFails \/ ResetFails) /\ phase # "start"
        <3>1. call # NoCall /\ Answer("error")
            BY <1>0, <2>8 DEF AppendFails, RotateFails, FlushFails, ResetFails, CallInPhase
        <3> QED BY <2>3, <3>1 DEF KV!Promised
    <2>9. CASE \/ ReplayRecord \/ ReplayNextSegment \/ ReplayEnd \/ Restore \/ RotateBefore
               \/ AppendRecord \/ Rotate \/ FlushData \/ FlushFilter \/ FlushMetadata
               \/ ResetRemove
        <3>1. UNCHANGED <<call, result, phase>>
            BY <2>9
               DEF ReplayRecord, ReplayNextSegment, ReplayEnd, Restore, RotateBefore,
                   AppendRecord, Rotate, FlushData, FlushFilter, FlushMetadata, ResetRemove
        <3>2. phase = "op" => (pc' = "append" <=> pc = "append")
            BY <1>0, <1>2, <2>9
               DEF CallInPhase, ReplayInStart, ReplayRecord, ReplayNextSegment, ReplayEnd,
                   Restore, RotateBefore, AppendRecord, Rotate, FlushData, FlushFilter,
                   FlushMetadata, ResetRemove
        <3> QED BY <2>1, <3>1, <3>2 DEF Effective
    <2>10. ASSUME Proceed, pc \in {"apply", "reset"}
           PROVE  [KV!Promised]_(KV!kvVars)
        <3>1. CASE phase = "op"
            <4>1. call # NoCall /\ call.op # "get" /\ Effective /\ Answer("ok")
                BY <1>0, <2>10, <3>1 DEF Proceed, CallInPhase, Effective
            <4> QED BY <2>4, <4>1 DEF KV!Promised
        <3>2. CASE phase # "op"
            <4>1. UNCHANGED <<call, result>> /\ ~Effective /\ ~Effective'
                BY <2>10, <3>2 DEF Proceed, Effective
            <4> QED BY <2>1, <4>1 DEF Effective
        <3> QED BY <3>1, <3>2
    <2>11. CASE Apply
        <3>1. CASE Proceed
            BY <2>10, <2>11, <3>1 DEF Apply
        <3>2. CASE pc' = "flush" /\ UNCHANGED <<phase, call, result>>
            BY <2>1, <2>11, <3>2 DEF Apply, Effective
        <3> QED BY <2>11, <3>1, <3>2 DEF Apply
    <2>12. CASE ResetDone
        BY <2>10, <2>12 DEF ResetDone
    <2>13. CASE Read
        <3>1. /\ call # NoCall /\ call.op = "get" /\ phase = "allow"
              /\ call' = NoCall /\ phase' = "start"
            BY <1>0, <2>13 DEF Read, Answer, CallInPhase
        <3>2. result' = Map[call.key]
            BY <2>13, ReadAnswers
        <3>3. KV!AnswerGet
            BY <2>0, <3>1, <3>2 DEF KV!AnswerGet, Map
        <3> QED BY <3>3 DEF KV!Promised
    <2>14. CASE UNCHANGED vars
        BY <2>1, <2>14 DEF vars, Effective
    <2> QED BY <2>5, <2>6, <2>7, <2>8, <2>9, <2>11, <2>12, <2>13, <2>14 DEF Next, Step, Stops
<1> QED BY <1>1, <1>2

\* Where the map is not intact, nothing is promised
LEMMA MapStep ==
    ASSUME RecoveryInv, RecoveryInv', [Next]_vars
    PROVE  [KV!Next]_(KV!kvVars)
<1>1. CASE Undisturbed /\ Undisturbed'
    BY <1>1, PromiseKept DEF KV!Next
<1>2. CASE ~(Undisturbed /\ Undisturbed')
    BY <1>2 DEF KV!Next, Undisturbed
<1> QED BY <1>1, <1>2

\* The engine implements the map of KVStore, crashes, restarts and failed writes included:
\* its promise holds for all steps but those where a Reset was cut in the middle, stale
\* blocks brought back what it removed, or a segment is missing after its last record.
THEOREM EngineIsAMap == Spec => KVStoreImplemented
<1>1. Init /\ RecoveryInv => KV!Init
    BY InitMap
<1>2. RecoveryInv /\ RecoveryInv' /\ [Next]_vars => [KV!Next]_(KV!kvVars)
    BY MapStep
<1> QED BY <1>1, <1>2, RecoveryFacts, AllInvariance, PTL DEF Spec, KVStoreImplemented, KV!Spec
==============================================================================
