------------------------------- MODULE Engine -------------------------------
(***************************************************************************)
(* The engine (internal/engine) with the parts a crash interleaves with:   *)
(* the write-ahead log as segment files, the memtables, the record cache,  *)
(* the token bucket whose state is itself a logged record, the flush into  *)
(* an SSTable directory and the reset of the log that follows it, and the  *)
(* replay at start.                                                        *)
(*                                                                         *)
(* The engine serves one call at a time (cmd/kvengine), so the only        *)
(* adversary is the end of the process.  An action is one step between two *)
(* writes to the file system; the end may come between any two of them and *)
(* loses every variable but the two that stand for files.                  *)
(*                                                                         *)
(* Sizes in bytes are left out: whether a record fills a segment before    *)
(* the record limit does is a free choice when EarlyRotation holds.        *)
(***************************************************************************)
EXTENDS Memtables, Lru

CONSTANTS
    Values,
    BucketKey,           \* tokenBucketStateKey, reserved: no caller can use it
    NoCall,
    CacheCapacity,       \* cache.capacity
    RecordsPerSegment,   \* wal.recordsPerSegment
    EarlyRotation,       \* segments may fill by bytes before they do by records
    TokenCapacity,       \* tokenBucket.capacity
    MaxCalls,            \* bound: calls made in one behaviour
    MaxFaults,           \* bound: crashes and failed writes in one behaviour
    MaxOldRecords,       \* bound: records that stale blocks bring back behind a new one
    MaxTables            \* bound: tables beyond which a failed start is not tried again

Keys == AllKeys \ {BucketKey}

\* What a record can carry: a caller's value, or the tokens left in the bucket
Data == Values \cup 0..TokenCapacity

ASSUME EngineAssumption ==
    /\ BucketKey \in AllKeys
    /\ Absent \notin AllKeys \cup Data
    /\ Tombstone \notin Data
    /\ NoCall \notin [op : {"put"}, key : Keys, value : Values]
                        \cup [op : {"get", "delete"}, key : Keys, value : {Absent}]
    /\ CacheCapacity \in Nat
    /\ RecordsPerSegment \in Nat \ {0}
    /\ EarlyRotation \in BOOLEAN
    /\ TokenCapacity \in Nat \ {0}
    /\ MaxCalls \in Nat
    /\ MaxFaults \in Nat
    /\ MaxOldRecords \in Nat
    /\ MaxTables \in Nat

VARIABLES
    \* files
    segments,              \* index of a segment file -> the records read from it
    sstables,              \* id of a table directory -> its entries, and how much is written
    \* wal.WAL
    currentSegmentIndex,
    currentRecordCount,
    \* block.Manager
    stale,                 \* removed segments of which the block cache may hold blocks
    \* engine.Engine
    memtables,
    cache,
    tokens,                \* the bucket's tokens
    tables,                \* ids of the tables a read consults
    nextTableID,
    replaying,
    replayFlush,
    \* control
    cursor,                \* where the replay stands in the log
    pc,                    \* the next step of the running process
    phase,                 \* "allow" or "op": the part of a call the step serves; else "start"
    call,                  \* the call being served
    result,                \* the last answer
    \* bounds and history
    calls, faults,
    resetUndone,           \* records that a Reset removed may be back: it was cut between the
                           \* first and the last segment, or stale blocks brought them back
    unlogged,              \* tokens taken since the bucket's state was last logged
    unsure                 \* keys of records that are logged though their call failed

files == <<segments, sstables>>
walVars == <<currentSegmentIndex, currentRecordCount, stale>>
tableVars == <<tables, nextTableID>>
startVars == <<replaying, replayFlush, cursor>>
doubts == <<unlogged, unsure>>
history == <<calls, faults, resetUndone, unlogged, unsure>>
vars == <<segments, sstables, currentSegmentIndex, currentRecordCount, stale, memtables, cache,
          tokens, tables, nextTableID, replaying, replayFlush, cursor, pc, phase, call,
          result, calls, faults, resetUndone, unlogged, unsure>>

Calls ==
    [op : {"put"}, key : Keys, value : Values]
        \cup [op : {"get", "delete"}, key : Keys, value : {Absent}]

-----------------------------------------------------------------------------
(* The log on disk *)

Record(k, v) == [key |-> k, value |-> v]

\* What a crash inside Append leaves: a frame whose record cannot be decoded
Torn == Record(Absent, Absent)

\* The values a key can carry: callers cannot touch the bucket's key
ValuesOf(k) == IF k = BucketKey THEN 0..TokenCapacity ELSE Values \cup {Tombstone}

Records ==
    {r \in [key : AllKeys, value : Data \cup {Tombstone}] : r.value \in ValuesOf(r.key)}
        \cup {Torn}

\* findLastSegmentIndex: the files are counted from 1 up to the first gap
LastSegment ==
    CHOOSE n \in {0} \cup DOMAIN segments :
        1..n \subseteq DOMAIN segments /\ n + 1 \notin DOMAIN segments

\* A file that is missing holds no records
RecordsIn(i) == IF i \in DOMAIN segments THEN segments[i] ELSE <<>>

\* ensureSegmentSize creates the missing files and keeps the others
WithSegments(indices) == [i \in DOMAIN segments \cup indices |-> RecordsIn(i)]

\* Writing to a missing file creates it
WithSegment(i, records) ==
    [j \in DOMAIN segments \cup {i} |-> IF j = i THEN records ELSE segments[j]]

\* A record written as the p-th of a segment replaces what the file held there.
\* A file left by an interrupted Reset may hold more: what is read after the new
\* record is then nothing, or garbage, or the old records from the next one on.
Overwritten(old, p, r) ==
    {SubSeq(old, 1, p - 1) \o <<r>> \o rest :
        rest \in IF Len(old) < p THEN {<<>>}
                 ELSE {<<>>, <<Torn>>, SubSeq(old, p + 1, Len(old))}}

\* isSegmentFull, for a segment that holds n records
SegmentFull(n) ==
    IF n >= RecordsPerSegment THEN {TRUE}
    ELSE IF EarlyRotation /\ n > 0 THEN BOOLEAN
    ELSE {FALSE}

\* The value a replay of the segments in S leaves for a key
LogLookup(S, k) ==
    LET At(i) == {p \in DOMAIN segments[i] : segments[i][p].key = k}
        holding == {i \in S : At(i) # {}}
    IN  IF holding = {} THEN Absent
        ELSE segments[Max(holding)][Max(At(Max(holding)))].value

-----------------------------------------------------------------------------
(* The tables on disk *)

\* Lookup opens filter.bin before any other file, so a table answers from the
\* moment its filter is written; metadata.bin is not read by a lookup.
Readable(id) == sstables[id].stage # "data"

\* get and getInternal scan the tables from the newest to the oldest
TableLookup(ids, k) ==
    LET holding == {id \in ids : Readable(id) /\ sstables[id].entries[k] # Absent}
    IN  IF holding = {} THEN Absent ELSE sstables[Max(holding)].entries[k]

WithTable(id, t) ==
    [i \in DOMAIN sstables \cup {id} |-> IF i = id THEN t ELSE sstables[i]]

\* Memtables shadow tables
Stored(k) ==
    IF MemLookup(memtables, k) # Absent THEN MemLookup(memtables, k)
    ELSE TableLookup(tables, k)

Live(v) == IF v = Tombstone THEN Absent ELSE v

-----------------------------------------------------------------------------
(* Start and stop of the process *)

\* What New makes anew and the end of the process loses
Fresh ==
    /\ stale' = {}
    /\ memtables' = NoMemtables
    /\ cache' = <<>>
    /\ tokens' = TokenCapacity
    /\ replayFlush' = FALSE
    /\ cursor' = [seg |-> 1, pos |-> 1]
    /\ phase' = "start"
    /\ call' = NoCall

Down ==
    /\ Fresh
    /\ currentSegmentIndex' = 1
    /\ currentRecordCount' = 0
    /\ tables' = {}
    /\ nextTableID' = 1
    /\ replaying' = FALSE

Init ==
    /\ segments = [i \in {} |-> <<>>]
    /\ sstables = [id \in {} |-> <<>>]
    /\ currentSegmentIndex = 1
    /\ currentRecordCount = 0
    /\ stale = {}
    /\ memtables = NoMemtables
    /\ cache = <<>>
    /\ tokens = TokenCapacity
    /\ tables = {}
    /\ nextTableID = 1
    /\ replaying = FALSE
    /\ replayFlush = FALSE
    /\ cursor = [seg |-> 1, pos |-> 1]
    /\ pc = "down"
    /\ phase = "start"
    /\ call = NoCall
    /\ result = "ok"
    /\ calls = 0
    /\ faults = 0
    /\ resetUndone = FALSE
    /\ unlogged = 0
    /\ unsure = {}

\* A record that passes the length and checksum tests of DeserializeRecord
DecodableUnchecked(r) == TRUE
Decodable(r) == r # Torn

TornIn(i) == \E p \in DOMAIN segments[i] : ~Decodable(segments[i][p])

\* scanSegmentState counts the records of the last segment
ScannedNone(last) == 0
Scanned(last) == IF last = 0 THEN 0 ELSE Len(segments[last])

\* loadSSTables: one more than the largest id, whatever its directory holds
NextIDReused(ids) == Max({1} \cup ids)
NextID(ids) == Max({0} \cup ids) + 1

\* New: open the log and load the table directories; then Start begins to replay.
\* A start that fails in Replay may have flushed a table, and so may the next: there
\* is no end to that, hence the bound.
Open ==
    /\ pc \in {"down", "failed"}
    /\ pc = "failed" => NextID(DOMAIN sstables) <= MaxTables
    /\ LET last == LastSegment
           count == Scanned(last)
       IN  /\ last # 0 => ~TornIn(last)
           /\ \E full \in SegmentFull(count) :
                 /\ currentSegmentIndex' = IF last = 0 \/ full THEN last + 1 ELSE last
                 /\ currentRecordCount' = IF full THEN 0 ELSE count
    /\ segments' = WithSegments(1..currentSegmentIndex')
    /\ tables' = DOMAIN sstables
    /\ nextTableID' = NextID(DOMAIN sstables)
    /\ Fresh
    /\ replaying' = TRUE
    /\ pc' = "replay"
    /\ unlogged' = 0
    /\ unsure' = {}
    /\ UNCHANGED <<sstables, result, calls, faults, resetUndone>>

\* The scan meets a record it cannot decode: New fails and the process exits
OpenFails ==
    /\ pc \in {"down", "failed"}
    /\ LastSegment # 0
    /\ TornIn(LastSegment)
    /\ Down
    /\ pc' = "failed"
    /\ UNCHANGED <<files, result, history>>

\* The user quits between two calls
Quit ==
    /\ pc = "idle"
    /\ Down
    /\ pc' = "down"
    /\ UNCHANGED <<files, result, history>>

\* Segment 1 is gone and another is not
Gap == 1 \notin DOMAIN segments /\ DOMAIN segments # {}

\* The process ends between two writes of a call or of the start
Crash ==
    /\ pc \notin {"down", "failed", "idle"}
    /\ faults < MaxFaults
    /\ faults' = faults + 1
    /\ resetUndone' = (resetUndone \/ (pc = "reset" /\ Gap))
    /\ Down
    /\ pc' = "down"
    /\ UNCHANGED <<files, result, calls, doubts>>

\* The process ends after the first of the writes of Append and before the last
CrashInAppend ==
    /\ pc = "append"
    /\ faults < MaxFaults
    /\ faults' = faults + 1
    /\ segments' =
          WithSegment(currentSegmentIndex,
                      SubSeq(RecordsIn(currentSegmentIndex), 1, currentRecordCount) \o <<Torn>>)
    /\ Down
    /\ pc' = "down"
    /\ UNCHANGED <<sstables, result, calls, resetUndone, doubts>>

-----------------------------------------------------------------------------
(* Start: replay, and the flush and reset that may follow it *)

\* Replay reads the segments 1..currentSegmentIndex that exist
AtSegment == cursor.seg <= currentSegmentIndex

AtRecord ==
    /\ AtSegment
    /\ cursor.pos <= Len(RecordsIn(cursor.seg))

ReplayRecord ==
    /\ pc = "replay"
    /\ AtRecord
    /\ LET r == segments[cursor.seg][cursor.pos]
           updated == Update(memtables, r.key, r.value)
       IN  /\ Decodable(r)
           /\ memtables' = Rolled(updated)
           /\ pc' = IF NeedsFlush(updated) THEN "flush" ELSE "replay"
    /\ cursor' = [seg |-> cursor.seg, pos |-> cursor.pos + 1]
    /\ UNCHANGED <<files, walVars, tableVars, replaying, replayFlush, cache, tokens,
                   phase, call, result, history>>

\* Replay returns the error of the reader; Start and the process end
ReplayTorn ==
    /\ pc = "replay"
    /\ AtRecord
    /\ ~Decodable(segments[cursor.seg][cursor.pos])
    /\ Down
    /\ pc' = "failed"
    /\ UNCHANGED <<files, result, history>>

NextSegmentForgotten == cursor' = [seg |-> cursor.seg, pos |-> 1]
NextSegment == cursor' = [seg |-> cursor.seg + 1, pos |-> 1]

ReplayNextSegment ==
    /\ pc = "replay"
    /\ AtSegment
    /\ ~AtRecord
    /\ NextSegment
    /\ UNCHANGED <<files, walVars, tableVars, replaying, replayFlush, memtables, cache,
                   tokens, pc, phase, call, result, history>>

HasEntries == \E k \in AllKeys : MemLookup(memtables, k) # Absent

ReplayGoesOn == replaying' = replaying
ReplayOver == replaying' = FALSE

ReplayEnd ==
    /\ pc = "replay"
    /\ ~AtSegment
    /\ ReplayOver
    /\ pc' = IF ~replayFlush THEN "restore"
             ELSE IF HasEntries THEN "flush" ELSE "reset"
    /\ UNCHANGED <<files, walVars, tableVars, replayFlush, cursor, memtables, cache,
                   tokens, phase, call, result, history>>

RestoredNone == tokens
RestoredTokens ==
    IF Live(Stored(BucketKey)) = Absent THEN tokens ELSE Stored(BucketKey)

\* restoreTokenBucketState, the last step of Start.  Keys of the bucket are never
\* deleted; the time of the last refill is left out, see Call.
Restore ==
    /\ pc = "restore"
    /\ tokens' = RestoredTokens
    /\ replayFlush' = FALSE
    /\ cursor' = [seg |-> 1, pos |-> 1]
    /\ pc' = "idle"
    /\ UNCHANGED <<files, walVars, tableVars, replaying, memtables, cache,
                   phase, call, result, history>>

-----------------------------------------------------------------------------
(* Calls.  A call first takes a token and logs the bucket's state ("allow"),   *)
(* then does its own work ("op"): both append a record and update a memtable.  *)

AvailableUnchecked == {tokens, TokenCapacity}
Available == {tokens, TokenCapacity} \ {0}

\* Allow grants a token.  The bucket is full again when the refill interval has
\* passed; time is left out, so that may be the case at any call.
Call ==
    /\ pc = "idle"
    /\ calls < MaxCalls
    /\ calls' = calls + 1
    /\ call' \in Calls
    /\ \E available \in Available : tokens' = available - 1
    /\ phase' = "allow"
    /\ pc' = "append"
    /\ UNCHANGED <<files, walVars, tableVars, startVars, memtables, cache, result,
                   faults, resetUndone, doubts>>

\* Allow denies: ErrRateLimited, before anything is logged
Deny ==
    /\ pc = "idle"
    /\ tokens = 0
    /\ result' = "limited"
    /\ UNCHANGED <<files, walVars, tableVars, startVars, memtables, cache, tokens,
                   pc, phase, call, history>>

\* The record the running phase logs and then applies to the memtables
Written ==
    IF phase = "allow" THEN Record(BucketKey, tokens)
    ELSE Record(call.key, IF call.op = "delete" THEN Tombstone ELSE call.value)

RotatedKeepsCount ==
    /\ currentSegmentIndex' = currentSegmentIndex + 1
    /\ currentRecordCount' = currentRecordCount
    /\ segments' = WithSegments({currentSegmentIndex'})
    /\ stale' = stale \ {currentSegmentIndex'}

\* rotateSegment.  Sizing a file makes the block manager forget the blocks of its name
Rotated ==
    /\ currentSegmentIndex' = currentSegmentIndex + 1
    /\ currentRecordCount' = 0
    /\ segments' = WithSegments({currentSegmentIndex'})
    /\ stale' = stale \ {currentSegmentIndex'}

\* Append: rotate first when the record no longer fits the segment's bytes
RotateBefore ==
    /\ pc = "append"
    /\ EarlyRotation
    /\ currentRecordCount > 0
    /\ Rotated
    /\ UNCHANGED <<sstables, tableVars, startVars, memtables, cache, tokens,
                   pc, phase, call, result, history>>

\* The frames of a record, in a segment whose cached blocks are what the file holds
Framed ==
    /\ \E written \in Overwritten(RecordsIn(currentSegmentIndex),
                                  currentRecordCount + 1, Written) :
          segments' = WithSegment(currentSegmentIndex, written)
    /\ UNCHANGED resetUndone

\* The frames in a segment that could not be created again: a block is written with the
\* rest of what it held when the file was removed
FramedAmongOld ==
    /\ currentSegmentIndex \in stale
    /\ \E old \in UNION {[1..n -> Records] : n \in 1..MaxOldRecords} :
          segments' = WithSegment(currentSegmentIndex,
                                  SubSeq(RecordsIn(currentSegmentIndex), 1, currentRecordCount)
                                      \o <<Written>> \o old)
    /\ resetUndone' = TRUE

\* Append: write the frames, count the record
AppendRecord ==
    /\ pc = "append"
    /\ Framed \/ FramedAmongOld
    /\ currentRecordCount' = currentRecordCount + 1
    /\ \E full \in SegmentFull(currentRecordCount') :
          pc' = IF full THEN "rotate" ELSE "apply"
    /\ unlogged' = IF phase = "allow" THEN 0 ELSE unlogged
    /\ UNCHANGED <<sstables, currentSegmentIndex, stale, tableVars, startVars, memtables,
                   cache, tokens, phase, call, result, calls, faults, unsure>>

\* Append: rotate a segment that is now full
Rotate ==
    /\ pc = "rotate"
    /\ Rotated
    /\ pc' = "apply"
    /\ UNCHANGED <<sstables, tableVars, startVars, memtables, cache, tokens,
                   phase, call, result, history>>

CacheWrittenPuts ==
    IF phase = "allow" \/ call.op = "delete" THEN cache
    ELSE CachePut(cache, CacheCapacity, call.key, call.value)

\* What a call does to the record cache once its record is in a memtable
CacheWritten ==
    IF phase = "allow" THEN cache
    ELSE IF call.op = "delete" THEN CacheDelete(cache, call.key)
    ELSE CachePut(cache, CacheCapacity, call.key, call.value)

Answer(r) ==
    /\ result' = r
    /\ call' = NoCall
    /\ phase' = "start"
    /\ pc' = "idle"

\* Append fails before it has written a frame: nothing is logged.  When it fails to create
\* the segment it rotates to, it stands at a missing file
AppendFails ==
    /\ pc = "append"
    /\ faults < MaxFaults
    /\ faults' = faults + 1
    /\ \/ UNCHANGED walVars
       \/ /\ EarlyRotation
          /\ currentRecordCount > 0
          /\ currentSegmentIndex' = currentSegmentIndex + 1
          /\ currentRecordCount' = 0
          /\ UNCHANGED stale
    /\ unlogged' = IF phase = "allow" THEN unlogged + 1 ELSE unlogged
    /\ Answer("error")
    /\ UNCHANGED <<files, tableVars, startVars, memtables, cache, tokens, calls, resetUndone,
                   unsure>>

\* Append fails to create the next segment when the record is written: the call ends, and
\* neither memtable nor cache hears of the record
RotateFails ==
    /\ pc = "rotate"
    /\ faults < MaxFaults
    /\ faults' = faults + 1
    /\ currentSegmentIndex' = currentSegmentIndex + 1
    /\ currentRecordCount' = 0
    /\ unsure' = unsure \cup {Written.key}
    /\ Answer("error")
    /\ UNCHANGED <<files, stale, tableVars, startVars, memtables, cache, tokens, calls,
                   resetUndone, unlogged>>

\* What follows when a phase has applied its record and flushed if it had to
Proceed ==
    \/ /\ phase = "start"
       /\ pc' = "restore"
       /\ UNCHANGED <<phase, call, result>>
    \/ /\ phase = "allow"
       /\ call.op = "get"
       /\ pc' = "read"
       /\ UNCHANGED <<phase, call, result>>
    \/ /\ phase = "allow"
       /\ call.op # "get"
       /\ phase' = "op"
       /\ pc' = "append"
       /\ UNCHANGED <<call, result>>
    \/ /\ phase = "op"
       /\ Answer("ok")

Apply ==
    /\ pc = "apply"
    /\ LET updated == Update(memtables, Written.key, Written.value)
       IN  /\ memtables' = Rolled(updated)
           /\ \/ /\ NeedsFlush(updated)
                 /\ pc' = "flush"
                 /\ UNCHANGED <<phase, call, result>>
              \/ ~NeedsFlush(updated) /\ Proceed
    /\ cache' = CacheWritten
    /\ unsure' = unsure \ {Written.key}
    /\ UNCHANGED <<files, walVars, tableVars, startVars, tokens, calls, faults, resetUndone,
                   unlogged>>

\* get: the cache, then the memtables, then the tables; what was found is cached
Read ==
    /\ pc = "read"
    /\ \/ /\ Cached(cache, call.key)
          /\ cache' = CacheGet(cache, call.key)
          /\ Answer(CachedValue(cache, call.key))
       \/ /\ ~Cached(cache, call.key)
          /\ cache' = IF Live(Stored(call.key)) = Absent THEN cache
                      ELSE CachePut(cache, CacheCapacity, call.key, Stored(call.key))
          /\ Answer(Live(Stored(call.key)))
    /\ UNCHANGED <<files, walVars, tableVars, startVars, memtables, tokens, history>>

-----------------------------------------------------------------------------
(* flushMemtables: the files of a table, then the log's Reset *)

\* What lookups may find while the files of one attempt replace those of another
Mixed(old, new) ==
    {f \in [AllKeys -> {old[k] : k \in AllKeys} \cup {new[k] : k \in AllKeys} \cup {Absent}] :
        \A k \in AllKeys : f[k] \in {old[k], new[k], Absent}}

\* data.bin, index.bin and summary.bin.  When an earlier attempt at this table got
\* as far as its filter, the filter now stands beside files that are being replaced,
\* and what a lookup finds for a key is what either attempt wrote, or nothing.
FlushData ==
    /\ pc = "flush"
    /\ \E t \in IF nextTableID \in DOMAIN sstables /\ Readable(nextTableID)
                THEN [entries : Mixed(sstables[nextTableID].entries, Entries(memtables)),
                      stage : {"filter"}]
                ELSE [entries : {Entries(memtables)}, stage : {"data"}] :
          sstables' = WithTable(nextTableID, t)
    /\ pc' = "filter"
    /\ UNCHANGED <<segments, walVars, tableVars, startVars, memtables, cache, tokens,
                   phase, call, result, history>>

\* filter.bin: from now on a process that starts reads the table
FlushFilter ==
    /\ pc = "filter"
    /\ sstables' = WithTable(nextTableID, [entries |-> Entries(memtables), stage |-> "filter"])
    /\ pc' = "metadata"
    /\ UNCHANGED <<segments, walVars, tableVars, startVars, memtables, cache, tokens,
                   phase, call, result, history>>

\* metadata.bin, after which the table serves reads and the memtables are cleared
FlushMetadata ==
    /\ pc = "metadata"
    /\ sstables' = WithTable(nextTableID,
                              [entries |-> sstables[nextTableID].entries, stage |-> "complete"])
    /\ tables' = tables \cup {nextTableID}
    /\ nextTableID' = nextTableID + 1
    /\ memtables' = NoMemtables
    /\ replayFlush' = (replaying \/ replayFlush)
    /\ pc' = IF replaying THEN "replay" ELSE "reset"
    /\ UNCHANGED <<segments, walVars, replaying, cursor, cache, tokens,
                   phase, call, result, history>>

\* A file of the table cannot be written.  The memtables stay as they are and the
\* next record that finds them full tries again, with the same table directory;
\* during Start the error ends the process.
FlushFails ==
    /\ pc \in {"flush", "filter", "metadata"}
    /\ faults < MaxFaults
    /\ faults' = faults + 1
    /\ \/ /\ phase = "start"
          /\ Down
          /\ pc' = "failed"
          /\ UNCHANGED result
       \/ /\ phase # "start"
          /\ Answer("error")
          /\ UNCHANGED <<walVars, tableVars, startVars, memtables, cache, tokens>>
    /\ UNCHANGED <<files, calls, resetUndone, doubts>>

\* Reset removes the segments in the order of their indices ...
NextRemovedFromZero(indices) == Min(indices) - 1
NextRemoved(indices) == Min(indices)

ResetRemove ==
    /\ pc = "reset"
    /\ LET left == DOMAIN segments \cap 1..currentSegmentIndex
       IN  /\ left # {}
           /\ segments' = [i \in DOMAIN segments \ {NextRemoved(left)} |-> segments[i]]
    /\ stale' = stale \cup (DOMAIN segments \ DOMAIN segments')
    /\ UNCHANGED <<sstables, currentSegmentIndex, currentRecordCount, tableVars, startVars,
                   memtables, cache, tokens, pc, phase, call, result, history>>

\* ... and then starts again with an empty first one
ResetDone ==
    /\ pc = "reset"
    /\ DOMAIN segments \cap 1..currentSegmentIndex = {}
    /\ currentSegmentIndex' = 1
    /\ currentRecordCount' = 0
    /\ segments' = WithSegments({1})
    /\ stale' = stale \ {1}
    /\ Proceed
    /\ unsure' = {}
    /\ UNCHANGED <<sstables, tableVars, startVars, memtables, cache, tokens, calls, faults,
                   resetUndone, unlogged>>

\* A segment cannot be removed, or the first one not created again: the call or the start
\* ends with the error, and a call leaves the index where it was, gap or not
ResetFails ==
    /\ pc = "reset"
    /\ faults < MaxFaults
    /\ faults' = faults + 1
    /\ resetUndone' = (resetUndone \/ Gap)
    /\ \/ /\ phase = "start"
          /\ Down
          /\ pc' = "failed"
          /\ UNCHANGED <<result, unsure>>
       \/ /\ phase # "start"
          /\ Answer("error")
          /\ \/ /\ DOMAIN segments \cap 1..currentSegmentIndex # {}
                /\ UNCHANGED <<walVars, unsure>>
             \/ /\ DOMAIN segments \cap 1..currentSegmentIndex = {}
                /\ currentSegmentIndex' = 1
                /\ currentRecordCount' = 0
                /\ unsure' = {}
                /\ UNCHANGED stale
          /\ UNCHANGED <<tableVars, startVars, memtables, cache, tokens>>
    /\ UNCHANGED <<files, calls, unlogged>>

-----------------------------------------------------------------------------
(* The specification *)

\* The steps the running process takes by itself, one after the other
Step ==
    \/ ReplayRecord \/ ReplayTorn \/ ReplayNextSegment \/ ReplayEnd \/ Restore
    \/ RotateBefore \/ AppendRecord \/ Rotate \/ Apply \/ Read
    \/ FlushData \/ FlushFilter \/ FlushMetadata
    \/ ResetRemove \/ ResetDone

Next ==
    \/ Open \/ OpenFails \/ Quit \/ Crash \/ CrashInAppend
    \/ Call \/ Deny
    \/ AppendFails \/ RotateFails \/ FlushFails \/ ResetFails
    \/ Step

Spec == Init /\ [][Next]_vars

\* The process is a sequential program: while it runs, its next step comes
FairSpec == Spec /\ WF_vars(Step)

-----------------------------------------------------------------------------
(* Properties *)

\* What a start would read back for a key: the log over the table directories.
Recovered(k) ==
    LET logged == LogLookup(1..LastSegment, k)
    IN  Live(IF logged # Absent THEN logged ELSE TableLookup(DOMAIN sstables, k))

Contents ==
    {f \in [AllKeys -> Data \cup {Absent, Tombstone}] :
        \A k \in AllKeys : f[k] \in ValuesOf(k) \cup {Absent}}

FilesTyped ==
    /\ DOMAIN segments \subseteq Nat \ {0}
    /\ segments \in [DOMAIN segments -> Seq(Records)]
    /\ DOMAIN sstables \subseteq Nat \ {0}
    /\ sstables \in [DOMAIN sstables ->
                        [entries : Contents, stage : {"data", "filter", "complete"}]]

ProcessTyped ==
    /\ currentSegmentIndex \in Nat \ {0}
    /\ currentRecordCount \in Nat
    /\ stale \subseteq Nat \ {0}
    /\ memtables \in Seq(Contents) \ {<<>>}
    /\ cache \in Seq([key : Keys, value : Values])
    /\ tokens \in 0..TokenCapacity
    /\ tables \subseteq DOMAIN sstables
    /\ nextTableID \in Nat \ {0}
    /\ cursor \in [seg : Nat \ {0}, pos : Nat \ {0}]

ControlTyped ==
    /\ pc \in {"down", "failed", "replay", "restore", "idle", "append", "rotate", "apply",
               "read", "flush", "filter", "metadata", "reset"}
    /\ phase \in {"start", "allow", "op"}
    /\ call \in Calls \cup {NoCall}
    /\ result \in {"ok", "error", "limited", Absent} \cup Values
    /\ calls \in 0..MaxCalls
    /\ faults \in 0..MaxFaults

FlagsTyped ==
    /\ replaying \in BOOLEAN
    /\ replayFlush \in BOOLEAN
    /\ resetUndone \in BOOLEAN
    /\ unlogged \in Nat
    /\ unsure \subseteq AllKeys

\* Type invariant.  More than a shape in one part: nothing but token counts within
\* the capacity is ever logged, kept or flushed under the bucket's key, and no count
\* under another, so that Restore finds a valid state (engine.go:245-263).
TypeOK == FilesTyped /\ ProcessTyped /\ ControlTyped /\ FlagsTyped

Running == pc \notin {"down", "failed"}

CallInPhase ==
    /\ phase = "start" <=> call = NoCall
    /\ pc \in {"down", "failed", "replay", "restore", "idle"} => phase = "start"
    /\ pc \in {"append", "rotate", "apply", "read"} => phase # "start"
    /\ pc = "read" => phase = "allow" /\ call.op = "get"
    /\ phase = "op" => call.op # "get"

ReplayInStart ==
    replaying => phase = "start" /\ pc \in {"replay", "flush", "filter", "metadata"}

\* The steps of flush, reset and append know whom they serve: a call in one of its
\* phases, or Start, which alone replays; no flush of a call takes the way of a replay
\* that leaves the log alone (engine.go:88-138, 306-327).
PhaseOK == CallInPhase /\ ReplayInStart

\* Outside Reset, every segment before the current one exists, unless a Reset was cut, and
\* the current one holds at least the records counted in it: an append lands at the end of
\* what it counted, also when the segment could not be created (wal.go:236-262, 364-376).
LogPosition ==
    Running /\ pc # "reset" =>
        /\ resetUndone \/ 1..currentSegmentIndex - 1 \subseteq DOMAIN segments
        /\ currentRecordCount <= Len(RecordsIn(currentSegmentIndex))

\* The directory the next flush writes is above every table a read consults, and no
\* directory is above it: at most the unfinished table of a failed flush has its id.
IDsFresh ==
    Running =>
        /\ \A id \in tables : id < nextTableID
        /\ \A id \in DOMAIN sstables : id <= nextTableID
        /\ pc \in {"filter", "metadata"} => nextTableID \in DOMAIN sstables

\* The engine serves calls, or waits for one: the start is over
Serving == pc = "idle" \/ call # NoCall

\* The record cache never answers with anything but what the memtables and the
\* tables hold, whatever the order of puts, deletes, reads, flushes and failed
\* flushes (engine.go:152-157, 174-179, 201-229).
CacheCoherent ==
    \A k \in Keys : Cached(cache, k) => CachedValue(cache, k) = Stored(k)

\* What the running engine answers for a key is what a restart at this instant would
\* recover for it, except for the key the running call is writing: in memory and on
\* disk the engine holds the same store, through flushes, resets and failed appends, as
\* long as nothing is back that a Reset removed.  A record is in doubt from the rotation that
\* failed after it to the next of its key or the next reset.
ReadsAgreeWithRecovery ==
    Serving /\ ~resetUndone =>
        \A k \in AllKeys :
            \/ Live(Stored(k)) = Recovered(k)
            \/ phase = "allow" /\ k = BucketKey
            \/ phase = "op" /\ k = call.key
            \/ k \in unsure

\* When Reset deletes the log, every value the log still holds is the one that a
\* lookup in the tables finds (engine.go:314-326).
ResetCovered ==
    pc = "reset" /\ ~resetUndone =>
        \A k \in AllKeys \ unsure :
            LET logged == LogLookup(DOMAIN segments \cap 1..currentSegmentIndex, k)
            IN  logged # Absent => logged = TableLookup(tables, k)

\* A half-written record is never skipped nor overwritten by a process that goes on
\* to serve calls: New or Replay stops at it (wal.go:145-147, 240-243).
TornNeverServed ==
    Serving /\ ~resetUndone =>
        \A i \in 1..LastSegment : \A p \in DOMAIN segments[i] : segments[i][p] # Torn

\* A restart gives a waiting engine the tokens it had, and refunds at most the token
\* of the call it interrupts and those whose logging failed: restarting is no way round
\* the rate limit (engine.go:235-263).
TokensKept ==
    LET stored == Recovered(BucketKey)
        restored == IF stored = Absent THEN TokenCapacity ELSE stored
    IN  Serving /\ ~resetUndone =>
            IF call = NoCall /\ unlogged = 0 THEN restored = tokens
            ELSE restored <= tokens + unlogged + IF call = NoCall THEN 0 ELSE 1

\* Only the append of a record changes what a restart recovers, only for the key of
\* the record, and to its value: flush, reset, replay, rotation and crashes keep the
\* store (until something is back that a Reset removed).  What a reset may undo is the write of a
\* call that failed after logging it.
OnlyAppendsChangeTheStore ==
    [][\/ resetUndone'
       \/ UNCHANGED files
       \/ \A k \in AllKeys :
             \/ Recovered(k)' = Recovered(k)
             \/ pc = "reset" /\ k \in unsure
             \/ /\ pc = "append" /\ pc' \in {"rotate", "apply"}
                /\ k = Written.key
                /\ Recovered(k)' = Live(Written.value)]_vars

\* A table a read may consult is never written again: no flush, retry or restart
\* gives its directory to another table (engine.go:313-320, 343-374).
TablesImmutable ==
    [][\A id \in tables : id \in DOMAIN sstables' /\ sstables'[id] = sstables[id]]_vars

\* The log only grows at the end of a segment: reopening and rotating never put a
\* record over an earlier one (wal.go:236-257, 364-376), unless something is back that a
\* Reset removed.
NoRecordOverwritten ==
    [][~resetUndone => \A i \in DOMAIN segments \cap DOMAIN segments' :
                        IsPrefix(segments[i], segments'[i])]_vars

\* The engine implements the map of KVStore: what a restart recovers is the map, and
\* a put or delete takes effect when its record is in the log (engine.go:140-229).
\* Its promise ends where records that a Reset removed may be back, and is suspended while
\* a record is logged whose call failed.
KV == INSTANCE KVStore WITH
    store <- [k \in Keys |-> Recovered(k)],
    effective <- phase = "op" /\ pc # "append",
    intact <- ~resetUndone /\ unsure = {}

KVStoreImplemented == KV!Spec

AtRest == pc \in {"idle", "down", "failed"}

\* Every call ends, it is answered or the process stops; and every start ends, in a process
\* that waits for calls or in none: the loops in replay, the flushes that replays and calls
\* contain and the resets after them terminate (engine.go:88-199, 306-327; wal.go:131-208).
WorkEnds == []<>AtRest
=============================================================================
