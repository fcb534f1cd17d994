# Verification of the key-value engine

The repository is a single-process key-value store in the shape of an LSM tree, written in
Go: a write-ahead log of segment files, a list of memtables, immutable tables on disk with a
Bloom filter, summary and index, a record cache, a block cache under all files, and a rate
limiter whose state is itself a record of the store. It is driven by a command line that runs
one call at a time. This directory holds TLA+ models of it, their TLC configurations, and
proofs checked by TLAPS.

## 1. The system

| component | state | operations | used by |
|---|---|---|---|
| engine (`internal/engine`) | the components below, the open tables, `nextTableID`, `replaying`, `replayFlush` | `New`, `Start`, `Put`, `Get`, `Delete`, `flushMemtables`, `ValidateMerkle` | command line |
| log (`internal/wal/wal.go`) | segment files, index of the current one, count of its records, byte position in it | `OpenConfigured`, `Append`, `Replay`, `Reset`, rotation | engine |
| framing (`internal/wal/record.go`) | position of a reader in a segment | `writeFrame`, `readFrame`, `ReadNextRecord`, serialization | log |
| memtable manager (`internal/memtable`) | a list of memtables, the last one active | `Put`, `Delete`, `Get`, `IsDeleted`, `Entries`, `Clear` | engine |
| backends (`internal/hashmap`, `skiplist`, `btree`) | a map from keys to values and tombstones | `Put`, `Get`, `Delete`, `Entries` | memtables |
| record cache (`internal/cache`) | a least-recently-used list | `Get`, `Put`, `Delete` | engine |
| table (`internal/sstable`) | the files data, index, summary, filter, metadata | `CreateFromEntries...`, `Lookup`, `ValidateMerkle` | engine |
| Bloom filter, Merkle tree | a bit set; levels of hashes | `Add`, `MightContain`; `New`, `MatchesLeaf` | tables |
| block manager and cache (`internal/block`, `blockcache`) | cached blocks of files | `OpenReader`/`Read`, `WriteAt`, `WriteFile`, `EnsureFileSize` | log, tables |
| token bucket (`internal/tokenbucket`) | tokens, capacity, time of the last refill | `Allow`, `Serialize`, `Restore` | engine |
| command line (`cmd/kvengine`) | the loop over lines | `execute`, `parsePositiveInt`, `shouldExit` | the user |
| configuration (`internal/config`) | constants | `Load`, `Validate` | the process |

**How they interact.** A `Put`, `Delete` or `Get` first takes a token and logs the bucket's
new state as a record under a reserved key, in a memtable too; a `Put` or `Delete` then logs
its own record, updates a memtable and the record cache. Either record may fill the last
memtable: then the merged memtables become a table directory, file by file, the memtables are
cleared, and the log is reset: its segments are removed one by one and an empty first one is
created. A start opens the log (it counts the segments, and reads the last one to find its
position), takes every table directory it finds, replays the log into the memtables, may
flush while it replays, resets the log when it did, and takes the tokens from the store.

**What is hard.** There is no concurrency: the mutexes are never contended. The adversary is
the end of the process, and a write that fails, between any two writes to the file system: in
the middle of a record, of a table, of a reset, of the replay that follows. The rest are
boundaries (blocks, segments, memtables, index ranges, splits and resizes), copies that can be
stale (two caches, tombstones over older tables, a restored clock), and the second meaning of
records (tokens). What could go wrong, and where, is listed under `hazards` in `PROJECT.json`,
with the properties that cover it or the reason why none does.

What makes each component correct:

* engine: a map that survives the process; what memory answers is what disk would recover;
  the cache agrees with the tables; every call and start ends; restarts refund no tokens.
* log: the reader finds the records written in full, never a part of one; a reopened log goes
  on where it stood; nothing is written over a record; a segment keeps its length.
* memtables, backends: the newest entry of a key wins, tombstones included, and is flushed;
  hash map, skip list and B-tree are one map, and keep the shape their searches rely on.
* table: a lookup finds exactly what was written; a table that reads consult is never written;
  validation notices what was changed and names the right entries.
* block cache: reads through it and from disk agree; writes of part of a block keep the rest.
* token bucket: no more than its capacity per interval, also over restarts; no longer waits.
* command line: what is typed is what is stored; a table is validated as named.

## 2. Modules

| module | stands for |
|---|---|
| `KVStore` | the abstract promise of the engine: one map, one call at a time, an effect between invocation and answer, stops that forget the call and keep the map |
| `Memtables` | the memtable manager, as operators on a sequence of maps |
| `Lru` | the list behind both caches, as operators |
| `Engine` | the engine with log, tables, cache and tokens; one action per write to the file system, done or failed; `EXTENDS Memtables, Lru` |
| `MCEngine` | the symmetry set for the instances of `Engine` |
| `CommonProofs` | lemmas about iteration, recursion and the list of `Lru`, for the modules with proofs |
| `EngineProofs` | the theorems of `Engine`: positions and types, the cache, then durability and refinement |
| `WalFramesProofs`, `SSTableProofs`, `BlocksProofs`, `BackendsProofs`, `TokenBucketProofs`, `MerkleProofs` | the theorems of these modules |
| `WalFrames` | one segment of the log to the byte: frames, padding, rotation, reader, reopening, failing writes |
| `SSTable`, `MCSSTable` | the files of one table: writing order, attempts cut short, the bits of the filter, lookup |
| `Blocks` | the block manager and its cache over log files and table files; uses `Lru` |
| `MemtableBackend` | the abstract promise of a backend: a map in which deleted keys stay as tombstones |
| `HashMap`, `SkipList`, `BTree` | the three backends, each with its data structure |
| `Backends`, `MCBackends` | a memtable over the backend that the configuration names: composes the three by `INSTANCE` and shows each to implement `MemtableBackend` |
| `TokenBucket` | the bucket over time, with two clocks, restarts and a log that may fail |
| `Merkle`, `MCMerkle` | `ValidateMerkle` of one table whose data or metadata was damaged |
| `Commands`, `MCCommands` | the lines of the command line, over the map of `KVStore` |

The smaller modules justify what `Engine` takes for granted. `WalFrames` shows that a log
cut at any write reads as a sequence of whole records, or as damaged, which `Engine` calls
`Torn`. `SSTable` shows that a table answers exactly its entries from the moment its filter is
written, and that a directory with files of two attempts answers what either wrote or nothing,
which `Engine` calls `Readable` and `Mixed`. `Blocks` shows that reading and writing through
the block cache is reading and writing the files, for files that were created with their size;
the one exception appears in `Engine` as `FramedAmongOld`. `Backends` shows that a memtable is
the map that `Memtables` uses. `TokenBucket` adds to `TokensKept` of `Engine`, which has no
time, what the kept state means over time.

### Engine

| TLA+ | code |
|---|---|
| `segments`, `sstables` | the files; the only variables that survive `Quit`, `Crash` |
| `currentSegmentIndex`, `currentRecordCount` | fields of `wal.WAL` |
| `stale` | removed segments whose blocks `block.Manager` may still hold |
| `memtables`, `cache`, `tokens`, `tables`, `nextTableID`, `replaying`, `replayFlush` | fields of `engine.Engine` and its bucket |
| `cursor` | segment and record that `Replay` reads next |
| `pc`, `phase`, `call` | where the running process stands: `Start`, the bookkeeping of a call (`allow`) or its own work (`op`) |
| `Open`, `OpenFails` | `New` |
| `ReplayRecord`, `ReplayTorn`, `ReplayNextSegment`, `ReplayEnd`, `Restore` | `Start` |
| `Call`, `Deny` | the begin of `Put`, `Delete`, `GetWithError`; `allow` |
| `RotateBefore`, `AppendRecord`, `Rotate` | `wal.Append`, for the bucket's record and for the caller's |
| `AppendFails`, `RotateFails` | its errors: before the first frame, or with the record already written |
| `Apply`, `Read` | the memtable and cache updates; `get` |
| `FlushData`, `FlushFilter`, `FlushMetadata`, `FlushFails` | `flushMemtables` and `CreateFromEntriesWithBlockManager`; index and summary are written with the data because no lookup comes in between and none reads them without the filter |
| `ResetRemove`, `ResetDone`, `ResetFails` | `wal.Reset` |
| `Crash`, `CrashInAppend`, `Quit` | the end of the process |

History variables: `calls` and `faults` carry bounds; `unlogged` counts the tokens taken since
the bucket's state was last logged, because an append failed; `unsure` holds the keys of
records that are in the log though their call ended with an error (`RotateFails`): memory
does not know of them until the next record of the key or the next reset, and a restart
brings them back. A failed call may have taken effect or not, so nothing is wrong with either.

`resetUndone` says that records which a `Reset` removed may be back. That happens in two ways.
A `Reset` that is cut, by a crash or an error, after segment 1 was removed and before the last
one was leaves orphans: the counting of segments (`wal.go:308-320`) stops at the gap, the
orphans are met again when the log has grown back to them, and their old records replay over
newer ones. And a segment that could not be created again after `Reset` removed it is created
by the next `WriteAt`, which writes the rest of its first block from the block cache
(`block/manager.go:204-223`): the old records come back behind the new one
(`FramedAmongOld`). The code has no defence in either case and no document promises one, so the
properties about what the log recovers are stated as long as `~resetUndone`. `TypeOK`,
`PhaseOK`, `IDsFresh`, `CacheCoherent` and `TablesImmutable` need no such condition, and
`LogPosition` only for the segments before the current one. `KVStore` has the variable
`intact` for this: its promise holds for every step between two intact states, and `Engine`
maps it to `~resetUndone /\ unsure = {}`.

Left out of `Engine`: bytes (whether a segment fills before its record count does is a free
choice, `EarlyRotation`); time (a refill is possible at any call); appends that leave the
segment unreadable (section 3, findings); errors of `New` other than a damaged log, which leave
everything as it is; read errors in `Lookup`, which the code turns into "not found"; changes of
the configuration between starts; calls with a reserved key, and `MERKLE` and `TABLES`, which
change nothing (they are in `Commands`).

### WalFrames

A file maps positions of headers to frames `[type, record, from, upto]`; every other byte is
zero. `AppendStart` is `Append` up to its loop (the size check, the rotation before the
write), `WriteFrame` one turn of the loop with the padding before it (zeros over zeros, so a
crash after padding alone is a crash before it), `Rotate` the rotation after it. `WriteFails`
is the error of padding, header or data: `Append` returns and the log is used on. `Scanned`
folds `ReadFrame` (`readFrame`, `ReadNextRecord`) over the file; `Reopen` is
`OpenConfigured`. `written` (records appended in full) and `zeroFirst` (a fragment without data
was written) are history.

### SSTable

`Create` begins an attempt with any entries; `WriteData` ... `WriteMetadata` write the files
in the code's order, each whole, or cut after any of its items, which ends the attempt. A later
attempt writes over what is there. `Lookup` follows the code: filter, bounds, summary range,
index scan, data entry, comparison of the key. The filter is its set of bits, one
for each key, which keys may share; a filter file that is cut short lets no key pass. A lookup
at an offset of another attempt's data where no entry begins is taken to find no entry with
the key. The zero bytes that a cut `WriteFile` may leave behind the last item are left out: as
items they would be entries of the empty key.

### Blocks

Each operation is one action that folds over the blocks it touches; reading is one block at a
time, in any order. `intended` records what each writer was told, `disk` what the manager
wrote. Log files are removed without telling the manager, as `wal.Reset` does.
`EnsureFileSizeFails` is the log that goes on at a file it could not create; `unsized` holds
such files, of which the properties say nothing.

### Backends

`HashMap` is the table of buckets with their chains: `Put` changes the key's node or adds one in
front of its chain, and resizes when there are more than three nodes for four buckets, `Resized`
moving node after node, tombstones too, to the end of its new chain. `SkipList` keeps for each
node its pointers, one per level (`Tall(l)` are the nodes that have one on level l); `Put` draws
any height and links the new node from the places where the walk stopped, on the levels above
the list's too. `BTree` is the tree as a nested record: `Put` updates in place, or splits full
nodes on the way down. Its recursions go from level to level: `search[h]` is a function of the
nodes with at most h levels, `Trees[h]`, and is applied at `Levels == size + 1`, which no tree
outgrows, as an insertion adds one level at most. In a tree of order 3 a split leaves a half
without entries; memtables have trees of order 4 (`backend.go:24`), and `BTrees` demands entries of
every node below the root for orders above 3 only. `Backends` runs one of the three; `content` is what
`Entries` lists, and `answer` the key of the last operation followed by what it returned, so
that the refinement of `MemtableBackend` compares the search with the listing after every
operation, key by key.

### TokenBucket

`Take` is `Allow` with its refill, `Store` and `StoreFails` the logging behind it, `Start`
`New` followed by `Restore` of the stored state. A time is its wall clock reading and, unless
it was restored, a monotonic one: `Elapsed` compares the latter when both have it, as
`time.Sub` does. `Jump` sets the wall clock. `served` and `taken` are the times of past calls.

### Merkle

A data file is a sequence of bytes, serialized entry by entry with the one flag byte and two
size bytes (four in the code). `Outcome` is how `DeserializeEntry` ends at a position, with the
three ends that `io.ReadFull` tells apart; `Offset[n]` is where the loop of
`validateDataAgainstMerkle` stands after n entries, `EntryCount` how many it finds,
`EntriesFound` these, and `LastOutcome` the end of the last read. The levels of the tree are
computed one `Above` the other until one node is left. A hash is the value it was taken of. Bytes of the data are
changed, cut, added; hashes of the metadata are changed and cut, their count changed.

### Commands

`Execute` is `execute` word for word: fields, upper case, the text search by which `PUT` finds
its value, `parsePositiveInt` in an `int` of `IntBits` bits. Every engine call may fail. `typed` is, as
history, the value as it stands behind the key.

## 3. Runs

| run | question | bounds |
|---|---|---|
| `engine_calls` | does the engine implement `KVStore`; are the cache and the tokens right | 2 user keys, 2 values, 2 memtables of 2 entries, a cache of 1, 2 tokens, 3 calls, 2 faults; one segment, 1 old record |
| `engine_log` | do log and tables agree with memory through rotation, flush, reset, replay, crashes and failing writes; does every call and start end | 1 user key, 1 memtable of 2 entries, a cache of 1, 1 token, segments of at most 2 records and maybe fewer, 3 calls, 2 faults, 1 old record |
| `wal_frames` | is framing, reading and reopening exact, after failed writes too | blocks of 12 bytes, headers of 5, 3 blocks, 8 lengths from 1 byte to one too long for a segment, 1 failing write |
| `wal_zero_first` | is a log that was closed between two appends always readable: **no** | the same, no failing write |
| `wal_failed_append` | is a log readable after an append that failed and one that did not: **no** | as `wal_frames` |
| `sstable_lookup` | does a table find exactly what it was given, over the remains of any earlier attempt | 4 keys, live and deleted entries of different sizes, summary steps 2 and 3, a filter of 3 bits, 2 attempts |
| `block_cache` | do cached blocks and files agree | blocks of 2 bytes, files of 2 blocks, a cache of 3 for 4 blocks; no bound on operations |
| `backends` | is each backend the map of `MemtableBackend`, in good shape | hash map: 5 keys, 2 values, 2 buckets at first; skip list: 4 keys, heights up to 3; B-tree: 9 keys, order 4, one deleted key at a time |
| `token_bucket` | does the limit hold, and nobody wait longer than it says | capacities 1 and 2, an interval of 3 in 6 units of time, 2 settings of the clock, 1 failing write |
| `merkle` | does validation notice and name what changed | 4 tables of up to 4 entries, bytes 0 to 2, 3 damages |
| `commands` | do lines do what they say | 2 lines out of all ways to write `PUT` with up to four more characters, numerals around the limit of an `int` of 7 bits, and the other commands |
| `put_value` | is the value that `PUT` stores the one typed: **no** | the same |

*Why the bounds suffice.* A call appends up to two records, so three calls with memtables of two
entries fill, flush and reset the log more than once, also in the middle of a call; two faults
give a crash (or failed write) and another one while the engine recovers from the first,
retries in the same directory and starts over remains. With two records to a segment and
three calls, replay crosses several segments and `Reset` can be cut between them. `MaxTables`
only bounds starts that fail and are tried again for ever. One record from stale blocks is
enough to bring an old value back. The layouts of `wal_frames` are all those of a segment: the
room left in a block takes every value from 0 to the block size, so records end in the
padding, at its edge, with exactly one header's room left, and run over two and three blocks.
Four keys with steps two and three give summaries of one and two ranges, full and partial. The
cache of three makes every eviction order possible. Five keys resize the hash map twice, and
`MCHash` lets keys share a bucket always, until the first resize, or until the second; four
keys with three levels come in every order and with every draw of heights; nine keys split
leaves, inner nodes and the root of a tree of order 4. `backends` runs with a `VIEW` that leaves
`answer` out: no operation reads it, so from states that differ in nothing else the same steps
lead on, and each step's own answer is compared when the step is taken. Two intervals of time with two settings
of the clock let a restored time be compared from either side. Three damages change a size and
the bytes that it moves. Seven bits are passed by three digits, on either side of zero again.

`CHECK_DEADLOCK` is off only where the bounded calls, faults, attempts, time, damages or lines
can be used up.

*Fairness.* `FairSpec`, which `engine_log` checks, has one condition, `WF_vars(Step)`: while the
process runs, its next step comes. It is a sequential program that waits for nothing but input,
which is not in `Step`; crashes, failures, calls and starts are not fair. `WorkEnds` then says
that every call and every start ends: no loop in replay, flush or reset goes on for ever.

*Findings.* Three runs find a property violated by the code.

* `wal_zero_first`. When exactly five bytes (one frame header) are left in a block, `Append`
  computes a chunk of no bytes (`wal.go:92`), writes it as the first fragment, and then writes
  the record from its begin as a full or another first fragment. The reader refuses both
  (`record.go:194`, `record.go:199`), so the segment cannot be read from there on and the store
  does not start again. With the shipped configuration this is a matter of the lengths of the
  records that fill a block of 4096 bytes.
* `wal_failed_append`. An append that fails after its first fragment leaves that fragment in
  front of the next record, which the caller is told is logged; the reader stops there with the
  same errors. One failed write is enough.
* `put_value`. `PUT` takes as the value what follows the first occurrence of the key's text in
  the line (`main.go:84`), which may be in the command: `PuT T x` stores `T x` under `T`.
  `NothingTypedIsLost` and `UsageExact` say what holds all the same: the value typed is always
  the end of the value stored, and only malformed lines are turned away.

`Engine` models appends as readable, and so stands for logs in which the first two did not
occur; the other properties of `WalFrames` that need it exclude them by `zeroFirst` and
`Stranded`.

Each property of a passing run has a mutant in `PROJECT.json`: a definition with a plausible
bug (in the modules it stands just before the one it replaces, and is not used otherwise),
under which TLC finds that property violated.

## 4. Proofs

The safety properties of `Engine`, `WalFrames`, `SSTable`, `Blocks`, `Backends`, `TokenBucket` and
`Merkle` are proved for every value of the constants that satisfies the modules' assumptions.
These say no more than that there are finitely many keys, that sizes are positive, a block has
room for a frame header and a byte and a length fits the field it is written to, and that
sentinels are not data: so for any number of keys, memtables, segments, blocks, buckets, levels,
attempts, damaged bytes, calls, crashes and failing writes, and for B-trees of every order from 3
on. Two idealisations: a hash tells any two values apart, and the keys of skip list, B-tree and
tables are numbers, of which only the order counts.

| module | theorems | inductive invariant |
|---|---|---|
| `EngineProofs` | `TypeCorrect`, `PhaseCorrect`, `LogPositionCorrect`, `IDsAreFresh`, `TablesNeverRewritten` | `IInv` |
| | `CacheIsCoherent` (`CacheCoherent`) | `CacheInv` |
| | `NoTornRecordServed`, `RecordsStay` | `LogInv` |
| | `AnswersSurvive` (`ReadsAgreeWithRecovery`), `ResetLosesNothing` (`ResetCovered`) | `StoreInv`, `AllInv` |
| | `OnlyAppendsChange` (`OnlyAppendsChangeTheStore`), `EngineIsAMap` (`KVStoreImplemented`) | `RecoveryInv` |
| | `RestartKeepsTokens` (`TokensKept`) | `TokenInv` |
| `WalFramesProofs` | `FramesTyped`, `SegmentLengthKept`, `NothingIsMisread`, `LogReopensWhereItStood` | `FramesInv` |
| `SSTableProofs` | `LookupIsExact` (`LookupExact`), `LookupFindsSomeAttempt` (`LookupOfSomeAttempt`) | `TableInv` |
| `BlocksProofs` | `BlocksKept`, `CacheIsCoherent` (`BlocksCoherent`), `FilesHoldWhatWasWritten` (`FilesAsIntended`) | `BlocksInv` |
| `BackendsProofs` | `LoadIsBounded` (`LoadBounded`), `KeysStayOnce` (`EveryKeyOnce`), `LevelsStayNested` (`LevelsNested`), `TreeStaysBalanced` (`Balanced`), `EntriesStayInOrder` (`EntriesInOrder`) | `HashMapInv`, `SkipListInv`, `TreeInv` |
| | `BackendsImplement` (`BackendImplemented`: the refinement of `MemtableBackend` by each of the three) | `BackendKept` |
| `TokenBucketProofs` | `BucketTyped`, `RateIsBounded` (`RateBounded`), `DenialsAreJustified` (`DenialsJustified`) | `BucketInv` |
| `MerkleProofs` | `LeavesStayAsWritten`, `NoDamageUnnoticed` (`DamageDetected`), `ReportsAreExact` (`ChangesLocated`), `RootTellsTables` (`RootDistinguishes`) | `MerkleInv` |

`CommonProofs` holds what several of them need: that a function defined by recursion on the
natural numbers exists and satisfies its equations (from the library's theorem on the
well-founded order of the numbers, by way of `LeastElement`, as sets of numbers rather than
predicates), and what `Get`, `Put`, `Delete` and `MoveToFront` do to a list of `Lru` in which
no key stands twice.

*Types and positions.* `IInv == TypeOK /\ PhaseOK /\ LogPosition /\ RotatesFull /\
ResetPosition /\ IDsFresh /\ FilesBounded`. The parts need each other. `TypeOK` contains more
than shapes: only counts of tokens within the capacity are logged, kept in memory or flushed
under the bucket's key, so `Restore` always finds a valid state. An append keeps the segment's
type only where `LogPosition` places it inside the file; a record has the right type only
because `PhaseOK` ties `phase` to the call. A `Reset` that fails goes on serving calls, so the
position must survive it: `ResetPosition` is `LogPosition` for as long as there is a segment to
remove, and `RotatesFull` says that the segment that a full one is left for follows one that
exists. `IDsFresh` after a start needs that the largest directory id exists. That, and the last
segment that `LastSegment` chooses, is why `FilesBounded` (some number bounds all segment
indices and table ids) is added: a set of files without a largest index has neither, and the
lemmas `LeastElement` and `MaxElement` derive both from the bound. `IInvStep` combines one
lemma per conjunct, each with a case per action.

*The cache.* `CacheInv` says that the list holds no key twice and for each key what `Stored`
gives, within its capacity. Its hard part is that `Stored` does not change under a flush:
`TableCurrent` says that the table just written is what the memtables hold, which a flush that
fails and is retried over an old directory must re-establish. The lemmas on `CachePut`,
`CacheDelete` and `MoveToFront` are about the list alone.

*The log.* Under `~resetUndone`, files are numbered without a gap (`NoGaps`), none lies beyond
the current one (`NoneBeyond`), the current one holds exactly the records counted (`AtEnd`), and
half a record is only where the replay has not come to (`OnlyAhead`). So an append is at the
end, and a process that serves calls has read every record. All four need each other in
`Reset`, between whose steps segment 1 is gone (`FirstGone`).

*Durability.* What was applied to memtables and tables is the part of the log up to `cursor`
(or all of it, once the start is over). `StoreCurrent` says that for every key the last value
so applied is the one stored, but for keys in doubt; `LoggedFirst`, that a key that the log
does not hold is in tables only; `WrittenIsLast`, that the record about to be applied is the
last one of its key; `Settled`, which tables exist when replay and reset run. So replaying the
whole log over the tables gives the store: `ReadsAgreeWithRecovery` and `ResetCovered` follow.

*Recovery and refinement.* `RecoveryFacts` derives from `AllInv` what a restart reads (the whole log, or
nothing once segment 1 is gone), from which `RecoveredStep` shows, case by case, that no
step but an append changes `Recovered`. `EngineIsAMap` maps the engine's steps to those of
`KVStore`: the append of a put's or delete's record is `Effect`, answers map to answers
(`ReadAnswers` shows that a get answers the map), every other step is a stutter or
`Stop`. Steps into and out of states that are not `intact` promise nothing, by the definition of
`KVStore!Next`.

*Tokens.* `TokensLogged` says that the bucket recovered has at most one token more than the
bucket in memory while a call is between taking and logging, plus `unlogged`; `BucketDoubt`,
that a doubt about the bucket's record ends before the log can be reset.

*Log frames.* The reader is a recursive function, but what has to be known of it is one
state: the one in which it arrives where the writer stands. `Place(at, off)` says that all
frames lie before the byte `at` at offset `off` of its block, but for what a half-written frame
left behind it, and that the reader, after some number of turns, either stands there with
exactly the records written (`ReaderAt`) or stopped with an error at a fragment that can never
be completed (`Stuck`). `InStep` ties what the reader has assembled to the record under way:
nothing, its first bytes, or fragments of a record that failed. The invariant is
`FramesInv == Typed /\ FramesKept /\ WriterStands /\ RestFits /\ WriterStood`: `WriterStands` is
`Place` at the writer's position, `WriterStood` the same at some position once the process has
ended, and `RestFits` says that what `framedSize` gives for the rest of the record fits into
the segment, which every frame written uses up exactly. `ReadsFurther` shows that a frame
written behind all others changes none of the turns before it (`ReadsSame`), so a step moves
the place by one frame (`TakesFrame`); the three properties follow from the place of the last.

*Tables.* The step that matters is about the definitions, not the actions: a lookup by way of
summary, index and data finds what a search of all entries does. `KeysInOrder` shows that
`Sorted` has each key held once and in order (counting the keys below a key maps the keys onto
the positions), `OffsetsApart` that no two entries begin at one offset, as each has bytes. A
summary entry is above a key exactly when its position in the index is, counted from the key's
own (`RangeHolds`), so the range that `IndexRange` gives begins before the key's index entry
and does not end before it, and the scan stops there (`OffsetFound`). `LookupIs` puts them
together, for the keys that are held and for those that are not. `TableInv` adds that the files the
running attempt has got past are its own, and that every entry in the data file, of whichever
attempt and cut wherever, was given to some attempt; whatever the index says, no other value is
found, because the key read is compared.

*Block cache.* `BlocksInv == Typed /\ ListKept(cache) /\ LogsSized /\ CacheCoherent /\
FilesAsIntended`. Coherence and the contents of the files need each other, because a write of
part of a block reads the rest through the cache. A stale block is harmless only where the
file does not reach: `ListKept` says that a log file has no block behind its fixed length in
the cache, `LogsSized` that a file is that long, so `EnsureFileSize` forgets every block it
could bring back. The loops of `WriteAt`, `WriteFile` and `EnsureFileSize` are recursive
functions, whose n-th value is described by lemmas (`PatchedIs`, `BlocksWrittenIs`,
`SizedCacheIs`) that say what the first n blocks have become; `WriteFile` passes through
contents that no reader sees, and ends with the truncation to the length written.

*Hash map.* `HashMapInv` says that every node is in the bucket that its key hashes to and alone
with that key in its chain, that `size` counts the nodes, and that the load is bounded. A resize
is a recursive function over the nodes in their old order: `NodesOfIs` says that this order
lists every node, each key once, `TableGrown` what one more node moved has changed, and
`ResizedIs` that the doubled table holds the same nodes, each at home there. `HashMapKeysOnce`
maps places one-to-one to keys, which gives the count.

*Skip list.* `SkipListInv` says of each level (`LinksKept`) that the pointer of a node is the
next greater key among the nodes that have that level, or nil if there is none; and of the
nodes (`NodesKept`) that no two have one key and that none is higher than the levels in use. The
walk along a level is then known without following it: it ends at the last node before the
key, the one that `IsLast` describes, on every level and from every node before the key
(`WalkIs`, by induction on the distance of the keys), so `Stops` finds the nodes that a new one
is linked behind (`StopsAre`, `BeforeAre`) and `Found` the node with the key (`FoundAre`).
`LinkedLinksKept` shows, level by level, that linking it there keeps `LinksKept`: for the new node, for
the one before it, and for every other, which is either behind the key or has its next node
no further than the one before. `ListFromIs` says that a level lists all nodes that have it.

*B-tree.* `SearchTrees[h][keys]` are the search trees of h levels below the root: leaves at one
depth, a child between any two entries and outside them, no node over its limit, none empty
below the root (`Below`), and the keys of each child in the range `Between` the entries around it, down
from the range `keys`. `TreeInv` says that for some h the root is one over all keys, that h is at
most the number of entries, and that the entries it holds in all (`Held`) are `size` many. That
h exists once for the whole tree is what makes the recursions meet: each lemma on an
operation (`SearchIs`, `UpdatedIs`, `InsertedIs`) goes by induction on the levels and says what a
node becomes whose keys are in a range. `SplitIs` carries the rest: the parent after `Split`
is a search tree over the same range with the same entries, and the half in which the key
belongs has room, so the way down never reaches a full node. Its halves are parts of the child
(`PartOfTree`), whose ranges end at the entry that moved up. The root is made ready the same way, by
one more level (`RootReady`), which it takes at least one more entry to need. `Entries` is the
recursion over levels with another over the positions in a node; `GatheredIs` and
`CollectedStep` show that it lists what the node holds, in order, so each key once.

*Refinement.* `content` is a map with the pairs that `Entries` lists (`ContentIs`), and a step
that puts a pair in the place of the key's one puts the value into the map (`GivenIs`).
`HashMapSimulated`, `SkipListSimulated` and `TreeSimulated` compare what `Put`, `Get` and `Delete`
reach by way of the hash, of the levels or of the children with it.

*Token bucket.* The invariant says of the bucket in memory, and of the one stored, that there
was a moment r, its last refill, with three facts (`BucketRefilled`, `StoredRefilled`): the
wall clock's reading kept for it is off by at most what the clock was set (`WallAt`), the calls
served since are paid for by the tokens missing, and those served in the interval before it
are at most a bucketful (`PaidFor`), and the tokens missing were taken since. A refill moves r
to now, where the old bucketful pays for the interval that ends there; so a stretch of an
interval meets at most two. The monotonic reading, present only in the process that took it,
fixes r exactly.

*Merkle tree.* `MerkleInv` says that the table is one that could be created, the data are bytes,
and each leaf in the metadata is the one written or `OtherHash`; everything else is about what
`ValidateMerkle` makes of such files. `PlacedIs` locates in `written` the bytes of each entry, and
`RereadIs` says that an entry that is read and serialized again has the bytes it was read
from, but for the flag. So an entry read where one was written equals it exactly if its bytes
are intact (`SameIsIntact`, `IntactIsSame`). A changed size moves the reader to places where no entry
begins: `FollowsIs` shows, by induction on the entries read, that as long as every leaf matches, each
entry had the sizes written and the reader stands at `Begin` of the next, so nothing behind a
changed size is taken for valid (`InvDamageDetected`). That the reader ends at all, and so that
`EntryCount` chooses a number, follows from the three bytes that each entry has at least
(`CountIs`). For `ChangesLocated` the same is shown with the sizes given to be as written
(`SizesFind`), entry by entry (`ToldIs`). `RootTells` is about the tree alone: two levels of
as many nodes tell what is below them (`LevelTells`), also at an odd last node, the levels of
trees with as many leaves have the same lengths all the way up, and after as many levels as
leaves a single node is left (`LevelsNarrow`).

Parts of the invariants quantify over all numbers or ranges of keys (`FilesBounded`,
`WriterStood`, `TreeInv`) and are not evaluated by TLC; the properties they imply are checked by
the runs, and `BlocksInv`, `BucketInv`, `TableInv` and `MerkleInv` were evaluated with their
quantifiers bounded by the instance.

*Only model-checked:* liveness (`WorkEnds`), which the prover cannot do, as neither fairness
nor `ENABLED` is in its reach; the refutations by the three runs that find a violation; and the
properties of `Commands` (`NothingTypedIsLost`, `TableAsTyped`, `UsageExact`), whose content is
what the string functions of the Go library do to one line, and which have no state that
more lines could spoil.

## 5. Not modelled

* Configuration: `Load` parses a file, `Validate` (`config.go:102-156`) compares numbers. What it
  guarantees (positive sizes, blocks with room for a header, and so on) appears as the
  assumptions on constants; it keeps no state and decides nothing later.
* Changed sizes: a store opened with other block or segment sizes than it was written with. The
  code stores no sizes and does not notice.
* `Engine` with the unreadable logs of the findings above: a start that fails until someone
  repairs the log.
* A log file whose creation fails after leaving an empty or short file behind.
* Byte formats and checksums beyond "decodes or does not", except that of a data entry; text
  output; `sync.Mutex` (no two goroutines exist).
* Functions without a caller: `AppendFile`, `block.Manager.ReadBlock` and `ReadFile`, the tables'
  writers through plain files, `Tree.Validate`.

What could still be added: proofs about `Commands`, which need a theory of the text functions
it calls.
