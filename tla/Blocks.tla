------------------------------- MODULE Blocks -------------------------------
(***************************************************************************)
(* The block manager (internal/block) and its cache (internal/blockcache): *)
(* all files of the engine are read and written through it, a block at a   *)
(* time, and a cached block is never compared with the file again.         *)
(*                                                                         *)
(* Two kinds of files use it in two ways.  Log files are created with      *)
(* their fixed length by EnsureFileSize, written in place by WriteAt, and  *)
(* removed behind the manager's back (wal.Reset calls os.Remove); when one *)
(* cannot be created again, the log writes to it all the same.  Table      *)
(* files are replaced as a whole by WriteFile, perhaps more than once.     *)
(***************************************************************************)
EXTENDS Integers, Lru

CONSTANTS
    BlockSize,
    LogFiles,
    TableFiles,
    LogBlocks,         \* blocks of a log file: wal.segmentSizeBlocks
    Bytes,             \* what a file holds; 0 is the zero byte
    MaxLength,         \* bound: bytes of a table file
    CacheCapacity      \* blockManager.cacheCapacity

ASSUME BlocksAssumption ==
    /\ BlockSize \in Nat \ {0}
    /\ LogBlocks \in Nat \ {0}
    /\ LogFiles \cap TableFiles = {}
    /\ 0 \in Bytes
    /\ MaxLength \in Nat
    /\ CacheCapacity \in Nat

VARIABLES
    disk,              \* path -> the bytes of the file
    cache,             \* the blocks kept, keyed by path and index, front first
    \* history
    intended,          \* path -> the bytes its writers were told the file holds
    unsized            \* log files that were missing and could not be sized: nobody is
                       \* told what they hold

vars == <<disk, cache, intended, unsized>>

LogSize == LogBlocks * BlockSize
Contents(upto) == UNION {[1..n -> Bytes] : n \in 1..upto}

BlockCount(size) == (size + BlockSize - 1) \div BlockSize

\* The first size bytes of the content, with zeros after its end
Resized(content, size) ==
    [j \in 1..size |-> IF j <= Len(content) THEN content[j] ELSE 0]

\* A block of the content, with zeros after the end of the content
BlockOf(content, i) ==
    [j \in 1..BlockSize |->
        IF i * BlockSize + j <= Len(content) THEN content[i * BlockSize + j] ELSE 0]

WithFile(files, p, content) ==
    [q \in DOMAIN files \cup {p} |-> IF q = p THEN content ELSE files[q]]

-----------------------------------------------------------------------------
(* Steps on one block: s is the content of the file p and the cache *)

\* readBlockAllowPartial: the block, and the cache after it was read
BlockRead(s, p, i) ==
    IF Cached(s.cache, <<p, i>>)
    THEN [block |-> CachedValue(s.cache, <<p, i>>), cache |-> CacheGet(s.cache, <<p, i>>)]
    ELSE [block |-> BlockOf(s.content, i),
          cache |-> CachePut(s.cache, CacheCapacity, <<p, i>>, BlockOf(s.content, i))]

\* The content once a block of it is written, past its end if need be
Placed(content, i, block) ==
    [j \in 1..(IF Len(content) > (i + 1) * BlockSize THEN Len(content) ELSE (i + 1) * BlockSize) |->
        IF (j - 1) \div BlockSize = i THEN block[j - i * BlockSize]
        ELSE IF j <= Len(content) THEN content[j] ELSE 0]

WrittenBehindTheCache(s, p, i, block) ==
    [content |-> Placed(s.content, i, block), cache |-> s.cache]

\* WriteBlock writes all of a block and keeps it in the cache
BlockWritten(s, p, i, block) ==
    [content |-> Placed(s.content, i, block),
     cache |-> CachePut(s.cache, CacheCapacity, <<p, i>>, block)]

-----------------------------------------------------------------------------
(* Operations.  A write to the file system that fails ends the operation at the *)
(* block it has reached; what was told to the file is then what it got.         *)

\* OpenReader and Read, or a part of a longer read: one block comes through the cache
ReadBlock ==
    \E p \in DOMAIN disk :
        \E i \in 0..BlockCount(Len(disk[p])) - 1 :
            /\ cache' = BlockRead([content |-> disk[p], cache |-> cache], p, i).cache
            /\ UNCHANGED <<disk, intended, unsized>>

SizedKeepingCache(p, size) == cache
SizedCache(p, size) ==
    LET forgotten[n \in Nat] ==
            IF n = 0 THEN cache ELSE CacheDelete(forgotten[n - 1], <<p, n - 1>>)
    IN  forgotten[BlockCount(size)]

\* EnsureFileSize creates a log file or keeps what it holds, and forgets its blocks
EnsureFileSize ==
    \E p \in LogFiles :
        LET content == Resized(IF p \in DOMAIN disk THEN disk[p] ELSE <<>>, LogSize)
        IN  /\ disk' = WithFile(disk, p, content)
            /\ unsized' = IF p \in DOMAIN disk THEN unsized ELSE unsized \ {p}
            /\ intended' = IF p \in unsized' THEN intended
                           ELSE WithFile(intended, p,
                                Resized(IF p \in DOMAIN intended THEN intended[p] ELSE <<>>,
                                        LogSize))
            /\ cache' = SizedCache(p, LogSize)

\* It returns before it has forgotten a block; the log stays at a file that is missing
EnsureFileSizeFails ==
    \E p \in LogFiles \ DOMAIN disk :
        /\ unsized' = unsized \cup {p}
        /\ UNCHANGED <<disk, cache, intended>>

\* The m-th byte once the bytes are written from the offset on, and a block of them
Over(bytes, offset, m, byte) ==
    IF m \in offset + 1..offset + Len(bytes) THEN bytes[m - offset] ELSE byte

Overlaid(block, i, offset, bytes) ==
    [j \in 1..BlockSize |-> Over(bytes, offset, i * BlockSize + j, block[j])]

\* A turn of WriteAt: a block written in part is read first
BlockPatched(s, p, i, offset, bytes) ==
    LET whole == offset <= i * BlockSize /\ (i + 1) * BlockSize <= offset + Len(bytes)
        read == IF whole THEN [block |-> BlockOf(<<>>, 0), cache |-> s.cache]
                ELSE BlockRead(s, p, i)
    IN  BlockWritten([content |-> s.content, cache |-> read.cache], p, i,
                     Overlaid(read.block, i, offset, bytes))

Patched(s, p, offset, bytes) ==
    LET first == offset \div BlockSize
        last == (offset + Len(bytes) - 1) \div BlockSize
        patched[n \in Nat] ==
            IF n = 0 THEN s ELSE BlockPatched(patched[n - 1], p, first + n - 1, offset, bytes)
    IN  patched[last - first + 1]

\* WriteAt puts new bytes at an offset, and creates a file that is missing
WriteAt ==
    \E p \in LogFiles \cap (DOMAIN disk \cup unsized) : \E offset \in 0..LogSize - 1 :
        \E bytes \in Contents(LogSize - offset) :
            LET old == IF p \in DOMAIN disk THEN disk[p] ELSE <<>>
                end == offset + Len(bytes)
                done == Patched([content |-> old, cache |-> cache], p, offset, bytes)
            IN  /\ disk' = WithFile(disk, p, done.content)
                /\ cache' = done.cache
                /\ intended' = IF p \in unsized THEN intended
                               ELSE [intended EXCEPT ![p] =
                                        [j \in 1..Len(@) |->
                                            IF j \in offset + 1..end THEN bytes[j - offset]
                                            ELSE @[j]]]
                /\ UNCHANGED unsized

\* The blocks of a table file up to the n-th, written over an empty file
BlocksWritten(p, content, n) ==
    LET written[m \in Nat] ==
            IF m = 0 THEN [content |-> <<>>, cache |-> cache]
            ELSE BlockWritten(written[m - 1], p, m - 1, BlockOf(content, m - 1))
    IN  written[n]

\* WriteFile truncates the file to nothing, writes its blocks and cuts the padding off
WriteFile ==
    \E p \in TableFiles : \E content \in Contents(MaxLength) :
        LET done == BlocksWritten(p, content, BlockCount(Len(content)))
        IN  /\ disk' = WithFile(disk, p, Resized(done.content, Len(content)))
            /\ intended' = WithFile(intended, p, content)
            /\ cache' = done.cache
            /\ UNCHANGED unsized

WriteFileFails ==
    \E p \in TableFiles : \E content \in Contents(MaxLength) :
        \E n \in 0..BlockCount(Len(content)) :
            LET done == BlocksWritten(p, content, n)
            IN  /\ disk' = WithFile(disk, p, done.content)
                /\ intended' = WithFile(intended, p, Resized(content, n * BlockSize))
                /\ cache' = done.cache
                /\ UNCHANGED unsized

\* Reset of the log, which does not tell the manager
RemoveFile ==
    \E p \in LogFiles \cap DOMAIN disk :
        /\ disk' = [q \in DOMAIN disk \ {p} |-> disk[q]]
        /\ intended' = [q \in DOMAIN intended \ {p} |-> intended[q]]
        /\ unsized' = unsized \ {p}
        /\ UNCHANGED cache

\* The process ends and another begins
Restart ==
    /\ cache # <<>>
    /\ cache' = <<>>
    /\ unsized' = unsized \cap DOMAIN disk
    /\ UNCHANGED <<disk, intended>>

Init ==
    /\ disk = [p \in {} |-> <<>>]
    /\ cache = <<>>
    /\ intended = [p \in {} |-> <<>>]
    /\ unsized = {}

Next ==
    \/ ReadBlock \/ EnsureFileSize \/ EnsureFileSizeFails \/ WriteAt \/ WriteFile \/ WriteFileFails
    \/ RemoveFile \/ Restart

Spec == Init /\ [][Next]_vars

-----------------------------------------------------------------------------
(* Properties *)

\* A cached block of a file that exists, within the file, is what the file holds, with
\* zeros after its end: a read through the cache and one from the disk are the same,
\* although log files are removed behind the cache's back and table files truncated
\* under it (block/manager.go:180-185, 307-343, 367-399; wal.go:183-197).  Only a log
\* file that was missing and could not be sized may have blocks of an earlier one.
BlocksCoherent ==
    \A p \in DOMAIN disk \ unsized : \A i \in 0..BlockCount(Len(disk[p])) - 1 :
        Cached(cache, <<p, i>>) => CachedValue(cache, <<p, i>>) = BlockOf(disk[p], i)

\* Every file holds exactly the bytes its writers put there: no write of part of a
\* block brings back bytes that a stale block kept, and no padding is left in a file
\* that was written to its end (block/manager.go:190-231, 333-343).  Again a log file
\* that could not be sized is no such file.
FilesAsIntended ==
    intended = [p \in DOMAIN disk \ unsized |-> disk[p]]
=============================================================================
