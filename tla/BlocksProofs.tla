----------------------------- MODULE BlocksProofs -----------------------------
(***************************************************************************)
(* The block cache shows what the files hold, and the files hold what was  *)
(* written to them, for every size of a block, a log and a cache and every *)
(* number of files.                                                        *)
(*                                                                         *)
(* An operation works on one file, block after block.  The lemmas follow   *)
(* the content of that file and the cache from one block to the next: the  *)
(* entries of other files are kept or evicted, and those of the blocks     *)
(* that the operation has reached agree with the content.                  *)
(***************************************************************************)
EXTENDS Blocks, CommonProofs

-----------------------------------------------------------------------------
(* The inductive invariant *)

Paths == LogFiles \cup TableFiles

Block == [1..BlockSize -> Bytes]

BlockLists == Lists(Paths \X Nat, Block)

Typed ==
    /\ DOMAIN disk \in SUBSET Paths
    /\ disk \in [DOMAIN disk -> Seq(Bytes)]
    /\ unsized \in SUBSET LogFiles
    /\ cache \in BlockLists

\* A list of the cache: no block twice, and none that a log file cannot have
ListKept(c) ==
    /\ Single(c)
    /\ Len(c) <= CacheCapacity
    /\ \A j \in DOMAIN c : c[j].key[1] \in LogFiles => c[j].key[2] < LogBlocks

\* A log file has its fixed length, or less when it could not be sized
LogsSized ==
    \A p \in LogFiles \cap DOMAIN disk :
        /\ Len(disk[p]) <= LogSize
        /\ p \notin unsized => Len(disk[p]) = LogSize

\* The entries for blocks N of file p agree with its content
Agrees(c, p, content, N) ==
    \A j \in DOMAIN c :
        c[j].key[1] = p /\ c[j].key[2] \in N => c[j].value = BlockOf(content, c[j].key[2])

Within(content) == {k \in Nat : k < BlockCount(Len(content))}

CacheCoherent == \A p \in DOMAIN disk \ unsized : Agrees(cache, p, disk[p], Within(disk[p]))

BlocksInv == Typed /\ ListKept(cache) /\ LogsSized /\ CacheCoherent /\ FilesAsIntended

-----------------------------------------------------------------------------
(* Blocks and bytes *)

\* The bytes before block i
Start(i) == i * BlockSize

LEMMA StartIs ==
    /\ BlockSize \in Nat \ {0}
    /\ Start(0) = 0
    /\ \A i \in Nat : Start(i) \in Nat /\ Start(i + 1) = Start(i) + BlockSize
    /\ \A i, j \in Nat : i < j => Start(i + 1) <= Start(j)
    /\ \A i, j \in Nat : i <= j => Start(i) <= Start(j)
<1>1. BlockSize \in Nat \ {0}
    BY BlocksAssumption
<1>2. \A b \in Nat, i \in Nat : i * b \in Nat /\ (i + 1) * b = i * b + b /\ 0 * b = 0
    OBVIOUS
<1>3. \A b \in Nat, i, j \in Nat : i <= j => i * b <= j * b
    OBVIOUS
<1>4. \A i, j \in Nat : i < j => i + 1 <= j /\ i + 1 \in Nat
    OBVIOUS
<1> QED BY <1>1, <1>2, <1>3, <1>4 DEF Start

\* Byte n, counted from zero, is in block n \div BlockSize
LEMMA DivIs ==
    ASSUME NEW n \in Nat
    PROVE  /\ n \div BlockSize \in Nat
           /\ Start(n \div BlockSize) <= n
           /\ n < Start(n \div BlockSize) + BlockSize
           /\ \A i \in Nat : n \div BlockSize = i <=> Start(i) <= n /\ n < Start(i) + BlockSize
<1>1. BlockSize \in Nat \ {0}
    BY BlocksAssumption
<1>2. \A b \in Nat \ {0} : n \div b \in Nat /\ (n \div b) * b <= n /\ n < (n \div b) * b + b
    OBVIOUS
<1>3. /\ n \div BlockSize \in Nat
      /\ Start(n \div BlockSize) <= n /\ n < Start(n \div BlockSize) + BlockSize
    BY <1>1, <1>2 DEF Start
<1>4. ASSUME NEW i \in Nat, Start(i) <= n, n < Start(i) + BlockSize
      PROVE  n \div BlockSize = i
    <2>1. PICK d \in Nat : d = n \div BlockSize
        BY <1>3
    <2>2. d < i => Start(d) + BlockSize <= Start(i)
        BY <2>1, StartIs
    <2>3. i < d => Start(i) + BlockSize <= Start(d)
        BY <2>1, StartIs
    <2>4. Start(d) \in Nat /\ Start(i) \in Nat
        BY <2>1, StartIs
    <2>5. ~(d < i) /\ ~(i < d)
        BY <1>1, <1>3, <1>4, <2>1, <2>2, <2>3, <2>4
    <2> QED BY <2>1, <2>5
<1> QED BY <1>3, <1>4

LEMMA BlockCountIs ==
    ASSUME NEW size \in Nat
    PROVE  /\ BlockCount(size) \in Nat
           /\ \A i \in Nat : i < BlockCount(size) <=> Start(i) < size
           /\ size <= Start(BlockCount(size))
<1>1. size + BlockSize - 1 \in Nat /\ BlockSize \in Nat \ {0}
    BY BlocksAssumption
<1>2. PICK n \in Nat : n = BlockCount(size)
    BY <1>1, DivIs DEF BlockCount
<1>3. Start(n) <= size + BlockSize - 1 /\ size + BlockSize - 1 < Start(n) + BlockSize
    BY <1>1, <1>2, DivIs DEF BlockCount
<1>4. Start(n) \in Nat
    BY StartIs
<1>5. size <= Start(n)
    BY <1>1, <1>3, <1>4
<1>6. ASSUME NEW i \in Nat
      PROVE  i < n <=> Start(i) < size
    <2>1. Start(i) \in Nat /\ Start(i + 1) = Start(i) + BlockSize
        BY StartIs
    <2>2. CASE i < n
        <3>1. Start(i + 1) <= Start(n)
            BY <2>2, StartIs
        <3> QED BY <1>1, <1>3, <1>4, <2>1, <2>2, <3>1
    <2>3. CASE ~(i < n)
        <3>1. Start(n) <= Start(i)
            BY <2>3, StartIs
        <3> QED BY <1>4, <1>5, <2>1, <2>3, <3>1
    <2> QED BY <2>2, <2>3
<1> QED BY <1>2, <1>5, <1>6

LEMMA LogSizeIs ==
    /\ LogBlocks \in Nat \ {0}
    /\ LogSize = Start(LogBlocks)
    /\ LogSize \in Nat \ {0}
    /\ BlockCount(LogSize) = LogBlocks
<1>1. LogBlocks \in Nat \ {0} /\ LogSize = Start(LogBlocks)
    BY BlocksAssumption DEF LogSize, Start
<1>2. 0 < LogBlocks
    BY <1>1
<1>3. LogSize \in Nat \ {0}
    BY <1>1, <1>2, StartIs
<1>4. PICK n \in Nat : n = BlockCount(LogSize)
    BY <1>3, BlockCountIs
<1>5. ~(n < LogBlocks)
    <2>1. n < LogBlocks => Start(n + 1) <= LogSize
        BY <1>1, <1>4, StartIs
    <2>2. LogSize <= Start(n)
        BY <1>3, <1>4, BlockCountIs
    <2>3. Start(n + 1) = Start(n) + BlockSize /\ Start(n) \in Nat /\ BlockSize \in Nat \ {0}
        BY <1>4, StartIs
    <2> QED BY <1>3, <2>1, <2>2, <2>3
<1>6. ~(LogBlocks < n)
    BY <1>1, <1>3, <1>4, BlockCountIs
<1> QED BY <1>1, <1>3, <1>4, <1>5, <1>6

-----------------------------------------------------------------------------
(* The contents of files *)

LEMMA FilledIs ==
    ASSUME NEW n \in Nat, NEW f \in [1..n -> Bytes]
    PROVE  f \in Seq(Bytes) /\ Len(f) = n /\ DOMAIN f = 1..n
BY LenProperties, SeqDef

LEMMA ContentIs ==
    ASSUME NEW content \in Seq(Bytes)
    PROVE  /\ Len(content) \in Nat /\ DOMAIN content = 1..Len(content)
           /\ content \in [1..Len(content) -> Bytes]
           /\ \A j \in 1..Len(content) : content[j] \in Bytes
BY LenProperties, ElementOfSeq

LEMMA SameContent ==
    ASSUME NEW s \in Seq(Bytes), NEW t \in Seq(Bytes), Len(s) = Len(t),
           \A j \in 1..Len(s) : s[j] = t[j]
    PROVE  s = t
BY SeqEqual, ContentIs

LEMMA SameBlock ==
    ASSUME NEW b \in Block, NEW c \in Block, \A j \in 1..BlockSize : b[j] = c[j]
    PROVE  b = c
<1>1. b = [j \in 1..BlockSize |-> b[j]] /\ c = [j \in 1..BlockSize |-> c[j]]
    BY DEF Block
<1> QED BY <1>1

LEMMA BlockOfIs ==
    ASSUME NEW content \in Seq(Bytes), NEW i \in Nat
    PROVE  /\ BlockOf(content, i) \in Block
           /\ \A j \in 1..BlockSize :
                  BlockOf(content, i)[j] =
                      IF Start(i) + j <= Len(content) THEN content[Start(i) + j] ELSE 0
<1>0. Start(i) \in Nat /\ BlockSize \in Nat
    BY StartIs
<1>1. \A j \in 1..BlockSize : Start(i) + j \in Nat \ {0}
    BY <1>0
<1>2. \A j \in 1..BlockSize : Start(i) + j <= Len(content) => content[Start(i) + j] \in Bytes
    BY <1>1, ContentIs
<1>3. BlockOf(content, i) =
          [j \in 1..BlockSize |->
               IF Start(i) + j <= Len(content) THEN content[Start(i) + j] ELSE 0]
    BY DEF BlockOf, Start
<1>4. 0 \in Bytes
    BY BlocksAssumption
<1> QED BY <1>2, <1>3, <1>4 DEF Block

LEMMA ResizedIs ==
    ASSUME NEW content \in Seq(Bytes), NEW size \in Nat
    PROVE  /\ Resized(content, size) \in Seq(Bytes)
           /\ Len(Resized(content, size)) = size
           /\ \A j \in 1..size :
                  Resized(content, size)[j] = IF j <= Len(content) THEN content[j] ELSE 0
<1>1. 0 \in Bytes
    BY BlocksAssumption
<1>2. Resized(content, size) \in [1..size -> Bytes]
    BY <1>1, ContentIs DEF Resized
<1>3. \A j \in 1..size :
          Resized(content, size)[j] = IF j <= Len(content) THEN content[j] ELSE 0
    BY DEF Resized
<1> QED BY <1>2, <1>3, FilledIs

LEMMA PlacedIs ==
    ASSUME NEW content \in Seq(Bytes), NEW i \in Nat, NEW block \in Block
    PROVE  /\ Placed(content, i, block) \in Seq(Bytes)
           /\ Len(Placed(content, i, block)) =
                  IF Len(content) > Start(i) + BlockSize THEN Len(content)
                  ELSE Start(i) + BlockSize
           /\ \A j \in 1..Len(Placed(content, i, block)) :
                  Placed(content, i, block)[j] =
                      IF Start(i) < j /\ j <= Start(i) + BlockSize THEN block[j - Start(i)]
                      ELSE IF j <= Len(content) THEN content[j] ELSE 0
<1> DEFINE w == Placed(content, i, block)
           start == Start(i)
           n == IF Len(content) > start + BlockSize THEN Len(content) ELSE start + BlockSize
           v == [j \in 1..n |-> IF start < j /\ j <= start + BlockSize THEN block[j - start]
                                ELSE IF j <= Len(content) THEN content[j] ELSE 0]
<1>1. start \in Nat /\ Start(i + 1) = start + BlockSize /\ BlockSize \in Nat \ {0}
    BY StartIs
<1>2. n \in Nat
    BY <1>1, ContentIs
<1>3. w = [j \in 1..n |-> IF (j - 1) \div BlockSize = i THEN block[j - start]
                          ELSE IF j <= Len(content) THEN content[j] ELSE 0]
    BY <1>1 DEF Placed, Start
<1>4. \A j \in 1..n : (j - 1) \div BlockSize = i <=> start < j /\ j <= start + BlockSize
    <2> TAKE j \in 1..n
    <2>1. j - 1 \in Nat
        BY <1>2
    <2>2. (j - 1) \div BlockSize = i <=> start <= j - 1 /\ j - 1 < start + BlockSize
        BY <2>1, DivIs
    <2> HIDE DEF start, n
    <2> QED BY <1>1, <2>1, <2>2
<1> HIDE DEF n, start
<1>5. w = v
    BY <1>3, <1>4
<1>6. v \in [1..n -> Bytes]
    <2>1. ASSUME NEW j \in 1..n, start < j, j <= start + BlockSize
          PROVE  block[j - start] \in Bytes
        <3>1. j - start \in 1..BlockSize
            BY <1>1, <1>2, <2>1
        <3> QED BY <3>1 DEF Block
    <2>2. \A j \in 1..n : j <= Len(content) => content[j] \in Bytes
        BY ContentIs
    <2>3. 0 \in Bytes
        BY BlocksAssumption
    <2> QED BY <2>1, <2>2, <2>3
<1>7. w \in Seq(Bytes) /\ Len(w) = n
    BY <1>2, <1>5, <1>6, FilledIs
<1> QED BY <1>5, <1>7 DEF n, start

\* Writing a block changes that block and no other
LEMMA BlockOfPlaced ==
    ASSUME NEW content \in Seq(Bytes), NEW i \in Nat, NEW block \in Block, NEW k \in Nat
    PROVE  BlockOf(Placed(content, i, block), k) =
               IF k = i THEN block ELSE BlockOf(content, k)
<1> DEFINE w == Placed(content, i, block)
<1>1. /\ w \in Seq(Bytes)
      /\ Len(w) = IF Len(content) > Start(i) + BlockSize THEN Len(content)
                  ELSE Start(i) + BlockSize
      /\ \A j \in 1..Len(w) :
             w[j] = IF Start(i) < j /\ j <= Start(i) + BlockSize THEN block[j - Start(i)]
                    ELSE IF j <= Len(content) THEN content[j] ELSE 0
    BY PlacedIs
<1>2. /\ Start(i) \in Nat /\ Start(k) \in Nat /\ BlockSize \in Nat \ {0} /\ Len(content) \in Nat
      /\ k < i => Start(k) + BlockSize <= Start(i)
      /\ i < k => Start(i) + BlockSize <= Start(k)
    BY StartIs, ContentIs
<1>3. /\ BlockOf(w, k) \in Block /\ BlockOf(content, k) \in Block
      /\ \A j \in 1..BlockSize :
             /\ BlockOf(w, k)[j] = IF Start(k) + j <= Len(w) THEN w[Start(k) + j] ELSE 0
             /\ BlockOf(content, k)[j] =
                    IF Start(k) + j <= Len(content) THEN content[Start(k) + j] ELSE 0
    BY <1>1, BlockOfIs
<1> HIDE DEF w
<1>4. CASE k = i
    <2>1. ASSUME NEW j \in 1..BlockSize
          PROVE  BlockOf(w, k)[j] = block[j]
        <3>1. PICK q \in Nat : q = Start(k) + j
            BY <1>2
        <3>2. q \in 1..Len(w) /\ q - Start(i) = j /\ Start(i) < q /\ q <= Start(i) + BlockSize
            BY <1>1, <1>2, <1>4, <3>1
        <3>3. w[q] = block[j]
            BY <1>1, <3>2
        <3>4. BlockOf(w, k)[j] = IF q <= Len(w) THEN w[q] ELSE 0
            BY <1>3, <3>1
        <3>5. q <= Len(w)
            BY <1>1, <1>2, <3>2
        <3> QED BY <3>3, <3>4, <3>5
    <2>2. BlockOf(w, k) = block
        BY <1>3, <2>1, SameBlock
    <2> QED BY <1>4, <2>2 DEF w
<1>5. CASE k # i
    <2>1. ASSUME NEW j \in 1..BlockSize
          PROVE  BlockOf(w, k)[j] = BlockOf(content, k)[j]
        <3>0. PICK q \in Nat : q = Start(k) + j
            BY <1>2
        <3>1. q \in Nat \ {0} /\ ~(Start(i) < q /\ q <= Start(i) + BlockSize)
            BY <1>2, <1>5, <3>0
        <3>4. /\ BlockOf(w, k)[j] = IF q <= Len(w) THEN w[q] ELSE 0
              /\ BlockOf(content, k)[j] = IF q <= Len(content) THEN content[q] ELSE 0
            BY <1>3, <3>0
        <3>2. CASE q <= Len(w)
            <4>1. w[q] = IF q <= Len(content) THEN content[q] ELSE 0
                BY <1>1, <3>1, <3>2
            <4> QED BY <3>2, <3>4, <4>1
        <3>3. CASE ~(q <= Len(w))
            <4>1. ~(q <= Len(content))
                BY <1>1, <1>2, <3>1, <3>3
            <4> QED BY <3>3, <3>4, <4>1
        <3> QED BY <3>2, <3>3
    <2>2. BlockOf(w, k) = BlockOf(content, k)
        BY <1>3, <2>1, SameBlock
    <2> QED BY <1>5, <2>2 DEF w
<1> QED BY <1>4, <1>5

-----------------------------------------------------------------------------
(* The cache while a block of file p is read or written *)

\* The entries of the other files are entries that there were before
OthersKept(d, c, p) ==
    \A j \in DOMAIN d : d[j].key[1] # p => \E l \in DOMAIN c : d[j] = c[l]

LEMMA EntryIs ==
    ASSUME NEW c \in BlockLists
    PROVE  /\ Len(c) \in Nat /\ DOMAIN c = 1..Len(c)
           /\ \A j \in DOMAIN c :
                  /\ c[j].key \in Paths \X Nat /\ c[j].value \in Block
                  /\ c[j].key[1] \in Paths /\ c[j].key[2] \in Nat
                  /\ \A p, i : c[j].key = <<p, i>> <=> c[j].key[1] = p /\ c[j].key[2] = i
<1>1. /\ Len(c) \in Nat /\ DOMAIN c = 1..Len(c)
      /\ \A j \in DOMAIN c : c[j].key \in Paths \X Nat /\ c[j].value \in Block
    BY ListIs DEF BlockLists
<1>2. \A k \in Paths \X Nat : /\ k[1] \in Paths /\ k[2] \in Nat
                              /\ \A p, i : k = <<p, i>> <=> k[1] = p /\ k[2] = i
    OBVIOUS
<1> QED BY <1>1, <1>2

LEMMA PutAgrees ==
    ASSUME NEW c \in BlockLists, NEW p \in Paths, NEW i \in Nat, NEW v \in Block
    PROVE  LET d == CachePut(c, CacheCapacity, <<p, i>>, v)
           IN  /\ d \in BlockLists
               /\ ListKept(c) /\ (p \in LogFiles => i < LogBlocks) =>
                      /\ ListKept(d)
                      /\ OthersKept(d, c, p)
                      /\ \A old, new, N :
                             /\ Agrees(c, p, old, N)
                             /\ BlockOf(new, i) = v
                             /\ \A k \in N \ {i} : BlockOf(new, k) = BlockOf(old, k)
                             => Agrees(d, p, new, N \cup {i})
<1> DEFINE key == <<p, i>>
           d == CachePut(c, CacheCapacity, key, v)
<1>1. key \in Paths \X Nat /\ CacheCapacity \in Nat /\ c \in Lists(Paths \X Nat, Block)
    BY BlocksAssumption DEF BlockLists
<1>2. key[1] = p /\ key[2] = i
    OBVIOUS
<1>3. /\ d \in Lists(Paths \X Nat, Block)
      /\ Len(c) <= CacheCapacity => Len(d) <= CacheCapacity
      /\ Len(c) <= CacheCapacity /\ Single(c) =>
             /\ Single(d)
             /\ KeptBut(d, c, key)
             /\ \A j \in DOMAIN d : d[j].key = key => d[j].value = v
    <2> DEFINE K == Paths \X Nat
    <2>1. key \in K /\ CacheCapacity \in Nat /\ c \in Lists(K, Block)
        BY <1>1
    <2> HIDE DEF key, K
    <2>2. /\ d \in Lists(K, Block)
          /\ Len(c) <= CacheCapacity => Len(d) <= CacheCapacity
          /\ Len(c) <= CacheCapacity /\ Single(c) =>
                 /\ Single(d)
                 /\ KeptBut(d, c, key)
                 /\ \A j \in DOMAIN d : d[j].key = key => d[j].value = v
        BY <2>1, PutIs
    <2> QED BY <2>2 DEF K
<1> HIDE DEF d
<1>4. d \in BlockLists
    BY <1>3 DEF BlockLists
<1>5. ASSUME ListKept(c), p \in LogFiles => i < LogBlocks
      PROVE  /\ ListKept(d)
             /\ OthersKept(d, c, p)
             /\ \A old, new, N :
                    /\ Agrees(c, p, old, N)
                    /\ BlockOf(new, i) = v
                    /\ \A k \in N \ {i} : BlockOf(new, k) = BlockOf(old, k)
                    => Agrees(d, p, new, N \cup {i})
    <2>1. /\ Single(d) /\ Len(d) <= CacheCapacity
          /\ \A j \in DOMAIN d : d[j].key = key => d[j].value = v
          /\ \A j \in DOMAIN d : d[j].key # key => \E l \in DOMAIN c : d[j] = c[l]
        BY <1>3, <1>5 DEF ListKept, KeptBut
    <2>2. \A j \in DOMAIN d : d[j].key = key <=> d[j].key[1] = p /\ d[j].key[2] = i
        BY <1>4, EntryIs
    <2> HIDE DEF key
    <2>3. ListKept(d)
        BY <1>2, <1>5, <2>1, <2>2 DEF ListKept
    <2>4. OthersKept(d, c, p)
        BY <2>1, <2>2 DEF OthersKept
    <2>5. ASSUME NEW old, NEW new, NEW N, Agrees(c, p, old, N), BlockOf(new, i) = v,
                 \A k \in N \ {i} : BlockOf(new, k) = BlockOf(old, k)
          PROVE  Agrees(d, p, new, N \cup {i})
        BY <2>1, <2>2, <2>5 DEF Agrees
    <2> QED BY <2>3, <2>4, <2>5
<1> QED BY <1>4, <1>5 DEF d

LEMMA GetAgrees ==
    ASSUME NEW c \in BlockLists, NEW k
    PROVE  LET d == CacheGet(c, k)
           IN  /\ d \in BlockLists
               /\ ListKept(c) =>
                      /\ ListKept(d)
                      /\ \A p : OthersKept(d, c, p)
                      /\ \A p, content, N : Agrees(c, p, content, N) => Agrees(d, p, content, N)
<1> DEFINE d == CacheGet(c, k)
<1>1. /\ d \in BlockLists /\ Len(d) = Len(c)
      /\ Single(c) => /\ Single(d)
                      /\ \A j \in DOMAIN d : \E l \in DOMAIN c : d[j] = c[l]
    BY GetIs DEF BlockLists
<1> HIDE DEF d
<1>2. ASSUME ListKept(c)
      PROVE  /\ ListKept(d)
             /\ \A p : OthersKept(d, c, p)
             /\ \A p, content, N : Agrees(c, p, content, N) => Agrees(d, p, content, N)
    BY <1>1, <1>2 DEF ListKept, OthersKept, Agrees
<1> QED BY <1>1, <1>2 DEF d

LEMMA BlockReadIs ==
    ASSUME NEW s, s.content \in Seq(Bytes), s.cache \in BlockLists,
           NEW p \in Paths, NEW i \in Nat
    PROVE  LET r == BlockRead(s, p, i)
           IN  /\ r.block \in Block /\ r.cache \in BlockLists
               /\ ListKept(s.cache) /\ (p \in LogFiles => i < LogBlocks) =>
                      /\ ListKept(r.cache)
                      /\ OthersKept(r.cache, s.cache, p)
                      /\ \A N : Agrees(s.cache, p, s.content, N) /\ i \in N =>
                                    /\ Agrees(r.cache, p, s.content, N)
                                    /\ r.block = BlockOf(s.content, i)
<1> DEFINE r == BlockRead(s, p, i)
           key == <<p, i>>
           v == BlockOf(s.content, i)
<1>1. v \in Block
    BY BlockOfIs
<1>2. CASE Cached(s.cache, key)
    <2>1. r.block = CachedValue(s.cache, key) /\ r.cache = CacheGet(s.cache, key)
        BY <1>2 DEF BlockRead
    <2> HIDE DEF r, v
    <2>2. PICK j \in DOMAIN s.cache : s.cache[j].key = key /\ s.cache[j].value = r.block
        BY <1>2, <2>1, FoundIs
    <2>3. s.cache[j].key[1] = p /\ s.cache[j].key[2] = i /\ r.block \in Block
        BY <2>2, EntryIs
    <2>4. \A N : Agrees(s.cache, p, s.content, N) /\ i \in N => r.block = v
        BY <2>2, <2>3 DEF Agrees, v
    <2> HIDE DEF key
    <2> QED BY <2>1, <2>3, <2>4, GetAgrees DEF r, v
<1>3. CASE ~Cached(s.cache, key)
    <2>1. r.block = v /\ r.cache = CachePut(s.cache, CacheCapacity, key, v)
        BY <1>3 DEF BlockRead
    <2>2. \A N : i \in N => N \cup {i} = N
        OBVIOUS
    <2> HIDE DEF r, v
    <2>3. /\ r.cache \in BlockLists
          /\ ListKept(s.cache) /\ (p \in LogFiles => i < LogBlocks) =>
                 /\ ListKept(r.cache)
                 /\ OthersKept(r.cache, s.cache, p)
                 /\ \A old, new, N :
                        /\ Agrees(s.cache, p, old, N)
                        /\ BlockOf(new, i) = v
                        /\ \A k \in N \ {i} : BlockOf(new, k) = BlockOf(old, k)
                        => Agrees(r.cache, p, new, N \cup {i})
        BY <1>1, <2>1, PutAgrees
    <2>4. \A N : Agrees(s.cache, p, s.content, N) /\ i \in N =>
                     \/ ~(ListKept(s.cache) /\ (p \in LogFiles => i < LogBlocks))
                     \/ Agrees(r.cache, p, s.content, N)
        BY <2>2, <2>3 DEF v
    <2> QED BY <1>1, <2>1, <2>3, <2>4 DEF r, v
<1> QED BY <1>2, <1>3

LEMMA BlockWrittenIs ==
    ASSUME NEW s, s.content \in Seq(Bytes), s.cache \in BlockLists,
           NEW p \in Paths, NEW i \in Nat, NEW block \in Block
    PROVE  LET r == BlockWritten(s, p, i, block)
           IN  /\ r.content = Placed(s.content, i, block)
               /\ r.content \in Seq(Bytes) /\ r.cache \in BlockLists
               /\ r \in [content : Seq(Bytes), cache : BlockLists]
               /\ ListKept(s.cache) /\ (p \in LogFiles => i < LogBlocks) =>
                      /\ ListKept(r.cache)
                      /\ OthersKept(r.cache, s.cache, p)
                      /\ \A N \in SUBSET Nat : Agrees(s.cache, p, s.content, N) =>
                             Agrees(r.cache, p, r.content, N \cup {i})
<1> DEFINE r == BlockWritten(s, p, i, block)
           new == Placed(s.content, i, block)
           c == CachePut(s.cache, CacheCapacity, <<p, i>>, block)
<1>1. r = [content |-> new, cache |-> c]
    BY DEF BlockWritten
<1>2. new \in Seq(Bytes) /\ BlockOf(new, i) = block
    <2>1. new \in Seq(Bytes)
        BY PlacedIs
    <2>2. BlockOf(new, i) = block
        BY BlockOfPlaced
    <2> QED BY <2>1, <2>2
<1>3. \A k \in Nat \ {i} : BlockOf(new, k) = BlockOf(s.content, k)
    BY BlockOfPlaced
<1>4. /\ c \in BlockLists
      /\ ListKept(s.cache) /\ (p \in LogFiles => i < LogBlocks) =>
             /\ ListKept(c)
             /\ OthersKept(c, s.cache, p)
             /\ \A N : /\ Agrees(s.cache, p, s.content, N)
                       /\ BlockOf(new, i) = block
                       /\ \A k \in N \ {i} : BlockOf(new, k) = BlockOf(s.content, k)
                       => Agrees(c, p, new, N \cup {i})
    BY PutAgrees
<1> HIDE DEF r, new, c
<1>5. \A N \in SUBSET Nat : \A k \in N \ {i} : BlockOf(new, k) = BlockOf(s.content, k)
    BY <1>3
<1>6. /\ r.content = new /\ r.cache = c
      /\ r \in [content : Seq(Bytes), cache : BlockLists]
    BY <1>1, <1>2, <1>4
<1>7. ListKept(s.cache) /\ (p \in LogFiles => i < LogBlocks) =>
          \A N \in SUBSET Nat : Agrees(s.cache, p, s.content, N) =>
              Agrees(r.cache, p, r.content, N \cup {i})
    BY <1>2, <1>4, <1>5, <1>6
<1> QED BY <1>2, <1>4, <1>6, <1>7 DEF r, new

-----------------------------------------------------------------------------
(* Block after block *)

\* The cache c without the first n blocks of file p
Forgot(d, c, p, n) ==
    /\ d \in BlockLists /\ ListKept(d)
    /\ \A j \in DOMAIN d : /\ \E l \in DOMAIN c : d[j] = c[l]
                           /\ d[j].key[1] = p => d[j].key[2] >= n

LEMMA ForgotOne ==
    ASSUME NEW c \in BlockLists, NEW p, NEW n \in Nat, NEW d, Forgot(d, c, p, n)
    PROVE  Forgot(CacheDelete(d, <<p, n>>), c, p, n + 1)
<1> DEFINE key == <<p, n>>
           e == CacheDelete(d, key)
<1>1. d \in Lists(Paths \X Nat, Block) /\ Single(d) /\ Len(d) \in Nat
    BY EntryIs DEF Forgot, ListKept, BlockLists
<1>2. /\ e \in BlockLists
      /\ Len(e) <= Len(d)
      /\ KeptBut(e, d, key) /\ Single(e) /\ ~Cached(e, key)
    <2>1. /\ e \in Lists(Paths \X Nat, Block)
          /\ Len(e) = IF Cached(d, key) THEN Len(d) - 1 ELSE Len(d)
          /\ KeptBut(e, d, key)
          /\ Single(d) => Single(e) /\ ~Cached(e, key)
        BY <1>1, DeleteIs
    <2> QED BY <1>1, <2>1 DEF BlockLists
<1> HIDE DEF e
<1>3. \A j \in DOMAIN e : /\ \E l \in DOMAIN d : e[j] = d[l]
                          /\ e[j].key[1] = p => e[j].key[2] # n
    <2> TAKE j \in DOMAIN e
    <2>1. e[j].key # key
        BY <1>2 DEF Cached
    <2> QED BY <1>2, <2>1, EntryIs DEF KeptBut
<1>4. ListKept(e)
    <2>1. Len(d) <= CacheCapacity /\ Len(e) \in Nat /\ CacheCapacity \in Nat
        BY <1>2, EntryIs, BlocksAssumption DEF Forgot, ListKept
    <2>2. Len(e) <= CacheCapacity
        BY <1>1, <1>2, <2>1
    <2> QED BY <1>2, <1>3, <2>2 DEF ListKept, Forgot
<1>5. \A j \in DOMAIN e : /\ \E l \in DOMAIN c : e[j] = c[l]
                          /\ e[j].key[1] = p => e[j].key[2] >= n + 1
    <2> TAKE j \in DOMAIN e
    <2>1. PICK l \in DOMAIN d : e[j] = d[l]
        BY <1>3
    <2>2. e[j].key[2] \in Nat
        BY <1>2, EntryIs
    <2>3. \E m \in DOMAIN c : e[j] = c[m]
        BY <2>1 DEF Forgot
    <2>4. e[j].key[1] = p => e[j].key[2] >= n /\ e[j].key[2] # n
        BY <1>3, <2>1 DEF Forgot
    <2> QED BY <2>2, <2>3, <2>4
<1> QED BY <1>2, <1>4, <1>5 DEF Forgot, e

LEMMA SizedCacheIs ==
    ASSUME cache \in BlockLists, ListKept(cache), NEW p, NEW size \in Nat
    PROVE  Forgot(SizedCache(p, size), cache, p, BlockCount(size))
<1> DEFINE f == CHOOSE f : f = [n \in Nat |-> IF n = 0 THEN cache
                                              ELSE CacheDelete(f[n - 1], <<p, n - 1>>)]
<1>1. SizedCache(p, size) = f[BlockCount(size)]
    BY DEF SizedCache
<1>2. \E g : g = [n \in Nat |-> IF n = 0 THEN cache ELSE CacheDelete(g[n - 1], <<p, n - 1>>)]
    <2> DEFINE step == [n \in Nat |-> [c \in BlockLists |-> CacheDelete(c, <<p, n>>)]]
    <2>1. Numbered(BlockLists, step)
        BY DeleteIs DEF BlockLists, Numbered
    <2>2. PICK g \in [Nat -> BlockLists] : Recursion(g, cache, step)
        <3> HIDE DEF step
        <3> QED BY <2>1, RecursionExists
    <2>3. ASSUME NEW n \in Nat, n # 0
          PROVE  g[n] = CacheDelete(g[n - 1], <<p, n - 1>>)
        <3>1. n - 1 \in Nat /\ n - 1 + 1 = n
            BY <2>3
        <3>2. g[n - 1 + 1] = step[n - 1][g[n - 1]]
            BY <2>2, <3>1 DEF Recursion
        <3> QED BY <3>1, <3>2
    <2>4. g = [n \in Nat |-> IF n = 0 THEN cache ELSE CacheDelete(g[n - 1], <<p, n - 1>>)]
        BY <2>2, <2>3 DEF Recursion
    <2> QED BY <2>4
<1>3. f = [n \in Nat |-> IF n = 0 THEN cache ELSE CacheDelete(f[n - 1], <<p, n - 1>>)]
    BY <1>2
<1> HIDE DEF f
<1>4. /\ f[0] = cache
      /\ \A n \in Nat : f[n + 1] = CacheDelete(f[n], <<p, n>>)
    <2>1. \A n \in Nat : n + 1 \in Nat /\ n + 1 # 0 /\ n + 1 - 1 = n
        OBVIOUS
    <2> QED BY <1>3, <2>1
<1> DEFINE done == {n \in Nat : Forgot(f[n], cache, p, n)}
<1>5. done = Nat
    <2>1. 0 \in done
        BY <1>4, EntryIs DEF Forgot
    <2>2. ASSUME NEW n \in done
          PROVE  n + 1 \in done
        <3>1. n \in Nat /\ n + 1 \in Nat /\ Forgot(f[n], cache, p, n)
            OBVIOUS
        <3>2. f[n + 1] = CacheDelete(f[n], <<p, n>>)
            BY <1>4, <3>1
        <3>3. Forgot(CacheDelete(f[n], <<p, n>>), cache, p, n + 1)
            BY <3>1, ForgotOne
        <3> QED BY <3>1, <3>2, <3>3
    <2>3. done \in SUBSET Nat
        OBVIOUS
    <2> HIDE DEF done
    <2> QED BY <2>1, <2>2, <2>3, Induction
<1>6. BlockCount(size) \in done
    BY <1>5, BlockCountIs
<1> QED BY <1>1, <1>6

LEMMA OthersKeptTwice ==
    ASSUME NEW b, NEW c, NEW d, NEW p, OthersKept(d, c, p), OthersKept(c, b, p)
    PROVE  OthersKept(d, b, p)
<1> SUFFICES ASSUME NEW j \in DOMAIN d, d[j].key[1] # p
             PROVE  \E l \in DOMAIN b : d[j] = b[l]
    BY DEF OthersKept
<1>1. PICK m \in DOMAIN c : d[j] = c[m]
    BY DEF OthersKept
<1> QED BY <1>1 DEF OthersKept

\* An operation between two blocks
Stages == [content : Seq(Bytes), cache : BlockLists]

\* The first m blocks of a table file are written
Written(s, p, content, m) ==
    /\ s \in Stages
    /\ s.content = Resized(content, Start(m))
    /\ ListKept(s.cache)
    /\ OthersKept(s.cache, cache, p)
    /\ Agrees(s.cache, p, s.content, {k \in Nat : k < m})

LEMMA WrittenOne ==
    ASSUME NEW p \in TableFiles, NEW content \in Seq(Bytes), NEW m \in Nat,
           NEW s, Written(s, p, content, m)
    PROVE  Written(BlockWritten(s, p, m, BlockOf(content, m)), p, content, m + 1)
<1> DEFINE block == BlockOf(content, m)
           r == BlockWritten(s, p, m, block)
<1>1. /\ s \in Stages /\ s.content \in Seq(Bytes) /\ s.cache \in BlockLists
      /\ s.content = Resized(content, Start(m))
      /\ ListKept(s.cache) /\ OthersKept(s.cache, cache, p)
      /\ Agrees(s.cache, p, s.content, {k \in Nat : k < m})
    BY DEF Written, Stages
<1>2. block \in Block /\ p \in Paths /\ p \notin LogFiles
    BY BlockOfIs, BlocksAssumption DEF Paths
<1>3. /\ r.content = Placed(s.content, m, block)
      /\ r \in Stages
      /\ ListKept(r.cache) /\ OthersKept(r.cache, s.cache, p)
      /\ Agrees(r.cache, p, r.content, {k \in Nat : k < m} \cup {m})
    <2> DEFINE N == {k \in Nat : k < m}
    <2>1. N \in SUBSET Nat /\ Agrees(s.cache, p, s.content, N)
        BY <1>1
    <2> HIDE DEF N, r, block
    <2>2. /\ r.content = Placed(s.content, m, block)
          /\ r \in [content : Seq(Bytes), cache : BlockLists]
          /\ ListKept(s.cache) /\ (p \in LogFiles => m < LogBlocks) =>
                 /\ ListKept(r.cache)
                 /\ OthersKept(r.cache, s.cache, p)
                 /\ \A M \in SUBSET Nat : Agrees(s.cache, p, s.content, M) =>
                        Agrees(r.cache, p, r.content, M \cup {m})
        BY <1>1, <1>2, BlockWrittenIs DEF r
    <2> QED BY <1>1, <1>2, <2>1, <2>2 DEF Stages, N
<1>4. Placed(s.content, m, block) = Resized(content, Start(m + 1))
    <2> DEFINE w == Placed(s.content, m, block)
               v == Resized(content, Start(m + 1))
    <2>1. /\ Start(m) \in Nat /\ Start(m + 1) \in Nat /\ BlockSize \in Nat \ {0}
          /\ Start(m + 1) = Start(m) + BlockSize /\ Len(content) \in Nat
        BY StartIs, ContentIs
    <2>2. /\ Len(s.content) = Start(m)
          /\ \A j \in 1..Start(m) : s.content[j] = IF j <= Len(content) THEN content[j] ELSE 0
        <3>1. PICK size \in Nat : size = Start(m)
            BY <2>1
        <3>2. /\ Len(Resized(content, size)) = size
              /\ \A j \in 1..size :
                     Resized(content, size)[j] = IF j <= Len(content) THEN content[j] ELSE 0
            BY ResizedIs
        <3>3. s.content = Resized(content, size)
            BY <1>1, <3>1
        <3> QED BY <3>1, <3>2, <3>3
    <2>3. /\ v \in Seq(Bytes) /\ Len(v) = Start(m + 1)
          /\ \A j \in 1..Start(m + 1) : v[j] = IF j <= Len(content) THEN content[j] ELSE 0
        BY <2>1, ResizedIs
    <2>4. /\ w \in Seq(Bytes)
          /\ Len(w) = IF Len(s.content) > Start(m) + BlockSize THEN Len(s.content)
                      ELSE Start(m) + BlockSize
          /\ \A j \in 1..Len(w) :
                 w[j] = IF Start(m) < j /\ j <= Start(m) + BlockSize THEN block[j - Start(m)]
                        ELSE IF j <= Len(s.content) THEN s.content[j] ELSE 0
        BY <1>1, <1>2, PlacedIs
    <2>5. Len(w) = Start(m + 1)
        BY <2>1, <2>2, <2>4
    <2>6. \A l \in 1..BlockSize :
              block[l] = IF Start(m) + l <= Len(content) THEN content[Start(m) + l] ELSE 0
        BY BlockOfIs
    <2> HIDE DEF w, v, block
    <2>7. ASSUME NEW j \in 1..Len(w)
          PROVE  w[j] = v[j]
        <3>1. CASE j <= Start(m)
            <4>1. j \in 1..Start(m) /\ ~(Start(m) < j) /\ j <= Len(s.content)
                BY <2>1, <2>2, <2>5, <3>1
            <4>2. w[j] = s.content[j]
                BY <2>4, <4>1
            <4> QED BY <2>2, <2>3, <2>5, <4>1, <4>2
        <3>2. CASE Start(m) < j
            <4>1. PICK l \in 1..BlockSize : l = j - Start(m) /\ Start(m) + l = j
                BY <2>1, <2>5, <3>2
            <4>2. w[j] = block[l]
                BY <2>1, <2>4, <2>5, <3>2, <4>1
            <4>3. block[l] = IF j <= Len(content) THEN content[j] ELSE 0
                BY <2>6, <4>1
            <4> QED BY <2>3, <2>5, <4>2, <4>3
        <3> QED BY <2>1, <2>5, <3>1, <3>2
    <2>8. w = v
        BY <2>3, <2>4, <2>5, <2>7, SameContent
    <2> QED BY <2>8 DEF w, v
<1>5. {k \in Nat : k < m} \cup {m} = {k \in Nat : k < m + 1}
    OBVIOUS
<1> HIDE DEF r, block
<1>6. OthersKept(r.cache, cache, p)
    BY <1>1, <1>3, OthersKeptTwice
<1>7. Written(r, p, content, m + 1)
    BY <1>3, <1>4, <1>5, <1>6 DEF Written
<1> QED BY <1>7 DEF r, block

LEMMA BlocksWrittenIs ==
    ASSUME cache \in BlockLists, ListKept(cache),
           NEW p \in TableFiles, NEW content \in Seq(Bytes), NEW n \in Nat
    PROVE  Written(BlocksWritten(p, content, n), p, content, n)
<1> DEFINE base == [content |-> <<>>, cache |-> cache]
           f == CHOOSE f : f = [m \in Nat |->
                    IF m = 0 THEN base
                    ELSE BlockWritten(f[m - 1], p, m - 1, BlockOf(content, m - 1))]
<1>1. BlocksWritten(p, content, n) = f[n]
    BY DEF BlocksWritten
<1>0. base \in Stages /\ p \in Paths
    BY EmptySeq DEF Stages, Paths
<1>2. \E g : g = [m \in Nat |-> IF m = 0 THEN base
                       ELSE BlockWritten(g[m - 1], p, m - 1, BlockOf(content, m - 1))]
    <2> DEFINE step == [m \in Nat |-> [s \in Stages |->
                            BlockWritten(s, p, m, BlockOf(content, m))]]
    <2> HIDE DEF base
    <2>1. Numbered(Stages, step)
        <3>1. ASSUME NEW m \in Nat, NEW s \in Stages
              PROVE  BlockWritten(s, p, m, BlockOf(content, m)) \in Stages
            <4>1. /\ s.content \in Seq(Bytes) /\ s.cache \in BlockLists
                  /\ BlockOf(content, m) \in Block
                BY BlockOfIs DEF Stages
            <4> QED BY <1>0, <4>1, BlockWrittenIs DEF Stages
        <3> QED BY <3>1 DEF Numbered
    <2>2. PICK g \in [Nat -> Stages] : Recursion(g, base, step)
        <3> HIDE DEF step
        <3> QED BY <1>0, <2>1, RecursionExists
    <2>3. ASSUME NEW m \in Nat, m # 0
          PROVE  g[m] = BlockWritten(g[m - 1], p, m - 1, BlockOf(content, m - 1))
        <3>1. m - 1 \in Nat /\ m - 1 + 1 = m
            BY <2>3
        <3>2. g[m - 1 + 1] = step[m - 1][g[m - 1]]
            BY <2>2, <3>1 DEF Recursion
        <3> QED BY <3>1, <3>2
    <2>4. g = [m \in Nat |-> IF m = 0 THEN base
                   ELSE BlockWritten(g[m - 1], p, m - 1, BlockOf(content, m - 1))]
        BY <2>2, <2>3 DEF Recursion
    <2> QED BY <2>4
<1>3. f = [m \in Nat |-> IF m = 0 THEN base
               ELSE BlockWritten(f[m - 1], p, m - 1, BlockOf(content, m - 1))]
    <2> HIDE DEF base
    <2> QED BY <1>2
<1> HIDE DEF f
<1>4. /\ f[0] = base
      /\ \A m \in Nat : f[m + 1] = BlockWritten(f[m], p, m, BlockOf(content, m))
    <2>1. \A m \in Nat : m + 1 \in Nat /\ m + 1 # 0 /\ m + 1 - 1 = m
        OBVIOUS
    <2> HIDE DEF base
    <2> QED BY <1>3, <2>1
<1> DEFINE done == {m \in Nat : Written(f[m], p, content, m)}
<1>5. done = Nat
    <2>1. 0 \in done
        <3>1. Resized(content, 0) = <<>>
            <4>1. Resized(content, 0) \in Seq(Bytes) /\ Len(Resized(content, 0)) = 0
                BY ResizedIs
            <4> QED BY <4>1, EmptySeq
        <3>2. base.content = Resized(content, Start(0)) /\ base.cache = cache
            BY <3>1, StartIs
        <3>3. OthersKept(cache, cache, p)
            BY DEF OthersKept
        <3>4. Agrees(cache, p, base.content, {k \in Nat : k < 0})
            BY DEF Agrees
        <3> HIDE DEF base
        <3> QED BY <1>0, <1>4, <3>2, <3>3, <3>4 DEF Written
    <2>2. ASSUME NEW m \in done
          PROVE  m + 1 \in done
        <3>1. m \in Nat /\ m + 1 \in Nat /\ Written(f[m], p, content, m)
            OBVIOUS
        <3>2. Written(BlockWritten(f[m], p, m, BlockOf(content, m)), p, content, m + 1)
            BY <3>1, WrittenOne
        <3> QED BY <1>4, <3>1, <3>2
    <2>3. done \in SUBSET Nat
        OBVIOUS
    <2> HIDE DEF done
    <2> QED BY <2>1, <2>2, <2>3, Induction
<1> QED BY <1>1, <1>5

-----------------------------------------------------------------------------
(* Bytes written into a log file *)

\* The old content with the bytes from the offset on, up to a position
Overlay(old, offset, bytes, upto) ==
    [j \in 1..Len(old) |->
        IF offset < j /\ j <= offset + Len(bytes) /\ j <= upto THEN bytes[j - offset]
        ELSE old[j]]

LEMMA OverIs ==
    ASSUME NEW bytes \in Seq(Bytes), NEW offset \in Nat, NEW m \in Nat, NEW byte \in Bytes
    PROVE  /\ Over(bytes, offset, m, byte) =
                  IF offset < m /\ m <= offset + Len(bytes) THEN bytes[m - offset] ELSE byte
           /\ Over(bytes, offset, m, byte) \in Bytes
<1>1. Len(bytes) \in Nat
    BY ContentIs
<1>2. CASE m \in offset + 1..offset + Len(bytes)
    <2>1. m - offset \in 1..Len(bytes)
        BY <1>1, <1>2
    <2>2. bytes[m - offset] \in Bytes
        BY <2>1, ContentIs
    <2> QED BY <1>1, <1>2, <2>2 DEF Over
<1>3. CASE ~(m \in offset + 1..offset + Len(bytes))
    BY <1>1, <1>3 DEF Over
<1> QED BY <1>2, <1>3

LEMMA OverlaidIs ==
    ASSUME NEW block \in Block, NEW i \in Nat, NEW offset \in Nat, NEW bytes \in Seq(Bytes)
    PROVE  /\ Overlaid(block, i, offset, bytes) \in Block
           /\ \A j \in 1..BlockSize :
                  Overlaid(block, i, offset, bytes)[j] =
                      Over(bytes, offset, Start(i) + j, block[j])
<1> DEFINE v == [j \in 1..BlockSize |-> Over(bytes, offset, Start(i) + j, block[j])]
<1>1. Start(i) \in Nat /\ BlockSize \in Nat /\ Len(bytes) \in Nat
    BY StartIs, ContentIs
<1>2. Overlaid(block, i, offset, bytes) = v
    BY DEF Overlaid, Start
<1>3. ASSUME NEW j \in 1..BlockSize
      PROVE  Over(bytes, offset, Start(i) + j, block[j]) \in Bytes
    <2>1. PICK m \in Nat : m = Start(i) + j
        BY <1>1
    <2>2. block[j] \in Bytes
        BY DEF Block
    <2>3. Over(bytes, offset, m, block[j]) \in Bytes
        BY <2>2, OverIs
    <2> QED BY <2>1, <2>3
<1>4. v \in Block
    BY <1>3 DEF Block
<1> QED BY <1>2, <1>4

\* The bytes are written up to block i: if the cache agreed with a log file of full
\* length, it does so again
PatchedTo(s, p, old, offset, bytes, i) ==
    /\ s \in Stages
    /\ Len(s.content) <= LogSize
    /\ ListKept(s.cache)
    /\ OthersKept(s.cache, cache, p)
    /\ Len(old) = LogSize /\ Agrees(cache, p, old, {k \in Nat : k < LogBlocks}) =>
           /\ Agrees(s.cache, p, s.content, {k \in Nat : k < LogBlocks})
           /\ s.content = Overlay(old, offset, bytes, Start(i))

LEMMA BlockPatchedTyped ==
    ASSUME NEW s \in Stages, NEW p \in Paths, NEW i \in Nat,
           NEW offset \in Nat, NEW bytes \in Seq(Bytes)
    PROVE  BlockPatched(s, p, i, offset, bytes) \in Stages
<1> DEFINE whole == offset <= i * BlockSize /\ (i + 1) * BlockSize <= offset + Len(bytes)
           read == IF whole THEN [block |-> BlockOf(<<>>, 0), cache |-> s.cache]
                   ELSE BlockRead(s, p, i)
           block == Overlaid(read.block, i, offset, bytes)
           mid == [content |-> s.content, cache |-> read.cache]
<1>0. s.content \in Seq(Bytes) /\ s.cache \in BlockLists
    BY DEF Stages
<1>1. read.block \in Block /\ read.cache \in BlockLists
    <2>1. BlockOf(<<>>, 0) \in Block
        BY EmptySeq, BlockOfIs
    <2>2. BlockRead(s, p, i).block \in Block /\ BlockRead(s, p, i).cache \in BlockLists
        BY <1>0, BlockReadIs
    <2> QED BY <1>0, <2>1, <2>2
<1>2. BlockPatched(s, p, i, offset, bytes) = BlockWritten(mid, p, i, block)
    BY DEF BlockPatched
<1> HIDE DEF read
<1>3. block \in Block
    BY <1>1, OverlaidIs
<1>4. mid.content \in Seq(Bytes) /\ mid.cache \in BlockLists
    BY <1>0, <1>1
<1> HIDE DEF block, mid
<1>5. BlockWritten(mid, p, i, block) \in [content : Seq(Bytes), cache : BlockLists]
    BY <1>3, <1>4, BlockWrittenIs
<1> QED BY <1>2, <1>5 DEF Stages

\* What is copied into a block and what the block had before make up the new content
LEMMA OverlayOne ==
    ASSUME NEW old \in Seq(Bytes), NEW offset \in Nat, NEW bytes \in Seq(Bytes),
           NEW i \in Nat, Start(i) + BlockSize <= Len(old), NEW block \in Block,
           \A j \in 1..BlockSize :
               block[j] = Over(bytes, offset, Start(i) + j, old[Start(i) + j])
    PROVE  Placed(Overlay(old, offset, bytes, Start(i)), i, block) =
               Overlay(old, offset, bytes, Start(i + 1))
<1> DEFINE before == Overlay(old, offset, bytes, Start(i))
           after == Overlay(old, offset, bytes, Start(i + 1))
           w == Placed(before, i, block)
<1>1. /\ Start(i) \in Nat /\ Start(i + 1) = Start(i) + BlockSize /\ BlockSize \in Nat \ {0}
      /\ Len(old) \in Nat /\ Len(bytes) \in Nat
    BY StartIs, ContentIs
<1>2. ASSUME NEW upto \in Nat
      PROVE  /\ Overlay(old, offset, bytes, upto) \in Seq(Bytes)
             /\ Len(Overlay(old, offset, bytes, upto)) = Len(old)
             /\ \A j \in 1..Len(old) :
                    Overlay(old, offset, bytes, upto)[j] =
                        IF offset < j /\ j <= offset + Len(bytes) /\ j <= upto
                        THEN bytes[j - offset] ELSE old[j]
    <2>1. ASSUME NEW j \in 1..Len(old), offset < j, j <= offset + Len(bytes)
          PROVE  bytes[j - offset] \in Bytes
        <3>1. j - offset \in 1..Len(bytes)
            BY <1>1, <2>1
        <3> QED BY <3>1, ContentIs
    <2>2. Overlay(old, offset, bytes, upto) \in [1..Len(old) -> Bytes]
        BY <2>1, ContentIs DEF Overlay
    <2>3. \A j \in 1..Len(old) :
              Overlay(old, offset, bytes, upto)[j] =
                  IF offset < j /\ j <= offset + Len(bytes) /\ j <= upto
                  THEN bytes[j - offset] ELSE old[j]
        BY DEF Overlay
    <2> QED BY <1>1, <2>2, <2>3, FilledIs
<1>3. /\ before \in Seq(Bytes) /\ Len(before) = Len(old)
      /\ \A j \in 1..Len(old) :
             before[j] = IF offset < j /\ j <= offset + Len(bytes) /\ j <= Start(i)
                         THEN bytes[j - offset] ELSE old[j]
    BY <1>1, <1>2
<1>4. /\ after \in Seq(Bytes) /\ Len(after) = Len(old)
      /\ \A j \in 1..Len(old) :
             after[j] = IF offset < j /\ j <= offset + Len(bytes) /\ j <= Start(i) + BlockSize
                        THEN bytes[j - offset] ELSE old[j]
    <2>1. PICK upto \in Nat : upto = Start(i + 1) /\ upto = Start(i) + BlockSize
        BY <1>1
    <2> QED BY <1>2, <2>1
<1> HIDE DEF before, after
<1>5. /\ w \in Seq(Bytes) /\ Len(w) = Len(old)
      /\ \A j \in 1..Len(old) :
             w[j] = IF Start(i) < j /\ j <= Start(i) + BlockSize THEN block[j - Start(i)]
                    ELSE before[j]
    <2>1. /\ w \in Seq(Bytes)
          /\ Len(w) = IF Len(before) > Start(i) + BlockSize THEN Len(before)
                      ELSE Start(i) + BlockSize
          /\ \A j \in 1..Len(w) :
                 w[j] = IF Start(i) < j /\ j <= Start(i) + BlockSize THEN block[j - Start(i)]
                        ELSE IF j <= Len(before) THEN before[j] ELSE 0
        BY <1>3, PlacedIs
    <2> HIDE DEF w
    <2>2. Len(w) = Len(old)
        BY <1>1, <1>3, <2>1
    <2>3. \A j \in 1..Len(old) : j <= Len(before)
        BY <1>1, <1>3
    <2> QED BY <2>1, <2>2, <2>3
<1> HIDE DEF w
<1>6. ASSUME NEW j \in 1..Len(old)
      PROVE  w[j] = after[j]
    <2>1. CASE Start(i) < j /\ j <= Start(i) + BlockSize
        <3>0. PICK a \in Nat : a = Start(i)
            BY <1>1
        <3>1. PICK l \in 1..BlockSize : l = j - Start(i) /\ Start(i) + l = j
            <4>1. a < j /\ j <= a + BlockSize /\ j \in Nat /\ BlockSize \in Nat
                BY <1>1, <2>1, <3>0
            <4>2. j - a \in 1..BlockSize /\ a + (j - a) = j
                BY <4>1
            <4> QED BY <3>0, <4>2
        <3>2. block[l] = IF offset < j /\ j <= offset + Len(bytes)
                         THEN bytes[j - offset] ELSE old[j]
            <4>1. block[l] = Over(bytes, offset, Start(i) + l, old[Start(i) + l])
                OBVIOUS
            <4>2. block[l] = Over(bytes, offset, j, old[j])
                BY <3>1, <4>1
            <4> QED BY <4>2 DEF Over
        <3> QED BY <1>4, <1>5, <2>1, <3>1, <3>2
    <2>2. CASE ~(Start(i) < j /\ j <= Start(i) + BlockSize)
        <3>1. w[j] = before[j]
            BY <1>5, <2>2
        <3>2. j <= Start(i) <=> j <= Start(i) + BlockSize
            BY <1>1, <2>2
        <3> QED BY <1>3, <1>4, <3>1, <3>2
    <2> QED BY <2>1, <2>2
<1>7. w = after
    BY <1>4, <1>5, <1>6, SameContent
<1> QED BY <1>7 DEF w, before, after

LEMMA PatchedOne ==
    ASSUME NEW p \in LogFiles, NEW old \in Seq(Bytes), NEW offset \in Nat,
           NEW bytes \in Seq(Bytes), NEW i \in Nat, i < LogBlocks,
           NEW s, PatchedTo(s, p, old, offset, bytes, i)
    PROVE  PatchedTo(BlockPatched(s, p, i, offset, bytes), p, old, offset, bytes, i + 1)
<1> DEFINE whole == offset <= i * BlockSize /\ (i + 1) * BlockSize <= offset + Len(bytes)
           read == IF whole THEN [block |-> BlockOf(<<>>, 0), cache |-> s.cache]
                   ELSE BlockRead(s, p, i)
           block == Overlaid(read.block, i, offset, bytes)
           mid == [content |-> s.content, cache |-> read.cache]
           r == BlockPatched(s, p, i, offset, bytes)
           all == {k \in Nat : k < LogBlocks}
           agreed == Len(old) = LogSize /\ Agrees(cache, p, old, all)
<1>0. /\ s \in Stages /\ s.content \in Seq(Bytes) /\ s.cache \in BlockLists /\ p \in Paths
      /\ Len(s.content) <= LogSize /\ ListKept(s.cache) /\ OthersKept(s.cache, cache, p)
      /\ agreed => /\ Agrees(s.cache, p, s.content, all)
                   /\ s.content = Overlay(old, offset, bytes, Start(i))
    BY DEF PatchedTo, Stages, Paths
<1>a. i \in all /\ all \in SUBSET Nat /\ all \cup {i} = all
    OBVIOUS
<1>b. /\ Start(i) \in Nat /\ Start(i + 1) = Start(i) + BlockSize /\ BlockSize \in Nat \ {0}
      /\ Start(i) + BlockSize <= LogSize /\ LogSize \in Nat /\ Len(bytes) \in Nat
      /\ whole <=> offset <= Start(i) /\ Start(i + 1) <= offset + Len(bytes)
    <2>1. LogBlocks \in Nat /\ LogSize = Start(LogBlocks) /\ LogSize \in Nat
        BY LogSizeIs
    <2>2. whole <=> offset <= Start(i) /\ Start(i + 1) <= offset + Len(bytes)
        BY DEF Start
    <2>3. Start(i + 1) <= Start(LogBlocks)
        BY <2>1, StartIs
    <2> HIDE DEF whole
    <2> QED BY <2>1, <2>2, <2>3, StartIs, ContentIs
<1> HIDE DEF all, agreed, whole
<1>1. /\ read.block \in Block /\ read.cache \in BlockLists
      /\ ListKept(read.cache) /\ OthersKept(read.cache, cache, p)
      /\ agreed => /\ Agrees(read.cache, p, s.content, all)
                   /\ whole \/ read.block = BlockOf(s.content, i)
    <2>1. CASE whole
        <3>1. BlockOf(<<>>, 0) \in Block
            BY EmptySeq, BlockOfIs
        <3> QED BY <1>0, <2>1, <3>1
    <2>2. CASE ~whole
        <3>1. read = BlockRead(s, p, i)
            BY <2>2
        <3> HIDE DEF read
        <3>2. /\ read.block \in Block /\ read.cache \in BlockLists
              /\ ListKept(s.cache) /\ (p \in LogFiles => i < LogBlocks) =>
                     /\ ListKept(read.cache)
                     /\ OthersKept(read.cache, s.cache, p)
                     /\ \A N : Agrees(s.cache, p, s.content, N) /\ i \in N =>
                                   /\ Agrees(read.cache, p, s.content, N)
                                   /\ read.block = BlockOf(s.content, i)
            BY <1>0, <3>1, BlockReadIs
        <3>3. OthersKept(read.cache, cache, p)
            BY <1>0, <3>2, OthersKeptTwice
        <3> QED BY <1>0, <1>a, <3>2, <3>3
    <2> QED BY <2>1, <2>2
<1>2. r = BlockWritten(mid, p, i, block)
    BY DEF BlockPatched, whole
<1> HIDE DEF read
<1>3. /\ block \in Block
      /\ \A j \in 1..BlockSize :
             block[j] = Over(bytes, offset, Start(i) + j, read.block[j])
    <2>1. read.block \in Block
        BY <1>1
    <2>2. \A b \in Block :
              LET c == Overlaid(b, i, offset, bytes)
              IN  c \in Block /\ \A j \in 1..BlockSize :
                                    c[j] = Over(bytes, offset, Start(i) + j, b[j])
        BY OverlaidIs
    <2> QED BY <2>1, <2>2
<1>4. /\ mid.content = s.content /\ mid.cache = read.cache
      /\ mid.content \in Seq(Bytes) /\ mid.cache \in BlockLists
    BY <1>0, <1>1
<1> HIDE DEF block, mid, r
<1>5. /\ r.content = Placed(s.content, i, block)
      /\ r \in Stages
      /\ ListKept(r.cache)
      /\ OthersKept(r.cache, cache, p)
      /\ agreed => Agrees(r.cache, p, r.content, all)
    <2>1. /\ r.content = Placed(mid.content, i, block)
          /\ r \in [content : Seq(Bytes), cache : BlockLists]
          /\ ListKept(mid.cache) /\ (p \in LogFiles => i < LogBlocks) =>
                 /\ ListKept(r.cache)
                 /\ OthersKept(r.cache, mid.cache, p)
                 /\ \A N \in SUBSET Nat : Agrees(mid.cache, p, mid.content, N) =>
                        Agrees(r.cache, p, r.content, N \cup {i})
        BY <1>0, <1>2, <1>3, <1>4, BlockWrittenIs
    <2>2. ListKept(r.cache) /\ OthersKept(r.cache, read.cache, p)
        BY <1>1, <1>4, <2>1
    <2>3. OthersKept(r.cache, cache, p)
        BY <1>1, <2>2, OthersKeptTwice
    <2>4. agreed => Agrees(r.cache, p, r.content, all)
        BY <1>1, <1>4, <1>a, <2>1
    <2> QED BY <1>4, <2>1, <2>2, <2>3, <2>4 DEF Stages
<1>6. Len(r.content) <= LogSize
    <2>1. Len(Placed(s.content, i, block)) =
              IF Len(s.content) > Start(i) + BlockSize THEN Len(s.content)
              ELSE Start(i) + BlockSize
        BY <1>0, <1>3, PlacedIs
    <2> QED BY <1>0, <1>5, <1>b, <2>1
<1>7. ASSUME agreed
      PROVE  r.content = Overlay(old, offset, bytes, Start(i + 1))
    <2>1. Len(old) = LogSize /\ s.content = Overlay(old, offset, bytes, Start(i))
        BY <1>0, <1>7 DEF agreed
    <2>2. ASSUME NEW j \in 1..BlockSize
          PROVE  block[j] = Over(bytes, offset, Start(i) + j, old[Start(i) + j])
        <3>1. PICK q \in Nat : q = Start(i) + j
            BY <1>b
        <3>2. block[j] = Over(bytes, offset, q, read.block[j])
            BY <1>3, <3>1
        <3> SUFFICES block[j] = Over(bytes, offset, q, old[q])
            BY <3>1
        <3>3. CASE whole
            <4>1. PICK a \in Nat, n \in Nat : a = Start(i) /\ n = Len(bytes)
                BY <1>b
            <4>2. offset <= a /\ a + BlockSize <= offset + n /\ q = a + j
                BY <1>b, <3>1, <3>3, <4>1
            <4>3. offset < q /\ q <= offset + n
                BY <4>2, <1>b
            <4> QED BY <3>2, <4>1, <4>3 DEF Over
        <3>4. CASE ~whole /\ ~(offset < q /\ q <= offset + Len(bytes))
            <4>1. read.block = BlockOf(s.content, i)
                BY <1>1, <1>7, <3>4
            <4>2. read.block[j] = IF q <= Len(s.content) THEN s.content[q] ELSE 0
                BY <1>0, <3>1, <4>1, BlockOfIs
            <4>3. q \in 1..Len(old)
                BY <1>b, <2>1, <3>1
            <4>4. s.content[q] = old[q] /\ Len(s.content) = Len(old)
                <5>1. s.content = [k \in 1..Len(old) |->
                          IF offset < k /\ k <= offset + Len(bytes) /\ k <= Start(i)
                          THEN bytes[k - offset] ELSE old[k]]
                    BY <2>1 DEF Overlay
                <5>2. s.content[q] = old[q]
                    BY <3>4, <4>3, <5>1
                <5>3. DOMAIN s.content = 1..Len(s.content) /\ Len(s.content) \in Nat
                    BY <1>0, ContentIs
                <5>4. 1..Len(s.content) = 1..Len(old) /\ Len(old) \in Nat
                    BY <1>b, <2>1, <5>1, <5>3
                <5> QED BY <5>2, <5>3, <5>4
            <4>5. q <= Len(s.content)
                BY <1>b, <2>1, <4>3, <4>4
            <4>6. read.block[j] = old[q]
                BY <4>2, <4>4, <4>5
            <4> QED BY <3>2, <4>6
        <3>5. CASE ~whole /\ offset < q /\ q <= offset + Len(bytes)
            BY <3>2, <3>5 DEF Over
        <3> QED BY <3>3, <3>4, <3>5
    <2>3. Start(i) + BlockSize <= Len(old)
        BY <1>b, <2>1
    <2>4. Placed(Overlay(old, offset, bytes, Start(i)), i, block) =
              Overlay(old, offset, bytes, Start(i + 1))
        BY <1>3, <2>2, <2>3, OverlayOne
    <2> QED BY <1>5, <2>1, <2>4
<1>8. PatchedTo(r, p, old, offset, bytes, i + 1)
    BY <1>5, <1>6, <1>7 DEF PatchedTo, agreed, all
<1> QED BY <1>8 DEF r

\* The bytes are written
PatchedAll(s, p, old, offset, bytes) ==
    /\ s \in Stages
    /\ Len(s.content) <= LogSize
    /\ ListKept(s.cache)
    /\ OthersKept(s.cache, cache, p)
    /\ Len(old) = LogSize /\ Agrees(cache, p, old, {k \in Nat : k < LogBlocks}) =>
           /\ Agrees(s.cache, p, s.content, {k \in Nat : k < LogBlocks})
           /\ s.content = [j \in 1..Len(old) |->
                              IF j \in offset + 1..offset + Len(bytes)
                              THEN bytes[j - offset] ELSE old[j]]

LEMMA PatchedIs ==
    ASSUME cache \in BlockLists, ListKept(cache),
           NEW p \in LogFiles, NEW old \in Seq(Bytes), Len(old) <= LogSize,
           NEW offset \in Nat, NEW bytes \in Seq(Bytes), Len(bytes) > 0,
           offset + Len(bytes) <= LogSize
    PROVE  PatchedAll(Patched([content |-> old, cache |-> cache], p, offset, bytes),
                      p, old, offset, bytes)
<1> DEFINE base == [content |-> old, cache |-> cache]
           first == offset \div BlockSize
           last == (offset + Len(bytes) - 1) \div BlockSize
           f == CHOOSE f : f = [n \in Nat |->
                    IF n = 0 THEN base
                    ELSE BlockPatched(f[n - 1], p, first + n - 1, offset, bytes)]
           whole == Patched(base, p, offset, bytes)
<1>1. whole = f[last - first + 1]
    BY DEF Patched
<1>0. base \in Stages /\ p \in Paths
    BY DEF Stages, Paths
<1>2. /\ first \in Nat /\ last \in Nat /\ first <= last
      /\ last < LogBlocks
      /\ Start(first) <= offset
      /\ offset + Len(bytes) <= Start(last + 1)
    <2>1. /\ Len(bytes) \in Nat /\ BlockSize \in Nat \ {0} /\ LogSize \in Nat
          /\ LogSize = Start(LogBlocks) /\ LogBlocks \in Nat
        BY ContentIs, StartIs, LogSizeIs
    <2>2. PICK e \in Nat : e = offset + Len(bytes) - 1
        <3>1. PICK n \in Nat : n = Len(bytes) /\ n > 0
            BY <2>1
        <3>2. offset + n - 1 \in Nat
            BY <3>1
        <3> QED BY <3>1, <3>2
    <2>3. /\ first \in Nat /\ Start(first) <= offset /\ offset < Start(first) + BlockSize
          /\ last \in Nat /\ Start(last) <= e /\ e < Start(last) + BlockSize
        BY <2>2, DivIs
    <2> HIDE DEF first, last
    <2>4. /\ Start(first) \in Nat /\ Start(last) \in Nat
          /\ Start(last + 1) = Start(last) + BlockSize
          /\ last < first => Start(last) + BlockSize <= Start(first)
          /\ LogBlocks <= last => LogSize <= Start(last)
        BY <2>1, <2>3, StartIs
    <2>5. e < LogSize /\ offset <= e /\ e + 1 = offset + Len(bytes)
        BY <2>1, <2>2
    <2>a. PICK a \in Nat, b \in Nat : a = Start(first) /\ b = Start(last)
        BY <2>4
    <2>b. a <= offset /\ offset < a + BlockSize /\ b <= e /\ e < b + BlockSize
        BY <2>3, <2>a
    <2>6. ~(last < first) /\ ~(LogBlocks <= last)
        <3>1. last < first => b + BlockSize <= a
            BY <2>4, <2>a
        <3>2. LogBlocks <= last => LogSize <= b
            BY <2>4, <2>a
        <3>3. offset < LogSize /\ e < LogSize
            BY <2>1, <2>5
        <3>4. b < LogSize
            BY <2>1, <2>b, <3>3
        <3>5. ~(b + BlockSize <= a)
            BY <2>1, <2>b, <2>5
        <3> QED BY <2>1, <3>1, <3>2, <3>4, <3>5
    <2>7. offset + Len(bytes) <= Start(last + 1)
        <3>1. Start(last + 1) = b + BlockSize
            BY <2>4, <2>a
        <3> QED BY <2>1, <2>5, <2>b, <3>1
    <2> QED BY <2>1, <2>3, <2>6, <2>7
<1> HIDE DEF first, last
<1>3. \E g : g = [n \in Nat |-> IF n = 0 THEN base
                       ELSE BlockPatched(g[n - 1], p, first + n - 1, offset, bytes)]
    <2> DEFINE step == [n \in Nat |-> [s \in Stages |->
                            BlockPatched(s, p, first + n, offset, bytes)]]
    <2> HIDE DEF base
    <2>1. Numbered(Stages, step)
        <3>1. ASSUME NEW n \in Nat, NEW s \in Stages
              PROVE  BlockPatched(s, p, first + n, offset, bytes) \in Stages
            <4>1. PICK i \in Nat : i = first + n
                BY <1>2
            <4> QED BY <1>0, <4>1, BlockPatchedTyped
        <3> QED BY <3>1 DEF Numbered
    <2>2. PICK g \in [Nat -> Stages] : Recursion(g, base, step)
        <3> HIDE DEF step
        <3> QED BY <1>0, <2>1, RecursionExists
    <2>3. ASSUME NEW n \in Nat, n # 0
          PROVE  g[n] = BlockPatched(g[n - 1], p, first + n - 1, offset, bytes)
        <3>1. n - 1 \in Nat /\ n - 1 + 1 = n /\ first + (n - 1) = first + n - 1
            BY <1>2, <2>3
        <3>2. g[n - 1 + 1] = step[n - 1][g[n - 1]]
            BY <2>2, <3>1 DEF Recursion
        <3>3. step[n - 1][g[n - 1]] =
                  BlockPatched(g[n - 1], p, first + (n - 1), offset, bytes)
            BY <3>1
        <3> QED BY <3>1, <3>2, <3>3
    <2>4. g = [n \in Nat |-> IF n = 0 THEN base
                   ELSE BlockPatched(g[n - 1], p, first + n - 1, offset, bytes)]
        BY <2>2, <2>3 DEF Recursion
    <2> QED BY <2>4
<1>4. f = [n \in Nat |-> IF n = 0 THEN base
               ELSE BlockPatched(f[n - 1], p, first + n - 1, offset, bytes)]
    <2> HIDE DEF base
    <2> QED BY <1>3
<1> HIDE DEF f
<1>5. /\ f[0] = base
      /\ \A n \in Nat : f[n + 1] = BlockPatched(f[n], p, first + n, offset, bytes)
    <2> HIDE DEF base
    <2>1. ASSUME NEW n \in Nat
          PROVE  f[n + 1] = BlockPatched(f[n], p, first + n, offset, bytes)
        <3>1. n + 1 \in Nat /\ n + 1 # 0 /\ n + 1 - 1 = n /\ first + (n + 1) - 1 = first + n
            BY <1>2
        <3>2. f[n + 1] = BlockPatched(f[n + 1 - 1], p, first + (n + 1) - 1, offset, bytes)
            BY <1>4, <3>1
        <3> QED BY <3>1, <3>2
    <2> QED BY <1>4, <2>1
<1> DEFINE reached ==
        {n \in Nat : first + n <= last + 1 =>
                         PatchedTo(f[n], p, old, offset, bytes, first + n)}
<1>6. reached = Nat
    <2>1. 0 \in reached
        <3>1. base.content = old /\ base.cache = cache
            OBVIOUS
        <3>2. OthersKept(cache, cache, p)
            BY DEF OthersKept
        <3>3. Overlay(old, offset, bytes, Start(first)) = old
            <4>0. Start(first) \in Nat /\ Len(old) \in Nat
                BY <1>2, StartIs, ContentIs
            <4>1. \A j \in 1..Len(old) : ~(offset < j /\ j <= Start(first))
                BY <1>2, <4>0
            <4>2. Overlay(old, offset, bytes, Start(first)) = [j \in 1..Len(old) |-> old[j]]
                BY <4>1 DEF Overlay
            <4> QED BY <4>2, ContentIs
        <3> HIDE DEF base
        <3>4. PatchedTo(base, p, old, offset, bytes, first)
            BY <1>0, <3>1, <3>2, <3>3 DEF PatchedTo
        <3>5. first + 0 = first
            BY <1>2
        <3> QED BY <1>5, <3>4, <3>5
    <2>2. ASSUME NEW n \in reached
          PROVE  n + 1 \in reached
        <3> SUFFICES ASSUME first + (n + 1) <= last + 1
                     PROVE  PatchedTo(f[n + 1], p, old, offset, bytes, first + (n + 1))
            OBVIOUS
        <3>1. PICK i \in Nat : i = first + n
            BY <1>2
        <3>2. i <= last + 1 /\ i < LogBlocks /\ i + 1 = first + (n + 1)
            BY <1>2, <3>1, LogSizeIs
        <3>3. PatchedTo(f[n], p, old, offset, bytes, i)
            BY <3>1, <3>2
        <3>4. PatchedTo(BlockPatched(f[n], p, i, offset, bytes), p, old, offset, bytes, i + 1)
            BY <3>2, <3>3, PatchedOne
        <3>5. f[n + 1] = BlockPatched(f[n], p, i, offset, bytes)
            BY <1>5, <3>1
        <3> QED BY <3>2, <3>4, <3>5
    <2>3. reached \in SUBSET Nat
        OBVIOUS
    <2> HIDE DEF reached
    <2> QED BY <2>1, <2>2, <2>3, Induction
<1>7. PatchedTo(whole, p, old, offset, bytes, last + 1)
    <2>1. last - first + 1 \in Nat /\ first + (last - first + 1) = last + 1
        BY <1>2
    <2>2. last - first + 1 \in reached
        BY <1>6, <2>1
    <2>3. PatchedTo(f[last - first + 1], p, old, offset, bytes, first + (last - first + 1))
        BY <1>2, <2>1, <2>2
    <2> QED BY <1>1, <2>1, <2>3
<1>8. Overlay(old, offset, bytes, Start(last + 1)) =
          [j \in 1..Len(old) |-> IF j \in offset + 1..offset + Len(bytes)
                                 THEN bytes[j - offset] ELSE old[j]]
    <2>1. Start(last + 1) \in Nat /\ Len(bytes) \in Nat /\ Len(old) \in Nat
        BY <1>2, StartIs, ContentIs
    <2>2. \A j \in 1..Len(old) :
              offset < j /\ j <= offset + Len(bytes) /\ j <= Start(last + 1) <=>
                  j \in offset + 1..offset + Len(bytes)
        BY <1>2, <2>1
    <2> QED BY <2>2 DEF Overlay
<1> HIDE DEF whole
<1>9. /\ whole \in Stages
      /\ Len(whole.content) <= LogSize
      /\ ListKept(whole.cache)
      /\ OthersKept(whole.cache, cache, p)
      /\ Len(old) = LogSize /\ Agrees(cache, p, old, {k \in Nat : k < LogBlocks}) =>
             /\ Agrees(whole.cache, p, whole.content, {k \in Nat : k < LogBlocks})
             /\ whole.content = Overlay(old, offset, bytes, Start(last + 1))
    BY <1>7 DEF PatchedTo
<1> QED BY <1>8, <1>9 DEF whole, PatchedAll

-----------------------------------------------------------------------------
(* The steps *)

LEMMA InvCoherent == BlocksInv => BlocksCoherent
<1> SUFFICES ASSUME BlocksInv, NEW p \in DOMAIN disk \ unsized,
                    NEW i \in 0..BlockCount(Len(disk[p])) - 1, Cached(cache, <<p, i>>)
             PROVE  CachedValue(cache, <<p, i>>) = BlockOf(disk[p], i)
    BY DEF BlocksCoherent
<1>1. disk[p] \in Seq(Bytes) /\ cache \in BlockLists
    BY DEF BlocksInv, Typed
<1>2. Len(disk[p]) \in Nat /\ BlockCount(Len(disk[p])) \in Nat
    BY <1>1, ContentIs, BlockCountIs
<1>3. i \in Within(disk[p])
    BY <1>2 DEF Within
<1> DEFINE key == <<p, i>>
<1>4. PICK j \in DOMAIN cache : cache[j].key = key /\ cache[j].value = CachedValue(cache, key)
    BY FoundIs
<1>5. cache[j].key[1] = p /\ cache[j].key[2] = i
    BY <1>1, <1>4, EntryIs
<1> HIDE DEF key
<1>6. cache[j].value = BlockOf(disk[p], i)
    BY <1>3, <1>5 DEF BlocksInv, CacheCoherent, Agrees
<1> QED BY <1>4, <1>6 DEF key

LEMMA OthersAgree ==
    ASSUME NEW c, NEW d, NEW p, NEW q, p # q, OthersKept(d, c, p),
           NEW content, NEW N, Agrees(c, q, content, N)
    PROVE  Agrees(d, q, content, N)
<1> SUFFICES ASSUME NEW j \in DOMAIN d, d[j].key[1] = q, d[j].key[2] \in N
             PROVE  d[j].value = BlockOf(content, d[j].key[2])
    BY DEF Agrees
<1>1. PICK l \in DOMAIN c : d[j] = c[l]
    BY DEF OthersKept
<1> QED BY <1>1 DEF Agrees

\* A step that gives one file a new content
LEMMA OneFileChanged ==
    ASSUME BlocksInv, NEW p \in Paths, NEW content \in Seq(Bytes),
           disk' = WithFile(disk, p, content),
           cache' \in BlockLists, ListKept(cache'), OthersKept(cache', cache, p),
           unsized' = unsized \/ unsized' = unsized \ {p},
           p \in LogFiles =>
               Len(content) <= LogSize /\ (p \notin unsized' => Len(content) = LogSize),
           p \notin unsized' => Agrees(cache', p, content, Within(content)),
           intended' = IF p \in unsized' THEN intended ELSE WithFile(intended, p, content)
    PROVE  BlocksInv'
<1>1. /\ DOMAIN disk \in SUBSET Paths /\ disk \in [DOMAIN disk -> Seq(Bytes)]
      /\ unsized \in SUBSET LogFiles
      /\ intended = [q \in DOMAIN disk \ unsized |-> disk[q]]
    BY DEF BlocksInv, Typed, FilesAsIntended
<1>2. /\ DOMAIN disk' = DOMAIN disk \cup {p}
      /\ disk' = [q \in DOMAIN disk \cup {p} |-> IF q = p THEN content ELSE disk[q]]
      /\ disk'[p] = content
      /\ \A q \in DOMAIN disk' \ {p} : q \in DOMAIN disk /\ disk'[q] = disk[q]
    BY DEF WithFile
<1>3. \A q \in Paths \ {p} : q \in unsized' <=> q \in unsized
    OBVIOUS
<1>4. Typed'
    <2>1. disk' \in [DOMAIN disk' -> Seq(Bytes)]
        BY <1>1, <1>2
    <2> QED BY <1>1, <1>2, <2>1 DEF Typed
<1>5. LogsSized'
    <2> SUFFICES ASSUME NEW q \in LogFiles \cap DOMAIN disk'
                 PROVE  /\ Len(disk'[q]) <= LogSize
                        /\ q \notin unsized' => Len(disk'[q]) = LogSize
        BY DEF LogsSized
    <2>1. CASE q = p
        BY <1>2, <2>1
    <2>2. CASE q # p
        BY <1>2, <1>3, <2>2 DEF BlocksInv, LogsSized, Paths
    <2> QED BY <2>1, <2>2
<1>6. CacheCoherent'
    <2> SUFFICES ASSUME NEW q \in DOMAIN disk' \ unsized'
                 PROVE  Agrees(cache', q, disk'[q], Within(disk'[q]))
        BY DEF CacheCoherent
    <2>1. CASE q = p
        BY <1>2, <2>1
    <2>2. CASE q # p
        <3>1. q \in DOMAIN disk \ unsized /\ disk'[q] = disk[q]
            BY <1>1, <1>2, <1>3, <2>2
        <3>2. Agrees(cache, q, disk[q], Within(disk[q]))
            BY <3>1 DEF BlocksInv, CacheCoherent
        <3> QED BY <2>2, <3>1, <3>2, OthersAgree
    <2> QED BY <2>1, <2>2
<1>7. FilesAsIntended'
    <2>1. CASE p \in unsized'
        <3>1. unsized' = unsized /\ p \in unsized
            BY <2>1
        <3>2. DOMAIN disk' \ unsized' = DOMAIN disk \ unsized
            BY <1>2, <3>1
        <3>3. \A q \in DOMAIN disk \ unsized : disk'[q] = disk[q]
            BY <1>2, <3>1
        <3> QED BY <1>1, <2>1, <3>2, <3>3 DEF FilesAsIntended
    <2>2. CASE p \notin unsized'
        <3>1. DOMAIN disk' \ unsized' = (DOMAIN disk \ unsized) \cup {p}
            BY <1>1, <1>2, <1>3, <2>2
        <3>2. DOMAIN intended = DOMAIN disk \ unsized
            BY <1>1
        <3>3. intended' = [q \in (DOMAIN disk \ unsized) \cup {p} |->
                              IF q = p THEN content ELSE intended[q]]
            BY <2>2, <3>2 DEF WithFile
        <3>4. \A q \in (DOMAIN disk \ unsized) \cup {p} :
                  (IF q = p THEN content ELSE intended[q]) = disk'[q]
            BY <1>1, <1>2
        <3> QED BY <3>1, <3>3, <3>4 DEF FilesAsIntended
    <2> QED BY <2>1, <2>2
<1> QED BY <1>4, <1>5, <1>6, <1>7 DEF BlocksInv

LEMMA StepReadBlock ==
    ASSUME BlocksInv, ReadBlock
    PROVE  BlocksInv'
<1>0. PICK p \in DOMAIN disk : \E i \in 0..BlockCount(Len(disk[p])) - 1 :
          /\ cache' = BlockRead([content |-> disk[p], cache |-> cache], p, i).cache
          /\ UNCHANGED <<disk, intended, unsized>>
    BY DEF ReadBlock
<1>1. PICK i \in 0..BlockCount(Len(disk[p])) - 1 :
          /\ cache' = BlockRead([content |-> disk[p], cache |-> cache], p, i).cache
          /\ UNCHANGED <<disk, intended, unsized>>
    BY <1>0
<1> DEFINE s == [content |-> disk[p], cache |-> cache]
<1>2. /\ p \in Paths /\ disk[p] \in Seq(Bytes) /\ cache \in BlockLists /\ ListKept(cache)
      /\ Len(disk[p]) \in Nat /\ BlockCount(Len(disk[p])) \in Nat
    BY ContentIs, BlockCountIs DEF BlocksInv, Typed
<1>3. i \in Nat /\ i \in Within(disk[p])
    BY <1>2 DEF Within
<1>4. p \in LogFiles => i < LogBlocks
    <2> SUFFICES ASSUME p \in LogFiles
                 PROVE  i < LogBlocks
        OBVIOUS
    <2>1. Start(i) < Len(disk[p]) /\ Len(disk[p]) <= LogSize
        BY <1>2, <1>3, BlockCountIs DEF Within, BlocksInv, LogsSized
    <2>2. /\ LogSize = Start(LogBlocks) /\ LogSize \in Nat /\ LogBlocks \in Nat
          /\ Start(i) \in Nat /\ (LogBlocks <= i => Start(LogBlocks) <= Start(i))
        BY <1>3, LogSizeIs, StartIs
    <2>3. ~(LogBlocks <= i)
        BY <1>2, <2>1, <2>2
    <2> QED BY <1>3, <2>2, <2>3
<1>5. s.content = disk[p] /\ s.cache = cache /\ cache' = BlockRead(s, p, i).cache
    BY <1>1
<1> HIDE DEF s
<1>6. /\ cache' \in BlockLists /\ ListKept(cache') /\ OthersKept(cache', cache, p)
      /\ \A N : Agrees(cache, p, disk[p], N) /\ i \in N => Agrees(cache', p, disk[p], N)
    BY <1>2, <1>3, <1>4, <1>5, BlockReadIs
<1>7. CacheCoherent'
    <2> SUFFICES ASSUME NEW q \in DOMAIN disk \ unsized
                 PROVE  Agrees(cache', q, disk[q], Within(disk[q]))
        BY <1>1 DEF CacheCoherent
    <2>1. Agrees(cache, q, disk[q], Within(disk[q]))
        BY DEF BlocksInv, CacheCoherent
    <2>2. CASE q = p
        BY <1>3, <1>6, <2>1, <2>2
    <2>3. CASE q # p
        BY <1>6, <2>1, <2>3, OthersAgree
    <2> QED BY <2>2, <2>3
<1> QED BY <1>1, <1>6, <1>7 DEF BlocksInv, Typed, LogsSized, FilesAsIntended

LEMMA StepEnsureFileSize ==
    ASSUME BlocksInv, EnsureFileSize
    PROVE  BlocksInv'
<1>1. PICK p \in LogFiles :
          LET content == Resized(IF p \in DOMAIN disk THEN disk[p] ELSE <<>>, LogSize)
          IN  /\ disk' = WithFile(disk, p, content)
              /\ unsized' = IF p \in DOMAIN disk THEN unsized ELSE unsized \ {p}
              /\ intended' = IF p \in unsized' THEN intended
                             ELSE WithFile(intended, p,
                                  Resized(IF p \in DOMAIN intended THEN intended[p] ELSE <<>>,
                                          LogSize))
              /\ cache' = SizedCache(p, LogSize)
    BY DEF EnsureFileSize
<1> DEFINE old == IF p \in DOMAIN disk THEN disk[p] ELSE <<>>
           content == Resized(old, LogSize)
<1>2. /\ p \in Paths /\ cache \in BlockLists /\ ListKept(cache)
      /\ LogSize \in Nat /\ BlockCount(LogSize) = LogBlocks
      /\ disk \in [DOMAIN disk -> Seq(Bytes)] /\ unsized \in SUBSET LogFiles
      /\ intended = [q \in DOMAIN disk \ unsized |-> disk[q]]
    BY LogSizeIs DEF BlocksInv, Typed, Paths, FilesAsIntended
<1>3. old \in Seq(Bytes)
    BY <1>2, EmptySeq
<1> HIDE DEF old
<1>4. content \in Seq(Bytes) /\ Len(content) = LogSize
    BY <1>2, <1>3, ResizedIs
<1>5. Forgot(cache', cache, p, LogBlocks)
    BY <1>1, <1>2, SizedCacheIs
<1>6. cache' \in BlockLists /\ ListKept(cache') /\ OthersKept(cache', cache, p)
    BY <1>5 DEF Forgot, OthersKept
<1>7. Agrees(cache', p, content, Within(content))
    <2>1. \A k \in Within(content) : k \in Nat /\ k < LogBlocks
        BY <1>2, <1>4 DEF Within
    <2>2. \A j \in DOMAIN cache' : cache'[j].key[1] = p => cache'[j].key[2] >= LogBlocks
        BY <1>5 DEF Forgot
    <2>3. LogBlocks \in Nat
        BY LogSizeIs
    <2> HIDE DEF content
    <2> QED BY <2>1, <2>2, <2>3 DEF Agrees
<1>8. intended' = IF p \in unsized' THEN intended ELSE WithFile(intended, p, content)
    <2> SUFFICES ASSUME p \notin unsized'
                 PROVE  (IF p \in DOMAIN intended THEN intended[p] ELSE <<>>) = old
        BY <1>1
    <2>1. p \in DOMAIN intended <=> p \in DOMAIN disk
        BY <1>1, <1>2
    <2> QED BY <1>2, <2>1 DEF old
<1>9. unsized' = unsized \/ unsized' = unsized \ {p}
    BY <1>1
<1>10. disk' = WithFile(disk, p, content)
    BY <1>1 DEF old
<1> HIDE DEF content
<1>11. Len(content) <= LogSize
    BY <1>2, <1>4
<1> QED BY <1>2, <1>4, <1>11, <1>6, <1>7, <1>8, <1>9, <1>10, OneFileChanged

LEMMA StepEnsureFileSizeFails ==
    ASSUME BlocksInv, EnsureFileSizeFails
    PROVE  BlocksInv'
<1>1. PICK p \in LogFiles \ DOMAIN disk :
          unsized' = unsized \cup {p} /\ UNCHANGED <<disk, cache, intended>>
    BY DEF EnsureFileSizeFails
<1>2. DOMAIN disk \ unsized' = DOMAIN disk \ unsized
    BY <1>1
<1>3. unsized' \in SUBSET LogFiles
    BY <1>1 DEF BlocksInv, Typed
<1> QED BY <1>1, <1>2, <1>3
        DEF BlocksInv, Typed, LogsSized, CacheCoherent, FilesAsIntended

LEMMA StepWriteAt ==
    ASSUME BlocksInv, WriteAt
    PROVE  BlocksInv'
<1>0. PICK p \in LogFiles \cap (DOMAIN disk \cup unsized), offset \in 0..LogSize - 1 :
          \E bytes \in Contents(LogSize - offset) :
            LET old == IF p \in DOMAIN disk THEN disk[p] ELSE <<>>
                end == offset + Len(bytes)
                done == Patched([content |-> old, cache |-> cache], p, offset, bytes)
            IN  /\ disk' = WithFile(disk, p, done.content)
                /\ cache' = done.cache
                /\ intended' = IF p \in unsized THEN intended
                               ELSE [intended EXCEPT ![p] =
                                        [j \in 1..Len(@) |->
                                            IF j \in offset + 1..end THEN bytes[j - offset]
                                            ELSE @[j]]]
                /\ UNCHANGED unsized
    BY DEF WriteAt
<1> DEFINE old == IF p \in DOMAIN disk THEN disk[p] ELSE <<>>
<1>1. PICK bytes \in Contents(LogSize - offset) :
          LET done == Patched([content |-> old, cache |-> cache], p, offset, bytes)
          IN  /\ disk' = WithFile(disk, p, done.content)
              /\ cache' = done.cache
              /\ intended' = IF p \in unsized THEN intended
                             ELSE [intended EXCEPT ![p] =
                                      [j \in 1..Len(intended[p]) |->
                                          IF j \in offset + 1..offset + Len(bytes)
                                          THEN bytes[j - offset] ELSE intended[p][j]]]
              /\ UNCHANGED unsized
    BY <1>0
<1>2. /\ p \in Paths /\ p \in LogFiles /\ cache \in BlockLists /\ ListKept(cache)
      /\ LogSize \in Nat \ {0} /\ LogBlocks \in Nat /\ BlockCount(LogSize) = LogBlocks
      /\ disk \in [DOMAIN disk -> Seq(Bytes)] /\ unsized \in SUBSET LogFiles
      /\ intended = [q \in DOMAIN disk \ unsized |-> disk[q]]
    BY LogSizeIs DEF BlocksInv, Typed, Paths, FilesAsIntended
<1>3. /\ offset \in Nat /\ bytes \in Seq(Bytes) /\ Len(bytes) > 0
      /\ offset + Len(bytes) <= LogSize
    <2>1. PICK n \in 1..LogSize - offset : bytes \in [1..n -> Bytes]
        BY DEF Contents
    <2>2. offset \in Nat /\ n \in Nat /\ n > 0 /\ offset + n <= LogSize
        BY <1>2
    <2>3. bytes \in Seq(Bytes) /\ Len(bytes) = n
        BY <2>1, <2>2, FilledIs
    <2> QED BY <2>2, <2>3
<1>4. /\ old \in Seq(Bytes) /\ Len(old) <= LogSize
      /\ p \notin unsized =>
             Len(old) = LogSize /\ Agrees(cache, p, old, {k \in Nat : k < LogBlocks})
    <2>1. CASE p \in DOMAIN disk
        <3>1. old = disk[p] /\ old \in Seq(Bytes)
            BY <1>2, <2>1
        <3>2. Len(old) <= LogSize /\ (p \notin unsized => Len(old) = LogSize)
            BY <1>2, <2>1, <3>1 DEF BlocksInv, LogsSized
        <3>3. p \notin unsized => Agrees(cache, p, old, Within(old))
            BY <2>1, <3>1 DEF BlocksInv, CacheCoherent
        <3> QED BY <1>2, <3>1, <3>2, <3>3 DEF Within
    <2>2. CASE p \notin DOMAIN disk
        <3>1. old = <<>> /\ p \in unsized
            BY <2>2
        <3> QED BY <1>2, <3>1, EmptySeq
    <2> QED BY <2>1, <2>2
<1> DEFINE done == Patched([content |-> old, cache |-> cache], p, offset, bytes)
<1>5. /\ done \in Stages
      /\ Len(done.content) <= LogSize
      /\ ListKept(done.cache)
      /\ OthersKept(done.cache, cache, p)
      /\ p \notin unsized =>
             /\ Agrees(done.cache, p, done.content, {k \in Nat : k < LogBlocks})
             /\ done.content = [j \in 1..Len(old) |->
                                   IF j \in offset + 1..offset + Len(bytes)
                                   THEN bytes[j - offset] ELSE old[j]]
    <2> HIDE DEF old
    <2>1. /\ cache \in BlockLists /\ ListKept(cache) /\ p \in LogFiles
          /\ old \in Seq(Bytes) /\ Len(old) <= LogSize
        BY <1>2, <1>4
    <2>2. PatchedAll(done, p, old, offset, bytes)
        BY <1>3, <2>1, PatchedIs
    <2> HIDE DEF done
    <2> QED BY <1>4, <2>2 DEF PatchedAll
<1>6. disk' = WithFile(disk, p, done.content) /\ cache' = done.cache /\ unsized' = unsized
    BY <1>1
<1>7. p \notin unsized => Len(done.content) = LogSize
    <2> SUFFICES ASSUME p \notin unsized
                 PROVE  Len(done.content) = LogSize
        OBVIOUS
    <2>1. Len(old) = LogSize /\ DOMAIN done.content = 1..Len(old)
        BY <1>4, <1>5
    <2> HIDE DEF done, old
    <2>2. done.content \in Seq(Bytes)
        BY <1>5 DEF Stages
    <2>3. Len(done.content) \in Nat /\ 1..Len(done.content) = 1..LogSize
        BY <2>1, <2>2, ContentIs
    <2> QED BY <1>2, <2>3
<1>8. intended' = IF p \in unsized' THEN intended ELSE WithFile(intended, p, done.content)
    <2>1. CASE p \in unsized
        BY <1>1, <1>6, <2>1
    <2>2. CASE p \notin unsized
        <3>1. p \in DOMAIN disk /\ p \in DOMAIN intended /\ intended[p] = old
            BY <1>2, <2>2
        <3>2. intended' = [intended EXCEPT ![p] = done.content]
            BY <1>1, <1>5, <2>2, <3>1
        <3>3. intended' = WithFile(intended, p, done.content)
            <4>1. DOMAIN intended \cup {p} = DOMAIN intended
                BY <3>1
            <4> HIDE DEF done
            <4> QED BY <3>2, <4>1 DEF WithFile
        <3> QED BY <1>6, <2>2, <3>3
    <2> QED BY <2>1, <2>2
<1> HIDE DEF done
<1>9. p \notin unsized => Agrees(done.cache, p, done.content, Within(done.content))
    BY <1>2, <1>5, <1>7 DEF Within
<1>10. done.content \in Seq(Bytes) /\ done.cache \in BlockLists
    BY <1>5 DEF Stages
<1> QED BY <1>2, <1>5, <1>6, <1>7, <1>8, <1>9, <1>10, OneFileChanged

\* What n blocks of a content leave in the cache agrees with every content that begins
\* with these blocks
LEMMA WrittenAgrees ==
    ASSUME NEW s, NEW p, NEW content \in Seq(Bytes), NEW n \in Nat, Written(s, p, content, n)
    PROVE  /\ Agrees(s.cache, p, s.content, Within(s.content))
           /\ n = BlockCount(Len(content)) => /\ Resized(s.content, Len(content)) = content
                                              /\ Agrees(s.cache, p, content, Within(content))
<1>1. PICK size \in Nat : size = Start(n)
    BY StartIs
<1>2. /\ s.content = Resized(content, size) /\ s.content \in Seq(Bytes)
      /\ Len(s.content) = size
      /\ \A j \in 1..size : s.content[j] = IF j <= Len(content) THEN content[j] ELSE 0
      /\ Agrees(s.cache, p, s.content, {k \in Nat : k < n})
    <2>1. s.content = Resized(content, size)
        BY <1>1 DEF Written
    <2>2. /\ Resized(content, size) \in Seq(Bytes) /\ Len(Resized(content, size)) = size
          /\ \A j \in 1..size :
                 Resized(content, size)[j] = IF j <= Len(content) THEN content[j] ELSE 0
        BY ResizedIs
    <2>3. Agrees(s.cache, p, s.content, {k \in Nat : k < n})
        BY DEF Written
    <2> QED BY <2>1, <2>2, <2>3
<1>3. Within(s.content) \subseteq {k \in Nat : k < n}
    <2> SUFFICES ASSUME NEW k \in Nat, k < BlockCount(size)
                 PROVE  k < n
        BY <1>2 DEF Within
    <2>1. Start(k) < Start(n)
        BY <1>1, BlockCountIs
    <2>2. n <= k => Start(n) <= Start(k)
        BY StartIs
    <2>3. Start(k) \in Nat /\ Start(n) \in Nat
        BY StartIs
    <2> QED BY <2>1, <2>2, <2>3
<1>4. Agrees(s.cache, p, s.content, Within(s.content))
    BY <1>2, <1>3 DEF Agrees
<1>5. ASSUME n = BlockCount(Len(content))
      PROVE  /\ Resized(s.content, Len(content)) = content
             /\ Agrees(s.cache, p, content, Within(content))
    <2>1. Len(content) \in Nat /\ Len(content) <= size
        BY <1>1, <1>5, ContentIs, BlockCountIs
    <2>2. Resized(s.content, Len(content)) = content
        <3>1. /\ Resized(s.content, Len(content)) \in Seq(Bytes)
              /\ Len(Resized(s.content, Len(content))) = Len(content)
              /\ \A j \in 1..Len(content) :
                     Resized(s.content, Len(content))[j] =
                         IF j <= Len(s.content) THEN s.content[j] ELSE 0
            BY <1>2, <2>1, ResizedIs
        <3>2. \A j \in 1..Len(content) : j <= Len(s.content) /\ s.content[j] = content[j]
            BY <1>2, <2>1
        <3> QED BY <3>1, <3>2, SameContent
    <2>3. ASSUME NEW k \in Nat
          PROVE  BlockOf(s.content, k) = BlockOf(content, k)
        <3>1. /\ BlockOf(s.content, k) \in Block /\ BlockOf(content, k) \in Block
              /\ \A j \in 1..BlockSize :
                     /\ BlockOf(s.content, k)[j] =
                            IF Start(k) + j <= Len(s.content) THEN s.content[Start(k) + j] ELSE 0
                     /\ BlockOf(content, k)[j] =
                            IF Start(k) + j <= Len(content) THEN content[Start(k) + j] ELSE 0
            BY <1>2, BlockOfIs
        <3>2. ASSUME NEW j \in 1..BlockSize
              PROVE  BlockOf(s.content, k)[j] = BlockOf(content, k)[j]
            <4>0. Start(k) \in Nat /\ BlockSize \in Nat \ {0}
                BY StartIs
            <4>1. PICK q \in Nat \ {0} : q = Start(k) + j
                BY <4>0
            <4>2. /\ BlockOf(s.content, k)[j] = IF q <= size THEN s.content[q] ELSE 0
                  /\ BlockOf(content, k)[j] = IF q <= Len(content) THEN content[q] ELSE 0
                BY <1>2, <3>1, <4>1
            <4> QED BY <1>2, <2>1, <4>2
        <3> QED BY <3>1, <3>2, SameBlock
    <2>4. Within(content) = {k \in Nat : k < n}
        BY <1>5 DEF Within
    <2> QED BY <1>2, <2>2, <2>3, <2>4 DEF Agrees
<1> QED BY <1>4, <1>5

LEMMA StepWriteFile ==
    ASSUME BlocksInv, WriteFile
    PROVE  BlocksInv'
<1>0. PICK p \in TableFiles, content \in Contents(MaxLength) :
          LET done == BlocksWritten(p, content, BlockCount(Len(content)))
          IN  /\ disk' = WithFile(disk, p, Resized(done.content, Len(content)))
              /\ intended' = WithFile(intended, p, content)
              /\ cache' = done.cache
              /\ UNCHANGED unsized
    BY DEF WriteFile
<1> DEFINE n == BlockCount(Len(content))
           done == BlocksWritten(p, content, n)
<1>1. /\ content \in Seq(Bytes) /\ Len(content) \in Nat /\ n \in Nat
      /\ p \in Paths /\ p \notin LogFiles /\ p \notin unsized
      /\ cache \in BlockLists /\ ListKept(cache)
    <2>1. content \in Seq(Bytes)
        BY FilledIs, BlocksAssumption DEF Contents
    <2> QED BY <2>1, ContentIs, BlockCountIs, BlocksAssumption DEF BlocksInv, Typed, Paths
<1>2. Written(done, p, content, n)
    BY <1>1, BlocksWrittenIs
<1>3. /\ disk' = WithFile(disk, p, Resized(done.content, Len(content)))
      /\ intended' = WithFile(intended, p, content)
      /\ cache' = done.cache /\ unsized' = unsized
    BY <1>0
<1> HIDE DEF done
<1>4. Resized(done.content, Len(content)) = content /\ Agrees(cache', p, content, Within(content))
    BY <1>1, <1>2, <1>3, WrittenAgrees
<1>5. cache' \in BlockLists /\ ListKept(cache') /\ OthersKept(cache', cache, p)
    BY <1>2, <1>3 DEF Written, Stages
<1> QED BY <1>1, <1>3, <1>4, <1>5, OneFileChanged

LEMMA StepWriteFileFails ==
    ASSUME BlocksInv, WriteFileFails
    PROVE  BlocksInv'
<1>0. PICK p \in TableFiles, content \in Contents(MaxLength) :
          \E n \in 0..BlockCount(Len(content)) :
            LET done == BlocksWritten(p, content, n)
            IN  /\ disk' = WithFile(disk, p, done.content)
                /\ intended' = WithFile(intended, p, Resized(content, n * BlockSize))
                /\ cache' = done.cache
                /\ UNCHANGED unsized
    BY DEF WriteFileFails
<1>1. /\ content \in Seq(Bytes) /\ BlockCount(Len(content)) \in Nat
      /\ p \in Paths /\ p \notin LogFiles /\ p \notin unsized
      /\ cache \in BlockLists /\ ListKept(cache)
    <2>1. content \in Seq(Bytes)
        BY FilledIs, BlocksAssumption DEF Contents
    <2> QED BY <2>1, ContentIs, BlockCountIs, BlocksAssumption DEF BlocksInv, Typed, Paths
<1>2. PICK n \in Nat :
          /\ disk' = WithFile(disk, p, BlocksWritten(p, content, n).content)
          /\ intended' = WithFile(intended, p, Resized(content, n * BlockSize))
          /\ cache' = BlocksWritten(p, content, n).cache
          /\ unsized' = unsized
    BY <1>0, <1>1
<1> DEFINE done == BlocksWritten(p, content, n)
<1>3. Written(done, p, content, n)
    BY <1>1, BlocksWrittenIs
<1>4. /\ disk' = WithFile(disk, p, done.content) /\ cache' = done.cache /\ unsized' = unsized
      /\ intended' = WithFile(intended, p, done.content)
    BY <1>2, <1>3 DEF Written, Start
<1> HIDE DEF done
<1>5. /\ done.content \in Seq(Bytes)
      /\ cache' \in BlockLists /\ ListKept(cache') /\ OthersKept(cache', cache, p)
    BY <1>3, <1>4 DEF Written, Stages
<1>6. Agrees(cache', p, done.content, Within(done.content))
    BY <1>1, <1>3, <1>4, WrittenAgrees
<1> QED BY <1>1, <1>4, <1>5, <1>6, OneFileChanged

LEMMA StepRemoveFile ==
    ASSUME BlocksInv, RemoveFile
    PROVE  BlocksInv'
<1>1. PICK p \in LogFiles \cap DOMAIN disk :
          /\ disk' = [q \in DOMAIN disk \ {p} |-> disk[q]]
          /\ intended' = [q \in DOMAIN intended \ {p} |-> intended[q]]
          /\ unsized' = unsized \ {p}
          /\ UNCHANGED cache
    BY DEF RemoveFile
<1>2. /\ DOMAIN disk \in SUBSET Paths /\ disk \in [DOMAIN disk -> Seq(Bytes)]
      /\ intended = [q \in DOMAIN disk \ unsized |-> disk[q]]
    BY DEF BlocksInv, Typed, FilesAsIntended
<1>3. /\ DOMAIN disk' = DOMAIN disk \ {p}
      /\ \A q \in DOMAIN disk' : disk'[q] = disk[q]
      /\ DOMAIN disk' \ unsized' = (DOMAIN disk \ unsized) \ {p}
      /\ \A q \in DOMAIN disk' : q \in unsized' <=> q \in unsized
    BY <1>1
<1>4. Typed'
    <2>1. disk' \in [DOMAIN disk' -> Seq(Bytes)]
        BY <1>1, <1>2, <1>3
    <2> QED BY <1>1, <1>2, <1>3, <2>1 DEF BlocksInv, Typed
<1>5. LogsSized' /\ CacheCoherent' /\ ListKept(cache')
    BY <1>1, <1>3 DEF BlocksInv, LogsSized, CacheCoherent
<1>6. FilesAsIntended'
    <2>1. DOMAIN intended \ {p} = DOMAIN disk' \ unsized'
        BY <1>2, <1>3
    <2>2. \A q \in DOMAIN disk' \ unsized' : intended[q] = disk'[q]
        BY <1>2, <1>3
    <2> QED BY <1>1, <2>1, <2>2 DEF FilesAsIntended
<1> QED BY <1>4, <1>5, <1>6 DEF BlocksInv

LEMMA EmptyListKept == <<>> \in BlockLists /\ ListKept(<<>>)
<1>1. <<>> \in BlockLists
    BY EmptySeq DEF BlockLists, Lists
<1>2. Len(<<>>) = 0 /\ DOMAIN <<>> = {}
    BY <1>1, EntryIs, EmptySeq
<1>3. CacheCapacity \in Nat
    BY BlocksAssumption
<1> QED BY <1>1, <1>2, <1>3 DEF ListKept, Single

LEMMA StepRestart ==
    ASSUME BlocksInv, Restart
    PROVE  BlocksInv'
<1>1. cache' = <<>> /\ unsized' = unsized \cap DOMAIN disk /\ UNCHANGED <<disk, intended>>
    BY DEF Restart
<1>2. DOMAIN disk \ unsized' = DOMAIN disk \ unsized
    BY <1>1
<1>3. DOMAIN cache' = {}
    BY <1>1
<1>4. CacheCoherent'
    BY <1>3 DEF CacheCoherent, Agrees
<1> QED BY <1>1, <1>2, <1>4, EmptyListKept DEF BlocksInv, Typed, LogsSized, FilesAsIntended

LEMMA InitBlocksInv == Init => BlocksInv
<1> SUFFICES ASSUME Init
             PROVE  BlocksInv
    OBVIOUS
<1>1. DOMAIN disk = {} /\ cache = <<>> /\ unsized = {} /\ intended = disk
    BY DEF Init
<1>2. disk \in [DOMAIN disk -> Seq(Bytes)]
    BY DEF Init
<1>3. Typed
    BY <1>1, <1>2, EmptyListKept DEF Typed
<1>4. FilesAsIntended
    BY DEF Init, FilesAsIntended
<1> QED BY <1>1, <1>3, <1>4, EmptyListKept DEF BlocksInv, LogsSized, CacheCoherent

LEMMA BlocksInvStep == BlocksInv /\ [Next]_vars => BlocksInv'
<1> SUFFICES ASSUME BlocksInv, [Next]_vars
             PROVE  BlocksInv'
    OBVIOUS
<1>1. CASE UNCHANGED vars
    BY <1>1 DEF vars, BlocksInv, Typed, LogsSized, CacheCoherent, FilesAsIntended
<1>2. CASE Next
    BY <1>2, StepReadBlock, StepEnsureFileSize, StepEnsureFileSizeFails, StepWriteAt,
       StepWriteFile, StepWriteFileFails, StepRemoveFile, StepRestart DEF Next
<1> QED BY <1>1, <1>2

-----------------------------------------------------------------------------
(* The theorems *)

\* Files, cache and the sizes of logs are as the operations take them to be, and every
\* entry of the cache agrees with its file.
THEOREM BlocksKept == Spec => []BlocksInv
BY InitBlocksInv, BlocksInvStep, PTL DEF Spec

\* A cached block of a file is what the file holds (block/manager.go:180-185, 307-343,
\* 367-399), for every number of files, size of a block, a log and the cache.
THEOREM CacheIsCoherent == Spec => []BlocksCoherent
BY BlocksKept, InvCoherent, PTL

\* Every file holds exactly the bytes that were written to it (block/manager.go:190-231,
\* 333-343).
THEOREM FilesHoldWhatWasWritten == Spec => []FilesAsIntended
<1>1. BlocksInv => FilesAsIntended
    BY DEF BlocksInv
<1> QED BY <1>1, BlocksKept, PTL

==============================================================================
