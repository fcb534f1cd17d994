---------------------------- MODULE BackendsProofs ----------------------------
(***************************************************************************)
(* Theorems about the backends of a memtable, for all keys: every key has  *)
(* one node of the hash map, in the bucket where an operation looks for    *)
(* it; every level of the skip list leads to the nodes that have it; the   *)
(* B-tree stays one, with its keys in order from end to end; so all three  *)
(* are the map of MemtableBackend.                                         *)
(***************************************************************************)
EXTENDS Backends, CommonProofs, FiniteSetTheorems

\* The operators that HashMap takes from the libraries are those of the libraries
LEMMA HashMapOperators ==
    /\ \A S : HM!Cardinality(S) = Cardinality(S)
    /\ \A S : HM!Min(S) = Min(S)
    /\ \A s : HM!FlattenSeq(s) = FlattenSeq(s)
<1>1. \A S : HM!Cardinality(S) = Cardinality(S)
    BY DEF HM!Cardinality, Cardinality, HM!IsFiniteSet, IsFiniteSet
<1>2. \A S : HM!Min(S) = Min(S)
    BY DEF HM!Min, Min
<1>3. \A s : HM!FlattenSeq(s) = FlattenSeq(s)
    BY DEF HM!FlattenSeq, FlattenSeq
<1> QED BY <1>1, <1>2, <1>3

HashNodes == [key : HashKeys, value : HashValues \cup {Tombstone}]

\* The nodes of a chain, of a table of count buckets, and their keys
NodesIn(chain) == {chain[j] : j \in DOMAIN chain}
AllNodes(table, count) == UNION {NodesIn(table[i]) : i \in 0..count - 1}
KeysOf(held) == {n.key : n \in held}

\* A chain of bucket i: the nodes of keys that hash to it, each once
ChainKept(chain, i, count) ==
    /\ chain \in Seq(HashNodes)
    /\ \A j \in DOMAIN chain : HM!BucketIndex(chain[j].key, count) = i
    /\ \A j, l \in DOMAIN chain : chain[j].key = chain[l].key => j = l

TableKept(table, count) ==
    /\ table = [i \in 0..count - 1 |-> table[i]]
    /\ \A i \in 0..count - 1 : ChainKept(table[i], i, count)

-----------------------------------------------------------------------------
(* Chains *)

LEMMA NodeIs ==
    ASSUME NEW n \in HashNodes
    PROVE  /\ n.key \in HashKeys /\ n.value \in HashValues \cup {Tombstone}
           /\ n = HM!Node(n.key, n.value)
BY DEF HashNodes, HM!Node

LEMMA NodeTyped ==
    ASSUME NEW k \in HashKeys, NEW v \in HashValues \cup {Tombstone}
    PROVE  HM!Node(k, v) \in HashNodes /\ HM!Node(k, v).key = k /\ HM!Node(k, v).value = v
BY DEF HashNodes, HM!Node

LEMMA HomeIs ==
    ASSUME NEW k \in HashKeys, NEW count \in Nat \ {0}
    PROVE  HM!BucketIndex(k, count) \in 0..count - 1
<1>1. \A h \in Nat, c \in Nat \ {0} : h % c \in 0..c - 1
    OBVIOUS
<1>2. Hash[k] \in Nat
    BY HashMapAssumption
<1> QED BY <1>1, <1>2 DEF HM!BucketIndex

LEMMA ChainIs ==
    ASSUME NEW i, NEW count, NEW chain, ChainKept(chain, i, count)
    PROVE  /\ Len(chain) \in Nat /\ DOMAIN chain = 1..Len(chain)
           /\ \A j \in DOMAIN chain : chain[j] \in HashNodes
<1>1. chain \in Seq(HashNodes)
    BY DEF ChainKept
<1> QED BY <1>1, LenProperties, ElementOfSeq

\* A node that is changed where it is
LEMMA ChainChanged ==
    ASSUME NEW i, NEW count, NEW chain, ChainKept(chain, i, count),
           NEW m \in DOMAIN chain, NEW n \in HashNodes, chain[m].key = n.key
    PROVE  LET c == [chain EXCEPT ![m] = n]
           IN  /\ ChainKept(c, i, count)
               /\ NodesIn(c) = {n} \cup {o \in NodesIn(chain) : o.key # n.key}
<1> DEFINE c == [chain EXCEPT ![m] = n]
<1>1. chain \in Seq(HashNodes) /\ DOMAIN c = DOMAIN chain
    BY DEF ChainKept
<1>2. c \in Seq(HashNodes)
    BY <1>1, ExceptSeq
<1>3. \A j \in DOMAIN chain : c[j] = IF j = m THEN n ELSE chain[j]
    BY <1>1, ChainIs
<1> HIDE DEF c
<1>4. \A j \in DOMAIN chain : c[j].key = chain[j].key
    BY <1>3
<1>5. ChainKept(c, i, count)
    BY <1>1, <1>2, <1>4 DEF ChainKept
<1>6. \A j \in DOMAIN chain : j # m => chain[j].key # n.key
    BY DEF ChainKept
<1>7. NodesIn(c) = {n} \cup {o \in NodesIn(chain) : o.key # n.key}
    BY <1>1, <1>3, <1>6 DEF NodesIn
<1> QED BY <1>5, <1>7 DEF c

\* A node with a new key, in front or at the end
LEMMA ChainGrown ==
    ASSUME NEW i, NEW count, NEW chain, ChainKept(chain, i, count),
           NEW n \in HashNodes, HM!BucketIndex(n.key, count) = i,
           \A o \in NodesIn(chain) : o.key # n.key
    PROVE  LET front == <<n>> \o chain
               end == Append(chain, n)
           IN  /\ ChainKept(front, i, count) /\ NodesIn(front) = {n} \cup NodesIn(chain)
               /\ ChainKept(end, i, count) /\ NodesIn(end) = {n} \cup NodesIn(chain)
<1> DEFINE front == <<n>> \o chain
           end == Append(chain, n)
           len == Len(chain)
<1>1. chain \in Seq(HashNodes) /\ len \in Nat /\ DOMAIN chain = 1..len
    BY ChainIs DEF ChainKept
<1>2. \A j \in 1..len : /\ chain[j].key # n.key
                        /\ HM!BucketIndex(chain[j].key, count) = i
                        /\ \A l \in 1..len : chain[j].key = chain[l].key => j = l
    BY <1>1 DEF ChainKept, NodesIn
<1>3. /\ front \in Seq(HashNodes) /\ DOMAIN front = 1..len + 1
      /\ front[1] = n
      /\ \A j \in 2..len + 1 : j - 1 \in 1..len /\ front[j] = chain[j - 1]
    <2>1. <<n>> \in Seq(HashNodes) /\ Len(<<n>>) = 1 /\ <<n>>[1] = n
        OBVIOUS
    <2>2. /\ front \in Seq(HashNodes)
          /\ Len(front) = 1 + len
          /\ \A j \in 1..1 + len : front[j] = IF j <= 1 THEN <<n>>[j] ELSE chain[j - 1]
        BY <1>1, <2>1, ConcatProperties
    <2> HIDE DEF front, len
    <2>3. DOMAIN front = 1..len + 1
        BY <1>1, <2>2, LenProperties
    <2> QED BY <1>1, <2>1, <2>2, <2>3
<1>4. /\ end \in Seq(HashNodes) /\ DOMAIN end = 1..len + 1
      /\ end[len + 1] = n
      /\ \A j \in 1..len : end[j] = chain[j]
    <2>1. /\ end \in Seq(HashNodes)
          /\ Len(end) = len + 1
          /\ \A j \in 1..len : end[j] = chain[j]
          /\ end[len + 1] = n
        BY <1>1, AppendProperties
    <2> HIDE DEF end, len
    <2> QED BY <1>1, <2>1, LenProperties
<1> HIDE DEF front, end, len
<1>5. ChainKept(front, i, count)
    <2>1. ASSUME NEW j \in 1..len + 1, NEW l \in 1..len + 1, front[j].key = front[l].key
          PROVE  j = l
        <3>1. CASE j = 1 /\ l = 1
            BY <3>1
        <3>2. CASE j = 1 /\ l # 1
            <4>1. l \in 2..len + 1
                BY <1>1, <3>2
            <4> QED BY <1>2, <1>3, <2>1, <3>2, <4>1
        <3>3. CASE j # 1 /\ l = 1
            <4>1. j \in 2..len + 1
                BY <1>1, <3>3
            <4> QED BY <1>2, <1>3, <2>1, <3>3, <4>1
        <3>4. CASE j # 1 /\ l # 1
            <4>1. j \in 2..len + 1 /\ l \in 2..len + 1
                BY <1>1, <3>4
            <4>2. j - 1 = l - 1
                BY <1>2, <1>3, <2>1, <4>1
            <4> QED BY <1>1, <4>1, <4>2
        <3> QED BY <3>1, <3>2, <3>3, <3>4
    <2>2. \A j \in 1..len + 1 : j = 1 \/ j \in 2..len + 1
        BY <1>1
    <2>3. \A j \in 1..len + 1 : HM!BucketIndex(front[j].key, count) = i
        BY <1>2, <1>3, <2>2
    <2> QED BY <1>3, <2>1, <2>3 DEF ChainKept
<1>6. NodesIn(front) = {n} \cup NodesIn(chain)
    <2>1. \A j \in 1..len + 1 : j = 1 \/ j \in 2..len + 1
        BY <1>1
    <2>2. ASSUME NEW j \in 1..len
          PROVE  \E l \in 1..len + 1 : front[l] = chain[j]
        <3>1. PICK l \in 2..len + 1 : l - 1 = j
            <4>1. j + 1 \in 2..len + 1 /\ j + 1 - 1 = j
                BY <1>1
            <4> QED BY <4>1
        <3>2. l \in 1..len + 1 /\ front[l] = chain[j]
            BY <1>1, <1>3, <3>1
        <3> QED BY <3>2
    <2>3. 1 \in 1..len + 1
        BY <1>1
    <2>4. NodesIn(front) \subseteq {n} \cup NodesIn(chain)
        BY <1>1, <1>3, <2>1 DEF NodesIn
    <2>5. n \in NodesIn(front)
        BY <1>3, <2>3 DEF NodesIn
    <2>6. ASSUME NEW o \in NodesIn(chain)
          PROVE  o \in NodesIn(front)
        <3>1. PICK j \in 1..len : chain[j] = o
            BY <1>1 DEF NodesIn
        <3>2. PICK l \in 1..len + 1 : front[l] = o
            BY <2>2, <3>1
        <3> QED BY <1>3, <3>2 DEF NodesIn
    <2> QED BY <2>4, <2>5, <2>6
<1>7. \A j \in 1..len + 1 : j = len + 1 \/ j \in 1..len
    BY <1>1
<1>8. ChainKept(end, i, count)
    <2>1. ASSUME NEW j \in 1..len + 1, NEW l \in 1..len + 1, end[j].key = end[l].key
          PROVE  j = l
        BY <1>2, <1>4, <1>7, <2>1
    <2> QED BY <1>2, <1>4, <1>7, <2>1 DEF ChainKept
<1>9. NodesIn(end) = {n} \cup NodesIn(chain)
    <2>1. len + 1 \in 1..len + 1 /\ \A j \in 1..len : j \in 1..len + 1
        BY <1>1
    <2> QED BY <1>1, <1>4, <1>7, <2>1 DEF NodesIn
<1> QED BY <1>5, <1>6, <1>8, <1>9 DEF front, end

-----------------------------------------------------------------------------
(* Tables *)

LEMMA TableIs ==
    ASSUME NEW count, NEW table, TableKept(table, count)
    PROVE  /\ DOMAIN table = 0..count - 1
           /\ \A i \in 0..count - 1 : \A n \in NodesIn(table[i]) :
                  n \in HashNodes /\ HM!BucketIndex(n.key, count) = i
           /\ AllNodes(table, count) \in SUBSET HashNodes
<1>1. \A i \in 0..count - 1 : ChainKept(table[i], i, count)
    BY DEF TableKept
<1>2. \A i \in 0..count - 1 : \A n \in NodesIn(table[i]) :
          n \in HashNodes /\ HM!BucketIndex(n.key, count) = i
    BY <1>1, ChainIs DEF NodesIn, ChainKept
<1> QED BY <1>2 DEF TableKept, AllNodes

\* No two nodes of a table have one key
LEMMA NodesApart ==
    ASSUME NEW count, NEW table, TableKept(table, count),
           NEW m \in AllNodes(table, count), NEW n \in AllNodes(table, count),
           m.key = n.key
    PROVE  m = n
<1>1. PICK i \in 0..count - 1 : m \in NodesIn(table[i])
    BY DEF AllNodes
<1>2. PICK l \in 0..count - 1 : n \in NodesIn(table[l])
    BY DEF AllNodes
<1>3. i = l
    BY <1>1, <1>2, TableIs
<1>4. ChainKept(table[i], i, count)
    BY DEF TableKept
<1> QED BY <1>1, <1>2, <1>3, <1>4 DEF NodesIn, ChainKept

\* One chain is replaced
LEMMA TableReplaced ==
    ASSUME NEW count, NEW table, TableKept(table, count),
           NEW h \in 0..count - 1, NEW c, ChainKept(c, h, count)
    PROVE  LET t == [table EXCEPT ![h] = c]
           IN  /\ TableKept(t, count)
               /\ AllNodes(t, count) =
                      NodesIn(c) \cup UNION {NodesIn(table[i]) : i \in (0..count - 1) \ {h}}
<1> DEFINE t == [table EXCEPT ![h] = c]
<1>1. t = [i \in 0..count - 1 |-> t[i]]
    BY DEF TableKept
<1>2. \A i \in 0..count - 1 : t[i] = IF i = h THEN c ELSE table[i]
    BY DEF TableKept
<1> HIDE DEF t
<1>3. TableKept(t, count)
    BY <1>1, <1>2 DEF TableKept
<1>4. AllNodes(t, count) =
          NodesIn(c) \cup UNION {NodesIn(table[i]) : i \in (0..count - 1) \ {h}}
    BY <1>2 DEF AllNodes
<1> QED BY <1>3, <1>4 DEF t

Changed(table, h, m, n) == [table EXCEPT ![h][m] = n]

LEMMA TableChanged ==
    ASSUME NEW count, NEW table, TableKept(table, count), NEW n \in HashNodes,
           NEW h \in 0..count - 1, NEW m \in DOMAIN table[h], table[h][m].key = n.key
    PROVE  /\ TableKept(Changed(table, h, m, n), count)
           /\ AllNodes(Changed(table, h, m, n), count) =
                  {n} \cup {o \in AllNodes(table, count) : o.key # n.key}
<1> DEFINE c == [table[h] EXCEPT ![m] = n]
           t == [table EXCEPT ![h] = c]
<1>1. Changed(table, h, m, n) = t
    BY DEF Changed
<1>2. ChainKept(table[h], h, count)
    BY DEF TableKept
<1>3. /\ ChainKept(c, h, count)
      /\ NodesIn(c) = {n} \cup {o \in NodesIn(table[h]) : o.key # n.key}
    BY <1>2, ChainChanged
<1> HIDE DEF c
<1>4. /\ TableKept(t, count)
      /\ AllNodes(t, count) =
             NodesIn(c) \cup UNION {NodesIn(table[i]) : i \in (0..count - 1) \ {h}}
    BY <1>3, TableReplaced
<1>5. HM!BucketIndex(n.key, count) = h
    BY <1>2 DEF ChainKept
<1>6. \A i \in (0..count - 1) \ {h} : \A o \in NodesIn(table[i]) : o.key # n.key
    BY <1>5, TableIs
<1>7. AllNodes(t, count) = {n} \cup {o \in AllNodes(table, count) : o.key # n.key}
    BY <1>3, <1>4, <1>6 DEF AllNodes
<1> QED BY <1>1, <1>4, <1>7

LEMMA TableGrown ==
    ASSUME NEW count, NEW table, TableKept(table, count), NEW n \in HashNodes,
           HM!BucketIndex(n.key, count) \in 0..count - 1,
           \A o \in AllNodes(table, count) : o.key # n.key
    PROVE  LET h == HM!BucketIndex(n.key, count)
               front == [table EXCEPT ![h] = <<n>> \o @]
               end == [table EXCEPT ![h] = Append(@, n)]
           IN  /\ TableKept(front, count)
               /\ AllNodes(front, count) = {n} \cup AllNodes(table, count)
               /\ TableKept(end, count)
               /\ AllNodes(end, count) = {n} \cup AllNodes(table, count)
<1> DEFINE h == HM!BucketIndex(n.key, count)
           c == <<n>> \o table[h]
           d == Append(table[h], n)
           front == [table EXCEPT ![h] = c]
           end == [table EXCEPT ![h] = d]
           rest == UNION {NodesIn(table[i]) : i \in (0..count - 1) \ {h}}
<1>1. ChainKept(table[h], h, count) /\ h \in 0..count - 1
    BY DEF TableKept
<1>2. \A o \in NodesIn(table[h]) : o.key # n.key
    BY <1>1 DEF AllNodes
<1>3. /\ ChainKept(c, h, count) /\ NodesIn(c) = {n} \cup NodesIn(table[h])
      /\ ChainKept(d, h, count) /\ NodesIn(d) = {n} \cup NodesIn(table[h])
    BY <1>1, <1>2, ChainGrown
<1>4. AllNodes(table, count) = NodesIn(table[h]) \cup rest
    BY <1>1 DEF AllNodes
<1> HIDE DEF c, d, h
<1>5. TableKept(front, count) /\ AllNodes(front, count) = NodesIn(c) \cup rest
    BY <1>1, <1>3, TableReplaced
<1>6. TableKept(end, count) /\ AllNodes(end, count) = NodesIn(d) \cup rest
    BY <1>1, <1>3, TableReplaced
<1> HIDE DEF rest
<1> QED BY <1>3, <1>4, <1>5, <1>6 DEF c, d, h

-----------------------------------------------------------------------------
(* Resizing *)

\* The nodes of the first i chains, one after the other
Collected(held, table, i) ==
    /\ held \in Seq(HashNodes)
    /\ \A j, l \in DOMAIN held : held[j].key = held[l].key => j = l
    /\ NodesIn(held) = UNION {NodesIn(table[l]) : l \in 0..i - 1}

LEMMA ChainsJoined ==
    ASSUME NEW c \in Seq(HashNodes), NEW d \in Seq(HashNodes),
           \A j, l \in DOMAIN c : c[j].key = c[l].key => j = l,
           \A j, l \in DOMAIN d : d[j].key = d[l].key => j = l,
           \A m \in NodesIn(c), n \in NodesIn(d) : m.key # n.key
    PROVE  LET e == c \o d
           IN  /\ e \in Seq(HashNodes)
               /\ \A j, l \in DOMAIN e : e[j].key = e[l].key => j = l
               /\ NodesIn(e) = NodesIn(c) \cup NodesIn(d)
<1> DEFINE e == c \o d
           m == Len(c)
           n == Len(d)
<1>1. m \in Nat /\ n \in Nat /\ DOMAIN c = 1..m /\ DOMAIN d = 1..n
    BY LenProperties
<1>2. /\ e \in Seq(HashNodes) /\ Len(e) = m + n
      /\ \A j \in 1..m + n : e[j] = IF j <= m THEN c[j] ELSE d[j - m]
    BY ConcatProperties
<1> HIDE DEF e, m, n
<1>3. DOMAIN e = 1..m + n
    BY <1>1, <1>2, LenProperties
<1>4. \A j \in 1..m + n : j \in 1..m \/ (j - m \in 1..n /\ ~(j <= m))
    BY <1>1
<1>5. \A j \in 1..m : j \in 1..m + n /\ j <= m
    BY <1>1
<1>6. ASSUME NEW j \in 1..m + n
      PROVE  \/ j \in 1..m /\ e[j] = c[j] /\ e[j] \in NodesIn(c)
             \/ j - m \in 1..n /\ e[j] = d[j - m] /\ e[j] \in NodesIn(d)
    BY <1>1, <1>2, <1>4, <1>5 DEF NodesIn
<1>7. ASSUME NEW j \in 1..m + n, NEW l \in 1..m + n, e[j].key = e[l].key
      PROVE  j = l
    <2>1. CASE e[j] \in NodesIn(c) /\ e[l] \in NodesIn(c)
        <3>1. \A o \in NodesIn(d) : o # e[j] /\ o # e[l]
            BY <2>1
        <3>2. j \in 1..m /\ l \in 1..m /\ e[j] = c[j] /\ e[l] = c[l]
            BY <1>6, <3>1
        <3> QED BY <1>1, <1>7, <3>2
    <2>2. CASE e[j] \in NodesIn(d) /\ e[l] \in NodesIn(d)
        <3>1. \A o \in NodesIn(c) : o # e[j] /\ o # e[l]
            BY <2>2
        <3>2. j - m \in 1..n /\ l - m \in 1..n /\ e[j] = d[j - m] /\ e[l] = d[l - m]
            BY <1>6, <3>1
        <3>3. j - m = l - m
            BY <1>1, <1>7, <3>2
        <3> QED BY <1>1, <3>3
    <2>3. CASE e[j] \in NodesIn(c) /\ e[l] \in NodesIn(d)
        BY <1>7, <2>3
    <2>4. CASE e[j] \in NodesIn(d) /\ e[l] \in NodesIn(c)
        BY <1>7, <2>4
    <2> QED BY <1>6, <2>1, <2>2, <2>3, <2>4
<1>8. NodesIn(e) = NodesIn(c) \cup NodesIn(d)
    <2>1. NodesIn(e) \subseteq NodesIn(c) \cup NodesIn(d)
        BY <1>3, <1>6 DEF NodesIn
    <2>2. ASSUME NEW o \in NodesIn(c)
          PROVE  o \in NodesIn(e)
        <3>1. PICK j \in 1..m : c[j] = o
            BY <1>1 DEF NodesIn
        <3>2. j \in 1..m + n /\ e[j] = o
            BY <1>2, <1>5, <3>1
        <3> QED BY <1>3, <3>2 DEF NodesIn
    <2>3. ASSUME NEW o \in NodesIn(d)
          PROVE  o \in NodesIn(e)
        <3>1. PICK j \in 1..n : d[j] = o
            BY <1>1 DEF NodesIn
        <3>2. PICK l \in Int : l = j + m
            BY <1>1
        <3>3. l \in 1..m + n /\ l - m = j /\ ~(l <= m)
            BY <1>1, <3>2
        <3>4. e[l] = o
            BY <1>2, <3>1, <3>3
        <3> QED BY <1>3, <3>3, <3>4 DEF NodesIn
    <2> QED BY <2>1, <2>2, <2>3
<1> QED BY <1>2, <1>3, <1>7, <1>8 DEF e

LEMMA NodesOfIs ==
    ASSUME NEW count \in Nat \ {0}, NEW table, TableKept(table, count)
    PROVE  Collected(HM!NodesOf(table, count), table, count)
<1> DEFINE seqs == [i \in 1..count |-> table[i - 1]]
           f == CHOOSE f : f = [i \in 1..Len(seqs) |->
                                   IF i = 1 THEN seqs[i] ELSE f[i - 1] \o seqs[i]]
<1>1. Len(seqs) = count
    OBVIOUS
<1>2. HM!NodesOf(table, count) = f[count]
    BY <1>1, HashMapOperators DEF HM!NodesOf, FlattenSeq
<1>3. \A i \in 0..count - 1 : table[i] \in Seq(HashNodes)
    BY DEF TableKept, ChainKept
<1>4. \A i \in 1..count : i - 1 \in 0..count - 1 /\ seqs[i] = table[i - 1]
    OBVIOUS
<1>5. f = [i \in 1..count |-> IF i = 1 THEN table[i - 1] ELSE f[i - 1] \o table[i - 1]]
    <2>1. \E g : g = [i \in 1..Len(seqs) |->
                         IF i = 1 THEN seqs[i] ELSE g[i - 1] \o seqs[i]]
        <3> DEFINE S == Seq(HashNodes)
                   step == [n \in Nat |-> [s \in S |->
                               IF n + 1 \in 0..count - 1 THEN s \o table[n + 1] ELSE s]]
        <3>1. Numbered(S, step)
            <4>1. \A s \in S, t \in S : s \o t \in S
                BY ConcatProperties
            <4> HIDE DEF S
            <4> QED BY <1>3, <4>1 DEF Numbered, S
        <3>2. table[0] \in S
            BY <1>3
        <3>3. PICK h \in [Nat -> S] : Recursion(h, table[0], step)
            <4> HIDE DEF S, step
            <4> QED BY <3>1, <3>2, RecursionExists
        <3> DEFINE g == [i \in 1..count |-> h[i - 1]]
        <3>4. ASSUME NEW i \in 1..count
              PROVE  g[i] = IF i = 1 THEN table[i - 1] ELSE g[i - 1] \o table[i - 1]
            <4>1. CASE i = 1
                BY <3>3, <4>1 DEF Recursion
            <4>2. CASE i # 1
                <5>1. PICK n \in Nat : n = i - 2 /\ n + 1 = i - 1 /\ n + 1 \in 0..count - 1
                    BY <4>2
                <5>2. h[n + 1] = step[n][h[n]] /\ h[n] \in S
                    BY <3>3 DEF Recursion
                <5>3. h[n + 1] = h[n] \o table[n + 1]
                    BY <5>1, <5>2
                <5>4. i - 1 \in 1..count /\ i - 1 - 1 = n
                    BY <4>2, <5>1
                <5>5. g[i] = h[n + 1] /\ g[i - 1] = h[n]
                    BY <5>1, <5>4
                <5> QED BY <4>2, <5>1, <5>3, <5>5
            <4> QED BY <4>1, <4>2
        <3> HIDE DEF seqs
        <3>5. \A i \in 1..count : g[i] = IF i = 1 THEN seqs[i] ELSE g[i - 1] \o seqs[i]
            BY <1>4, <3>4
        <3>6. g = [i \in 1..Len(seqs) |->
                      IF i = 1 THEN seqs[i] ELSE g[i - 1] \o seqs[i]]
            BY <1>1, <3>5
        <3> QED BY <3>6
    <2>2. f = [i \in 1..Len(seqs) |-> IF i = 1 THEN seqs[i] ELSE f[i - 1] \o seqs[i]]
        BY <2>1
    <2> HIDE DEF f, seqs
    <2> QED BY <1>1, <1>4, <2>2
<1> HIDE DEF f, seqs
<1> DEFINE done == {i \in Nat : i \in 1..count => Collected(f[i], table, i)}
<1>6. done = Nat
    <2>1. 0 \in done
        OBVIOUS
    <2>2. ASSUME NEW i \in done
          PROVE  i + 1 \in done
        <3>1. SUFFICES ASSUME i + 1 \in 1..count
                       PROVE  Collected(f[i + 1], table, i + 1)
            OBVIOUS
        <3>2. i \in Nat /\ i \in 0..count - 1 /\ i + 1 - 1 = i
            BY <3>1
        <3>3. ChainKept(table[i], i, count)
            BY <3>2 DEF TableKept
        <3>4. /\ table[i] \in Seq(HashNodes)
              /\ \A j, l \in DOMAIN table[i] : table[i][j].key = table[i][l].key => j = l
            BY <3>3 DEF ChainKept
        <3>5. CASE i = 0
            <4>1. f[i + 1] = table[0]
                BY <1>5, <3>1, <3>5
            <4>2. 0..i + 1 - 1 = {0}
                BY <3>5
            <4> QED BY <3>4, <3>5, <4>1, <4>2 DEF Collected
        <3>6. CASE i # 0
            <4>1. i \in 1..count
                BY <3>2, <3>6
            <4>2. Collected(f[i], table, i)
                BY <4>1
            <4>3. f[i + 1] = f[i] \o table[i]
                <5>1. PICK k \in 1..count : k = i + 1 /\ k - 1 = i /\ k # 1
                    BY <3>1, <3>2, <3>6
                <5>2. f[k] = f[k - 1] \o table[k - 1]
                    BY <1>5, <5>1
                <5> QED BY <5>1, <5>2
            <4>4. \A m \in NodesIn(f[i]), n \in NodesIn(table[i]) : m.key # n.key
                <5> SUFFICES ASSUME NEW m \in NodesIn(f[i]), NEW n \in NodesIn(table[i])
                             PROVE  m.key # n.key
                    OBVIOUS
                <5>1. PICK l \in 0..i - 1 : m \in NodesIn(table[l])
                    BY <4>2 DEF Collected
                <5>2. l \in 0..count - 1 /\ l # i
                    BY <3>2, <5>1
                <5>3. HM!BucketIndex(m.key, count) = l /\ HM!BucketIndex(n.key, count) = i
                    BY <3>2, <5>1, <5>2, TableIs
                <5> QED BY <5>2, <5>3
            <4>5. /\ f[i + 1] \in Seq(HashNodes)
                  /\ \A j, l \in DOMAIN f[i + 1] : f[i + 1][j].key = f[i + 1][l].key => j = l
                  /\ NodesIn(f[i + 1]) = NodesIn(f[i]) \cup NodesIn(table[i])
                <5>1. /\ f[i] \in Seq(HashNodes)
                      /\ \A j, l \in DOMAIN f[i] : f[i][j].key = f[i][l].key => j = l
                    BY <4>2 DEF Collected
                <5>2. PICK c, d : c = f[i] /\ d = table[i]
                    OBVIOUS
                <5>3. /\ c \in Seq(HashNodes) /\ d \in Seq(HashNodes)
                      /\ \A j, l \in DOMAIN c : c[j].key = c[l].key => j = l
                      /\ \A j, l \in DOMAIN d : d[j].key = d[l].key => j = l
                      /\ \A m \in NodesIn(c), n \in NodesIn(d) : m.key # n.key
                    BY <3>4, <4>4, <5>1, <5>2
                <5>4. LET e == c \o d
                      IN  /\ e \in Seq(HashNodes)
                          /\ \A j, l \in DOMAIN e : e[j].key = e[l].key => j = l
                          /\ NodesIn(e) = NodesIn(c) \cup NodesIn(d)
                    BY <5>3, ChainsJoined
                <5> QED BY <4>3, <5>2, <5>4
            <4>6. 0..i + 1 - 1 = (0..i - 1) \cup {i}
                BY <3>2
            <4>7. NodesIn(f[i + 1]) = UNION {NodesIn(table[l]) : l \in 0..i + 1 - 1}
                BY <4>2, <4>5, <4>6 DEF Collected
            <4> QED BY <4>5, <4>7 DEF Collected
        <3> QED BY <3>5, <3>6
    <2>3. done \in SUBSET Nat
        OBVIOUS
    <2> HIDE DEF done
    <2> QED BY <2>1, <2>2, <2>3, Induction
<1>7. count \in done /\ count \in 1..count
    BY <1>6
<1> QED BY <1>2, <1>7

LEMMA EmptyKept ==
    ASSUME NEW count \in Nat \ {0}
    PROVE  TableKept(HM!Empty(count), count) /\ AllNodes(HM!Empty(count), count) = {}
<1>1. <<>> \in Seq(HashNodes) /\ DOMAIN <<>> = {}
    OBVIOUS
<1>2. \A i \in 0..count - 1 : HM!Empty(count)[i] = <<>>
    BY DEF HM!Empty
<1>3. HM!Empty(count) = [i \in 0..count - 1 |-> HM!Empty(count)[i]]
    BY DEF HM!Empty
<1>4. \A i : ChainKept(<<>>, i, count)
    BY <1>1 DEF ChainKept
<1>5. NodesIn(<<>>) = {}
    BY <1>1 DEF NodesIn
<1> QED BY <1>2, <1>3, <1>4, <1>5 DEF TableKept, AllNodes

\* A table of twice the size holds the same nodes, each where it is looked for
LEMMA ResizedIs ==
    ASSUME NEW count \in Nat \ {0}, NEW table, TableKept(table, count)
    PROVE  /\ TableKept(HM!Resized(table, count), 2 * count)
           /\ AllNodes(HM!Resized(table, count), 2 * count) = AllNodes(table, count)
<1> DEFINE held == HM!NodesOf(table, count)
           len == Len(held)
           f == CHOOSE f : f = [n \in 0..Len(held) |->
                   IF n = 0 THEN HM!Empty(2 * count)
                   ELSE [f[n - 1] EXCEPT ![HM!BucketIndex(held[n].key, 2 * count)] =
                                             Append(@, held[n])]]
<1>1. HM!Resized(table, count) = f[Len(held)]
    BY DEF HM!Resized
<1>2. PICK twice \in Nat \ {0} : twice = 2 * count
    OBVIOUS
<1>3. /\ held \in Seq(HashNodes)
      /\ \A j, l \in DOMAIN held : held[j].key = held[l].key => j = l
      /\ NodesIn(held) = AllNodes(table, count)
    BY NodesOfIs DEF Collected, AllNodes
<1> HIDE DEF held
<1>4. len \in Nat /\ DOMAIN held = 1..len /\ \A n \in 1..len : held[n] \in HashNodes
    BY <1>3, LenProperties, ElementOfSeq
<1> DEFINE home == [n \in 1..len |-> HM!BucketIndex(held[n].key, twice)]
           Moved(t, n) == [t EXCEPT ![home[n]] = Append(@, held[n])]
<1>5. \A n \in 1..len : /\ home[n] = HM!BucketIndex(held[n].key, twice)
                        /\ home[n] \in 0..twice - 1
    BY <1>2, <1>4, NodeIs, HomeIs
<1>6. f = [n \in 0..len |-> IF n = 0 THEN HM!Empty(twice) ELSE Moved(f[n - 1], n)]
    <2>1. \E g : g = [n \in 0..Len(held) |->
                         IF n = 0 THEN HM!Empty(2 * count)
                         ELSE [g[n - 1] EXCEPT ![HM!BucketIndex(held[n].key, 2 * count)] =
                                                   Append(@, held[n])]]
        <3> DEFINE S == [0..twice - 1 -> Seq(HashNodes)]
                   step == [n \in Nat |-> [t \in S |->
                               IF n + 1 \in 1..len THEN Moved(t, n + 1) ELSE t]]
        <3>1. Numbered(S, step)
            <4>1. ASSUME NEW n \in 1..len, NEW t \in S
                  PROVE  Moved(t, n) \in S
                <5>1. \A s \in Seq(HashNodes) : Append(s, held[n]) \in Seq(HashNodes)
                    BY <1>4, AppendProperties
                <5> HIDE DEF home
                <5> QED BY <1>5, <5>1
            <4> HIDE DEF S, Moved
            <4> QED BY <4>1 DEF Numbered
        <3>2. HM!Empty(twice) \in S
            BY DEF HM!Empty
        <3>3. PICK h \in [Nat -> S] : Recursion(h, HM!Empty(twice), step)
            <4> HIDE DEF S, step
            <4> QED BY <3>1, <3>2, RecursionExists
        <3> DEFINE g == [n \in 0..len |-> h[n]]
        <3> HIDE DEF Moved
        <3>4. ASSUME NEW n \in 0..len
              PROVE  g[n] = IF n = 0 THEN HM!Empty(twice) ELSE Moved(g[n - 1], n)
            <4>1. CASE n = 0
                BY <3>3, <4>1 DEF Recursion
            <4>2. CASE n # 0
                <5>1. PICK m \in Nat : m = n - 1 /\ m + 1 = n /\ m + 1 \in 1..len /\ m \in 0..len
                    BY <1>4, <4>2
                <5>2. h[m + 1] = step[m][h[m]] /\ h[m] \in S
                    BY <3>3 DEF Recursion
                <5>3. h[m + 1] = Moved(h[m], m + 1)
                    BY <5>1, <5>2
                <5>4. g[n] = h[m + 1] /\ g[n - 1] = h[m]
                    BY <5>1
                <5> QED BY <4>2, <5>1, <5>3, <5>4
            <4> QED BY <4>1, <4>2
        <3> HIDE DEF home
        <3>5. ASSUME NEW n \in 0..len
              PROVE  g[n] = IF n = 0 THEN HM!Empty(2 * count)
                            ELSE [g[n - 1] EXCEPT ![HM!BucketIndex(held[n].key, 2 * count)] =
                                                      Append(@, held[n])]
            <4>1. n # 0 => n \in 1..len
                BY <1>4
            <4> HIDE DEF g
            <4> QED BY <1>2, <1>5, <3>4, <4>1 DEF Moved
        <3>6. g = [n \in 0..Len(held) |->
                      IF n = 0 THEN HM!Empty(2 * count)
                      ELSE [g[n - 1] EXCEPT ![HM!BucketIndex(held[n].key, 2 * count)] =
                                                Append(@, held[n])]]
            BY <3>5
        <3> QED BY <3>6
    <2>2. f = [n \in 0..Len(held) |->
                  IF n = 0 THEN HM!Empty(2 * count)
                  ELSE [f[n - 1] EXCEPT ![HM!BucketIndex(held[n].key, 2 * count)] =
                                            Append(@, held[n])]]
        BY <2>1
    <2> HIDE DEF f, home
    <2>3. \A n \in 0..len : n # 0 => home[n] = HM!BucketIndex(held[n].key, 2 * count)
        BY <1>2, <1>4, <1>5
    <2> QED BY <1>2, <2>2, <2>3
<1> HIDE DEF f, home, Moved
<1> DEFINE done == {n \in Nat : n \in 0..len =>
                       /\ TableKept(f[n], twice)
                       /\ AllNodes(f[n], twice) = {held[j] : j \in 1..n}}
<1>7. done = Nat
    <2>1. 0 \in done
        <3>1. f[0] = HM!Empty(twice)
            BY <1>4, <1>6
        <3> QED BY <1>2, <3>1, EmptyKept
    <2>2. ASSUME NEW n \in done
          PROVE  n + 1 \in done
        <3>1. SUFFICES ASSUME n + 1 \in 0..len
                       PROVE  /\ TableKept(f[n + 1], twice)
                              /\ AllNodes(f[n + 1], twice) = {held[j] : j \in 1..n + 1}
            OBVIOUS
        <3>2. PICK m \in 1..len : m = n + 1 /\ m - 1 = n /\ m # 0 /\ n \in 0..len /\ n \in Nat
            BY <1>4, <3>1
        <3>3. TableKept(f[n], twice) /\ AllNodes(f[n], twice) = {held[j] : j \in 1..n}
            BY <3>2
        <3>4. f[m] = Moved(f[n], m)
            BY <1>4, <1>6, <3>2
        <3>5. held[m] \in HashNodes /\ HM!BucketIndex(held[m].key, twice) \in 0..twice - 1
            BY <1>4, <1>5
        <3>6. \A o \in AllNodes(f[n], twice) : o.key # held[m].key
            <4>1. \A j \in 1..n : j \in 1..len /\ j # m
                BY <1>4, <3>2
            <4> QED BY <1>3, <1>4, <3>3, <4>1
        <3>7. f[m] = [f[n] EXCEPT ![HM!BucketIndex(held[m].key, twice)] = Append(@, held[m])]
            BY <1>5, <3>4 DEF Moved
        <3>8. /\ TableKept(f[m], twice)
              /\ AllNodes(f[m], twice) = {held[m]} \cup AllNodes(f[n], twice)
            <4>1. PICK t, node : t = f[n] /\ node = held[m]
                OBVIOUS
            <4> DEFINE grown == [t EXCEPT ![HM!BucketIndex(node.key, twice)] = Append(@, node)]
            <4>2. f[m] = grown
                BY <3>7, <4>1
            <4>3. TableKept(t, twice) /\ node \in HashNodes
                  /\ HM!BucketIndex(node.key, twice) \in 0..twice - 1
                  /\ \A o \in AllNodes(t, twice) : o.key # node.key
                BY <3>3, <3>5, <3>6, <4>1
            <4>4. /\ TableKept(grown, twice)
                  /\ AllNodes(grown, twice) = {node} \cup AllNodes(t, twice)
                BY <4>3, TableGrown
            <4> QED BY <4>1, <4>2, <4>4
        <3>9. 1..m = (1..n) \cup {m}
            BY <3>2
        <3>10. AllNodes(f[m], twice) = {held[j] : j \in 1..m}
            BY <3>3, <3>8, <3>9
        <3> QED BY <3>2, <3>8, <3>10
    <2>3. done \in SUBSET Nat
        OBVIOUS
    <2> HIDE DEF done
    <2> QED BY <2>1, <2>2, <2>3, Induction
<1>8. len \in done /\ len \in 0..len
    <2>1. len \in 0..len
        BY <1>4
    <2> HIDE DEF done, len
    <2> QED BY <1>4, <1>7, <2>1
<1>9. TableKept(f[len], twice) /\ AllNodes(f[len], twice) = {held[j] : j \in 1..len}
    BY <1>8
<1>10. {held[j] : j \in 1..len} = AllNodes(table, count)
    BY <1>3, <1>4 DEF NodesIn
<1> QED BY <1>1, <1>2, <1>9, <1>10

-----------------------------------------------------------------------------
(* The inductive invariant *)

HeldNodes == AllNodes(buckets, HM!BucketCount)

\* Every node is in the bucket where an operation looks for its key, alone with that
\* key, and the nodes are counted
HashMapInv ==
    /\ HM!BucketCount \in Nat \ {0}
    /\ TableKept(buckets, HM!BucketCount)
    /\ IsFiniteSet(KeysOf(HeldNodes)) /\ Cardinality(KeysOf(HeldNodes)) = size
    /\ HM!LoadBounded

LEMMA CountIs ==
    ASSUME NEW count \in Nat \ {0}, NEW table, TableKept(table, count)
    PROVE  Cardinality(DOMAIN table) = count
<1>1. DOMAIN table = 0..count - 1
    BY DEF TableKept
<1>2. PICK last \in Int : last = count - 1 /\ last >= 0 /\ last + 1 = count
    OBVIOUS
<1>3. Cardinality(0..last) = IF 0 > last THEN 0 ELSE last - 0 + 1
    BY FS_Interval
<1> QED BY <1>1, <1>2, <1>3

\* What has to be shown of a table to show HashMapInv
Counted(table, count, number) ==
    LET keys == KeysOf(AllNodes(table, count))
    IN  /\ TableKept(table, count)
        /\ IsFiniteSet(keys) /\ Cardinality(keys) = number
        /\ 4 * number <= 3 * count

LEMMA HashMapInvIf ==
    ASSUME NEW count \in Nat \ {0}, Counted(buckets, count, size)
    PROVE  HashMapInv /\ HeldNodes = AllNodes(buckets, count)
<1>1. HM!BucketCount = count
    BY CountIs, HashMapOperators DEF HM!BucketCount, Counted
<1> QED BY <1>1 DEF HashMapInv, HeldNodes, HM!LoadBounded, Counted

LEMMA HashMapInvNext ==
    ASSUME NEW count \in Nat \ {0}, Counted(buckets', count, size')
    PROVE  HashMapInv' /\ HeldNodes' = AllNodes(buckets', count)
<1>1. HM!BucketCount' = count
    BY CountIs, HashMapOperators DEF HM!BucketCount, Counted
<1>2. HeldNodes' = AllNodes(buckets', count)
    BY <1>1 DEF HeldNodes, AllNodes
<1> QED BY <1>1, <1>2 DEF HashMapInv, HM!LoadBounded, Counted

\* Where an operation finds a key
LEMMA HashMapFinds ==
    ASSUME HashMapInv, NEW k \in HashKeys
    PROVE  /\ HM!Home(k) \in 0..HM!BucketCount - 1
           /\ HM!Home(k) = HM!BucketIndex(k, HM!BucketCount)
           /\ HM!Holds(k) <=> k \in KeysOf(HeldNodes)
           /\ HM!Holds(k) => /\ HM!Min(HM!At(k)) \in DOMAIN buckets[HM!Home(k)]
                          /\ buckets[HM!Home(k)][HM!Min(HM!At(k))].key = k
                          /\ buckets[HM!Home(k)][HM!Min(HM!At(k))] \in HeldNodes
                          /\ HM!ValueOf(k) = buckets[HM!Home(k)][HM!Min(HM!At(k))].value
<1> DEFINE h == HM!Home(k)
           chain == buckets[h]
<1>1. h = HM!BucketIndex(k, HM!BucketCount) /\ h \in 0..HM!BucketCount - 1
    BY HomeIs DEF HM!Home, HashMapInv
<1>2. ChainKept(chain, h, HM!BucketCount)
    BY <1>1 DEF HashMapInv, TableKept
<1>3. HM!Holds(k) => k \in KeysOf(HeldNodes)
    BY <1>1 DEF HM!Holds, HM!At, KeysOf, HeldNodes, AllNodes, NodesIn
<1>4. ASSUME k \in KeysOf(HeldNodes)
      PROVE  HM!Holds(k)
    <2>1. PICK n \in HeldNodes : n.key = k
        BY <1>4 DEF KeysOf
    <2>2. PICK i \in 0..HM!BucketCount - 1 : n \in NodesIn(buckets[i])
        BY DEF HeldNodes, AllNodes
    <2>3. i = h
        BY <1>1, <2>1, <2>2, TableIs DEF HashMapInv
    <2> QED BY <2>1, <2>2, <2>3 DEF NodesIn, HM!Holds, HM!At
<1>5. ASSUME HM!Holds(k)
      PROVE  HM!Min(HM!At(k)) \in HM!At(k)
    <2>1. HM!At(k) \in SUBSET Nat
        <3>1. DOMAIN chain = 1..Len(chain) /\ Len(chain) \in Nat
            BY <1>2, ChainIs
        <3> QED BY <3>1 DEF HM!At
    <2> QED BY <1>5, <2>1, MinIs, HashMapOperators DEF HM!Holds
<1>6. ASSUME NEW j \in HM!At(k)
      PROVE  j \in DOMAIN chain /\ chain[j].key = k /\ chain[j] \in HeldNodes
    BY <1>1 DEF HM!At, HeldNodes, AllNodes, NodesIn
<1> QED BY <1>1, <1>3, <1>4, <1>5, <1>6 DEF HM!ValueOf

LEMMA HashMapInit ==
    ASSUME HM!Init
    PROVE  HashMapInv /\ HeldNodes = {}
<1>1. DefaultBucketCount \in Nat \ {0} /\ size = 0 /\ buckets = HM!Empty(DefaultBucketCount)
    BY HashMapAssumption DEF HM!Init
<1>2. /\ TableKept(buckets, DefaultBucketCount)
      /\ AllNodes(buckets, DefaultBucketCount) = {}
    BY <1>1, EmptyKept
<1>3. KeysOf({}) = {} /\ IsFiniteSet({}) /\ Cardinality({}) = 0
    BY FS_EmptySet DEF KeysOf
<1> QED BY <1>1, <1>2, <1>3, HashMapInvIf DEF Counted

\* What the steps do to the nodes: the one of the key is replaced, or there is a new one
Given(held, k, v) == {HM!Node(k, v)} \cup {n \in held : n.key # k}

\* A key's node is changed where it is
LEMMA InvChanged ==
    ASSUME HashMapInv, NEW k \in HashKeys, HM!Holds(k),
           NEW v \in HashValues \cup {Tombstone},
           buckets' = [buckets EXCEPT ![HM!Home(k)][HM!Min(HM!At(k))] = HM!Node(k, v)],
           size' = size
    PROVE  HashMapInv' /\ HeldNodes' = Given(HeldNodes, k, v)
<1> DEFINE n == HM!Node(k, v)
<1>0. PICK h \in 0..HM!BucketCount - 1 : h = HM!Home(k)
    BY HashMapFinds
<1>1. PICK m \in DOMAIN buckets[h] : m = HM!Min(HM!At(k)) /\ buckets[h][m].key = k
    BY <1>0, HashMapFinds
<1>2. n \in HashNodes /\ n.key = k
    BY NodeTyped
<1>3. PICK count \in Nat \ {0} : count = HM!BucketCount
    BY DEF HashMapInv
<1>4. Counted(buckets, count, size)
    BY <1>3 DEF HashMapInv, HeldNodes, HM!LoadBounded, Counted
<1> DEFINE t == Changed(buckets, h, m, n)
<1> HIDE DEF n
<1>5. /\ TableKept(t, count)
      /\ AllNodes(t, count) = {n} \cup {o \in AllNodes(buckets, count) : o.key # k}
    <2>1. TableKept(buckets, count)
        BY <1>4 DEF Counted
    <2>2. h \in 0..count - 1 /\ buckets[h][m].key = n.key
        BY <1>1, <1>2, <1>3
    <2>3. n \in HashNodes /\ m \in DOMAIN buckets[h]
        BY <1>2
    <2>4. /\ TableKept(t, count)
          /\ AllNodes(t, count) =
                 {n} \cup {o \in AllNodes(buckets, count) : o.key # n.key}
        BY <2>1, <2>2, <2>3, TableChanged
    <2> QED BY <1>2, <2>4
<1>6. buckets' = t
    BY <1>0, <1>1 DEF n, Changed
<1> HIDE DEF t
<1>7. k \in KeysOf(AllNodes(buckets, count))
    BY <1>3, HashMapFinds DEF HeldNodes
<1>8. KeysOf(AllNodes(t, count)) = KeysOf(AllNodes(buckets, count))
    BY <1>2, <1>5, <1>7 DEF KeysOf
<1>9. Counted(buckets', count, size')
    BY <1>4, <1>5, <1>6, <1>8 DEF Counted
<1>10. HashMapInv' /\ HeldNodes' = AllNodes(buckets', count)
    BY <1>9, HashMapInvNext
<1> QED BY <1>3, <1>5, <1>6, <1>10 DEF Given, HeldNodes, n

\* A node is added in front of its chain, and the table doubled when it is overloaded
LEMMA InvAdded ==
    ASSUME HashMapInv, NEW k \in HashKeys, ~HM!Holds(k), NEW v \in HashValues,
           HM!Put(k, v)
    PROVE  HashMapInv' /\ HeldNodes' = Given(HeldNodes, k, v)
<1> DEFINE n == HM!Node(k, v)
           added == [buckets EXCEPT ![HM!Home(k)] = <<n>> \o @]
           resized == HM!Resized(added, HM!BucketCount)
<1>1. n \in HashNodes /\ n.key = k
    BY NodeTyped
<1>2. PICK count \in Nat \ {0} : count = HM!BucketCount
    BY DEF HashMapInv
<1>3. /\ TableKept(buckets, count)
      /\ IsFiniteSet(KeysOf(AllNodes(buckets, count)))
      /\ Cardinality(KeysOf(AllNodes(buckets, count))) = size
      /\ 4 * size <= 3 * count
    BY <1>2 DEF HashMapInv, HeldNodes, HM!LoadBounded
<1>4. k \notin KeysOf(AllNodes(buckets, count))
    BY <1>2, HashMapFinds DEF HeldNodes
<1>5. /\ size' = size + 1
      /\ buckets' = IF HM!Overloaded(size + 1, HM!BucketCount) THEN resized ELSE added
    <2>1. /\ buckets' = IF HM!Overloaded(size + 1, HM!BucketCount)
                        THEN HM!Resized([buckets EXCEPT ![HM!Home(k)] = <<HM!Node(k, v)>> \o @],
                                     HM!BucketCount)
                        ELSE [buckets EXCEPT ![HM!Home(k)] = <<HM!Node(k, v)>> \o @]
          /\ size' = size + 1
        BY DEF HM!Put
    <2> QED BY <2>1
<1>6. HM!BucketIndex(k, count) = HM!Home(k) /\ HM!BucketIndex(k, count) \in 0..count - 1
    BY <1>2, HashMapFinds
<1> HIDE DEF n
<1>7. TableKept(added, count) /\ AllNodes(added, count) = {n} \cup AllNodes(buckets, count)
    <2>1. \A o \in AllNodes(buckets, count) : o.key # n.key
        BY <1>1, <1>4 DEF KeysOf
    <2> QED BY <1>1, <1>3, <1>6, <2>1, TableGrown
<1> HIDE DEF added
<1>8. /\ TableKept(resized, 2 * count)
      /\ AllNodes(resized, 2 * count) = AllNodes(added, count)
    BY <1>2, <1>7, ResizedIs
<1> HIDE DEF resized
<1>9. /\ KeysOf(AllNodes(added, count)) = KeysOf(AllNodes(buckets, count)) \cup {k}
      /\ IsFiniteSet(KeysOf(AllNodes(added, count)))
      /\ Cardinality(KeysOf(AllNodes(added, count))) = size + 1
    <2>1. KeysOf(AllNodes(added, count)) = KeysOf(AllNodes(buckets, count)) \cup {k}
        BY <1>1, <1>7 DEF KeysOf
    <2> QED BY <1>3, <1>4, <2>1, FS_AddElement
<1>10. size \in Nat
    BY <1>3, FS_CardinalityType
<1>11. PICK new \in Nat \ {0} : /\ TableKept(buckets', new)
                                /\ AllNodes(buckets', new) = AllNodes(added, count)
                                /\ 4 * (size + 1) <= 3 * new
    <2>1. CASE HM!Overloaded(size + 1, HM!BucketCount)
        <3>1. 2 * count \in Nat \ {0} /\ 4 * (size + 1) <= 3 * (2 * count)
            BY <1>3, <1>10
        <3>2. buckets' = resized
            BY <1>5, <2>1
        <3> QED BY <1>8, <3>1, <3>2
    <2>2. CASE ~HM!Overloaded(size + 1, HM!BucketCount)
        <3>1. 4 * (size + 1) <= 3 * count
            BY <1>2, <1>10, <2>2 DEF HM!Overloaded
        <3>2. buckets' = added
            BY <1>5, <2>2
        <3> QED BY <1>7, <3>1, <3>2
    <2> QED BY <2>1, <2>2
<1>12. HashMapInv' /\ HeldNodes' = AllNodes(buckets', new)
    <2>1. /\ TableKept(buckets', new)
          /\ IsFiniteSet(KeysOf(AllNodes(buckets', new)))
          /\ Cardinality(KeysOf(AllNodes(buckets', new))) = size'
          /\ 4 * size' <= 3 * new
        BY <1>5, <1>9, <1>11
    <2>2. Counted(buckets', new, size')
        BY <2>1 DEF Counted
    <2> QED BY <2>2, HashMapInvNext
<1>13. HeldNodes' = {n} \cup HeldNodes
    BY <1>2, <1>7, <1>11, <1>12 DEF HeldNodes
<1>14. \A o \in HeldNodes : o.key # k
    BY <1>2, <1>4 DEF KeysOf, HeldNodes
<1> QED BY <1>12, <1>13, <1>14 DEF Given, n

LEMMA HashMapPut ==
    ASSUME HashMapInv, NEW k \in HashKeys, NEW v \in HashValues, HM!Put(k, v)
    PROVE  HashMapInv' /\ HeldNodes' = Given(HeldNodes, k, v)
<1>1. CASE HM!Holds(k)
    <2>1. /\ buckets' = [buckets EXCEPT ![HM!Home(k)][HM!Min(HM!At(k))] = HM!Node(k, v)]
          /\ size' = size
        BY <1>1 DEF HM!Put
    <2> QED BY <1>1, <2>1, InvChanged
<1>2. CASE ~HM!Holds(k)
    BY <1>2, InvAdded
<1> QED BY <1>1, <1>2

LEMMA UnchangedKeeps ==
    ASSUME HashMapInv, UNCHANGED <<buckets, size>>
    PROVE  HashMapInv' /\ HeldNodes' = HeldNodes
<1>1. HM!BucketCount' = HM!BucketCount
    BY DEF HM!BucketCount
<1>2. HeldNodes' = HeldNodes
    BY <1>1 DEF HeldNodes, AllNodes, NodesIn
<1> QED BY <1>1, <1>2 DEF HashMapInv, HM!LoadBounded

LEMMA HashMapDelete ==
    ASSUME HashMapInv, NEW k \in HashKeys, HM!Delete(k)
    PROVE  /\ HashMapInv'
           /\ HeldNodes' = IF HM!Live(k) THEN Given(HeldNodes, k, Tombstone) ELSE HeldNodes
<1>1. CASE HM!Live(k)
    <2>1. /\ HM!Holds(k)
          /\ buckets' = [buckets EXCEPT ![HM!Home(k)][HM!Min(HM!At(k))] = HM!Node(k, Tombstone)]
          /\ size' = size
        BY <1>1 DEF HM!Delete, HM!Live
    <2> QED BY <1>1, <2>1, InvChanged
<1>2. CASE ~HM!Live(k)
    BY <1>2, UnchangedKeeps DEF HM!Delete
<1> QED BY <1>1, <1>2

LEMMA HashMapStep ==
    ASSUME HashMapInv, [HM!Next]_(HM!vars)
    PROVE  HashMapInv'
<1>1. ASSUME NEW k \in HashKeys, NEW v \in HashValues, HM!Put(k, v)
      PROVE  HashMapInv'
    BY <1>1, HashMapPut
<1>2. ASSUME NEW k \in HashKeys, HM!Get(k)
      PROVE  HashMapInv'
    BY <1>2, UnchangedKeeps DEF HM!Get
<1>3. ASSUME NEW k \in HashKeys, HM!Delete(k)
      PROVE  HashMapInv'
    BY <1>3, HashMapDelete
<1>4. CASE UNCHANGED HM!vars
    BY <1>4, UnchangedKeeps DEF HM!vars
<1> QED BY <1>1, <1>2, <1>3, <1>4 DEF HM!Next

LEMMA HashMapKeysOnce ==
    ASSUME HashMapInv
    PROVE  HM!EveryKeyOnce
<1> DEFINE count == HM!BucketCount
           Key(p) == buckets[p[1]][p[2]].key
           K == KeysOf(HeldNodes)
<1>1. TableKept(buckets, count) /\ DOMAIN buckets = 0..count - 1
    BY TableIs DEF HashMapInv
<1>2. ASSUME NEW p \in HM!Places
      PROVE  /\ p = <<p[1], p[2]>> /\ p[1] \in 0..count - 1 /\ p[2] \in DOMAIN buckets[p[1]]
             /\ buckets[p[1]][p[2]] \in NodesIn(buckets[p[1]])
             /\ Key(p) \in K
    <2>0. PICK i \in 0..count - 1 : p \in {<<i, j>> : j \in DOMAIN buckets[i]}
        BY <1>1 DEF HM!Places
    <2>1. PICK j \in DOMAIN buckets[i] : p = <<i, j>>
        BY <2>0
    <2>2. buckets[i][j] \in NodesIn(buckets[i])
        BY DEF NodesIn
    <2>3. buckets[i][j].key \in K
        BY <2>2 DEF KeysOf, HeldNodes, AllNodes
    <2> QED BY <2>1, <2>2, <2>3
<1> HIDE DEF count
<1>3. ASSUME NEW p \in HM!Places, NEW q \in HM!Places, Key(p) = Key(q)
      PROVE  p = q
    <2>1. HM!BucketIndex(Key(p), count) = p[1] /\ HM!BucketIndex(Key(q), count) = q[1]
        <3>1. \A i \in 0..count - 1 : \A n \in NodesIn(buckets[i]) :
                  HM!BucketIndex(n.key, count) = i
            BY <1>1, TableIs
        <3> QED BY <1>2, <3>1
    <2>2. p[1] = q[1]
        BY <1>3, <2>1
    <2>3. ChainKept(buckets[p[1]], p[1], count)
        BY <1>1, <1>2 DEF TableKept
    <2>4. p[2] = q[2]
        BY <1>2, <1>3, <2>2, <2>3 DEF ChainKept
    <2> QED BY <1>2, <2>2, <2>4
<1>4. ASSUME NEW k \in K
      PROVE  \E p \in HM!Places : Key(p) = k
    <2>1. PICK n \in HeldNodes : n.key = k
        BY DEF KeysOf
    <2>2. PICK i \in 0..count - 1 : n \in NodesIn(buckets[i])
        BY DEF HeldNodes, AllNodes, count
    <2>3. PICK j \in DOMAIN buckets[i] : buckets[i][j] = n
        BY <2>2 DEF NodesIn
    <2>4. <<i, j>> \in HM!Places
        BY <1>1 DEF HM!Places
    <2> QED BY <2>1, <2>3, <2>4
<1> DEFINE f == [p \in HM!Places |-> Key(p)]
<1>5. f \in Injection(HM!Places, K) /\ f \in Surjection(HM!Places, K)
    <2>1. f \in [HM!Places -> K]
        BY <1>2
    <2>2. \A p \in HM!Places : f[p] = Key(p)
        OBVIOUS
    <2> HIDE DEF f, Key, K
    <2>3. \A p, q \in HM!Places : f[p] = f[q] => p = q
        BY <1>3, <2>2
    <2>4. \A k \in K : \E p \in HM!Places : f[p] = k
        BY <1>4, <2>2
    <2> QED BY <2>1, <2>3, <2>4 DEF Injection, IsInjective, Surjection
<1>6. Cardinality(HM!Places) = size
    <2>1. IsFiniteSet(K) /\ Cardinality(K) = size
        BY DEF HashMapInv
    <2> HIDE DEF f, K
    <2> QED BY <1>5, <2>1, FS_Injection
<1> QED BY <1>3, <1>6, HashMapOperators DEF HM!EveryKeyOnce

-----------------------------------------------------------------------------
(* Entries as a map *)

Pairs(entries) == {<<n.key, n.value>> : n \in entries}

ListedOnce(entries) ==
    /\ \A n \in entries : n.key \in Keys
    /\ \A m, n \in entries : m.key = n.key => m.value = n.value

\* A map that has these values, and Absent for all other keys
MapOf(c, pairs) ==
    /\ c = [k \in Keys |-> c[k]]
    /\ \A p \in pairs : p[1] \in Keys /\ c[p[1]] = p[2]
    /\ \A k \in Keys : (\A p \in pairs : p[1] # k) => c[k] = Absent

LEMMA ContentIs ==
    ASSUME NEW entries, ListedOnce(entries)
    PROVE  MapOf(Content(entries), Pairs(entries))
<1> DEFINE c == Content(entries)
<1>1. c = [k \in Keys |-> c[k]]
    BY DEF Content
<1>2. ASSUME NEW p \in Pairs(entries)
      PROVE  p[1] \in Keys /\ c[p[1]] = p[2]
    <2>1. PICK n \in entries : p = <<n.key, n.value>>
        BY DEF Pairs
    <2>2. n.key \in Keys
        BY DEF ListedOnce
    <2> DEFINE listed == {m \in entries : m.key = n.key}
    <2>3. n \in listed /\ \A m \in listed : m.value = n.value
        BY DEF ListedOnce
    <2>4. (CHOOSE m \in listed : TRUE).value = n.value
        BY <2>3
    <2>5. c[n.key] = n.value
        BY <2>2, <2>3, <2>4 DEF Content
    <2> QED BY <2>1, <2>2, <2>5
<1>3. ASSUME NEW k \in Keys, \A p \in Pairs(entries) : p[1] # k
      PROVE  c[k] = Absent
    <2>1. {m \in entries : m.key = k} = {}
        <3>1. \A m \in entries : <<m.key, m.value>> \in Pairs(entries)
            BY DEF Pairs
        <3> QED BY <1>3, <3>1
    <2> QED BY <2>1 DEF Content
<1> QED BY <1>1, <1>2, <1>3 DEF MapOf

\* A map into which a value is put
GivenPairs(pairs, k, v) == {<<k, v>>} \cup {p \in pairs : p[1] # k}

LEMMA GivenIs ==
    ASSUME NEW c, NEW d, NEW pairs, NEW k \in Keys, NEW v,
           MapOf(c, pairs), MapOf(d, GivenPairs(pairs, k, v))
    PROVE  d = [c EXCEPT ![k] = v]
<1>1. d[k] = v
    BY ZenonT(40) DEF MapOf, GivenPairs
<1>2. ASSUME NEW l \in Keys, l # k
      PROVE  d[l] = c[l]
    <2>1. CASE \E p \in pairs : p[1] = l
        <3>1. PICK p \in pairs : p[1] = l
            BY <2>1
        <3>2. p \in GivenPairs(pairs, k, v)
            BY <1>2, <3>1 DEF GivenPairs
        <3> QED BY <3>1, <3>2 DEF MapOf
    <2>2. CASE \A p \in pairs : p[1] # l
        <3>1. \A p \in GivenPairs(pairs, k, v) : p[1] # l
            BY <1>2, <2>2 DEF GivenPairs
        <3> QED BY <2>2, <3>1 DEF MapOf
    <2> QED BY <2>1, <2>2
<1>3. c = [l \in Keys |-> c[l]] /\ d = [l \in Keys |-> d[l]]
    BY DEF MapOf
<1> QED BY <1>1, <1>2, <1>3

\* A listing of the same pairs is the same map
LEMMA SameIs ==
    ASSUME NEW c, NEW d, NEW pairs, MapOf(c, pairs), MapOf(d, pairs)
    PROVE  d = c
<1>1. ASSUME NEW l \in Keys
      PROVE  d[l] = c[l]
    BY DEF MapOf
<1>2. c = [l \in Keys |-> c[l]] /\ d = [l \in Keys |-> d[l]]
    BY DEF MapOf
<1> QED BY <1>1, <1>2

-----------------------------------------------------------------------------
(* The hash map is the map of MemtableBackend *)

HashMapShown ==
    /\ HM!Entries = HeldNodes
    /\ ListedOnce(HM!Entries)
    /\ \A n \in HeldNodes : n.value # Absent

LEMMA HashMapListed ==
    HashMapInv => HashMapShown
<1> SUFFICES ASSUME HashMapInv
             PROVE  HashMapShown
    OBVIOUS
<1>1. TableKept(buckets, HM!BucketCount) /\ DOMAIN buckets = 0..HM!BucketCount - 1
    BY TableIs DEF HashMapInv
<1>2. HM!Entries = HeldNodes
    <2>1. ASSUME NEW n \in HM!Entries
          PROVE  n \in HeldNodes
        <3>1. PICK p \in HM!Places : n = buckets[p[1]][p[2]]
            BY DEF HM!Entries
        <3>2. PICK i \in 0..HM!BucketCount - 1 : p \in {<<i, j>> : j \in DOMAIN buckets[i]}
            BY <1>1 DEF HM!Places
        <3>3. PICK j \in DOMAIN buckets[i] : p = <<i, j>>
            BY <3>2
        <3>4. n \in NodesIn(buckets[i])
            BY <3>1, <3>3 DEF NodesIn
        <3> QED BY <3>2, <3>4 DEF HeldNodes, AllNodes
    <2>2. ASSUME NEW n \in HeldNodes
          PROVE  n \in HM!Entries
        <3>1. PICK i \in 0..HM!BucketCount - 1 : n \in NodesIn(buckets[i])
            BY DEF HeldNodes, AllNodes
        <3>2. PICK j \in DOMAIN buckets[i] : buckets[i][j] = n
            BY <3>1 DEF NodesIn
        <3>3. <<i, j>> \in HM!Places
            BY <1>1 DEF HM!Places
        <3> QED BY <3>2, <3>3 DEF HM!Entries
    <2> QED BY <2>1, <2>2
<1>3. HeldNodes \in SUBSET HashNodes
    BY <1>1, TableIs DEF HeldNodes
<1>4. ASSUME NEW n \in HeldNodes
      PROVE  n.key \in Keys /\ n.value # Absent
    BY <1>3, NodeIs, SentinelAssumption DEF Keys
<1>5. \A m, n \in HeldNodes : m.key = n.key => m = n
    BY <1>1, NodesApart DEF HeldNodes
<1> QED BY <1>2, <1>4, <1>5 DEF HashMapShown, ListedOnce

\* What an operation finds is what the map holds
LEMMA HashMapFound ==
    ASSUME HashMapInv, MapOf(content, Pairs(HM!Entries)), NEW k \in HashKeys
    PROVE  /\ Backend!Live(k) <=> HM!Live(k)
           /\ HM!Live(k) => HM!ValueOf(k) = content[k]
<1>1. HashMapShown
    BY HashMapListed
<1>2. CASE HM!Holds(k)
    <2>1. PICK n \in HeldNodes : n.key = k /\ HM!ValueOf(k) = n.value
        BY <1>2, HashMapFinds
    <2>2. <<n.key, n.value>> \in Pairs(HM!Entries)
        BY <1>1 DEF HashMapShown, Pairs
    <2>3. content[k] = n.value
        BY <2>1, <2>2 DEF MapOf
    <2>4. n.value # Absent
        BY <1>1 DEF HashMapShown
    <2> QED BY <1>2, <2>1, <2>3, <2>4 DEF HM!Live, Backend!Live
<1>3. CASE ~HM!Holds(k)
    <2>1. \A p \in Pairs(HM!Entries) : p[1] # k
        <3>1. k \notin KeysOf(HeldNodes)
            BY <1>3, HashMapFinds
        <3> QED BY <1>1, <3>1 DEF HashMapShown, Pairs, KeysOf
    <2>2. content[k] = Absent
        BY <2>1 DEF MapOf, Keys
    <2> QED BY <1>3, <2>2 DEF HM!Live, Backend!Live
<1> QED BY <1>2, <1>3

LEMMA PairsGiven ==
    ASSUME NEW held, NEW k \in HashKeys, NEW v \in HashValues \cup {Tombstone}
    PROVE  Pairs(Given(held, k, v)) = GivenPairs(Pairs(held), k, v)
<1>1. HM!Node(k, v).key = k /\ HM!Node(k, v).value = v
    BY NodeTyped
<1>2. ASSUME NEW p \in Pairs(Given(held, k, v))
      PROVE  p \in GivenPairs(Pairs(held), k, v)
    BY <1>1 DEF Pairs, Given, GivenPairs
<1>3. ASSUME NEW p \in GivenPairs(Pairs(held), k, v)
      PROVE  p \in Pairs(Given(held, k, v))
    <2>1. CASE p = <<k, v>>
        BY <1>1, <2>1 DEF Pairs, Given
    <2>2. CASE p \in Pairs(held) /\ p[1] # k
        <3>1. PICK n \in held : p = <<n.key, n.value>>
            BY <2>2 DEF Pairs
        <3>2. n \in Given(held, k, v)
            BY <2>2, <3>1 DEF Given
        <3> QED BY <3>1, <3>2 DEF Pairs
    <2> QED BY <2>1, <2>2 DEF GivenPairs
<1> QED BY <1>2, <1>3

LEMMA HashMapSimulated ==
    ASSUME HashMapInv, content = Content(HM!Entries), HM!Next, content' = Content(HM!Entries')
    PROVE  Backend!Next
<1>1. HashMapShown /\ HashMapShown'
    <2>1. HashMapInv'
        BY HashMapStep
    <2> QED BY <2>1, HashMapListed, PTL
<1>2. MapOf(content, Pairs(HM!Entries)) /\ MapOf(content', Pairs(HM!Entries'))
    BY <1>1, ContentIs DEF HashMapShown
<1>3. ASSUME NEW k \in HashKeys, NEW v \in HashValues \cup {Tombstone},
             HeldNodes' = Given(HeldNodes, k, v)
      PROVE  content' = [content EXCEPT ![k] = v]
    <2>1. Pairs(HM!Entries') = GivenPairs(Pairs(HM!Entries), k, v)
        <3>1. HM!Entries = HeldNodes /\ HM!Entries' = Given(HeldNodes, k, v)
            BY <1>1, <1>3 DEF HashMapShown
        <3> QED BY <3>1, PairsGiven
    <2>2. k \in Keys
        BY DEF Keys
    <2>3. PICK c, d, pairs : c = content /\ d = content' /\ pairs = Pairs(HM!Entries)
        OBVIOUS
    <2>4. MapOf(c, pairs) /\ MapOf(d, GivenPairs(pairs, k, v))
        BY <1>2, <2>1, <2>3
    <2>5. d = [c EXCEPT ![k] = v]
        BY <2>2, <2>4, GivenIs
    <2> QED BY <2>3, <2>5
<1>4. ASSUME NEW k \in HashKeys, NEW v \in HashValues, HM!Put(k, v)
      PROVE  Backend!Put(k, v)
    <2>1. HeldNodes' = Given(HeldNodes, k, v)
        BY <1>4, HashMapPut
    <2>2. content' = [content EXCEPT ![k] = v]
        BY <1>3, <2>1
    <2>3. answer' = <<k>>
        BY <1>4 DEF HM!Put
    <2> QED BY <2>2, <2>3 DEF Backend!Put
<1>5. ASSUME NEW k \in HashKeys, HM!Get(k)
      PROVE  Backend!Get(k)
    <2>1. HM!Entries' = HM!Entries
        BY <1>5 DEF HM!Get, HM!Entries, HM!Places
    <2>2. content' = content
        BY <2>1
    <2>3. answer' = <<k, IF Backend!Live(k) THEN content[k] ELSE Absent>>
        BY <1>2, <1>5, HashMapFound DEF HM!Get
    <2> QED BY <2>2, <2>3 DEF Backend!Get
<1>6. ASSUME NEW k \in HashKeys, HM!Delete(k)
      PROVE  Backend!Delete(k)
    <2>1. Backend!Live(k) <=> HM!Live(k)
        BY <1>2, HashMapFound
    <2>2. answer' = <<k, HM!Live(k)>>
        BY <1>6 DEF HM!Delete
    <2>3. HM!Live(k) \in BOOLEAN /\ Backend!Live(k) \in BOOLEAN
        BY DEF HM!Live, Backend!Live
    <2>4. answer' = <<k, Backend!Live(k)>>
        BY <2>1, <2>2, <2>3
    <2>5. CASE HM!Live(k)
        <3>1. HeldNodes' = Given(HeldNodes, k, Tombstone)
            BY <1>6, <2>5, HashMapDelete
        <3>2. content' = [content EXCEPT ![k] = Tombstone]
            BY <1>3, <3>1
        <3> QED BY <2>1, <2>4, <2>5, <3>2 DEF Backend!Delete
    <2>6. CASE ~HM!Live(k)
        <3>1. buckets' = buckets
            BY <1>6, <2>6 DEF HM!Delete
        <3>2. HM!Entries' = HM!Entries
            BY <3>1 DEF HM!Entries, HM!Places
        <3> QED BY <2>1, <2>4, <2>6, <3>2 DEF Backend!Delete
    <2> QED BY <2>5, <2>6
<1>7. HashKeys \subseteq Keys /\ HashValues \subseteq Values
    BY DEF Keys, Values
<1> QED BY <1>4, <1>5, <1>6, <1>7 DEF HM!Next, Backend!Next

-----------------------------------------------------------------------------
(* Skip list: the order of the nodes on each level *)

\* One node of the list for each node there is, of some height up to the levels in use
ListNode(n) ==
    /\ n = [key |-> n.key, value |-> n.value, forward |-> n.forward]
    /\ n.key \in ListKeys
    /\ n.value \in ListValues \cup {Tombstone}
    /\ \E h \in 1..level : DOMAIN n.forward = 1..h

NodesKept ==
    /\ size \in Nat /\ level \in 1..MaxLevel
    /\ nodes = [x \in 0..size |-> nodes[x]]
    /\ nodes[0] = [key |-> -1, value |-> nodes[0].value, forward |-> nodes[0].forward]
    /\ DOMAIN nodes[0].forward = 1..MaxLevel
    /\ \A x \in 1..size : ListNode(nodes[x])
    /\ \A x, y \in 1..size : nodes[x].key = nodes[y].key => x = y

\* y is what follows x on level l, Nil if nothing does
Follows(x, l, y) ==
    \/ /\ y = 0
       /\ \A z \in SL!Tall(l) : nodes[z].key <= nodes[x].key
    \/ /\ y \in SL!Tall(l) \ {0}
       /\ nodes[x].key < nodes[y].key
       /\ \A z \in SL!Tall(l) : nodes[z].key <= nodes[x].key \/ nodes[y].key <= nodes[z].key

LinksKept ==
    \A l \in 1..MaxLevel : \A x \in SL!Tall(l) : Follows(x, l, nodes[x].forward[l])

SkipListInv == NodesKept /\ LinksKept

LEMMA NodesAre ==
    ASSUME NodesKept
    PROVE  /\ DOMAIN nodes = 0..size
           /\ \A x \in 0..size : nodes[x].key \in Int
           /\ \A x \in 1..size : nodes[x].key \in Nat
           /\ nodes[0].key = -1
           /\ \A x, y \in 0..size : nodes[x].key = nodes[y].key => x = y
<1>1. DOMAIN nodes = 0..size
    BY DEF NodesKept
<1>2. nodes[0].key = -1
    BY DEF NodesKept
<1>3. \A x \in 1..size : nodes[x].key \in Nat
    BY SkipListAssumption DEF NodesKept, ListNode
<1>4. \A x \in 0..size : x # 0 => x \in 1..size
    BY DEF NodesKept
<1>5. \A x \in 0..size : nodes[x].key \in Int
    BY <1>2, <1>3, <1>4
<1>6. ASSUME NEW x \in 0..size, NEW y \in 0..size, nodes[x].key = nodes[y].key
      PROVE  x = y
    <2>1. CASE x = 0 /\ y # 0
        BY <1>2, <1>3, <1>4, <1>6, <2>1
    <2>2. CASE x # 0 /\ y = 0
        BY <1>2, <1>3, <1>4, <1>6, <2>2
    <2>3. CASE x # 0 /\ y # 0
        BY <1>4, <1>6, <2>3 DEF NodesKept
    <2> QED BY <2>1, <2>2, <2>3
<1> QED BY <1>1, <1>2, <1>3, <1>5, <1>6

LEMMA TallIs ==
    ASSUME NodesKept, NEW l \in 1..MaxLevel
    PROVE  /\ SL!Tall(l) \subseteq 0..size
           /\ 0 \in SL!Tall(l)
           /\ \A x \in 0..size : x \in SL!Tall(l) <=> l \in DOMAIN nodes[x].forward
           /\ \A m \in 1..l : SL!Tall(l) \subseteq SL!Tall(m)
           /\ l > level => SL!Tall(l) = {0}
<1>1. DOMAIN nodes = 0..size /\ size \in Nat /\ level \in 1..MaxLevel /\ MaxLevel \in Nat
    BY NodesAre, SkipListAssumption DEF NodesKept
<1>2. \A x \in 0..size : x \in SL!Tall(l) <=> l \in DOMAIN nodes[x].forward
    BY <1>1 DEF SL!Tall
<1>3. SL!Tall(l) \subseteq 0..size
    BY <1>1 DEF SL!Tall
<1>4. 0 \in SL!Tall(l)
    BY <1>1, <1>2 DEF NodesKept
<1>5. ASSUME NEW m \in 1..l, NEW x \in SL!Tall(l)
      PROVE  x \in SL!Tall(m)
    <2>1. CASE x = 0
        BY <1>1, <2>1 DEF SL!Tall, NodesKept
    <2>2. CASE x # 0
        <3>1. x \in 1..size
            BY <1>1, <1>3, <2>2
        <3>2. PICK h \in 1..level : DOMAIN nodes[x].forward = 1..h
            BY <3>1 DEF NodesKept, ListNode
        <3>3. l \in 1..h
            BY <1>2, <1>3, <3>2
        <3>4. m \in 1..h
            BY <1>1, <3>3
        <3> QED BY <1>1, <3>1, <3>2, <3>4 DEF SL!Tall
    <2> QED BY <2>1, <2>2
<1>6. ASSUME l > level, NEW x \in SL!Tall(l), x # 0
      PROVE  FALSE
    <2>1. x \in 1..size
        BY <1>1, <1>3, <1>6
    <2>2. PICK h \in 1..level : DOMAIN nodes[x].forward = 1..h
        BY <2>1 DEF NodesKept, ListNode
    <2>3. l \in 1..h
        BY <1>2, <1>3, <1>6, <2>2
    <2> QED BY <1>1, <1>6, <2>3
<1> QED BY <1>2, <1>3, <1>4, <1>5, <1>6

-----------------------------------------------------------------------------
(* Skip list: where a search leaves a level *)

\* z is the last node on level l before the key k
IsLast(z, l, k) ==
    /\ z \in SL!Tall(l)
    /\ nodes[z].key < k
    /\ \A w \in SL!Tall(l) : nodes[w].key <= nodes[z].key \/ k <= nodes[w].key

LEMMA LastIs ==
    ASSUME NodesKept, NEW l \in 1..MaxLevel, NEW k \in Nat
    PROVE  \E z \in SL!Tall(l) : IsLast(z, l, k)
<1> DEFINE before == {w \in SL!Tall(l) : nodes[w].key < k}
           apart == {k - nodes[w].key : w \in before}
<1>1. \A w \in SL!Tall(l) : nodes[w].key \in Int
    BY NodesAre, TallIs
<1>2. 0 \in before
    BY NodesAre, TallIs
<1>3. apart \in SUBSET Nat /\ apart # {}
    <2>1. \A w \in before : k - nodes[w].key \in Nat
        BY <1>1
    <2> QED BY <1>2, <2>1
<1>4. PICK d \in apart : \A e \in apart : d <= e
    BY <1>3, LeastElement
<1>5. PICK z \in before : d = k - nodes[z].key
    BY <1>4
<1>6. ASSUME NEW w \in SL!Tall(l), ~(k <= nodes[w].key)
      PROVE  nodes[w].key <= nodes[z].key
    <2>1. w \in before
        BY <1>1, <1>6
    <2>2. k - nodes[z].key <= k - nodes[w].key
        BY <1>4, <1>5, <2>1
    <2> QED BY <1>1, <1>5, <2>2
<1>7. IsLast(z, l, k)
    BY <1>5, <1>6 DEF IsLast
<1> QED BY <1>5, <1>7

LEMMA LastIsOne ==
    ASSUME NodesKept, NEW l \in 1..MaxLevel, NEW k \in Nat, NEW y, NEW z,
           IsLast(y, l, k), IsLast(z, l, k)
    PROVE  y = z
<1>1. y \in 0..size /\ z \in 0..size
    BY TallIs DEF IsLast
<1>2. nodes[y].key \in Int /\ nodes[z].key \in Int
    BY <1>1, NodesAre
<1>3. nodes[y].key = nodes[z].key
    BY <1>2 DEF IsLast
<1> QED BY <1>1, <1>3, NodesAre

\* On each level a walk ends at the last node before the key
LEMMA WalkIs ==
    ASSUME SkipListInv, NEW l \in 1..MaxLevel, NEW k \in Nat,
           NEW x \in SL!Tall(l), nodes[x].key < k
    PROVE  IsLast(SL!Walk(x, l, k), l, k)
<1> DEFINE tall == SL!Tall(l)
           After(y) == nodes[y].forward[l]
           f == CHOOSE f : f = [y \in tall |->
                   IF After(y) # SL!Nil /\ SL!Passes(nodes[After(y)].key, k)
                   THEN f[After(y)] ELSE y]
           last == CHOOSE z \in tall : IsLast(z, l, k)
           g == [y \in tall |-> IF nodes[y].key < k THEN last ELSE y]
<1>1. SL!Walk(x, l, k) = f[x]
    BY DEF SL!Walk
<1>2. IsLast(last, l, k) /\ last \in tall
    BY LastIs DEF SkipListInv
<1>3. ASSUME NEW y \in tall
      PROVE  /\ nodes[y].key \in Int
             /\ After(y) # 0 => /\ After(y) \in tall
                               /\ nodes[After(y)].key \in Int
                               /\ nodes[y].key < nodes[After(y)].key
             /\ (After(y) = 0 \/ ~(nodes[After(y)].key < k)) /\ nodes[y].key < k =>
                    IsLast(y, l, k)
    <2>1. Follows(y, l, After(y))
        BY DEF SkipListInv, LinksKept
    <2>2. \A z \in tall : nodes[z].key \in Int
        BY NodesAre, TallIs DEF SkipListInv
    <2>3. After(y) # 0 => After(y) \in tall /\ nodes[y].key < nodes[After(y)].key
        BY <2>1 DEF Follows
    <2>4. ASSUME After(y) = 0 \/ ~(nodes[After(y)].key < k), nodes[y].key < k
          PROVE  IsLast(y, l, k)
        <3>1. CASE After(y) = 0
            <4>1. \A z \in tall : nodes[z].key <= nodes[y].key
                BY <2>1, <3>1 DEF Follows
            <4> QED BY <2>4, <4>1 DEF IsLast
        <3>2. CASE After(y) # 0
            <4>1. \A z \in tall : nodes[z].key <= nodes[y].key
                                    \/ nodes[After(y)].key <= nodes[z].key
                BY <2>1, <3>2 DEF Follows
            <4>2. k <= nodes[After(y)].key /\ nodes[After(y)].key \in Int
                BY <2>2, <2>3, <2>4, <3>2
            <4>3. \A z \in tall : nodes[z].key <= nodes[y].key \/ k <= nodes[z].key
                BY <2>2, <4>1, <4>2
            <4> QED BY <2>4, <4>3 DEF IsLast
        <3> QED BY <3>1, <3>2
    <2> QED BY <2>2, <2>3, <2>4
<1> HIDE DEF last, tall
<1>4. g = [y \in tall |->
             IF After(y) # SL!Nil /\ SL!Passes(nodes[After(y)].key, k) THEN g[After(y)] ELSE y]
    <2>1. ASSUME NEW y \in tall
          PROVE  g[y] = IF After(y) # SL!Nil /\ SL!Passes(nodes[After(y)].key, k)
                        THEN g[After(y)] ELSE y
        <3>1. CASE After(y) # 0 /\ nodes[After(y)].key < k
            <4>1. nodes[y].key < k /\ After(y) \in tall
                BY <1>3, <3>1
            <4> QED BY <3>1, <4>1 DEF SL!Nil, SL!Passes
        <3>2. CASE ~(After(y) # 0 /\ nodes[After(y)].key < k)
            <4>1. nodes[y].key < k => y = last
                <5>1. nodes[y].key < k => IsLast(y, l, k)
                    BY <1>3, <3>2
                <5> QED BY <1>2, <5>1, LastIsOne DEF SkipListInv
            <4> QED BY <3>2, <4>1 DEF SL!Nil, SL!Passes
        <3> QED BY <3>1, <3>2
    <2> QED BY <2>1
<1> HIDE DEF g
<1>5. f = [y \in tall |->
             IF After(y) # SL!Nil /\ SL!Passes(nodes[After(y)].key, k) THEN f[After(y)] ELSE y]
    BY <1>4
<1> HIDE DEF f
<1> DEFINE near == {n \in Nat : \A y \in tall :
                        nodes[y].key < k /\ k - nodes[y].key <= n => IsLast(f[y], l, k)}
<1>6. 0 \in near
    BY <1>3
<1>7. ASSUME NEW n \in near
      PROVE  n + 1 \in near
    <2>1. n \in Nat
        OBVIOUS
    <2>2. ASSUME NEW y \in tall, nodes[y].key < k, k - nodes[y].key <= n + 1
          PROVE  IsLast(f[y], l, k)
        <3>1. CASE After(y) # 0 /\ nodes[After(y)].key < k
            <4>1. f[y] = f[After(y)] /\ After(y) \in tall
                BY <1>3, <1>5, <3>1 DEF SL!Nil, SL!Passes
            <4>2. k - nodes[After(y)].key <= n
                BY <1>3, <2>1, <2>2, <3>1
            <4> QED BY <3>1, <4>1, <4>2
        <3>2. CASE ~(After(y) # 0 /\ nodes[After(y)].key < k)
            <4>1. f[y] = y
                BY <1>5, <3>2 DEF SL!Nil, SL!Passes
            <4> QED BY <1>3, <2>2, <3>2, <4>1
        <3> QED BY <3>1, <3>2
    <2> QED BY <2>1, <2>2
<1>8. near = Nat
    <2>1. near \in SUBSET Nat
        OBVIOUS
    <2> HIDE DEF near
    <2> QED BY <1>6, <1>7, <2>1, Induction
<1>9. x \in tall /\ nodes[x].key \in Int
    BY <1>3 DEF tall
<1>10. k - nodes[x].key \in Nat
    BY <1>9
<1>11. k - nodes[x].key \in near
    BY <1>8, <1>10
<1>12. k - nodes[x].key <= k - nodes[x].key
    BY <1>10
<1> QED BY <1>1, <1>9, <1>11, <1>12

\* On each level in use the search stops at the last node before the key
LEMMA StopsAre ==
    ASSUME SkipListInv, NEW k \in Nat
    PROVE  \A l \in 1..level : IsLast(SL!Stops(k)[l], l, k)
<1> DEFINE f == CHOOSE f : f = [l \in 1..level |->
                    SL!Walk(IF l = level THEN 0 ELSE f[l + 1], l, k)]
           g == [l \in 1..level |-> CHOOSE z \in SL!Tall(l) : IsLast(z, l, k)]
<1>1. SL!Stops(k) = f
    BY DEF SL!Stops
<1>2. level \in 1..MaxLevel /\ MaxLevel \in Nat
    BY SkipListAssumption DEF SkipListInv, NodesKept
<1>3. \A l \in 1..level : l \in 1..MaxLevel
    BY <1>2
<1>4. \A l \in 1..level : IsLast(g[l], l, k)
    BY <1>3, LastIs DEF SkipListInv
<1>5. ASSUME NEW l \in 1..level, NEW z, l # level => IsLast(z, l + 1, k)
      PROVE  IsLast(SL!Walk(IF l = level THEN 0 ELSE z, l, k), l, k)
    <2>1. l \in 1..MaxLevel
        BY <1>3
    <2>2. CASE l = level
        <3>1. 0 \in SL!Tall(l) /\ nodes[0].key < k
            BY <2>1, TallIs, NodesAre DEF SkipListInv
        <3> QED BY <2>1, <2>2, <3>1, WalkIs
    <2>3. CASE l # level
        <3>1. l + 1 \in 1..MaxLevel /\ l \in 1..l + 1
            BY <1>2, <2>1, <2>3
        <3>2. SL!Tall(l + 1) \subseteq SL!Tall(l)
            BY <3>1, TallIs DEF SkipListInv
        <3>3. z \in SL!Tall(l) /\ nodes[z].key < k
            BY <1>5, <2>3, <3>2 DEF IsLast
        <3> QED BY <2>1, <2>3, <3>3, WalkIs
    <2> QED BY <2>2, <2>3
<1> HIDE DEF g
<1>6. g = [l \in 1..level |-> SL!Walk(IF l = level THEN 0 ELSE g[l + 1], l, k)]
    <2>1. ASSUME NEW l \in 1..level
          PROVE  g[l] = SL!Walk(IF l = level THEN 0 ELSE g[l + 1], l, k)
        <3>1. l # level => l + 1 \in 1..level
            BY <1>2
        <3>2. IsLast(SL!Walk(IF l = level THEN 0 ELSE g[l + 1], l, k), l, k)
            BY <1>4, <1>5, <3>1
        <3> QED BY <1>3, <1>4, <3>2, LastIsOne DEF SkipListInv
    <2>2. g = [l \in 1..level |-> g[l]]
        BY DEF g
    <2> QED BY <2>1, <2>2
<1>7. f = [l \in 1..level |-> SL!Walk(IF l = level THEN 0 ELSE f[l + 1], l, k)]
    BY <1>6
<1> HIDE DEF f
<1> DEFINE below == {n \in Nat : \A l \in 1..level : level - l <= n => IsLast(f[l], l, k)}
<1>8. 0 \in below
    <2>1. ASSUME NEW l \in 1..level, level - l <= 0
          PROVE  IsLast(f[l], l, k)
        <3>1. l = level
            BY <1>2, <2>1
        <3> QED BY <1>5, <1>7, <3>1
    <2> QED BY <2>1
<1>9. ASSUME NEW n \in below
      PROVE  n + 1 \in below
    <2>1. n \in Nat
        OBVIOUS
    <2>2. ASSUME NEW l \in 1..level, level - l <= n + 1
          PROVE  IsLast(f[l], l, k)
        <3>1. l # level => l + 1 \in 1..level /\ level - (l + 1) <= n
            BY <1>2, <2>1, <2>2
        <3>2. l # level => IsLast(f[l + 1], l + 1, k)
            BY <3>1
        <3> QED BY <1>5, <1>7, <3>2
    <2> QED BY <2>1, <2>2
<1>10. below = Nat
    <2>1. below \in SUBSET Nat
        OBVIOUS
    <2> HIDE DEF below
    <2> QED BY <1>8, <1>9, <2>1, Induction
<1>11. ASSUME NEW l \in 1..level
       PROVE  IsLast(f[l], l, k)
    <2>1. level - l \in Nat
        BY <1>2
    <2>2. level - l \in below
        BY <1>10, <2>1
    <2>3. level - l <= level - l
        BY <2>1
    <2> QED BY <2>2, <2>3
<1> QED BY <1>1, <1>11

\* A search finds the node with the key
LEMMA FoundAre ==
    ASSUME SkipListInv, NEW k \in Nat
    PROVE  SL!Found(k) = {x \in 1..size : nodes[x].key = k}
<1> DEFINE s == SL!Stops(k)[1]
           next == nodes[s].forward[1]
<1>1. 1 \in 1..level /\ 1 \in 1..MaxLevel
    BY SkipListAssumption DEF SkipListInv, NodesKept
<1>2. IsLast(s, 1, k)
    BY <1>1, StopsAre
<1>3. Follows(s, 1, next)
    BY <1>1, <1>2 DEF SkipListInv, LinksKept, IsLast
<1>4. \A x \in 1..size : x \in SL!Tall(1)
    <2>1. ASSUME NEW x \in 1..size
          PROVE  x \in SL!Tall(1)
        <3>1. PICK h \in 1..level : DOMAIN nodes[x].forward = 1..h
            BY DEF SkipListInv, NodesKept, ListNode
        <3>2. 1 \in 1..h /\ x \in 0..size
            BY DEF SkipListInv, NodesKept
        <3> QED BY <1>1, <3>1, <3>2, TallIs DEF SkipListInv
    <2> QED BY <2>1
<1>5. /\ \A x \in SL!Tall(1) : nodes[x].key \in Int /\ x \in 0..size
      /\ \A x \in SL!Tall(1) \ {0} : x \in 1..size
    <2>1. SL!Tall(1) \subseteq 0..size
        BY <1>1, TallIs DEF SkipListInv
    <2>2. \A x \in 0..size : nodes[x].key \in Int
        BY NodesAre DEF SkipListInv
    <2>3. \A x \in 0..size : x # 0 => x \in 1..size
        BY DEF SkipListInv, NodesKept
    <2> QED BY <2>1, <2>2, <2>3
<1>6. SL!Found(k) = {x \in {next} \ {0} : nodes[x].key = k}
    BY DEF SL!Found, SL!Nil
<1> HIDE DEF s, next
<1>7. ASSUME NEW x \in SL!Found(k)
      PROVE  x \in 1..size /\ nodes[x].key = k
    BY <1>3, <1>5, <1>6, <1>7 DEF Follows
<1>8. ASSUME NEW x \in 1..size, nodes[x].key = k
      PROVE  x \in SL!Found(k)
    <2>1. x \in SL!Tall(1) /\ s \in SL!Tall(1) /\ nodes[s].key < k
        BY <1>2, <1>4 DEF IsLast
    <2>2. next \in SL!Tall(1) \ {0}
        BY <1>3, <1>5, <1>8, <2>1 DEF Follows
    <2>3. nodes[next].key <= k /\ nodes[s].key < nodes[next].key
        BY <1>3, <1>5, <1>8, <2>1, <2>2 DEF Follows
    <2>4. nodes[next].key <= nodes[s].key \/ k <= nodes[next].key
        BY <1>2, <2>2 DEF IsLast
    <2>5. nodes[next].key = k
        BY <1>5, <2>1, <2>2, <2>3, <2>4
    <2>6. x = next
        BY <1>5, <1>8, <2>1, <2>2, <2>5, NodesAre DEF SkipListInv
    <2> QED BY <1>6, <1>8, <2>2, <2>6
<1> QED BY <1>7, <1>8

-----------------------------------------------------------------------------
(* Skip list: what the levels list *)

\* Of several nodes one has the greatest key
Greatest(y, S) == y \in S /\ \A z \in S : nodes[z].key <= nodes[y].key

LEMMA GreatestKey ==
    ASSUME NodesKept, NEW R \in SUBSET (0..size), R # {}
    PROVE  \E y \in R : Greatest(y, R)
<1> DEFINE upto == {n \in Nat : \A S \in SUBSET (0..size) :
                        S # {} /\ S \subseteq 0..n => \E y \in S : Greatest(y, S)}
<1>1. size \in Nat /\ \A x \in 0..size : nodes[x].key \in Int
    BY NodesAre DEF NodesKept
<1>2. 0 \in upto
    <2>1. ASSUME NEW S \in SUBSET (0..size), S # {}, S \subseteq 0..0
          PROVE  \E y \in S : Greatest(y, S)
        <3>1. \A z \in S : z = 0
            BY <2>1
        <3>2. 0 \in S /\ S = {0}
            BY <2>1, <3>1
        <3>3. nodes[0].key \in Int
            BY <1>1, <3>2
        <3> QED BY <3>2, <3>3 DEF Greatest
    <2> QED BY <2>1
<1>3. ASSUME NEW n \in upto
      PROVE  n + 1 \in upto
    <2>1. n \in Nat
        OBVIOUS
    <2>2. ASSUME NEW S \in SUBSET (0..size), S # {}, S \subseteq 0..n + 1
          PROVE  \E y \in S : Greatest(y, S)
        <3> DEFINE T == S \ {n + 1}
        <3>1. T \in SUBSET (0..size) /\ T \subseteq 0..n
            BY <2>1, <2>2
        <3>2. CASE n + 1 \notin S
            <4>1. T = S
                BY <3>2
            <4> QED BY <2>2, <3>1, <4>1
        <3>3. CASE T = {}
            <4>1. S = {n + 1}
                BY <2>2, <3>3
            <4>2. nodes[n + 1].key \in Int
                BY <1>1, <4>1
            <4> QED BY <4>1, <4>2 DEF Greatest
        <3>4. CASE n + 1 \in S /\ T # {}
            <4>1. PICK y \in T : Greatest(y, T)
                BY <3>1, <3>4
            <4>2. nodes[n + 1].key \in Int /\ \A z \in S : nodes[z].key \in Int
                BY <1>1, <3>4
            <4>3. CASE nodes[n + 1].key <= nodes[y].key
                BY <4>1, <4>3 DEF Greatest
            <4>4. CASE ~(nodes[n + 1].key <= nodes[y].key)
                <5>1. \A z \in S : nodes[z].key <= nodes[n + 1].key
                    BY <4>1, <4>2, <4>4 DEF Greatest
                <5> QED BY <3>4, <5>1 DEF Greatest
            <4> QED BY <4>3, <4>4
        <3> HIDE DEF T
        <3> QED BY <3>2, <3>3, <3>4
    <2> QED BY <2>1, <2>2
<1>4. upto = Nat
    <2>1. upto \in SUBSET Nat
        OBVIOUS
    <2> HIDE DEF upto
    <2> QED BY <1>2, <1>3, <2>1, Induction
<1>5. size \in upto
    BY <1>1, <1>4
<1> QED BY <1>5

LEMMA ListFromIs ==
    ASSUME SkipListInv, NEW l \in 1..MaxLevel
    PROVE  SL!ListFrom(l) = SL!Tall(l) \ {0}
<1> DEFINE tall == SL!Tall(l)
           After(y) == nodes[y].forward[l]
           Behind(y) == {z \in tall : nodes[y].key < nodes[z].key}
           f == CHOOSE f : f = [y \in tall |->
                    IF After(y) = SL!Nil THEN {} ELSE {After(y)} \cup f[After(y)]]
           g == [y \in tall |-> Behind(y)]
<1>1. SL!ListFrom(l) = f[0]
    BY DEF SL!ListFrom
<1>2. 0 \in tall /\ Behind(0) = tall \ {0}
    <2>1. 0 \in tall /\ tall \subseteq 0..size
        BY TallIs DEF SkipListInv
    <2>2. \A z \in 0..size : -1 < nodes[z].key <=> z # 0
        <3>1. \A z \in 0..size : z # 0 => z \in 1..size
            BY DEF SkipListInv, NodesKept
        <3> QED BY <3>1, NodesAre DEF SkipListInv
    <2>3. nodes[0].key = -1
        BY NodesAre DEF SkipListInv
    <2> QED BY <2>1, <2>2, <2>3
<1>3. ASSUME NEW y \in tall
      PROVE  /\ nodes[y].key \in Int
             /\ After(y) # 0 => /\ After(y) \in tall
                                /\ nodes[y].key < nodes[After(y)].key
             /\ Behind(y) = IF After(y) = 0 THEN {} ELSE {After(y)} \cup Behind(After(y))
    <2>1. Follows(y, l, After(y))
        BY DEF SkipListInv, LinksKept
    <2>2. \A z \in tall : nodes[z].key \in Int
        BY NodesAre, TallIs DEF SkipListInv
    <2>3. After(y) # 0 => After(y) \in tall /\ nodes[y].key < nodes[After(y)].key
        BY <2>1 DEF Follows
    <2>4. CASE After(y) = 0
        <3>1. \A z \in tall : nodes[z].key <= nodes[y].key
            BY <2>1, <2>4 DEF Follows
        <3>2. Behind(y) = {}
            BY <2>2, <3>1
        <3> QED BY <2>2, <2>4, <3>2
    <2>5. CASE After(y) # 0
        <3> DEFINE n == After(y)
        <3>1. n \in tall /\ nodes[y].key < nodes[n].key
            BY <2>3, <2>5
        <3>2. \A z \in tall : nodes[z].key <= nodes[y].key \/ nodes[n].key <= nodes[z].key
            BY <2>1, <2>5 DEF Follows
        <3> HIDE DEF n
        <3>3. \A z \in tall : nodes[n].key = nodes[z].key => z = n
            BY <3>1, TallIs, NodesAre DEF SkipListInv
        <3>4. ASSUME NEW z \in tall
              PROVE  nodes[y].key < nodes[z].key <=> z = n \/ nodes[n].key < nodes[z].key
            BY <2>2, <3>1, <3>2, <3>3
        <3>5. Behind(y) = {n} \cup Behind(n)
            BY <3>1, <3>4
        <3> QED BY <2>2, <2>3, <2>5, <3>5 DEF n
    <2> QED BY <2>4, <2>5
<1> HIDE DEF After, Behind, tall
<1>4. g = [y \in tall |-> IF After(y) = SL!Nil THEN {} ELSE {After(y)} \cup g[After(y)]]
    <2>1. ASSUME NEW y \in tall
          PROVE  g[y] = IF After(y) = SL!Nil THEN {} ELSE {After(y)} \cup g[After(y)]
        BY <1>3 DEF SL!Nil
    <2> QED BY <2>1
<1> HIDE DEF g
<1>5. f = [y \in tall |-> IF After(y) = SL!Nil THEN {} ELSE {After(y)} \cup f[After(y)]]
    BY <1>4
<1> HIDE DEF f
<1> DEFINE shown == {y \in tall : f[y] = Behind(y)}
<1>6. ASSUME NEW y \in tall \ shown
      PROVE  After(y) \in tall \ shown /\ nodes[y].key < nodes[After(y)].key
    BY <1>3, <1>5, <1>6 DEF SL!Nil
<1>7. tall = shown
    <2>1. SUFFICES ASSUME tall # shown
                   PROVE  FALSE
        OBVIOUS
    <2> DEFINE rest == tall \ shown
    <2>2. rest # {} /\ rest \in SUBSET (0..size)
        BY <2>1, TallIs DEF SkipListInv, tall
    <2>3. \A y \in rest : nodes[y].key \in Int
        BY <1>3
    <2> HIDE DEF shown
    <2> HIDE DEF rest
    <2>4. PICK y \in rest : \A z \in rest : nodes[z].key <= nodes[y].key
        BY <2>2, GreatestKey DEF SkipListInv, Greatest
    <2> USE DEF rest
    <2>5. After(y) \in rest /\ nodes[y].key < nodes[After(y)].key
        BY <1>6
    <2>6. nodes[After(y)].key <= nodes[y].key
        BY <2>4, <2>5
    <2> HIDE DEF rest
    <2>7. nodes[After(y)].key \in Int /\ nodes[y].key \in Int
        BY <2>3, <2>5
    <2> QED BY <2>5, <2>6, <2>7
<1>8. f[0] = Behind(0)
    BY <1>2, <1>7
<1> QED BY <1>1, <1>2, <1>8 DEF tall

-----------------------------------------------------------------------------
(* Skip list: what holds in every state *)

\* The operators that SkipList takes from the libraries are those of the libraries
LEMMA SkipListOperators ==
    /\ \A S : SL!Cardinality(S) = Cardinality(S)
    /\ \A S : SL!Max(S) = Max(S)
<1>1. \A S : SL!Cardinality(S) = Cardinality(S)
    BY DEF SL!Cardinality, Cardinality, SL!IsFiniteSet, IsFiniteSet
<1>2. \A S : SL!Max(S) = Max(S)
    BY DEF SL!Max, Max
<1> QED BY <1>1, <1>2

LEMMA LowestIs ==
    ASSUME NodesKept
    PROVE  1 \in 1..MaxLevel /\ SL!Tall(1) = 0..size
<1>1. 1 \in 1..MaxLevel /\ level \in 1..MaxLevel /\ MaxLevel \in Nat
    BY SkipListAssumption DEF NodesKept
<1>2. ASSUME NEW x \in 0..size
      PROVE  x \in SL!Tall(1)
    <2>1. CASE x = 0
        BY <1>1, <2>1, TallIs
    <2>2. CASE x # 0
        <3>1. x \in 1..size
            BY <2>2 DEF NodesKept
        <3>2. PICK h \in 1..level : DOMAIN nodes[x].forward = 1..h
            BY <3>1 DEF NodesKept, ListNode
        <3>3. 1 \in 1..h
            BY <1>1
        <3> QED BY <1>1, <3>2, <3>3, TallIs
    <2> QED BY <2>1, <2>2
<1> QED BY <1>1, <1>2, TallIs

LEMMA SkipListEntries ==
    ASSUME SkipListInv
    PROVE  SL!Entries = {nodes[x] : x \in 1..size}
<1>1. SL!ListFrom(1) = 1..size
    <2>1. (0..size) \ {0} = 1..size
        BY DEF SkipListInv, NodesKept
    <2> QED BY <2>1, LowestIs, ListFromIs DEF SkipListInv
<1> QED BY <1>1 DEF SL!Entries

LEMMA SkipListLevelsNested ==
    ASSUME SkipListInv
    PROVE  SL!LevelsNested
<1>1. NodesKept /\ size \in Nat /\ level \in 1..MaxLevel /\ MaxLevel \in Nat
    BY SkipListAssumption DEF SkipListInv, NodesKept
<1>2. ASSUME NEW l \in 1..MaxLevel
      PROVE  SL!ListFrom(l) = {x \in 1..size : l <= Cardinality(DOMAIN nodes[x].forward)}
    <2>1. ASSUME NEW x \in 1..size
          PROVE  x \in SL!Tall(l) <=> l <= Cardinality(DOMAIN nodes[x].forward)
        <3>1. PICK h \in 1..level : DOMAIN nodes[x].forward = 1..h
            BY <1>1 DEF NodesKept, ListNode
        <3>2. h \in Nat /\ Cardinality(1..h) = h
            BY <1>1, FS_Interval
        <3>3. x \in 0..size
            BY <1>1
        <3>4. l \in 1..h <=> l <= h
            BY <1>1, <3>2
        <3> QED BY <1>1, <3>1, <3>2, <3>3, <3>4, TallIs
    <2>2. SL!ListFrom(l) = SL!Tall(l) \ {0}
        BY ListFromIs
    <2>3. \A x \in SL!Tall(l) \ {0} : x \in 1..size
        BY <1>1, TallIs
    <2>4. 0 \notin 1..size
        BY <1>1
    <2> QED BY <2>1, <2>2, <2>3, <2>4
<1>3. ASSUME NEW x \in DOMAIN nodes, NEW l \in DOMAIN nodes[x].forward,
             nodes[x].forward[l] # 0
      PROVE  l <= level /\ nodes[x].key < nodes[nodes[x].forward[l]].key
    <2>1. x \in 0..size
        BY <1>1, NodesAre
    <2>2. l \in 1..MaxLevel
        <3>1. CASE x = 0
            BY <1>1, <3>1 DEF NodesKept
        <3>2. CASE x # 0
            <4>1. x \in 1..size
                BY <1>1, <2>1, <3>2
            <4>2. PICK h \in 1..level : DOMAIN nodes[x].forward = 1..h
                BY <1>1, <4>1 DEF NodesKept, ListNode
            <4> QED BY <1>1, <4>2
        <3> QED BY <3>1, <3>2
    <2>3. x \in SL!Tall(l)
        BY <1>1, <2>1, <2>2, TallIs
    <2>4. Follows(x, l, nodes[x].forward[l])
        BY <2>2, <2>3 DEF SkipListInv, LinksKept
    <2>5. SL!Tall(l) # {0}
        BY <1>3, <2>4 DEF Follows
    <2>6. ~(l > level)
        BY <1>1, <2>2, <2>5, TallIs
    <2> QED BY <1>1, <1>3, <2>2, <2>4, <2>6 DEF Follows
<1> QED BY <1>2, <1>3, SkipListOperators DEF SL!LevelsNested, SL!Nil

LEMMA SkipListInit ==
    ASSUME SL!Init
    PROVE  SkipListInv /\ size = 0
<1>1. /\ nodes = [x \in {0} |-> [key |-> -1, value |-> Absent,
                                 forward |-> [l \in 1..MaxLevel |-> 0]]]
      /\ level = 1 /\ size = 0 /\ MaxLevel \in Nat \ {0}
    BY SkipListAssumption DEF SL!Init, SL!Nil
<1>2. 0..size = {0} /\ 1..size = {}
    BY <1>1
<1>3. NodesKept
    BY <1>1, <1>2 DEF NodesKept
<1>4. \A l \in 1..MaxLevel : SL!Tall(l) = {0} /\ nodes[0].forward[l] = 0
    BY <1>1 DEF SL!Tall
<1>5. nodes[0].key <= nodes[0].key
    BY <1>1
<1>6. LinksKept
    BY <1>4, <1>5 DEF LinksKept, Follows
<1> QED BY <1>1, <1>3, <1>6 DEF SkipListInv

-----------------------------------------------------------------------------
(* Skip list: a node's value changes *)

\* What the list holds, as pairs
ListPairs == {<<nodes[x].key, nodes[x].value>> : x \in 1..size}

LEMMA SkipListPairs ==
    ASSUME SkipListInv
    PROVE  Pairs(SL!Entries) = ListPairs
<1>1. SL!Entries = {nodes[x] : x \in 1..size}
    BY SkipListEntries
<1> QED BY <1>1 DEF Pairs, ListPairs

LEMMA SkipListUnchanged ==
    ASSUME SkipListInv, UNCHANGED <<nodes, level, size>>
    PROVE  SkipListInv' /\ ListPairs' = ListPairs
<1>1. NodesKept'
    BY DEF SkipListInv, NodesKept, ListNode
<1>2. \A l \in 1..MaxLevel : SL!Tall(l)' = SL!Tall(l)
    BY DEF SL!Tall
<1>3. LinksKept'
    BY <1>2 DEF SkipListInv, LinksKept, Follows
<1>4. ListPairs' = ListPairs
    BY DEF ListPairs
<1> QED BY <1>1, <1>3, <1>4 DEF SkipListInv

\* The value of a node, its key and its pointers staying what they are
LEMMA ListChanged ==
    ASSUME SkipListInv, NEW x \in 1..size, NEW v \in ListValues \cup {Tombstone},
           nodes' = [nodes EXCEPT ![x].value = v], UNCHANGED <<level, size>>
    PROVE  SkipListInv' /\ ListPairs' = GivenPairs(ListPairs, nodes[x].key, v)
<1>1. /\ DOMAIN nodes = 0..size /\ x \in 0..size /\ size \in Nat
      /\ 1..size \subseteq 0..size /\ 0 \notin 1..size
    BY NodesAre DEF SkipListInv, NodesKept
<1>2. \A y \in 1..size : ListNode(nodes[y])
    BY DEF SkipListInv, NodesKept
<1>3. ASSUME NEW y \in 0..size
      PROVE  /\ nodes'[y].key = nodes[y].key
             /\ nodes'[y].forward = nodes[y].forward
             /\ nodes'[y].value = IF y = x THEN v ELSE nodes[y].value
             /\ nodes[y] = [key |-> nodes[y].key, value |-> nodes[y].value,
                            forward |-> nodes[y].forward]
                => nodes'[y] = [key |-> nodes'[y].key, value |-> nodes'[y].value,
                                forward |-> nodes'[y].forward]
    <2>1. CASE y = x
        <3>1. nodes[x] = [key |-> nodes[x].key, value |-> nodes[x].value,
                          forward |-> nodes[x].forward]
            BY <1>2 DEF ListNode
        <3>2. nodes'[x] = [nodes[x] EXCEPT !.value = v]
            BY <1>1
        <3>3. nodes'[x] = [key |-> nodes[x].key, value |-> v, forward |-> nodes[x].forward]
            BY <3>1, <3>2
        <3> QED BY <2>1, <3>3
    <2>2. CASE y # x
        <3>1. nodes'[y] = nodes[y]
            BY <1>1, <2>2
        <3> QED BY <2>2, <3>1
    <2> QED BY <2>1, <2>2
<1>4. NodesKept'
    <2>1. nodes' = [y \in 0..size |-> nodes'[y]]
        BY <1>1
    <2>2. nodes'[0] = [key |-> -1, value |-> nodes'[0].value, forward |-> nodes'[0].forward]
        <3>1. nodes[0] = [key |-> -1, value |-> nodes[0].value, forward |-> nodes[0].forward]
            BY DEF SkipListInv, NodesKept
        <3>2. nodes'[0] = nodes[0]
            BY <1>1
        <3> QED BY <3>1, <3>2
    <2>3. DOMAIN nodes'[0].forward = 1..MaxLevel
        BY <1>1, <1>3 DEF SkipListInv, NodesKept
    <2>4. ASSUME NEW y \in 1..size
          PROVE  ListNode(nodes[y])'
        <3>1. y \in 0..size /\ ListNode(nodes[y])
            BY <1>1, <1>2
        <3>2. nodes'[y].key = nodes[y].key /\ nodes'[y].forward = nodes[y].forward
            BY <1>3, <3>1
        <3>3. nodes'[y].value \in ListValues \cup {Tombstone}
            BY <1>3, <3>1 DEF ListNode
        <3>4. nodes'[y] = [key |-> nodes'[y].key, value |-> nodes'[y].value,
                           forward |-> nodes'[y].forward]
            BY <1>3, <3>1 DEF ListNode
        <3> QED BY <3>1, <3>2, <3>3, <3>4 DEF ListNode
    <2>5. \A y, z \in 1..size : nodes'[y].key = nodes'[z].key => y = z
        <3>1. \A y \in 1..size : nodes'[y].key = nodes[y].key
            BY <1>1, <1>3
        <3> QED BY <3>1 DEF SkipListInv, NodesKept
    <2>6. size' \in Nat /\ level' \in 1..MaxLevel
        BY DEF SkipListInv, NodesKept
    <2> QED BY <2>1, <2>2, <2>3, <2>4, <2>5, <2>6 DEF NodesKept
<1>5. LinksKept'
    <2>1. ASSUME NEW l \in 1..MaxLevel
          PROVE  SL!Tall(l)' = SL!Tall(l) /\ SL!Tall(l) \subseteq 0..size
        <3>1. DOMAIN nodes' = 0..size
            BY <1>1
        <3> QED BY <1>1, <1>3, <3>1 DEF SL!Tall
    <2>2. ASSUME NEW l \in 1..MaxLevel, NEW y \in SL!Tall(l)
          PROVE  Follows(y, l, nodes[y].forward[l])'
        <3>1. Follows(y, l, nodes[y].forward[l])
            BY DEF SkipListInv, LinksKept
        <3> DEFINE n == nodes[y].forward[l]
        <3>2. nodes'[y].forward[l] = n
            BY <1>3, <2>1
        <3>3. \A z \in SL!Tall(l) : nodes'[z].key = nodes[z].key
            BY <1>3, <2>1
        <3> HIDE DEF n
        <3>4. Follows(y, l, n)
            BY <3>1 DEF n
        <3>5. CASE n = 0
            BY <2>1, <3>2, <3>3, <3>4, <3>5 DEF Follows
        <3>6. CASE n \in SL!Tall(l) \ {0}
            <4>1. nodes'[n].key = nodes[n].key /\ nodes'[y].key = nodes[y].key
                BY <3>3, <3>6
            <4>2. /\ nodes[y].key < nodes[n].key
                  /\ \A z \in SL!Tall(l) : nodes[z].key <= nodes[y].key
                                             \/ nodes[n].key <= nodes[z].key
                BY <3>4, <3>6 DEF Follows
            <4> QED BY <2>1, <3>2, <3>3, <3>6, <4>1, <4>2 DEF Follows
        <3> QED BY <3>4, <3>5, <3>6 DEF Follows
    <2> QED BY <2>1, <2>2 DEF LinksKept
<1>6. ListPairs' = GivenPairs(ListPairs, nodes[x].key, v)
    <2>1. \A y \in 1..size : nodes'[y].key = nodes[y].key
                             /\ nodes'[y].value = IF y = x THEN v ELSE nodes[y].value
        BY <1>1, <1>3
    <2>2. ListPairs' = {<<nodes[y].key, IF y = x THEN v ELSE nodes[y].value>> : y \in 1..size}
        BY <2>1 DEF ListPairs
    <2>3. \A y \in 1..size : nodes[y].key = nodes[x].key => y = x
        BY DEF SkipListInv, NodesKept
    <2>4. \A p \in ListPairs' : p \in GivenPairs(ListPairs, nodes[x].key, v)
        BY <2>2, <2>3 DEF ListPairs, GivenPairs
    <2>5. \A p \in GivenPairs(ListPairs, nodes[x].key, v) : p \in ListPairs'
        BY <2>2, <2>3 DEF ListPairs, GivenPairs
    <2> QED BY <2>4, <2>5
<1> QED BY <1>4, <1>5, <1>6 DEF SkipListInv

-----------------------------------------------------------------------------
(* Skip list: a node is linked on each of its levels *)

\* On each level the new node comes after the last node before its key
LEMMA BeforeAre ==
    ASSUME SkipListInv, NEW k \in Nat, NEW h \in 1..MaxLevel
    PROVE  \A l \in 1..h : IsLast(SL!Before(k, h)[l], l, k)
<1>1. NodesKept /\ level \in 1..MaxLevel /\ MaxLevel \in Nat
    BY SkipListAssumption DEF SkipListInv, NodesKept
<1>2. ASSUME NEW l \in 1..h
      PROVE  IsLast(SL!Before(k, h)[l], l, k)
    <2>1. l \in 1..MaxLevel
        BY <1>1
    <2>2. SL!Before(k, h)[l] = IF l <= level THEN SL!Stops(k)[l] ELSE 0
        BY DEF SL!Before
    <2>3. CASE l <= level
        <3>1. l \in 1..level
            BY <1>1, <2>1, <2>3
        <3> QED BY <2>2, <2>3, <3>1, StopsAre
    <2>4. CASE l > level
        <3>1. SL!Tall(l) = {0} /\ nodes[0].key = -1
            BY <1>1, <2>1, <2>4, TallIs, NodesAre
        <3>2. IsLast(0, l, k)
            BY <3>1 DEF IsLast
        <3>3. ~(l <= level)
            BY <1>1, <2>1, <2>4
        <3> QED BY <2>2, <3>2, <3>3
    <2> QED BY <1>1, <2>1, <2>3, <2>4
<1> QED BY <1>2

\* What linking does: the new node takes over the pointers of the nodes before it, and
\* these point to it
IsLinked(k, v, h) ==
    /\ DOMAIN nodes' = 0..size + 1
    /\ nodes' = [x \in 0..size + 1 |-> nodes'[x]]
    /\ nodes'[size + 1] =
           [key |-> k, value |-> v,
            forward |-> [l \in 1..h |-> nodes[SL!Before(k, h)[l]].forward[l]]]
    /\ \A x \in 0..size :
          /\ nodes'[x] = [key |-> nodes[x].key, value |-> nodes[x].value,
                          forward |-> nodes'[x].forward]
          /\ DOMAIN nodes'[x].forward = DOMAIN nodes[x].forward
          /\ \A l \in DOMAIN nodes[x].forward :
                nodes'[x].forward[l] = IF l <= h /\ SL!Before(k, h)[l] = x
                                       THEN size + 1 ELSE nodes[x].forward[l]

LEMMA LinkedIs ==
    ASSUME NodesKept, NEW k, NEW v, NEW h, nodes' = SL!Linked(k, v, h)
    PROVE  IsLinked(k, v, h)
<1> DEFINE before == SL!Before(k, h)
           new == size + 1
<1>1. DOMAIN nodes = 0..size /\ size \in Nat
    BY NodesAre DEF NodesKept
<1>2. nodes' = [x \in DOMAIN nodes \cup {new} |->
            IF x = new
            THEN [key |-> k, value |-> v,
                  forward |-> [l \in 1..h |-> nodes[before[l]].forward[l]]]
            ELSE [nodes[x] EXCEPT !.forward =
                    [l \in DOMAIN @ |-> IF l <= h /\ before[l] = x THEN new ELSE @[l]]]]
    BY DEF SL!Linked
<1> HIDE DEF before
<1>3. DOMAIN nodes \cup {new} = 0..size + 1 /\ new \in 0..size + 1
    BY <1>1
<1>4. DOMAIN nodes' = 0..size + 1 /\ nodes' = [x \in 0..size + 1 |-> nodes'[x]]
    BY <1>2, <1>3
<1>5. nodes'[new] = [key |-> k, value |-> v,
                     forward |-> [l \in 1..h |-> nodes[before[l]].forward[l]]]
    BY <1>2, <1>3
<1>6. ASSUME NEW x \in 0..size
      PROVE  /\ nodes'[x] = [key |-> nodes[x].key, value |-> nodes[x].value,
                             forward |-> nodes'[x].forward]
             /\ nodes'[x].forward = [l \in DOMAIN nodes[x].forward |->
                    IF l <= h /\ before[l] = x THEN new ELSE nodes[x].forward[l]]
    <2>1. nodes[x] = [key |-> nodes[x].key, value |-> nodes[x].value,
                      forward |-> nodes[x].forward]
        <3>1. CASE x = 0
            BY <3>1 DEF NodesKept
        <3>2. CASE x # 0
            <4>1. x \in 1..size
                BY <1>1, <3>2
            <4> QED BY <4>1 DEF NodesKept, ListNode
        <3> QED BY <3>1, <3>2
    <2>2. x # new /\ x \in DOMAIN nodes \cup {new}
        BY <1>1
    <2>3. PICK pointers : /\ nodes'[x] = [nodes[x] EXCEPT !.forward = pointers]
                          /\ pointers = [l \in DOMAIN nodes[x].forward |->
                                IF l <= h /\ before[l] = x THEN new ELSE nodes[x].forward[l]]
        BY <1>2, <2>2
    <2>4. nodes'[x] = [key |-> nodes[x].key, value |-> nodes[x].value, forward |-> pointers]
        BY <2>1, <2>3
    <2>5. nodes'[x].forward = pointers
        BY <2>4
    <2>6. nodes'[x] = [key |-> nodes[x].key, value |-> nodes[x].value,
                       forward |-> nodes'[x].forward]
        BY <2>4, <2>5
    <2>7. nodes'[x].forward = [l \in DOMAIN nodes[x].forward |->
                    IF l <= h /\ before[l] = x THEN new ELSE nodes[x].forward[l]]
        BY <2>3, <2>5
    <2> QED BY <2>6, <2>7
<1>7. ASSUME NEW x \in 0..size
      PROVE  /\ DOMAIN nodes'[x].forward = DOMAIN nodes[x].forward
             /\ \A l \in DOMAIN nodes[x].forward :
                   nodes'[x].forward[l] = IF l <= h /\ before[l] = x
                                          THEN new ELSE nodes[x].forward[l]
    <2>1. nodes'[x].forward = [l \in DOMAIN nodes[x].forward |->
                IF l <= h /\ before[l] = x THEN new ELSE nodes[x].forward[l]]
        BY <1>6
    <2> QED BY <2>1
<1>8. \A x \in 0..size : nodes'[x] = [key |-> nodes[x].key, value |-> nodes[x].value,
                                      forward |-> nodes'[x].forward]
    BY <1>6
<1> QED BY <1>4, <1>5, <1>7, <1>8 DEF IsLinked, before

\* The new node has the levels below its height
LEMMA LinkedTall ==
    ASSUME NodesKept, NEW k, NEW v, NEW h \in 1..MaxLevel, IsLinked(k, v, h),
           NEW l \in 1..MaxLevel
    PROVE  SL!Tall(l)' = SL!Tall(l) \cup (IF l <= h THEN {size + 1} ELSE {})
<1>1. DOMAIN nodes = 0..size /\ size \in Nat /\ MaxLevel \in Nat
    BY NodesAre, SkipListAssumption DEF NodesKept
<1>2. l \in DOMAIN nodes'[size + 1].forward <=> l <= h
    <2>1. DOMAIN nodes'[size + 1].forward = 1..h
        BY DEF IsLinked
    <2> QED BY <1>1, <2>1
<1>3. \A x \in 0..size : DOMAIN nodes'[x].forward = DOMAIN nodes[x].forward
    BY DEF IsLinked
<1>4. \A x : x \in DOMAIN nodes' <=> x \in 0..size \/ x = size + 1
    <2>1. DOMAIN nodes' = 0..size + 1
        BY DEF IsLinked
    <2> QED BY <1>1, <2>1
<1>5. SL!Tall(l)' = {x \in DOMAIN nodes' : l \in DOMAIN nodes'[x].forward}
    BY DEF SL!Tall
<1>6. SL!Tall(l) = {x \in 0..size : l \in DOMAIN nodes[x].forward}
    BY <1>1 DEF SL!Tall
<1> QED BY <1>2, <1>3, <1>4, <1>5, <1>6

LEMMA LinkedNodesKept ==
    ASSUME NodesKept, NEW k \in ListKeys, NEW v \in ListValues, NEW h \in 1..MaxLevel,
           \A x \in 1..size : nodes[x].key # k,
           IsLinked(k, v, h), level' = SL!Raised(h), size' = size + 1
    PROVE  NodesKept'
<1>1. /\ size \in Nat /\ level \in 1..MaxLevel /\ MaxLevel \in Nat /\ h \in 1..MaxLevel
      /\ 0 \in 0..size /\ 1..size \subseteq 0..size
    BY SkipListAssumption DEF NodesKept
<1>2. level' \in 1..MaxLevel /\ level <= level' /\ h <= level'
    <2>1. level' \in {level, h} /\ \A m \in {level, h} : level' >= m
        <3>1. \E m \in {level, h} : \A n \in {level, h} : m >= n
            BY <1>1
        <3> QED BY <3>1, SkipListOperators DEF SL!Raised, Max
    <2> QED BY <1>1, <2>1
<1>3. \A x \in 1..size + 1 : x \in 1..size \/ x = size + 1
    BY <1>1
<1>4. ASSUME NEW x \in 0..size
      PROVE  nodes'[x].key = nodes[x].key /\ nodes'[x].value = nodes[x].value
    <2>1. nodes'[x] = [key |-> nodes[x].key, value |-> nodes[x].value,
                       forward |-> nodes'[x].forward]
        BY DEF IsLinked
    <2> QED BY <2>1
<1>5. nodes'[size + 1].key = k /\ nodes'[size + 1].value = v
    BY DEF IsLinked
<1>6. nodes'[0] = [key |-> -1, value |-> nodes'[0].value, forward |-> nodes'[0].forward]
    <2>1. nodes'[0] = [key |-> nodes[0].key, value |-> nodes[0].value,
                       forward |-> nodes'[0].forward]
        BY <1>1 DEF IsLinked
    <2>2. nodes[0].key = -1
        BY NodesAre
    <2> QED BY <2>1, <2>2
<1>7. DOMAIN nodes'[0].forward = 1..MaxLevel
    BY <1>1 DEF IsLinked, NodesKept
<1>8. ASSUME NEW x \in 1..size + 1
      PROVE  ListNode(nodes[x])'
    <2>1. CASE x \in 1..size
        <3>1. ListNode(nodes[x]) /\ x \in 0..size
            BY <1>1, <2>1 DEF NodesKept
        <3>2. PICK g \in 1..level : DOMAIN nodes[x].forward = 1..g
            BY <3>1 DEF ListNode
        <3>3. g \in 1..level' /\ DOMAIN nodes'[x].forward = 1..g
            <4>1. g \in 1..level'
                BY <1>1, <1>2
            <4>2. DOMAIN nodes'[x].forward = DOMAIN nodes[x].forward
                BY <3>1 DEF IsLinked
            <4> QED BY <3>2, <4>1, <4>2
        <3>4. nodes'[x] = [key |-> nodes'[x].key, value |-> nodes'[x].value,
                           forward |-> nodes'[x].forward]
            <4>1. nodes'[x] = [key |-> nodes[x].key, value |-> nodes[x].value,
                               forward |-> nodes'[x].forward]
                BY <3>1 DEF IsLinked
            <4> QED BY <4>1
        <3>5. nodes'[x].key \in ListKeys /\ nodes'[x].value \in ListValues \cup {Tombstone}
            BY <1>4, <3>1 DEF ListNode
        <3> QED BY <3>3, <3>4, <3>5 DEF ListNode
    <2>2. CASE x = size + 1
        <3> DEFINE pointers == [l \in 1..h |-> nodes[SL!Before(k, h)[l]].forward[l]]
        <3>1. nodes'[x] = [key |-> k, value |-> v, forward |-> pointers]
            BY <2>2 DEF IsLinked
        <3>2. DOMAIN pointers = 1..h
            OBVIOUS
        <3> HIDE DEF pointers
        <3>3. h \in 1..level'
            BY <1>1, <1>2
        <3> QED BY <3>1, <3>2, <3>3 DEF ListNode
    <2> QED BY <1>3, <2>1, <2>2
<1>9. ASSUME NEW x \in 1..size + 1, NEW y \in 1..size + 1, nodes'[x].key = nodes'[y].key
      PROVE  x = y
    <2>1. CASE x \in 1..size /\ y \in 1..size
        <3>1. nodes[x].key = nodes[y].key
            BY <1>1, <1>4, <1>9, <2>1
        <3> QED BY <2>1, <3>1 DEF NodesKept
    <2>2. CASE x = size + 1 /\ y \in 1..size
        BY <1>1, <1>4, <1>5, <1>9, <2>2
    <2>3. CASE x \in 1..size /\ y = size + 1
        BY <1>1, <1>4, <1>5, <1>9, <2>3
    <2> QED BY <1>3, <2>1, <2>2, <2>3
<1>10. nodes' = [x \in 0..size' |-> nodes'[x]]
    BY DEF IsLinked
<1>11. size' \in Nat
    BY <1>1
<1> QED BY <1>2, <1>6, <1>7, <1>8, <1>9, <1>10, <1>11 DEF NodesKept

LEMMA LinkedLinksKept ==
    ASSUME SkipListInv, NEW k \in ListKeys, NEW v \in ListValues, NEW h \in 1..MaxLevel,
           \A x \in 1..size : nodes[x].key # k,
           IsLinked(k, v, h)
    PROVE  LinksKept'
<1> DEFINE before == SL!Before(k, h)
           new == size + 1
<1>1. NodesKept /\ k \in Nat /\ size \in Nat /\ MaxLevel \in Nat
    BY SkipListAssumption DEF SkipListInv, NodesKept
<1>2. ASSUME NEW x \in 0..size
      PROVE  nodes'[x].key = nodes[x].key /\ nodes[x].key \in Int /\ nodes[x].key # k
    <2>1. nodes'[x] = [key |-> nodes[x].key, value |-> nodes[x].value,
                       forward |-> nodes'[x].forward]
        BY DEF IsLinked
    <2>2. nodes[x].key # k
        <3>1. CASE x = 0
            BY <1>1, <3>1, NodesAre
        <3>2. CASE x # 0
            <4>1. x \in 1..size
                BY <1>1, <3>2
            <4> QED BY <4>1
        <3> QED BY <3>1, <3>2
    <2> QED BY <1>1, <2>1, <2>2, NodesAre
<1>3. nodes'[new].key = k /\ \A l \in 1..h : nodes'[new].forward[l] = nodes[before[l]].forward[l]
    BY DEF IsLinked
<1>4. ASSUME NEW l \in 1..MaxLevel, NEW x \in SL!Tall(l)'
      PROVE  Follows(x, l, nodes[x].forward[l])'
    <2> DEFINE tall == SL!Tall(l)
               b == before[l]
               n == nodes[b].forward[l]
               y == nodes[x].forward[l]
    <2>1. SL!Tall(l)' = tall \cup (IF l <= h THEN {new} ELSE {})
        BY <1>1, LinkedTall
    <2>2. /\ tall \subseteq 0..size /\ new \notin tall /\ new # 0
          /\ \A z \in tall : l \in DOMAIN nodes[z].forward
        BY <1>1, TallIs
    <2>3. \A z \in tall : /\ nodes'[z].key = nodes[z].key
                          /\ nodes[z].key \in Int /\ nodes[z].key # k
        BY <1>2, <2>2
    <2>4. x \in tall => nodes'[x].forward[l] = IF l <= h /\ b = x THEN new ELSE y
        BY <2>2 DEF IsLinked
    <2>5. x \in tall => Follows(x, l, y)
        BY DEF SkipListInv, LinksKept
    <2>6. l <= h => IsLast(b, l, k) /\ b \in tall /\ Follows(b, l, n)
        <3>1. l <= h => IsLast(b, l, k)
            BY <1>1, BeforeAre
        <3>2. l <= h => b \in tall
            BY <3>1 DEF IsLast
        <3>3. b \in tall => Follows(b, l, n)
            BY DEF SkipListInv, LinksKept
        <3> QED BY <3>1, <3>2, <3>3
    <2>7. l <= h \/ ~(l <= h)
        OBVIOUS
    <2> DEFINE K(z) == nodes[z].key
    <2>8. CASE x \in tall /\ ~(l <= h)
        <3>1. SL!Tall(l)' = tall /\ nodes'[x].forward[l] = y
            BY <2>1, <2>4, <2>8
        <3>2. Follows(x, l, y) /\ K(x) = nodes'[x].key
            BY <2>3, <2>5, <2>8
        <3> HIDE DEF tall, y
        <3>3. CASE y = 0
            <4>1. \A z \in tall : K(z) <= K(x)
                BY <3>2, <3>3 DEF Follows, tall
            <4> QED BY <2>3, <3>1, <3>2, <3>3, <4>1 DEF Follows
        <3>4. CASE y # 0
            <4>1. /\ y \in tall /\ K(x) < K(y)
                  /\ \A z \in tall : K(z) <= K(x) \/ K(y) <= K(z)
                BY <3>2, <3>4 DEF Follows, tall
            <4> QED BY <2>3, <3>1, <3>2, <3>4, <4>1 DEF Follows
        <3> QED BY <3>3, <3>4
    <2>9. CASE l <= h /\ x = new
        <3>1. SL!Tall(l)' = tall \cup {new} /\ nodes'[x].forward[l] = n
            BY <1>1, <1>3, <2>1, <2>9
        <3>2. /\ b \in tall /\ K(b) < k
              /\ \A z \in tall : K(z) <= K(b) \/ k <= K(z)
            BY <2>6, <2>9 DEF IsLast
        <3>3. Follows(b, l, n)
            BY <2>6, <2>9
        <3> HIDE DEF tall, n, b
        <3>4. CASE n = 0
            <4>1. \A z \in tall : K(z) <= K(b)
                BY <3>3, <3>4 DEF Follows, tall
            <4>2. \A z \in tall : K(z) <= k
                BY <1>1, <2>3, <3>2, <4>1
            <4> QED BY <1>1, <1>3, <2>3, <2>9, <3>1, <3>4, <4>2 DEF Follows
        <3>5. CASE n # 0
            <4>1. /\ n \in tall /\ K(b) < K(n)
                  /\ \A z \in tall : K(z) <= K(b) \/ K(n) <= K(z)
                BY <3>3, <3>5 DEF Follows, tall
            <4>2. k < K(n)
                BY <1>1, <2>3, <3>2, <4>1
            <4>3. \A z \in tall : K(z) <= k \/ K(n) <= K(z)
                BY <1>1, <2>3, <3>2, <4>1
            <4> QED BY <1>1, <1>3, <2>3, <2>9, <3>1, <3>5, <4>1, <4>2, <4>3 DEF Follows
        <3> QED BY <3>4, <3>5
    <2>10. CASE l <= h /\ x \in tall /\ x = b
        <3>1. SL!Tall(l)' = tall \cup {new} /\ nodes'[x].forward[l] = new
            BY <2>1, <2>4, <2>10
        <3>2. K(x) < k /\ \A z \in tall : K(z) <= K(x) \/ k <= K(z)
            BY <2>6, <2>10 DEF IsLast
        <3> HIDE DEF tall, b
        <3> QED BY <1>1, <1>3, <2>2, <2>3, <2>10, <3>1, <3>2 DEF Follows
    <2>11. CASE l <= h /\ x \in tall /\ x # b
        <3>1. SL!Tall(l)' = tall \cup {new} /\ nodes'[x].forward[l] = y
            BY <2>1, <2>4, <2>11
        <3>2. /\ b \in tall /\ K(b) < k
              /\ \A z \in tall : K(z) <= K(b) \/ k <= K(z)
            BY <2>6, <2>11 DEF IsLast
        <3>3. K(x) # K(b)
            <4>1. x \in 0..size /\ b \in 0..size
                BY <2>2, <2>11, <3>2
            <4> QED BY <1>1, <2>11, <4>1, NodesAre
        <3> HIDE DEF tall, y, b
        <3>4. K(x) < k => K(x) < K(b)
            BY <1>1, <2>3, <2>11, <3>2, <3>3
        <3>5. CASE y = 0
            <4>1. \A z \in tall : K(z) <= K(x)
                BY <2>5, <2>11, <3>5 DEF Follows, tall
            <4>2. k <= K(x)
                BY <1>1, <2>3, <2>11, <3>2, <3>4, <4>1
            <4> QED BY <1>3, <2>3, <2>11, <3>1, <3>5, <4>1, <4>2 DEF Follows
        <3>6. CASE y # 0
            <4>1. /\ y \in tall /\ K(x) < K(y)
                  /\ \A z \in tall : K(z) <= K(x) \/ K(y) <= K(z)
                BY <2>5, <2>11, <3>6 DEF Follows, tall
            <4>2. k <= K(x) \/ K(y) <= k
                BY <1>1, <2>3, <2>11, <3>2, <3>4, <4>1
            <4> QED BY <1>3, <2>3, <2>11, <3>1, <3>6, <4>1, <4>2 DEF Follows
        <3> QED BY <3>5, <3>6
    <2> HIDE DEF tall, b
    <2> QED BY <2>1, <2>7, <2>8, <2>9, <2>10, <2>11
<1> QED BY <1>4 DEF LinksKept

LEMMA NodeLinked ==
    ASSUME SkipListInv, NEW k \in ListKeys, NEW v \in ListValues, NEW h \in 1..MaxLevel,
           SL!Found(k) = {},
           nodes' = SL!Linked(k, v, h), level' = SL!Raised(h), size' = size + 1
    PROVE  SkipListInv' /\ ListPairs' = GivenPairs(ListPairs, k, v)
<1>1. NodesKept /\ size \in Nat /\ k \in Nat
    BY SkipListAssumption DEF SkipListInv, NodesKept
<1>2. \A x \in 1..size : nodes[x].key # k
    BY <1>1, FoundAre
<1>3. IsLinked(k, v, h)
    BY <1>1, LinkedIs
<1>4. SkipListInv'
    BY <1>1, <1>2, <1>3, LinkedNodesKept, LinkedLinksKept DEF SkipListInv
<1>5. ASSUME NEW x \in 1..size
      PROVE  nodes'[x].key = nodes[x].key /\ nodes'[x].value = nodes[x].value
    <2>1. nodes'[x] = [key |-> nodes[x].key, value |-> nodes[x].value,
                       forward |-> nodes'[x].forward]
        BY <1>1, <1>3 DEF IsLinked
    <2> QED BY <2>1
<1>6. nodes'[size + 1].key = k /\ nodes'[size + 1].value = v
    BY <1>3 DEF IsLinked
<1>7. \A x : x \in 1..size' <=> x \in 1..size \/ x = size + 1
    BY <1>1
<1>8. ASSUME NEW p \in ListPairs'
      PROVE  p \in GivenPairs(ListPairs, k, v)
    <2>1. PICK x \in 1..size' : p = <<nodes'[x].key, nodes'[x].value>>
        BY DEF ListPairs
    <2>2. CASE x = size + 1
        BY <1>6, <2>1, <2>2 DEF GivenPairs
    <2>3. CASE x \in 1..size
        <3>1. p = <<nodes[x].key, nodes[x].value>> /\ nodes[x].key # k
            BY <1>2, <1>5, <2>1, <2>3
        <3> QED BY <2>3, <3>1 DEF GivenPairs, ListPairs
    <2> QED BY <1>7, <2>2, <2>3
<1>9. ASSUME NEW p \in GivenPairs(ListPairs, k, v)
      PROVE  p \in ListPairs'
    <2>1. CASE p = <<k, v>>
        <3>1. size + 1 \in 1..size'
            BY <1>7
        <3> QED BY <1>6, <2>1, <3>1 DEF ListPairs
    <2>2. CASE p \in ListPairs
        <3>1. PICK x \in 1..size : p = <<nodes[x].key, nodes[x].value>>
            BY <2>2 DEF ListPairs
        <3>2. p = <<nodes'[x].key, nodes'[x].value>> /\ x \in 1..size'
            BY <1>5, <1>7, <3>1
        <3> QED BY <3>2 DEF ListPairs
    <2> QED BY <2>1, <2>2 DEF GivenPairs
<1> QED BY <1>4, <1>8, <1>9

-----------------------------------------------------------------------------
(* Skip list: its steps *)

LEMMA SkipListPut ==
    ASSUME SkipListInv, NEW k \in ListKeys, NEW v \in ListValues, SL!Put(k, v)
    PROVE  SkipListInv' /\ ListPairs' = GivenPairs(ListPairs, k, v)
<1>1. CASE /\ \E x \in SL!Found(k) : nodes' = [nodes EXCEPT ![x].value = v]
           /\ UNCHANGED <<level, size>>
    <2>1. PICK x \in SL!Found(k) : nodes' = [nodes EXCEPT ![x].value = v]
        BY <1>1
    <2>2. x \in 1..size /\ nodes[x].key = k
        BY FoundAre, SkipListAssumption
    <2> QED BY <1>1, <2>1, <2>2, ListChanged
<1>2. CASE /\ SL!Found(k) = {}
           /\ \E h \in 1..MaxLevel : nodes' = SL!Linked(k, v, h) /\ level' = SL!Raised(h)
           /\ size' = size + 1
    BY <1>2, NodeLinked
<1> QED BY <1>1, <1>2 DEF SL!Put

LEMMA SkipListDelete ==
    ASSUME SkipListInv, NEW k \in ListKeys, SL!Delete(k)
    PROVE  /\ SkipListInv'
           /\ ListPairs' = IF SL!Live(k) THEN GivenPairs(ListPairs, k, Tombstone) ELSE ListPairs
<1>1. CASE SL!Live(k)
    <2>1. PICK x \in SL!Found(k) : nodes' = [nodes EXCEPT ![x].value = Tombstone]
        BY <1>1 DEF SL!Delete
    <2>2. x \in 1..size /\ nodes[x].key = k
        BY FoundAre, SkipListAssumption
    <2>3. UNCHANGED <<level, size>>
        BY DEF SL!Delete
    <2> QED BY <1>1, <2>1, <2>2, <2>3, ListChanged
<1>2. CASE ~SL!Live(k)
    BY <1>2, SkipListUnchanged DEF SL!Delete
<1> QED BY <1>1, <1>2

LEMMA SkipListStep ==
    ASSUME SkipListInv, [SL!Next]_(SL!vars)
    PROVE  SkipListInv'
<1>1. ASSUME NEW k \in ListKeys, NEW v \in ListValues, SL!Put(k, v)
      PROVE  SkipListInv'
    BY <1>1, SkipListPut
<1>2. ASSUME NEW k \in ListKeys, SL!Get(k)
      PROVE  SkipListInv'
    BY <1>2, SkipListUnchanged DEF SL!Get
<1>3. ASSUME NEW k \in ListKeys, SL!Delete(k)
      PROVE  SkipListInv'
    BY <1>3, SkipListDelete
<1>4. CASE UNCHANGED SL!vars
    BY <1>4, SkipListUnchanged DEF SL!vars
<1> QED BY <1>1, <1>2, <1>3, <1>4 DEF SL!Next

-----------------------------------------------------------------------------
(* The skip list is the map of MemtableBackend *)

SkipListShown ==
    /\ Pairs(SL!Entries) = ListPairs
    /\ ListedOnce(SL!Entries)

LEMMA SkipListListed ==
    SkipListInv => SkipListShown
<1> SUFFICES ASSUME SkipListInv
             PROVE  SkipListShown
    OBVIOUS
<1>1. SL!Entries = {nodes[x] : x \in 1..size}
    BY SkipListEntries
<1>2. \A x \in 1..size : nodes[x].key \in Keys
    BY DEF SkipListInv, NodesKept, ListNode, Keys
<1>3. \A x, y \in 1..size : nodes[x].key = nodes[y].key => x = y
    BY DEF SkipListInv, NodesKept
<1>4. ListedOnce(SL!Entries)
    BY <1>1, <1>2, <1>3 DEF ListedOnce
<1> QED BY <1>4, SkipListPairs DEF SkipListShown

\* What an operation finds is what the map holds
LEMMA SkipListFound ==
    ASSUME SkipListInv, MapOf(content, ListPairs), NEW k \in ListKeys
    PROVE  /\ Backend!Live(k) <=> SL!Live(k)
           /\ ~SL!Live(k) => content[k] \in {Absent, Tombstone}
           /\ \A x \in SL!Found(k) : SL!ValueOf(x) = content[k]
<1>1. SL!Found(k) = {x \in 1..size : nodes[x].key = k} /\ k \in Keys
    BY FoundAre, SkipListAssumption DEF Keys
<1>2. ASSUME NEW x \in SL!Found(k)
      PROVE  SL!ValueOf(x) = content[k] /\ content[k] # Absent
    <2>1. x \in 1..size /\ nodes[x].key = k
        BY <1>1
    <2>2. <<nodes[x].key, nodes[x].value>> \in ListPairs
        BY <2>1 DEF ListPairs
    <2>3. content[k] = nodes[x].value
        BY <2>1, <2>2 DEF MapOf
    <2>4. nodes[x].value # Absent
        BY <2>1, SentinelAssumption DEF SkipListInv, NodesKept, ListNode
    <2> QED BY <2>3, <2>4 DEF SL!ValueOf
<1>3. ASSUME SL!Found(k) = {}
      PROVE  content[k] = Absent
    <2>1. \A p \in ListPairs : p[1] # k
        BY <1>1, <1>3 DEF ListPairs
    <2> QED BY <1>1, <2>1 DEF MapOf
<1>4. CASE SL!Found(k) = {}
    BY <1>3, <1>4 DEF SL!Live, Backend!Live
<1>5. CASE SL!Found(k) # {}
    <2>1. SL!Live(k) <=> content[k] # Tombstone
        BY <1>2, <1>5 DEF SL!Live
    <2> QED BY <1>2, <1>5, <2>1 DEF Backend!Live
<1> QED BY <1>4, <1>5

LEMMA SkipListSimulated ==
    ASSUME SkipListInv, content = Content(SL!Entries), SL!Next, content' = Content(SL!Entries')
    PROVE  Backend!Next
<1>1. SkipListShown /\ SkipListShown'
    <2>1. SkipListInv'
        BY SkipListStep
    <2> QED BY <2>1, SkipListListed, PTL
<1>2. MapOf(content, ListPairs) /\ MapOf(content', ListPairs')
    <2>1. MapOf(content, Pairs(SL!Entries)) /\ MapOf(content', Pairs(SL!Entries'))
        BY <1>1, ContentIs DEF SkipListShown
    <2>2. Pairs(SL!Entries) = ListPairs /\ Pairs(SL!Entries') = ListPairs'
        BY <1>1 DEF SkipListShown
    <2> QED BY <2>1, <2>2
<1>3. ASSUME NEW k \in ListKeys, NEW v, ListPairs' = GivenPairs(ListPairs, k, v)
      PROVE  content' = [content EXCEPT ![k] = v]
    <2>1. PICK c, d, pairs : c = content /\ d = content' /\ pairs = ListPairs
        OBVIOUS
    <2>2. MapOf(c, pairs) /\ MapOf(d, GivenPairs(pairs, k, v)) /\ k \in Keys
        BY <1>2, <1>3, <2>1 DEF Keys
    <2>3. d = [c EXCEPT ![k] = v]
        BY <2>2, GivenIs
    <2> QED BY <2>1, <2>3
<1>4. ASSUME ListPairs' = ListPairs
      PROVE  content' = content
    <2>1. PICK c, d, pairs : c = content /\ d = content' /\ pairs = ListPairs
        OBVIOUS
    <2>2. MapOf(c, pairs) /\ MapOf(d, pairs)
        BY <1>2, <1>4, <2>1
    <2>3. d = c
        BY <2>2, SameIs
    <2> QED BY <2>1, <2>3
<1>5. ASSUME NEW k \in ListKeys, NEW v \in ListValues, SL!Put(k, v)
      PROVE  Backend!Put(k, v)
    <2>1. ListPairs' = GivenPairs(ListPairs, k, v)
        BY <1>5, SkipListPut
    <2>2. content' = [content EXCEPT ![k] = v]
        BY <1>3, <2>1
    <2>3. answer' = <<k>>
        BY <1>5 DEF SL!Put
    <2> QED BY <2>2, <2>3 DEF Backend!Put
<1>6. ASSUME NEW k \in ListKeys, SL!Get(k)
      PROVE  Backend!Get(k)
    <2>1. ListPairs' = ListPairs
        BY <1>6, SkipListUnchanged DEF SL!Get
    <2>2. content' = content
        BY <1>4, <2>1
    <2>3. answer' = <<k, IF Backend!Live(k) THEN content[k] ELSE Absent>>
        BY <1>2, <1>6, SkipListFound DEF SL!Get
    <2> QED BY <2>2, <2>3 DEF Backend!Get
<1>7. ASSUME NEW k \in ListKeys, SL!Delete(k)
      PROVE  Backend!Delete(k)
    <2>1. Backend!Live(k) <=> SL!Live(k)
        BY <1>2, SkipListFound
    <2>2. answer' = <<k, SL!Live(k)>>
        BY <1>7 DEF SL!Delete
    <2>3. SL!Live(k) \in BOOLEAN /\ Backend!Live(k) \in BOOLEAN
        BY DEF SL!Live, Backend!Live
    <2>4. answer' = <<k, Backend!Live(k)>>
        BY <2>1, <2>2, <2>3
    <2>5. content' = IF Backend!Live(k) THEN [content EXCEPT ![k] = Tombstone] ELSE content
        <3>1. CASE SL!Live(k)
            <4>1. ListPairs' = GivenPairs(ListPairs, k, Tombstone)
                BY <1>7, <3>1, SkipListDelete
            <4> QED BY <1>3, <2>1, <3>1, <4>1
        <3>2. CASE ~SL!Live(k)
            <4>1. ListPairs' = ListPairs
                BY <1>7, <3>2, SkipListDelete
            <4> QED BY <1>4, <2>1, <3>2, <4>1
        <3> QED BY <3>1, <3>2
    <2> QED BY <2>4, <2>5 DEF Backend!Delete
<1>8. ListKeys \subseteq Keys /\ ListValues \subseteq Values
    BY DEF Keys, Values
<1> QED BY <1>5, <1>6, <1>7, <1>8 DEF SL!Next, Backend!Next

-----------------------------------------------------------------------------
(* B-tree: its recursive definitions, each of which goes down by levels *)

TreeEntries == [key : TreeKeys, value : TreeValues \cup {Tombstone}]

\* What each makes of a level, from what it makes of the level below

TreesOf(n, g) ==
    IF n = 0 THEN {} ELSE [entries : Seq(TreeEntries), children : Seq(g)]

SearchOf(trees, k, g) ==
    [node \in trees |->
        LET i == BT!KeyIndex(node, k)
        IN  IF BT!HoldsAt(node, i, k) THEN {node.entries[i].value}
            ELSE IF BT!IsLeaf(node) THEN {}
            ELSE g[node.children[i]]]

UpdatedOf(trees, k, v, g) ==
    [node \in trees |->
        LET i == BT!KeyIndex(node, k)
        IN  IF BT!HoldsAt(node, i, k) THEN [node EXCEPT !.entries[i].value = v]
            ELSE [node EXCEPT !.children[i] = g[@]]]

InsertedOf(trees, k, v, g) ==
    [node \in trees |->
        LET i == BT!KeyIndex(node, k)
            split == IF BT!IsFull(node.children[i]) THEN BT!Split(node, i) ELSE node
            down == IF BT!IsFull(node.children[i]) THEN BT!Half(split, i, k) ELSE i
        IN  IF BT!IsLeaf(node) THEN BT!Leaf(BT!InsertAt(node.entries, i, BT!Entry(k, v)))
            ELSE [split EXCEPT !.children[down] = g[@]]]

CollectedOf(trees, g) ==
    [node \in trees |->
        LET below(i) == IF BT!IsLeaf(node) THEN <<>> ELSE g[node.children[i]]
            gathered[n \in 0..Len(node.entries)] ==
                IF n = 0 THEN <<>>
                ELSE gathered[n - 1] \o Append(below(n), node.entries[n])
        IN  gathered[Len(node.entries)] \o below(Len(node.entries) + 1)]

LevelOf(n, k, v, g) ==
    LET trees == TreesOf(n, g.trees)
    IN  [trees |-> trees,
         search |-> SearchOf(trees, k, g.search),
         updated |-> UpdatedOf(trees, k, v, g.updated),
         inserted |-> InsertedOf(trees, k, v, g.inserted),
         collected |-> CollectedOf(trees, g.collected)]

LEMMA LevelIs ==
    ASSUME NEW n, NEW k, NEW v, NEW g
    PROVE  LET made == LevelOf(n, k, v, g)
               trees == TreesOf(n, g.trees)
           IN  /\ made.trees = trees
               /\ made.search = SearchOf(trees, k, g.search)
               /\ made.updated = UpdatedOf(trees, k, v, g.updated)
               /\ made.inserted = InsertedOf(trees, k, v, g.inserted)
               /\ made.collected = CollectedOf(trees, g.collected)
BY DEF LevelOf

LEMMA LevelsExist ==
    ASSUME NEW k, NEW v
    PROVE  \E f : f = [n \in Nat |-> LevelOf(n, k, v, f[n - 1])]
<1> DEFINE G(n, g) == LevelOf(n, k, v, g)
           Upto(f, n) == f = [m \in 0..n |-> G(m, f[m - 1])]
<1>1. \A g, h : G(0, g) = G(0, h)
    BY DEF LevelOf, TreesOf, SearchOf, UpdatedOf, InsertedOf, CollectedOf
<1> HIDE DEF G
<1> DEFINE done == {n \in Nat : \E f : Upto(f, n)}
<1>2. done = Nat
    <2>1. 0 \in done
        <3> DEFINE f == [m \in 0..0 |-> G(0, 0)]
        <3>1. f = [m \in 0..0 |-> G(m, f[m - 1])]
            <4>1. \A m \in 0..0 : m = 0
                OBVIOUS
            <4>2. \A m \in 0..0 : G(0, 0) = G(m, f[m - 1])
                BY <1>1, <4>1
            <4> QED BY <4>2
        <3> QED BY <3>1
    <2>2. ASSUME NEW n \in done
          PROVE  n + 1 \in done
        <3>1. PICK f : Upto(f, n)
            OBVIOUS
        <3> DEFINE g == [m \in 0..n + 1 |-> IF m \in 0..n THEN f[m] ELSE G(m, f[n])]
        <3>2. ASSUME NEW m \in 0..n + 1
              PROVE  g[m] = G(m, g[m - 1])
            <4>1. CASE m = 0
                <5>1. g[0] = f[0] /\ f[0] = G(0, f[0 - 1])
                    BY <3>1
                <5> QED BY <1>1, <4>1, <5>1
            <4>2. CASE m \in 1..n
                <5>1. m \in 0..n /\ m - 1 \in 0..n /\ m - 1 \in 0..n + 1
                    BY <4>2
                <5>2. f[m] = G(m, f[m - 1])
                    BY <3>1, <5>1
                <5> QED BY <5>1, <5>2
            <4>3. CASE m = n + 1
                <5>1. m \notin 0..n /\ m - 1 = n /\ n \in 0..n /\ n \in 0..n + 1
                    BY <4>3
                <5> QED BY <5>1
            <4> QED BY <4>1, <4>2, <4>3
        <3>3. Upto(g, n + 1)
            BY <3>2
        <3> HIDE DEF g
        <3> QED BY <3>3
    <2>3. done \in SUBSET Nat
        OBVIOUS
    <2> HIDE DEF done
    <2> QED BY <2>1, <2>2, <2>3, Induction
<1>3. ASSUME NEW n \in Nat, NEW m \in Nat, NEW f, NEW g, Upto(f, n), Upto(g, m)
      PROVE  \A i \in Nat : i <= n /\ i <= m => f[i] = g[i]
    <2> DEFINE same == {i \in Nat : i <= n /\ i <= m => f[i] = g[i]}
    <2>1. \A i \in 0..n : f[i] = G(i, f[i - 1])
        BY <1>3
    <2>2. \A i \in 0..m : g[i] = G(i, g[i - 1])
        BY <1>3
    <2>3. 0 \in same
        BY <1>1, <2>1, <2>2
    <2>4. ASSUME NEW i \in same
          PROVE  i + 1 \in same
        <3>1. i + 1 - 1 = i
            OBVIOUS
        <3> QED BY <2>1, <2>2, <3>1
    <2>5. same \in SUBSET Nat
        OBVIOUS
    <2>6. same = Nat
        <3> HIDE DEF same
        <3> QED BY <2>3, <2>4, <2>5, Induction
    <2> QED BY <2>6
<1> DEFINE P(n) == CHOOSE f : Upto(f, n)
           F == [n \in Nat |-> P(n)[n]]
<1>4. \A n \in Nat : Upto(P(n), n)
    BY <1>2
<1>5. ASSUME NEW n \in Nat
      PROVE  F[n] = G(n, F[n - 1])
    <2>1. P(n)[n] = G(n, P(n)[n - 1])
        <3>1. n \in 0..n
            OBVIOUS
        <3> HIDE DEF P
        <3> QED BY <1>4, <3>1
    <2>2. CASE n = 0
        BY <1>1, <2>1, <2>2
    <2>3. CASE n # 0
        <3>1. n - 1 \in Nat /\ n - 1 <= n
            BY <2>3
        <3>2. Upto(P(n), n) /\ Upto(P(n - 1), n - 1)
            BY <1>4, <3>1
        <3>3. P(n)[n - 1] = P(n - 1)[n - 1]
            <4> HIDE DEF P, Upto
            <4> QED BY <1>3, <3>1, <3>2
        <3> HIDE DEF P
        <3> QED BY <2>1, <3>1, <3>3
    <2> QED BY <2>2, <2>3
<1>6. F = [n \in Nat |-> G(n, F[n - 1])]
    BY <1>5
<1> HIDE DEF F
<1> QED BY <1>6 DEF G

\* The functions that the operations apply to the root

Searching(k) ==
    LET search[h \in Nat] == [node \in BT!Trees[h] |->
            LET i == BT!KeyIndex(node, k)
            IN  IF BT!HoldsAt(node, i, k) THEN {node.entries[i].value}
                ELSE IF BT!IsLeaf(node) THEN {}
                ELSE search[h - 1][node.children[i]]]
    IN  search

Updating(k, v) ==
    LET updated[h \in Nat] == [node \in BT!Trees[h] |->
            LET i == BT!KeyIndex(node, k)
            IN  IF BT!HoldsAt(node, i, k) THEN [node EXCEPT !.entries[i].value = v]
                ELSE [node EXCEPT !.children[i] = updated[h - 1][@]]]
    IN  updated

Inserting(k, v) ==
    LET inserted[h \in Nat] == [node \in BT!Trees[h] |->
            LET i == BT!KeyIndex(node, k)
                split == IF BT!IsFull(node.children[i]) THEN BT!Split(node, i) ELSE node
                down == IF BT!IsFull(node.children[i]) THEN BT!Half(split, i, k) ELSE i
            IN  IF BT!IsLeaf(node) THEN BT!Leaf(BT!InsertAt(node.entries, i, BT!Entry(k, v)))
                ELSE [split EXCEPT !.children[down] = inserted[h - 1][@]]]
    IN  inserted

Collecting ==
    LET collected[h \in Nat] == [node \in BT!Trees[h] |->
            LET below(i) == IF BT!IsLeaf(node) THEN <<>> ELSE collected[h - 1][node.children[i]]
                gathered[n \in 0..Len(node.entries)] ==
                    IF n = 0 THEN <<>>
                    ELSE gathered[n - 1] \o Append(below(n), node.entries[n])
            IN  gathered[Len(node.entries)] \o below(Len(node.entries) + 1)]
    IN  collected

LEMMA OperationsAre ==
    /\ \A k : BT!Search(k) = Searching(k)[size + 1][head]
    /\ \A k, v : BT!Updated(k, v) = Updating(k, v)[size + 1][head]
    /\ \A k, v : BT!Inserted(k, v) =
           Inserting(k, v)[size + 1][IF BT!IsFull(head) THEN BT!Split(BT!Grown, 1) ELSE head]
    /\ BT!Entries = Collecting[size + 1][head]
<1>1. \A k : BT!Search(k) = Searching(k)[size + 1][head]
    BY DEF BT!Search, Searching, BT!Levels
<1>2. \A k, v : BT!Updated(k, v) = Updating(k, v)[size + 1][head]
    BY DEF BT!Updated, Updating, BT!Levels
<1>3. \A k, v : BT!Inserted(k, v) =
          Inserting(k, v)[size + 1][IF BT!IsFull(head) THEN BT!Split(BT!Grown, 1) ELSE head]
    BY DEF BT!Inserted, Inserting, BT!Levels
<1>4. BT!Entries = Collecting[size + 1][head]
    BY DEF BT!Entries, Collecting, BT!Levels
<1> QED BY <1>1, <1>2, <1>3, <1>4

LEMMA TreesAre ==
    BT!Trees = [n \in Nat |-> TreesOf(n, BT!Trees[n - 1])]
<1>1. PICK f : f = [n \in Nat |-> LevelOf(n, 0, 0, f[n - 1])]
    BY LevelsExist
<1> DEFINE g == [n \in Nat |-> f[n].trees]
<1>2. \A n \in Nat : f[n] = LevelOf(n, 0, 0, f[n - 1])
    BY <1>1
<1>3. \A n \in Nat : f[n].trees = TreesOf(n, f[n - 1].trees)
    BY <1>2, LevelIs
<1>4. ASSUME NEW n \in Nat
      PROVE  g[n] = TreesOf(n, g[n - 1])
    <2>1. CASE n = 0
        BY <1>3, <2>1 DEF TreesOf
    <2>2. CASE n # 0
        <3>1. n - 1 \in Nat
            BY <2>2
        <3> QED BY <1>3, <3>1
    <2> QED BY <2>1, <2>2
<1> HIDE DEF g
<1> DEFINE h == [n \in Nat |-> g[n]]
<1>5. h = [n \in Nat |->
             IF n = 0 THEN {}
             ELSE [entries : Seq([key : TreeKeys, value : TreeValues \cup {Tombstone}]),
                   children : Seq(h[n - 1])]]
    <2>1. \A n \in Nat : n = 0 \/ n - 1 \in Nat
        OBVIOUS
    <2>2. \A n \in Nat : h[n] = g[n]
        OBVIOUS
    <2> HIDE DEF h
    <2>3. \A n \in Nat : g[n] = IF n = 0 THEN {}
                                ELSE [entries : Seq(TreeEntries), children : Seq(g[n - 1])]
        BY <1>4 DEF TreesOf
    <2>4. \A n \in Nat : h[n] = IF n = 0 THEN {}
                                ELSE [entries : Seq(TreeEntries), children : Seq(h[n - 1])]
        BY <2>1, <2>2, <2>3
    <2> QED BY <2>4 DEF h, TreeEntries
<1> HIDE DEF h
<1>6. BT!Trees = [n \in Nat |->
             IF n = 0 THEN {}
             ELSE [entries : Seq([key : TreeKeys, value : TreeValues \cup {Tombstone}]),
                   children : Seq(BT!Trees[n - 1])]]
    BY <1>5 DEF BT!Trees
<1> QED BY <1>6 DEF TreesOf, TreeEntries

LEMMA TreesEmpty ==
    /\ BT!Trees[0] = {}
    /\ \A n \in Nat : BT!Trees[n + 1] = [entries : Seq(TreeEntries), children : Seq(BT!Trees[n])]
<1>1. \A n \in Nat : BT!Trees[n] = TreesOf(n, BT!Trees[n - 1])
    BY TreesAre
<1>2. BT!Trees[0] = {}
    <2>1. BT!Trees[0] = TreesOf(0, BT!Trees[0 - 1])
        BY <1>1
    <2> QED BY <2>1 DEF TreesOf
<1>3. ASSUME NEW n \in Nat
      PROVE  BT!Trees[n + 1] = [entries : Seq(TreeEntries), children : Seq(BT!Trees[n])]
    <2>1. n + 1 \in Nat /\ n + 1 # 0 /\ n + 1 - 1 = n
        OBVIOUS
    <2>2. BT!Trees[n + 1] = TreesOf(n + 1, BT!Trees[n + 1 - 1])
        BY <1>1, <2>1
    <2> QED BY <2>1, <2>2 DEF TreesOf
<1> QED BY <1>2, <1>3

Searches(f, k) == f = [n \in Nat |-> SearchOf(BT!Trees[n], k, f[n - 1])]
Updates(f, k, v) == f = [n \in Nat |-> UpdatedOf(BT!Trees[n], k, v, f[n - 1])]
Inserts(f, k, v) == f = [n \in Nat |-> InsertedOf(BT!Trees[n], k, v, f[n - 1])]
Collects(f) == f = [n \in Nat |-> CollectedOf(BT!Trees[n], f[n - 1])]

LEMMA LevelsAre ==
    ASSUME NEW k, NEW v
    PROVE  /\ \E f : Searches(f, k)
           /\ \E f : Updates(f, k, v)
           /\ \E f : Inserts(f, k, v)
           /\ \E f : Collects(f)
<1>1. PICK f : f = [n \in Nat |-> LevelOf(n, k, v, f[n - 1])]
    BY LevelsExist
<1>2. \A n \in Nat : f[n] = LevelOf(n, k, v, f[n - 1])
    BY <1>1
<1> HIDE <1>1
<1> DEFINE same == {n \in Nat : f[n].trees = BT!Trees[n]}
<1>3. same = Nat
    <2>1. 0 \in same
        <3>1. f[0].trees = TreesOf(0, f[0 - 1].trees)
            BY <1>2, LevelIs
        <3> QED BY <3>1, TreesEmpty DEF TreesOf
    <2>2. ASSUME NEW n \in same
          PROVE  n + 1 \in same
        <3>1. n + 1 \in Nat /\ n + 1 - 1 = n
            OBVIOUS
        <3>2. f[n + 1].trees = TreesOf(n + 1, f[n].trees)
            BY <1>2, <3>1, LevelIs
        <3>3. BT!Trees[n + 1] = TreesOf(n + 1, BT!Trees[n])
            BY <3>1, TreesAre
        <3> QED BY <3>1, <3>2, <3>3
    <2>3. same \in SUBSET Nat
        OBVIOUS
    <2> HIDE DEF same
    <2> QED BY <2>1, <2>2, <2>3, Induction
<1>4. \A n \in Nat : f[n].trees = BT!Trees[n] /\ f[n].trees = TreesOf(n, f[n - 1].trees)
    BY <1>2, <1>3, LevelIs
<1> DEFINE search == [n \in Nat |-> f[n].search]
           updated == [n \in Nat |-> f[n].updated]
           inserted == [n \in Nat |-> f[n].inserted]
           collected == [n \in Nat |-> f[n].collected]
<1>5. \A n \in Nat : n = 0 \/ n - 1 \in Nat
    OBVIOUS
<1>6. \A g, h : /\ SearchOf({}, k, g) = SearchOf({}, k, h)
                /\ UpdatedOf({}, k, v, g) = UpdatedOf({}, k, v, h)
                /\ InsertedOf({}, k, v, g) = InsertedOf({}, k, v, h)
                /\ CollectedOf({}, g) = CollectedOf({}, h)
    BY DEF SearchOf, UpdatedOf, InsertedOf, CollectedOf
<1>7. Searches(search, k)
    <2>1. ASSUME NEW n \in Nat
          PROVE  search[n] = SearchOf(BT!Trees[n], k, search[n - 1])
        <3>1. f[n].search = SearchOf(BT!Trees[n], k, f[n - 1].search)
            BY <1>2, <1>4, LevelIs
        <3> QED BY <1>5, <1>6, <3>1, TreesEmpty
    <2> QED BY <2>1 DEF Searches
<1>8. Updates(updated, k, v)
    <2>1. ASSUME NEW n \in Nat
          PROVE  updated[n] = UpdatedOf(BT!Trees[n], k, v, updated[n - 1])
        <3>1. f[n].updated = UpdatedOf(BT!Trees[n], k, v, f[n - 1].updated)
            BY <1>2, <1>4, LevelIs
        <3> QED BY <1>5, <1>6, <3>1, TreesEmpty
    <2> QED BY <2>1 DEF Updates
<1>9. Inserts(inserted, k, v)
    <2>1. ASSUME NEW n \in Nat
          PROVE  inserted[n] = InsertedOf(BT!Trees[n], k, v, inserted[n - 1])
        <3>1. f[n].inserted = InsertedOf(BT!Trees[n], k, v, f[n - 1].inserted)
            BY <1>2, <1>4, LevelIs
        <3> QED BY <1>5, <1>6, <3>1, TreesEmpty
    <2> QED BY <2>1 DEF Inserts
<1>10. Collects(collected)
    <2>1. ASSUME NEW n \in Nat
          PROVE  collected[n] = CollectedOf(BT!Trees[n], collected[n - 1])
        <3>1. f[n].collected = CollectedOf(BT!Trees[n], f[n - 1].collected)
            BY <1>2, <1>4, LevelIs
        <3> QED BY <1>5, <1>6, <3>1, TreesEmpty
    <2> QED BY <2>1 DEF Collects
<1> HIDE DEF search, updated, inserted, collected
<1> QED BY <1>7, <1>8, <1>9, <1>10

LEMMA OperationsByLevel ==
    ASSUME NEW k, NEW v
    PROVE  \A n \in Nat :
              /\ Searching(k)[n] = SearchOf(BT!Trees[n], k, Searching(k)[n - 1])
              /\ Updating(k, v)[n] = UpdatedOf(BT!Trees[n], k, v, Updating(k, v)[n - 1])
              /\ Inserting(k, v)[n] = InsertedOf(BT!Trees[n], k, v, Inserting(k, v)[n - 1])
              /\ Collecting[n] = CollectedOf(BT!Trees[n], Collecting[n - 1])
<1>5. \E f : Searches(f, k)
    BY LevelsAre
<1>6. \E f : Updates(f, k, v)
    BY LevelsAre
<1>7. \E f : Inserts(f, k, v)
    BY LevelsAre
<1>8. \E f : Collects(f)
    BY LevelsAre
<1>1. \A n \in Nat : Searching(k)[n] = SearchOf(BT!Trees[n], k, Searching(k)[n - 1])
    <2>1. PICK f : Searches(f, k)
        BY <1>5
    <2>2. f = [h \in Nat |-> [node \in BT!Trees[h] |->
              LET i == BT!KeyIndex(node, k)
              IN  IF BT!HoldsAt(node, i, k) THEN {node.entries[i].value}
                  ELSE IF BT!IsLeaf(node) THEN {}
                  ELSE f[h - 1][node.children[i]]]]
        BY <2>1 DEF Searches, SearchOf
    <2>3. Searching(k) = [h \in Nat |-> [node \in BT!Trees[h] |->
              LET i == BT!KeyIndex(node, k)
              IN  IF BT!HoldsAt(node, i, k) THEN {node.entries[i].value}
                  ELSE IF BT!IsLeaf(node) THEN {}
                  ELSE Searching(k)[h - 1][node.children[i]]]]
        BY <2>2 DEF Searching
    <2>4. Searching(k) = [n \in Nat |-> SearchOf(BT!Trees[n], k, Searching(k)[n - 1])]
        BY <2>3 DEF SearchOf
    <2> QED BY <2>4
<1>2. \A n \in Nat : Updating(k, v)[n] = UpdatedOf(BT!Trees[n], k, v, Updating(k, v)[n - 1])
    <2>1. PICK f : Updates(f, k, v)
        BY <1>6
    <2>2. f = [h \in Nat |-> [node \in BT!Trees[h] |->
              LET i == BT!KeyIndex(node, k)
              IN  IF BT!HoldsAt(node, i, k) THEN [node EXCEPT !.entries[i].value = v]
                  ELSE [node EXCEPT !.children[i] = f[h - 1][@]]]]
        BY <2>1 DEF Updates, UpdatedOf
    <2>3. Updating(k, v) = [h \in Nat |-> [node \in BT!Trees[h] |->
              LET i == BT!KeyIndex(node, k)
              IN  IF BT!HoldsAt(node, i, k) THEN [node EXCEPT !.entries[i].value = v]
                  ELSE [node EXCEPT !.children[i] = Updating(k, v)[h - 1][@]]]]
        BY <2>2 DEF Updating
    <2>4. Updating(k, v) = [n \in Nat |-> UpdatedOf(BT!Trees[n], k, v, Updating(k, v)[n - 1])]
        BY <2>3 DEF UpdatedOf
    <2> QED BY <2>4
<1>3. \A n \in Nat : Inserting(k, v)[n] = InsertedOf(BT!Trees[n], k, v, Inserting(k, v)[n - 1])
    <2>1. PICK f : Inserts(f, k, v)
        BY <1>7
    <2>2. f = [h \in Nat |-> [node \in BT!Trees[h] |->
              LET i == BT!KeyIndex(node, k)
                  split == IF BT!IsFull(node.children[i]) THEN BT!Split(node, i) ELSE node
                  down == IF BT!IsFull(node.children[i]) THEN BT!Half(split, i, k) ELSE i
              IN  IF BT!IsLeaf(node)
                  THEN BT!Leaf(BT!InsertAt(node.entries, i, BT!Entry(k, v)))
                  ELSE [split EXCEPT !.children[down] = f[h - 1][@]]]]
        BY <2>1 DEF Inserts, InsertedOf
    <2>3. Inserting(k, v) = [h \in Nat |-> [node \in BT!Trees[h] |->
              LET i == BT!KeyIndex(node, k)
                  split == IF BT!IsFull(node.children[i]) THEN BT!Split(node, i) ELSE node
                  down == IF BT!IsFull(node.children[i]) THEN BT!Half(split, i, k) ELSE i
              IN  IF BT!IsLeaf(node)
                  THEN BT!Leaf(BT!InsertAt(node.entries, i, BT!Entry(k, v)))
                  ELSE [split EXCEPT !.children[down] = Inserting(k, v)[h - 1][@]]]]
        BY <2>2 DEF Inserting
    <2>4. Inserting(k, v) = [n \in Nat |-> InsertedOf(BT!Trees[n], k, v, Inserting(k, v)[n - 1])]
        BY <2>3 DEF InsertedOf
    <2> QED BY <2>4
<1>4. \A n \in Nat : Collecting[n] = CollectedOf(BT!Trees[n], Collecting[n - 1])
    <2>1. PICK f : Collects(f)
        BY <1>8
    <2>2. f = [h \in Nat |-> [node \in BT!Trees[h] |->
              LET below(i) == IF BT!IsLeaf(node) THEN <<>> ELSE f[h - 1][node.children[i]]
                  gathered[m \in 0..Len(node.entries)] ==
                      IF m = 0 THEN <<>>
                      ELSE gathered[m - 1] \o Append(below(m), node.entries[m])
              IN  gathered[Len(node.entries)] \o below(Len(node.entries) + 1)]]
        BY <2>1 DEF Collects, CollectedOf
    <2>3. Collecting = [h \in Nat |-> [node \in BT!Trees[h] |->
              LET below(i) == IF BT!IsLeaf(node) THEN <<>>
                              ELSE Collecting[h - 1][node.children[i]]
                  gathered[m \in 0..Len(node.entries)] ==
                      IF m = 0 THEN <<>>
                      ELSE gathered[m - 1] \o Append(below(m), node.entries[m])
              IN  gathered[Len(node.entries)] \o below(Len(node.entries) + 1)]]
        BY <2>2 DEF Collecting
    <2>4. Collecting = [n \in Nat |-> CollectedOf(BT!Trees[n], Collecting[n - 1])]
        BY <2>3 DEF CollectedOf
    <2> QED BY <2>4
<1> QED BY <1>1, <1>2, <1>3, <1>4

-----------------------------------------------------------------------------
(* B-tree: search trees: B-trees whose keys are in order *)

BTreesOf(n, g) ==
    {node \in BT!Trees[n] :
        /\ Len(node.entries) <= BT!MaxKeys
        /\ n > 1 => /\ Len(node.children) = Len(node.entries) + 1
                    /\ node.children \in Seq(g)
                    /\ Order > 3 => \A i \in DOMAIN node.children :
                                       Len(node.children[i].entries) >= 1}

LEMMA BTreesAre ==
    /\ BT!BTrees[0] = {}
    /\ \A n \in Nat : BT!BTrees[n + 1] = BTreesOf(n + 1, BT!BTrees[n])
<1> DEFINE S == SUBSET UNION {BT!Trees[n] : n \in Nat}
           step == [n \in Nat |-> [s \in S |-> BTreesOf(n + 1, s)]]
<1>1. Numbered(S, step)
    <2>1. ASSUME NEW n \in Nat, NEW s \in S
          PROVE  BTreesOf(n + 1, s) \in S
        <3>1. n + 1 \in Nat
            OBVIOUS
        <3> QED BY <3>1 DEF BTreesOf
    <2> QED BY <2>1 DEF Numbered
<1>2. {} \in S
    OBVIOUS
<1>3. PICK f \in [Nat -> S] : Recursion(f, {}, step)
    <2> HIDE DEF S, step
    <2> QED BY <1>1, <1>2, RecursionExists
<1>4. f[0] = {} /\ \A n \in Nat : f[n + 1] = BTreesOf(n + 1, f[n])
    BY <1>3 DEF Recursion
<1>5. \A n \in Nat : f[n] = IF n = 0 THEN {} ELSE BTreesOf(n, f[n - 1])
    <2> SUFFICES ASSUME NEW n \in Nat
                 PROVE  f[n] = IF n = 0 THEN {} ELSE BTreesOf(n, f[n - 1])
        OBVIOUS
    <2>1. n = 0 \/ (n - 1 \in Nat /\ n - 1 + 1 = n)
        OBVIOUS
    <2> QED BY <1>4, <2>1
<1>6. f = [h \in Nat |->
             IF h = 0 THEN {}
             ELSE {node \in BT!Trees[h] :
                      /\ Len(node.entries) <= BT!MaxKeys
                      /\ h > 1 => /\ Len(node.children) = Len(node.entries) + 1
                                  /\ node.children \in Seq(f[h - 1])
                                  /\ Order > 3 => \A i \in DOMAIN node.children :
                                                     Len(node.children[i].entries) >= 1}]
    <2>1. f = [n \in Nat |-> f[n]]
        BY <1>3
    <2>2. f = [n \in Nat |-> IF n = 0 THEN {} ELSE BTreesOf(n, f[n - 1])]
        BY <1>5, <2>1
    <2> QED BY <2>2 DEF BTreesOf
<1>7. BT!BTrees = [h \in Nat |->
             IF h = 0 THEN {}
             ELSE {node \in BT!Trees[h] :
                      /\ Len(node.entries) <= BT!MaxKeys
                      /\ h > 1 => /\ Len(node.children) = Len(node.entries) + 1
                                  /\ node.children \in Seq(BT!BTrees[h - 1])
                                  /\ Order > 3 => \A i \in DOMAIN node.children :
                                                     Len(node.children[i].entries) >= 1}]
    BY <1>6 DEF BT!BTrees
<1>8. \A n \in Nat : BT!BTrees[n] = IF n = 0 THEN {} ELSE BTreesOf(n, BT!BTrees[n - 1])
    BY <1>7 DEF BTreesOf
<1>9. BT!BTrees[0] = {}
    BY <1>8
<1>10. ASSUME NEW n \in Nat
       PROVE  BT!BTrees[n + 1] = BTreesOf(n + 1, BT!BTrees[n])
    <2>1. n + 1 \in Nat /\ n + 1 # 0 /\ n + 1 - 1 = n
        OBVIOUS
    <2>2. BT!BTrees[n + 1] = IF n + 1 = 0 THEN {} ELSE BTreesOf(n + 1, BT!BTrees[n + 1 - 1])
        BY <1>8, <2>1
    <2> QED BY <2>1, <2>2
<1> QED BY <1>9, <1>10

\* The keys that belong between the entries before and after the i-th child
Between(entries, i, keys) ==
    {k \in keys : /\ i > 1 => entries[i - 1].key < k
                  /\ i <= Len(entries) => k < entries[i].key}

Ordered(entries, keys) ==
    /\ \A i \in DOMAIN entries : entries[i].key \in keys
    /\ \A i, j \in DOMAIN entries : i < j => entries[i].key < entries[j].key

SearchTreesOf(n, g, keys) ==
    {node \in BT!BTrees[n] :
        /\ Ordered(node.entries, keys)
        /\ \A i \in DOMAIN node.children :
              node.children[i] \in g[Between(node.entries, i, keys)]}

\* The B-trees of n levels that hold such keys only, in order
AreSearchTrees(f) ==
    /\ f[0] = [keys \in SUBSET TreeKeys |-> {}]
    /\ \A n \in Nat :
          f[n + 1] = [keys \in SUBSET TreeKeys |-> SearchTreesOf(n + 1, f[n], keys)]

SearchTrees == CHOOSE f : AreSearchTrees(f)

LEMMA SearchTreesAre ==
    ASSUME NEW keys \in SUBSET TreeKeys
    PROVE  /\ SearchTrees[0][keys] = {}
           /\ \A n \in Nat : SearchTrees[n + 1][keys] = SearchTreesOf(n + 1, SearchTrees[n], keys)
<1> DEFINE S == [SUBSET TreeKeys -> SUBSET UNION {BT!BTrees[n] : n \in Nat}]
           base == [some \in SUBSET TreeKeys |-> {}]
           step == [n \in Nat |-> [s \in S |-> [some \in SUBSET TreeKeys |->
                                                  SearchTreesOf(n + 1, s, some)]]]
<1>1. Numbered(S, step)
    <2>1. ASSUME NEW n \in Nat, NEW s \in S, NEW some \in SUBSET TreeKeys
          PROVE  SearchTreesOf(n + 1, s, some) \in SUBSET UNION {BT!BTrees[m] : m \in Nat}
        <3>1. n + 1 \in Nat
            OBVIOUS
        <3> QED BY <3>1 DEF SearchTreesOf
    <2> QED BY <2>1 DEF Numbered
<1>2. base \in S
    OBVIOUS
<1>3. PICK f \in [Nat -> S] : Recursion(f, base, step)
    <2> HIDE DEF S, step, base
    <2> QED BY <1>1, <1>2, RecursionExists
<1>4. AreSearchTrees(f)
    <2>1. f[0] = base
        BY <1>3 DEF Recursion
    <2>2. ASSUME NEW n \in Nat
          PROVE  f[n + 1] = [some \in SUBSET TreeKeys |-> SearchTreesOf(n + 1, f[n], some)]
        <3>1. f[n + 1] = step[n][f[n]]
            BY <1>3 DEF Recursion
        <3>2. f[n] \in S
            BY <1>3
        <3> HIDE DEF S
        <3> QED BY <3>1, <3>2
    <2> QED BY <2>1, <2>2 DEF AreSearchTrees
<1>5. AreSearchTrees(SearchTrees)
    BY <1>4 DEF SearchTrees
<1> QED BY <1>5 DEF AreSearchTrees

\* What a node of a search tree of n + 1 levels is made of
Entered(entries, keys) ==
    /\ entries \in Seq(TreeEntries)
    /\ Len(entries) <= BT!MaxKeys
    /\ Ordered(entries, keys)

\* A node below the root
Below(node, n, keys) ==
    /\ node \in SearchTrees[n][keys]
    /\ Order > 3 => Len(node.entries) >= 1

Parented(entries, children, n, keys) ==
    IF n = 0 THEN children = <<>>
    ELSE /\ children \in Seq({children[i] : i \in DOMAIN children})
         /\ Len(children) = Len(entries) + 1
         /\ \A i \in 1..Len(entries) + 1 : Below(children[i], n, Between(entries, i, keys))

Node(entries, children) == [entries |-> entries, children |-> children]

LEMMA SearchTreeIs ==
    ASSUME NEW keys \in SUBSET TreeKeys, NEW n \in Nat, NEW node \in SearchTrees[n + 1][keys]
    PROVE  /\ node = Node(node.entries, node.children)
           /\ Entered(node.entries, keys)
           /\ Parented(node.entries, node.children, n, keys)
           /\ node \in BT!BTrees[n + 1] /\ node \in BT!Trees[n + 1]
<1>1. /\ node \in BT!BTrees[n + 1]
      /\ Ordered(node.entries, keys)
      /\ \A i \in DOMAIN node.children :
            node.children[i] \in SearchTrees[n][Between(node.entries, i, keys)]
    BY SearchTreesAre, ZenonT(40) DEF SearchTreesOf
<1>2. /\ node \in BT!Trees[n + 1]
      /\ Len(node.entries) <= BT!MaxKeys
      /\ n + 1 > 1 => /\ Len(node.children) = Len(node.entries) + 1
                      /\ node.children \in Seq(BT!BTrees[n])
                      /\ Order > 3 => \A i \in DOMAIN node.children :
                                         Len(node.children[i].entries) >= 1
    BY <1>1, BTreesAre DEF BTreesOf
<1>3. node \in [entries : Seq(TreeEntries), children : Seq(BT!Trees[n])]
    BY <1>2, TreesEmpty
<1>4. Entered(node.entries, keys)
    BY <1>1, <1>2, <1>3 DEF Entered
<1>5. Parented(node.entries, node.children, n, keys)
    <2>1. CASE n = 0
        <3>1. node.children \in Seq({})
            BY <1>3, <2>1, TreesEmpty
        <3>2. node.children = <<>>
            BY <3>1
        <3> QED BY <2>1, <3>2 DEF Parented
    <2>2. CASE n # 0
        <3>1. /\ Len(node.children) = Len(node.entries) + 1
              /\ node.children \in Seq(BT!BTrees[n])
              /\ Order > 3 => \A i \in DOMAIN node.children :
                                 Len(node.children[i].entries) >= 1
            BY <1>2, <2>2
        <3>2. DOMAIN node.children = 1..Len(node.entries) + 1
            BY <3>1
        <3>3. node.children \in Seq({node.children[i] : i \in DOMAIN node.children})
            BY <3>1, <3>2
        <3> QED BY <1>1, <2>2, <3>1, <3>2, <3>3 DEF Parented, Below
    <2> QED BY <2>1, <2>2
<1> QED BY <1>1, <1>2, <1>3, <1>4, <1>5 DEF Node

LEMMA SearchTreeMade ==
    ASSUME NEW keys \in SUBSET TreeKeys, NEW n \in Nat, NEW entries, NEW children,
           Entered(entries, keys), Parented(entries, children, n, keys)
    PROVE  Node(entries, children) \in SearchTrees[n + 1][keys]
<1> DEFINE node == Node(entries, children)
<1>1. node.entries = entries /\ node.children = children
    BY DEF Node
<1>2. \A i : Between(entries, i, keys) \in SUBSET TreeKeys
    BY DEF Between
<1>3. DOMAIN children = IF n = 0 THEN {} ELSE 1..Len(entries) + 1
    BY DEF Parented
<1>4. \A i \in DOMAIN children : /\ children[i] \in SearchTrees[n][Between(entries, i, keys)]
                                 /\ Order > 3 => Len(children[i].entries) >= 1
    BY <1>3 DEF Parented, Below
<1>5. \A i \in DOMAIN children : children[i] \in BT!BTrees[n]
    <2>1. CASE n = 0
        BY <1>3, <2>1
    <2>2. CASE n # 0
        <3>1. n - 1 \in Nat /\ n - 1 + 1 = n
            BY <2>2
        <3> QED BY <1>2, <1>4, <3>1, SearchTreeIs
    <2> QED BY <2>1, <2>2
<1>6. children \in Seq(BT!BTrees[n])
    <2> DEFINE T == {children[i] : i \in DOMAIN children}
    <2>1. children \in Seq(T)
        <3>1. CASE n = 0
            <4>1. children = <<>>
                BY <3>1 DEF Parented
            <4> QED BY <4>1
        <3>2. CASE n # 0
            BY <3>2 DEF Parented
        <3> QED BY <3>1, <3>2
    <2>2. T \subseteq BT!BTrees[n]
        BY <1>5
    <2> HIDE DEF T
    <2> QED BY <2>1, <2>2
<1>7. \A x \in BT!BTrees[n] : x \in BT!Trees[n]
    <2>1. n = 0 \/ (n - 1 \in Nat /\ n - 1 + 1 = n)
        OBVIOUS
    <2> QED BY <2>1, BTreesAre DEF BTreesOf
<1>8. children \in Seq(BT!Trees[n])
    BY <1>6, <1>7
<1>9. node \in BT!Trees[n + 1]
    BY <1>8, TreesEmpty DEF Node, Entered
<1>10. node \in BT!BTrees[n + 1]
    <2>1. n + 1 > 1 => Len(children) = Len(entries) + 1
        BY DEF Parented
    <2>2. Order > 3 => \A i \in DOMAIN children : Len(children[i].entries) >= 1
        BY <1>4
    <2>3. Len(entries) <= BT!MaxKeys
        BY DEF Entered
    <2>4. n + 1 \in Nat /\ BT!BTrees[n + 1] = BTreesOf(n + 1, BT!BTrees[n])
        BY BTreesAre
    <2> HIDE DEF node
    <2> QED BY <1>1, <1>6, <1>9, <2>1, <2>2, <2>3, <2>4 DEF BTreesOf
<1> HIDE DEF node
<1>11. node \in SearchTreesOf(n + 1, SearchTrees[n], keys)
    BY <1>1, <1>4, <1>10 DEF SearchTreesOf, Entered
<1> QED BY <1>11, SearchTreesAre DEF node

-----------------------------------------------------------------------------
(* B-tree: sequences of entries *)

LEMMA PartIs ==
    ASSUME NEW S, NEW s \in Seq(S), NEW from \in Nat \ {0}, NEW upto \in Nat,
           upto <= Len(s)
    PROVE  LET part == SubSeq(s, from, upto)
           IN  /\ part \in Seq(S)
               /\ Len(part) = IF from <= upto THEN upto - from + 1 ELSE 0
               /\ \A i \in 1..upto - from + 1 : part[i] = s[from + i - 1]
<1>1. \A i \in from..upto : s[i] \in S
    <2>1. \A i \in from..upto : i \in 1..Len(s)
        BY LenProperties
    <2> QED BY <2>1, ElementOfSeq
<1>2. from \in Int /\ upto \in Int
    OBVIOUS
<1> QED BY <1>1, <1>2, SubSeqProperties

LEMMA InsertedAt ==
    ASSUME NEW S, NEW s \in Seq(S), NEW i \in 1..Len(s) + 1, NEW e \in S
    PROVE  LET t == BT!InsertAt(s, i, e)
           IN  /\ t \in Seq(S)
               /\ Len(t) = Len(s) + 1
               /\ \A j \in 1..i - 1 : t[j] = s[j]
               /\ t[i] = e
               /\ \A j \in i + 1..Len(s) + 1 : t[j] = s[j - 1]
<1> DEFINE front == SubSeq(s, 1, i - 1)
           back == SubSeq(s, i, Len(s))
           half == front \o <<e>>
           len == Len(s)
<1>0. len \in Nat /\ i \in Nat \ {0} /\ i - 1 \in Nat /\ i - 1 <= len
    BY LenProperties
<1>1. front \in Seq(S) /\ Len(front) = i - 1 /\ \A j \in 1..i - 1 : front[j] = s[j]
    <2>1. /\ front \in Seq(S)
          /\ Len(front) = IF 1 <= i - 1 THEN i - 1 - 1 + 1 ELSE 0
          /\ \A j \in 1..i - 1 - 1 + 1 : front[j] = s[1 + j - 1]
        BY <1>0, PartIs
    <2> HIDE DEF front
    <2> QED BY <1>0, <2>1
<1>2. /\ back \in Seq(S)
      /\ Len(back) = len - i + 1
      /\ \A j \in 1..len - i + 1 : back[j] = s[i + j - 1]
    <2>1. /\ back \in Seq(S)
          /\ Len(back) = IF i <= len THEN len - i + 1 ELSE 0
          /\ \A j \in 1..len - i + 1 : back[j] = s[i + j - 1]
        BY <1>0, PartIs
    <2> HIDE DEF back
    <2> QED BY <1>0, <2>1
<1>3. <<e>> \in Seq(S) /\ Len(<<e>>) = 1 /\ <<e>>[1] = e
    OBVIOUS
<1> HIDE DEF front, back
<1>4. /\ half \in Seq(S)
      /\ Len(half) = i
      /\ \A j \in 1..i : half[j] = IF j <= i - 1 THEN front[j] ELSE <<e>>[j - (i - 1)]
    <2>1. /\ half \in Seq(S)
          /\ Len(half) = i - 1 + 1
          /\ \A j \in 1..i - 1 + 1 :
                half[j] = IF j <= i - 1 THEN front[j] ELSE <<e>>[j - (i - 1)]
        BY <1>1, <1>3, ConcatProperties
    <2> HIDE DEF half
    <2> QED BY <1>0, <2>1
<1> HIDE DEF half
<1> HIDE DEF len
<1> DEFINE t == half \o back
<1>5. /\ t \in Seq(S)
      /\ Len(t) = i + (len - i + 1)
      /\ \A j \in 1..i + (len - i + 1) : t[j] = IF j <= i THEN half[j] ELSE back[j - i]
    <2>1. /\ t \in Seq(S)
          /\ Len(t) = Len(half) + Len(back)
          /\ \A j \in 1..Len(half) + Len(back) :
                t[j] = IF j <= Len(half) THEN half[j] ELSE back[j - Len(half)]
        BY <1>2, <1>4, ConcatProperties
    <2> HIDE DEF t
    <2> QED BY <1>2, <1>4, <2>1
<1>6. t = BT!InsertAt(s, i, e)
    BY DEF BT!InsertAt, half, front, back, len
<1> HIDE DEF t
<1>7. i + (len - i + 1) = len + 1
    BY <1>0
<1>8. \A j \in 1..i - 1 : t[j] = s[j]
    <2> SUFFICES ASSUME NEW j \in 1..i - 1
                 PROVE  t[j] = s[j]
        OBVIOUS
    <2>1. j \in 1..len + 1 /\ j \in 1..i /\ j <= i - 1
        BY <1>0
    <2> QED BY <1>1, <1>4, <1>5, <1>7, <2>1
<1>9. t[i] = e
    <2>1. i \in 1..len + 1 /\ i \in 1..i /\ ~(i <= i - 1) /\ i - (i - 1) = 1
        BY <1>0 DEF len
    <2> QED BY <1>0, <1>3, <1>4, <1>5, <1>7, <2>1
<1>10. \A j \in i + 1..len + 1 : t[j] = s[j - 1]
    <2> SUFFICES ASSUME NEW j \in i + 1..len + 1
                 PROVE  t[j] = s[j - 1]
        OBVIOUS
    <2>1. /\ j \in 1..len + 1 /\ ~(j <= i)
          /\ j - i \in 1..len - i + 1 /\ i + (j - i) - 1 = j - 1
        BY <1>0
    <2> QED BY <1>2, <1>5, <1>7, <2>1
<1> QED BY <1>5, <1>6, <1>7, <1>8, <1>9, <1>10 DEF len

Shown(s) == {s[i] : i \in DOMAIN s}

LEMMA Joined ==
    ASSUME NEW a \in Seq(TreeEntries), NEW b \in Seq(TreeEntries), NEW keys \in SUBSET TreeKeys,
           Ordered(a, keys), Ordered(b, keys),
           \A x \in Shown(a), y \in Shown(b) : x.key < y.key
    PROVE  /\ a \o b \in Seq(TreeEntries)
           /\ Ordered(a \o b, keys)
           /\ Shown(a \o b) = Shown(a) \cup Shown(b)
<1> DEFINE c == a \o b
           m == Len(a)
           n == Len(b)
<1>1. m \in Nat /\ n \in Nat /\ DOMAIN a = 1..m /\ DOMAIN b = 1..n
    BY LenProperties
<1>2. /\ c \in Seq(TreeEntries) /\ Len(c) = m + n
      /\ \A i \in 1..m + n : c[i] = IF i <= m THEN a[i] ELSE b[i - m]
    BY ConcatProperties
<1>3. DOMAIN c = 1..m + n
    <2> HIDE DEF c
    <2> QED BY <1>2, LenProperties
<1> HIDE DEF c, m, n
<1>4. \A i \in 1..m + n : \/ i \in 1..m /\ c[i] = a[i]
                          \/ i > m /\ i - m \in 1..n /\ c[i] = b[i - m]
    BY <1>1, <1>2
<1>5. \A i \in 1..m + n : c[i].key \in keys
    BY <1>1, <1>4 DEF Ordered
<1>6. ASSUME NEW i \in 1..m + n, NEW j \in 1..m + n, i < j
      PROVE  c[i].key < c[j].key
    <2>1. CASE i > m
        <3>1. i - m < j - m /\ j > m
            BY <1>1, <1>6, <2>1
        <3>2. /\ i - m \in DOMAIN b /\ c[i] = b[i - m]
              /\ j - m \in DOMAIN b /\ c[j] = b[j - m]
            BY <1>1, <1>4, <2>1, <3>1
        <3> QED BY <3>1, <3>2 DEF Ordered
    <2>2. CASE ~(i > m) /\ j > m
        <3>1. c[i] \in Shown(a) /\ c[j] \in Shown(b)
            BY <1>1, <1>4, <2>2 DEF Shown
        <3> QED BY <3>1
    <2>3. CASE ~(i > m) /\ ~(j > m)
        BY <1>1, <1>4, <1>6, <2>3 DEF Ordered
    <2> QED BY <2>1, <2>2, <2>3
<1>7. Shown(c) = Shown(a) \cup Shown(b)
    <2>1. \A i \in 1..m : i \in 1..m + n /\ c[i] = a[i]
        BY <1>1, <1>2
    <2>2. \A i \in 1..n : i + m \in 1..m + n /\ c[i + m] = b[i]
        BY <1>1, <1>2
    <2>3. \A x \in Shown(a) : x \in Shown(c)
        BY <1>1, <1>3, <2>1 DEF Shown
    <2>4. \A x \in Shown(b) : x \in Shown(c)
        BY <1>1, <1>3, <2>2 DEF Shown
    <2>5. \A x \in Shown(c) : x \in Shown(a) \/ x \in Shown(b)
        BY <1>1, <1>3, <1>4 DEF Shown
    <2> QED BY <2>3, <2>4, <2>5
<1> QED BY <1>2, <1>3, <1>5, <1>6, <1>7 DEF Ordered, c

-----------------------------------------------------------------------------
(* B-tree: what Entries collects *)

Gathers(f, entries, b) ==
    /\ f[0] = <<>>
    /\ \A n \in 1..Len(entries) : f[n] = f[n - 1] \o Append(b[n], entries[n])

LEMMA GatheredExists ==
    ASSUME NEW entries \in Seq(TreeEntries), NEW b,
           \A i \in 1..Len(entries) : b[i] \in Seq(TreeEntries)
    PROVE  \E f : f = [n \in 0..Len(entries) |->
                          IF n = 0 THEN <<>> ELSE f[n - 1] \o Append(b[n], entries[n])]
<1> DEFINE S == Seq(TreeEntries)
           len == Len(entries)
           step == [n \in Nat |-> [s \in S |->
                       IF n < len THEN s \o Append(b[n + 1], entries[n + 1]) ELSE s]]
<1>0. len \in Nat
    BY LenProperties
<1>1. Numbered(S, step)
    <2>1. ASSUME NEW n \in Nat, NEW s \in S, n < len
          PROVE  s \o Append(b[n + 1], entries[n + 1]) \in S
        <3>1. n + 1 \in 1..len
            BY <1>0, <2>1
        <3>2. entries[n + 1] \in TreeEntries /\ b[n + 1] \in S
            BY <3>1, ElementOfSeq
        <3>3. Append(b[n + 1], entries[n + 1]) \in S
            BY <3>2, AppendProperties
        <3> QED BY <3>3, ConcatProperties
    <2> HIDE DEF S, len
    <2> QED BY <2>1 DEF Numbered
<1>2. <<>> \in S
    OBVIOUS
<1>3. PICK g \in [Nat -> S] : Recursion(g, <<>>, step)
    <2> HIDE DEF S, step
    <2> QED BY <1>1, <1>2, RecursionExists
<1>4. g[0] = <<>> /\ \A n \in Nat : g[n + 1] = step[n][g[n]]
    BY <1>3 DEF Recursion
<1>5. ASSUME NEW n \in 1..len
      PROVE  g[n] = g[n - 1] \o Append(b[n], entries[n])
    <2>1. n - 1 \in Nat /\ n - 1 + 1 = n /\ n - 1 < len
        BY <1>0
    <2>2. g[n] = step[n - 1][g[n - 1]] /\ g[n - 1] \in S
        BY <1>3, <1>4, <2>1
    <2> HIDE DEF S, len
    <2> QED BY <2>1, <2>2
<1> DEFINE f == [n \in 0..len |-> g[n]]
<1>6. ASSUME NEW n \in 0..len
      PROVE  f[n] = IF n = 0 THEN <<>> ELSE f[n - 1] \o Append(b[n], entries[n])
    <2>1. n = 0 \/ (n \in 1..len /\ n - 1 \in 0..len)
        BY <1>0
    <2> HIDE DEF len
    <2> QED BY <1>4, <1>5, <2>1
<1>7. f = [n \in 0..len |-> IF n = 0 THEN <<>> ELSE f[n - 1] \o Append(b[n], entries[n])]
    <2> HIDE DEF len
    <2> QED BY <1>6
<1> HIDE DEF f
<1> QED BY <1>7

LEMMA BetweenIs ==
    ASSUME NEW keys \in SUBSET TreeKeys, NEW entries, NEW i, NEW c,
           Ordered(c, Between(entries, i, keys))
    PROVE  /\ Ordered(c, keys)
           /\ \A x \in Shown(c) : x.key \in Between(entries, i, keys)
BY DEF Ordered, Shown, Between

LEMMA KeysAreNumbers ==
    \A k \in TreeKeys : k \in Int
BY BTreeAssumption

LEMMA GatheredIs ==
    ASSUME NEW entries \in Seq(TreeEntries), NEW b, NEW f, NEW keys \in SUBSET TreeKeys,
           Ordered(entries, keys),
           \A i \in 1..Len(entries) + 1 :
              b[i] \in Seq(TreeEntries) /\ Ordered(b[i], Between(entries, i, keys)),
           Gathers(f, entries, b)
    PROVE  LET c == f[Len(entries)] \o b[Len(entries) + 1]
           IN  /\ c \in Seq(TreeEntries)
               /\ Ordered(c, keys)
               /\ Shown(c) = Shown(entries)
                               \cup UNION {Shown(b[i]) : i \in 1..Len(entries) + 1}
<1> DEFINE len == Len(entries)
           Upto(n) == {entries[j] : j \in 1..n} \cup UNION {Shown(b[j]) : j \in 1..n}
           Good(n) == /\ f[n] \in Seq(TreeEntries)
                      /\ Ordered(f[n], keys)
                      /\ \A x \in Shown(f[n]) : n > 0 /\ x.key <= entries[n].key
                      /\ Shown(f[n]) = Upto(n)
           good == {n \in Nat : n <= len => Good(n)}
<1>0. len \in Nat /\ DOMAIN entries = 1..len
    BY LenProperties
<1>1. \A i \in 1..len : /\ entries[i] \in TreeEntries
                        /\ entries[i].key \in keys /\ entries[i].key \in Int
    <2>1. \A i \in 1..len : entries[i] \in TreeEntries /\ entries[i].key \in keys
        BY <1>0, ElementOfSeq DEF Ordered
    <2> QED BY <2>1, KeysAreNumbers
<1>2. \A i \in 1..len + 1 :
         /\ b[i] \in Seq(TreeEntries) /\ Ordered(b[i], keys)
         /\ \A x \in Shown(b[i]) : /\ x.key \in Int
                                   /\ i > 1 => entries[i - 1].key < x.key
                                   /\ i <= len => x.key < entries[i].key
    <2> SUFFICES ASSUME NEW i \in 1..len + 1
                 PROVE  /\ b[i] \in Seq(TreeEntries) /\ Ordered(b[i], keys)
                        /\ \A x \in Shown(b[i]) : /\ x.key \in Int
                                                  /\ i > 1 => entries[i - 1].key < x.key
                                                  /\ i <= len => x.key < entries[i].key
        OBVIOUS
    <2>1. Ordered(b[i], keys) /\ \A x \in Shown(b[i]) : x.key \in Between(entries, i, keys)
        BY BetweenIs
    <2> QED BY <2>1, KeysAreNumbers DEF Between
<1>11. \A n \in 1..len : f[n] = f[n - 1] \o Append(b[n], entries[n])
    BY DEF Gathers
<1> HIDE DEF len
<1>3. 0 \in good
    <2>1. f[0] = <<>> /\ Shown(<<>>) = {} /\ Ordered(<<>>, keys) /\ Upto(0) = {}
        BY DEF Gathers, Shown, Ordered
    <2>2. f[0] \in Seq(TreeEntries)
        BY <2>1
    <2>3. Good(0)
        <3> HIDE DEF Upto
        <3> QED BY <2>1, <2>2
    <2> HIDE DEF Good
    <2> QED BY <2>3
<1>4. ASSUME NEW n \in good
      PROVE  n + 1 \in good
    <2>1. SUFFICES ASSUME n + 1 <= len
                   PROVE  Good(n + 1)
        OBVIOUS
    <2>2. n \in Nat /\ n + 1 \in 1..len /\ n + 1 \in 1..len + 1 /\ Good(n) /\ n + 1 - 1 = n
        BY <1>0, <2>1
    <2> DEFINE e == entries[n + 1]
               below == b[n + 1]
               next == below \o <<e>>
    <2>3. f[n + 1] = f[n] \o Append(below, e)
        <3> DEFINE m == n + 1
        <3>1. m \in 1..len /\ m - 1 = n
            BY <2>2
        <3> HIDE DEF m
        <3>2. f[m] = f[m - 1] \o Append(b[m], entries[m])
            BY <1>11, <3>1
        <3>3. f[m] = f[n] \o Append(b[m], entries[m])
            BY <3>1, <3>2
        <3> QED BY <3>3 DEF m
    <2>4. below \in Seq(TreeEntries) /\ e \in TreeEntries /\ Append(below, e) = next
        BY <1>1, <1>2, <2>2, AppendIsConcat
    <2>5. /\ <<e>> \in Seq(TreeEntries)
          /\ Ordered(<<e>>, keys)
          /\ Shown(<<e>>) = {e}
        BY <1>1, <2>2, <2>4 DEF Ordered, Shown
    <2>6. Ordered(below, keys) /\ \A x \in Shown(below) : x.key \in Int /\ x.key < e.key
        BY <1>2, <2>1, <2>2
    <2>7. /\ next \in Seq(TreeEntries)
          /\ Ordered(next, keys)
          /\ Shown(next) = Shown(below) \cup {e}
        <3> HIDE DEF below, e
        <3>1. \A x \in Shown(below), y \in Shown(<<e>>) : x.key < y.key
            BY <2>5, <2>6
        <3>2. /\ next \in Seq(TreeEntries)
              /\ Ordered(next, keys)
              /\ Shown(next) = Shown(below) \cup Shown(<<e>>)
            BY <2>4, <2>5, <2>6, <3>1, Joined
        <3> QED BY <2>5, <3>2
    <2>8. \A x \in Shown(f[n]), y \in Shown(next) : x.key < y.key
        <3> SUFFICES ASSUME NEW x \in Shown(f[n]), NEW y \in Shown(next)
                     PROVE  x.key < y.key
            OBVIOUS
        <3>1. n > 0 /\ x.key <= entries[n].key
            BY <2>2
        <3>2. n \in 1..len /\ n + 1 > 1
            BY <1>0, <2>2, <3>1
        <3>3. x.key \in Int
            <4>1. \E i \in DOMAIN f[n] : x.key = f[n][i].key
                BY DEF Shown
            <4>2. Ordered(f[n], keys)
                BY <2>2
            <4> QED BY <4>1, <4>2, KeysAreNumbers DEF Ordered
        <3>4. y.key \in Int /\ entries[n].key < y.key
            <4>1. CASE y = e
                <5>1. entries[n].key < entries[n + 1].key
                    <6>1. n \in DOMAIN entries /\ n + 1 \in DOMAIN entries /\ n < n + 1
                        BY <1>0, <2>2, <3>2
                    <6> QED BY <6>1 DEF Ordered
                <5> QED BY <1>1, <2>2, <4>1, <5>1
            <4>2. CASE y \in Shown(below)
                <5>1. \A x_1 \in Shown(b[n + 1]) : /\ x_1.key \in Int
                                                  /\ entries[n + 1 - 1].key < x_1.key
                    BY <1>2, <2>2, <3>2
                <5> QED BY <2>2, <4>2, <5>1
            <4> QED BY <2>7, <4>1, <4>2
        <3>5. entries[n].key \in Int
            BY <1>1, <3>2
        <3> QED BY <3>1, <3>3, <3>4, <3>5
    <2>9. /\ f[n + 1] \in Seq(TreeEntries)
          /\ Ordered(f[n + 1], keys)
          /\ Shown(f[n + 1]) = Shown(f[n]) \cup Shown(next)
        <3> HIDE DEF next
        <3>1. f[n] \in Seq(TreeEntries) /\ Ordered(f[n], keys)
            BY <2>2
        <3> QED BY <2>3, <2>4, <2>7, <2>8, <3>1, Joined, SMTT(40)
    <2>10. \A x \in Shown(f[n + 1]) : x.key <= e.key
        <3> SUFFICES ASSUME NEW x \in Shown(f[n + 1])
                     PROVE  x.key <= e.key
            OBVIOUS
        <3>1. x.key \in Int
            <4>1. \E i \in DOMAIN f[n + 1] : x.key = f[n + 1][i].key
                BY DEF Shown
            <4> QED BY <2>9, <4>1, KeysAreNumbers DEF Ordered
        <3>2. e.key \in Int /\ e \in Shown(next)
            BY <1>1, <2>2, <2>7
        <3>3. CASE x \in Shown(f[n])
            BY <2>8, <3>1, <3>2, <3>3
        <3>4. CASE x \in Shown(next)
            BY <2>6, <2>7, <3>2, <3>4
        <3> QED BY <2>9, <3>3, <3>4
    <2>11. Shown(f[n + 1]) = Upto(n + 1)
        <3>1. \A j : j \in 1..n + 1 <=> j \in 1..n \/ j = n + 1
            BY <2>2
        <3>2. Shown(f[n]) = Upto(n)
            BY <2>2
        <3>3. Upto(n + 1) = Upto(n) \cup {e} \cup Shown(below)
            BY <3>1
        <3> HIDE DEF Upto, e, below
        <3> QED BY <2>7, <2>9, <3>2, <3>3
    <2> QED BY <2>2, <2>9, <2>10, <2>11, SMTT(40)
<1>5. good = Nat
    <2>1. good \in SUBSET Nat
        OBVIOUS
    <2> HIDE DEF good
    <2> QED BY <1>3, <1>4, <2>1, Induction
<1>6. Good(len)
    <2>1. len \in good /\ len <= len
        <3> HIDE DEF good
        <3> QED BY <1>0, <1>5
    <2> QED BY <2>1
<1> DEFINE last == b[len + 1]
           c == f[len] \o last
<1>7. /\ last \in Seq(TreeEntries) /\ Ordered(last, keys)
      /\ \A x \in Shown(last) : x.key \in Int /\ (len > 0 => entries[len].key < x.key)
    <2> DEFINE i == len + 1
    <2>1. i \in 1..len + 1 /\ i - 1 = len /\ (len > 0 => i > 1)
        BY <1>0
    <2> HIDE DEF i
    <2>2. /\ b[i] \in Seq(TreeEntries) /\ Ordered(b[i], keys)
          /\ \A x \in Shown(b[i]) : x.key \in Int /\ (len > 0 => entries[len].key < x.key)
        BY <1>2, <2>1
    <2> QED BY <2>2 DEF i
<1>8. \A x \in Shown(f[len]), y \in Shown(last) : x.key < y.key
    <2> SUFFICES ASSUME NEW x \in Shown(f[len]), NEW y \in Shown(last)
                 PROVE  x.key < y.key
        OBVIOUS
    <2>1. len > 0 /\ x.key <= entries[len].key
        BY <1>6
    <2>2. x.key \in Int
        <3>1. \E i \in DOMAIN f[len] : x.key = f[len][i].key
            BY DEF Shown
        <3>2. Ordered(f[len], keys)
            BY <1>6
        <3> QED BY <3>1, <3>2, KeysAreNumbers DEF Ordered
    <2>3. entries[len].key \in Int
        BY <1>0, <1>1, <2>1
    <2>4. y.key \in Int /\ entries[len].key < y.key
        BY <1>7, <2>1
    <2> QED BY <2>1, <2>2, <2>3, <2>4
<1>9. /\ c \in Seq(TreeEntries)
      /\ Ordered(c, keys)
      /\ Shown(c) = Upto(len) \cup Shown(last)
    <2>1. f[len] \in Seq(TreeEntries) /\ Ordered(f[len], keys) /\ Shown(f[len]) = Upto(len)
        BY <1>6
    <2> HIDE DEF last, Upto
    <2> QED BY <1>7, <1>8, <2>1, Joined
<1>10. Shown(c) = Shown(entries) \cup UNION {Shown(b[i]) : i \in 1..len + 1}
    <2>1. \A j : j \in 1..len + 1 <=> j \in 1..len \/ j = len + 1
        BY <1>0
    <2>2. Shown(entries) = {entries[j] : j \in 1..len}
        BY <1>0 DEF Shown
    <2>3. UNION {Shown(b[i]) : i \in 1..len + 1}
             = Shown(last) \cup UNION {Shown(b[i]) : i \in 1..len}
        <3> DEFINE some == UNION {Shown(b[i]) : i \in 1..len}
                   all == UNION {Shown(b[i]) : i \in 1..len + 1}
        <3>1. \A x \in all : x \in some \/ x \in Shown(last)
            BY <2>1
        <3>2. \A x \in some : x \in all
            BY <2>1
        <3>3. \A x \in Shown(last) : x \in all
            BY <2>1
        <3> HIDE DEF some, all
        <3>4. all = Shown(last) \cup some
            BY <3>1, <3>2, <3>3
        <3> QED BY <3>4, Zenon DEF some, all
    <2>4. Shown(c) = Upto(len) \cup Shown(last)
        BY <1>9
    <2> DEFINE some == UNION {Shown(b[i]) : i \in 1..len}
               all == UNION {Shown(b[i]) : i \in 1..len + 1}
               listed == {entries[j] : j \in 1..len}
    <2>5. Upto(len) = listed \cup some
        BY Zenon
    <2>6. all = Shown(last) \cup some
        BY <2>3, Zenon
    <2>7. Shown(entries) = listed
        BY <2>2, Zenon
    <2> HIDE DEF last, c, some, all, listed, Upto
    <2>8. Shown(c) = Shown(entries) \cup all
        BY <2>4, <2>5, <2>6, <2>7
    <2> QED BY <2>8, Zenon DEF all
<1> QED BY <1>9, <1>10 DEF len

LEMMA TreesGrow ==
    ASSUME NEW n \in Nat, NEW g \in Nat, n <= g
    PROVE  BT!Trees[n] \subseteq BT!Trees[g]
<1> DEFINE up == {m \in Nat : BT!Trees[m] \subseteq BT!Trees[m + 1]}
           far == {d \in Nat : BT!Trees[n] \subseteq BT!Trees[n + d]}
<1>1. up = Nat
    <2>1. 0 \in up
        BY TreesEmpty
    <2>2. ASSUME NEW m \in up
          PROVE  m + 1 \in up
        <3>1. Seq(BT!Trees[m]) \subseteq Seq(BT!Trees[m + 1])
            BY SeqMonotonic
        <3>2. m + 1 \in Nat
            OBVIOUS
        <3>3. BT!Trees[m + 1] = [entries : Seq(TreeEntries), children : Seq(BT!Trees[m])]
            BY TreesEmpty
        <3>4. BT!Trees[m + 1 + 1] = [entries : Seq(TreeEntries), children : Seq(BT!Trees[m + 1])]
            BY <3>2, TreesEmpty
        <3>5. \A A, B : A \subseteq B => [entries : Seq(TreeEntries), children : A]
                                         \subseteq [entries : Seq(TreeEntries), children : B]
            OBVIOUS
        <3>6. BT!Trees[m + 1] \subseteq BT!Trees[m + 1 + 1]
            BY <3>1, <3>3, <3>4, <3>5
        <3> QED BY <3>2, <3>6
    <2>3. up \in SUBSET Nat
        OBVIOUS
    <2> HIDE DEF up
    <2> QED BY <2>1, <2>2, <2>3, Induction
<1>2. far = Nat
    <2>1. 0 \in far
        <3>1. n + 0 = n
            OBVIOUS
        <3> QED BY <3>1
    <2>2. ASSUME NEW d \in far
          PROVE  d + 1 \in far
        <3>1. n + d \in up /\ n + (d + 1) = n + d + 1
            <4> HIDE DEF up
            <4> QED BY <1>1
        <3> QED BY <3>1
    <2>3. far \in SUBSET Nat
        OBVIOUS
    <2> HIDE DEF far
    <2> QED BY <2>1, <2>2, <2>3, Induction
<1>3. g - n \in Nat /\ n + (g - n) = g
    OBVIOUS
<1>4. g - n \in far
    <2> HIDE DEF far
    <2> QED BY <1>2, <1>3
<1> QED BY <1>3, <1>4

\* The entries in a node and below it
Held(g, node) == Shown(Collecting[g][node])

HeldBelow(g, children) == UNION {Held(g, children[i]) : i \in DOMAIN children}

LEMMA ChildrenAre ==
    ASSUME NEW keys \in SUBSET TreeKeys, NEW n \in Nat, NEW node \in SearchTrees[n + 1][keys]
    PROVE  /\ Len(node.entries) \in Nat /\ DOMAIN node.entries = 1..Len(node.entries)
           /\ BT!IsLeaf(node) <=> n = 0
           /\ n = 0 => DOMAIN node.children = {} /\ node.children = <<>>
           /\ n # 0 => /\ DOMAIN node.children = 1..Len(node.entries) + 1
                       /\ node.children \in Seq({node.children[i] : i \in DOMAIN node.children})
                       /\ Len(node.children) = Len(node.entries) + 1
           /\ \A i \in DOMAIN node.children :
                 /\ i \in 1..Len(node.entries) + 1
                 /\ Between(node.entries, i, keys) \in SUBSET TreeKeys
                 /\ Below(node.children[i], n, Between(node.entries, i, keys))
<1>1. Entered(node.entries, keys) /\ Parented(node.entries, node.children, n, keys)
    BY SearchTreeIs
<1>2. Len(node.entries) \in Nat /\ DOMAIN node.entries = 1..Len(node.entries)
    BY <1>1, LenProperties DEF Entered
<1>3. \A i : Between(node.entries, i, keys) \in SUBSET TreeKeys
    BY DEF Between
<1>4. CASE n = 0
    <2>1. node.children = <<>>
        BY <1>1, <1>4 DEF Parented
    <2>2. DOMAIN node.children = {}
        BY <2>1
    <2> QED BY <1>2, <1>4, <2>1, <2>2 DEF BT!IsLeaf
<1>5. CASE n # 0
    <2>1. /\ node.children \in Seq({node.children[i] : i \in DOMAIN node.children})
          /\ Len(node.children) = Len(node.entries) + 1
          /\ \A i \in 1..Len(node.entries) + 1 :
                Below(node.children[i], n, Between(node.entries, i, keys))
        BY <1>1, <1>5 DEF Parented
    <2>2. DOMAIN node.children = 1..Len(node.entries) + 1
        BY <2>1
    <2>3. node.children # <<>>
        <3>1. Len(node.children) # 0
            BY <1>2, <2>1
        <3> QED BY <3>1
    <2> QED BY <1>2, <1>3, <1>5, <2>1, <2>2, <2>3 DEF BT!IsLeaf
<1> QED BY <1>4, <1>5

LEMMA CollectedStep ==
    ASSUME NEW keys \in SUBSET TreeKeys, NEW n \in Nat, NEW node \in SearchTrees[n + 1][keys],
           NEW g \in Nat, n <= g,
           \A i \in DOMAIN node.children :
              /\ Collecting[g][node.children[i]] \in Seq(TreeEntries)
              /\ Ordered(Collecting[g][node.children[i]], Between(node.entries, i, keys))
    PROVE  /\ Collecting[g + 1][node] \in Seq(TreeEntries)
           /\ Ordered(Collecting[g + 1][node], keys)
           /\ Held(g + 1, node) = Shown(node.entries) \cup HeldBelow(g, node.children)
<1> DEFINE len == Len(node.entries)
           b == [i \in 1..len + 1 |->
                    IF BT!IsLeaf(node) THEN <<>> ELSE Collecting[g][node.children[i]]]
           below(i) == IF BT!IsLeaf(node) THEN <<>> ELSE Collecting[g][node.children[i]]
           f == CHOOSE f : f = [m \in 0..len |->
                   IF m = 0 THEN <<>> ELSE f[m - 1] \o Append(below(m), node.entries[m])]
           c == f[len] \o b[len + 1]
<1>1. node \in BT!Trees[g + 1]
    <2>1. node \in BT!Trees[n + 1] /\ n + 1 \in Nat /\ g + 1 \in Nat /\ n + 1 <= g + 1
        BY SearchTreeIs
    <2> QED BY <2>1, TreesGrow
<1>2. /\ len \in Nat /\ node.entries \in Seq(TreeEntries) /\ Ordered(node.entries, keys)
    BY ChildrenAre, SearchTreeIs DEF Entered
<1>3. \A i \in 1..len + 1 : b[i] = below(i)
    OBVIOUS
<1>4. Collecting[g + 1][node] = c
    <2>1. g + 1 \in Nat /\ g + 1 - 1 = g
        OBVIOUS
    <2>2. Collecting[g + 1] = CollectedOf(BT!Trees[g + 1], Collecting[g])
        <3> DEFINE m == g + 1
        <3>1. m \in Nat /\ m - 1 = g
            OBVIOUS
        <3> HIDE DEF m
        <3>2. \A k, v : Collecting[m] = CollectedOf(BT!Trees[m], Collecting[m - 1])
            BY <3>1, OperationsByLevel
        <3>3. Collecting[m] = CollectedOf(BT!Trees[m], Collecting[g])
            BY <3>1, <3>2
        <3> QED BY <3>3 DEF m
    <2>3. Collecting[g + 1][node] = f[len] \o below(len + 1)
        BY <1>1, <2>2 DEF CollectedOf
    <2>4. len + 1 \in 1..len + 1
        BY <1>2
    <2> HIDE DEF f, len
    <2> QED BY <1>3, <2>3, <2>4
<1>5. \A i \in 1..len + 1 :
         b[i] \in Seq(TreeEntries) /\ Ordered(b[i], Between(node.entries, i, keys))
    <2>1. CASE BT!IsLeaf(node)
        <3>1. \A i \in 1..len + 1 : b[i] = <<>>
            BY <2>1
        <3>2. <<>> \in Seq(TreeEntries) /\ \A i : Ordered(<<>>, Between(node.entries, i, keys))
            BY DEF Ordered
        <3> HIDE DEF b
        <3> QED BY <3>1, <3>2
    <2>2. CASE ~BT!IsLeaf(node)
        <3>1. DOMAIN node.children = 1..len + 1
            BY <2>2, ChildrenAre
        <3> QED BY <2>2, <3>1
    <2> QED BY <2>1, <2>2
<1>6. Gathers(f, node.entries, b)
    <2> DEFINE below1(i) == b[i]
    <2>1. PICK h : h = [m \in 0..len |->
                   IF m = 0 THEN <<>> ELSE h[m - 1] \o Append(b[m], node.entries[m])]
        <3>1. \A i \in 1..len : b[i] \in Seq(TreeEntries)
            BY <1>2, <1>5, SMTT(40)
        <3> HIDE DEF b
        <3> QED BY <1>2, <3>1, GatheredExists
    <2>2. ASSUME NEW m \in 0..len
          PROVE  h[m] = IF m = 0 THEN <<>> ELSE h[m - 1] \o Append(below(m), node.entries[m])
        <3>1. m = 0 \/ m \in 1..len + 1
            BY <1>2
        <3>2. h[m] = IF m = 0 THEN <<>> ELSE h[m - 1] \o Append(b[m], node.entries[m])
            BY <2>1
        <3> HIDE DEF b, below, len
        <3> QED BY <1>3, <3>1, <3>2
    <2>3. h = [m \in 0..len |-> h[m]]
        BY <2>1
    <2>4. h = [m \in 0..len |->
                  IF m = 0 THEN <<>> ELSE h[m - 1] \o Append(below(m), node.entries[m])]
        <3> HIDE DEF b, below, len
        <3> QED BY <2>2, <2>3
    <2>5. f = [m \in 0..len |->
                  IF m = 0 THEN <<>> ELSE f[m - 1] \o Append(below(m), node.entries[m])]
        <3> HIDE DEF b, len
        <3> QED BY <2>4
    <2> HIDE DEF f
    <2>6. \A m \in 0..len : f[m] = IF m = 0 THEN <<>>
                                   ELSE f[m - 1] \o Append(below(m), node.entries[m])
        <3> HIDE DEF below, len
        <3> QED BY <2>5
    <2>7. f[0] = <<>>
        <3>1. 0 \in 0..len
            BY <1>2
        <3> HIDE DEF len
        <3> QED BY <2>6, <3>1
    <2>8. ASSUME NEW m \in 1..len
          PROVE  f[m] = f[m - 1] \o Append(b[m], node.entries[m])
        <3>1. m \in 0..len /\ m # 0 /\ m \in 1..len + 1
            BY <1>2
        <3> HIDE DEF b, below, len
        <3> QED BY <1>3, <2>6, <3>1
    <2> QED BY <2>7, <2>8 DEF Gathers
<1> HIDE DEF f
<1>7. /\ c \in Seq(TreeEntries)
      /\ Ordered(c, keys)
      /\ Shown(c) = Shown(node.entries) \cup UNION {Shown(b[i]) : i \in 1..len + 1}
    <2> HIDE DEF b
    <2> QED BY <1>2, <1>5, <1>6, GatheredIs
<1>8. UNION {Shown(b[i]) : i \in 1..len + 1} = HeldBelow(g, node.children)
    <2>1. CASE BT!IsLeaf(node)
        <3>1. \A i \in 1..len + 1 : Shown(b[i]) = {}
            BY <2>1 DEF Shown
        <3>2. DOMAIN node.children = {}
            BY <2>1, ChildrenAre
        <3> HIDE DEF b
        <3> QED BY <3>1, <3>2 DEF HeldBelow
    <2>2. CASE ~BT!IsLeaf(node)
        <3>1. DOMAIN node.children = 1..len + 1
            BY <2>2, ChildrenAre
        <3>2. \A i \in 1..len + 1 : Shown(b[i]) = Held(g, node.children[i])
            BY <2>2 DEF Held
        <3> HIDE DEF b, len
        <3> QED BY <3>1, <3>2 DEF HeldBelow
    <2> QED BY <2>1, <2>2
<1>9. Held(g + 1, node) = Shown(c)
    BY <1>4 DEF Held
<1> HIDE DEF c, b, len
<1>10. Shown(c) = Shown(node.entries) \cup HeldBelow(g, node.children)
    BY <1>7, <1>8
<1> QED BY <1>4, <1>7, <1>9, <1>10

LEMMA CollectingIs ==
    ASSUME NEW n \in Nat, NEW keys \in SUBSET TreeKeys, NEW node \in SearchTrees[n][keys],
           NEW g \in Nat, n <= g
    PROVE  /\ Collecting[g][node] \in Seq(TreeEntries)
           /\ Ordered(Collecting[g][node], keys)
           /\ Held(g, node) = Held(n, node)
<1> DEFINE Good(m, some, x, l) == /\ Collecting[l][x] \in Seq(TreeEntries)
                                  /\ Ordered(Collecting[l][x], some)
                                  /\ Held(l, x) = Held(m, x)
           good == {m \in Nat : \A some \in SUBSET TreeKeys : \A x \in SearchTrees[m][some] :
                                   \A l \in Nat : m <= l => Good(m, some, x, l)}
<1>1. 0 \in good
    BY SearchTreesAre
<1>2. ASSUME NEW m \in good
      PROVE  m + 1 \in good
    <2>1. SUFFICES ASSUME NEW some \in SUBSET TreeKeys, NEW x \in SearchTrees[m + 1][some],
                          NEW l \in Nat, m + 1 <= l
                   PROVE  Good(m + 1, some, x, l)
        OBVIOUS
    <2>2. ASSUME NEW i \in DOMAIN x.children, NEW h \in Nat, m <= h
          PROVE  /\ Collecting[h][x.children[i]] \in Seq(TreeEntries)
                 /\ Ordered(Collecting[h][x.children[i]], Between(x.entries, i, some))
                 /\ Held(h, x.children[i]) = Held(m, x.children[i])
        <3>1. /\ Between(x.entries, i, some) \in SUBSET TreeKeys
              /\ x.children[i] \in SearchTrees[m][Between(x.entries, i, some)]
            BY ChildrenAre DEF Below
        <3>2. Good(m, Between(x.entries, i, some), x.children[i], h)
            BY <2>2, <3>1
        <3> QED BY <3>2
    <2>3. ASSUME NEW h \in Nat, m <= h
          PROVE  /\ Collecting[h + 1][x] \in Seq(TreeEntries)
                 /\ Ordered(Collecting[h + 1][x], some)
                 /\ Held(h + 1, x) = Shown(x.entries) \cup HeldBelow(m, x.children)
        <3>1. HeldBelow(h, x.children) = HeldBelow(m, x.children)
            BY <2>2, <2>3 DEF HeldBelow
        <3>2. /\ Collecting[h + 1][x] \in Seq(TreeEntries)
              /\ Ordered(Collecting[h + 1][x], some)
              /\ Held(h + 1, x) = Shown(x.entries) \cup HeldBelow(h, x.children)
            <4> HIDE DEF good
            <4>1. m \in Nat
                BY DEF good
            <4>2. \A i \in DOMAIN x.children :
                     /\ Collecting[h][x.children[i]] \in Seq(TreeEntries)
                     /\ Ordered(Collecting[h][x.children[i]], Between(x.entries, i, some))
                BY <2>2, <2>3
            <4> QED BY <2>3, <4>1, <4>2, CollectedStep
        <3> QED BY <3>1, <3>2
    <2>4. l - 1 \in Nat /\ m <= l - 1 /\ l - 1 + 1 = l
        BY <2>1
    <2>5. /\ Collecting[l][x] \in Seq(TreeEntries)
          /\ Ordered(Collecting[l][x], some)
          /\ Held(l, x) = Shown(x.entries) \cup HeldBelow(m, x.children)
        BY <2>3, <2>4
    <2>6. Held(m + 1, x) = Shown(x.entries) \cup HeldBelow(m, x.children)
        BY <2>3
    <2> QED BY <2>5, <2>6
<1>3. good = Nat
    <2>1. good \in SUBSET Nat
        OBVIOUS
    <2> HIDE DEF good
    <2> QED BY <1>1, <1>2, <2>1, Induction
<1>4. Good(n, keys, node, g)
    <2> HIDE DEF Good
    <2>1. n \in good
        <3> HIDE DEF good
        <3> QED BY <1>3
    <2> QED BY <2>1
<1> QED BY <1>4

LEMMA HeldIs ==
    ASSUME NEW keys \in SUBSET TreeKeys, NEW n \in Nat, NEW node \in SearchTrees[n + 1][keys]
    PROVE  Held(n + 1, node) = Shown(node.entries) \cup HeldBelow(n, node.children)
<1>1. \A i \in DOMAIN node.children :
         /\ Collecting[n][node.children[i]] \in Seq(TreeEntries)
         /\ Ordered(Collecting[n][node.children[i]], Between(node.entries, i, keys))
    <2> SUFFICES ASSUME NEW i \in DOMAIN node.children
                 PROVE  /\ Collecting[n][node.children[i]] \in Seq(TreeEntries)
                        /\ Ordered(Collecting[n][node.children[i]],
                                   Between(node.entries, i, keys))
        OBVIOUS
    <2>1. /\ Between(node.entries, i, keys) \in SUBSET TreeKeys
          /\ node.children[i] \in SearchTrees[n][Between(node.entries, i, keys)]
        BY ChildrenAre DEF Below
    <2>2. n <= n
        OBVIOUS
    <2> QED BY <2>1, <2>2, CollectingIs
<1>2. n <= n
    OBVIOUS
<1> QED BY <1>1, <1>2, CollectedStep

\* The entries of a tree are of its keys, one of each
LEMMA HeldOnce ==
    ASSUME NEW keys \in SUBSET TreeKeys, NEW n \in Nat, NEW node \in SearchTrees[n][keys]
    PROVE  /\ \A x \in Held(n, node) : x \in TreeEntries /\ x.key \in keys
           /\ \A x, y \in Held(n, node) : x.key = y.key => x = y
<1> DEFINE c == Collecting[n][node]
<1>1. c \in Seq(TreeEntries) /\ Ordered(c, keys)
    BY CollectingIs
<1>2. DOMAIN c = 1..Len(c) /\ Len(c) \in Nat /\ \A i \in DOMAIN c : c[i] \in TreeEntries
    BY <1>1, LenProperties, ElementOfSeq
<1> HIDE DEF c
<1>3. \A i \in DOMAIN c : c[i].key \in keys /\ c[i].key \in Int
    BY <1>1, KeysAreNumbers DEF Ordered
<1>4. ASSUME NEW i \in DOMAIN c, NEW j \in DOMAIN c, c[i].key = c[j].key
      PROVE  i = j
    <2>1. i < j => c[i].key < c[j].key
        BY <1>1 DEF Ordered
    <2>2. j < i => c[j].key < c[i].key
        BY <1>1 DEF Ordered
    <2>3. ~(i < j) /\ ~(j < i)
        BY <1>3, <1>4, <2>1, <2>2
    <2> QED BY <1>2, <2>3
<1> QED BY <1>2, <1>3, <1>4 DEF Held, Shown, c

LEMMA KeyIndexIs ==
    ASSUME NEW keys \in SUBSET TreeKeys, NEW node, Entered(node.entries, keys), NEW k \in TreeKeys
    PROVE  LET i == BT!KeyIndex(node, k)
               len == Len(node.entries)
           IN  /\ i \in 1..len + 1
               /\ \A j \in 1..i - 1 : node.entries[j].key < k
               /\ \A j \in i..len : k <= node.entries[j].key
<1> DEFINE i == BT!KeyIndex(node, k)
           len == Len(node.entries)
           high == {j \in DOMAIN node.entries : node.entries[j].key >= k} \cup {len + 1}
<1>1. len \in Nat /\ DOMAIN node.entries = 1..len
    BY LenProperties DEF Entered
<1>2. \A j \in 1..len : node.entries[j].key \in Int
    BY <1>1, KeysAreNumbers DEF Entered, Ordered
<1>3. k \in Int
    BY KeysAreNumbers
<1>4. \A S : BT!Min(S) = Min(S)
    BY DEF BT!Min, Min
<1>5. i = Min(high)
    BY <1>4 DEF BT!KeyIndex
<1>6. high \in SUBSET Nat /\ high # {}
    BY <1>1
<1> HIDE DEF i
<1>7. i \in high /\ \A j \in high : i <= j
    BY <1>5, <1>6, MinIs
<1>8. i \in 1..len + 1
    BY <1>1, <1>7
<1>9. \A j \in 1..i - 1 : node.entries[j].key < k
    <2> SUFFICES ASSUME NEW j \in 1..i - 1
                 PROVE  node.entries[j].key < k
        OBVIOUS
    <2>1. j \in 1..len /\ j \notin high
        BY <1>1, <1>7, <1>8
    <2> QED BY <1>1, <1>2, <1>3, <2>1
<1>10. \A j \in i..len : k <= node.entries[j].key
    <2> SUFFICES ASSUME NEW j \in i..len
                 PROVE  k <= node.entries[j].key
        OBVIOUS
    <2>1. i \in 1..len /\ j \in 1..len
        BY <1>1, <1>8
    <2>2. k <= node.entries[i].key
        BY <1>1, <1>2, <1>3, <1>7, <2>1
    <2>3. i = j \/ node.entries[i].key < node.entries[j].key
        BY <1>1, <2>1 DEF Entered, Ordered
    <2> QED BY <1>2, <1>3, <2>1, <2>2, <2>3
<1> QED BY <1>8, <1>9, <1>10 DEF i

-----------------------------------------------------------------------------
(* B-tree: the way down to a key *)

Of(k, held) == {x \in held : x.key = k}

LEMMA WayDown ==
    ASSUME NEW keys \in SUBSET TreeKeys, NEW n \in Nat, NEW node \in SearchTrees[n + 1][keys],
           NEW k \in keys
    PROVE  LET i == BT!KeyIndex(node, k)
               len == Len(node.entries)
           IN  /\ i \in 1..len + 1
               /\ BT!HoldsAt(node, i, k) =>
                     /\ i \in 1..len /\ node.entries[i].key = k
                     /\ \A j \in 1..len + 1 : k \notin Between(node.entries, j, keys)
               /\ ~BT!HoldsAt(node, i, k) =>
                     /\ \A j \in 1..len : node.entries[j].key # k
                     /\ k \in Between(node.entries, i, keys)
                     /\ \A j \in 1..len + 1 : j # i => k \notin Between(node.entries, j, keys)
<1> DEFINE i == BT!KeyIndex(node, k)
           len == Len(node.entries)
<1>1. Entered(node.entries, keys) /\ len \in Nat /\ DOMAIN node.entries = 1..len
    BY SearchTreeIs, ChildrenAre
<1>2. k \in TreeKeys /\ k \in Int
    BY KeysAreNumbers
<1>3. \A j \in 1..len : node.entries[j].key \in Int
    BY <1>1, KeysAreNumbers DEF Entered, Ordered
<1>4. /\ i \in 1..len + 1
      /\ \A j \in 1..i - 1 : node.entries[j].key < k
      /\ \A j \in i..len : k <= node.entries[j].key
    BY <1>1, <1>2, KeyIndexIs
<1> HIDE DEF i
<1>5. ASSUME NEW j \in 1..len + 1, j < i
      PROVE  k \notin Between(node.entries, j, keys)
    <2>1. j \in 1..i - 1 /\ j <= len /\ j \in 1..len
        BY <1>1, <1>4, <1>5
    <2>2. node.entries[j].key < k /\ node.entries[j].key \in Int
        BY <1>3, <1>4, <2>1
    <2> QED BY <1>2, <2>1, <2>2 DEF Between
<1>6. ASSUME NEW j \in 1..len + 1, i < j
      PROVE  k \notin Between(node.entries, j, keys)
    <2>1. j - 1 \in i..len /\ j > 1 /\ j - 1 \in 1..len
        BY <1>1, <1>4, <1>6
    <2>2. k <= node.entries[j - 1].key /\ node.entries[j - 1].key \in Int
        BY <1>3, <1>4, <2>1
    <2> QED BY <1>2, <2>1, <2>2 DEF Between
<1>7. \A j \in 1..len + 1 : j # i => k \notin Between(node.entries, j, keys)
    <2>1. \A j \in 1..len + 1 : j # i => j < i \/ i < j
        BY <1>4
    <2> QED BY <1>5, <1>6, <2>1
<1>8. CASE BT!HoldsAt(node, i, k)
    <2>1. i \in 1..len /\ node.entries[i].key = k
        BY <1>1, <1>8 DEF BT!HoldsAt
    <2>2. k \notin Between(node.entries, i, keys)
        BY <1>1, <1>2, <2>1 DEF Between
    <2> QED BY <1>4, <1>7, <1>8, <2>1, <2>2 DEF i
<1>9. CASE ~BT!HoldsAt(node, i, k)
    <2>1. i \in 1..len => node.entries[i].key # k
        BY <1>1, <1>9 DEF BT!HoldsAt
    <2>2. ASSUME NEW j \in 1..len
          PROVE  node.entries[j].key # k
        <3>1. CASE j < i
            <4>1. j \in 1..i - 1
                BY <1>4, <3>1
            <4> QED BY <1>2, <1>3, <1>4, <4>1
        <3>2. CASE j = i
            BY <2>1, <3>2
        <3>3. CASE i < j
            <4>1. i \in 1..len /\ j \in i..len /\ i \in i..len
                BY <1>1, <1>4, <3>3
            <4>2. node.entries[i].key < node.entries[j].key
                BY <1>1, <3>3, <4>1 DEF Entered, Ordered
            <4>3. k <= node.entries[i].key
                BY <1>4, <4>1
            <4> QED BY <1>2, <1>3, <4>1, <4>2, <4>3
        <3> QED BY <1>4, <3>1, <3>2, <3>3
    <2>3. k \in Between(node.entries, i, keys)
        <3>1. i > 1 => node.entries[i - 1].key < k
            <4>1. i > 1 => i - 1 \in 1..i - 1
                BY <1>4
            <4> QED BY <1>4, <4>1
        <3>2. i <= len => k < node.entries[i].key
            <4>1. i <= len => i \in i..len /\ i \in 1..len
                BY <1>1, <1>4
            <4> QED BY <1>2, <1>3, <1>4, <2>2, <4>1
        <3> QED BY <3>1, <3>2 DEF Between
    <2> QED BY <1>4, <1>7, <1>9, <2>2, <2>3 DEF i
<1> QED BY <1>8, <1>9

Others(g, children, i) == UNION {Held(g, children[j]) : j \in DOMAIN children \ {i}}

HoldsAround(n, node, i) ==
    Held(n + 1, node) = Shown(node.entries) \cup Held(n, node.children[i])
                           \cup Others(n, node.children, i)

LEMMA ParentHolds ==
    ASSUME NEW keys \in SUBSET TreeKeys, NEW n \in Nat, NEW node \in SearchTrees[n + 1][keys],
           NEW i \in DOMAIN node.children
    PROVE  HoldsAround(n, node, i)
<1>1. HeldBelow(n, node.children) = Held(n, node.children[i]) \cup Others(n, node.children, i)
    BY DEF HeldBelow, Others
<1>2. Held(n + 1, node) = Shown(node.entries) \cup HeldBelow(n, node.children)
    BY HeldIs
<1> QED BY <1>1, <1>2 DEF HoldsAround

LEMMA KeysBelow ==
    ASSUME NEW keys \in SUBSET TreeKeys, NEW n \in Nat, NEW node \in SearchTrees[n + 1][keys],
           NEW j \in DOMAIN node.children, NEW x \in Held(n, node.children[j])
    PROVE  /\ j \in 1..Len(node.entries) + 1
           /\ x.key \in Between(node.entries, j, keys)
<1>1. /\ j \in 1..Len(node.entries) + 1
      /\ Between(node.entries, j, keys) \in SUBSET TreeKeys
      /\ node.children[j] \in SearchTrees[n][Between(node.entries, j, keys)]
    BY ChildrenAre DEF Below
<1> QED BY <1>1, HeldOnce

\* The entries of a key are in one place
LEMMA Elsewhere ==
    ASSUME NEW keys \in SUBSET TreeKeys, NEW n \in Nat, NEW node \in SearchTrees[n + 1][keys],
           NEW k \in keys
    PROVE  LET i == BT!KeyIndex(node, k)
           IN  /\ BT!HoldsAt(node, i, k) =>
                     /\ Of(k, HeldBelow(n, node.children)) = {}
                     /\ \A j \in DOMAIN node.entries : j # i => node.entries[j].key # k
               /\ ~BT!HoldsAt(node, i, k) =>
                     /\ Of(k, Shown(node.entries)) = {}
                     /\ Of(k, Others(n, node.children, i)) = {}
<1> DEFINE i == BT!KeyIndex(node, k)
<1>0. DOMAIN node.entries = 1..Len(node.entries)
    BY ChildrenAre
<1>1. CASE BT!HoldsAt(node, i, k)
    <2>1. /\ i \in DOMAIN node.entries /\ node.entries[i].key = k
          /\ \A j \in 1..Len(node.entries) + 1 : k \notin Between(node.entries, j, keys)
        <3>1. /\ i \in 1..Len(node.entries) /\ node.entries[i].key = k
              /\ \A j \in 1..Len(node.entries) + 1 : k \notin Between(node.entries, j, keys)
            BY <1>1, WayDown
        <3> HIDE DEF i
        <3> QED BY <1>0, <3>1
    <2> HIDE DEF i
    <2>2. Of(k, HeldBelow(n, node.children)) = {}
        BY <2>1, KeysBelow DEF Of, HeldBelow
    <2>3. ASSUME NEW j \in DOMAIN node.entries, j # i
          PROVE  node.entries[j].key # k
        <3>1. Ordered(node.entries, keys) /\ DOMAIN node.entries = 1..Len(node.entries)
              /\ Len(node.entries) \in Nat
            BY SearchTreeIs, ChildrenAre DEF Entered
        <3>2. i < j \/ j < i
            BY <2>1, <2>3, <3>1
        <3>3. \/ node.entries[i].key < node.entries[j].key
              \/ node.entries[j].key < node.entries[i].key
            BY <2>1, <3>1, <3>2 DEF Ordered
        <3>4. k \in Int
            BY KeysAreNumbers
        <3> QED BY <2>1, <3>3, <3>4
    <2> QED BY <1>1, <2>2, <2>3 DEF i
<1>2. CASE ~BT!HoldsAt(node, i, k)
    <2>1. /\ \A j \in DOMAIN node.entries : node.entries[j].key # k
          /\ \A j \in 1..Len(node.entries) + 1 : j # i => k \notin Between(node.entries, j, keys)
        BY <1>0, <1>2, WayDown, ZenonT(40)
    <2> HIDE DEF i
    <2>2. Of(k, Shown(node.entries)) = {}
        BY <2>1 DEF Of, Shown
    <2>3. Of(k, Others(n, node.children, i)) = {}
        BY <2>1, KeysBelow, ZenonT(40) DEF Of, Others
    <2> QED BY <1>2, <2>2, <2>3 DEF i
<1> QED BY <1>1, <1>2

LEMMA FoundHere ==
    ASSUME NEW keys \in SUBSET TreeKeys, NEW n \in Nat, NEW node \in SearchTrees[n + 1][keys],
           NEW k \in keys
    PROVE  LET i == BT!KeyIndex(node, k)
           IN  /\ BT!HoldsAt(node, i, k) => Of(k, Held(n + 1, node)) = {node.entries[i]}
               /\ ~BT!HoldsAt(node, i, k) /\ n = 0 => Of(k, Held(n + 1, node)) = {}
<1> DEFINE i == BT!KeyIndex(node, k)
<1>1. CASE BT!HoldsAt(node, i, k)
    <2>0. DOMAIN node.entries = 1..Len(node.entries)
        BY ChildrenAre
    <2>4. i \in DOMAIN node.entries /\ node.entries[i].key = k
        <3>1. i \in 1..Len(node.entries) /\ node.entries[i].key = k
            BY <1>1, WayDown
        <3> HIDE DEF i
        <3> QED BY <2>0, <3>1
    <2>1. /\ i \in DOMAIN node.entries /\ node.entries[i].key = k
          /\ Of(k, HeldBelow(n, node.children)) = {}
          /\ \A j \in DOMAIN node.entries : j # i => node.entries[j].key # k
        BY <1>1, <2>4, Elsewhere, SMTT(40)
    <2> HIDE DEF i
    <2>2. Of(k, Shown(node.entries)) = {node.entries[i]}
        BY <2>1 DEF Of, Shown
    <2>3. Of(k, Held(n + 1, node)) = {node.entries[i]}
        BY <2>1, <2>2, HeldIs DEF Of
    <2> QED BY <1>1, <2>3 DEF i
<1>2. CASE ~BT!HoldsAt(node, i, k) /\ n = 0
    <2>1. Of(k, Shown(node.entries)) = {}
        BY <1>2, Elsewhere
    <2>2. HeldBelow(n, node.children) = {}
        BY <1>2, ChildrenAre, ZenonT(40) DEF HeldBelow
    <2> HIDE DEF i
    <2>3. Of(k, Held(n + 1, node)) = {}
        BY <2>1, <2>2, HeldIs DEF Of
    <2> QED BY <1>2, <2>3 DEF i
<1> QED BY <1>1, <1>2

LEMMA FoundBelow ==
    ASSUME NEW keys \in SUBSET TreeKeys, NEW n \in Nat \ {0},
           NEW node \in SearchTrees[n + 1][keys], NEW k \in keys,
           NEW i, i = BT!KeyIndex(node, k), ~BT!HoldsAt(node, i, k)
    PROVE  /\ i \in DOMAIN node.children
           /\ Between(node.entries, i, keys) \in SUBSET TreeKeys
           /\ k \in Between(node.entries, i, keys)
           /\ Below(node.children[i], n, Between(node.entries, i, keys))
           /\ Of(k, Held(n + 1, node)) = Of(k, Held(n, node.children[i]))
<1>1. /\ Of(k, Shown(node.entries)) = {}
      /\ Of(k, Others(n, node.children, i)) = {}
    BY Elsewhere
<1>2. k \in Between(node.entries, i, keys) /\ i \in 1..Len(node.entries) + 1
    BY WayDown
<1>3. i \in DOMAIN node.children
    BY <1>2, ChildrenAre, ZenonT(40)
<1>4. /\ Between(node.entries, i, keys) \in SUBSET TreeKeys
      /\ Below(node.children[i], n, Between(node.entries, i, keys))
    BY <1>3, ChildrenAre
<1>5. Of(k, Held(n + 1, node)) = Of(k, Held(n, node.children[i]))
    <2>1. HoldsAround(n, node, i)
        BY <1>3, ParentHolds
    <2>2. /\ Held(n, node.children[i]) \subseteq Held(n + 1, node)
          /\ \A x \in Held(n + 1, node) : \/ x \in Shown(node.entries)
                                          \/ x \in Others(n, node.children, i)
                                          \/ x \in Held(n, node.children[i])
        BY <2>1, Zenon DEF HoldsAround
    <2> QED BY <1>1, <2>2, Zenon DEF Of
<1> QED BY <1>2, <1>3, <1>4, <1>5

LEMMA TallerTree ==
    ASSUME NEW keys \in SUBSET TreeKeys, NEW n \in Nat, NEW node \in SearchTrees[n + 1][keys],
           NEW g \in Nat, n <= g
    PROVE  node \in BT!Trees[g + 1]
<1>1. node \in BT!Trees[n + 1] /\ n + 1 \in Nat /\ g + 1 \in Nat /\ n + 1 <= g + 1
    BY SearchTreeIs
<1> QED BY <1>1, TreesGrow

LEMMA LevelBelow ==
    ASSUME NEW k, NEW v, NEW g \in Nat
    PROVE  /\ Searching(k)[g + 1] = SearchOf(BT!Trees[g + 1], k, Searching(k)[g])
           /\ Updating(k, v)[g + 1] = UpdatedOf(BT!Trees[g + 1], k, v, Updating(k, v)[g])
           /\ Inserting(k, v)[g + 1] = InsertedOf(BT!Trees[g + 1], k, v, Inserting(k, v)[g])
<1> DEFINE m == g + 1
<1>1. m \in Nat /\ m - 1 = g
    OBVIOUS
<1> HIDE DEF m
<1>2. /\ Searching(k)[m] = SearchOf(BT!Trees[m], k, Searching(k)[m - 1])
      /\ Updating(k, v)[m] = UpdatedOf(BT!Trees[m], k, v, Updating(k, v)[m - 1])
      /\ Inserting(k, v)[m] = InsertedOf(BT!Trees[m], k, v, Inserting(k, v)[m - 1])
    BY <1>1, OperationsByLevel
<1>3. /\ Searching(k)[m] = SearchOf(BT!Trees[m], k, Searching(k)[g])
      /\ Updating(k, v)[m] = UpdatedOf(BT!Trees[m], k, v, Updating(k, v)[g])
      /\ Inserting(k, v)[m] = InsertedOf(BT!Trees[m], k, v, Inserting(k, v)[g])
    BY <1>1, <1>2
<1> QED BY <1>3 DEF m

\* Search finds the value of a key wherever the tree has it
LEMMA SearchIs ==
    ASSUME NEW n \in Nat, NEW keys \in SUBSET TreeKeys, NEW node \in SearchTrees[n][keys],
           NEW k \in keys, NEW g \in Nat, n <= g
    PROVE  Searching(k)[g][node] = {x.value : x \in Of(k, Held(n, node))}
<1> DEFINE Good(m, some, x, l) == Searching(k)[l][x] = {y.value : y \in Of(k, Held(m, x))}
           good == {m \in Nat : \A some \in SUBSET TreeKeys : \A x \in SearchTrees[m][some] :
                       \A l \in Nat : k \in some /\ m <= l => Good(m, some, x, l)}
<1>1. 0 \in good
    BY SearchTreesAre
<1>2. ASSUME NEW m \in good
      PROVE  m + 1 \in good
    <2>1. SUFFICES ASSUME NEW some \in SUBSET TreeKeys, NEW x \in SearchTrees[m + 1][some],
                          NEW l \in Nat, k \in some, m + 1 <= l
                   PROVE  Good(m + 1, some, x, l)
        OBVIOUS
    <2> DEFINE h == l - 1
               i == BT!KeyIndex(x, k)
    <2>2. h \in Nat /\ m <= h /\ h + 1 = l /\ m \in Nat
        BY <2>1
    <2>3. x \in BT!Trees[h + 1]
        BY <2>1, <2>2, TallerTree
    <2> HIDE DEF h
    <2>4. Searching(k)[l] = SearchOf(BT!Trees[h + 1], k, Searching(k)[h])
        BY <2>2, LevelBelow
    <2>5. Searching(k)[l][x] = IF BT!HoldsAt(x, i, k) THEN {x.entries[i].value}
                               ELSE IF BT!IsLeaf(x) THEN {}
                               ELSE Searching(k)[h][x.children[i]]
        BY <2>3, <2>4 DEF SearchOf
    <2>9. k \in some /\ m \in Nat /\ x \in SearchTrees[m + 1][some] /\ some \in SUBSET TreeKeys
        BY <2>1, <2>2
    <2>6. CASE BT!HoldsAt(x, i, k)
        <3>1. Of(k, Held(m + 1, x)) = {x.entries[i]}
            <4> HIDE DEF good
            <4> QED BY <2>6, <2>9, FoundHere
        <3> HIDE DEF i
        <3> QED BY <2>5, <2>6, <3>1
    <2>7. CASE ~BT!HoldsAt(x, i, k) /\ m = 0
        <3>1. Of(k, Held(m + 1, x)) = {}
            BY <2>1, <2>2, <2>7, FoundHere
        <3>2. BT!IsLeaf(x)
            BY <2>1, <2>2, <2>7, ChildrenAre
        <3> HIDE DEF i
        <3> QED BY <2>5, <2>7, <3>1, <3>2
    <2>8. CASE ~BT!HoldsAt(x, i, k) /\ m # 0
        <3> DEFINE part == Between(x.entries, i, some)
                   child == x.children[i]
        <3>1. /\ i \in DOMAIN x.children
              /\ part \in SUBSET TreeKeys /\ k \in part
              /\ Below(child, m, part)
              /\ Of(k, Held(m + 1, x)) = Of(k, Held(m, child))
            <4> HIDE DEF good, Good
            <4>1. m \in Nat \ {0} /\ ~BT!HoldsAt(x, i, k) /\ i = BT!KeyIndex(x, k)
                BY <2>8, <2>9
            <4> HIDE DEF i
            <4>2. i \in DOMAIN x.children
                BY <2>9, <4>1, FoundBelow
            <4>3. part \in SUBSET TreeKeys /\ k \in part
                BY <2>9, <4>1, FoundBelow
            <4>4. Below(child, m, part)
                BY <2>9, <4>1, FoundBelow
            <4>5. Of(k, Held(m + 1, x)) = Of(k, Held(m, child))
                BY <2>9, <4>1, FoundBelow
            <4> QED BY <4>2, <4>3, <4>4, <4>5
        <3>2. ~BT!IsLeaf(x)
            BY <2>1, <2>2, <2>8, ChildrenAre, ZenonT(40)
        <3> HIDE DEF i
        <3>3. child \in SearchTrees[m][part]
            BY <3>1 DEF Below
        <3> HIDE DEF part, child
        <3>4. Good(m, part, child, h)
            BY <2>2, <3>1, <3>3
        <3> QED BY <2>5, <2>8, <3>1, <3>2, <3>4 DEF child
    <2> QED BY <2>6, <2>7, <2>8
<1>3. good = Nat
    <2>1. good \in SUBSET Nat
        OBVIOUS
    <2> HIDE DEF good
    <2> QED BY <1>1, <1>2, <2>1, Induction
<1>4. Good(n, keys, node, g)
    <2> HIDE DEF Good
    <2>1. n \in good
        <3> HIDE DEF good
        <3> QED BY <1>3
    <2> QED BY <2>1
<1> QED BY <1>4

-----------------------------------------------------------------------------
(* B-tree: a node with another child, or with another value *)

\* A node with another tree for its i-th child
HasReplaced(new, n, node, i, c, keys) ==
    /\ new \in SearchTrees[n + 1][keys]
    /\ new.entries = node.entries
    /\ Held(n + 1, new) = Shown(node.entries) \cup Held(n, c) \cup Others(n, node.children, i)

LEMMA ChildReplaced ==
    ASSUME NEW keys \in SUBSET TreeKeys, NEW n \in Nat, NEW node \in SearchTrees[n + 1][keys],
           NEW i \in DOMAIN node.children,
           NEW c, Below(c, n, Between(node.entries, i, keys)),
           NEW replaced, replaced = [node EXCEPT !.children[i] = c]
    PROVE  HasReplaced(replaced, n, node, i, c, keys)
<1> DEFINE children == [node.children EXCEPT ![i] = c]
           new == Node(node.entries, children)
           len == Len(node.entries)
<1>1. /\ node = Node(node.entries, node.children)
      /\ Entered(node.entries, keys)
    BY SearchTreeIs
<1>2. /\ len \in Nat
      /\ n # 0
      /\ DOMAIN node.children = 1..len + 1
      /\ node.children \in Seq({node.children[j] : j \in DOMAIN node.children})
      /\ Len(node.children) = len + 1
      /\ \A j \in DOMAIN node.children :
            Below(node.children[j], n, Between(node.entries, j, keys))
    BY ChildrenAre
<1>3. replaced = new
    BY <1>1 DEF Node
<1> HIDE DEF len
<1>4. \A j \in 1..len + 1 : children[j] = IF j = i THEN c ELSE node.children[j]
    BY <1>2
<1>5. DOMAIN children = 1..len + 1
    BY <1>2
<1>6. /\ children \in Seq({children[j] : j \in DOMAIN children})
      /\ Len(children) = len + 1
    <2> DEFINE T == {node.children[j] : j \in DOMAIN node.children} \cup {c}
               U == {children[j] : j \in DOMAIN children}
    <2>1. node.children \in Seq(T) /\ c \in T
        <3>1. {node.children[j] : j \in DOMAIN node.children} \subseteq T
            OBVIOUS
        <3> HIDE DEF T
        <3> QED BY <1>2, <3>1, SeqMonotonic DEF T
    <2>2. children \in Seq(T) /\ Len(children) = len + 1
        <3> HIDE DEF T
        <3> QED BY <1>2, <2>1, ExceptSeq
    <2> HIDE DEF T, children
    <2>3. \A j \in 1..len + 1 : children[j] \in U
        BY <1>5
    <2> HIDE DEF U
    <2>4. children \in Seq(U)
        BY <1>5, <2>2, <2>3
    <2> QED BY <2>2, <2>4 DEF U
<1> HIDE DEF children
<1>7. \A j \in 1..len + 1 : Below(children[j], n, Between(node.entries, j, keys))
    BY <1>2, <1>4
<1>8. Parented(node.entries, children, n, keys)
    BY <1>2, <1>6, <1>7 DEF Parented, len
<1>9. new \in SearchTrees[n + 1][keys]
    BY <1>1, <1>8, SearchTreeMade
<1>10. new.entries = node.entries /\ new.children = children
    BY DEF Node
<1> HIDE DEF new
<1>11. Held(n + 1, new) = Shown(node.entries) \cup Held(n, children[i])
                             \cup Others(n, children, i)
    <2>1. i \in DOMAIN new.children
        BY <1>2, <1>5, <1>10
    <2>2. HoldsAround(n, new, i)
        BY <1>9, <2>1, ParentHolds
    <2> QED BY <1>10, <2>2 DEF HoldsAround
<1>12. Others(n, children, i) = Others(n, node.children, i)
    BY <1>2, <1>4, <1>5 DEF Others
<1>13. children[i] = c
    BY <1>2, <1>4
<1>14. /\ replaced \in SearchTrees[n + 1][keys]
       /\ replaced.entries = node.entries
       /\ Held(n + 1, replaced) = Shown(node.entries) \cup Held(n, c)
                                    \cup Others(n, node.children, i)
    BY <1>3, <1>9, <1>10, <1>11, <1>12, <1>13
<1> QED BY <1>14 DEF HasReplaced

But(k, held) == {x \in held : x.key # k}

TreeGiven == TreeValues \cup {Tombstone}

LEMMA EntryIs ==
    ASSUME NEW k \in TreeKeys, NEW v \in TreeGiven
    PROVE  /\ BT!Entry(k, v) \in TreeEntries
           /\ BT!Entry(k, v).key = k /\ BT!Entry(k, v).value = v
BY DEF BT!Entry, TreeEntries, TreeGiven

IsUpdated(new, n, node, keys, k, v) ==
    /\ new \in SearchTrees[n][keys]
    /\ Len(new.entries) = Len(node.entries)
    /\ Held(n, new) = But(k, Held(n, node)) \cup {BT!Entry(k, v)}

LEMMA EntryReplaced ==
    ASSUME NEW keys \in SUBSET TreeKeys, NEW n \in Nat, NEW node \in SearchTrees[n + 1][keys],
           NEW k \in keys, NEW v \in TreeGiven,
           NEW i, i = BT!KeyIndex(node, k), BT!HoldsAt(node, i, k),
           NEW replaced, replaced = [node EXCEPT !.entries[i].value = v]
    PROVE  IsUpdated(replaced, n + 1, node, keys, k, v)
<1> DEFINE e == BT!Entry(k, v)
           entries == [node.entries EXCEPT ![i] = e]
           new == Node(entries, node.children)
           len == Len(node.entries)
<1>1. /\ node = Node(node.entries, node.children)
      /\ Entered(node.entries, keys)
      /\ Parented(node.entries, node.children, n, keys)
    BY SearchTreeIs
<1>2. len \in Nat /\ DOMAIN node.entries = 1..len
    BY ChildrenAre
<1>3. i \in 1..len /\ node.entries[i].key = k
    BY <1>2 DEF BT!HoldsAt
<1>4. e \in TreeEntries /\ e.key = k
    BY EntryIs
<1>5. node.entries \in Seq(TreeEntries) /\ node.entries[i] \in TreeEntries
    BY <1>1, <1>3, ElementOfSeq DEF Entered
<1>6. replaced = new
    <2>1. [node.entries[i] EXCEPT !.value = v] = e
        BY <1>3, <1>5 DEF TreeEntries, BT!Entry
    <2>2. [node.entries EXCEPT ![i].value = v] = entries
        <3> HIDE DEF e
        <3> QED BY <1>2, <1>3, <2>1
    <2> HIDE DEF entries
    <2> QED BY <1>1, <2>2 DEF Node
<1>7. /\ entries \in Seq(TreeEntries) /\ Len(entries) = len
      /\ \A j \in 1..len : entries[j] = IF j = i THEN e ELSE node.entries[j]
    <2> HIDE DEF e
    <2> QED BY <1>3, <1>4, <1>5, ExceptSeq
<1>8. DOMAIN entries = 1..len
    <2> HIDE DEF entries
    <2> QED BY <1>7, LenProperties
<1> HIDE DEF e, entries, len
<1>9. \A j \in 1..len : entries[j].key = node.entries[j].key
    BY <1>3, <1>4, <1>7
<1>10. Entered(entries, keys)
    BY <1>1, <1>2, <1>7, <1>8, <1>9 DEF Entered, Ordered, len
<1>11. \A j \in 1..len + 1 : Between(entries, j, keys) = Between(node.entries, j, keys)
    <2>1. \A j \in 1..len + 1 : (j > 1 => j - 1 \in 1..len) /\ (j <= len => j \in 1..len)
        BY <1>2
    <2> QED BY <1>2, <1>7, <1>9, <2>1 DEF Between, len
<1>12. Parented(entries, node.children, n, keys)
    BY <1>1, <1>7, <1>11 DEF Parented, len
<1>13. new \in SearchTrees[n + 1][keys]
    BY <1>10, <1>12, SearchTreeMade
<1>14. new.entries = entries /\ new.children = node.children
    BY DEF Node
<1> HIDE DEF new
<1>15. Held(n + 1, new) = Shown(entries) \cup HeldBelow(n, node.children)
    BY <1>13, <1>14, HeldIs
<1>16. Held(n + 1, node) = Shown(node.entries) \cup HeldBelow(n, node.children)
    BY HeldIs
<1>17. /\ Of(k, HeldBelow(n, node.children)) = {}
       /\ \A j \in DOMAIN node.entries : j # i => node.entries[j].key # k
    BY Elsewhere
<1>18. Shown(entries) = But(k, Shown(node.entries)) \cup {e}
    <2>1. \A x \in Shown(entries) : x \in But(k, Shown(node.entries)) \/ x = e
        BY <1>2, <1>7, <1>8, <1>17 DEF Shown, But
    <2>2. \A x \in But(k, Shown(node.entries)) : x \in Shown(entries)
        BY <1>2, <1>3, <1>7, <1>8 DEF Shown, But
    <2>3. e \in Shown(entries)
        BY <1>3, <1>7, <1>8 DEF Shown
    <2> QED BY <2>1, <2>2, <2>3
<1>19. Held(n + 1, new) = But(k, Held(n + 1, node)) \cup {e}
    BY <1>15, <1>16, <1>17, <1>18 DEF But, Of
<1> QED BY <1>6, <1>7, <1>13, <1>14, <1>19 DEF IsUpdated, e, len

\* Update changes the value of a key that the tree has, and nothing else
LEMMA UpdatedIs ==
    ASSUME NEW n \in Nat, NEW keys \in SUBSET TreeKeys, NEW node \in SearchTrees[n][keys],
           NEW k \in keys, NEW v \in TreeGiven, NEW g \in Nat, n <= g,
           Of(k, Held(n, node)) # {},
           NEW updated, updated = Updating(k, v)[g][node]
    PROVE  IsUpdated(updated, n, node, keys, k, v)
<1> DEFINE Good(m, some, x, new) ==
              /\ new \in SearchTrees[m][some]
              /\ Len(new.entries) = Len(x.entries)
              /\ Held(m, new) = But(k, Held(m, x)) \cup {BT!Entry(k, v)}
           good == {m \in Nat : \A some \in SUBSET TreeKeys : \A x \in SearchTrees[m][some] :
                       \A l \in Nat : k \in some /\ m <= l /\ Of(k, Held(m, x)) # {} =>
                           Good(m, some, x, Updating(k, v)[l][x])}
<1>1. 0 \in good
    BY SearchTreesAre
<1>2. ASSUME NEW m \in good
      PROVE  m + 1 \in good
    <2>1. SUFFICES ASSUME NEW some \in SUBSET TreeKeys, NEW x \in SearchTrees[m + 1][some],
                          NEW l \in Nat, k \in some, m + 1 <= l, Of(k, Held(m + 1, x)) # {}
                   PROVE  Good(m + 1, some, x, Updating(k, v)[l][x])
        OBVIOUS
    <2> DEFINE h == l - 1
               i == BT!KeyIndex(x, k)
    <2>2. h \in Nat /\ m <= h /\ h + 1 = l /\ m \in Nat
        BY <2>1
    <2>3. x \in BT!Trees[h + 1]
        BY <2>1, <2>2, TallerTree
    <2> HIDE DEF h
    <2>4. Updating(k, v)[l] = UpdatedOf(BT!Trees[h + 1], k, v, Updating(k, v)[h])
        BY <2>2, LevelBelow, ZenonT(40)
    <2>5. Updating(k, v)[l][x] = IF BT!HoldsAt(x, i, k) THEN [x EXCEPT !.entries[i].value = v]
                                 ELSE [x EXCEPT !.children[i] = Updating(k, v)[h][@]]
        BY <2>3, <2>4 DEF UpdatedOf
    <2>6. i = BT!KeyIndex(x, k)
        OBVIOUS
    <2>7. k \in some /\ m \in Nat /\ x \in SearchTrees[m + 1][some] /\ some \in SUBSET TreeKeys
        BY <2>1, <2>2
    <2> HIDE DEF i
    <2>8. CASE BT!HoldsAt(x, i, k)
        <3> DEFINE new == [x EXCEPT !.entries[i].value = v]
        <3>1. Good(m + 1, some, x, new)
            <4>1. new = [x EXCEPT !.entries[i].value = v]
                OBVIOUS
            <4> HIDE DEF good, new, Good
            <4>2. IsUpdated(new, m + 1, x, some, k, v)
                BY <2>6, <2>7, <2>8, <4>1, EntryReplaced
            <4> QED BY <4>2 DEF IsUpdated, Good
        <3> HIDE DEF Good, new
        <3>2. Updating(k, v)[l][x] = new
            BY <2>5, <2>8 DEF new
        <3> QED BY <3>1, <3>2
    <2>9. CASE ~BT!HoldsAt(x, i, k)
        <3> DEFINE part == Between(x.entries, i, some)
                   child == x.children[i]
                   c == Updating(k, v)[h][child]
                   new == [x EXCEPT !.children[i] = c]
        <3>0. m # 0
            <4>1. m = 0 => Of(k, Held(m + 1, x)) = {}
                BY <2>6, <2>7, <2>9, FoundHere
            <4> QED BY <2>1, <4>1
        <3>1. m \in Nat \ {0}
            BY <2>7, <3>0
        <3>2. i \in DOMAIN x.children
            BY <2>6, <2>7, <2>9, <3>1, FoundBelow
        <3>3. part \in SUBSET TreeKeys /\ k \in part
            BY <2>6, <2>7, <2>9, <3>1, FoundBelow
        <3>4. Below(child, m, part)
            BY <2>6, <2>7, <2>9, <3>1, FoundBelow
        <3>5. Of(k, Held(m + 1, x)) = Of(k, Held(m, child))
            BY <2>6, <2>7, <2>9, <3>1, FoundBelow, SMTT(40)
        <3>6. /\ c \in SearchTrees[m][part]
              /\ Len(c.entries) = Len(child.entries)
              /\ Held(m, c) = But(k, Held(m, child)) \cup {BT!Entry(k, v)}
            <4>1. child \in SearchTrees[m][part] /\ Of(k, Held(m, child)) # {}
                BY <2>1, <3>4, <3>5 DEF Below
            <4> HIDE DEF part, child
            <4>2. Good(m, part, child, c)
                BY <2>2, <3>3, <4>1
            <4> QED BY <4>2
        <3>7. Below(c, m, part)
            <4> HIDE DEF c, part, child
            <4> QED BY <3>4, <3>6 DEF Below
        <3>8. /\ new \in SearchTrees[m + 1][some]
              /\ new.entries = x.entries
              /\ Held(m + 1, new) = Shown(x.entries) \cup Held(m, c)
                                       \cup Others(m, x.children, i)
            <4>1. Below(c, m, Between(x.entries, i, some))
                BY <3>7
            <4>2. new = [x EXCEPT !.children[i] = c]
                OBVIOUS
            <4> HIDE DEF c, good, part, Good, child, new
            <4>3. HasReplaced(new, m, x, i, c, some)
                BY <2>7, <3>2, <4>1, <4>2, ChildReplaced
            <4> QED BY <4>3 DEF HasReplaced
        <3>9. Held(m + 1, x) = Shown(x.entries) \cup Held(m, child) \cup Others(m, x.children, i)
            <4>1. HoldsAround(m, x, i)
                <5> HIDE DEF good, Good, part, child, c, new
                <5> QED BY <2>7, <3>2, ParentHolds
            <4> QED BY <4>1 DEF HoldsAround
        <3>10. Of(k, Shown(x.entries)) = {} /\ Of(k, Others(m, x.children, i)) = {}
            BY <2>6, <2>7, <2>9, Elsewhere
        <3>11. Updating(k, v)[l][x] = new
            <4> HIDE DEF new
            <4>1. Updating(k, v)[l][x] = [x EXCEPT !.children[i] = Updating(k, v)[h][@]]
                BY <2>5, <2>9
            <4> QED BY <4>1 DEF new
        <3> HIDE DEF new, c, child, part
        <3>12. Held(m + 1, new) = But(k, Held(m + 1, x)) \cup {BT!Entry(k, v)}
            BY <3>6, <3>8, <3>9, <3>10 DEF But, Of
        <3> QED BY <3>8, <3>11, <3>12
    <2> QED BY <2>8, <2>9
<1>3. good = Nat
    <2>1. good \in SUBSET Nat
        OBVIOUS
    <2> HIDE DEF good
    <2> QED BY <1>1, <1>2, <2>1, Induction
<1>4. Good(n, keys, node, Updating(k, v)[g][node])
    <2> HIDE DEF Good
    <2>1. n \in good
        <3> HIDE DEF good
        <3> QED BY <1>3
    <2> QED BY <2>1
<1> QED BY <1>4 DEF IsUpdated

LEMMA OfItsElements ==
    ASSUME NEW S, NEW s \in Seq(S)
    PROVE  /\ s \in Seq(Shown(s))
           /\ Len(s) \in Nat /\ DOMAIN s = 1..Len(s)
           /\ \A i \in DOMAIN s : s[i] \in S
<1>1. Len(s) \in Nat /\ DOMAIN s = 1..Len(s) /\ \A i \in DOMAIN s : s[i] \in S
    BY LenProperties, ElementOfSeq
<1>2. \A i \in 1..Len(s) : s[i] \in Shown(s)
    BY <1>1 DEF Shown
<1> QED BY <1>1, <1>2

\* The keys around a part of the entries, from one position to another
Within(entries, from, upto, keys) ==
    {k \in keys : /\ from > 1 => entries[from - 1].key < k
                  /\ upto < Len(entries) => k < entries[upto + 1].key}

\* Between the entries of a part are the keys that are between them in the whole
SameBetween(part, some, entries, keys, from) ==
    \A j \in 1..Len(part) + 1 : Between(part, j, some) = Between(entries, from + j - 1, keys)

\* A part of a node is a tree of the same height
LEMMA PartEntered ==
    ASSUME NEW keys \in SUBSET TreeKeys, NEW entries, Entered(entries, keys),
           NEW from \in Nat \ {0}, NEW upto \in Nat, upto <= Len(entries), from <= upto + 1
    PROVE  LET part == SubSeq(entries, from, upto)
               some == Within(entries, from, upto, keys)
           IN  /\ Entered(part, some)
               /\ Len(part) = upto - from + 1
               /\ \A j \in 1..Len(part) : part[j] = entries[from + j - 1]
               /\ SameBetween(part, some, entries, keys, from)
<1> DEFINE part == SubSeq(entries, from, upto)
           some == Within(entries, from, upto, keys)
           size1 == upto - from + 1
           len == Len(entries)
<1>1. /\ entries \in Seq(TreeEntries) /\ len \in Nat /\ DOMAIN entries = 1..len
      /\ len <= BT!MaxKeys
      /\ \A i \in 1..len : entries[i].key \in keys
      /\ \A i, j \in 1..len : i < j => entries[i].key < entries[j].key
    BY OfItsElements DEF Entered, Ordered
<1>2. size1 \in Nat /\ \A j \in 1..size1 : from + j - 1 \in 1..len
    BY <1>1
<1>3. /\ part \in Seq(TreeEntries) /\ Len(part) = size1
      /\ \A j \in 1..size1 : part[j] = entries[from + j - 1]
    <2>1. /\ part \in Seq(TreeEntries)
          /\ Len(part) = IF from <= upto THEN upto - from + 1 ELSE 0
          /\ \A j \in 1..size1 : part[j] = entries[from + j - 1]
        BY <1>1, PartIs
    <2> HIDE DEF part
    <2> QED BY <1>2, <2>1
<1>4. DOMAIN part = 1..size1
    <2> HIDE DEF part
    <2> QED BY <1>3, LenProperties
<1>5. \A i \in 1..len : entries[i].key \in Int
    BY <1>1, KeysAreNumbers
<1> HIDE DEF part, len
<1>6. \A j \in 1..size1 : part[j].key \in some
    <2> SUFFICES ASSUME NEW j \in 1..size1
                 PROVE  part[j].key \in some
        OBVIOUS
    <2>1. /\ from + j - 1 \in 1..len
          /\ from > 1 => from - 1 \in 1..len /\ from - 1 < from + j - 1
          /\ upto < len => upto + 1 \in 1..len /\ from + j - 1 < upto + 1
        BY <1>1, <1>2
    <2> QED BY <1>1, <1>3, <2>1 DEF Within, len
<1>7. \A i, j \in 1..size1 : i < j => part[i].key < part[j].key
    <2> SUFFICES ASSUME NEW i \in 1..size1, NEW j \in 1..size1, i < j
                 PROVE  part[i].key < part[j].key
        OBVIOUS
    <2>1. from + i - 1 \in 1..len /\ from + j - 1 \in 1..len
        BY <1>2
    <2>2. from + i - 1 < from + j - 1
        OBVIOUS
    <2> HIDE DEF size1
    <2> QED BY <1>1, <1>3, <2>1, <2>2
<1>8. size1 <= BT!MaxKeys
    BY <1>1, <1>2, BTreeAssumption DEF len, BT!MaxKeys
<1>9. Entered(part, some)
    <2> HIDE DEF some, size1
    <2> QED BY <1>3, <1>4, <1>6, <1>7, <1>8 DEF Entered, Ordered
<1>10. ASSUME NEW j \in 1..size1 + 1
       PROVE  Between(part, j, some) = Between(entries, from + j - 1, keys)
    <2>1. /\ j > 1 => /\ j - 1 \in 1..size1 /\ from + (j - 1) - 1 = from + j - 1 - 1
                      /\ from + j - 1 - 1 \in 1..len /\ from + j - 1 > 1
          /\ ~(j > 1) => j = 1 /\ from + j - 1 = from
          /\ j <= size1 => from + j - 1 \in 1..len /\ from + j - 1 <= len
          /\ ~(j <= size1) => from + j - 1 = upto + 1
          /\ from > 1 => from - 1 \in 1..len
          /\ upto < len => upto + 1 \in 1..len
          /\ from > 1 /\ j > 1 => from - 1 < from + j - 1 - 1
          /\ upto < len /\ j <= size1 => from + j - 1 < upto + 1
        BY <1>1, <1>2, <1>10
    <2>2. ASSUME NEW k \in Between(part, j, some)
          PROVE  k \in Between(entries, from + j - 1, keys)
        <3>1. k \in some /\ k \in keys /\ k \in Int
            BY KeysAreNumbers DEF Between, Within
        <3>2. from + j - 1 > 1 => entries[from + j - 1 - 1].key < k
            <4>1. CASE j > 1
                BY <1>3, <2>1, <4>1 DEF Between
            <4>2. CASE ~(j > 1)
                BY <2>1, <3>1, <4>2 DEF Within
            <4> QED BY <4>1, <4>2
        <3>3. from + j - 1 <= len => k < entries[from + j - 1].key
            <4>1. CASE j <= size1
                <5>1. j \in 1..size1 /\ j <= Len(part)
                    BY <1>3, <4>1
                <5>2. k < part[j].key
                    BY <5>1 DEF Between
                <5> QED BY <1>3, <5>1, <5>2
            <4>2. CASE ~(j <= size1)
                <5>1. from + j - 1 <= len => upto < len
                    BY <1>1, <2>1, <4>2
                <5> QED BY <2>1, <3>1, <4>2, <5>1 DEF Within, len
            <4> QED BY <4>1, <4>2
        <3> QED BY <3>1, <3>2, <3>3 DEF Between, len
    <2>3. ASSUME NEW k \in Between(entries, from + j - 1, keys)
          PROVE  k \in Between(part, j, some)
        <3>1. k \in keys /\ k \in Int
            BY KeysAreNumbers DEF Between
        <3>2. from > 1 => entries[from - 1].key < k
            <4>1. CASE j > 1
                <5>1. from > 1 => entries[from - 1].key < entries[from + j - 1 - 1].key
                    BY <1>1, <2>1, <4>1
                <5>2. entries[from + j - 1 - 1].key < k
                    BY <2>1, <4>1, SMTT(40) DEF Between
                <5> QED BY <1>5, <2>1, <3>1, <4>1, <5>1, <5>2
            <4>2. CASE ~(j > 1)
                BY <2>1, <4>2 DEF Between
            <4> QED BY <4>1, <4>2
        <3>3. upto < len => k < entries[upto + 1].key
            <4>1. CASE j <= size1
                <5>1. upto < len => entries[from + j - 1].key < entries[upto + 1].key
                    BY <1>1, <2>1, <4>1
                <5>2. k < entries[from + j - 1].key
                    BY <2>1, <4>1 DEF Between, len
                <5> QED BY <1>5, <2>1, <3>1, <4>1, <5>1, <5>2
            <4>2. CASE ~(j <= size1)
                <5>1. upto < len => upto + 1 <= len
                    BY <1>1
                <5> QED BY <2>1, <4>2, <5>1 DEF Between, len
            <4> QED BY <4>1, <4>2
        <3>4. k \in some
            BY <3>1, <3>2, <3>3 DEF Within, len
        <3>5. j > 1 => part[j - 1].key < k
            <4>1. SUFFICES ASSUME j > 1
                           PROVE  part[j - 1].key < k
                OBVIOUS
            <4>2. part[j - 1] = entries[from + j - 1 - 1]
                BY <1>3, <2>1, <4>1
            <4> QED BY <2>1, <4>1, <4>2 DEF Between
        <3>6. j <= size1 => k < part[j].key
            <4>1. SUFFICES ASSUME j <= size1
                           PROVE  k < part[j].key
                OBVIOUS
            <4>2. part[j] = entries[from + j - 1]
                BY <1>3, <4>1
            <4> QED BY <2>1, <4>1, <4>2 DEF Between, len
        <3> HIDE DEF some
        <3> QED BY <1>3, <3>4, <3>5, <3>6 DEF Between
    <2> HIDE DEF some
    <2> QED BY <2>2, <2>3
<1>11. \A j \in 1..Len(part) + 1 : Between(part, j, some) = Between(entries, from + j - 1, keys)
    <2> HIDE DEF some, size1
    <2> QED BY <1>3, <1>10
<1> QED BY <1>3, <1>9, <1>11 DEF part, len, SameBetween

HeldInPart(n, node, from, upto) ==
    {node.entries[j] : j \in from..upto}
       \cup UNION {Held(n, node.children[j]) : j \in DOMAIN node.children \cap (from..upto + 1)}

\* A tree with the entries of a node from one position to another
IsPart(part, n, node, from, upto, keys) ==
    /\ part \in SearchTrees[n + 1][Within(node.entries, from, upto, keys)]
    /\ Len(part.entries) = upto - from + 1
    /\ Held(n + 1, part) = HeldInPart(n, node, from, upto)

\* splitChild and the parts it makes
LEMMA PartOfTree ==
    ASSUME NEW keys \in SUBSET TreeKeys, NEW n \in Nat, NEW node \in SearchTrees[n + 1][keys],
           NEW from \in Nat \ {0}, NEW upto \in Nat,
           upto <= Len(node.entries), from <= upto + 1
    PROVE  IsPart(BT!Part(node, from, upto), n, node, from, upto, keys)
<1> DEFINE entries == SubSeq(node.entries, from, upto)
           children == IF BT!IsLeaf(node) THEN <<>> ELSE SubSeq(node.children, from, upto + 1)
           some == Within(node.entries, from, upto, keys)
           part == Node(entries, children)
           size1 == upto - from + 1
           len == Len(node.entries)
<1>1. /\ Entered(node.entries, keys)
      /\ Parented(node.entries, node.children, n, keys)
    BY SearchTreeIs
<1>2. /\ len \in Nat /\ DOMAIN node.entries = 1..len
      /\ BT!IsLeaf(node) <=> n = 0
      /\ n = 0 => DOMAIN node.children = {}
      /\ n # 0 => /\ DOMAIN node.children = 1..len + 1
                  /\ node.children \in Seq({node.children[i] : i \in DOMAIN node.children})
                  /\ Len(node.children) = len + 1
      /\ \A i \in DOMAIN node.children :
            Below(node.children[i], n, Between(node.entries, i, keys))
    BY ChildrenAre
<1>3. BT!Part(node, from, upto) = part
    BY DEF BT!Part, Node
<1>4. /\ Entered(entries, some)
      /\ Len(entries) = size1
      /\ \A j \in 1..size1 : entries[j] = node.entries[from + j - 1]
      /\ \A j \in 1..size1 + 1 :
            Between(entries, j, some) = Between(node.entries, from + j - 1, keys)
    <2>1. Entered(entries, some)
        BY <1>1, PartEntered
    <2>2. Len(entries) = size1
        BY <1>1, PartEntered
    <2>3. \A j \in 1..Len(entries) : entries[j] = node.entries[from + j - 1]
        BY <1>1, PartEntered
    <2>4. \A j \in 1..Len(entries) + 1 :
             Between(entries, j, some) = Between(node.entries, from + j - 1, keys)
        <3>1. SameBetween(entries, some, node.entries, keys, from)
            BY <1>1, PartEntered
        <3> HIDE DEF entries, some
        <3> QED BY <3>1 DEF SameBetween
    <2> HIDE DEF entries, some, size1
    <2> QED BY <2>1, <2>2, <2>3, <2>4
<1>5. size1 \in Nat
    OBVIOUS
<1>6. DOMAIN entries = 1..size1
    <2>1. entries \in Seq(TreeEntries)
        BY <1>4 DEF Entered
    <2> HIDE DEF entries
    <2> QED BY <1>4, <2>1, LenProperties
<1>7. ASSUME n # 0
      PROVE  /\ children \in Seq(Shown(children))
             /\ DOMAIN children = 1..size1 + 1
             /\ Len(children) = size1 + 1
             /\ \A j \in 1..size1 + 1 : children[j] = node.children[from + j - 1]
    <2> DEFINE T == {node.children[i] : i \in DOMAIN node.children}
               m == upto + 1
    <2>1. /\ node.children \in Seq(T) /\ m <= Len(node.children) /\ m \in Nat
          /\ from <= m /\ m - from + 1 = size1 + 1
          /\ children = SubSeq(node.children, from, m)
        BY <1>2, <1>7
    <2> HIDE DEF T, m, children
    <2>2. /\ children \in Seq(T)
          /\ Len(children) = IF from <= m THEN m - from + 1 ELSE 0
          /\ \A i \in 1..m - from + 1 : children[i] = node.children[from + i - 1]
        BY <2>1, PartIs
    <2>3. children \in Seq(Shown(children)) /\ DOMAIN children = 1..Len(children)
        BY <2>2, OfItsElements
    <2> QED BY <2>1, <2>2, <2>3
<1> HIDE DEF entries, children, some, size1, len
<1>8. \A j \in 1..size1 + 1 : from + j - 1 \in 1..len + 1 /\ from + j - 1 \in from..upto + 1
    BY <1>2 DEF size1, len
<1>9. Parented(entries, children, n, some)
    <2>1. CASE n = 0
        BY <1>2, <2>1 DEF Parented, children
    <2>2. CASE n # 0
        <3>1. \A j \in 1..size1 + 1 : Below(children[j], n, Between(entries, j, some))
            BY <1>2, <1>4, <1>7, <1>8, <2>2
        <3> QED BY <1>4, <1>7, <2>2, <3>1 DEF Parented, Shown
    <2> QED BY <2>1, <2>2
<1>10. some \in SUBSET TreeKeys
    BY DEF some, Within
<1>11. part \in SearchTrees[n + 1][some]
    BY <1>4, <1>9, <1>10, SearchTreeMade
<1>12. part.entries = entries /\ part.children = children
    BY DEF Node
<1> HIDE DEF part
<1>13. Held(n + 1, part) = Shown(entries) \cup HeldBelow(n, children)
    BY <1>10, <1>11, <1>12, HeldIs
<1>14. Shown(entries) = {node.entries[j] : j \in from..upto}
    <2>1. \A x \in Shown(entries) : x \in {node.entries[j] : j \in from..upto}
        <3> SUFFICES ASSUME NEW j \in 1..size1
                     PROVE  entries[j] \in {node.entries[i] : i \in from..upto}
            BY <1>6 DEF Shown
        <3>1. from + j - 1 \in from..upto
            BY DEF size1
        <3> QED BY <1>4, <3>1
    <2>2. ASSUME NEW j \in from..upto
          PROVE  node.entries[j] \in Shown(entries)
        <3>1. j - from + 1 \in 1..size1 /\ from + (j - from + 1) - 1 = j
            BY DEF size1
        <3>2. entries[j - from + 1] = node.entries[j]
            BY <1>4, <3>1
        <3> QED BY <1>6, <3>1, <3>2 DEF Shown
    <2> QED BY <2>1, <2>2
<1>15. HeldBelow(n, children)
          = UNION {Held(n, node.children[j]) : j \in DOMAIN node.children \cap (from..upto + 1)}
    <2>1. CASE n = 0
        <3>1. DOMAIN children = {}
            BY <1>2, <2>1 DEF children
        <3> QED BY <1>2, <2>1, <3>1 DEF HeldBelow
    <2>2. CASE n # 0
        <3>1. ASSUME NEW j \in 1..size1 + 1
              PROVE  \E i \in DOMAIN node.children \cap (from..upto + 1) :
                        children[j] = node.children[i]
            BY <1>2, <1>7, <1>8, <2>2
        <3>2. ASSUME NEW i \in DOMAIN node.children \cap (from..upto + 1)
              PROVE  \E j \in 1..size1 + 1 : children[j] = node.children[i]
            <4>1. i - from + 1 \in 1..size1 + 1 /\ from + (i - from + 1) - 1 = i
                BY DEF size1
            <4>2. children[i - from + 1] = node.children[i]
                BY <1>7, <2>2, <4>1
            <4> QED BY <4>1, <4>2
        <3>3. DOMAIN children = 1..size1 + 1
            BY <1>7, <2>2
        <3> QED BY <3>1, <3>2, <3>3, SMTT(40) DEF HeldBelow
    <2> QED BY <2>1, <2>2
<1>16. Len(part.entries) = size1
    BY <1>4, <1>12
<1>17. Held(n + 1, part) = HeldInPart(n, node, from, upto)
    BY <1>13, <1>14, <1>15 DEF HeldInPart
<1> QED BY <1>3, <1>11, <1>16, <1>17 DEF some, size1, IsPart

\* t is s with e put in at position i
Widened(t, s, i, e) ==
    /\ Len(t) = Len(s) + 1
    /\ \A j \in 1..Len(s) + 1 : t[j] = IF j < i THEN s[j] ELSE IF j = i THEN e ELSE s[j - 1]

LEMMA InsertAtWidens ==
    ASSUME NEW S, NEW s \in Seq(S), NEW i \in 1..Len(s) + 1, NEW e \in S
    PROVE  /\ BT!InsertAt(s, i, e) \in Seq(S)
           /\ Widened(BT!InsertAt(s, i, e), s, i, e)
           /\ Shown(BT!InsertAt(s, i, e)) = Shown(s) \cup {e}
<1> DEFINE t == BT!InsertAt(s, i, e)
           len == Len(s)
<1>1. t \in Seq(S)
    BY InsertedAt
<1>2. /\ Len(t) = len + 1
      /\ \A j \in 1..i - 1 : t[j] = s[j]
      /\ t[i] = e
      /\ \A j \in i + 1..len + 1 : t[j] = s[j - 1]
    BY InsertedAt, SMTT(40)
<1>3. len \in Nat /\ DOMAIN s = 1..len /\ DOMAIN t = 1..len + 1
    <2> HIDE DEF t
    <2> QED BY <1>1, <1>2, LenProperties
<1> HIDE DEF t
<1>4. ASSUME NEW j \in 1..len + 1
      PROVE  t[j] = IF j < i THEN s[j] ELSE IF j = i THEN e ELSE s[j - 1]
    <2>1. /\ j < i => j \in 1..i - 1
          /\ ~(j < i) /\ j # i => j \in i + 1..len + 1
        BY <1>3
    <2> QED BY <1>2, <2>1
<1>5. Shown(t) = Shown(s) \cup {e}
    <2>1. ASSUME NEW j \in 1..len + 1
          PROVE  t[j] \in Shown(s) \cup {e}
        <3>1. /\ j < i => j \in 1..len
              /\ ~(j < i) /\ j # i => j - 1 \in 1..len
            BY <1>3
        <3> QED BY <1>3, <1>4, <3>1 DEF Shown
    <2>2. ASSUME NEW j \in 1..len
          PROVE  s[j] \in Shown(t)
        <3>1. /\ j < i => j \in 1..len + 1 /\ t[j] = s[j]
              /\ ~(j < i) => /\ j + 1 \in 1..len + 1 /\ ~(j + 1 < i) /\ j + 1 # i
                             /\ j + 1 - 1 = j
            BY <1>3, <1>4
        <3>2. ~(j < i) => t[j + 1] = s[j]
            BY <1>4, <3>1
        <3> QED BY <1>3, <3>1, <3>2 DEF Shown
    <2>3. e \in Shown(t)
        BY <1>2, <1>3 DEF Shown
    <2> QED BY <1>3, <2>1, <2>2, <2>3 DEF Shown
<1> QED BY <1>1, <1>2, <1>4, <1>5 DEF t, len, Widened

\* The keys between the entries, after e was put in at position i
Parting(wide, entries, i, e, keys) ==
    \A j \in 1..Len(entries) + 2 :
        Between(wide, j, keys) =
            IF j < i THEN Between(entries, j, keys)
            ELSE IF j = i THEN {k \in Between(entries, i, keys) : k < e.key}
            ELSE IF j = i + 1 THEN {k \in Between(entries, i, keys) : e.key < k}
            ELSE Between(entries, j - 1, keys)

LEMMA EntryAdded ==
    ASSUME NEW keys \in SUBSET TreeKeys, NEW entries, Entered(entries, keys),
           Len(entries) < BT!MaxKeys,
           NEW i \in 1..Len(entries) + 1,
           NEW e \in TreeEntries, e.key \in Between(entries, i, keys)
    PROVE  /\ Entered(BT!InsertAt(entries, i, e), keys)
           /\ Widened(BT!InsertAt(entries, i, e), entries, i, e)
           /\ Parting(BT!InsertAt(entries, i, e), entries, i, e, keys)
           /\ Shown(BT!InsertAt(entries, i, e)) = Shown(entries) \cup {e}
<1> DEFINE wide == BT!InsertAt(entries, i, e)
           len == Len(entries)
<1>1. /\ entries \in Seq(TreeEntries) /\ len \in Nat /\ DOMAIN entries = 1..len
      /\ \A j \in 1..len : entries[j].key \in keys
      /\ \A j, l \in 1..len : j < l => entries[j].key < entries[l].key
    BY OfItsElements DEF Entered, Ordered
<1>2. /\ wide \in Seq(TreeEntries)
      /\ Widened(wide, entries, i, e)
      /\ Shown(wide) = Shown(entries) \cup {e}
    BY <1>1, InsertAtWidens
<1> HIDE DEF wide
<1>3. /\ Len(wide) = len + 1
      /\ \A j \in 1..len + 1 :
            wide[j] = IF j < i THEN entries[j] ELSE IF j = i THEN e ELSE entries[j - 1]
    BY <1>2 DEF Widened
<1>4. DOMAIN wide = 1..len + 1
    BY <1>1, <1>2, <1>3, LenProperties
<1>5. /\ e.key \in keys /\ e.key \in Int
      /\ i > 1 => entries[i - 1].key < e.key
      /\ i <= len => e.key < entries[i].key
    BY KeysAreNumbers DEF Between
<1>6. \A j \in 1..len : entries[j].key \in Int
    BY <1>1, KeysAreNumbers
<1> HIDE DEF len
<1>7. \A j \in 1..len : /\ j < i => entries[j].key < e.key
                        /\ i <= j => e.key < entries[j].key
    <2> SUFFICES ASSUME NEW j \in 1..len
                 PROVE  /\ j < i => entries[j].key < e.key
                        /\ i <= j => e.key < entries[j].key
        OBVIOUS
    <2>1. j < i => entries[j].key < e.key
        <3>1. SUFFICES ASSUME j < i
                       PROVE  entries[j].key < e.key
            OBVIOUS
        <3>2. i > 1 /\ i - 1 \in 1..len /\ (j < i - 1 \/ j = i - 1)
            BY <1>1, <3>1 DEF len
        <3>3. entries[j].key < entries[i - 1].key \/ entries[j].key = entries[i - 1].key
            BY <1>1, <3>2
        <3> QED BY <1>5, <1>6, <3>2, <3>3
    <2>2. i <= j => e.key < entries[j].key
        <3>1. SUFFICES ASSUME i <= j
                       PROVE  e.key < entries[j].key
            OBVIOUS
        <3>2. i <= len /\ i \in 1..len /\ (i < j \/ j = i)
            BY <1>1, <3>1
        <3>3. entries[i].key < entries[j].key \/ entries[j].key = entries[i].key
            BY <1>1, <3>2
        <3> QED BY <1>5, <1>6, <3>2, <3>3
    <2> QED BY <2>1, <2>2
<1>8. \A j \in 1..len + 1 : wide[j].key \in keys
    <2> SUFFICES ASSUME NEW j \in 1..len + 1
                 PROVE  wide[j].key \in keys
        OBVIOUS
    <2>1. /\ j < i => j \in 1..len
          /\ ~(j < i) /\ j # i => j - 1 \in 1..len
        BY <1>1 DEF len
    <2> QED BY <1>1, <1>3, <1>5, <2>1
<1>9. \A j, l \in 1..len + 1 : j < l => wide[j].key < wide[l].key
    <2> SUFFICES ASSUME NEW j \in 1..len + 1, NEW l \in 1..len + 1, j < l
                 PROVE  wide[j].key < wide[l].key
        OBVIOUS
    <2>1. CASE l < i
        <3>1. j \in 1..len /\ l \in 1..len /\ j < i
            BY <1>1, <2>1 DEF len
        <3>2. wide[j] = entries[j] /\ wide[l] = entries[l]
            BY <1>3, <2>1, <3>1
        <3> QED BY <1>1, <3>1, <3>2
    <2>2. CASE l = i
        <3>1. j \in 1..len /\ j < i
            BY <1>1, <2>2 DEF len
        <3>2. wide[j] = entries[j] /\ wide[l] = e
            BY <1>3, <2>2, <3>1
        <3> QED BY <1>7, <3>1, <3>2
    <2>3. CASE l > i /\ j < i
        <3>1. j \in 1..len /\ l - 1 \in 1..len /\ j < l - 1 /\ ~(l < i) /\ l # i
            BY <1>1, <2>3 DEF len
        <3>2. wide[j] = entries[j] /\ wide[l] = entries[l - 1]
            BY <1>3, <2>3, <3>1
        <3> QED BY <1>1, <3>1, <3>2
    <2>4. CASE l > i /\ j = i
        <3>1. l - 1 \in 1..len /\ i <= l - 1 /\ ~(l < i) /\ l # i
            BY <1>1, <2>4 DEF len
        <3>2. wide[j] = e /\ wide[l] = entries[l - 1]
            BY <1>3, <2>4, <3>1
        <3> QED BY <1>7, <3>1, <3>2
    <2>5. CASE l > i /\ j > i
        <3>1. /\ l - 1 \in 1..len /\ j - 1 \in 1..len /\ j - 1 < l - 1
              /\ ~(l < i) /\ l # i /\ ~(j < i) /\ j # i
            BY <1>1, <2>5 DEF len
        <3>2. wide[j] = entries[j - 1] /\ wide[l] = entries[l - 1]
            BY <1>3, <3>1
        <3> QED BY <1>1, <3>1, <3>2
    <2>6. l \in Int /\ i \in Int /\ j \in Int
        BY <1>1 DEF len
    <2>7. l < i \/ l = i \/ (l > i /\ (j < i \/ j = i \/ j > i))
        BY <2>6
    <2> QED BY <2>1, <2>2, <2>3, <2>4, <2>5, <2>7
<1>10. len + 1 <= BT!MaxKeys
    BY <1>1, BTreeAssumption DEF len, BT!MaxKeys
<1>11. Entered(wide, keys)
    BY <1>2, <1>3, <1>4, <1>8, <1>9, <1>10 DEF Entered, Ordered
<1>12. ASSUME NEW j \in 1..len + 2
       PROVE  Between(wide, j, keys) =
                  IF j < i THEN Between(entries, j, keys)
                  ELSE IF j = i THEN {k \in Between(entries, i, keys) : k < e.key}
                  ELSE IF j = i + 1 THEN {k \in Between(entries, i, keys) : e.key < k}
                  ELSE Between(entries, j - 1, keys)
    <2>1. CASE j < i
        <3>1. /\ j <= len /\ j <= len + 1 /\ j \in 1..len + 1
              /\ j > 1 => j - 1 \in 1..len + 1 /\ j - 1 < i
            BY <1>1, <2>1 DEF len
        <3>2. wide[j] = entries[j] /\ (j > 1 => wide[j - 1] = entries[j - 1])
            BY <1>3, <2>1, <3>1
        <3>3. Between(wide, j, keys) = Between(entries, j, keys)
            BY <1>3, <3>1, <3>2 DEF Between, len
        <3> QED BY <2>1, <3>3
    <2>2. CASE j = i
        <3>1. /\ i \in 1..len + 1 /\ i <= len + 1 /\ ~(i < i)
              /\ i > 1 => i - 1 \in 1..len + 1 /\ i - 1 < i
              /\ i <= len => i \in 1..len
            BY <1>1 DEF len
        <3>2. wide[i] = e /\ (i > 1 => wide[i - 1] = entries[i - 1])
            BY <1>3, <3>1
        <3>3. \A k \in keys : k \in Int
            BY KeysAreNumbers
        <3>4. \A k \in keys : k < e.key => (i <= len => k < entries[i].key)
            BY <1>5, <1>6, <3>1, <3>3
        <3>5. \A k \in Between(wide, i, keys) :
                 k \in Between(entries, i, keys) /\ k < e.key
            BY <1>3, <3>1, <3>2, <3>4 DEF Between, len
        <3>6. \A k \in Between(entries, i, keys) : k < e.key => k \in Between(wide, i, keys)
            BY <1>3, <3>1, <3>2 DEF Between
        <3>7. Between(wide, i, keys) = {k \in Between(entries, i, keys) : k < e.key}
            BY <3>5, <3>6
        <3> QED BY <2>2, <3>1, <3>7
    <2>3. CASE j = i + 1
        <3>1. /\ i \in 1..len + 1 /\ i + 1 > 1 /\ i + 1 - 1 = i /\ ~(i + 1 < i) /\ i + 1 # i
              /\ ~(i < i)
              /\ i + 1 <= len + 1 <=> i <= len
              /\ i <= len => i \in 1..len /\ i + 1 \in 1..len + 1
              /\ i > 1 => i - 1 \in 1..len
            BY <1>1 DEF len
        <3>2. wide[i] = e /\ (i <= len => wide[i + 1] = entries[i])
            BY <1>3, <3>1
        <3>3. \A k \in keys : k \in Int
            BY KeysAreNumbers
        <3>4. \A k \in keys : e.key < k => (i > 1 => entries[i - 1].key < k)
            BY <1>5, <1>6, <3>1, <3>3
        <3>5. \A k \in Between(wide, i + 1, keys) :
                 k \in Between(entries, i, keys) /\ e.key < k
            <4>1. \A k \in Between(wide, i + 1, keys) :
                     k \in keys /\ e.key < k /\ (i <= len => k < entries[i].key)
                BY <1>3, <3>1, <3>2 DEF Between
            <4> QED BY <3>4, <4>1 DEF Between, len
        <3>6. \A k \in Between(entries, i, keys) : e.key < k => k \in Between(wide, i + 1, keys)
            BY <1>3, <3>1, <3>2 DEF Between, len
        <3>7. Between(wide, i + 1, keys) = {k \in Between(entries, i, keys) : e.key < k}
            BY <3>5, <3>6
        <3> QED BY <2>3, <3>1, <3>7
    <2>4. CASE j > i + 1
        <3>1. /\ ~(j < i) /\ j # i /\ j # i + 1
              /\ j > 1 /\ j - 1 > 1 /\ j - 1 \in 1..len + 1 /\ ~(j - 1 < i) /\ j - 1 # i
              /\ j <= len + 1 <=> j - 1 <= len
              /\ j <= len + 1 => j \in 1..len + 1
            BY <1>1, <2>4 DEF len
        <3>2. wide[j - 1] = entries[j - 1 - 1] /\ (j <= len + 1 => wide[j] = entries[j - 1])
            BY <1>3, <3>1
        <3>3. Between(wide, j, keys) = Between(entries, j - 1, keys)
            BY <1>3, <3>1, <3>2 DEF Between, len
        <3> QED BY <3>1, <3>3
    <2>5. j < i \/ j = i \/ j = i + 1 \/ j > i + 1
        BY <1>1 DEF len
    <2> QED BY <2>1, <2>2, <2>3, <2>4, <2>5
<1>13. Parting(wide, entries, i, e, keys)
    BY <1>12 DEF Parting, len
<1> QED BY <1>2, <1>11, <1>13 DEF wide

MiddleOf(len) == len \div 2 + 1

LEMMA MiddleIs ==
    ASSUME NEW len, len = BT!MaxKeys
    PROVE  /\ MiddleOf(len) \in 2..len
           /\ Order > 3 => MiddleOf(len) < len
<1>1. len \in Nat /\ len >= 2 /\ (Order > 3 => len >= 3)
    BY BTreeAssumption DEF BT!MaxKeys
<1>2. len \div 2 \in Nat /\ len \div 2 >= 1 /\ len \div 2 + 1 <= len
    BY <1>1
<1>3. len >= 3 => len \div 2 + 1 < len
    BY <1>1
<1> QED BY <1>1, <1>2, <1>3 DEF MiddleOf

AreHalves(left, right, e, n, child, keys) ==
    /\ e \in TreeEntries /\ e.key \in keys
    /\ Below(left, n + 1, {k \in keys : k < e.key})
    /\ Below(right, n + 1, {k \in keys : e.key < k})
    /\ ~BT!IsFull(left) /\ ~BT!IsFull(right)
    /\ Held(n + 1, child) = {e} \cup Held(n + 1, left) \cup Held(n + 1, right)

\* The halves of a full node are trees that are not full, with the middle entry between them
LEMMA HalvesAre ==
    ASSUME NEW keys \in SUBSET TreeKeys, NEW n \in Nat, NEW child \in SearchTrees[n + 1][keys],
           BT!IsFull(child),
           NEW middle \in 2..Len(child.entries),
           Order > 3 => middle < Len(child.entries),
           NEW e, e = child.entries[middle]
    PROVE  AreHalves(BT!Part(child, 1, middle - 1),
                     BT!Part(child, middle + 1, Len(child.entries)), e, n, child, keys)
<1> DEFINE len == Len(child.entries)
           children == child.children
           left == BT!Part(child, 1, middle - 1)
           right == BT!Part(child, middle + 1, len)
<1>1. Entered(child.entries, keys)
    BY SearchTreeIs
<1>2. /\ len \in Nat /\ DOMAIN child.entries = 1..len
      /\ \A j \in DOMAIN children : j \in 1..len + 1
    BY ChildrenAre
<1>3. len = BT!MaxKeys
    BY DEF BT!IsFull
<1>4. /\ middle \in 1..len /\ middle \in Nat /\ middle - 1 \in Nat \ {0} /\ middle - 1 < len
      /\ Order > 3 => middle < len
    BY <1>2
<1> HIDE DEF len, left, right
<1>5. e \in TreeEntries /\ e.key \in keys
    <2>1. child.entries \in Seq(TreeEntries) /\ Ordered(child.entries, keys)
        BY <1>1 DEF Entered
    <2>2. middle \in DOMAIN child.entries
        BY <1>2, <1>4
    <2> QED BY <2>1, <2>2, ElementOfSeq, <1>2 DEF Ordered, len
<1>6. IsPart(left, n, child, 1, middle - 1, keys)
    <2> DEFINE upto == middle - 1
    <2>1. upto \in Nat /\ upto <= Len(child.entries) /\ 1 <= upto + 1 /\ 1 \in Nat \ {0}
        BY <1>2, <1>4 DEF len
    <2>2. left = BT!Part(child, 1, upto)
        BY DEF left
    <2> HIDE DEF upto
    <2>3. IsPart(left, n, child, 1, upto, keys)
        BY <2>1, <2>2, PartOfTree
    <2> QED BY <2>3 DEF upto
<1>7. IsPart(right, n, child, middle + 1, len, keys)
    <2> DEFINE from == middle + 1
    <2>1. from \in Nat \ {0} /\ len <= Len(child.entries) /\ from <= len + 1
        BY <1>2, <1>4 DEF len
    <2>2. right = BT!Part(child, from, len)
        BY DEF right
    <2> HIDE DEF from
    <2>3. IsPart(right, n, child, from, len, keys)
        BY <1>2, <2>1, <2>2, PartOfTree
    <2> QED BY <2>3 DEF from
<1>8. Within(child.entries, 1, middle - 1, keys) = {k \in keys : k < e.key}
    <2>1. middle - 1 < len /\ middle - 1 + 1 = middle
        BY <1>2, <1>4
    <2> QED BY <2>1 DEF Within, len
<1>9. Within(child.entries, middle + 1, len, keys) = {k \in keys : e.key < k}
    <2>1. middle + 1 > 1 /\ middle + 1 - 1 = middle /\ ~(len < len)
        BY <1>2, <1>4
    <2> QED BY <2>1 DEF Within, len
<1>10. Below(left, n + 1, {k \in keys : k < e.key})
    <2>1. Len(left.entries) = middle - 1 - 1 + 1
        BY <1>6 DEF IsPart
    <2>2. Len(left.entries) >= 1
        BY <1>4, <2>1
    <2>3. left \in SearchTrees[n + 1][{k \in keys : k < e.key}]
        BY <1>6, <1>8 DEF IsPart
    <2> QED BY <2>2, <2>3 DEF Below
<1>11. Below(right, n + 1, {k \in keys : e.key < k})
    <2>1. Len(right.entries) = len - (middle + 1) + 1
        BY <1>7 DEF IsPart
    <2>2. Order > 3 => Len(right.entries) >= 1
        BY <1>2, <1>4, <2>1
    <2>3. right \in SearchTrees[n + 1][{k \in keys : e.key < k}]
        BY <1>7, <1>9 DEF IsPart
    <2> QED BY <2>2, <2>3 DEF Below
<1>12. ~BT!IsFull(left) /\ ~BT!IsFull(right)
    <2>1. Len(left.entries) = middle - 1 - 1 + 1 /\ Len(right.entries) = len - (middle + 1) + 1
        BY <1>6, <1>7 DEF IsPart
    <2>2. Len(left.entries) # len /\ Len(right.entries) # len
        BY <1>2, <1>4, <2>1
    <2> QED BY <1>3, <2>2 DEF BT!IsFull
<1>13. Held(n + 1, child) = Shown(child.entries) \cup HeldBelow(n, children)
    BY HeldIs
<1>14. Shown(child.entries) = {e} \cup {child.entries[j] : j \in 1..middle - 1}
                                  \cup {child.entries[j] : j \in middle + 1..len}
    <2>1. 1..len = {middle} \cup (1..middle - 1) \cup (middle + 1..len)
        BY <1>2, <1>4
    <2> QED BY <1>2, <2>1 DEF Shown
<1>15. DOMAIN children = (DOMAIN children \cap (1..middle - 1 + 1))
                            \cup (DOMAIN children \cap (middle + 1..len + 1))
    <2>1. \A j \in 1..len + 1 : j \in 1..middle - 1 + 1 \/ j \in middle + 1..len + 1
        BY <1>2, <1>4
    <2> QED BY <1>2, <2>1
<1>16. Held(n + 1, child) = {e} \cup Held(n + 1, left) \cup Held(n + 1, right)
    <2> DEFINE low == DOMAIN children \cap (1..middle - 1 + 1)
               high == DOMAIN children \cap (middle + 1..len + 1)
               H(J) == UNION {Held(n, children[j]) : j \in J}
               lower == {child.entries[j] : j \in 1..middle - 1}
               higher == {child.entries[j] : j \in middle + 1..len}
    <2>1. Held(n + 1, left) = lower \cup H(low)
        BY <1>6 DEF IsPart, HeldInPart
    <2>2. Held(n + 1, right) = higher \cup H(high)
        BY <1>7 DEF IsPart, HeldInPart
    <2>3. Shown(child.entries) = {e} \cup lower \cup higher
        BY <1>14
    <2>4. HeldBelow(n, children) = H(DOMAIN children)
        BY DEF HeldBelow
    <2>5. DOMAIN children = low \cup high
        BY <1>15
    <2> HIDE DEF low, high, children, lower, higher
    <2>6. H(low \cup high) = H(low) \cup H(high)
        OBVIOUS
    <2> HIDE DEF H
    <2>7. HeldBelow(n, children) = H(low) \cup H(high)
        BY <2>4, <2>5, <2>6
    <2> QED BY <1>13, <2>1, <2>2, <2>3, <2>7
<1> QED BY <1>5, <1>10, <1>11, <1>12, <1>16 DEF left, right, len, AreHalves

IsSplit(new, i, n, parent, keys) ==
    /\ new \in SearchTrees[n + 1][keys]
    /\ Len(new.entries) = Len(parent.entries) + 1
    /\ Held(n + 1, new) = Held(n + 1, parent)
    /\ i \in DOMAIN new.entries
    /\ i \in DOMAIN new.children /\ i + 1 \in DOMAIN new.children
    /\ ~BT!IsFull(new.children[i]) /\ ~BT!IsFull(new.children[i + 1])
    /\ Between(new.entries, i, keys)
          = {k \in Between(parent.entries, i, keys) : k < new.entries[i].key}
    /\ Between(new.entries, i + 1, keys)
          = {k \in Between(parent.entries, i, keys) : new.entries[i].key < k}

\* splitChild: the entries stay the same, and neither half is full
LEMMA SplitIs ==
    ASSUME NEW keys \in SUBSET TreeKeys, NEW m \in Nat, NEW n, n = m + 1,
           NEW parent \in SearchTrees[n + 1][keys],
           Len(parent.entries) < BT!MaxKeys,
           NEW i \in DOMAIN parent.children, BT!IsFull(parent.children[i]),
           NEW new, new = BT!Split(parent, i)
    PROVE  IsSplit(new, i, n, parent, keys)
<1> DEFINE some == Between(parent.entries, i, keys)
           child == parent.children[i]
           middle == MiddleOf(Len(child.entries))
           e == child.entries[middle]
           left == BT!Part(child, 1, middle - 1)
           right == BT!Part(child, middle + 1, Len(child.entries))
           wide == BT!InsertAt(parent.entries, i, e)
           replaced == BT!ReplaceAt(parent.children, i, left)
           children == BT!InsertAt(replaced, i + 1, right)
           len == Len(parent.entries)
<1>1. new = Node(wide, children)
    <2>1. new = BT!WithHalves(parent, i, e, left, right)
        BY DEF BT!Split, MiddleOf
    <2> HIDE DEF e, left, right
    <2> QED BY <2>1 DEF BT!WithHalves, Node
<1>2. /\ Entered(parent.entries, keys)
      /\ parent = Node(parent.entries, parent.children)
    <2>1. n \in Nat
        OBVIOUS
    <2> QED BY <2>1, SearchTreeIs
<1>3. n \in Nat /\ n # 0
    OBVIOUS
<1>4. /\ len \in Nat /\ DOMAIN parent.entries = 1..len
      /\ DOMAIN parent.children = 1..len + 1
      /\ parent.children \in Seq({parent.children[j] : j \in DOMAIN parent.children})
      /\ Len(parent.children) = len + 1
    BY <1>3, ChildrenAre
<1>5. some \in SUBSET TreeKeys /\ Below(child, n, some)
    BY <1>3, ChildrenAre
<1>5a. \A j \in DOMAIN parent.children :
          Below(parent.children[j], n, Between(parent.entries, j, keys))
    BY <1>3, ChildrenAre
<1> HIDE DEF len, some, child
<1>6. child \in SearchTrees[m + 1][some] /\ BT!IsFull(child)
    BY <1>5 DEF Below, child
<1>7. middle \in 2..Len(child.entries) /\ (Order > 3 => middle < Len(child.entries))
    BY <1>6, MiddleIs DEF BT!IsFull
<1> HIDE DEF middle
<1>8. /\ e \in TreeEntries /\ e.key \in some
      /\ Below(left, n, {k \in some : k < e.key})
      /\ Below(right, n, {k \in some : e.key < k})
      /\ ~BT!IsFull(left) /\ ~BT!IsFull(right)
      /\ Held(n, child) = {e} \cup Held(n, left) \cup Held(n, right)
    <2>1. AreHalves(left, right, e, m, child, some)
        BY <1>5, <1>6, <1>7, HalvesAre
    <2> HIDE DEF e, left, right
    <2> QED BY <2>1 DEF AreHalves
<1> HIDE DEF e, left, right
<1>9. i \in 1..len + 1
    BY <1>4
<1>10. /\ Entered(wide, keys)
       /\ Widened(wide, parent.entries, i, e)
       /\ Parting(wide, parent.entries, i, e, keys)
       /\ Shown(wide) = Shown(parent.entries) \cup {e}
    <2> DEFINE P == parent.entries
    <2>1. Entered(P, keys) /\ i \in 1..Len(P) + 1 /\ Len(P) < BT!MaxKeys
        BY <1>2, <1>9 DEF len
    <2>2. e \in TreeEntries /\ e.key \in Between(P, i, keys)
        BY <1>8 DEF some
    <2>3. wide = BT!InsertAt(P, i, e)
        OBVIOUS
    <2> HIDE DEF P, wide
    <2>4. /\ Entered(wide, keys)
          /\ Widened(wide, P, i, e)
        BY <2>1, <2>2, <2>3, EntryAdded
    <2>5. Parting(wide, P, i, e, keys)
        BY <2>1, <2>2, <2>3, EntryAdded
    <2>6. Shown(wide) = Shown(P) \cup {e}
        <3>1. P \in Seq(TreeEntries)
            BY <2>1 DEF Entered
        <3> QED BY <2>1, <2>2, <2>3, <3>1, InsertAtWidens
    <2> QED BY <2>4, <2>5, <2>6 DEF P
<1> HIDE DEF wide
<1>11. /\ Len(wide) = len + 1 /\ wide[i] = e
       /\ \A j \in 1..len + 2 :
             Between(wide, j, keys) =
                IF j < i THEN Between(parent.entries, j, keys)
                ELSE IF j = i THEN {k \in some : k < e.key}
                ELSE IF j = i + 1 THEN {k \in some : e.key < k}
                ELSE Between(parent.entries, j - 1, keys)
    <2>1. Len(wide) = len + 1 /\ wide[i] = e
        BY <1>4, <1>9, <1>10 DEF Widened, len
    <2> QED BY <1>10, <2>1 DEF Parting, len, some
<1>12. /\ children \in Seq(Shown(children))
       /\ Len(children) = len + 2 /\ DOMAIN children = 1..len + 2
       /\ \A j \in 1..len + 2 :
             children[j] = IF j < i THEN parent.children[j]
                           ELSE IF j = i THEN left
                           ELSE IF j = i + 1 THEN right
                           ELSE parent.children[j - 1]
    <2> DEFINE T == Shown(parent.children) \cup {left, right}
    <2>1. parent.children \in Seq(T)
        <3>1. Shown(parent.children) \subseteq T
            OBVIOUS
        <3>2. parent.children \in Seq(Shown(parent.children))
            BY <1>4 DEF Shown
        <3> HIDE DEF T
        <3> QED BY <3>1, <3>2
    <2>2. left \in T /\ right \in T
        OBVIOUS
    <2> HIDE DEF T
    <2>3. replaced \in Seq(T) /\ Len(replaced) = len + 1
          /\ \A j \in 1..len + 1 : replaced[j] = IF j = i THEN left ELSE parent.children[j]
        <3>1. replaced = [parent.children EXCEPT ![i] = left]
            BY DEF BT!ReplaceAt
        <3> HIDE DEF replaced
        <3> QED BY <1>4, <1>9, <2>1, <2>2, <3>1, ExceptSeq
    <2> HIDE DEF replaced
    <2>4. i + 1 \in 1..Len(replaced) + 1
        BY <1>4, <1>9, <2>3
    <2>5. children \in Seq(T) /\ Widened(children, replaced, i + 1, right)
        BY <2>2, <2>3, <2>4, InsertAtWidens
    <2> HIDE DEF children
    <2>6. /\ children \in Seq(Shown(children))
          /\ Len(children) = len + 2 /\ DOMAIN children = 1..len + 2
        BY <1>4, <2>3, <2>5, OfItsElements DEF Widened
    <2>7. ASSUME NEW j \in 1..len + 2
          PROVE  children[j] = IF j < i THEN parent.children[j]
                               ELSE IF j = i THEN left
                               ELSE IF j = i + 1 THEN right
                               ELSE parent.children[j - 1]
        <3>1. children[j] = IF j < i + 1 THEN replaced[j] ELSE IF j = i + 1 THEN right
                            ELSE replaced[j - 1]
            <4>1. j \in 1..Len(replaced) + 1
                BY <1>4, <2>3
            <4> QED BY <2>5, <4>1 DEF Widened
        <3>2. /\ j < i => j < i + 1 /\ j \in 1..len + 1 /\ j # i
              /\ j = i => j < i + 1 /\ j \in 1..len + 1
              /\ ~(j < i) /\ j # i => ~(j < i + 1)
              /\ ~(j < i) /\ j # i /\ j # i + 1 => j - 1 \in 1..len + 1 /\ j - 1 # i
            BY <1>4, <1>9
        <3> QED BY <2>3, <3>1, <3>2
    <2> QED BY <2>6, <2>7
<1> HIDE DEF children
<1>13. ASSUME NEW j \in 1..len + 2
       PROVE  Below(children[j], n, Between(wide, j, keys))
    <2>1. /\ j < i => j \in 1..len + 1
          /\ ~(j < i) /\ j # i /\ j # i + 1 => j - 1 \in 1..len + 1
          /\ i + 1 # i /\ ~(i + 1 < i) /\ ~(i < i)
        BY <1>4, <1>9, SMTT(40)
    <2>2. CASE j < i
        BY <1>4, <1>5a, <1>11, <1>12, <2>1, <2>2
    <2>3. CASE j = i
        BY <1>8, <1>11, <1>12, <2>1, <2>3
    <2>4. CASE j = i + 1
        BY <1>8, <1>11, <1>12, <2>1, <2>4
    <2>5. CASE ~(j < i) /\ j # i /\ j # i + 1
        BY <1>4, <1>5a, <1>11, <1>12, <2>1, <2>5
    <2> QED BY <2>2, <2>3, <2>4, <2>5
<1>14. Parented(wide, children, n, keys)
    <2>1. len + 1 + 1 = len + 2
        BY <1>4
    <2> QED BY <1>3, <1>11, <1>12, <1>13, <2>1 DEF Parented, Shown
<1>15. new \in SearchTrees[n + 1][keys]
    BY <1>1, <1>3, <1>10, <1>14, SearchTreeMade
<1>16. new.entries = wide /\ new.children = children
    BY <1>1 DEF Node
<1>17. Held(n + 1, new) = Shown(wide) \cup HeldBelow(n, children)
    BY <1>3, <1>15, <1>16, HeldIs
<1>18. Held(n + 1, parent) = Shown(parent.entries) \cup Held(n, child)
                                \cup Others(n, parent.children, i)
    BY <1>3, ParentHolds DEF child, HoldsAround
<1>19. HeldBelow(n, children)
          = Held(n, left) \cup Held(n, right) \cup Others(n, parent.children, i)
    <2>1. /\ i \in 1..len + 2 /\ i + 1 \in 1..len + 2 /\ ~(i < i)
          /\ ~(i + 1 < i) /\ i + 1 # i
        BY <1>4, <1>9
    <2>2. children[i] = left /\ children[i + 1] = right
        BY <1>12, <2>1
    <2>3. ASSUME NEW j \in DOMAIN parent.children, j # i
          PROVE  \E l \in DOMAIN children : children[l] = parent.children[j]
        <3>1. CASE j < i
            <4>1. j \in 1..len + 2
                BY <1>4
            <4> QED BY <1>12, <3>1, <4>1
        <3>2. CASE ~(j < i)
            <4>0. j \in 1..len + 1 /\ j # i
                BY <1>4, <2>3
            <4> DEFINE l == j + 1
            <4>2. l \in 1..len + 2 /\ ~(l < i) /\ l # i /\ l # i + 1 /\ l - 1 = j
                BY <1>4, <1>9, <3>2, <4>0, SMTT(40)
            <4> HIDE DEF l
            <4>3. children[l] = parent.children[l - 1]
                BY <1>12, <4>2
            <4> QED BY <1>12, <4>2, <4>3
        <3> QED BY <3>1, <3>2
    <2>4. ASSUME NEW l \in DOMAIN children, l # i, l # i + 1
          PROVE  \E j \in DOMAIN parent.children \ {i} : children[l] = parent.children[j]
        <3>1. CASE l < i
            <4>1. l \in 1..len + 1
                BY <1>4, <1>9, <1>12, <3>1
            <4>2. children[l] = parent.children[l]
                BY <1>12, <3>1
            <4> QED BY <1>4, <2>4, <4>1, <4>2
        <3>2. CASE ~(l < i)
            <4>1. l - 1 \in 1..len + 1 /\ l - 1 # i
                BY <1>4, <1>9, <1>12, <2>4, <3>2, SMTT(40)
            <4>2. children[l] = parent.children[l - 1]
                BY <1>12, <2>4, <3>2
            <4> QED BY <1>4, <4>1, <4>2
        <3> QED BY <3>1, <3>2
    <2>5. \A x : x \in HeldBelow(n, children)
                    => x \in Held(n, left) \cup Held(n, right) \cup Others(n, parent.children, i)
        BY <2>2, <2>4 DEF HeldBelow, Others
    <2>6. \A x : x \in Held(n, left) \cup Held(n, right) \cup Others(n, parent.children, i)
                    => x \in HeldBelow(n, children)
        BY <1>12, <2>1, <2>2, <2>3 DEF HeldBelow, Others
    <2> QED BY <2>5, <2>6
<1>20. Held(n + 1, new) = Held(n + 1, parent)
    BY <1>8, <1>10, <1>17, <1>18, <1>19
<1>21. /\ i \in 1..len + 1 /\ i \in 1..len + 2 /\ i + 1 \in 1..len + 2
       /\ ~(i < i) /\ ~(i + 1 < i) /\ i + 1 # i
    BY <1>4, <1>9
<1>22. DOMAIN wide = 1..len + 1
    <2>1. wide \in Seq(TreeEntries)
        BY <1>10 DEF Entered
    <2> QED BY <1>11, <2>1, LenProperties
<1>23. ~BT!IsFull(new.children[i]) /\ ~BT!IsFull(new.children[i + 1])
    <2>1. children[i] = left /\ children[i + 1] = right
        BY <1>12, <1>21
    <2> QED BY <1>8, <1>16, <2>1
<1>24. /\ Between(wide, i, keys) = {k \in some : k < wide[i].key}
       /\ Between(wide, i + 1, keys) = {k \in some : wide[i].key < k}
    BY <1>11, <1>21
<1> QED BY <1>11, <1>12, <1>15, <1>16, <1>20, <1>21, <1>22, <1>23, <1>24
       DEF len, some, IsSplit

\* A full root gets a parent
LEMMA GrownIs ==
    ASSUME NEW n \in Nat \ {0}, head \in SearchTrees[n][TreeKeys], Len(head.entries) >= 1
    PROVE  /\ BT!Grown \in SearchTrees[n + 1][TreeKeys]
           /\ Len(BT!Grown.entries) = 0
           /\ BT!Grown.children[1] = head /\ 1 \in DOMAIN BT!Grown.children
           /\ Held(n + 1, BT!Grown) = Held(n, head)
<1> DEFINE none == <<>>
           one == <<head>>
<1>1. BT!Grown = Node(none, one)
    BY DEF BT!Grown, Node
<1>2. none \in Seq(TreeEntries) /\ Len(none) = 0 /\ DOMAIN none = {}
    OBVIOUS
<1>3. /\ one \in Seq({head}) /\ Len(one) = 1 /\ DOMAIN one = {1} /\ one[1] = head
      /\ {one[i] : i \in DOMAIN one} = {head}
    OBVIOUS
<1> HIDE DEF none, one
<1>4. Entered(none, TreeKeys)
    <2>1. 0 <= BT!MaxKeys
        BY BTreeAssumption DEF BT!MaxKeys
    <2> QED BY <1>2, <2>1 DEF Entered, Ordered
<1>5. \A i : Between(none, 1, TreeKeys) = TreeKeys
    BY <1>2 DEF Between
<1>6. Parented(none, one, n, TreeKeys)
    <2>1. Below(one[1], n, Between(none, 1, TreeKeys))
        BY <1>3, <1>5 DEF Below
    <2>2. \A i \in 1..0 + 1 : i = 1
        OBVIOUS
    <2> QED BY <1>2, <1>3, <2>1, <2>2 DEF Parented
<1>7. Node(none, one) \in SearchTrees[n + 1][TreeKeys]
    BY <1>4, <1>6, SearchTreeMade
<1>8. Node(none, one).entries = none /\ Node(none, one).children = one
    BY DEF Node
<1>9. Held(n + 1, Node(none, one)) = Shown(none) \cup HeldBelow(n, one)
    BY <1>7, <1>8, HeldIs
<1>10. Shown(none) = {} /\ HeldBelow(n, one) = Held(n, head)
    BY <1>2, <1>3 DEF Shown, HeldBelow
<1> QED BY <1>1, <1>2, <1>3, <1>7, <1>8, <1>9, <1>10

\* A leaf with another entry
LEMMA LeafWithEntry ==
    ASSUME NEW keys \in SUBSET TreeKeys, NEW node \in SearchTrees[1][keys],
           NEW k \in keys, NEW v \in TreeGiven,
           Len(node.entries) < BT!MaxKeys, Of(k, Held(1, node)) = {},
           NEW new, new = BT!Leaf(BT!InsertAt(node.entries, BT!KeyIndex(node, k), BT!Entry(k, v)))
    PROVE  /\ new \in SearchTrees[1][keys]
           /\ Len(new.entries) = Len(node.entries) + 1
           /\ Held(1, new) = Held(1, node) \cup {BT!Entry(k, v)}
<1> DEFINE zero == 0
           i == BT!KeyIndex(node, k)
           e == BT!Entry(k, v)
           wide == BT!InsertAt(node.entries, i, e)
           len == Len(node.entries)
<1>1. zero \in Nat /\ zero + 1 = 1 /\ zero = 0
    OBVIOUS
<1> HIDE DEF zero
<1>2. node \in SearchTrees[zero + 1][keys]
    BY <1>1
<1>3. Entered(node.entries, keys)
    BY <1>1, <1>2, SearchTreeIs
<1>4. len \in Nat /\ node.children = <<>>
    BY <1>1, <1>2, ChildrenAre
<1>5. ~BT!HoldsAt(node, i, k)
    <2>1. BT!HoldsAt(node, i, k) => Of(k, Held(zero + 1, node)) = {node.entries[i]}
        BY <1>1, <1>2, FoundHere
    <2> QED BY <1>1, <2>1
<1>6. i \in 1..len + 1 /\ k \in Between(node.entries, i, keys)
    BY <1>1, <1>2, <1>5, WayDown
<1>7. e \in TreeEntries /\ e.key = k
    BY EntryIs
<1> HIDE DEF i, e
<1>8. Entered(wide, keys) /\ Widened(wide, node.entries, i, e)
    <2>1. Entered(BT!InsertAt(node.entries, i, e), keys)
        BY <1>3, <1>6, <1>7, EntryAdded
    <2>2. Widened(BT!InsertAt(node.entries, i, e), node.entries, i, e)
        BY <1>3, <1>6, <1>7, EntryAdded
    <2> QED BY <2>1, <2>2
<1>9. Shown(wide) = Shown(node.entries) \cup {e}
    <2>1. node.entries \in Seq(TreeEntries)
        BY <1>3 DEF Entered
    <2> QED BY <1>6, <1>7, <2>1, InsertAtWidens
<1>10. new = Node(wide, <<>>)
    BY DEF BT!Leaf, Node, i, e
<1> HIDE DEF wide
<1>11. new \in SearchTrees[zero + 1][keys]
    BY <1>1, <1>8, <1>10, SearchTreeMade DEF Parented
<1>12. new.entries = wide /\ new.children = <<>>
    BY <1>10 DEF Node
<1>13. /\ Held(zero + 1, new) = Shown(wide) \cup HeldBelow(zero, new.children)
       /\ Held(zero + 1, node) = Shown(node.entries) \cup HeldBelow(zero, node.children)
    BY <1>1, <1>2, <1>11, <1>12, HeldIs
<1>14. Held(zero + 1, new) = Held(zero + 1, node) \cup {e}
    BY <1>4, <1>9, <1>12, <1>13
<1>15. Len(new.entries) = len + 1
    BY <1>8, <1>12 DEF Widened
<1> QED BY <1>1, <1>11, <1>14, <1>15 DEF e

\* The node to go on in, after a split if there is one, and which of its children
IsReady(split, down, n, x, k, keys) ==
    /\ split \in SearchTrees[n + 1][keys]
    /\ Len(split.entries) >= Len(x.entries)
    /\ Held(n + 1, split) = Held(n + 1, x)
    /\ down \in DOMAIN split.children
    /\ k \in Between(split.entries, down, keys)
    /\ ~BT!IsFull(split.children[down])

LEMMA ReadyIs ==
    ASSUME NEW keys \in SUBSET TreeKeys, NEW n \in Nat \ {0}, NEW x \in SearchTrees[n + 1][keys],
           NEW k \in keys, Len(x.entries) < BT!MaxKeys, Of(k, Held(n + 1, x)) = {},
           NEW i, i = BT!KeyIndex(x, k),
           NEW split, split = IF BT!IsFull(x.children[i]) THEN BT!Split(x, i) ELSE x,
           NEW down, down = IF BT!IsFull(x.children[i]) THEN BT!Half(split, i, k) ELSE i
    PROVE  IsReady(split, down, n, x, k, keys)
<1>1. ~BT!HoldsAt(x, i, k)
    <2>1. BT!HoldsAt(x, i, k) => Of(k, Held(n + 1, x)) = {x.entries[i]}
        BY FoundHere
    <2> QED BY <2>1
<1>2. i \in DOMAIN x.children /\ k \in Between(x.entries, i, keys)
    BY <1>1, FoundBelow
<1>3. Len(x.entries) \in Nat
    BY ChildrenAre
<1>4. CASE ~BT!IsFull(x.children[i])
    BY <1>2, <1>3, <1>4 DEF IsReady
<1>5. CASE BT!IsFull(x.children[i])
    <2> DEFINE m == n - 1
    <2>1. m \in Nat /\ n = m + 1
        OBVIOUS
    <2>2. split = BT!Split(x, i) /\ down = BT!Half(split, i, k)
        BY <1>5
    <2> HIDE DEF m
    <2>3. IsSplit(split, i, n, x, keys)
        BY <1>2, <1>5, <2>1, <2>2, SplitIs
    <2>4. /\ split \in SearchTrees[n + 1][keys]
          /\ Len(split.entries) = Len(x.entries) + 1
          /\ Held(n + 1, split) = Held(n + 1, x)
        BY <2>3 DEF IsSplit
    <2>5. /\ i \in DOMAIN split.entries
          /\ i \in DOMAIN split.children /\ i + 1 \in DOMAIN split.children
          /\ ~BT!IsFull(split.children[i]) /\ ~BT!IsFull(split.children[i + 1])
        BY <2>3 DEF IsSplit
    <2>8. Between(split.entries, i, keys)
             = {l \in Between(x.entries, i, keys) : l < split.entries[i].key}
        BY <2>3 DEF IsSplit
    <2>9. Between(split.entries, i + 1, keys)
             = {l \in Between(x.entries, i, keys) : split.entries[i].key < l}
        BY <2>3 DEF IsSplit
    <2>10. split.entries[i].key # k
        <3>1. Held(n + 1, split) = Shown(split.entries) \cup HeldBelow(n, split.children)
            BY <2>4, HeldIs
        <3>2. split.entries[i] \in Held(n + 1, x)
            BY <2>4, <2>5, <3>1 DEF Shown
        <3> QED BY <3>2 DEF Of
    <2>11. k \in Int /\ split.entries[i].key \in Int
        <3>1. Ordered(split.entries, keys)
            BY <2>4, SearchTreeIs DEF Entered
        <3>2. split.entries[i].key \in keys
            BY <2>5, <3>1 DEF Ordered
        <3> QED BY <3>2, KeysAreNumbers
    <2>12. down = IF k > split.entries[i].key THEN i + 1 ELSE i
        BY <2>2 DEF BT!Half
    <2>13. CASE k > split.entries[i].key
        <3>1. k \in Between(split.entries, i + 1, keys)
            <4>1. split.entries[i].key < k
                BY <2>11, <2>13
            <4> QED BY <1>2, <2>9, <4>1
        <3>2. down = i + 1
            BY <2>12, <2>13
        <3> QED BY <1>3, <2>4, <2>5, <3>1, <3>2 DEF IsReady
    <2>14. CASE ~(k > split.entries[i].key)
        <3>1. k \in Between(split.entries, i, keys)
            <4>1. k < split.entries[i].key
                BY <2>10, <2>11, <2>14
            <4> QED BY <1>2, <2>8, <4>1
        <3>2. down = i
            BY <2>12, <2>14
        <3> QED BY <1>3, <2>4, <2>5, <3>1, <3>2 DEF IsReady
    <2> QED BY <2>13, <2>14
<1> QED BY <1>4, <1>5

IsNode(n, node) == Len(node.entries) \in Nat /\ (BT!IsLeaf(node) <=> n = 0)

LEMMA TreeNodesAre ==
    ASSUME NEW keys \in SUBSET TreeKeys, NEW n \in Nat, NEW node \in SearchTrees[n + 1][keys]
    PROVE  IsNode(n, node)
BY ChildrenAre DEF IsNode

IsInserted(new, n, node, keys, k, v) ==
    /\ new \in SearchTrees[n][keys]
    /\ Len(new.entries) >= Len(node.entries)
    /\ n = 1 => Len(new.entries) >= 1
    /\ Held(n, new) = Held(n, node) \cup {BT!Entry(k, v)}

\* insertNonFull adds the entry to the tree, and loses and repeats none
LEMMA InsertedIs ==
    ASSUME NEW n \in Nat, NEW keys \in SUBSET TreeKeys, NEW node \in SearchTrees[n][keys],
           NEW k \in keys, NEW v \in TreeGiven, NEW g \in Nat, n <= g,
           Of(k, Held(n, node)) = {}, Len(node.entries) < BT!MaxKeys,
           NEW inserted, inserted = Inserting(k, v)[g][node]
    PROVE  IsInserted(inserted, n, node, keys, k, v)
<1> DEFINE Good(m, some, x, new) ==
              /\ new \in SearchTrees[m][some]
              /\ Len(new.entries) >= Len(x.entries)
              /\ m = 1 => Len(new.entries) >= 1
              /\ Held(m, new) = Held(m, x) \cup {BT!Entry(k, v)}
           good == {m \in Nat : \A some \in SUBSET TreeKeys : \A x \in SearchTrees[m][some] :
                       \A l \in Nat : k \in some /\ m <= l /\ Of(k, Held(m, x)) = {}
                                         /\ Len(x.entries) < BT!MaxKeys =>
                           Good(m, some, x, Inserting(k, v)[l][x])}
<1>1. 0 \in good
    BY SearchTreesAre
<1>2. ASSUME NEW m \in good
      PROVE  m + 1 \in good
    <2>1. SUFFICES ASSUME NEW some \in SUBSET TreeKeys, NEW x \in SearchTrees[m + 1][some],
                          NEW l \in Nat, k \in some, m + 1 <= l, Of(k, Held(m + 1, x)) = {},
                          Len(x.entries) < BT!MaxKeys
                   PROVE  Good(m + 1, some, x, Inserting(k, v)[l][x])
        OBVIOUS
    <2> DEFINE h == l - 1
               i == BT!KeyIndex(x, k)
               split == IF BT!IsFull(x.children[i]) THEN BT!Split(x, i) ELSE x
               down == IF BT!IsFull(x.children[i]) THEN BT!Half(split, i, k) ELSE i
               leaf == BT!Leaf(BT!InsertAt(x.entries, i, BT!Entry(k, v)))
    <2>2. h \in Nat /\ m <= h /\ h + 1 = l /\ m \in Nat
        BY <2>1
    <2>3. x \in BT!Trees[h + 1]
        BY <2>1, <2>2, TallerTree
    <2> HIDE DEF h
    <2>4. Inserting(k, v)[l] = InsertedOf(BT!Trees[h + 1], k, v, Inserting(k, v)[h])
        BY <2>2, LevelBelow
    <2>5. Inserting(k, v)[l][x] = IF BT!IsLeaf(x) THEN leaf
                                  ELSE [split EXCEPT !.children[down] = Inserting(k, v)[h][@]]
        BY <2>3, <2>4 DEF InsertedOf
    <2>6. k \in some /\ m \in Nat /\ x \in SearchTrees[m + 1][some] /\ some \in SUBSET TreeKeys
        BY <2>1, <2>2
    <2>7. Len(x.entries) \in Nat /\ (BT!IsLeaf(x) <=> m = 0)
        <3> HIDE DEF good, Good, leaf, split, down, i
        <3>1. IsNode(m, x)
            BY <2>6, TreeNodesAre
        <3> QED BY <3>1 DEF IsNode
    <2>8. CASE m = 0
        <3>1. Inserting(k, v)[l][x] = leaf
            BY <2>5, <2>7, <2>8
        <3>2. x \in SearchTrees[1][some] /\ Of(k, Held(1, x)) = {} /\ m + 1 = 1
            BY <2>1, <2>6, <2>8
        <3> HIDE DEF Good
        <3>3. leaf = BT!Leaf(BT!InsertAt(x.entries, BT!KeyIndex(x, k), BT!Entry(k, v)))
            OBVIOUS
        <3> HIDE DEF leaf, good
        <3>4. leaf \in SearchTrees[1][some]
            BY <2>1, <3>2, <3>3, LeafWithEntry
        <3>5. Len(leaf.entries) = Len(x.entries) + 1
            BY <2>1, <3>2, <3>3, LeafWithEntry
        <3>6. Held(1, leaf) = Held(1, x) \cup {BT!Entry(k, v)}
            BY <2>1, <3>2, <3>3, LeafWithEntry
        <3>7. Len(leaf.entries) >= 1 /\ Len(leaf.entries) >= Len(x.entries)
            BY <2>7, <3>5
        <3>8. Good(1, some, x, leaf)
            BY <3>4, <3>6, <3>7 DEF Good
        <3> QED BY <3>1, <3>2, <3>8
    <2>9. CASE m # 0
        <3>1. IsReady(split, down, m, x, k, some)
            <4>1. m \in Nat \ {0} /\ i = BT!KeyIndex(x, k)
                BY <2>6, <2>9
            <4> HIDE DEF i, good, Good
            <4>2. /\ split = IF BT!IsFull(x.children[i]) THEN BT!Split(x, i) ELSE x
                  /\ down = IF BT!IsFull(x.children[i]) THEN BT!Half(split, i, k) ELSE i
                OBVIOUS
            <4> HIDE DEF split, down
            <4> QED BY <2>1, <4>1, <4>2, ReadyIs
        <3> HIDE DEF split, down, i, leaf
        <3> DEFINE part == Between(split.entries, down, some)
                   child == split.children[down]
                   c == Inserting(k, v)[h][child]
                   new == [split EXCEPT !.children[down] = c]
        <3>2. /\ split \in SearchTrees[m + 1][some]
              /\ Len(split.entries) >= Len(x.entries)
              /\ Held(m + 1, split) = Held(m + 1, x)
              /\ down \in DOMAIN split.children
              /\ k \in part
              /\ ~BT!IsFull(child)
            BY <3>1 DEF IsReady
        <3>3. part \in SUBSET TreeKeys /\ Below(child, m, part)
            BY <2>6, <3>2, ChildrenAre
        <3>4. Held(m + 1, split) = Shown(split.entries) \cup Held(m, child)
                                      \cup Others(m, split.children, down)
            <4>1. HoldsAround(m, split, down)
                BY <2>6, <3>2, ParentHolds
            <4> QED BY <4>1 DEF HoldsAround
        <3>5. Of(k, Held(m, child)) = {}
            BY <2>1, <3>2, <3>4 DEF Of
        <3>6. child \in SearchTrees[m][part]
            BY <3>3 DEF Below
        <3>7. Len(child.entries) < BT!MaxKeys /\ Len(child.entries) \in Nat
            <4> DEFINE o == m - 1
            <4>1. o \in Nat /\ o + 1 = m
                BY <2>6, <2>9
            <4> HIDE DEF o, child, part
            <4>2. child \in SearchTrees[o + 1][part]
                BY <3>6, <4>1
            <4>3. Len(child.entries) <= BT!MaxKeys /\ Len(child.entries) \in Nat
                BY <3>3, <4>1, <4>2, SearchTreeIs, ChildrenAre DEF Entered
            <4>4. Len(child.entries) # BT!MaxKeys
                BY <3>2 DEF BT!IsFull
            <4> QED BY <4>3, <4>4, BTreeAssumption DEF BT!MaxKeys
        <3>8. Good(m, part, child, c)
            <4> HIDE DEF part, child, Good
            <4> QED BY <2>2, <3>2, <3>3, <3>5, <3>6, <3>7
        <3>9. Below(c, m, part)
            <4> HIDE DEF c, part, child
            <4>1. Len(c.entries) >= Len(child.entries) /\ c \in SearchTrees[m][part]
                BY <3>8
            <4>2. Len(c.entries) \in Nat
                <5> DEFINE o == m - 1
                <5>1. o \in Nat /\ o + 1 = m
                    BY <2>6, <2>9
                <5> HIDE DEF o
                <5>2. c \in SearchTrees[o + 1][part]
                    BY <4>1, <5>1
                <5> QED BY <3>3, <5>1, <5>2, ChildrenAre
            <4> QED BY <3>3, <3>7, <4>1, <4>2 DEF Below
        <3>10. /\ new \in SearchTrees[m + 1][some]
               /\ new.entries = split.entries
               /\ Held(m + 1, new) = Shown(split.entries) \cup Held(m, c)
                                        \cup Others(m, split.children, down)
            <4>1. Below(c, m, Between(split.entries, down, some))
                BY <3>9
            <4>2. new = [split EXCEPT !.children[down] = c]
                OBVIOUS
            <4> HIDE DEF c, good, part, Good, child, new
            <4>3. HasReplaced(new, m, split, down, c, some)
                BY <2>6, <3>2, <4>1, <4>2, ChildReplaced
            <4> QED BY <4>3 DEF HasReplaced
        <3>11. Inserting(k, v)[l][x] = new
            <4> HIDE DEF new
            <4>1. Inserting(k, v)[l][x] = [split EXCEPT !.children[down] = Inserting(k, v)[h][@]]
                BY <2>5, <2>7, <2>9
            <4> QED BY <4>1 DEF new
        <3> HIDE DEF new, c, child, part
        <3>12. Held(m + 1, new) = Held(m + 1, x) \cup {BT!Entry(k, v)}
            <4>1. Held(m, c) = Held(m, child) \cup {BT!Entry(k, v)}
                BY <3>8
            <4> QED BY <3>2, <3>4, <3>10, <4>1
        <3>13. m + 1 # 1
            BY <2>6, <2>9
        <3>14. Good(m + 1, some, x, new)
            BY <3>2, <3>10, <3>12, <3>13
        <3> HIDE DEF Good
        <3> QED BY <3>11, <3>14
    <2> QED BY <2>8, <2>9
<1>3. good = Nat
    <2>1. good \in SUBSET Nat
        OBVIOUS
    <2> HIDE DEF good
    <2> QED BY <1>1, <1>2, <2>1, Induction
<1>4. Good(n, keys, node, Inserting(k, v)[g][node])
    <2> HIDE DEF Good
    <2>1. n \in good
        <3> HIDE DEF good
        <3> QED BY <1>3
    <2> QED BY <2>1
<1> QED BY <1>4 DEF IsInserted

-----------------------------------------------------------------------------
(* B-tree: the invariant *)

\* A root of h levels over so many entries: only that of an empty tree has none
IsTreeOf(node, count, h) ==
    /\ h \in Nat \ {0} /\ count \in Nat
    /\ node \in SearchTrees[h][TreeKeys]
    /\ count = 0 => node = BT!Leaf(<<>>) /\ h = 1
    /\ count > 0 => h <= count /\ Len(node.entries) >= 1
    /\ IsFiniteSet(Held(h, node)) /\ Cardinality(Held(h, node)) = count

TreeOver(node, count) == \E h : IsTreeOf(node, count, h)

TreeInv == TreeOver(head, size)

LEMMA EmptyTree ==
    ASSUME NEW node, node = BT!Leaf(<<>>)
    PROVE  IsTreeOf(node, 0, 1) /\ Held(1, node) = {} /\ Len(node.entries) = 0
<1> DEFINE none == <<>>
           zero == 0
<1>1. zero \in Nat /\ zero + 1 = 1 /\ zero = 0
    OBVIOUS
<1>2. none \in Seq(TreeEntries) /\ Len(none) = 0 /\ DOMAIN none = {} /\ none = <<>>
    OBVIOUS
<1>3. node = Node(none, none)
    BY DEF BT!Leaf, Node
<1> HIDE DEF none, zero
<1>4. node.entries = none /\ node.children = none
    BY <1>3 DEF Node
<1>5. Entered(none, TreeKeys)
    <2>1. 0 <= BT!MaxKeys
        BY BTreeAssumption DEF BT!MaxKeys
    <2> QED BY <1>2, <2>1 DEF Entered, Ordered
<1>6. Parented(none, none, zero, TreeKeys)
    BY <1>1, <1>2 DEF Parented
<1>7. node \in SearchTrees[zero + 1][TreeKeys]
    BY <1>1, <1>3, <1>5, <1>6, SearchTreeMade
<1>8. Held(zero + 1, node) = Shown(node.entries) \cup HeldBelow(zero, node.children)
    BY <1>1, <1>7, HeldIs
<1>9. Shown(none) = {} /\ HeldBelow(zero, none) = {}
    BY <1>2 DEF Shown, HeldBelow
<1>10. Held(1, node) = {}
    BY <1>1, <1>4, <1>8, <1>9
<1>11. node \in SearchTrees[1][TreeKeys]
    BY <1>1, <1>7
<1>12. 1 \in Nat \ {0} /\ 0 \in Nat /\ ~(0 > 0)
    OBVIOUS
<1>13. IsFiniteSet(Held(1, node)) /\ Cardinality(Held(1, node)) = 0
    BY <1>10, FS_EmptySet
<1>14. IsTreeOf(node, 0, 1)
    BY <1>11, <1>12, <1>13 DEF IsTreeOf
<1> QED BY <1>2, <1>4, <1>10, <1>14

LEMMA TreeIs ==
    ASSUME NEW node, NEW count, NEW h, IsTreeOf(node, count, h)
    PROVE  /\ h \in Nat /\ h - 1 \in Nat /\ h = h - 1 + 1 /\ h <= count + 1
           /\ count \in Nat /\ count + 1 \in Nat
           /\ node \in SearchTrees[h][TreeKeys]
           /\ Len(node.entries) \in Nat /\ Len(node.entries) <= BT!MaxKeys
<1>1. h \in Nat /\ h - 1 \in Nat /\ h = h - 1 + 1 /\ count \in Nat /\ h <= count + 1
    BY DEF IsTreeOf
<1>2. node \in SearchTrees[h - 1 + 1][TreeKeys]
    BY <1>1 DEF IsTreeOf
<1>3. Entered(node.entries, TreeKeys)
    BY <1>1, <1>2, SearchTreeIs
<1> QED BY <1>1, <1>2, <1>3, LenProperties DEF Entered

\* One entry for another of the same key
LEMMA OneForOne ==
    ASSUME NEW held, IsFiniteSet(held), NEW k, NEW e, e.key = k, Of(k, held) # {},
           \A x, y \in held : x.key = y.key => x = y,
           NEW new, new = But(k, held) \cup {e}
    PROVE  IsFiniteSet(new) /\ Cardinality(new) = Cardinality(held)
<1>1. PICK x \in held : x.key = k
    BY DEF Of
<1>2. But(k, held) = held \ {x}
    BY <1>1 DEF But
<1>3. IsFiniteSet(held \ {x}) /\ Cardinality(held \ {x}) = Cardinality(held) - 1
    BY <1>1, FS_RemoveElement
<1>4. e \notin held \ {x}
    BY <1>1
<1>5. Cardinality(held) \in Nat
    BY FS_CardinalityType
<1> QED BY <1>2, <1>3, <1>4, <1>5, FS_AddElement

LEMMA TreeUpdated ==
    ASSUME NEW node, NEW count, NEW h, IsTreeOf(node, count, h),
           NEW k \in TreeKeys, NEW v \in TreeGiven, Of(k, Held(h, node)) # {},
           NEW new, new = Updating(k, v)[count + 1][node]
    PROVE  /\ IsTreeOf(new, count, h)
           /\ Held(h, new) = But(k, Held(h, node)) \cup {BT!Entry(k, v)}
<1> DEFINE g == count + 1
           e == BT!Entry(k, v)
<1>1. /\ h \in Nat /\ g \in Nat /\ h <= g
      /\ node \in SearchTrees[h][TreeKeys]
    BY TreeIs
<1>2. new = Updating(k, v)[g][node] /\ TreeKeys \in SUBSET TreeKeys
    OBVIOUS
<1> HIDE DEF g
<1>3. IsUpdated(new, h, node, TreeKeys, k, v)
    BY <1>1, <1>2, UpdatedIs
<1>4. /\ new \in SearchTrees[h][TreeKeys]
      /\ Len(new.entries) = Len(node.entries)
      /\ Held(h, new) = But(k, Held(h, node)) \cup {e}
    BY <1>3 DEF IsUpdated
<1>5. Held(h, new) = But(k, Held(h, node)) \cup {e}
    BY <1>4
<1>6. e.key = k
    BY DEF BT!Entry
<1>7. IsFiniteSet(Held(h, node)) /\ Cardinality(Held(h, node)) = count /\ count # 0
    <2>1. Held(h, node) # {}
        BY DEF Of
    <2> QED BY <2>1, FS_EmptySet DEF IsTreeOf
<1>8. \A x, y \in Held(h, node) : x.key = y.key => x = y
    BY <1>1, <1>2, HeldOnce
<1> HIDE DEF e
<1>9. IsFiniteSet(Held(h, new)) /\ Cardinality(Held(h, new)) = count
    BY <1>5, <1>6, <1>7, <1>8, OneForOne
<1> QED BY <1>4, <1>7, <1>9 DEF IsTreeOf, e

\* A full root gets a parent, and is split
LEMMA RootReady ==
    ASSUME NEW h, IsTreeOf(head, size, h),
           NEW root, root = IF BT!IsFull(head) THEN BT!Split(BT!Grown, 1) ELSE head
    PROVE  \E l \in {h, h + 1} :
              /\ root \in SearchTrees[l][TreeKeys] /\ Held(l, root) = Held(h, head)
              /\ Len(root.entries) < BT!MaxKeys
              /\ Len(root.entries) \in Nat /\ (l = 1 \/ Len(root.entries) >= 1)
              /\ l <= size + 1
<1>1. /\ h \in Nat /\ h - 1 \in Nat /\ h = h - 1 + 1 /\ h <= size + 1 /\ size \in Nat
      /\ head \in SearchTrees[h][TreeKeys]
      /\ Len(head.entries) \in Nat /\ Len(head.entries) <= BT!MaxKeys
    BY TreeIs
<1>2. BT!MaxKeys \in Nat /\ BT!MaxKeys >= 2
    BY BTreeAssumption DEF BT!MaxKeys
<1>3. size = 0 => h = 1 /\ Len(head.entries) = 0
    BY EmptyTree DEF IsTreeOf
<1>4. size > 0 => h <= size /\ Len(head.entries) >= 1
    BY DEF IsTreeOf
<1>5. CASE ~BT!IsFull(head)
    <2>1. root = head /\ Len(head.entries) < BT!MaxKeys
        BY <1>1, <1>2, <1>5 DEF BT!IsFull
    <2> QED BY <1>1, <1>3, <1>4, <2>1
<1>6. CASE BT!IsFull(head)
    <2>1. size > 0 /\ h <= size /\ Len(head.entries) >= 1
        BY <1>1, <1>2, <1>3, <1>4, <1>6 DEF BT!IsFull
    <2>2. h \in Nat \ {0}
        BY <1>1
    <2>3. /\ BT!Grown \in SearchTrees[h + 1][TreeKeys]
          /\ Len(BT!Grown.entries) = 0
          /\ BT!Grown.children[1] = head /\ 1 \in DOMAIN BT!Grown.children
          /\ Held(h + 1, BT!Grown) = Held(h, head)
        BY <1>1, <2>1, <2>2, GrownIs
    <2>4. PICK grown : grown = BT!Grown
        OBVIOUS
    <2>5. PICK m \in Nat : m = h - 1
        BY <1>1
    <2>6. h = m + 1
        BY <1>1, <2>5
    <2>7. /\ grown \in SearchTrees[h + 1][TreeKeys] /\ 1 \in DOMAIN grown.children
          /\ Len(grown.entries) < BT!MaxKeys /\ BT!IsFull(grown.children[1])
        BY <1>2, <1>6, <2>3, <2>4
    <2>8. root = BT!Split(grown, 1) /\ TreeKeys \in SUBSET TreeKeys
        BY <1>6, <2>4
    <2>9. IsSplit(root, 1, h, grown, TreeKeys)
        BY <2>6, <2>7, <2>8, SplitIs
    <2>10. Len(grown.entries) = 0 /\ Held(h + 1, grown) = Held(h, head)
        BY <2>3, <2>4
    <2>11. /\ root \in SearchTrees[h + 1][TreeKeys]
           /\ Len(root.entries) = Len(grown.entries) + 1
           /\ Held(h + 1, root) = Held(h + 1, grown)
        BY <2>9 DEF IsSplit
    <2>12. Len(root.entries) = 1 /\ 1 < BT!MaxKeys
        <3>1. 0 + 1 = 1
            OBVIOUS
        <3>2. Len(root.entries) = 1
            BY <2>10, <2>11, <3>1
        <3> QED BY <1>2, <3>2
    <2>13. h + 1 <= size + 1 /\ Held(h + 1, root) = Held(h, head)
        BY <1>1, <2>1, <2>10, <2>11
    <2>14. /\ h + 1 \in {h, h + 1} /\ Len(root.entries) < BT!MaxKeys
           /\ Len(root.entries) \in Nat /\ Len(root.entries) >= 1
        <3>1. 1 \in Nat /\ 1 >= 1 /\ h + 1 \in {h, h + 1}
            OBVIOUS
        <3>2. PICK one : one = 1
            OBVIOUS
        <3>3. Len(root.entries) = one /\ one < BT!MaxKeys /\ one \in Nat /\ one >= 1
            BY <2>12, <3>1, <3>2
        <3> QED BY <3>1, <3>3
    <2> QED BY <2>11, <2>13, <2>14
<1> QED BY <1>5, <1>6

LEMMA TreeInserted ==
    ASSUME NEW h, IsTreeOf(head, size, h),
           NEW k \in TreeKeys, NEW v \in TreeGiven, Of(k, Held(h, head)) = {},
           NEW new, new = BT!Inserted(k, v)
    PROVE  \E l : /\ IsTreeOf(new, size + 1, l)
                  /\ Held(l, new) = Held(h, head) \cup {BT!Entry(k, v)}
<1> DEFINE g == size + 1
           e == BT!Entry(k, v)
<1>1. PICK root : root = IF BT!IsFull(head) THEN BT!Split(BT!Grown, 1) ELSE head
    OBVIOUS
<1>2. PICK l \in {h, h + 1} :
              /\ root \in SearchTrees[l][TreeKeys] /\ Held(l, root) = Held(h, head)
              /\ Len(root.entries) < BT!MaxKeys
              /\ Len(root.entries) \in Nat /\ (l = 1 \/ Len(root.entries) >= 1)
              /\ l <= size + 1
    BY <1>1, RootReady
<1>3. new = Inserting(k, v)[g][root]
    BY <1>1, OperationsAre
<1>4. l \in Nat \ {0} /\ g \in Nat \ {0} /\ l <= g /\ size \in Nat /\ g = size + 1
    BY <1>2 DEF IsTreeOf
<1>5. Of(k, Held(l, root)) = {} /\ TreeKeys \in SUBSET TreeKeys
    BY <1>2
<1> HIDE DEF g
<1>6. l \in Nat
    BY <1>4
<1>7. IsInserted(new, l, root, TreeKeys, k, v)
    BY <1>2, <1>3, <1>4, <1>5, <1>6, InsertedIs
<1>8. new \in SearchTrees[l][TreeKeys]
    BY <1>7 DEF IsInserted
<1>9. /\ Len(new.entries) >= Len(root.entries)
      /\ l = 1 => Len(new.entries) >= 1
      /\ Held(l, new) = Held(l, root) \cup {e}
    BY <1>7 DEF IsInserted
<1>10. Len(new.entries) >= 1
    <2>1. PICK m \in Nat : m = l - 1
        BY <1>4
    <2>2. new \in SearchTrees[m + 1][TreeKeys]
        BY <1>4, <1>8, <2>1
    <2>3. Len(new.entries) \in Nat
        BY <1>5, <2>2, ChildrenAre
    <2> QED BY <1>2, <1>9, <2>3
<1>11. e \notin Held(h, head)
    BY DEF Of, BT!Entry
<1> HIDE DEF e
<1>12. Held(l, new) = Held(h, head) \cup {e}
    BY <1>2, <1>9
<1>13. IsFiniteSet(Held(l, new)) /\ Cardinality(Held(l, new)) = g
    <2>1. IsFiniteSet(Held(h, head)) /\ Cardinality(Held(h, head)) = size
        BY DEF IsTreeOf
    <2> QED BY <1>4, <1>11, <1>12, <2>1, FS_AddElement
<1> QED BY <1>4, <1>8, <1>10, <1>12, <1>13 DEF IsTreeOf, e

-----------------------------------------------------------------------------
(* B-tree: what its invariant says *)

\* What Entries lists is what the tree holds
LEMMA TreeListing ==
    ASSUME NEW h, IsTreeOf(head, size, h)
    PROVE  /\ BT!Entries \in Seq(TreeEntries) /\ Ordered(BT!Entries, TreeKeys)
           /\ Shown(BT!Entries) = Held(h, head) /\ BT!Listed = Held(h, head)
<1> DEFINE g == size + 1
<1>1. h \in Nat /\ g \in Nat /\ h <= g /\ head \in SearchTrees[h][TreeKeys]
    BY TreeIs
<1>2. BT!Entries = Collecting[g][head] /\ TreeKeys \in SUBSET TreeKeys
    BY OperationsAre
<1> HIDE DEF g
<1>3. BT!Entries \in Seq(TreeEntries)
    BY <1>1, <1>2, CollectingIs
<1>4. Ordered(BT!Entries, TreeKeys)
    BY <1>1, <1>2, CollectingIs
<1>5. Held(g, head) = Held(h, head)
    BY <1>1, <1>2, CollectingIs
<1>6. Shown(BT!Entries) = Held(h, head)
    BY <1>2, <1>5 DEF Held
<1>7. BT!Listed = Shown(BT!Entries)
    BY DEF BT!Listed, BT!ToSet, Shown
<1> QED BY <1>3, <1>4, <1>6, <1>7

\* What Search finds is what the tree holds
LEMMA TreeSearch ==
    ASSUME NEW h, IsTreeOf(head, size, h), NEW k \in TreeKeys
    PROVE  BT!Search(k) = {x.value : x \in Of(k, Held(h, head))}
<1> DEFINE g == size + 1
<1>1. h \in Nat /\ g \in Nat /\ h <= g /\ head \in SearchTrees[h][TreeKeys]
    BY TreeIs
<1>2. BT!Search(k) = Searching(k)[g][head] /\ TreeKeys \in SUBSET TreeKeys
    BY OperationsAre
<1> HIDE DEF g
<1> QED BY <1>1, <1>2, SearchIs

LEMMA TreeBalanced ==
    TreeInv => BT!Balanced
<1> SUFFICES ASSUME TreeInv
             PROVE  BT!Balanced
    OBVIOUS
<1>1. PICK h : IsTreeOf(head, size, h)
    BY DEF TreeInv, TreeOver
<1>2. h \in Nat \ {0} /\ size \in Nat /\ h <= size + 1
    BY <1>1 DEF IsTreeOf
<1>3. PICK m \in Nat : h = m + 1
    <2>1. h - 1 \in Nat /\ h = h - 1 + 1
        BY <1>2
    <2> QED BY <2>1
<1>4. head \in BT!BTrees[h]
    <2>1. head \in SearchTrees[m + 1][TreeKeys] /\ TreeKeys \in SUBSET TreeKeys
        BY <1>1, <1>3 DEF IsTreeOf
    <2> QED BY <1>3, <2>1, SearchTreeIs
<1>5. size > 0 => Len(head.entries) >= 1
    BY <1>1 DEF IsTreeOf
<1>6. h \in 1..BT!Levels
    BY <1>2 DEF BT!Levels
<1> QED BY <1>4, <1>5, <1>6 DEF BT!Balanced

\* A list in order is as long as what it lists
LEMMA OrderedOnce ==
    ASSUME NEW s \in Seq(TreeEntries), Ordered(s, TreeKeys)
    PROVE  Len(s) = Cardinality(Shown(s))
<1> DEFINE dom == 1..Len(s)
           f == [i \in dom |-> s[i]]
<1>1. Len(s) \in Nat /\ DOMAIN s = dom
    BY LenProperties
<1>2. Shown(s) = {f[i] : i \in dom}
    BY <1>1 DEF Shown
<1>3. f \in Surjection(dom, Shown(s))
    <2>1. f \in [dom -> Shown(s)]
        BY <1>1 DEF Shown
    <2> QED BY <1>2, <2>1 DEF Surjection
<1>4. ASSUME NEW i \in dom, NEW j \in dom, s[i] = s[j]
      PROVE  i = j
    <2>1. s[i].key \in Int /\ s[j].key \in Int
        BY <1>1, KeysAreNumbers DEF Ordered
    <2>2. i < j => s[i].key < s[j].key
        BY <1>1 DEF Ordered
    <2>3. j < i => s[j].key < s[i].key
        BY <1>1 DEF Ordered
    <2>4. ~(i < j) /\ ~(j < i)
        BY <1>4, <2>1, <2>2, <2>3
    <2> QED BY <1>1, <2>4
<1>5. f \in Injection(dom, Shown(s))
    BY <1>3, <1>4 DEF Injection, IsInjective, Surjection
<1>6. IsFiniteSet(dom) /\ Cardinality(dom) = Len(s)
    <2>1. 1 \in Int /\ Len(s) \in Int
        BY <1>1
    <2>2. IsFiniteSet(1..Len(s)) /\ Cardinality(1..Len(s)) = IF 1 > Len(s) THEN 0
                                                             ELSE Len(s) - 1 + 1
        BY <2>1, FS_Interval
    <2> QED BY <1>1, <2>2
<1> HIDE DEF f, dom
<1> QED BY <1>3, <1>5, <1>6, FS_Surjection

LEMMA TreeInOrder ==
    TreeInv => BT!EntriesInOrder
<1> SUFFICES ASSUME TreeInv
             PROVE  BT!EntriesInOrder
    OBVIOUS
<1>1. PICK h : IsTreeOf(head, size, h)
    BY DEF TreeInv, TreeOver
<1>2. PICK s : s = BT!Entries
    OBVIOUS
<1>3. s \in Seq(TreeEntries) /\ Ordered(s, TreeKeys) /\ Shown(s) = Held(h, head)
    BY <1>1, <1>2, TreeListing
<1>4. Len(s) = size
    BY <1>1, <1>3, OrderedOnce DEF IsTreeOf
<1>5. ASSUME NEW i \in 1..Len(s) - 1
      PROVE  s[i].key < s[i + 1].key
    <2>1. i \in DOMAIN s /\ i + 1 \in DOMAIN s /\ i < i + 1
        BY <1>3
    <2> QED BY <1>3, <2>1 DEF Ordered
<1> QED BY <1>2, <1>4, <1>5 DEF BT!EntriesInOrder

-----------------------------------------------------------------------------
(* B-tree: its steps *)

\* The keys and values in the tree, as its parts hold them
TreePairs == Pairs(BT!Listed)

GivesPairs(new, held, k, v) == Pairs(new) = GivenPairs(Pairs(held), k, v)

LEMMA ListingGiven ==
    ASSUME NEW held, NEW k, NEW v,
           NEW new, new = But(k, held) \cup {BT!Entry(k, v)}
    PROVE  GivesPairs(new, held, k, v)
<1> DEFINE e == BT!Entry(k, v)
<1>1. e.key = k /\ e.value = v
    BY DEF BT!Entry
<1>2. new = But(k, held) \cup {e}
    OBVIOUS
<1> HIDE DEF e
<1>3. ASSUME NEW p \in Pairs(new)
      PROVE  p \in GivenPairs(Pairs(held), k, v)
    <2>1. PICK x \in new : p = <<x.key, x.value>>
        BY DEF Pairs
    <2>2. CASE x = e
        BY <1>1, <2>1, <2>2 DEF GivenPairs
    <2>3. CASE x \in held /\ x.key # k
        BY <2>1, <2>3 DEF GivenPairs, Pairs
    <2> QED BY <1>2, <2>2, <2>3 DEF But
<1>4. ASSUME NEW p \in GivenPairs(Pairs(held), k, v)
      PROVE  p \in Pairs(new)
    <2>1. CASE p = <<k, v>>
        BY <1>1, <1>2, <2>1 DEF Pairs
    <2>2. CASE p \in Pairs(held) /\ p[1] # k
        <3>1. PICK x \in held : p = <<x.key, x.value>>
            BY <2>2 DEF Pairs
        <3>2. x \in new
            BY <1>2, <2>2, <3>1 DEF But
        <3> QED BY <3>1, <3>2 DEF Pairs
    <2> QED BY <2>1, <2>2 DEF GivenPairs
<1> DEFINE A == Pairs(new)
           B == GivenPairs(Pairs(held), k, v)
<1>5. (\A p \in A : p \in B) /\ (\A p \in B : p \in A)
    BY <1>3, <1>4
<1>6. A = B
    <2> HIDE DEF A, B
    <2> QED BY <1>5
<1> QED BY <1>6 DEF GivesPairs

\* A root, the number of entries that it counts, and the entries it holds
TreeHolding(node, count, held) ==
    \E h : IsTreeOf(node, count, h) /\ Held(h, node) = held

LEMMA HoldingIs ==
    TreeInv <=> TreeHolding(head, size, BT!Listed)
<1>1. ASSUME TreeInv
      PROVE  TreeHolding(head, size, BT!Listed)
    <2>1. PICK h : IsTreeOf(head, size, h)
        BY <1>1 DEF TreeInv, TreeOver
    <2> QED BY <2>1, TreeListing DEF TreeHolding
<1>2. ASSUME TreeHolding(head, size, BT!Listed)
      PROVE  TreeInv
    BY <1>2 DEF TreeHolding, TreeInv, TreeOver
<1> QED BY <1>1, <1>2

\* What Entries lists of a tree is what it holds
LEMMA HoldingListed ==
    ASSUME NEW held, TreeHolding(head, size, held)
    PROVE  TreeInv /\ BT!Listed = held
<1>1. PICK h : IsTreeOf(head, size, h) /\ Held(h, head) = held
    BY DEF TreeHolding
<1> QED BY <1>1, TreeListing DEF TreeInv, TreeOver

\* After an operation as well
LEMMA HoldingListedNext ==
    ASSUME NEW held, TreeHolding(head', size', held)
    PROVE  TreeInv' /\ BT!Listed' = held
<1>1. PICK h : IsTreeOf(head', size', h) /\ Held(h, head') = held
    BY DEF TreeHolding
<1>2. PICK r, c : r = head' /\ c = size'
    OBVIOUS
<1> DEFINE g == c + 1
<1>3. h \in Nat /\ g \in Nat /\ h <= g /\ r \in SearchTrees[h][TreeKeys]
    BY <1>1, <1>2, TreeIs
<1>4. BT!Entries' = Collecting[g][r]
    BY <1>2 DEF BT!Entries, Collecting, BT!Levels
<1> HIDE DEF g
<1>5. Held(g, r) = Held(h, r)
    <2>1. TreeKeys \in SUBSET TreeKeys
        OBVIOUS
    <2> QED BY <1>3, <2>1, CollectingIs
<1>6. BT!Listed' = Shown(BT!Entries')
    BY DEF BT!Listed, BT!ToSet, Shown
<1>7. BT!Listed' = held
    BY <1>1, <1>2, <1>4, <1>5, <1>6 DEF Held
<1> QED BY <1>1, <1>7 DEF TreeInv, TreeOver

LEMMA TreeUnchanged ==
    ASSUME TreeInv, UNCHANGED <<head, size>>
    PROVE  TreeInv' /\ BT!Listed' = BT!Listed
<1>1. PICK held : held = BT!Listed
    OBVIOUS
<1>2. TreeHolding(head', size', held)
    BY <1>1, HoldingIs
<1> QED BY <1>1, <1>2, HoldingListedNext

\* What an operation finds of a key
LEMMA TreeFinds ==
    ASSUME TreeInv, NEW k \in TreeKeys
    PROVE  BT!Search(k) = {x.value : x \in Of(k, BT!Listed)}
<1>1. PICK h : IsTreeOf(head, size, h)
    BY DEF TreeInv, TreeOver
<1> QED BY <1>1, TreeListing, TreeSearch

LEMMA TreeEntriesOnce ==
    ASSUME TreeInv
    PROVE  /\ \A x \in BT!Listed : x \in TreeEntries /\ x.key \in TreeKeys
           /\ \A x, y \in BT!Listed : x.key = y.key => x = y
<1>1. PICK h : IsTreeOf(head, size, h)
    BY DEF TreeInv, TreeOver
<1>2. h \in Nat /\ head \in SearchTrees[h][TreeKeys] /\ BT!Listed = Held(h, head)
    BY <1>1, TreeIs, TreeListing
<1>3. TreeKeys \in SUBSET TreeKeys
    OBVIOUS
<1> QED BY <1>2, <1>3, HeldOnce

\* An entry for another of its key
LEMMA TreeChanged ==
    ASSUME TreeInv, NEW k \in TreeKeys, NEW v \in TreeGiven, BT!Search(k) # {},
           head' = BT!Updated(k, v), size' = size
    PROVE  TreeInv' /\ TreePairs' = GivenPairs(TreePairs, k, v)
<1>1. PICK h : IsTreeOf(head, size, h)
    BY DEF TreeInv, TreeOver
<1>2. BT!Listed = Held(h, head)
    BY <1>1, TreeListing
<1>3. Of(k, Held(h, head)) # {}
    BY <1>2, TreeFinds
<1>4. PICK new : new = head'
    OBVIOUS
<1>5. new = Updating(k, v)[size + 1][head]
    BY <1>4, OperationsAre
<1>6. /\ IsTreeOf(new, size, h)
      /\ Held(h, new) = But(k, Held(h, head)) \cup {BT!Entry(k, v)}
    BY <1>1, <1>3, <1>5, TreeUpdated
<1>7. PICK held, was : held = Held(h, new) /\ was = BT!Listed
    OBVIOUS
<1>8. TreeHolding(head', size', held)
    BY <1>4, <1>6, <1>7 DEF TreeHolding
<1>9. TreeInv' /\ BT!Listed' = held
    BY <1>8, HoldingListedNext
<1>10. held = But(k, was) \cup {BT!Entry(k, v)}
    BY <1>2, <1>6, <1>7
<1>11. GivesPairs(held, was, k, v)
    BY <1>10, ListingGiven
<1>12. Pairs(BT!Listed') = GivenPairs(Pairs(BT!Listed), k, v)
    BY <1>7, <1>9, <1>11 DEF GivesPairs
<1> QED BY <1>9, <1>12 DEF TreePairs

\* An entry more
LEMMA TreeGrown ==
    ASSUME TreeInv, NEW k \in TreeKeys, NEW v \in TreeGiven, BT!Search(k) = {},
           head' = BT!Inserted(k, v), size' = size + 1
    PROVE  TreeInv' /\ TreePairs' = GivenPairs(TreePairs, k, v)
<1>1. PICK h : IsTreeOf(head, size, h)
    BY DEF TreeInv, TreeOver
<1>2. BT!Listed = Held(h, head)
    BY <1>1, TreeListing
<1>3. Of(k, Held(h, head)) = {}
    BY <1>2, TreeFinds
<1>4. PICK new : new = head'
    OBVIOUS
<1>5. new = BT!Inserted(k, v)
    BY <1>4
<1>6. PICK l : /\ IsTreeOf(new, size + 1, l)
               /\ Held(l, new) = Held(h, head) \cup {BT!Entry(k, v)}
    BY <1>1, <1>3, <1>5, TreeInserted
<1>7. PICK held, was : held = Held(l, new) /\ was = BT!Listed
    OBVIOUS
<1>8. TreeHolding(head', size', held)
    BY <1>4, <1>6, <1>7 DEF TreeHolding
<1>9. TreeInv' /\ BT!Listed' = held
    BY <1>8, HoldingListedNext
<1>10. held = But(k, was) \cup {BT!Entry(k, v)}
    <2>1. But(k, was) = was
        BY <1>2, <1>3, <1>7 DEF But, Of
    <2> QED BY <1>2, <1>6, <1>7, <2>1
<1>11. GivesPairs(held, was, k, v)
    BY <1>10, ListingGiven
<1>12. Pairs(BT!Listed') = GivenPairs(Pairs(BT!Listed), k, v)
    BY <1>7, <1>9, <1>11 DEF GivesPairs
<1> QED BY <1>9, <1>12 DEF TreePairs

LEMMA TreeInit ==
    BT!Init => TreeInv /\ BT!Listed = {}
<1> SUFFICES ASSUME BT!Init
             PROVE  TreeInv /\ BT!Listed = {}
    OBVIOUS
<1>1. head = BT!Leaf(<<>>) /\ size = 0
    BY DEF BT!Init
<1>2. IsTreeOf(head, 0, 1) /\ Held(1, head) = {}
    BY <1>1, EmptyTree
<1>3. PICK held : held = {}
    OBVIOUS
<1>4. TreeHolding(head, size, held)
    BY <1>1, <1>2, <1>3 DEF TreeHolding
<1> QED BY <1>3, <1>4, HoldingListed

LEMMA TreePut ==
    ASSUME TreeInv, NEW k \in TreeKeys, NEW v \in TreeValues, BT!Put(k, v)
    PROVE  TreeInv' /\ TreePairs' = GivenPairs(TreePairs, k, v)
<1>1. v \in TreeGiven
    BY DEF TreeGiven
<1>2. CASE BT!Search(k) # {} /\ head' = BT!Updated(k, v) /\ UNCHANGED size
    BY <1>1, <1>2, TreeChanged
<1>3. CASE BT!Search(k) = {} /\ head' = BT!Inserted(k, v) /\ size' = size + 1
    BY <1>1, <1>3, TreeGrown
<1> QED BY <1>2, <1>3 DEF BT!Put

LEMMA TreeDelete ==
    ASSUME TreeInv, NEW k \in TreeKeys, BT!Delete(k)
    PROVE  /\ TreeInv'
           /\ TreePairs' = IF BT!Live(k) THEN GivenPairs(TreePairs, k, Tombstone) ELSE TreePairs
<1>1. CASE BT!Live(k)
    <2>1. Tombstone \in TreeGiven
        BY DEF TreeGiven
    <2>2. BT!Search(k) # {}
        BY <1>1 DEF BT!Live
    <2>3. head' = BT!Updated(k, Tombstone) /\ size' = size
        BY <1>1 DEF BT!Delete
    <2> QED BY <1>1, <2>1, <2>2, <2>3, TreeChanged
<1>2. CASE ~BT!Live(k)
    <2>1. UNCHANGED <<head, size>>
        BY <1>2 DEF BT!Delete
    <2> QED BY <1>2, <2>1, TreeUnchanged DEF TreePairs
<1> QED BY <1>1, <1>2

LEMMA TreeStep ==
    ASSUME TreeInv, BT!Next
    PROVE  TreeInv'
<1>1. ASSUME NEW k \in TreeKeys, NEW v \in TreeValues, BT!Put(k, v)
      PROVE  TreeInv'
    BY <1>1, TreePut
<1>2. ASSUME NEW k \in TreeKeys, BT!Get(k)
      PROVE  TreeInv'
    BY <1>2, TreeUnchanged DEF BT!Get
<1>3. ASSUME NEW k \in TreeKeys, BT!Delete(k)
      PROVE  TreeInv'
    BY <1>3, TreeDelete
<1> QED BY <1>1, <1>2, <1>3 DEF BT!Next

-----------------------------------------------------------------------------
(* The B-tree is the map of MemtableBackend *)

TreeShown == ListedOnce(BT!Listed)

LEMMA TreeListed ==
    TreeInv => TreeShown
BY TreeEntriesOnce DEF TreeShown, ListedOnce, Keys

\* What an operation finds is what the map holds
LEMMA TreeFound ==
    ASSUME TreeInv, MapOf(content, TreePairs), NEW k \in TreeKeys
    PROVE  /\ Backend!Live(k) <=> BT!Live(k)
           /\ ~BT!Live(k) => content[k] \in {Absent, Tombstone}
           /\ BT!Search(k) # {} => BT!Search(k) = {content[k]}
<1>1. BT!Search(k) = {x.value : x \in Of(k, BT!Listed)} /\ k \in Keys
    BY TreeFinds DEF Keys
<1>2. ASSUME NEW x \in Of(k, BT!Listed)
      PROVE  x.value = content[k] /\ content[k] # Absent
    <2>1. x \in BT!Listed /\ x.key = k
        BY DEF Of
    <2>2. <<x.key, x.value>> \in TreePairs
        BY <2>1 DEF TreePairs, Pairs
    <2>3. content[k] = x.value
        BY <2>1, <2>2 DEF MapOf
    <2>4. x.value \in TreeValues \cup {Tombstone}
        BY <2>1, TreeEntriesOnce DEF TreeEntries
    <2>5. x.value # Absent
        BY <2>4, SentinelAssumption
    <2> QED BY <2>3, <2>5
<1>3. CASE Of(k, BT!Listed) = {}
    <2>1. BT!Search(k) = {}
        BY <1>1, <1>3
    <2>2. \A p \in TreePairs : p[1] # k
        BY <1>3 DEF TreePairs, Pairs, Of
    <2>3. content[k] = Absent
        BY <1>1, <2>2 DEF MapOf
    <2> QED BY <2>1, <2>3 DEF BT!Live, Backend!Live
<1>4. CASE Of(k, BT!Listed) # {}
    <2>1. BT!Search(k) = {content[k]} /\ content[k] # Absent
        BY <1>1, <1>2, <1>4
    <2>2. BT!Live(k) <=> content[k] # Tombstone
        BY <2>1 DEF BT!Live
    <2> QED BY <2>1, <2>2 DEF Backend!Live
<1> QED BY <1>3, <1>4

LEMMA TreeSimulated ==
    ASSUME TreeInv, content = Content(BT!Listed), BT!Next, content' = Content(BT!Listed')
    PROVE  Backend!Next
<1>1. TreeShown /\ TreeShown'
    <2>1. TreeInv'
        BY TreeStep
    <2> QED BY <2>1, TreeListed, PTL
<1>2. MapOf(content, TreePairs) /\ MapOf(content', TreePairs')
    <2>1. MapOf(content, Pairs(BT!Listed)) /\ MapOf(content', Pairs(BT!Listed'))
        BY <1>1, ContentIs DEF TreeShown
    <2> QED BY <2>1 DEF TreePairs
<1>3. ASSUME NEW k \in TreeKeys, NEW v, TreePairs' = GivenPairs(TreePairs, k, v)
      PROVE  content' = [content EXCEPT ![k] = v]
    <2>1. PICK c, d, pairs : c = content /\ d = content' /\ pairs = TreePairs
        OBVIOUS
    <2>2. MapOf(c, pairs) /\ MapOf(d, GivenPairs(pairs, k, v)) /\ k \in Keys
        BY <1>2, <1>3, <2>1 DEF Keys
    <2>3. d = [c EXCEPT ![k] = v]
        BY <2>2, GivenIs
    <2> QED BY <2>1, <2>3
<1>4. ASSUME TreePairs' = TreePairs
      PROVE  content' = content
    <2>1. PICK c, d, pairs : c = content /\ d = content' /\ pairs = TreePairs
        OBVIOUS
    <2>2. MapOf(c, pairs) /\ MapOf(d, pairs)
        BY <1>2, <1>4, <2>1
    <2>3. d = c
        BY <2>2, SameIs
    <2> QED BY <2>1, <2>3
<1>5. ASSUME NEW k \in TreeKeys, NEW v \in TreeValues, BT!Put(k, v)
      PROVE  Backend!Put(k, v)
    <2>1. TreePairs' = GivenPairs(TreePairs, k, v)
        BY <1>5, TreePut
    <2>2. content' = [content EXCEPT ![k] = v]
        BY <1>3, <2>1
    <2>3. answer' = <<k>>
        BY <1>5 DEF BT!Put
    <2> QED BY <2>2, <2>3 DEF Backend!Put
<1>6. ASSUME NEW k \in TreeKeys, BT!Get(k)
      PROVE  Backend!Get(k)
    <2>1. TreePairs' = TreePairs
        BY <1>6, TreeUnchanged DEF BT!Get, TreePairs
    <2>2. content' = content
        BY <1>4, <2>1
    <2>3. Backend!Live(k) <=> BT!Live(k)
        BY <1>2, TreeFound
    <2>4. BT!Live(k) => (CHOOSE v \in BT!Search(k) : TRUE) = content[k]
        <3>1. ASSUME BT!Live(k)
              PROVE  BT!Search(k) = {content[k]}
            BY <1>2, <3>1, TreeFound DEF BT!Live
        <3> QED BY <3>1
    <2>5. answer' = <<k, IF Backend!Live(k) THEN content[k] ELSE Absent>>
        BY <1>6, <2>3, <2>4 DEF BT!Get
    <2> QED BY <2>2, <2>5 DEF Backend!Get
<1>7. ASSUME NEW k \in TreeKeys, BT!Delete(k)
      PROVE  Backend!Delete(k)
    <2>1. Backend!Live(k) <=> BT!Live(k)
        BY <1>2, TreeFound
    <2>2. answer' = <<k, BT!Live(k)>>
        BY <1>7 DEF BT!Delete
    <2>3. BT!Live(k) \in BOOLEAN /\ Backend!Live(k) \in BOOLEAN
        BY DEF BT!Live, Backend!Live
    <2>4. answer' = <<k, Backend!Live(k)>>
        BY <2>1, <2>2, <2>3
    <2>5. content' = IF Backend!Live(k) THEN [content EXCEPT ![k] = Tombstone] ELSE content
        <3>1. CASE BT!Live(k)
            <4>1. TreePairs' = GivenPairs(TreePairs, k, Tombstone)
                BY <1>7, <3>1, TreeDelete
            <4> QED BY <1>3, <2>1, <3>1, <4>1
        <3>2. CASE ~BT!Live(k)
            <4>1. TreePairs' = TreePairs
                BY <1>7, <3>2, TreeDelete
            <4> QED BY <1>4, <2>1, <3>2, <4>1
        <3> QED BY <3>1, <3>2
    <2> QED BY <2>4, <2>5 DEF Backend!Delete
<1>8. TreeKeys \subseteq Keys /\ TreeValues \subseteq Values
    BY DEF Keys, Values
<1> QED BY <1>5, <1>6, <1>7, <1>8 DEF BT!Next, Backend!Next

-----------------------------------------------------------------------------
(* Whichever backend runs *)

HashMapKept ==
    implementation = "hashmap" => HashMapInv /\ content = Content(HM!Entries)

SkipListKept ==
    implementation = "skiplist" => SkipListInv /\ content = Content(SL!Entries)

TreeKept ==
    implementation = "btree" => TreeInv /\ content = Content(BT!Listed)

BackendKept == HashMapKept /\ SkipListKept /\ TreeKept

BackendTyped == implementation \in {"hashmap", "skiplist", "btree"}

LEMMA KeptInit ==
    Init => BackendKept
<1> SUFFICES ASSUME Init
             PROVE  BackendKept
    OBVIOUS
<1>1. HashMapKept
    <2>1. implementation = "hashmap" => Entries = HM!Entries
        BY DEF Entries
    <2> QED BY <2>1, HashMapInit DEF Init, HashMapKept
<1>2. SkipListKept
    <2>1. implementation = "skiplist" => Entries = SL!Entries
        BY DEF Entries
    <2> QED BY <2>1, SkipListInit DEF Init, SkipListKept
<1>3. TreeKept
    <2>1. implementation = "btree" => Entries = BT!Listed
        BY DEF Entries
    <2> QED BY <2>1, TreeInit DEF Init, TreeKept
<1> QED BY <1>1, <1>2, <1>3 DEF BackendKept

\* What a step is to the backend that runs
LEMMA StepOf ==
    ASSUME [Next]_vars
    PROVE  /\ implementation' = implementation
           /\ implementation = "hashmap" =>
                 \/ HM!Next /\ content' = Content(HM!Entries')
                 \/ UNCHANGED <<buckets, size, answer, content>>
           /\ implementation = "skiplist" =>
                 \/ SL!Next /\ content' = Content(SL!Entries')
                 \/ UNCHANGED <<nodes, level, size, answer, content>>
           /\ implementation = "btree" =>
                 \/ BT!Next /\ content' = Content(BT!Listed')
                 \/ UNCHANGED <<head, size, answer, content>>
<1>1. CASE Next
    <2>1. implementation' = implementation /\ content' = Content(Entries')
        BY <1>1 DEF Next
    <2>2. implementation = "hashmap" => HM!Next /\ Entries' = HM!Entries'
        BY <1>1, <2>1 DEF Next, Entries
    <2>3. implementation = "skiplist" => SL!Next /\ Entries' = SL!Entries'
        BY <1>1, <2>1 DEF Next, Entries
    <2>4. implementation = "btree" => BT!Next /\ Entries' = BT!Listed'
        BY <1>1, <2>1 DEF Next, Entries
    <2> QED BY <2>1, <2>2, <2>3, <2>4
<1>2. CASE UNCHANGED vars
    BY <1>2 DEF vars
<1> QED BY <1>1, <1>2

LEMMA KeptNext ==
    BackendKept /\ [Next]_vars => BackendKept'
<1> SUFFICES ASSUME BackendKept, [Next]_vars
             PROVE  BackendKept'
    OBVIOUS
<1>1. HashMapKept'
    <2>1. SUFFICES ASSUME implementation = "hashmap"
                   PROVE  HashMapInv' /\ content' = Content(HM!Entries')
        BY StepOf DEF HashMapKept
    <2>2. HashMapInv /\ content = Content(HM!Entries)
        BY <2>1 DEF BackendKept, HashMapKept
    <2>3. CASE HM!Next /\ content' = Content(HM!Entries')
        BY <2>2, <2>3, HashMapStep
    <2>4. CASE UNCHANGED <<buckets, size, answer, content>>
        <3>1. HM!Entries' = HM!Entries
            BY <2>4 DEF HM!Entries, HM!Places
        <3> QED BY <2>2, <2>4, <3>1, UnchangedKeeps
    <2> QED BY <2>1, <2>3, <2>4, StepOf
<1>2. SkipListKept'
    <2>1. SUFFICES ASSUME implementation = "skiplist"
                   PROVE  SkipListInv' /\ content' = Content(SL!Entries')
        BY StepOf DEF SkipListKept
    <2>2. SkipListInv /\ content = Content(SL!Entries)
        BY <2>1 DEF BackendKept, SkipListKept
    <2>3. CASE SL!Next /\ content' = Content(SL!Entries')
        BY <2>2, <2>3, SkipListStep
    <2>4. CASE UNCHANGED <<nodes, level, size, answer, content>>
        <3>1. SL!Entries' = SL!Entries
            BY <2>4 DEF SL!Entries, SL!ListFrom, SL!Tall
        <3> QED BY <2>2, <2>4, <3>1, SkipListUnchanged
    <2> QED BY <2>1, <2>3, <2>4, StepOf
<1>3. TreeKept'
    <2>1. SUFFICES ASSUME implementation = "btree"
                   PROVE  TreeInv' /\ content' = Content(BT!Listed')
        BY StepOf DEF TreeKept
    <2>2. TreeInv /\ content = Content(BT!Listed)
        BY <2>1 DEF BackendKept, TreeKept
    <2>3. CASE BT!Next /\ content' = Content(BT!Listed')
        BY <2>2, <2>3, TreeStep
    <2>4. CASE UNCHANGED <<head, size, answer, content>>
        BY <2>2, <2>4, TreeUnchanged
    <2> QED BY <2>1, <2>3, <2>4, StepOf
<1> QED BY <1>1, <1>2, <1>3 DEF BackendKept

LEMMA KeptAlways ==
    Spec => []BackendKept
BY KeptInit, KeptNext, PTL DEF Spec

\* However many keys come, a hash map has at most three nodes for four buckets between
\* operations: a Put that goes over it doubles the table (hashmap.go:65-91).
THEOREM LoadIsBounded ==
    Spec => []LoadBounded
<1>1. BackendKept => LoadBounded
    BY DEF BackendKept, HashMapKept, HashMapInv, LoadBounded
<1> QED BY <1>1, KeptAlways, PTL

\* Entries of a hash map lists every key once and as many as are counted, whatever the
\* keys, the hash and the number of buckets: after a resize each node is in the bucket
\* where the next Put looks for it (hashmap.go:38-63, 65-91).
THEOREM KeysStayOnce ==
    Spec => []EveryKeyOnce
<1>1. BackendKept => EveryKeyOnce
    BY HashMapKeysOnce DEF BackendKept, HashMapKept, EveryKeyOnce
<1> QED BY <1>1, KeptAlways, PTL

\* Every level of a skip list lists, in the order of the keys, the nodes high enough for
\* it, whatever heights are drawn: a new node is linked behind the last smaller one on
\* each of its levels, those it brings into use included (skiplist.go:41-80).
THEOREM LevelsStayNested ==
    Spec => []LevelsNested
<1>1. BackendKept => LevelsNested
    BY SkipListLevelsNested DEF BackendKept, SkipListKept, LevelsNested
<1> QED BY <1>1, KeptAlways, PTL

\* The B-tree stays one, for every order from 3 on: all leaves at one depth, a child between
\* any two entries and outside them, no node over its limit, and entries in the root of a
\* tree that has any (btree.go:35-51, 90-137).
THEOREM TreeStaysBalanced ==
    Spec => []Balanced
<1>1. BackendKept => Balanced
    BY TreeBalanced DEF BackendKept, TreeKept, Balanced
<1> QED BY <1>1, KeptAlways, PTL

\* Entries of a B-tree lists the keys in order, each once, and as many as are counted: a
\* split on the way down loses and repeats none, and moves none over another
\* (btree.go:90-137, 199-228).
THEOREM EntriesStayInOrder ==
    Spec => []EntriesInOrder
<1>1. BackendKept => EntriesInOrder
    BY TreeInOrder DEF BackendKept, TreeKept, EntriesInOrder
<1> QED BY <1>1, KeptAlways, PTL

-----------------------------------------------------------------------------
(* The refinement *)

LEMMA BackendInit ==
    Init => Backend!Init
<1> SUFFICES ASSUME Init
             PROVE  Backend!Init
    OBVIOUS
<1>1. answer = <<>> /\ content = Content(Entries)
    BY DEF Init, HM!Init
<1>2. Entries = {}
    <2>1. CASE implementation = "hashmap"
        <3>1. HM!Entries = {}
            BY HashMapInit, HashMapListed DEF Init, HashMapShown
        <3> QED BY <2>1, <3>1 DEF Entries
    <2>2. CASE implementation = "skiplist"
        <3>1. SkipListInv /\ size = 0
            BY SkipListInit DEF Init
        <3>2. SL!Entries = {nodes[x] : x \in 1..0}
            BY <3>1, SkipListEntries
        <3>3. 1..0 = {}
            OBVIOUS
        <3> QED BY <2>2, <3>2, <3>3 DEF Entries
    <2>3. CASE implementation = "btree"
        <3>1. BT!Listed = {}
            BY TreeInit DEF Init
        <3> QED BY <2>3, <3>1 DEF Entries
    <2> QED BY <2>1, <2>2, <2>3 DEF Init
<1>3. Content({}) = [k \in Keys |-> Absent]
    BY DEF Content
<1> QED BY <1>1, <1>2, <1>3 DEF Backend!Init

LEMMA BackendStep ==
    BackendKept /\ [Next]_vars /\ BackendTyped => [Backend!Next]_(Backend!backendVars)
<1> SUFFICES ASSUME BackendKept, [Next]_vars, BackendTyped
             PROVE  [Backend!Next]_(Backend!backendVars)
    OBVIOUS
<1>1. CASE implementation = "hashmap"
    <2>1. HashMapInv /\ content = Content(HM!Entries)
        BY <1>1 DEF BackendKept, HashMapKept
    <2>2. \/ HM!Next /\ content' = Content(HM!Entries')
          \/ UNCHANGED <<buckets, size, answer, content>>
        BY <1>1, StepOf
    <2> QED BY <2>1, <2>2, HashMapSimulated DEF Backend!backendVars
<1>2. CASE implementation = "skiplist"
    <2>1. SkipListInv /\ content = Content(SL!Entries)
        BY <1>2 DEF BackendKept, SkipListKept
    <2>2. \/ SL!Next /\ content' = Content(SL!Entries')
          \/ UNCHANGED <<nodes, level, size, answer, content>>
        BY <1>2, StepOf
    <2> QED BY <2>1, <2>2, SkipListSimulated DEF Backend!backendVars
<1>3. CASE implementation = "btree"
    <2>1. TreeInv /\ content = Content(BT!Listed)
        BY <1>3 DEF BackendKept, TreeKept
    <2>2. \/ BT!Next /\ content' = Content(BT!Listed')
          \/ UNCHANGED <<head, size, answer, content>>
        BY <1>3, StepOf
    <2> QED BY <2>1, <2>2, TreeSimulated DEF Backend!backendVars
<1> QED BY <1>1, <1>2, <1>3 DEF BackendTyped

\* What Put, Get and Delete of a hash map, a skip list and a B-tree do and answer is what
\* they do and answer on the map of MemtableBackend, through every resize, every draw of
\* heights and every split (hashmap.go:28-126, skiplist.go:41-140, btree.go:35-197).
THEOREM BackendsImplement ==
    Spec => BackendImplemented
<1>1. Init => BackendTyped
    BY DEF Init, BackendTyped
<1>2. BackendTyped /\ [Next]_vars => BackendTyped'
    BY StepOf DEF BackendTyped
<1> QED BY <1>1, <1>2, KeptAlways, BackendInit, BackendStep, PTL
        DEF Spec, BackendImplemented, Backend!Spec

==============================================================================
