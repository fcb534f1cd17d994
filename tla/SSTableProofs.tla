---------------------------- MODULE SSTableProofs ----------------------------
(***************************************************************************)
(* Theorems about SSTable, for every value of its constants: a lookup by   *)
(* way of filter, summary, index and data finds what a search of all the   *)
(* entries does.                                                           *)
(***************************************************************************)
EXTENDS SSTable, CommonProofs, FiniteSetTheorems

EntryMaps == [Keys -> Values \cup {Tombstone, Absent}]
Item == [key : Keys, value : Values \cup {Tombstone}]

-----------------------------------------------------------------------------
(* The order of the keys *)

\* KeyAt enumerates the keys held, the smallest first
LEMMA KeysInOrder ==
    ASSUME NEW e
    PROVE  LET n == Cardinality(Held(e))
           IN  /\ n \in Nat
               /\ \A i \in 1..n : KeyAt(e, i) \in Held(e)
               /\ \A i, j \in 1..n : i < j => KeyAt(e, i) < KeyAt(e, j)
               /\ \A k \in Held(e) : \E i \in 1..n : KeyAt(e, i) = k
<1> DEFINE H == Held(e)
           n == Cardinality(H)
           Below(k) == {j \in H : j < k}
           rank == [k \in H |-> Cardinality(Below(k))]
<1>1. H \in SUBSET Nat /\ IsFiniteSet(H) /\ n \in Nat
    <2>1. H \in SUBSET Keys /\ Keys \subseteq Nat /\ IsFiniteSet(Keys)
        BY SSTableAssumption DEF Held
    <2>2. IsFiniteSet(H)
        BY <2>1, FS_Subset
    <2> QED BY <2>1, <2>2, FS_CardinalityType
<1>2. ASSUME NEW k \in H
      PROVE  /\ IsFiniteSet(Below(k)) /\ rank[k] \in Nat /\ rank[k] = Cardinality(Below(k))
             /\ Cardinality(Below(k) \cup {k}) = rank[k] + 1
             /\ IsFiniteSet(Below(k) \cup {k})
    <2>1. IsFiniteSet(Below(k))
        BY <1>1, FS_Subset
    <2>2. k \notin Below(k)
        BY <1>1
    <2> QED BY <2>1, <2>2, FS_AddElement, FS_CardinalityType
<1>3. ASSUME NEW k \in H, NEW l \in H, k < l
      PROVE  rank[k] < rank[l]
    <2>1. Below(k) \cup {k} \in SUBSET Below(l)
        BY <1>1, <1>3
    <2>2. Cardinality(Below(k) \cup {k}) <= Cardinality(Below(l))
        BY <1>2, <2>1, FS_Subset
    <2> HIDE DEF rank
    <2>3. rank[k] + 1 <= rank[l] /\ rank[k] \in Nat /\ rank[l] \in Nat
        BY <1>2, <2>2
    <2> QED BY <2>3
<1>4. ASSUME NEW k \in H
      PROVE  rank[k] \in 0..n - 1
    <2>1. Below(k) \cup {k} \in SUBSET H
        OBVIOUS
    <2>2. Cardinality(Below(k) \cup {k}) <= n
        BY <1>1, <2>1, FS_Subset
    <2> HIDE DEF rank
    <2>3. rank[k] + 1 <= n /\ rank[k] \in Nat /\ n \in Nat
        BY <1>1, <1>2, <2>2
    <2> QED BY <2>3
<1> HIDE DEF H
<1>5. ASSUME NEW k \in H, NEW l \in H, rank[k] = rank[l]
      PROVE  k = l
    <2>1. rank[k] \in Nat /\ rank[l] \in Nat
        BY <1>2
    <2> HIDE DEF rank
    <2>2. ~(k < l) /\ ~(l < k)
        BY <1>3, <1>5, <2>1
    <2> QED BY <1>1, <2>2
<1>6. rank \in Surjection(H, 0..n - 1)
    <2>1. rank \in [H -> 0..n - 1]
        BY <1>4
    <2>2. rank \in Injection(H, 0..n - 1)
        BY <1>5, <2>1 DEF Injection, IsInjective
    <2>3. IsFiniteSet(0..n - 1) /\ Cardinality(0..n - 1) = n
        <3> HIDE DEF n
        <3>1. PICK m \in Int : m = n - 1 /\ m >= -1 /\ n = m + 1 /\ n \in Nat
            BY <1>1
        <3>2. /\ IsFiniteSet(0..m)
              /\ Cardinality(0..m) = IF 0 > m THEN 0 ELSE m - 0 + 1
            BY FS_Interval
        <3>3. Cardinality(0..m) = m + 1
            BY <3>1, <3>2
        <3> QED BY <3>1, <3>2, <3>3
    <2> HIDE DEF rank
    <2> QED BY <2>2, <2>3, FS_Injection
<1>7. ASSUME NEW i \in 1..n
      PROVE  KeyAt(e, i) \in H /\ rank[KeyAt(e, i)] = i - 1
    <2>1. i - 1 \in 0..n - 1
        BY <1>1
    <2>2. PICK k \in H : rank[k] = i - 1
        BY <1>6, <2>1 DEF Surjection
    <2>3. \E l \in H : Cardinality(Below(l)) = i - 1
        BY <2>2
    <2> QED BY <2>3 DEF KeyAt, H
<1>8. ASSUME NEW i \in 1..n, NEW j \in 1..n, i < j
      PROVE  KeyAt(e, i) < KeyAt(e, j)
    <2>1. PICK k \in H, l \in H : k = KeyAt(e, i) /\ l = KeyAt(e, j)
        BY <1>7
    <2>2. rank[k] = i - 1 /\ rank[l] = j - 1
        BY <1>7, <2>1
    <2> HIDE DEF rank
    <2>3. k # l /\ ~(l < k)
        BY <1>1, <1>3, <1>8, <2>2
    <2> QED BY <1>1, <2>1, <2>3
<1>9. ASSUME NEW k \in H
      PROVE  \E i \in 1..n : KeyAt(e, i) = k
    <2>1. PICK i \in 1..n : i = rank[k] + 1 /\ i - 1 = rank[k]
        <3> HIDE DEF n, rank
        <3>1. rank[k] \in 0..n - 1 /\ n \in Nat
            BY <1>1, <1>4
        <3> QED BY <3>1
    <2>2. KeyAt(e, i) \in H /\ rank[KeyAt(e, i)] = rank[k]
        BY <1>7, <2>1
    <2> HIDE DEF rank
    <2> QED BY <1>5, <2>2
<1> QED BY <1>1, <1>7, <1>8, <1>9 DEF H

\* The items are the entries of a map, in the order of their keys
InOrder(items, e) ==
    /\ items \in Seq(Item)
    /\ \A i \in 1..Len(items) : items[i].key \in Held(e) /\ items[i].value = e[items[i].key]
    /\ \A i, j \in 1..Len(items) : i < j => items[i].key < items[j].key
    /\ \A k \in Held(e) : \E i \in 1..Len(items) : items[i].key = k

LEMMA SortedInOrder ==
    ASSUME entries \in EntryMaps
    PROVE  InOrder(Sorted, entries)
<1> DEFINE n == Cardinality(Held(entries))
<1>1. /\ n \in Nat
      /\ \A i \in 1..n : KeyAt(entries, i) \in Held(entries)
      /\ \A i, j \in 1..n : i < j => KeyAt(entries, i) < KeyAt(entries, j)
      /\ \A k \in Held(entries) : \E i \in 1..n : KeyAt(entries, i) = k
    BY KeysInOrder
<1>2. Sorted = [i \in 1..n |->
                   [key |-> KeyAt(entries, i), value |-> entries[KeyAt(entries, i)]]]
    BY DEF Sorted
<1> HIDE DEF n
<1>3. ASSUME NEW k \in Held(entries)
      PROVE  k \in Keys /\ entries[k] \in Values \cup {Tombstone}
    BY DEF Held, EntryMaps
<1>4. Sorted \in [1..n -> Item]
    BY <1>1, <1>2, <1>3 DEF Item
<1>5. Sorted \in Seq(Item) /\ Len(Sorted) = n
    BY <1>1, <1>4, IsASeq, LenProperties
<1> QED BY <1>1, <1>2, <1>5 DEF InOrder

LEMMA ItemIs ==
    ASSUME NEW items \in Seq(Item)
    PROVE  /\ Len(items) \in Nat /\ DOMAIN items = 1..Len(items)
           /\ \A i \in 1..Len(items) :
                  /\ items[i] \in Item
                  /\ items[i].key \in Nat
                  /\ Size[items[i].value] \in Nat \ {0}
<1>1. Len(items) \in Nat /\ DOMAIN items = 1..Len(items)
    BY LenProperties
<1>2. ASSUME NEW i \in 1..Len(items)
      PROVE  items[i] \in Item
    BY ElementOfSeq
<1> QED BY <1>1, <1>2, SSTableAssumption DEF Item
-----------------------------------------------------------------------------
(* Offsets *)

\* Every entry has bytes, so that no two begin at one offset
LEMMA OffsetsApart ==
    ASSUME NEW items \in Seq(Item)
    PROVE  \A i, j \in 1..Len(items) : Offset(items, i) = Offset(items, j) => i = j
<1> DEFINE f == CHOOSE f : f = [n \in 0..Len(items) |->
                               IF n = 0 THEN 0 ELSE f[n - 1] + Size[items[n].value]]
           bytes == [n \in 1..Len(items) |-> Size[items[n].value]]
<1>1. \A i : Offset(items, i) = f[i - 1]
    BY DEF Offset
<1>2. Len(items) \in Nat /\ bytes \in [1..Len(items) -> Nat \ {0}]
    BY ItemIs
<1>3. \E g : g = [n \in 0..Len(items) |->
                     IF n = 0 THEN 0 ELSE g[n - 1] + Size[items[n].value]]
    <2> DEFINE step == [n \in Nat |-> [s \in Nat |->
                           IF n + 1 \in 1..Len(items) THEN s + bytes[n + 1] ELSE s]]
    <2> HIDE DEF bytes
    <2>1. Numbered(Nat, step)
        BY <1>2 DEF Numbered
    <2>2. PICK h \in [Nat -> Nat] : Recursion(h, 0, step)
        <3> HIDE DEF step
        <3> QED BY <2>1, RecursionExists
    <2> DEFINE g == [n \in 0..Len(items) |-> h[n]]
    <2>3. ASSUME NEW n \in 0..Len(items)
          PROVE  g[n] = IF n = 0 THEN 0 ELSE g[n - 1] + bytes[n]
        <3>1. CASE n = 0
            BY <1>2, <2>2, <3>1 DEF Recursion
        <3>2. CASE n # 0
            <4>1. n - 1 \in Nat /\ n - 1 + 1 = n /\ n \in 1..Len(items)
                BY <1>2, <3>2
            <4>2. h[n - 1 + 1] = step[n - 1][h[n - 1]]
                BY <2>2, <4>1 DEF Recursion
            <4>3. h[n] = h[n - 1] + bytes[n]
                BY <4>1, <4>2
            <4>4. n - 1 \in 0..Len(items)
                BY <1>2, <4>1
            <4> QED BY <3>2, <4>3, <4>4
        <3> QED BY <3>1, <3>2
    <2>4. \A n \in 0..Len(items) : n # 0 => bytes[n] = Size[items[n].value]
        BY <1>2 DEF bytes
    <2>5. g = [n \in 0..Len(items) |->
                 IF n = 0 THEN 0 ELSE g[n - 1] + Size[items[n].value]]
        <3>1. \A n \in 0..Len(items) :
                  g[n] = IF n = 0 THEN 0 ELSE g[n - 1] + Size[items[n].value]
            BY <2>3, <2>4
        <3> QED BY <3>1
    <2> QED BY <2>5
<1>4. f = [n \in 0..Len(items) |->
              IF n = 0 THEN 0 ELSE f[n - 1] + Size[items[n].value]]
    BY <1>3
<1> HIDE DEF f
<1>5. /\ f[0] = 0
      /\ \A n \in 1..Len(items) : f[n] = f[n - 1] + bytes[n]
    BY <1>2, <1>4
<1> HIDE DEF bytes
\* Up to n the offsets grow
<1> DEFINE grown == {n \in Nat : n <= Len(items) =>
                        /\ f[n] \in Nat
                        /\ \A m \in 0..n - 1 : f[m] \in Nat /\ f[m] < f[n]}
<1>6. grown = Nat
    <2>1. 0 \in grown
        BY <1>5
    <2>2. ASSUME NEW n \in grown
          PROVE  n + 1 \in grown
        <3>1. SUFFICES ASSUME n + 1 <= Len(items)
                       PROVE  /\ f[n + 1] \in Nat
                              /\ \A m \in 0..n : f[m] \in Nat /\ f[m] < f[n + 1]
            OBVIOUS
        <3>2. n \in Nat /\ n <= Len(items) /\ n + 1 \in 1..Len(items) /\ n + 1 - 1 = n
            BY <1>2, <3>1
        <3>3. f[n + 1] = f[n] + bytes[n + 1] /\ bytes[n + 1] \in Nat \ {0}
            BY <1>2, <1>5, <3>2
        <3>4. f[n] \in Nat /\ \A m \in 0..n - 1 : f[m] \in Nat /\ f[m] < f[n]
            BY <3>2
        <3>5. f[n + 1] \in Nat /\ f[n] < f[n + 1]
            BY <3>3, <3>4
        <3>6. ASSUME NEW m \in 0..n
              PROVE  f[m] \in Nat /\ f[m] < f[n + 1]
            <4>1. CASE m = n
                BY <3>4, <3>5, <4>1
            <4>2. CASE m # n
                <5>1. m \in 0..n - 1
                    BY <3>2, <4>2
                <5>2. f[m] \in Nat /\ f[m] < f[n]
                    BY <3>4, <5>1
                <5> QED BY <3>4, <3>5, <5>2
            <4> QED BY <4>1, <4>2
        <3> QED BY <3>5, <3>6
    <2>3. grown \in SUBSET Nat
        OBVIOUS
    <2> HIDE DEF grown
    <2> QED BY <2>1, <2>2, <2>3, Induction
<1>7. ASSUME NEW m \in Nat, NEW n \in Nat, m < n, n <= Len(items)
      PROVE  f[m] # f[n]
    <2>1. n \in grown /\ m \in 0..n - 1
        BY <1>6, <1>7
    <2>2. f[n] \in Nat /\ f[m] \in Nat /\ f[m] < f[n]
        BY <1>7, <2>1
    <2> QED BY <2>2
<1>8. ASSUME NEW i \in 1..Len(items), NEW j \in 1..Len(items), i # j
      PROVE  f[i - 1] # f[j - 1]
    <2>1. i - 1 \in Nat /\ j - 1 \in Nat /\ i - 1 <= Len(items) /\ j - 1 <= Len(items)
          /\ (i - 1 < j - 1 \/ j - 1 < i - 1)
        BY <1>2, <1>8
    <2> QED BY <1>7, <2>1
<1> QED BY <1>1, <1>8

-----------------------------------------------------------------------------
(* The summary and the range of the index it gives *)

\* The position in the index of summary entry j, both counted from zero
StepAt(j) == j * summaryStep

SummaryLength(n) == (n + summaryStep - 1) \div summaryStep

LEMMA StepsWithin ==
    ASSUME summaryStep \in Nat \ {0}, NEW n \in Nat \ {0}
    PROVE  /\ SummaryLength(n) \in Nat \ {0}
           /\ StepAt(0) = 0
           /\ \A j \in 0..SummaryLength(n) - 1 : StepAt(j) \in 0..n - 1
<1>1. n + summaryStep - 1 \in Nat
    OBVIOUS
<1>2. \A b \in Nat \ {0}, a \in Nat : /\ a \div b \in Nat
                                      /\ (a \div b) * b <= a /\ a < (a \div b) * b + b
    OBVIOUS
<1>3. \A b \in Nat, j \in Nat : j * b \in Nat /\ (j + 1) * b = j * b + b /\ 0 * b = 0
    OBVIOUS
<1>4. \A b \in Nat, i, j \in Nat : i <= j => i * b <= j * b
    OBVIOUS
<1>5. /\ StepAt(0) = 0
      /\ \A j \in Nat : StepAt(j) \in Nat /\ StepAt(j + 1) = StepAt(j) + summaryStep
      /\ \A i, j \in Nat : i <= j => StepAt(i) <= StepAt(j)
    BY <1>3, <1>4 DEF StepAt
<1>6. PICK m \in Nat : /\ m = SummaryLength(n)
                       /\ StepAt(m) <= n + summaryStep - 1
                       /\ n + summaryStep - 1 < StepAt(m) + summaryStep
    BY <1>1, <1>2 DEF SummaryLength, StepAt
<1>7. m # 0
    BY <1>5, <1>6
<1>8. PICK l \in Nat : l = m - 1 /\ m = l + 1
    BY <1>7
<1>9. StepAt(l) \in Nat /\ StepAt(m) = StepAt(l) + summaryStep
    BY <1>5, <1>8
<1>10. StepAt(l) <= n - 1
    BY <1>6, <1>9
<1>11. ASSUME NEW j \in 0..m - 1
       PROVE  StepAt(j) \in 0..n - 1
    <2>1. j \in Nat /\ j <= l
        BY <1>8
    <2>2. StepAt(j) \in Nat /\ StepAt(j) <= StepAt(l)
        BY <1>5, <2>1
    <2> QED BY <1>9, <1>10, <2>2
<1> QED BY <1>5, <1>6, <1>7, <1>11

\* The bounds, then every summaryStep-th key with its position
LEMMA SummaryIs ==
    ASSUME summaryStep \in Nat \ {0}, Sorted \in Seq(Item), Len(Sorted) # 0
    PROVE  LET n == Len(Sorted)
               N == SummaryLength(n)
           IN  /\ Len(SummaryItems) = N + 1
               /\ SummaryItems[1] = [min |-> Sorted[1].key, max |-> Sorted[n].key]
               /\ \A i \in 2..N + 1 :
                      SummaryItems[i] = [key |-> Sorted[StepAt(i - 2) + 1].key,
                                         position |-> StepAt(i - 2)]
<1> DEFINE n == Len(Sorted)
           N == SummaryLength(n)
<1>1. n \in Nat \ {0} /\ DOMAIN Sorted = 1..n
    BY ItemIs
<1>2. /\ N \in Nat \ {0}
      /\ \A j \in 0..N - 1 : StepAt(j) \in 0..n - 1
    BY <1>1, StepsWithin
<1>3. IndexItems = [i \in 1..n |-> [key |-> Sorted[i].key, offset |-> Offset(Sorted, i)]]
    BY <1>1 DEF IndexItems
<1>4. Len(IndexItems) = n
    BY <1>1, <1>3
<1>5. SummaryEntries = [j \in 1..N |-> [key |-> IndexItems[StepAt(j - 1) + 1].key,
                                        position |-> StepAt(j - 1)]]
    BY <1>4 DEF SummaryEntries, SummaryLength, StepAt
<1> DEFINE B == [min |-> Sorted[1].key, max |-> Sorted[n].key]
           Parts == {B} \cup {SummaryEntries[j] : j \in 1..N}
<1>6. Bounds = <<B>> /\ Bounds \in Seq(Parts) /\ Len(Bounds) = 1
    BY DEF Bounds
<1>7. SummaryEntries \in Seq(Parts) /\ Len(SummaryEntries) = N
    <2>1. SummaryEntries \in [1..N -> Parts]
        BY <1>5
    <2> HIDE DEF Parts, N
    <2> QED BY <1>2, <1>5, <2>1, IsASeq, LenProperties
<1> HIDE DEF Parts, B, n, N
<1>8. /\ Len(SummaryItems) = N + 1
      /\ \A i \in 1..N + 1 :
             SummaryItems[i] = IF i <= 1 THEN Bounds[i] ELSE SummaryEntries[i - 1]
    <2>1. /\ Len(Bounds \o SummaryEntries) = Len(Bounds) + Len(SummaryEntries)
          /\ \A i \in 1..Len(Bounds) + Len(SummaryEntries) :
                 (Bounds \o SummaryEntries)[i] = IF i <= Len(Bounds) THEN Bounds[i]
                                                 ELSE SummaryEntries[i - Len(Bounds)]
        BY <1>6, <1>7, ConcatProperties
    <2> QED BY <1>2, <1>6, <1>7, <2>1 DEF SummaryItems
<1>9. SummaryItems[1] = B
    BY <1>2, <1>6, <1>8
<1>10. ASSUME NEW i \in 2..N + 1
       PROVE  SummaryItems[i] = [key |-> Sorted[StepAt(i - 2) + 1].key,
                                 position |-> StepAt(i - 2)]
    <2>1. PICK s \in 0..N - 1 : s = i - 2 /\ i - 1 = s + 1 /\ i - 1 - 1 = s /\ i - 1 \in 1..N
        BY <1>2
    <2>2. SummaryItems[i] = SummaryEntries[i - 1]
        BY <1>2, <1>8
    <2>3. SummaryItems[i] = [key |-> IndexItems[StepAt(s) + 1].key, position |-> StepAt(s)]
        BY <1>5, <2>1, <2>2
    <2>4. PICK t \in 0..n - 1 : t = StepAt(s)
        BY <1>2, <2>1
    <2>5. t + 1 \in 1..n
        BY <1>1
    <2>6. IndexItems[t + 1].key = Sorted[t + 1].key
        BY <1>3, <2>5
    <2> QED BY <2>1, <2>3, <2>4, <2>6
<1> QED BY <1>8, <1>9, <1>10 DEF B, n, N

-----------------------------------------------------------------------------
(* What a lookup of the complete table finds *)

\* The m-th entry of the index is in the range the summary gives for its key
LEMMA RangeHolds ==
    ASSUME summaryStep \in Nat \ {0}, entries \in EntryMaps,
           NEW m \in 1..Len(Sorted)
    PROVE  LET range == IndexRange(SummaryItems, Sorted[m].key)
           IN  /\ range.start \in Int /\ range.end \in Int
               /\ range.start < m
               /\ range.end >= 0 => m <= range.end
<1> DEFINE n == Len(Sorted)
           N == SummaryLength(n)
           k == Sorted[m].key
           S == SummaryItems
           later == {i \in 3..Len(S) : k < S[i].key}
           range == IndexRange(S, k)
<1>1. InOrder(Sorted, entries)
    BY SortedInOrder
<1>2. Sorted \in Seq(Item) /\ n \in Nat \ {0} /\ m \in 1..n /\ Len(Sorted) # 0
    BY <1>1, ItemIs DEF InOrder
<1>3. N \in Nat \ {0} /\ StepAt(0) = 0 /\ \A j \in 0..N - 1 : StepAt(j) \in 0..n - 1
    BY <1>2, StepsWithin
<1>4. Len(S) = N + 1
      /\ \A i \in 2..N + 1 : S[i] = [key |-> Sorted[StepAt(i - 2) + 1].key,
                                     position |-> StepAt(i - 2)]
    BY <1>2, SummaryIs
<1>5. \A i \in 1..n : Sorted[i].key \in Nat
    BY <1>2, ItemIs
<1>6. \A i, j \in 1..n : i < j => Sorted[i].key < Sorted[j].key
    BY <1>1 DEF InOrder
<1> HIDE DEF n, N, S
\* A summary entry is above the key when its position is
<1>7. ASSUME NEW i \in 2..N + 1
      PROVE  /\ S[i].position \in Nat
             /\ k < S[i].key <=> m <= S[i].position
    <2>1. PICK t \in 0..n - 1 : t = StepAt(i - 2)
        <3>1. i - 2 \in 0..N - 1
            BY <1>3
        <3> QED BY <1>3, <3>1
    <2>2. S[i].position = t /\ S[i].key = Sorted[t + 1].key /\ t + 1 \in 1..n /\ t \in Nat
        <3>1. S[i] = [key |-> Sorted[StepAt(i - 2) + 1].key, position |-> StepAt(i - 2)]
            BY <1>4
        <3>2. S[i] = [key |-> Sorted[t + 1].key, position |-> t]
            BY <2>1, <3>1
        <3> QED BY <1>2, <3>2
    <2>3. m < t + 1 => k < Sorted[t + 1].key
        BY <1>2, <1>6, <2>2
    <2>4. t + 1 < m => Sorted[t + 1].key < k
        BY <1>2, <1>6, <2>2
    <2>5. k \in Nat /\ Sorted[t + 1].key \in Nat
        BY <1>2, <1>5, <2>2
    <2>6. m = t + 1 => k = Sorted[t + 1].key
        OBVIOUS
    <2> HIDE DEF k
    <2> QED BY <1>2, <2>2, <2>3, <2>4, <2>5, <2>6
<1>8. S[2].position = 0
    <2>1. PICK i \in 2..N + 1 : i = 2 /\ i - 2 = 0
        BY <1>3
    <2>2. S[i] = [key |-> Sorted[StepAt(i - 2) + 1].key, position |-> StepAt(i - 2)]
        BY <1>4
    <2>3. S[i].position = StepAt(0)
        BY <2>1, <2>2
    <2> QED BY <1>3, <2>1, <2>3
<1>9. Len(S) \in Nat /\ Len(S) >= 2 /\ 3..Len(S) = 3..N + 1
    BY <1>3, <1>4
<1> HIDE DEF k
\* The summary entry before a later one, or the last, is not above the key
<1>10. ASSUME NEW i \in 2..N + 1, i \notin later
       PROVE  S[i].position \in Nat /\ S[i].position < m
    <2>1. CASE i = 2
        BY <1>2, <1>8, <2>1
    <2>2. CASE i # 2
        <3>1. i \in 3..Len(S)
            BY <1>3, <1>9, <2>2
        <3>2. ~(k < S[i].key)
            BY <1>10, <3>1
        <3> QED BY <1>2, <1>7, <3>2
    <2> QED BY <2>1, <2>2
<1>11. CASE later = {}
    <2>1. range.start = S[Len(S)].position /\ range.end = -1
        BY <1>9, <1>11 DEF IndexRange
    <2>2. Len(S) \in 2..N + 1
        BY <1>3, <1>4
    <2>3. range.start \in Nat /\ range.start < m
        BY <1>10, <1>11, <2>1, <2>2
    <2> HIDE DEF range
    <2>4. range.end \in Int /\ ~(range.end >= 0)
        BY <2>1
    <2> QED BY <2>3, <2>4 DEF range, k, S
<1>12. CASE later # {}
    <2> DEFINE q == Min(later)
    <2>1. q \in later /\ \A i \in later : q <= i
        <3>1. later \in SUBSET Nat
            OBVIOUS
        <3> HIDE DEF later
        <3> QED BY <1>12, <3>1, MinIs
    <2>2. range.start = S[q - 1].position /\ range.end = S[q].position
        BY <1>9, <1>12 DEF IndexRange
    <2> HIDE DEF q, range
    <2>3. q \in 3..N + 1 /\ k < S[q].key
        BY <1>9, <2>1
    <2>4. q - 1 \in 2..N + 1 /\ q - 1 \notin later /\ q \in 2..N + 1
        BY <1>3, <2>1, <2>3
    <2>5. range.start \in Nat /\ range.start < m
        BY <1>10, <2>2, <2>4
    <2>6. range.end \in Nat /\ m <= range.end
        BY <1>7, <2>2, <2>3, <2>4
    <2> QED BY <2>5, <2>6 DEF range, k, S
<1> QED BY <1>11, <1>12

\* The index entry of a key gives the offset of its entry in the data
LEMMA OffsetFound ==
    ASSUME entries \in EntryMaps, index.items = IndexItems,
           NEW m \in 1..Len(Sorted), NEW range,
           range.start \in Int, range.end \in Int, range.start < m,
           range.end >= 0 => m <= range.end
    PROVE  IndexOffsets(range, Sorted[m].key) = {Offset(Sorted, m)}
<1> DEFINE n == Len(Sorted)
           k == Sorted[m].key
           reached == {i \in DOMAIN index.items : i > range.start /\ index.items[i].key >= k}
           first == Min(reached)
<1>1. InOrder(Sorted, entries)
    BY SortedInOrder
<1>2. Sorted \in Seq(Item) /\ n \in Nat /\ m \in 1..n /\ DOMAIN Sorted = 1..n
    BY <1>1, ItemIs DEF InOrder
<1>3. \A i \in 1..n : Sorted[i].key \in Nat
    BY <1>2, ItemIs
<1>4. \A i, j \in 1..n : i < j => Sorted[i].key < Sorted[j].key
    BY <1>1 DEF InOrder
<1>5. /\ DOMAIN index.items = 1..n
      /\ \A i \in 1..n : /\ index.items[i].key = Sorted[i].key
                         /\ index.items[i].offset = Offset(Sorted, i)
    BY <1>2 DEF IndexItems
<1>6. m \in reached /\ reached \in SUBSET Nat
    BY <1>2, <1>3, <1>5
<1>7. first \in reached /\ \A i \in reached : first <= i
    <2> HIDE DEF reached
    <2> QED BY <1>6, MinIs
<1>8. first = m
    <2> HIDE DEF first
    <2>1. PICK f \in 1..n : f = first /\ index.items[f].key >= k /\ f <= m
        BY <1>5, <1>6, <1>7
    <2>2. ~(f < m)
        BY <1>2, <1>3, <1>4, <1>5, <2>1
    <2> QED BY <1>2, <2>1, <2>2
<1>9. reached # {} /\ ~(range.end >= 0 /\ first > range.end) /\ index.items[first].key = k
    BY <1>2, <1>5, <1>6, <1>8
<1> HIDE DEF first, reached
<1>10. IndexOffsets(range, k) = {index.items[first].offset}
    BY <1>9 DEF IndexOffsets, first, reached
<1> QED BY <1>2, <1>5, <1>8, <1>10

LEMMA FoundExactly ==
    ASSUME data.items = Sorted, Sorted \in Seq(Item), NEW m \in 1..Len(Sorted)
    PROVE  EntriesAt(Offset(Sorted, m), Sorted[m].key) = {Sorted[m].value}
<1>1. DOMAIN data.items = 1..Len(Sorted)
    BY ItemIs
<1>2. \A j \in 1..Len(Sorted) : Offset(Sorted, j) = Offset(Sorted, m) => j = m
    BY OffsetsApart
<1>3. {j \in DOMAIN data.items : /\ Offset(data.items, j) = Offset(Sorted, m)
                                 /\ data.items[j].key = Sorted[m].key} = {m}
    BY <1>1, <1>2
<1> QED BY <1>3 DEF EntriesAt

\* A complete table has every entry it was given and no other
LEMMA LookupIs ==
    ASSUME summaryStep \in Nat \ {0}, entries \in EntryMaps, entries # Nothing,
           data = File(Sorted), index = File(IndexItems),
           summary = File(SummaryItems), filter = File(FilterItems),
           NEW k \in Keys
    PROVE  Lookup(k) = entries[k]
<1> DEFINE n == Len(Sorted)
           range == IndexRange(summary.items, k)
           found == UNION {EntriesAt(o, k) : o \in IndexOffsets(range, k)}
<1>1. /\ data.items = Sorted /\ index.items = IndexItems
      /\ summary.items = SummaryItems /\ filter.items = FilterItems
    BY DEF File
<1>2. InOrder(Sorted, entries)
    BY SortedInOrder
<1>3. Sorted \in Seq(Item) /\ n \in Nat /\ DOMAIN Sorted = 1..n
    BY <1>2, ItemIs DEF InOrder
<1>4. CASE k \notin Held(entries)
    <2>1. entries[k] = Absent
        BY <1>4 DEF Held
    <2>2. \A j \in DOMAIN data.items : data.items[j].key # k
        BY <1>1, <1>2, <1>3, <1>4 DEF InOrder
    <2>3. \A o : EntriesAt(o, k) = {}
        BY <2>2 DEF EntriesAt
    <2>4. found = {}
        BY <2>3
    <2> QED BY <2>1, <2>4 DEF Lookup
<1>5. CASE k \in Held(entries)
    <2>1. PICK m \in 1..n : Sorted[m].key = k
        BY <1>2, <1>5 DEF InOrder
    <2>2. Sorted[m].value = entries[k]
        BY <1>2, <2>1 DEF InOrder
    <2>3. /\ range.start \in Int /\ range.end \in Int
          /\ range.start < m
          /\ range.end >= 0 => m <= range.end
        BY <1>1, <2>1, RangeHolds
    <2> HIDE DEF range
    <2>4. IndexOffsets(range, k) = {Offset(Sorted, m)}
        BY <1>1, <2>1, <2>3, OffsetFound
    <2>5. EntriesAt(Offset(Sorted, m), k) = {Sorted[m].value}
        BY <1>1, <1>3, <2>1, FoundExactly
    <2>6. found = {entries[k]}
        BY <2>2, <2>4, <2>5
    <2>7. MightContain(filter.items, k)
        <3>1. Len(FilterItems) = 2 /\ FilterItems[1] = FilterSize
              /\ FilterItems[2] = {Bit(l, FilterSize) : l \in Held(entries)}
            BY DEF FilterItems
        <3>2. Bit(k, FilterSize) \in {Bit(l, FilterSize) : l \in Held(entries)}
            BY <1>5
        <3> QED BY <1>1, <3>1, <3>2 DEF MightContain
    <2>8. /\ summary.items # <<>>
          /\ summary.items[1].min <= k /\ k <= summary.items[1].max
        <3>1. n \in Nat \ {0} /\ Len(Sorted) # 0
            BY <1>3, <2>1
        <3>2. /\ Len(SummaryItems) = SummaryLength(n) + 1
              /\ SummaryItems[1] = [min |-> Sorted[1].key, max |-> Sorted[n].key]
            BY <1>3, <3>1, SummaryIs
        <3>3. SummaryLength(n) \in Nat \ {0}
            BY <3>1, StepsWithin
        <3>4. SummaryItems # <<>>
            BY <3>2, <3>3
        <3>5. \A i \in 1..n : Sorted[i].key \in Nat
            BY <1>3, ItemIs
        <3>6. \A i, j \in 1..n : i < j => Sorted[i].key < Sorted[j].key
            BY <1>2 DEF InOrder
        <3>7. Sorted[1].key <= k
            <4>1. CASE m = 1
                BY <2>1, <3>1, <3>5, <4>1
            <4>2. CASE m # 1
                BY <2>1, <3>1, <3>5, <3>6, <4>2
            <4> QED BY <4>1, <4>2
        <3>8. k <= Sorted[n].key
            <4>1. CASE m = n
                BY <2>1, <3>1, <3>5, <4>1
            <4>2. CASE m # n
                BY <2>1, <3>1, <3>5, <3>6, <4>2
            <4> QED BY <4>1, <4>2
        <3> QED BY <1>1, <3>2, <3>4, <3>7, <3>8
    <2>9. Considered(k)
        BY <2>7, <2>8 DEF Considered
    <2>10. Lookup(k) = CHOOSE v \in found : TRUE
        BY <2>6, <2>9 DEF Lookup, range
    <2> HIDE DEF found
    <2> QED BY <2>6, <2>10
<1> QED BY <1>4, <1>5

-----------------------------------------------------------------------------
(* The inductive invariant *)

Typed ==
    /\ entries \in EntryMaps
    /\ summaryStep \in SummarySteps
    /\ pc # "idle" => entries # Nothing

\* Every entry of the data file is one that some attempt was given
DataTried ==
    /\ data.items \in Seq(Item)
    /\ \A i \in DOMAIN data.items :
           \E e \in tried \cup {entries} : data.items[i].value = e[data.items[i].key]

\* The files the running attempt has got past are its own
FilesWritten ==
    /\ pc \in {"index", "summary", "filter", "metadata", "complete"} => data = File(Sorted)
    /\ pc \in {"summary", "filter", "metadata", "complete"} => index = File(IndexItems)
    /\ pc \in {"filter", "metadata", "complete"} => summary = File(SummaryItems)
    /\ pc \in {"metadata", "complete"} => filter = File(FilterItems)

TableInv == Typed /\ DataTried /\ FilesWritten

LEMMA StepPositive ==
    ASSUME Typed
    PROVE  summaryStep \in Nat \ {0}
BY SSTableAssumption DEF Typed

LEMMA InvInit ==
    Init => TableInv
<1> SUFFICES ASSUME Init
             PROVE  TableInv
    OBVIOUS
<1>1. Typed
    BY DEF Init, Typed, Nothing, EntryMaps
<1>2. DataTried
    <2>1. data.items = <<>> /\ <<>> \in Seq(Item) /\ DOMAIN <<>> = {}
        BY DEF Init, NoFile
    <2> QED BY <2>1 DEF DataTried
<1>3. FilesWritten
    BY DEF Init, FilesWritten
<1> QED BY <1>1, <1>2, <1>3 DEF TableInv

\* The first items of a sequence
LEMMA PrefixIs ==
    ASSUME NEW items \in Seq(Item), NEW n \in 0..Len(items)
    PROVE  /\ SubSeq(items, 1, n) \in Seq(Item)
           /\ DOMAIN SubSeq(items, 1, n) \subseteq DOMAIN items
           /\ \A i \in DOMAIN SubSeq(items, 1, n) : SubSeq(items, 1, n)[i] = items[i]
<1> DEFINE s == SubSeq(items, 1, n)
<1>1. Len(items) \in Nat /\ DOMAIN items = 1..Len(items) /\ n \in Nat
    BY ItemIs
<1>2. \A i \in 1..n : items[i] \in Item
    BY <1>1, ElementOfSeq
<1>3. /\ s \in Seq(Item)
      /\ Len(s) = IF 1 <= n THEN n - 1 + 1 ELSE 0
      /\ \A i \in 1..n - 1 + 1 : s[i] = items[1 + i - 1]
    BY <1>1, <1>2, SubSeqProperties
<1> HIDE DEF s
<1>4. DOMAIN s = 1..n
    BY <1>1, <1>3, LenProperties
<1>5. \A i \in 1..n : i \in 1..n - 1 + 1 /\ 1 + i - 1 = i /\ i \in 1..Len(items)
    BY <1>1
<1> QED BY <1>1, <1>3, <1>4, <1>5 DEF s

LEMMA CreateKeeps ==
    ASSUME TableInv, Create
    PROVE  TableInv'
<1>1. Typed'
    BY DEF Create, Typed, EntryMaps, TableInv
<1>2. DataTried'
    <2>1. tried \cup {entries} \in SUBSET (tried' \cup {entries'}) /\ data' = data
        BY DEF Create
    <2> QED BY <2>1 DEF TableInv, DataTried
<1>3. FilesWritten'
    <2>1. pc' = "data"
        BY DEF Create
    <2> QED BY <2>1 DEF FilesWritten
<1> QED BY <1>1, <1>2, <1>3 DEF TableInv

\* What stays as it was when a file is written
LEMMA SourcesKept ==
    ASSUME UNCHANGED <<entries, summaryStep>>
    PROVE  /\ Sorted' = Sorted /\ IndexItems' = IndexItems
           /\ SummaryItems' = SummaryItems /\ FilterItems' = FilterItems
<1>1. Sorted' = Sorted
    BY DEF Sorted, KeyAt, Held
<1>2. IndexItems' = IndexItems
    BY <1>1 DEF IndexItems, Offset
<1>3. SummaryItems' = SummaryItems
    BY <1>1, <1>2 DEF SummaryItems, Bounds, SummaryEntries
<1>4. FilterItems' = FilterItems
    BY DEF FilterItems, Held, Bit
<1> QED BY <1>1, <1>2, <1>3, <1>4

LEMMA WriteDataKeeps ==
    ASSUME TableInv, WriteData
    PROVE  TableInv'
<1>1. /\ pc = "data"
      /\ UNCHANGED <<entries, summaryStep, tried, index, summary, filter>>
      /\ \/ data' = File(Sorted) /\ pc' = "index"
         \/ (\E n \in 0..Len(Sorted) : data' = File(SubSeq(Sorted, 1, n))) /\ pc' = "idle"
    BY DEF WriteData, Written
<1>2. Typed'
    BY <1>1 DEF TableInv, Typed
<1>3. FilesWritten'
    BY <1>1, SourcesKept DEF TableInv, FilesWritten
<1>4. DataTried'
    <2>1. InOrder(Sorted, entries)
        BY SortedInOrder DEF TableInv, Typed
    <2>2. Sorted \in Seq(Item)
          /\ \A i \in DOMAIN Sorted : Sorted[i].value = entries[Sorted[i].key]
        BY <2>1, ItemIs DEF InOrder
    <2>3. Len(Sorted) \in 0..Len(Sorted)
        BY <2>2, ItemIs
    <2> DEFINE Begins(items) == /\ items \in Seq(Item)
                                /\ DOMAIN items \subseteq DOMAIN Sorted
                                /\ \A i \in DOMAIN items : items[i] = Sorted[i]
    <2>4. Begins(data'.items)
        <3>1. CASE data' = File(Sorted)
            BY <2>2, <3>1 DEF File
        <3>2. ASSUME NEW n \in 0..Len(Sorted), data' = File(SubSeq(Sorted, 1, n))
              PROVE  Begins(data'.items)
            BY <2>2, <3>2, PrefixIs DEF File
        <3> QED BY <1>1, <3>1, <3>2
    <2>5. entries \in tried' \cup {entries'} /\ entries' = entries
        BY <1>1
    <2> QED BY <2>2, <2>4, <2>5 DEF DataTried
<1> QED BY <1>2, <1>3, <1>4 DEF TableInv

\* A step that leaves the data file and the attempt alone
LEMMA OthersKeep ==
    ASSUME TableInv, UNCHANGED <<data, entries, summaryStep, tried>>,
           pc # "idle" \/ pc' = "idle"
    PROVE  Typed' /\ DataTried'
<1>1. Typed'
    BY DEF TableInv, Typed
<1>2. DataTried'
    BY DEF TableInv, DataTried
<1> QED BY <1>1, <1>2

LEMMA WriteIndexKeeps ==
    ASSUME TableInv, WriteIndex
    PROVE  TableInv'
<1>1. /\ pc = "index"
      /\ UNCHANGED <<entries, summaryStep, tried, data, summary, filter>>
      /\ \/ index' = File(IndexItems) /\ pc' = "summary"
         \/ pc' = "idle"
    BY DEF WriteIndex, Written
<1>2. Typed' /\ DataTried'
    BY <1>1, OthersKeep
<1>3. FilesWritten'
    BY <1>1, SourcesKept DEF TableInv, FilesWritten
<1> QED BY <1>2, <1>3 DEF TableInv

LEMMA WriteSummaryKeeps ==
    ASSUME TableInv, WriteSummary
    PROVE  TableInv'
<1>1. /\ pc = "summary"
      /\ UNCHANGED <<entries, summaryStep, tried, data, index, filter>>
      /\ \/ summary' = File(SummaryItems) /\ pc' = "filter"
         \/ pc' = "idle"
    BY DEF WriteSummary, Written
<1>2. Typed' /\ DataTried'
    BY <1>1, OthersKeep
<1>3. FilesWritten'
    BY <1>1, SourcesKept DEF TableInv, FilesWritten
<1> QED BY <1>2, <1>3 DEF TableInv

LEMMA WriteFilterKeeps ==
    ASSUME TableInv, WriteFilter
    PROVE  TableInv'
<1>1. /\ pc = "filter"
      /\ UNCHANGED <<entries, summaryStep, tried, data, index, summary>>
      /\ \/ filter' = File(FilterItems) /\ pc' = "metadata"
         \/ pc' = "idle"
    BY DEF WriteFilter, Written
<1>2. Typed' /\ DataTried'
    BY <1>1, OthersKeep
<1>3. FilesWritten'
    BY <1>1, SourcesKept DEF TableInv, FilesWritten
<1> QED BY <1>2, <1>3 DEF TableInv

LEMMA WriteMetadataKeeps ==
    ASSUME TableInv, WriteMetadata
    PROVE  TableInv'
<1>1. /\ pc = "metadata"
      /\ UNCHANGED <<entries, summaryStep, tried, data, index, summary, filter>>
      /\ pc' \in {"complete", "idle"}
    BY DEF WriteMetadata
<1>2. Typed' /\ DataTried'
    BY <1>1, OthersKeep
<1>3. FilesWritten'
    BY <1>1, SourcesKept DEF TableInv, FilesWritten
<1> QED BY <1>2, <1>3 DEF TableInv

LEMMA InvStep ==
    TableInv /\ [Next]_vars => TableInv'
<1> SUFFICES ASSUME TableInv, [Next]_vars
             PROVE  TableInv'
    OBVIOUS
<1>1. CASE Create
    BY <1>1, CreateKeeps
<1>2. CASE WriteData
    BY <1>2, WriteDataKeeps
<1>3. CASE WriteIndex
    BY <1>3, WriteIndexKeeps
<1>4. CASE WriteSummary
    BY <1>4, WriteSummaryKeeps
<1>5. CASE WriteFilter
    BY <1>5, WriteFilterKeeps
<1>6. CASE WriteMetadata
    BY <1>6, WriteMetadataKeeps
<1>7. CASE UNCHANGED vars
    <2>1. UNCHANGED <<data, index, summary, filter, entries, summaryStep, pc, tried>>
        BY <1>7 DEF vars
    <2>2. Typed' /\ DataTried'
        BY <2>1 DEF TableInv, Typed, DataTried
    <2>3. FilesWritten'
        BY <2>1, SourcesKept DEF TableInv, FilesWritten
    <2> QED BY <2>2, <2>3 DEF TableInv
<1> QED BY <1>1, <1>2, <1>3, <1>4, <1>5, <1>6, <1>7 DEF Next

THEOREM TableInvAlways == Spec => []TableInv
BY InvInit, InvStep, PTL DEF Spec

-----------------------------------------------------------------------------
(* The theorems *)

\* From the moment its filter is written a table answers for every key with exactly
\* the entry it was given, whatever the keys and their hashes, the size of the filter,
\* the sparsity of the summary and what earlier attempts left (sstable.go:118-153,
\* 167-216, 287-340).
THEOREM LookupIsExact == Spec => []LookupExact
<1>1. TableInv => LookupExact
    <2> SUFFICES ASSUME TableInv, pc \in {"metadata", "complete"}, NEW k \in Keys
                 PROVE  Lookup(k) = entries[k]
        BY DEF LookupExact
    <2>1. summaryStep \in Nat \ {0}
        BY StepPositive DEF TableInv
    <2>2. entries \in EntryMaps /\ entries # Nothing
        BY DEF TableInv, Typed
    <2>3. /\ data = File(Sorted) /\ index = File(IndexItems)
          /\ summary = File(SummaryItems) /\ filter = File(FilterItems)
        BY DEF TableInv, FilesWritten
    <2> QED BY <2>1, <2>2, <2>3, LookupIs
<1> QED BY <1>1, TableInvAlways, PTL

\* At every moment, also with files of two attempts in the directory, a lookup finds
\* for a key what one of the attempts was given for it, or nothing (sstable.go:200-215,
\* engine.go:313-317).
THEOREM LookupFindsSomeAttempt == Spec => []LookupOfSomeAttempt
<1>1. TableInv => LookupOfSomeAttempt
    <2> SUFFICES ASSUME TableInv, NEW k \in Keys
                 PROVE  Lookup(k) \in {Absent, entries[k]} \cup {e[k] : e \in tried}
        BY DEF LookupOfSomeAttempt
    <2> DEFINE Told == {entries[k]} \cup {e[k] : e \in tried}
               found == UNION {EntriesAt(o, k) :
                                  o \in IndexOffsets(IndexRange(summary.items, k), k)}
    <2>1. \A o : EntriesAt(o, k) \in SUBSET Told
        <3> SUFFICES ASSUME NEW o, NEW j \in DOMAIN data.items, data.items[j].key = k
                     PROVE  data.items[j].value \in Told
            BY DEF EntriesAt
        <3>1. PICK e \in tried \cup {entries} : data.items[j].value = e[k]
            BY DEF TableInv, DataTried
        <3> QED BY <3>1
    <2> HIDE DEF Told
    <2>2. found \in SUBSET Told
        BY <2>1
    <2>3. Lookup(k) = Absent \/ (found # {} /\ Lookup(k) = CHOOSE v \in found : TRUE)
        BY DEF Lookup
    <2> HIDE DEF found
    <2>4. Lookup(k) = Absent \/ Lookup(k) \in Told
        BY <2>2, <2>3
    <2> QED BY <2>4 DEF Told
<1> QED BY <1>1, TableInvAlways, PTL

==============================================================================
