---------------------------- MODULE CommonProofs ----------------------------
(***************************************************************************)
(* What the proofs of several components use: recursion on the naturals,   *)
(* and the least-recently-used list for keys and values of any kind.       *)
(***************************************************************************)
EXTENDS Lru, SequenceTheorems, WellFoundedInduction, TLAPS

-----------------------------------------------------------------------------
(* Recursion on the naturals *)

\* A non-empty set of naturals has a least element
LEMMA LeastElement ==
    ASSUME NEW S \in SUBSET Nat, S # {}
    PROVE  \E n \in S : \A m \in S : n <= m
<1>1. PICK n \in S : \A m \in S : ~ (<<m, n>> \in OpToRel(<, Nat))
    BY NatLessThanWellFounded, WFMin
<1>2. \A m \in S : n <= m
    <2> TAKE m \in S
    <2>1. ~(m < n)
        BY <1>1 DEF OpToRel
    <2> QED BY <2>1
<1> QED BY <1>2

LEMMA MinIs ==
    ASSUME NEW S \in SUBSET Nat, S # {}
    PROVE  Min(S) \in S /\ \A m \in S : Min(S) <= m
<1>1. \E n \in S : \A m \in S : n <= m
    BY LeastElement
<1> QED BY <1>1 DEF Min

\* The first values of an iteration
Iterated(S, base, step, n) ==
    {g \in [0..n -> S] : g[0] = base /\ \A i \in 0..n - 1 : g[i + 1] = step[g[i]]}

LEMMA IteratedOnce ==
    ASSUME NEW S, NEW base \in S, NEW step \in [S -> S],
           NEW m \in Nat, NEW n \in Nat, NEW i \in Nat, i <= m, i <= n,
           NEW g \in Iterated(S, base, step, m), NEW h \in Iterated(S, base, step, n)
    PROVE  g[i] = h[i]
<1>1. SUFFICES ASSUME g[i] # h[i]
               PROVE  FALSE
    OBVIOUS
<1> DEFINE bad == {j \in 0..i : g[j] # h[j]}
<1>2. PICK j \in bad : \A k \in bad : j <= k
    <2>1. bad \in SUBSET Nat /\ i \in bad
        BY <1>1
    <2> QED BY <2>1, LeastElement
<1>3. j # 0
    BY DEF Iterated
<1>4. j - 1 \in 0..i /\ j - 1 \in 0..m - 1 /\ j - 1 \in 0..n - 1 /\ j - 1 + 1 = j
    BY <1>3
<1>5. g[j - 1] = h[j - 1]
    BY <1>2, <1>4
<1>6. g[j] = step[g[j - 1]] /\ h[j] = step[h[j - 1]]
    BY <1>4 DEF Iterated
<1> QED BY <1>2, <1>5, <1>6

LEMMA IteratedSome ==
    ASSUME NEW S, NEW base \in S, NEW step \in [S -> S], NEW n \in Nat
    PROVE  Iterated(S, base, step, n) # {}
<1>1. SUFFICES ASSUME Iterated(S, base, step, n) = {}
               PROVE  FALSE
    OBVIOUS
<1> DEFINE bad == {k \in Nat : Iterated(S, base, step, k) = {}}
<1>2. PICK k \in bad : \A l \in bad : k <= l
    <2>1. bad \in SUBSET Nat /\ n \in bad
        BY <1>1
    <2> QED BY <2>1, LeastElement
<1>3. CASE k = 0
    <2>1. [i \in 0..0 |-> base] \in Iterated(S, base, step, 0)
        BY DEF Iterated
    <2> QED BY <1>2, <1>3, <2>1
<1>4. CASE k # 0
    <2>1. k - 1 \in Nat /\ k - 1 \notin bad
        BY <1>2, <1>4
    <2>2. PICK g : g \in Iterated(S, base, step, k - 1)
        BY <2>1
    <2>3. g \in [0..k - 1 -> S] /\ g[0] = base /\ \A i \in 0..k - 2 : g[i + 1] = step[g[i]]
        BY <2>1, <2>2 DEF Iterated
    <2> DEFINE h == [i \in 0..k |-> IF i <= k - 1 THEN g[i] ELSE step[g[k - 1]]]
    <2>4. h \in [0..k -> S] /\ h[0] = base
        BY <1>4, <2>1, <2>3
    <2>5. ASSUME NEW i \in 0..k - 1
          PROVE  h[i + 1] = step[h[i]]
        <3>1. CASE i = k - 1
            BY <2>1, <3>1
        <3>2. CASE i # k - 1
            BY <2>1, <2>3, <3>2
        <3> QED BY <3>1, <3>2
    <2>6. h \in Iterated(S, base, step, k)
        BY <2>4, <2>5 DEF Iterated
    <2> QED BY <1>2, <2>6
<1> QED BY <1>3, <1>4

\* A step on a set can be iterated from any of its elements
LEMMA IterateExists ==
    ASSUME NEW S, NEW base \in S, NEW step \in [S -> S]
    PROVE  \E f \in [Nat -> S] : f[0] = base /\ \A n \in Nat : f[n + 1] = step[f[n]]
<1> DEFINE some(n) == CHOOSE g \in Iterated(S, base, step, n) : TRUE
           f == [n \in Nat |-> some(n)[n]]
<1>1. ASSUME NEW n \in Nat
      PROVE  /\ some(n) \in [0..n -> S] /\ some(n)[0] = base
             /\ \A i \in 0..n - 1 : some(n)[i + 1] = step[some(n)[i]]
             /\ some(n) \in Iterated(S, base, step, n)
    <2>1. some(n) \in Iterated(S, base, step, n)
        BY IteratedSome
    <2> QED BY <2>1 DEF Iterated
<1>2. ASSUME NEW n \in Nat
      PROVE  some(n + 1)[n] = some(n)[n]
    <2>1. n + 1 \in Nat /\ n <= n + 1 /\ n <= n
        OBVIOUS
    <2>2. some(n + 1) \in Iterated(S, base, step, n + 1) /\ some(n) \in Iterated(S, base, step, n)
        BY <1>1, <2>1
    <2> QED BY <2>1, <2>2, IteratedOnce
<1> HIDE DEF some
<1>3. ASSUME NEW n \in Nat
      PROVE  f[n] \in S
    <2>1. n \in 0..n
        OBVIOUS
    <2>2. some(n)[n] \in S
        BY <1>1, <2>1
    <2> QED BY <2>2
<1>4. f[0] = base
    BY <1>1
<1>5. ASSUME NEW n \in Nat
      PROVE  f[n + 1] = step[f[n]]
    <2>1. n + 1 \in Nat /\ n \in 0..(n + 1) - 1
        OBVIOUS
    <2>2. some(n + 1)[n + 1] = step[some(n + 1)[n]]
        BY <1>1, <2>1
    <2> QED BY <1>2, <2>1, <2>2
<1>6. f \in [Nat -> S]
    BY <1>3
<1> QED BY <1>4, <1>5, <1>6

\* A set of naturals with zero and the successor of each of its elements is all of them
LEMMA Induction ==
    ASSUME NEW S \in SUBSET Nat, 0 \in S, \A n \in S : n + 1 \in S
    PROVE  S = Nat
<1> DEFINE rest == Nat \ S
<1>1. SUFFICES ASSUME rest # {}
               PROVE  FALSE
    OBVIOUS
<1>2. PICK n \in rest : \A m \in rest : n <= m
    BY <1>1, LeastElement
<1>3. n # 0 /\ n - 1 \in Nat /\ n - 1 + 1 = n
    OBVIOUS
<1>4. n - 1 \in S
    BY <1>2, <1>3
<1> QED BY <1>2, <1>3, <1>4

\* Steps on a set, each with a number of its own
Numbered(S, step) == \A n \in Nat : step[n] \in [S -> S]

\* What the steps make of the base
Recursion(f, base, step) == f[0] = base /\ \A n \in Nat : f[n + 1] = step[n][f[n]]

LEMMA RecursionExists ==
    ASSUME NEW S, NEW base \in S, NEW step, Numbered(S, step)
    PROVE  \E f \in [Nat -> S] : Recursion(f, base, step)
<1> DEFINE T == Nat \X S
           zero == <<0, base>>
           next == [x \in T |-> <<x[1] + 1, step[x[1]][x[2]]>>]
<1>1. next \in [T -> T] /\ zero \in T
    <2>1. ASSUME NEW x \in T
          PROVE  <<x[1] + 1, step[x[1]][x[2]]>> \in T
        <3>1. x[1] \in Nat /\ x[2] \in S
            OBVIOUS
        <3>2. step[x[1]] \in [S -> S]
            BY <3>1 DEF Numbered
        <3>3. step[x[1]][x[2]] \in S
            BY <3>1, <3>2
        <3> QED BY <3>1, <3>3
    <2> QED BY <2>1
<1>2. PICK it \in [Nat -> T] : it[0] = zero /\ \A n \in Nat : it[n + 1] = next[it[n]]
    <2> HIDE DEF T, next, zero
    <2> QED BY <1>1, IterateExists
<1> DEFINE counted == {n \in Nat : it[n][1] = n}
<1>3. counted = Nat
    <2>1. 0 \in counted
        BY <1>2
    <2>2. ASSUME NEW n \in counted
          PROVE  n + 1 \in counted
        <3>1. it[n] \in T /\ it[n + 1] = <<it[n][1] + 1, step[it[n][1]][it[n][2]]>>
            BY <1>2
        <3> QED BY <3>1
    <2>3. counted \in SUBSET Nat
        OBVIOUS
    <2> HIDE DEF counted
    <2> QED BY <2>1, <2>2, <2>3, Induction
<1> DEFINE f == [n \in Nat |-> it[n][2]]
<1>4. f \in [Nat -> S] /\ f[0] = base
    BY <1>2
<1>5. ASSUME NEW n \in Nat
      PROVE  f[n + 1] = step[n][f[n]]
    <2>1. it[n] \in T /\ it[n + 1] = <<it[n][1] + 1, step[it[n][1]][it[n][2]]>>
        BY <1>2
    <2>2. it[n][1] = n
        BY <1>3
    <2> QED BY <2>1, <2>2
<1> HIDE DEF f
<1> QED BY <1>4, <1>5 DEF Recursion

-----------------------------------------------------------------------------
(* Lists of entries, each with a key of its own *)

Lists(K, V) == Seq([key : K, value : V])

Single(c) == \A i, j \in DOMAIN c : c[i].key = c[j].key => i = j

\* Every entry of d but the one of key k is one of c
KeptBut(d, c, k) == \A i \in DOMAIN d : d[i].key # k => \E j \in DOMAIN c : d[i] = c[j]

LEMMA ListIs ==
    ASSUME NEW K, NEW V, NEW c \in Lists(K, V)
    PROVE  /\ Len(c) \in Nat /\ DOMAIN c = 1..Len(c)
           /\ \A i \in DOMAIN c : /\ c[i] \in [key : K, value : V]
                                  /\ c[i].key \in K /\ c[i].value \in V
<1> DEFINE E == [key : K, value : V]
<1>1. \A e \in E : e.key \in K /\ e.value \in V
    OBVIOUS
<1>2. c \in Seq(E)
    BY DEF Lists
<1> HIDE DEF E
<1>3. Len(c) \in Nat /\ DOMAIN c = 1..Len(c) /\ \A i \in 1..Len(c) : c[i] \in E
    BY <1>2, LenProperties, ElementOfSeq
<1> QED BY <1>1, <1>3 DEF E

LEMMA FoundIs ==
    ASSUME NEW c, NEW k, Cached(c, k)
    PROVE  /\ Position(c, k) \in DOMAIN c
           /\ c[Position(c, k)].key = k
           /\ CachedValue(c, k) = c[Position(c, k)].value
BY DEF Cached, Position, CachedValue

\* What is left of a list after a key's entry is taken out
LEMMA Removed ==
    ASSUME NEW K, NEW V, NEW c \in Lists(K, V), NEW k, Cached(c, k)
    PROVE  LET p == Position(c, k)
               d == CacheDelete(c, k)
           IN  /\ p \in 1..Len(c) /\ c[p].key = k
               /\ d \in Lists(K, V)
               /\ Len(d) = Len(c) - 1
               /\ \A i \in 1..Len(c) - 1 : d[i] = IF i < p THEN c[i] ELSE c[i + 1]
<1> DEFINE p == Position(c, k)
           E == [key : K, value : V]
           low == SubSeq(c, 1, p - 1)
           high == SubSeq(c, p + 1, Len(c))
<1>1. p \in DOMAIN c /\ c[p].key = k
    BY DEF Cached, Position
<1>2. p \in 1..Len(c) /\ Len(c) \in Nat
    BY <1>1, LenProperties DEF Lists
<1>3. \A i \in 1..Len(c) : c[i] \in E
    BY ElementOfSeq DEF Lists
<1>4. CacheDelete(c, k) = low \o high
    BY DEF CacheDelete, RemoveAt
<1> HIDE DEF p, E
<1>5. /\ low \in Seq(E)
      /\ Len(low) = p - 1
      /\ \A i \in 1..p - 1 : low[i] = c[i]
    <2>1. \A i \in 1..p - 1 : c[i] \in E
        BY <1>2, <1>3
    <2>2. /\ low \in Seq(E)
          /\ Len(low) = IF 1 <= p - 1 THEN p - 1 - 1 + 1 ELSE 0
          /\ \A i \in 1..p - 1 - 1 + 1 : low[i] = c[1 + i - 1]
        BY <1>2, <2>1, SubSeqProperties
    <2> HIDE DEF low
    <2> QED BY <1>2, <2>2
<1>6. /\ high \in Seq(E)
      /\ Len(high) = Len(c) - p
      /\ \A i \in 1..Len(c) - p : high[i] = c[p + i]
    <2>1. \A i \in p + 1..Len(c) : c[i] \in E
        BY <1>2, <1>3
    <2>2. /\ high \in Seq(E)
          /\ Len(high) = IF p + 1 <= Len(c) THEN Len(c) - (p + 1) + 1 ELSE 0
          /\ \A i \in 1..Len(c) - (p + 1) + 1 : high[i] = c[p + 1 + i - 1]
        BY <1>2, <2>1, SubSeqProperties
    <2> HIDE DEF high
    <2> QED BY <1>2, <2>2
<1> HIDE DEF low, high
<1> DEFINE w == low \o high
<1>7. /\ w \in Seq(E)
      /\ Len(w) = Len(low) + Len(high)
      /\ \A i \in 1..Len(low) + Len(high) :
             w[i] = IF i <= Len(low) THEN low[i] ELSE high[i - Len(low)]
    BY <1>5, <1>6, ConcatProperties
<1> HIDE DEF w
<1>8. Len(w) = Len(c) - 1
    BY <1>2, <1>5, <1>6, <1>7
<1>9. ASSUME NEW i \in 1..Len(c) - 1
      PROVE  w[i] = IF i < p THEN c[i] ELSE c[i + 1]
    <2>1. i \in 1..Len(low) + Len(high)
        BY <1>2, <1>5, <1>6
    <2>2. CASE i < p
        BY <1>2, <1>5, <1>7, <2>1, <2>2
    <2>3. CASE i >= p
        <3> DEFINE q == i - Len(low)
        <3>1. q \in 1..Len(c) - p /\ ~(i <= Len(low))
            BY <1>2, <1>5, <2>3
        <3>2. w[i] = high[q]
            BY <1>7, <2>1, <3>1
        <3>4. p + q = i + 1 /\ ~(i < p)
            BY <1>2, <1>5, <2>3
        <3> HIDE DEF q
        <3>3. high[q] = c[p + q]
            BY <1>6, <3>1
        <3> QED BY <3>2, <3>3, <3>4
    <2> QED BY <1>2, <2>2, <2>3
<1> QED BY <1>1, <1>2, <1>4, <1>7, <1>8, <1>9 DEF p, w, Lists, E
LEMMA DeleteIs ==
    ASSUME NEW K, NEW V, NEW c \in Lists(K, V), NEW k
    PROVE  /\ CacheDelete(c, k) \in Lists(K, V)
           /\ Len(CacheDelete(c, k)) = IF Cached(c, k) THEN Len(c) - 1 ELSE Len(c)
           /\ KeptBut(CacheDelete(c, k), c, k)
           /\ Single(c) => Single(CacheDelete(c, k)) /\ ~Cached(CacheDelete(c, k), k)
<1> DEFINE d == CacheDelete(c, k)
<1>0. Len(c) \in Nat /\ DOMAIN c = 1..Len(c)
    BY ListIs
<1>1. CASE ~Cached(c, k)
    <2>1. d = c
        BY <1>1 DEF CacheDelete
    <2> QED BY <1>1, <2>1 DEF KeptBut
<1>2. CASE Cached(c, k)
    <2> DEFINE p == Position(c, k)
    <2>1. /\ p \in 1..Len(c) /\ c[p].key = k
          /\ d \in Lists(K, V)
          /\ Len(d) = Len(c) - 1
          /\ \A i \in 1..Len(c) - 1 : d[i] = IF i < p THEN c[i] ELSE c[i + 1]
        BY <1>2, Removed
    <2>2. DOMAIN d = 1..Len(c) - 1
        BY <2>1, ListIs
    <2> HIDE DEF p, d
    <2> DEFINE from == [i \in 1..Len(c) - 1 |-> IF i < p THEN i ELSE i + 1]
    <2>3. /\ \A i \in DOMAIN d : from[i] \in DOMAIN c \ {p} /\ d[i] = c[from[i]]
          /\ \A i, j \in DOMAIN d : from[i] = from[j] => i = j
        BY <1>0, <2>1, <2>2
    <2> HIDE DEF from
    <2>4. KeptBut(d, c, k)
        BY <2>3 DEF KeptBut
    <2>5. Single(c) => Single(d) /\ ~Cached(d, k)
        BY <1>0, <2>1, <2>3 DEF Single, Cached
    <2> QED BY <1>2, <2>1, <2>4, <2>5 DEF d
<1> QED BY <1>1, <1>2

LEMMA MoveToFrontIs ==
    ASSUME NEW K, NEW V, NEW c \in Lists(K, V), NEW k \in K, NEW v \in V
    PROVE  /\ MoveToFront(c, k, v) \in Lists(K, V)
           /\ Len(MoveToFront(c, k, v)) = IF Cached(c, k) THEN Len(c) ELSE Len(c) + 1
           /\ Single(c) => /\ Single(MoveToFront(c, k, v))
                           /\ KeptBut(MoveToFront(c, k, v), c, k)
                           /\ \A i \in DOMAIN MoveToFront(c, k, v) :
                                  MoveToFront(c, k, v)[i].key = k =>
                                      MoveToFront(c, k, v)[i].value = v
<1> DEFINE d == CacheDelete(c, k)
           f == MoveToFront(c, k, v)
           E == [key : K, value : V]
<1>1. /\ d \in Lists(K, V) /\ KeptBut(d, c, k)
      /\ Single(c) => Single(d) /\ ~Cached(d, k)
      /\ Len(d) = IF Cached(c, k) THEN Len(c) - 1 ELSE Len(c)
    BY DeleteIs
<1>2. Len(c) \in Nat /\ Len(d) \in Nat /\ DOMAIN d = 1..Len(d) /\ d \in Seq(E)
    BY <1>1, ListIs DEF Lists
<1>3. /\ <<Entry(k, v)>> \in Seq(E) /\ Len(<<Entry(k, v)>>) = 1
      /\ <<Entry(k, v)>>[1] = Entry(k, v)
    BY DEF Entry
<1>4. f = <<Entry(k, v)>> \o d
    BY DEF MoveToFront
<1> HIDE DEF d, f, E
<1>5. /\ f \in Seq(E)
      /\ Len(f) = Len(d) + 1
      /\ \A i \in 1..Len(d) + 1 : f[i] = IF i <= 1 THEN Entry(k, v) ELSE d[i - 1]
    BY <1>2, <1>3, <1>4, ConcatProperties
<1>6. DOMAIN f = 1..Len(d) + 1
    BY <1>5, LenProperties
<1>7. f[1] = Entry(k, v) /\ \A i \in DOMAIN f \ {1} : i - 1 \in DOMAIN d /\ f[i] = d[i - 1]
    BY <1>2, <1>5, <1>6
<1>8. f[1].key = k /\ f[1].value = v
    BY <1>7 DEF Entry
<1>9. ASSUME Single(c)
      PROVE  /\ Single(f) /\ KeptBut(f, c, k)
             /\ \A i \in DOMAIN f : f[i].key = k => f[i].value = v
    <2>1. \A i \in DOMAIN f \ {1} : f[i].key # k
        BY <1>1, <1>7, <1>9 DEF Cached
    <2>2. KeptBut(f, c, k)
        BY <1>1, <1>7, <1>8 DEF KeptBut
    <2>3. Single(f)
        <3> SUFFICES ASSUME NEW i \in DOMAIN f, NEW j \in DOMAIN f, f[i].key = f[j].key
                     PROVE  i = j
            BY DEF Single
        <3>1. CASE i = 1 \/ j = 1
            BY <1>8, <2>1, <3>1
        <3>2. CASE i # 1 /\ j # 1
            <4>1. i - 1 = j - 1
                BY <1>1, <1>7, <1>9, <3>2 DEF Single
            <4> QED BY <1>6, <4>1, <1>2
        <3> QED BY <3>1, <3>2
    <2> QED BY <1>8, <2>1, <2>2, <2>3
<1>10. Len(f) = IF Cached(c, k) THEN Len(c) ELSE Len(c) + 1
    BY <1>1, <1>2, <1>5
<1>11. f \in Lists(K, V)
    BY <1>5 DEF Lists, E
<1> QED BY <1>9, <1>10, <1>11 DEF f

\* A list without room stays empty
LEMMA PutIs ==
    ASSUME NEW K, NEW V, NEW c \in Lists(K, V), NEW k \in K, NEW v \in V,
           NEW n \in Nat
    PROVE  /\ CachePut(c, n, k, v) \in Lists(K, V)
           /\ Len(c) <= n => Len(CachePut(c, n, k, v)) <= n
           /\ Len(c) <= n /\ Single(c) =>
                  /\ Single(CachePut(c, n, k, v))
                  /\ KeptBut(CachePut(c, n, k, v), c, k)
                  /\ \A i \in DOMAIN CachePut(c, n, k, v) :
                         CachePut(c, n, k, v)[i].key = k => CachePut(c, n, k, v)[i].value = v
<1> DEFINE f == MoveToFront(c, k, v)
           d == CachePut(c, n, k, v)
<1>1. Len(c) \in Nat /\ DOMAIN c = 1..Len(c)
    BY ListIs
<1>2. /\ f \in Lists(K, V) /\ Len(f) <= Len(c) + 1
      /\ Single(c) => /\ Single(f) /\ KeptBut(f, c, k)
                      /\ \A i \in DOMAIN f : f[i].key = k => f[i].value = v
    BY <1>1, MoveToFrontIs
<1>3. Len(f) \in Nat /\ DOMAIN f = 1..Len(f)
    BY <1>2, ListIs
<1>4. CASE n <= 0
    <2>1. d = c
        BY <1>4 DEF CachePut
    <2>2. Len(c) <= n => DOMAIN c = {}
        BY <1>1, <1>4
    <2> QED BY <2>1, <2>2 DEF KeptBut
<1>5. CASE ~(n <= 0) /\ Len(f) <= n
    <2>1. d = f
        BY <1>3, <1>5 DEF CachePut
    <2> QED BY <1>2, <1>5, <2>1
<1>6. CASE ~(n <= 0) /\ Len(f) > n
    <2>1. d = Front(f)
        BY <1>6 DEF CachePut
    <2> DEFINE E == [key : K, value : V]
    <2>2. f \in Seq(E)
        BY <1>2 DEF Lists
    <2>3. d = SubSeq(f, 1, Len(f) - 1)
        BY <2>1 DEF Front
    <2> HIDE DEF f, d, E
    <2>4. \A i \in 1..Len(f) - 1 : f[i] \in E
        <3>1. \A i \in 1..Len(f) : f[i] \in E
            BY <2>2, ElementOfSeq
        <3> QED BY <1>3, <3>1
    <2>5. /\ d \in Seq(E)
          /\ Len(d) = IF 1 <= Len(f) - 1 THEN Len(f) - 1 - 1 + 1 ELSE 0
          /\ \A i \in 1..Len(f) - 1 - 1 + 1 : d[i] = f[1 + i - 1]
        BY <1>3, <2>3, <2>4, SubSeqProperties
    <2>6. d \in Seq(E) /\ Len(d) = Len(f) - 1 /\ \A i \in 1..Len(f) - 1 : d[i] = f[i]
        <3>1. 1 <= Len(f) - 1 /\ Len(f) - 1 - 1 + 1 = Len(f) - 1
            BY <1>3, <1>6
        <3>2. \A i \in 1..Len(f) - 1 : 1 + i - 1 = i
            BY <1>3
        <3> QED BY <2>5, <3>1, <3>2
    <2>7. DOMAIN d = 1..Len(f) - 1
        BY <2>6, LenProperties
    <2>8. DOMAIN d \subseteq DOMAIN f /\ \A i \in DOMAIN d : d[i] = f[i]
        BY <1>3, <2>6, <2>7
    <2>9. Single(c) => /\ Single(d) /\ KeptBut(d, c, k)
                       /\ \A i \in DOMAIN d : d[i].key = k => d[i].value = v
        BY <1>2, <2>8 DEF Single, KeptBut
    <2>10. d \in Lists(K, V)
        BY <2>6 DEF Lists, E
    <2>11. Len(c) <= n => Len(d) <= n
        BY <1>1, <1>2, <1>3, <2>6
    <2> QED BY <2>9, <2>10, <2>11 DEF d
<1> QED BY <1>3, <1>4, <1>5, <1>6

LEMMA GetIs ==
    ASSUME NEW K, NEW V, NEW c \in Lists(K, V), NEW k
    PROVE  /\ CacheGet(c, k) \in Lists(K, V)
           /\ Len(CacheGet(c, k)) = Len(c)
           /\ Single(c) =>
                  /\ Single(CacheGet(c, k))
                  /\ \A i \in DOMAIN CacheGet(c, k) :
                         \E j \in DOMAIN c : CacheGet(c, k)[i] = c[j]
<1> DEFINE f == CacheGet(c, k)
<1>1. CASE ~Cached(c, k)
    <2>1. f = c
        BY <1>1 DEF CacheGet
    <2> QED BY <2>1
<1>2. CASE Cached(c, k)
    <2> DEFINE v == CachedValue(c, k)
    <2>1. PICK p \in DOMAIN c : c[p].key = k /\ c[p].value = v
        BY <1>2, FoundIs
    <2>2. k \in K /\ v \in V
        BY <2>1, ListIs
    <2>3. f = MoveToFront(c, k, v)
        BY <1>2 DEF CacheGet
    <2>4. /\ f \in Lists(K, V) /\ Len(f) = Len(c)
          /\ Single(c) => /\ Single(f) /\ KeptBut(f, c, k)
                          /\ \A i \in DOMAIN f : f[i].key = k => f[i].value = v
        BY <1>2, <2>2, <2>3, MoveToFrontIs
    <2> HIDE DEF f, v
    <2>5. ASSUME Single(c), NEW i \in DOMAIN f
          PROVE  \E j \in DOMAIN c : f[i] = c[j]
        <3>1. CASE f[i].key # k
            BY <2>4, <2>5, <3>1 DEF KeptBut
        <3>2. CASE f[i].key = k
            <4>1. f[i].value = v
                BY <2>4, <2>5, <3>2
            <4>2. f[i] \in [key : K, value : V] /\ c[p] \in [key : K, value : V]
                BY <2>1, <2>4, ListIs
            <4>3. f[i] = c[p]
                BY <2>1, <3>2, <4>1, <4>2
            <4> QED BY <4>3
        <3> QED BY <3>1, <3>2
    <2> QED BY <2>4, <2>5 DEF f
<1> QED BY <1>1, <1>2

=============================================================================
