---------------------------- MODULE MerkleProofs ----------------------------
(***************************************************************************)
(* Proofs about Merkle: the tree's root tells tables of as many entries    *)
(* apart, and ValidateMerkle finds what was changed, for every table whose *)
(* keys and values fit their size, and any damage to the two files.        *)
(***************************************************************************)
EXTENDS Merkle, CommonProofs

-----------------------------------------------------------------------------
(* The tree: a level has as many nodes as any other of a tree of as many   *)
(* leaves, and tells what is below it                                      *)

IsSeq(s) == Len(s) \in Nat /\ s = [i \in 1 .. Len(s) |-> s[i]]

Half(n) == (n + 1) \div 2

LEMMA HalfIs ==
    ASSUME NEW n \in Nat, n > 1
    PROVE  /\ Half(n) \in Nat /\ Half(n) > 0 /\ Half(n) < n
           /\ 2 * Half(n) = n \/ 2 * Half(n) = n + 1
BY DEF Half

LEMMA LevelIs ==
    ASSUME NEW c, IsSeq(c), Len(c) > 1
    PROVE  /\ IsSeq(Level(c)) /\ Len(Level(c)) = Half(Len(c))
           /\ \A i \in 1 .. Half(Len(c)) : Level(c)[i] =
                  Combined(c[2 * i - 1], c[IF 2 * i <= Len(c) THEN 2 * i ELSE 2 * i - 1])
<1> DEFINE k == Half(Len(c))
           node(i) == Combined(c[2 * i - 1], c[IF 2 * i <= Len(c) THEN 2 * i ELSE 2 * i - 1])
<1>1. k \in Nat
    BY HalfIs DEF IsSeq
<1>2. Level(c) = [i \in 1 .. k |-> node(i)]
    BY DEF Level, Half
<1> HIDE DEF k, node
<1>3. Len(Level(c)) = k /\ \A i \in 1 .. k : Level(c)[i] = node(i)
    BY <1>1, <1>2
<1>4. IsSeq(Level(c))
    BY <1>1, <1>2, <1>3 DEF IsSeq
<1> QED BY <1>3, <1>4 DEF k, node

\* An odd node combined with itself is found again in the combination
LEMMA LevelTells ==
    ASSUME NEW c, NEW d, IsSeq(c), IsSeq(d), Len(c) = Len(d), Len(c) > 1, Level(c) = Level(d)
    PROVE  c = d
<1>1. ASSUME NEW j \in 1 .. Len(c)
      PROVE  c[j] = d[j]
    <2>1. Len(c) \in Nat
        BY DEF IsSeq
    <2>2. PICK i \in 1 .. Half(Len(c)) : j = 2 * i - 1 \/ j = 2 * i
        <3>1. Half(j) \in 1 .. Half(Len(c)) /\ (j = 2 * Half(j) - 1 \/ j = 2 * Half(j))
            BY <2>1 DEF Half
        <3> QED BY <3>1
    <2> DEFINE other == IF 2 * i <= Len(c) THEN 2 * i ELSE 2 * i - 1
    <2>3. other = j \/ 2 * i - 1 = j
        BY <2>1, <2>2
    <2>4. Combined(c[2 * i - 1], c[other]) = Combined(d[2 * i - 1], d[other])
        BY <2>2, LevelIs
    <2>5. c[2 * i - 1] = d[2 * i - 1] /\ c[other] = d[other]
        <3> HIDE DEF other
        <3> QED BY <2>4 DEF Combined, Hash
    <2> QED BY <2>3, <2>5
<1> QED BY <1>1 DEF IsSeq

\* How far above the leaves a level may be and have more than one node
Narrow(level, n, leaves) ==
    /\ IsSeq(level)
    /\ Len(leaves) > 0 => Len(level) > 0
    /\ Len(level) <= 1 \/ Len(level) + n <= Len(leaves)

LEMMA AboveIs ==
    ASSUME NEW n \in Nat, NEW leaves, IsSeq(leaves), NEW level, Narrow(level, n, leaves)
    PROVE  Narrow(Above(level), n + 1, leaves)
<1>1. CASE Len(level) <= 1
    BY <1>1 DEF Above, Narrow
<1>2. CASE ~(Len(level) <= 1)
    <2>1. Above(level) = Level(level) /\ IsSeq(level) /\ Len(level) \in Nat /\ Len(level) > 1
        BY <1>2 DEF Above, Narrow, IsSeq
    <2>2. IsSeq(Above(level)) /\ Len(Above(level)) = Half(Len(level))
        BY <2>1, LevelIs
    <2>3. Half(Len(level)) \in Nat /\ Half(Len(level)) > 0 /\ Half(Len(level)) < Len(level)
        BY <2>1, HalfIs
    <2>4. Len(leaves) \in Nat /\ Len(level) + n <= Len(leaves)
        BY <1>2 DEF Narrow, IsSeq
    <2> QED BY <2>1, <2>2, <2>3, <2>4 DEF Narrow
<1> QED BY <1>1, <1>2

\* The levels, counted from the leaves
Climbs(level, leaves, upto) ==
    /\ level[0] = leaves
    /\ \A n \in 0 .. upto - 1 : level[n + 1] = Above(level[n])

LEMMA ClimbsExists ==
    ASSUME NEW leaves
    PROVE  \E g : g = [n \in Nat |-> IF n = 0 THEN leaves ELSE Above(g[n - 1])]
<1> DEFINE bad == {n \in Nat : ~ \E g : Climbs(g, leaves, n)}
<1>1. bad = {}
    <2>1. SUFFICES ASSUME bad # {}
                   PROVE  FALSE
        OBVIOUS
    <2>2. PICK k \in bad : \A l \in bad : k <= l
        <3>1. bad \in SUBSET Nat
            OBVIOUS
        <3> HIDE DEF bad
        <3> QED BY <2>1, <3>1, LeastElement
    <2>3. CASE k = 0
        <3>1. Climbs([n \in {0} |-> leaves], leaves, 0)
            BY DEF Climbs
        <3> QED BY <2>2, <2>3, <3>1
    <2>4. CASE k # 0
        <3>1. PICK m \in Nat : m + 1 = k /\ m \notin bad
            <4>1. k - 1 \in Nat /\ k - 1 + 1 = k /\ ~(k <= k - 1)
                BY <2>4
            <4>2. k - 1 \notin bad
                BY <2>2, <4>1
            <4> QED BY <4>1, <4>2
        <3>2. PICK g : Climbs(g, leaves, m)
            BY <3>1
        <3> DEFINE h == [n \in 0 .. m + 1 |-> IF n <= m THEN g[n] ELSE Above(g[m])]
        <3>3. h[0] = leaves
            BY <3>2 DEF Climbs
        <3>4. ASSUME NEW n \in 0 .. (m + 1) - 1
              PROVE  h[n + 1] = Above(h[n])
            <4>1. CASE n = m
                BY <4>1
            <4>2. CASE n # m
                <5>1. n \in 0 .. m - 1 /\ n + 1 \in 0 .. m + 1 /\ n + 1 <= m /\ n <= m
                    BY <4>2
                <5>2. g[n + 1] = Above(g[n])
                    BY <3>2, <5>1 DEF Climbs
                <5> QED BY <5>1, <5>2
            <4> QED BY <4>1, <4>2
        <3> HIDE DEF h
        <3>5. Climbs(h, leaves, m + 1)
            BY <3>3, <3>4 DEF Climbs
        <3> QED BY <2>2, <3>1, <3>5
    <2> QED BY <2>3, <2>4
<1> DEFINE some(n) == CHOOSE g : Climbs(g, leaves, n)
           f == [n \in Nat |-> some(n)[n]]
<1>2. ASSUME NEW n \in Nat
      PROVE  Climbs(some(n), leaves, n)
    BY <1>1
<1> HIDE DEF some
<1>3. ASSUME NEW n \in Nat
      PROVE  some(n + 1)[n] = some(n)[n]
    <2> DEFINE same == {i \in Nat : i <= n => some(n + 1)[i] = some(n)[i]}
    <2>1. 0 \in same
        BY <1>2 DEF Climbs
    <2>2. ASSUME NEW i \in same
          PROVE  i + 1 \in same
        <3>1. CASE i + 1 <= n
            <4>1. n + 1 \in Nat /\ i \in 0 .. n - 1 /\ i \in 0 .. (n + 1) - 1
                BY <3>1
            <4>2. some(n)[i + 1] = Above(some(n)[i])
                BY <1>2, <4>1 DEF Climbs
            <4>3. some(n + 1)[i + 1] = Above(some(n + 1)[i])
                BY <1>2, <4>1 DEF Climbs
            <4> QED BY <4>1, <4>2, <4>3
        <3>2. CASE ~(i + 1 <= n)
            BY <3>2
        <3> QED BY <3>1, <3>2
    <2>3. same \in SUBSET Nat
        OBVIOUS
    <2>4. same = Nat
        <3> HIDE DEF same
        <3> QED BY <2>1, <2>2, <2>3, Induction
    <2> QED BY <2>4
<1>4. ASSUME NEW n \in Nat
      PROVE  f[n] = IF n = 0 THEN leaves ELSE Above(f[n - 1])
    <2>1. CASE n = 0
        BY <1>2, <2>1 DEF Climbs
    <2>2. CASE n # 0
        <3>1. PICK m \in Nat : m = n - 1 /\ m + 1 = n /\ m \in 0 .. n - 1
            BY <2>2
        <3>2. some(n)[m + 1] = Above(some(n)[m])
            BY <1>2, <3>1 DEF Climbs
        <3>3. some(n)[m] = some(m)[m]
            BY <1>3, <3>1
        <3> QED BY <2>2, <3>1, <3>2, <3>3
    <2> QED BY <2>1, <2>2
<1> DEFINE e(n) == IF n = 0 THEN leaves ELSE Above(f[n - 1])
<1>5. f = [n \in Nat |-> f[n]]
    OBVIOUS
<1> HIDE DEF f
<1>6. f = [n \in Nat |-> IF n = 0 THEN leaves ELSE Above(f[n - 1])]
    BY <1>4, <1>5
<1> QED BY <1>6

\* The root is the node left of the level above as many as there are leaves
RootOf(level, leaves) ==
    /\ Root(leaves) = level[Len(leaves)][1]
    /\ level[0] = leaves
    /\ \A n \in Nat : level[n + 1] = Above(level[n])

LEMMA RootIs ==
    ASSUME NEW leaves
    PROVE  \E level : RootOf(level, leaves)
<1> DEFINE level == CHOOSE g : g = [n \in Nat |-> IF n = 0 THEN leaves ELSE Above(g[n - 1])]
<1>1. Root(leaves) = level[Len(leaves)][1]
    BY DEF Root
<1>2. level = [n \in Nat |-> IF n = 0 THEN leaves ELSE Above(level[n - 1])]
    BY ClimbsExists
<1> HIDE DEF level
<1>3. level[0] = leaves
    BY <1>2
<1>4. ASSUME NEW n \in Nat
      PROVE  level[n + 1] = Above(level[n])
    <2>1. n + 1 \in Nat /\ n + 1 # 0 /\ (n + 1) - 1 = n
        OBVIOUS
    <2>2. level[n + 1] = IF n + 1 = 0 THEN leaves ELSE Above(level[(n + 1) - 1])
        BY <1>2, <2>1
    <2> QED BY <2>1, <2>2
<1>5. RootOf(level, leaves)
    BY <1>1, <1>3, <1>4 DEF RootOf
<1> QED BY <1>5

LEMMA LevelsNarrow ==
    ASSUME NEW leaves, IsSeq(leaves), NEW level, RootOf(level, leaves), NEW n \in Nat
    PROVE  Narrow(level[n], n, leaves)
<1> DEFINE good == {i \in Nat : Narrow(level[i], i, leaves)}
<1>1. 0 \in good
    BY DEF RootOf, Narrow, IsSeq
<1>2. ASSUME NEW i \in good
      PROVE  i + 1 \in good
    <2>1. i \in Nat /\ Narrow(level[i], i, leaves) /\ level[i + 1] = Above(level[i])
        BY DEF RootOf
    <2>2. Narrow(Above(level[i]), i + 1, leaves)
        BY <2>1, AboveIs
    <2> QED BY <2>1, <2>2
<1>3. good \in SUBSET Nat
    OBVIOUS
<1>4. good = Nat
    <2> HIDE DEF good
    <2> QED BY <1>1, <1>2, <1>3, Induction
<1> QED BY <1>4

Tells(a, b, leaves, others) == Len(a) = Len(b) /\ (a = b => leaves = others)

\* Leaves of as many entries with one root are the same leaves
LEMMA RootTells ==
    ASSUME NEW leaves, NEW others, IsSeq(leaves), IsSeq(others), Len(leaves) = Len(others),
           Root(leaves) = Root(others)
    PROVE  leaves = others
<1>1. PICK a : RootOf(a, leaves)
    BY RootIs
<1>2. PICK b : RootOf(b, others)
    BY RootIs
<1> DEFINE good == {i \in Nat : Tells(a[i], b[i], leaves, others)}
<1>3. 0 \in good
    BY <1>1, <1>2 DEF RootOf, Tells
<1>4. ASSUME NEW i \in good
      PROVE  i + 1 \in good
    <2>1. i \in Nat /\ Tells(a[i], b[i], leaves, others)
        OBVIOUS
    <2>2. a[i + 1] = Above(a[i]) /\ b[i + 1] = Above(b[i])
        BY <1>1, <1>2, <2>1 DEF RootOf
    <2>3. IsSeq(a[i]) /\ IsSeq(b[i])
        <3>1. Narrow(a[i], i, leaves) /\ Narrow(b[i], i, others)
            BY <1>1, <1>2, <2>1, LevelsNarrow
        <3> QED BY <3>1 DEF Narrow
    <2>4. CASE Len(a[i]) <= 1
        <3>1. Above(a[i]) = a[i] /\ Above(b[i]) = b[i]
            BY <2>1, <2>4 DEF Tells, Above
        <3> QED BY <2>1, <2>2, <3>1
    <2>5. CASE ~(Len(a[i]) <= 1)
        <3>1. Above(a[i]) = Level(a[i]) /\ Above(b[i]) = Level(b[i])
            BY <2>1, <2>5 DEF Tells, Above
        <3>2. Len(a[i]) > 1 /\ Len(b[i]) = Len(a[i])
            BY <2>1, <2>3, <2>5 DEF IsSeq, Tells
        <3>3. Len(Level(a[i])) = Len(Level(b[i]))
            BY <2>3, <3>2, LevelIs
        <3>4. Level(a[i]) = Level(b[i]) => a[i] = b[i]
            BY <2>3, <3>2, LevelTells
        <3>5. Tells(Level(a[i]), Level(b[i]), leaves, others)
            BY <2>1, <3>3, <3>4 DEF Tells
        <3> QED BY <2>1, <2>2, <3>1, <3>5
    <2> QED BY <2>4, <2>5
<1>5. good = Nat
    <2>1. good \in SUBSET Nat
        OBVIOUS
    <2> HIDE DEF good
    <2> QED BY <1>3, <1>4, <2>1, Induction
<1>6. PICK n \in Nat : n = Len(leaves)
    BY DEF IsSeq
<1>7. Tells(a[n], b[n], leaves, others)
    BY <1>5
<1>8. CASE n = 0
    BY <1>6, <1>8 DEF IsSeq
<1>9. CASE n # 0
    <2>1. Narrow(a[n], n, leaves) /\ Narrow(b[n], n, others)
        BY <1>1, <1>2, LevelsNarrow
    <2>2. PICK one \in Nat : one = 1
        OBVIOUS
    <2>3. IsSeq(a[n]) /\ IsSeq(b[n]) /\ Len(a[n]) = Len(b[n])
        BY <1>7, <2>1 DEF Narrow, Tells
    <2>4. Len(a[n]) = one
        <3>1. PICK l : l = Len(a[n])
            OBVIOUS
        <3>2. l \in Nat
            BY <2>1, <3>1 DEF Narrow, IsSeq
        <3>3. l > 0
            BY <1>6, <1>9, <2>1, <3>1 DEF Narrow
        <3>4. l <= 1 \/ l + n <= n
            BY <1>6, <2>1, <3>1 DEF Narrow
        <3>5. ~(l + n <= n)
            BY <3>2, <3>3
        <3>6. one <= l /\ l <= one
            BY <2>2, <3>2, <3>3, <3>4, <3>5
        <3>7. l = one
            BY <3>2, <3>6
        <3> QED BY <3>1, <3>7
    <2>5. a[n][one] = b[n][one]
        BY <1>1, <1>2, <1>6, <2>2 DEF RootOf
    <2>6. a[n] = b[n]
        BY <2>2, <2>3, <2>4, <2>5 DEF IsSeq
    <2> QED BY <1>7, <2>6 DEF Tells
<1> QED BY <1>8, <1>9

-----------------------------------------------------------------------------
(* The bytes of an entry *)

Fits(e) ==
    /\ e \in [deleted : BOOLEAN, key : Seq(Byte), value : Seq(Byte)]
    /\ Len(e.key) \in Byte /\ Len(e.value) \in Byte

Flag(e) == IF e.deleted THEN 1 ELSE 0

SerialSize(e) == 3 + Len(e.key) + Len(e.value)

\* Which byte is which
IsSerial(s, e) ==
    /\ s \in Seq(Byte) /\ Len(s) = SerialSize(e) /\ SerialSize(e) \in Nat
    /\ s[1] = Flag(e) /\ s[2] = Len(e.key) /\ s[3] = Len(e.value)
    /\ \A j \in 1 .. Len(e.key) : s[3 + j] = e.key[j]
    /\ \A j \in 1 .. Len(e.value) : s[3 + Len(e.key) + j] = e.value[j]

LEMMA BytesAre ==
    Byte \subseteq Nat /\ 0 \in Byte /\ 1 \in Byte
BY MerkleAssumption DEF Byte

IsJoined(s, a, b) ==
    /\ s \in Seq(Byte) /\ Len(s) = Len(a) + Len(b)
    /\ \A j \in 1 .. Len(a) : s[j] = a[j]
    /\ \A j \in 1 .. Len(b) : s[Len(a) + j] = b[j]

LEMMA JoinedIs ==
    ASSUME NEW a \in Seq(Byte), NEW b \in Seq(Byte)
    PROVE  IsJoined(a \o b, a, b)
<1> DEFINE s == a \o b
<1>1. Len(a) \in Nat /\ Len(b) \in Nat
    OBVIOUS
<1>2. s \in Seq(Byte) /\ Len(s) = Len(a) + Len(b)
    BY ConcatProperties
<1>3. \A j \in 1 .. Len(a) : s[j] = a[j]
    BY <1>1
<1>4. ASSUME NEW j \in 1 .. Len(b)
      PROVE  s[Len(a) + j] = b[j]
    BY <1>1
<1> HIDE DEF s
<1>5. IsJoined(s, a, b)
    BY <1>2, <1>3, <1>4 DEF IsJoined
<1> QED BY <1>5 DEF s

LEMMA SerialIs ==
    ASSUME NEW e, Fits(e)
    PROVE  IsSerial(SerializeEntry(e), e)
<1>1. PICK k : k = e.key
    OBVIOUS
<1>2. PICK v : v = e.value
    OBVIOUS
<1>3. PICK m \in Nat : m = Len(k)
    BY <1>1 DEF Fits
<1>4. PICK n \in Nat : n = Len(v)
    BY <1>2 DEF Fits
<1>5. k \in Seq(Byte) /\ v \in Seq(Byte) /\ m \in Byte /\ n \in Byte
    BY <1>1, <1>2, <1>3, <1>4 DEF Fits
<1>6. PICK f \in Byte : f = Flag(e)
    BY BytesAre DEF Flag
<1>7. PICK h : h = <<f, m, n>>
    OBVIOUS
<1>8. h \in Seq(Byte) /\ Len(h) = 3 /\ h[1] = f /\ h[2] = m /\ h[3] = n
    BY <1>5, <1>7
<1> DEFINE hk == h \o k
           s == hk \o v
<1>9. SerializeEntry(e) = s
    BY <1>1, <1>2, <1>3, <1>4, <1>6, <1>7 DEF SerializeEntry, Flag
<1>10. IsJoined(hk, h, k)
    BY <1>5, <1>8, JoinedIs
<1> HIDE DEF hk
<1>11. hk \in Seq(Byte) /\ Len(hk) = 3 + m
    BY <1>3, <1>8, <1>10 DEF IsJoined
<1>12. IsJoined(s, hk, v)
    BY <1>5, <1>11, JoinedIs
<1> HIDE DEF s
<1>13. s \in Seq(Byte) /\ Len(s) = 3 + m + n
    BY <1>4, <1>11, <1>12 DEF IsJoined
<1>14. ASSUME NEW j \in 1 .. 3
       PROVE  s[j] = h[j]
    <2>1. j \in 1 .. Len(hk) /\ j \in 1 .. Len(h)
        BY <1>8, <1>11
    <2> QED BY <1>10, <1>12, <2>1 DEF IsJoined
<1>15. ASSUME NEW j \in 1 .. m
       PROVE  s[3 + j] = k[j]
    <2>1. PICK l \in Nat : l = 3 + j /\ l \in 1 .. Len(hk)
        BY <1>11
    <2>2. hk[3 + j] = k[j]
        BY <1>3, <1>8, <1>10 DEF IsJoined
    <2>3. s[l] = hk[l]
        BY <1>12, <2>1 DEF IsJoined
    <2> QED BY <2>1, <2>2, <2>3
<1>16. \A j \in 1 .. n : s[3 + m + j] = v[j]
    BY <1>4, <1>11, <1>12 DEF IsJoined
<1>17. s[1] = f /\ s[2] = m /\ s[3] = n
    <2>1. s[1] = h[1] /\ s[2] = h[2] /\ s[3] = h[3]
        BY <1>14
    <2> QED BY <1>8, <2>1
<1>18. SerialSize(e) = 3 + m + n
    BY <1>1, <1>2, <1>3, <1>4 DEF SerialSize
<1>19. IsSerial(s, e)
    <2>1. Len(s) = SerialSize(e) /\ SerialSize(e) \in Nat
        BY <1>13, <1>18
    <2>2. \A j \in 1 .. Len(e.key) : s[3 + j] = e.key[j]
        BY <1>1, <1>3, <1>15
    <2>3. \A j \in 1 .. Len(e.value) : s[3 + Len(e.key) + j] = e.value[j]
        BY <1>1, <1>2, <1>3, <1>4, <1>16
    <2> QED BY <1>1, <1>2, <1>3, <1>4, <1>6, <1>13, <1>17, <2>1, <2>2, <2>3 DEF IsSerial
<1> QED BY <1>9, <1>19

\* The entry found behind the first p bytes has these bytes again, but for a flag that is
\* neither 0 nor 1
IsReread(s, p) ==
    /\ s \in Seq(Byte) /\ Len(s) = EntryEnd(p) - p /\ EntryEnd(p) - p \in Nat
    /\ EntryEnd(p) - p >= 3
    /\ s[1] = (IF data[p + 1] = 1 THEN 1 ELSE 0)
    /\ \A j \in 2 .. EntryEnd(p) - p : s[j] = data[p + j]

LEMMA OutcomeIs ==
    ASSUME data \in Seq(Byte), NEW p \in Nat
    PROVE  Outcome(p) = "ok" <=>
               /\ p + 3 <= Len(data) /\ EntryEnd(p) <= Len(data)
               /\ KeySize(p) \in Byte /\ ValueSize(p) \in Byte
<1>1. Len(data) \in Nat
    OBVIOUS
<1>2. CASE p + 3 <= Len(data)
    <2>1. KeySize(p) \in Byte /\ ValueSize(p) \in Byte
        BY <1>1, <1>2 DEF KeySize, ValueSize
    <2>2. KeySize(p) \in Nat /\ ValueSize(p) \in Nat
        BY <2>1, BytesAre
    <2>3. ReadFull(p, 3) = "ok"
        BY <1>1, <1>2 DEF ReadFull
    <2> DEFINE k == KeySize(p)
               v == ValueSize(p)
    <2>4. Outcome(p) = IF ReadFull(p + 3, k) # "ok" THEN ReadFull(p + 3, k)
                       ELSE ReadFull(p + 3 + k, v)
        BY <2>3 DEF Outcome, HeaderSize
    <2>5. EntryEnd(p) = p + 3 + k + v
        BY DEF EntryEnd, HeaderSize
    <2> HIDE DEF k, v
    <2>6. k \in Nat /\ v \in Nat
        BY <2>2 DEF k, v
    <2>7. ReadFull(p + 3, k) = "ok" <=> p + 3 + k <= Len(data)
        BY <1>1, <1>2, <2>6 DEF ReadFull
    <2>8. p + 3 + k <= Len(data) =>
              (ReadFull(p + 3 + k, v) = "ok" <=> p + 3 + k + v <= Len(data))
        BY <1>1, <2>6 DEF ReadFull
    <2>9. Outcome(p) = "ok" <=> p + 3 + k + v <= Len(data)
        BY <1>1, <2>4, <2>6, <2>7, <2>8
    <2> QED BY <1>2, <2>1, <2>5, <2>9
<1>3. CASE ~(p + 3 <= Len(data))
    <2>1. ReadFull(p, 3) # "ok"
        BY <1>1, <1>3 DEF ReadFull
    <2> QED BY <1>3, <2>1 DEF Outcome, HeaderSize
<1> QED BY <1>2, <1>3

\* What an entry that can be read is made of
Readable(p) ==
    /\ KeySize(p) \in Byte /\ ValueSize(p) \in Byte
    /\ KeySize(p) \in Nat /\ ValueSize(p) \in Nat
    /\ EntryEnd(p) \in Nat /\ EntryEnd(p) = p + 3 + KeySize(p) + ValueSize(p)
    /\ EntryEnd(p) <= Len(data)

LEMMA ReadableIs ==
    ASSUME data \in Seq(Byte), NEW p \in Nat, Outcome(p) = "ok"
    PROVE  Readable(p)
<1>1. /\ EntryEnd(p) <= Len(data) /\ KeySize(p) \in Byte /\ ValueSize(p) \in Byte
    BY OutcomeIs
<1>2. KeySize(p) \in Nat /\ ValueSize(p) \in Nat
    BY <1>1, BytesAre
<1>3. EntryEnd(p) = p + 3 + KeySize(p) + ValueSize(p)
    BY DEF EntryEnd, HeaderSize
<1> QED BY <1>1, <1>2, <1>3 DEF Readable

IsPart(s, from, n) ==
    s \in Seq(Byte) /\ Len(s) = n /\ \A j \in 1 .. n : s[j] = data[from + j]

LEMMA PartIs ==
    ASSUME data \in Seq(Byte), NEW from \in Nat, NEW n \in Nat, from + n <= Len(data)
    PROVE  IsPart(SubSeq(data, from + 1, from + n), from, n)
<1> DEFINE s == SubSeq(data, from + 1, from + n)
<1>1. \A i \in from + 1 .. from + n : i \in 1 .. Len(data)
    OBVIOUS
<1>2. s \in Seq(Byte) /\ Len(s) = n
    BY <1>1, SubSeqProperties
<1>3. ASSUME NEW j \in 1 .. n
      PROVE  s[j] = data[from + j]
    BY <1>1, SubSeqProperties
<1> QED BY <1>2, <1>3 DEF IsPart

IsRead(e, p) ==
    /\ Fits(e) /\ Len(e.key) = KeySize(p) /\ Len(e.value) = ValueSize(p)
    /\ Flag(e) = (IF data[p + 1] = 1 THEN 1 ELSE 0)
    /\ \A j \in 1 .. KeySize(p) : e.key[j] = data[p + 3 + j]
    /\ \A j \in 1 .. ValueSize(p) : e.value[j] = data[p + 3 + KeySize(p) + j]

LEMMA EntryIs ==
    ASSUME data \in Seq(Byte), NEW p \in Nat, Outcome(p) = "ok"
    PROVE  IsRead(EntryAt(p), p)
<1> DEFINE k == KeySize(p)
           v == ValueSize(p)
           key == SubSeq(data, p + 3 + 1, p + 3 + k)
           value == SubSeq(data, p + 3 + k + 1, p + 3 + k + v)
<1>1. Readable(p)
    BY ReadableIs
<1>2. k \in Nat /\ v \in Nat /\ k \in Byte /\ v \in Byte /\ p + 3 + k + v <= Len(data)
    BY <1>1 DEF Readable
<1>3. EntryAt(p) = [deleted |-> data[p + 1] = 1, key |-> key, value |-> value]
    BY <1>1 DEF EntryAt, Readable, HeaderSize
<1> HIDE DEF k, v
<1>4. IsPart(key, p + 3, k)
    <2>1. p + 3 \in Nat /\ p + 3 + k <= Len(data)
        BY <1>2
    <2> QED BY <1>2, <2>1, PartIs
<1>5. IsPart(value, p + 3 + k, v)
    <2>1. p + 3 + k \in Nat
        BY <1>2
    <2> QED BY <1>2, <2>1, PartIs
<1> HIDE DEF key, value
<1> DEFINE e == EntryAt(p)
<1>6. e.key = key /\ e.value = value /\ e.deleted = (data[p + 1] = 1)
    BY <1>3
<1>7. e \in [deleted : BOOLEAN, key : Seq(Byte), value : Seq(Byte)]
    BY <1>3, <1>4, <1>5 DEF IsPart
<1> HIDE DEF e
<1>8. Fits(e)
    BY <1>2, <1>4, <1>5, <1>6, <1>7 DEF IsPart, Fits
<1>9. Flag(e) = IF data[p + 1] = 1 THEN 1 ELSE 0
    BY <1>6 DEF Flag
<1>10. IsRead(e, p)
    BY <1>4, <1>5, <1>6, <1>8, <1>9 DEF IsPart, IsRead, k, v
<1> QED BY <1>10 DEF e

LEMMA RereadIs ==
    ASSUME data \in Seq(Byte), NEW p \in Nat, Outcome(p) = "ok"
    PROVE  IsReread(SerializeEntry(EntryAt(p)), p)
<1> DEFINE k == KeySize(p)
           v == ValueSize(p)
           e == EntryAt(p)
           s == SerializeEntry(e)
           n == EntryEnd(p) - p
<1>1. IsRead(e, p) /\ Readable(p)
    BY EntryIs, ReadableIs
<1>2. IsSerial(s, e)
    <2> HIDE DEF e
    <2> QED BY <1>1, SerialIs DEF IsRead
<1> HIDE DEF e, s
<1>3. k \in Nat /\ v \in Nat /\ n = 3 + k + v
    BY <1>1 DEF Readable
<1>4. s \in Seq(Byte) /\ Len(s) = 3 + k + v
    BY <1>1, <1>2 DEF IsSerial, IsRead, SerialSize
<1>5. s[1] = IF data[p + 1] = 1 THEN 1 ELSE 0
    BY <1>1, <1>2 DEF IsSerial, IsRead
<1>6. s[2] = data[p + 2] /\ s[3] = data[p + 3]
    BY <1>1, <1>2 DEF IsSerial, IsRead, KeySize, ValueSize
<1>7. ASSUME NEW j \in 2 .. n
      PROVE  s[j] = data[p + j]
    <2>1. CASE j <= 3
        <3>1. j = 2 \/ j = 3
            BY <2>1
        <3> QED BY <1>6, <3>1
    <2>2. CASE j > 3 /\ j <= 3 + k
        <3>1. PICK l \in Nat : l = j - 3 /\ 3 + l = j /\ p + 3 + l = p + j /\ l \in 1 .. k
            BY <1>3, <2>2
        <3>2. s[3 + l] = e.key[l] /\ e.key[l] = data[p + 3 + l]
            BY <1>1, <1>2, <3>1 DEF IsSerial, IsRead
        <3> QED BY <3>1, <3>2
    <2>3. CASE j > 3 + k
        <3>1. PICK l \in Nat : 3 + k + l = j /\ p + 3 + k + l = p + j /\ l \in 1 .. v
            <4> HIDE DEF k, v, n
            <4>1. j - 3 - k \in Nat /\ 3 + k + (j - 3 - k) = j /\ j - 3 - k \in 1 .. v
                BY <1>3, <2>3
            <4> QED BY <1>3, <4>1
        <3>2. s[3 + k + l] = e.value[l] /\ e.value[l] = data[p + 3 + k + l]
            BY <1>1, <1>2, <3>1 DEF IsSerial, IsRead
        <3> QED BY <3>1, <3>2
    <2> QED BY <1>3, <2>1, <2>2, <2>3
<1>8. IsReread(s, p)
    BY <1>3, <1>4, <1>5, <1>7 DEF IsReread
<1> QED BY <1>8 DEF s, e

-----------------------------------------------------------------------------
(* Where the entries were written *)

\* What was written of the first n entries
Laid(h, t) ==
    /\ h \in [Nat -> Seq(Byte)]
    /\ h[0] = <<>>
    /\ \A n \in 0 .. Len(t) - 1 : h[n + 1] = h[n] \o SerializeEntry(t[n + 1])

LEMMA LaidExists ==
    ASSUME NEW t, Len(t) \in Nat, \A i \in 1 .. Len(t) : Fits(t[i])
    PROVE  \E h : Laid(h, t)
<1> DEFINE S == Seq(Byte)
           step == [n \in Nat |-> [s \in S |->
                       IF n + 1 \in 1 .. Len(t) THEN s \o SerializeEntry(t[n + 1]) ELSE s]]
<1>1. Numbered(S, step)
    <2>1. ASSUME NEW n \in Nat, n + 1 \in 1 .. Len(t), NEW s \in S
          PROVE  s \o SerializeEntry(t[n + 1]) \in S
        <3>1. SerializeEntry(t[n + 1]) \in Seq(Byte)
            <4>1. Fits(t[n + 1])
                BY <2>1
            <4> QED BY <4>1, SerialIs DEF IsSerial
        <3> QED BY <3>1, ConcatProperties
    <2> HIDE DEF S
    <2> QED BY <2>1 DEF Numbered
<1>2. <<>> \in S
    OBVIOUS
<1>3. PICK h \in [Nat -> S] : Recursion(h, <<>>, step)
    <2> HIDE DEF S, step
    <2> QED BY <1>1, <1>2, RecursionExists
<1>4. ASSUME NEW n \in 0 .. Len(t) - 1
      PROVE  h[n + 1] = h[n] \o SerializeEntry(t[n + 1])
    <2>1. n \in Nat /\ n + 1 \in 1 .. Len(t)
        OBVIOUS
    <2>2. h[n + 1] = step[n][h[n]] /\ h[n] \in S
        BY <1>3, <2>1 DEF Recursion
    <2> QED BY <2>1, <2>2
<1>5. Laid(h, t)
    BY <1>3, <1>4 DEF Laid, Recursion
<1> QED BY <1>5

\* FlattenSeq of a part of the entries
Flat(t, n) == FlattenSeq(Serialized(SubSeq(t, 1, n)))

LEMMA FlatIs ==
    ASSUME NEW t, t \in Seq([deleted : BOOLEAN, key : Seq(Byte), value : Seq(Byte)]),
           \A i \in 1 .. Len(t) : Fits(t[i]), NEW h, Laid(h, t), NEW n \in 0 .. Len(t)
    PROVE  Flat(t, n) = h[n]
<1> DEFINE part == SubSeq(t, 1, n)
           seqs == Serialized(part)
<1>1. n \in Nat /\ Len(t) \in Nat
    OBVIOUS
<1>2. Len(part) = n /\ \A i \in 1 .. n : part[i] = t[i]
    <2>1. part = [i \in 1 .. n |-> t[i]]
        BY <1>1
    <2> HIDE DEF part
    <2> QED BY <1>1, <2>1
<1>3. DOMAIN part = 1 .. n
    BY <1>1
<1>4. seqs = [i \in 1 .. n |-> SerializeEntry(t[i])]
    <2> HIDE DEF part
    <2> QED BY <1>2, <1>3 DEF Serialized
<1> HIDE DEF part
<1>5. Len(seqs) = n /\ \A i \in 1 .. n : seqs[i] = SerializeEntry(t[i])
    <2> HIDE DEF seqs
    <2> QED BY <1>1, <1>4
<1> HIDE DEF seqs
<1>6. Flat(t, n) = FlattenSeq(seqs)
    BY DEF Flat, seqs, part
<1>7. CASE n = 0
    <2>1. seqs = <<>>
        BY <1>4, <1>7
    <2> QED BY <1>5, <1>6, <1>7, <2>1 DEF FlattenSeq, Laid
<1>8. CASE n # 0
    <2> DEFINE f == CHOOSE f : f = [i \in 1 .. Len(seqs) |->
                                       IF i = 1 THEN seqs[i] ELSE f[i - 1] \o seqs[i]]
    <2>1. FlattenSeq(seqs) = f[n]
        BY <1>5, <1>8 DEF FlattenSeq
    <2> DEFINE g == [i \in 1 .. n |-> h[i]]
    <2>2. ASSUME NEW i \in 1 .. n
          PROVE  g[i] = IF i = 1 THEN seqs[i] ELSE g[i - 1] \o seqs[i]
        <3>1. PICK l \in Nat : l + 1 = i /\ l = i - 1 /\ l \in 0 .. Len(t) - 1
            BY <1>1
        <3>2. h[i] = h[l] \o seqs[i]
            BY <1>5, <3>1 DEF Laid
        <3>3. seqs[i] \in Seq(Byte)
            <4>1. Fits(t[i])
                BY <1>1
            <4>2. IsSerial(SerializeEntry(t[i]), t[i])
                BY <4>1, SerialIs
            <4> QED BY <1>5, <4>2 DEF IsSerial
        <3>4. CASE i = 1
            <4>1. h[l] = <<>>
                BY <3>1, <3>4 DEF Laid
            <4> QED BY <3>2, <3>3, <3>4, <4>1
        <3>5. CASE i # 1
            <4>1. i - 1 \in 1 .. n
                BY <1>1, <3>5
            <4> QED BY <3>1, <3>2, <3>5, <4>1
        <3> QED BY <3>4, <3>5
    <2>3. g = [i \in 1 .. Len(seqs) |-> IF i = 1 THEN seqs[i] ELSE g[i - 1] \o seqs[i]]
        <3>1. g = [i \in 1 .. n |-> g[i]]
            OBVIOUS
        <3> HIDE DEF g
        <3> QED BY <1>5, <2>2, <3>1
    <2>4. f = [i \in 1 .. Len(seqs) |-> IF i = 1 THEN seqs[i] ELSE f[i - 1] \o seqs[i]]
        <3> HIDE DEF g
        <3> QED BY <2>3
    <2> HIDE DEF f
    <2> DEFINE same == {i \in Nat : i \in 1 .. n => f[i] = g[i]}
    <2>5. same = Nat
        <3>1. 0 \in same
            OBVIOUS
        <3>2. ASSUME NEW i \in same
              PROVE  i + 1 \in same
            <4> HIDE DEF g
            <4>1. SUFFICES ASSUME i + 1 \in 1 .. n
                           PROVE  f[i + 1] = g[i + 1]
                OBVIOUS
            <4>2. PICK j \in 1 .. n : j = i + 1 /\ j - 1 = i
                BY <4>1
            <4>3. f[j] = IF j = 1 THEN seqs[j] ELSE f[j - 1] \o seqs[j]
                BY <1>5, <2>4
            <4>4. g[j] = IF j = 1 THEN seqs[j] ELSE g[j - 1] \o seqs[j]
                BY <2>2
            <4>5. CASE j = 1
                BY <4>2, <4>3, <4>4, <4>5
            <4>6. CASE j # 1
                <5>1. i \in 1 .. n
                    BY <1>1, <4>2, <4>6
                <5>2. f[i] = g[i]
                    BY <5>1
                <5> QED BY <4>2, <4>3, <4>4, <4>6, <5>2
            <4> QED BY <4>5, <4>6
        <3>3. same \in SUBSET Nat
            OBVIOUS
        <3> HIDE DEF same
        <3> QED BY <3>1, <3>2, <3>3, Induction
    <2>6. n \in 1 .. n
        BY <1>1, <1>8
    <2>7. f[n] = h[n]
        BY <1>1, <2>5, <2>6
    <2> QED BY <1>6, <2>1, <2>7
<1> QED BY <1>7, <1>8

Begins(a, b) == Len(a) <= Len(b) /\ \A j \in 1 .. Len(a) : b[j] = a[j]

LEMMA LaidGrows ==
    ASSUME NEW t, Len(t) \in Nat, \A i \in 1 .. Len(t) : Fits(t[i]), NEW h, Laid(h, t),
           NEW m \in Nat, NEW n \in Nat, m <= n, n <= Len(t)
    PROVE  Begins(h[m], h[n])
<1> DEFINE good == {i \in Nat : m <= i /\ i <= Len(t) => Begins(h[m], h[i])}
<1>1. ASSUME NEW i \in Nat
      PROVE  h[i] \in Seq(Byte)
    BY DEF Laid
<1>2. Begins(h[m], h[m])
    <2>1. Len(h[m]) \in Nat
        BY <1>1
    <2> QED BY <2>1 DEF Begins
<1>3. 0 \in good
    <2>1. m <= 0 => m = 0
        OBVIOUS
    <2> QED BY <1>2, <2>1
<1>4. ASSUME NEW i \in good
      PROVE  i + 1 \in good
    <2>1. SUFFICES ASSUME m <= i + 1, i + 1 <= Len(t)
                   PROVE  Begins(h[m], h[i + 1])
        OBVIOUS
    <2>2. CASE m = i + 1
        BY <1>2, <2>2
    <2>3. CASE m # i + 1
        <3>1. i \in Nat /\ m <= i /\ i <= Len(t) /\ i \in 0 .. Len(t) - 1 /\ i + 1 \in 1 .. Len(t)
            BY <2>1, <2>3
        <3>2. Begins(h[m], h[i])
            BY <3>1
        <3>3. h[i + 1] = h[i] \o SerializeEntry(t[i + 1])
            BY <3>1 DEF Laid
        <3>4. SerializeEntry(t[i + 1]) \in Seq(Byte)
            <4>1. Fits(t[i + 1])
                BY <3>1
            <4> QED BY <4>1, SerialIs DEF IsSerial
        <3>5. IsJoined(h[i + 1], h[i], SerializeEntry(t[i + 1]))
            BY <1>1, <3>1, <3>3, <3>4, JoinedIs
        <3> DEFINE u == Len(h[m])
                   v == Len(h[i])
                   w == Len(h[i + 1])
                   s == Len(SerializeEntry(t[i + 1]))
        <3>6. v \in Nat /\ s \in Nat /\ u \in Nat
            BY <1>1, <3>1, <3>4
        <3>7. w = v + s /\ u <= v
            BY <3>2, <3>5 DEF Begins, IsJoined
        <3>8. u <= v /\ u <= w
            <4> HIDE DEF u, v, w, s
            <4> QED BY <3>6, <3>7
        <3>9. ASSUME NEW j \in 1 .. Len(h[m])
              PROVE  h[i + 1][j] = h[m][j]
            <4>1. j \in 1 .. Len(h[i])
                BY <3>6, <3>8
            <4>2. h[i + 1][j] = h[i][j]
                BY <3>5, <4>1 DEF IsJoined
            <4> QED BY <3>2, <4>2 DEF Begins
        <3> QED BY <3>8, <3>9 DEF Begins
    <2> QED BY <2>2, <2>3
<1>5. good = Nat
    <2>1. good \in SUBSET Nat
        OBVIOUS
    <2> HIDE DEF good
    <2> QED BY <1>3, <1>4, <2>1, Induction
<1> QED BY <1>5

-----------------------------------------------------------------------------
(* The invariant: a leaf is the one written, or a changed one *)

LeafKept(i) == metadata.leaves[i] \in {Hash(SerializeEntry(table[i])), OtherHash}

LeavesKept ==
    /\ metadata = [count |-> metadata.count, leaves |-> metadata.leaves]
    /\ IsSeq(metadata.leaves) /\ Len(metadata.leaves) <= Len(table)
    /\ \A i \in 1 .. Len(metadata.leaves) : LeafKept(i)

MerkleInv == table \in Tables /\ data \in Seq(Byte) /\ LeavesKept

Entries == Seq([deleted : BOOLEAN, key : Seq(Byte), value : Seq(Byte)])

LEMMA TableIs ==
    ASSUME NEW t \in Tables
    PROVE  t \in Entries /\ Len(t) \in Nat /\ DOMAIN t = 1 .. Len(t)
           /\ \A i \in 1 .. Len(t) : Fits(t[i])
<1>1. t \in Entries
    BY MerkleAssumption DEF Entries
<1>2. Len(t) \in Nat /\ DOMAIN t = 1 .. Len(t)
    BY <1>1 DEF Entries
<1>3. ASSUME NEW i \in 1 .. Len(t)
      PROVE  Fits(t[i])
    <2>1. {Len(t[i].key), Len(t[i].value)} \subseteq Byte
        <3>1. i \in DOMAIN t
            BY <1>2
        <3>2. \A u \in Tables : \A l \in DOMAIN u :
                  {Len(u[l].key), Len(u[l].value)} \subseteq Byte
            BY MerkleAssumption
        <3> QED BY <3>1, <3>2
    <2>2. t[i] \in [deleted : BOOLEAN, key : Seq(Byte), value : Seq(Byte)]
        <3> DEFINE R == [deleted : BOOLEAN, key : Seq(Byte), value : Seq(Byte)]
        <3>1. t \in Seq(R)
            BY <1>1 DEF Entries
        <3> HIDE DEF R
        <3>2. t[i] \in R
            BY <3>1
        <3> QED BY <3>2 DEF R
    <2> QED BY <2>1, <2>2 DEF Fits
<1> QED BY <1>1, <1>2, <1>3

\* Where the bytes of an entry were written
Spans(e) ==
    /\ Begin(e) \in Nat /\ End(e) \in Nat /\ Len(written) \in Nat
    /\ SerialSize(table[e]) \in Nat /\ SerialSize(table[e]) >= 3
    /\ End(e) = Begin(e) + SerialSize(table[e]) /\ End(e) <= Len(written)

PlacedAt(e) ==
    /\ Spans(e)
    /\ \A j \in 1 .. SerialSize(table[e]) :
           written[Begin(e) + j] = SerializeEntry(table[e])[j]

Placed ==
    /\ written \in Seq(Byte)
    /\ Begin(1) = 0 /\ Begin(Len(table) + 1) = Len(written)
    /\ \A e \in 1 .. Len(table) : PlacedAt(e)
    /\ \A d, e \in 1 .. Len(table) : d < e => End(d) <= Begin(e)

LEMMA PlacedIs ==
    ASSUME table \in Tables
    PROVE  Placed
<1>1. /\ table \in Entries /\ Len(table) \in Nat /\ \A i \in 1 .. Len(table) : Fits(table[i])
    BY TableIs
<1>2. PICK h : Laid(h, table)
    BY <1>1, LaidExists
<1>3. ASSUME NEW i \in Nat
      PROVE  h[i] \in Seq(Byte) /\ Len(h[i]) \in Nat
    BY <1>2 DEF Laid
<1>4. ASSUME NEW n \in 0 .. Len(table)
      PROVE  FlattenSeq(Serialized(SubSeq(table, 1, n))) = h[n]
    BY <1>1, <1>2, FlatIs DEF Flat, Entries
<1>5. ASSUME NEW n \in 0 .. Len(table)
      PROVE  Begin(n + 1) = Len(h[n])
    <2>1. (n + 1) - 1 = n
        OBVIOUS
    <2> QED BY <1>4, <2>1 DEF Begin
<1>6. written = h[Len(table)]
    <2>1. SubSeq(table, 1, Len(table)) = table
        BY <1>1 DEF Entries
    <2>2. Len(table) \in 0 .. Len(table)
        BY <1>1
    <2> QED BY <1>4, <2>1, <2>2 DEF written
<1>7. ASSUME NEW e \in 1 .. Len(table)
      PROVE  PlacedAt(e) /\ Begin(e) = Len(h[e - 1]) /\ End(e) = Len(h[e])
    <2>1. PICK m \in 0 .. Len(table) - 1 : m = e - 1 /\ m + 1 = e
        BY <1>1
    <2>2. Begin(e) = Len(h[m]) /\ End(e) = Len(h[e])
        <3>1. m \in 0 .. Len(table) /\ e \in 0 .. Len(table)
            BY <1>1, <2>1
        <3> QED BY <1>5, <2>1, <3>1 DEF End
    <2> DEFINE s == SerializeEntry(table[e])
    <2>3. IsSerial(s, table[e])
        BY <1>1, SerialIs
    <2>4. h[e] = h[m] \o s
        BY <1>2, <2>1 DEF Laid
    <2>5. IsJoined(h[e], h[m], s)
        BY <1>3, <2>1, <2>3, <2>4, JoinedIs DEF IsSerial
    <2>6. Begins(h[e], written)
        BY <1>1, <1>2, <1>6, LaidGrows
    <2>7. /\ SerialSize(table[e]) \in Nat /\ SerialSize(table[e]) >= 3
          /\ Len(s) = SerialSize(table[e])
        <3>1. Fits(table[e])
            BY <1>1
        <3>2. PICK k \in Nat : k = Len(table[e].key)
            BY <3>1 DEF Fits
        <3>3. PICK v \in Nat : v = Len(table[e].value)
            BY <3>1 DEF Fits
        <3>4. SerialSize(table[e]) = 3 + k + v
            BY <3>2, <3>3 DEF SerialSize
        <3> QED BY <2>3, <3>4 DEF IsSerial
    <2>8. ASSUME NEW j \in 1 .. SerialSize(table[e])
          PROVE  written[Begin(e) + j] = s[j]
        <3>1. h[e][Len(h[m]) + j] = s[j]
            <4>1. j \in 1 .. Len(s)
                BY <2>7
            <4> HIDE DEF s
            <4> QED BY <2>5, <4>1 DEF IsJoined
        <3>2. Len(h[m]) + j \in 1 .. Len(h[e])
            <4>1. PICK a \in Nat : a = Len(h[m])
                BY <1>3, <2>1
            <4>2. PICK b \in Nat : b = SerialSize(table[e])
                BY <2>7
            <4>3. Len(h[e]) = a + b
                BY <2>5, <2>7, <4>1, <4>2 DEF IsJoined
            <4> QED BY <4>1, <4>2, <4>3
        <3> QED BY <2>2, <2>6, <3>1, <3>2 DEF Begins
    <2>9. Begin(e) \in Nat /\ End(e) \in Nat /\ Len(written) \in Nat
        BY <1>1, <1>3, <1>6, <2>1, <2>2
    <2>10. End(e) = Begin(e) + SerialSize(table[e]) /\ End(e) <= Len(written)
        BY <2>2, <2>5, <2>6, <2>7 DEF IsJoined, Begins
    <2> HIDE DEF s
    <2>11. PlacedAt(e)
        BY <2>7, <2>8, <2>9, <2>10 DEF PlacedAt, Spans, s
    <2> QED BY <2>1, <2>2, <2>11
<1>8. ASSUME NEW d \in 1 .. Len(table), NEW e \in 1 .. Len(table), d < e
      PROVE  End(d) <= Begin(e)
    <2>1. PICK m \in Nat : m = e - 1 /\ d <= m /\ m <= Len(table)
        BY <1>1, <1>8
    <2>2. Begins(h[d], h[m])
        BY <1>1, <1>2, <2>1, LaidGrows
    <2> QED BY <1>7, <2>1, <2>2 DEF Begins
<1>9. Begin(1) = 0 /\ Begin(Len(table) + 1) = Len(written)
    <2>1. h[0] = <<>> /\ 0 \in 0 .. Len(table) /\ 0 + 1 = 1
        BY <1>1, <1>2 DEF Laid
    <2>2. Begin(0 + 1) = Len(h[0])
        BY <1>5, <2>1
    <2>3. Begin(Len(table) + 1) = Len(h[Len(table)])
        BY <1>1, <1>5
    <2> QED BY <1>6, <2>1, <2>2, <2>3
<1>10. written \in Seq(Byte)
    BY <1>1, <1>3, <1>6
<1> QED BY <1>7, <1>8, <1>9, <1>10 DEF Placed

LEMMA EntryPlaced ==
    ASSUME table \in Tables, NEW e \in 1 .. Len(table)
    PROVE  PlacedAt(e)
BY PlacedIs DEF Placed

LEMMA EntrySpans ==
    ASSUME table \in Tables, NEW e \in 1 .. Len(table)
    PROVE  Spans(e)
BY EntryPlaced DEF PlacedAt

-----------------------------------------------------------------------------
(* The entries that are found *)

LEMMA BeyondIs ==
    ASSUME data \in Seq(Byte), NEW p \in Nat
    PROVE  /\ Beyond(p) \in Nat
           /\ Outcome(p) = "ok" => p + 3 <= Beyond(p) /\ Beyond(p) <= Len(data)
           /\ p <= Len(data) => Beyond(p) <= Len(data)
<1>1. CASE Outcome(p) = "ok"
    <2>1. Readable(p)
        BY <1>1, ReadableIs
    <2>2. Beyond(p) = EntryEnd(p)
        BY <1>1 DEF Beyond
    <2>3. p + 3 <= EntryEnd(p)
        <3>1. PICK k \in Nat : k = KeySize(p)
            BY <2>1 DEF Readable
        <3>2. PICK v \in Nat : v = ValueSize(p)
            BY <2>1 DEF Readable
        <3>3. EntryEnd(p) = p + 3 + k + v
            BY <2>1, <3>1, <3>2 DEF Readable
        <3> QED BY <3>3
    <2> QED BY <2>1, <2>2, <2>3 DEF Readable
<1>2. CASE Outcome(p) # "ok"
    BY <1>2 DEF Beyond
<1> QED BY <1>1, <1>2

LEMMA OffsetIs ==
    ASSUME data \in Seq(Byte)
    PROVE  /\ Offset \in [Nat -> Nat] /\ Offset[0] = 0
           /\ \A n \in Nat : Offset[n + 1] = Beyond(Offset[n])
<1> DEFINE step == [p \in Nat |-> Beyond(p)]
<1>1. step \in [Nat -> Nat] /\ 0 \in Nat
    BY BeyondIs
<1>2. PICK f \in [Nat -> Nat] : f[0] = 0 /\ \A n \in Nat : f[n + 1] = step[f[n]]
    <2> DEFINE N == Nat
    <2>1. PICK u : u = step
        OBVIOUS
    <2>2. u \in [N -> N] /\ 0 \in N
        BY <1>1, <2>1
    <2> HIDE DEF N
    <2>3. PICK z \in N : z = 0
        BY <2>2
    <2> DEFINE steps == [n \in Nat |-> u]
    <2>4. Numbered(N, steps)
        BY <2>2 DEF Numbered
    <2> HIDE DEF steps
    <2>5. PICK f \in [Nat -> N] : Recursion(f, z, steps)
        BY <2>4, RecursionExists
    <2>6. f[0] = 0 /\ \A n \in Nat : f[n + 1] = u[f[n]]
        BY <2>3, <2>5 DEF Recursion, steps
    <2> QED BY <2>1, <2>5, <2>6 DEF N
<1>3. ASSUME NEW n \in Nat
      PROVE  f[n] = IF n = 0 THEN 0 ELSE Beyond(f[n - 1])
    <2>1. CASE n = 0
        BY <1>2, <2>1
    <2>2. CASE n # 0
        <3>1. PICK m \in Nat : m + 1 = n /\ m = n - 1
            BY <2>2
        <3>2. f[m + 1] = step[f[m]] /\ f[m] \in Nat
            BY <1>2
        <3> QED BY <2>2, <3>1, <3>2
    <2> QED BY <2>1, <2>2
<1>4. f = [n \in Nat |-> IF n = 0 THEN 0 ELSE Beyond(f[n - 1])]
    <2>1. f = [n \in Nat |-> f[n]]
        OBVIOUS
    <2> QED BY <1>3, <2>1
<1>5. Offset = [n \in Nat |-> IF n = 0 THEN 0 ELSE Beyond(Offset[n - 1])]
    BY <1>4 DEF Offset
<1> HIDE DEF step
<1>6. Offset[0] = 0
    BY <1>5
<1>7. ASSUME NEW n \in Nat
      PROVE  Offset[n + 1] = Beyond(Offset[n])
    <2>1. n + 1 \in Nat /\ n + 1 # 0 /\ (n + 1) - 1 = n
        OBVIOUS
    <2>2. Offset[n + 1] = IF n + 1 = 0 THEN 0 ELSE Beyond(Offset[(n + 1) - 1])
        BY <1>5, <2>1
    <2> QED BY <2>1, <2>2
<1> DEFINE good == {n \in Nat : Offset[n] \in Nat}
<1>8. good = Nat
    <2>1. 0 \in good
        BY <1>6
    <2>2. ASSUME NEW n \in good
          PROVE  n + 1 \in good
        <3>1. PICK p \in Nat : p = Offset[n]
            OBVIOUS
        <3>2. Beyond(p) \in Nat
            BY BeyondIs
        <3>3. n + 1 \in Nat /\ Offset[n + 1] = Beyond(p)
            BY <1>7, <3>1
        <3>4. Offset[n + 1] \in Nat
            <4> HIDE DEF good
            <4> QED BY <3>2, <3>3
        <3> QED BY <3>3, <3>4
    <2>3. good \in SUBSET Nat
        OBVIOUS
    <2> HIDE DEF good
    <2> QED BY <2>1, <2>2, <2>3, Induction
<1>9. Offset \in [Nat -> Nat]
    <2>1. DOMAIN Offset = Nat
        BY <1>5
    <2>2. Offset = [n \in Nat |-> Offset[n]]
        BY <1>5
    <2> HIDE DEF good
    <2>3. \A n \in Nat : Offset[n] \in Nat
        BY <1>8 DEF good
    <2> QED BY <2>2, <2>3
<1> QED BY <1>6, <1>7, <1>9

\* All entries in front of the n-th can be read
AllRead(n) == \A m \in 0 .. n - 1 : Outcome(Offset[m]) = "ok"

\* Every entry that is read takes three bytes at least
LEMMA OffsetGrows ==
    ASSUME data \in Seq(Byte), NEW n \in Nat, AllRead(n)
    PROVE  3 * n <= Offset[n] /\ Offset[n] <= Len(data)
<1> DEFINE good == {i \in Nat : i <= n => 3 * i <= Offset[i] /\ Offset[i] <= Len(data)}
<1>1. Len(data) \in Nat
    OBVIOUS
<1>2. 0 \in good
    BY <1>1, OffsetIs
<1>3. ASSUME NEW i \in good
      PROVE  i + 1 \in good
    <2>1. SUFFICES ASSUME i + 1 <= n
                   PROVE  3 * (i + 1) <= Offset[i + 1] /\ Offset[i + 1] <= Len(data)
        OBVIOUS
    <2>2. i \in Nat /\ i \in 0 .. n - 1 /\ 3 * i <= Offset[i] /\ Offset[i] <= Len(data)
        BY <2>1
    <2>3. PICK p \in Nat : p = Offset[i]
        BY <2>2, OffsetIs
    <2>4. Outcome(p) = "ok" /\ Offset[i + 1] = Beyond(p)
        BY <2>2, <2>3, OffsetIs DEF AllRead
    <2>5. PICK q \in Nat : q = Beyond(p)
        BY BeyondIs
    <2>6. p + 3 <= q /\ q <= Len(data)
        BY <2>4, <2>5, BeyondIs
    <2> QED BY <2>2, <2>3, <2>4, <2>5, <2>6
<1>4. good = Nat
    <2>1. good \in SUBSET Nat
        OBVIOUS
    <2> HIDE DEF good
    <2> QED BY <1>2, <1>3, <2>1, Induction
<1> QED BY <1>4

Counted(n) ==
    /\ n \in Nat /\ AllRead(n) /\ Outcome(Offset[n]) # "ok"
    /\ \A m \in Nat : AllRead(m) => m <= n

LEMMA CountIs ==
    ASSUME data \in Seq(Byte)
    PROVE  Counted(EntryCount)
<1> DEFINE S == {n \in 0 .. Len(data) : Outcome(Offset[n]) # "ok"}
           L == Len(data)
<1>1. L \in Nat
    OBVIOUS
<1>2. S # {}
    <2>1. SUFFICES ASSUME S = {}
                   PROVE  FALSE
        OBVIOUS
    <2>2. \A n \in 0 .. L : Outcome(Offset[n]) = "ok"
        BY <2>1
    <2>3. L + 1 \in Nat /\ AllRead(L + 1)
        BY <1>1, <2>2 DEF AllRead
    <2>4. 3 * (L + 1) <= Offset[L + 1] /\ Offset[L + 1] <= L
        BY <2>3, OffsetGrows
    <2>5. PICK p \in Nat : p = Offset[L + 1]
        BY <2>3, OffsetIs
    <2> HIDE DEF L
    <2> QED BY <1>1, <2>4, <2>5
<1>3. S \in SUBSET Nat
    OBVIOUS
<1>4. PICK l \in S : \A m \in S : l <= m
    <2> HIDE DEF S
    <2> QED BY <1>2, <1>3, LeastElement
<1>5. \A m \in 0 .. l - 1 : Outcome(Offset[m]) = "ok"
    <2>1. ASSUME NEW m \in 0 .. l - 1
          PROVE  Outcome(Offset[m]) = "ok"
        <3>1. m \in 0 .. L /\ ~(l <= m)
            BY <1>1
        <3> QED BY <1>4, <3>1
    <2> QED BY <2>1
<1>6. PICK n \in 0 .. L : n = EntryCount
                          /\ Outcome(Offset[n]) # "ok"
                          /\ \A m \in 0 .. n - 1 : Outcome(Offset[m]) = "ok"
    <2>1. l \in 0 .. Len(data) /\ Outcome(Offset[l]) # "ok"
        OBVIOUS
    <2> QED BY <1>5, <2>1 DEF EntryCount
<1>7. n \in Nat /\ Outcome(Offset[n]) # "ok"
    BY <1>1, <1>6
<1>8. AllRead(n)
    BY <1>6 DEF AllRead
<1>9. ASSUME NEW m \in Nat, AllRead(m)
      PROVE  m <= n
    <2>1. ~(m <= n) => n \in 0 .. m - 1
        OBVIOUS
    <2> QED BY <1>7, <1>9, <2>1 DEF AllRead
<1>10. Counted(n)
    <2> HIDE DEF S, L
    <2> QED BY <1>7, <1>8, <1>9 DEF Counted
<1> QED BY <1>6, <1>10

\* An entry found is the one written if its bytes are, and no others
Same(e) == SerializeEntry(EntryAt(Begin(e))) = SerializeEntry(table[e])

LEMMA SerialsSame ==
    ASSUME NEW s \in Seq(Byte), NEW t \in Seq(Byte), Len(s) = Len(t),
           \A j \in 1 .. Len(s) : s[j] = t[j]
    PROVE  s = t
OBVIOUS

LEMMA SameIsIntact ==
    ASSUME MerkleInv, NEW e \in 1 .. Len(table), Outcome(Begin(e)) = "ok", Same(e)
    PROVE  EntryEnd(Begin(e)) = End(e) /\ Intact(Begin(e), End(e))
<1> DEFINE p == Begin(e)
           s == SerializeEntry(table[e])
           n == SerialSize(table[e])
<1>1. PlacedAt(e) /\ Fits(table[e])
    BY PlacedIs, TableIs DEF MerkleInv, Placed
<1>2. p \in Nat /\ n \in Nat /\ n >= 3 /\ End(e) = p + n
      /\ \A j \in 1 .. n : written[p + j] = s[j]
    BY <1>1 DEF PlacedAt, Spans
<1>3. IsSerial(s, table[e])
    BY <1>1, SerialIs
<1>4. IsReread(s, p) /\ Readable(p)
    BY <1>2, RereadIs, ReadableIs DEF MerkleInv, Same
<1>5. Len(s) = n /\ EntryEnd(p) = p + n /\ EntryEnd(p) <= Len(data)
    BY <1>2, <1>3, <1>4 DEF IsSerial, IsReread, Readable
<1>6. EntryEnd(p) = End(e) /\ End(e) <= Len(data)
    BY <1>2, <1>5
<1>7. ASSUME NEW i \in p + 1 .. End(e)
      PROVE  SameByte(i)
    <2>1. PICK j \in 1 .. n : i = p + j
        <3>1. i - p \in 1 .. n /\ i = p + (i - p)
            BY <1>2
        <3> QED BY <3>1
    <2>2. written[i] = s[j]
        BY <1>2, <2>1
    <2>3. CASE j = 1
        <3>1. i = p + 1 /\ s[1] = (IF data[i] = 1 THEN 1 ELSE 0) /\ written[i] = s[1]
            BY <1>4, <2>1, <2>2, <2>3 DEF IsReread
        <3>2. CASE data[i] = 1
            BY <3>1, <3>2 DEF SameByte
        <3>3. CASE data[i] # 1
            <4>1. e \in DOMAIN table
                BY TableIs DEF MerkleInv
            <4>2. written[i] # 1
                BY <3>1, <3>3
            <4> QED BY <3>1, <3>3, <4>1, <4>2 DEF SameByte
        <3> QED BY <3>2, <3>3
    <2>4. CASE j # 1
        <3>1. j \in 2 .. EntryEnd(p) - p
            BY <1>2, <1>5, <2>4
        <3>2. s[j] = data[p + j]
            BY <1>4, <3>1 DEF IsReread
        <3> QED BY <2>1, <2>2, <3>2 DEF SameByte
    <2> QED BY <2>3, <2>4
<1> QED BY <1>6, <1>7 DEF Intact

\* Only the first byte of an entry is a flag
LEMMA NoFlag ==
    ASSUME table \in Tables, NEW e \in 1 .. Len(table), NEW j \in 2 .. SerialSize(table[e]),
           NEW i, i = Begin(e) + j, SameByte(i)
    PROVE  data[i] = written[i]
<1>1. Placed
    BY PlacedIs
<1>2. PICK p \in Nat : p = Begin(e)
    BY <1>1, EntrySpans DEF Spans
<1>3. PICK n \in Nat : n = SerialSize(table[e]) /\ End(e) = p + n
    BY <1>1, <1>2, EntrySpans DEF Spans
<1>4. ASSUME NEW d \in DOMAIN table, i = Begin(d) + 1
      PROVE  FALSE
    <2>1. d \in 1 .. Len(table)
        BY TableIs
    <2>2. Begin(d) \in Nat
        <3>1. Spans(d)
            BY <2>1, EntrySpans
        <3> QED BY <3>1 DEF Spans
    <2>3. Begin(d) > p /\ Begin(d) < p + n
        <3>1. j \in 2 .. n
            BY <1>3
        <3>2. Begin(d) + 1 = p + j
            BY <1>2, <1>4
        <3>3. PICK b \in Nat : b = Begin(d)
            BY <2>2
        <3>4. b > p /\ b < p + n
            BY <3>1, <3>2, <3>3
        <3> QED BY <3>3, <3>4
    <2>4. CASE d = e
        BY <1>2, <2>3, <2>4
    <2>5. CASE d < e
        <3>1. End(d) <= p
            BY <1>1, <1>2, <2>1, <2>5 DEF Placed
        <3>2. Begin(d) <= End(d) /\ End(d) \in Nat
            <4>1. PICK z \in Nat : z = SerialSize(table[d])
                BY <1>1, <2>1, EntrySpans DEF Spans
            <4>2. End(d) = Begin(d) + z
                BY <1>1, <2>1, <4>1, EntrySpans DEF Spans
            <4> QED BY <2>2, <4>2
        <3> QED BY <2>2, <2>3, <3>1, <3>2
    <2>6. CASE e < d
        <3>1. End(e) <= Begin(d)
            BY <1>1, <2>1, <2>6 DEF Placed
        <3> QED BY <1>3, <2>2, <2>3, <3>1
    <2>7. Len(table) \in Nat
        BY TableIs
    <2> QED BY <2>1, <2>4, <2>5, <2>6, <2>7
<1> QED BY <1>4 DEF SameByte

LEMMA IntactIsSame ==
    ASSUME MerkleInv, NEW e \in 1 .. Len(table), Outcome(Begin(e)) = "ok",
           EntryEnd(Begin(e)) = End(e), Intact(Begin(e), End(e))
    PROVE  Same(e)
<1> DEFINE p == Begin(e)
           s == SerializeEntry(table[e])
           r == SerializeEntry(EntryAt(p))
           n == SerialSize(table[e])
<1>1. PlacedAt(e) /\ Fits(table[e])
    BY PlacedIs, TableIs DEF MerkleInv, Placed
<1>2. p \in Nat /\ n \in Nat /\ n >= 3 /\ End(e) = p + n
      /\ \A j \in 1 .. n : written[p + j] = s[j]
    BY <1>1 DEF PlacedAt, Spans
<1>3. IsSerial(s, table[e])
    BY <1>1, SerialIs
<1>4. IsReread(r, p)
    BY <1>2, RereadIs DEF MerkleInv
<1> HIDE DEF p, s, r, n
<1>5. Len(s) = n /\ EntryEnd(p) = p + n /\ EntryEnd(p) - p = n
    <2>1. EntryEnd(p) = End(e)
        BY DEF p
    <2> QED BY <1>2, <1>3, <2>1 DEF IsSerial, n
<1>6. Len(r) = n
    BY <1>4, <1>5 DEF IsReread
<1>7. s[1] = Flag(table[e])
    BY <1>3 DEF IsSerial
<1>8. ASSUME NEW j \in 1 .. n
      PROVE  r[j] = s[j]
    <2>1. PICK i \in p + 1 .. End(e) : i = p + j
        BY <1>2
    <2>2. SameByte(i)
        BY DEF Intact, p
    <2>3. written[i] = s[j]
        BY <1>2, <2>1
    <2>4. CASE j = 1
        <3>1. r[1] = IF data[i] = 1 THEN 1 ELSE 0
            BY <1>4, <2>1, <2>4 DEF IsReread
        <3>2. s[1] = 1 \/ s[1] = 0
            BY <1>7 DEF Flag
        <3>3. data[i] = s[1] \/ (s[1] # 1 /\ data[i] # 1)
            BY <2>2, <2>3, <2>4 DEF SameByte
        <3>4. r[1] = s[1]
            BY <3>1, <3>2, <3>3
        <3> QED BY <2>4, <3>4
    <2>5. CASE j # 1
        <3>1. r[j] = data[i]
            <4>1. j \in 2 .. EntryEnd(p) - p
                BY <1>2, <1>5, <2>5
            <4> QED BY <1>4, <2>1, <4>1 DEF IsReread
        <3>2. data[i] = written[i]
            <4>1. j \in 2 .. SerialSize(table[e]) /\ i = Begin(e) + j
                BY <1>2, <2>1, <2>5 DEF n, p
            <4> QED BY <2>2, <4>1, NoFlag DEF MerkleInv
        <3> QED BY <2>3, <3>1, <3>2
    <2> QED BY <2>4, <2>5
<1>9. r = s
    <2>1. r \in Seq(Byte) /\ s \in Seq(Byte)
        BY <1>3, <1>4 DEF IsSerial, IsReread
    <2> QED BY <1>5, <1>6, <1>8, <2>1, SerialsSame
<1> QED BY <1>9 DEF Same, r, s, p

LEMMA TableOrder ==
    ASSUME table \in Tables, NEW d \in 1 .. Len(table), NEW e \in 1 .. Len(table), d <= e
    PROVE  Begin(d) \in Nat /\ End(d) \in Nat /\ End(e) \in Nat /\ End(d) <= End(e)
<1>1. Placed
    BY PlacedIs
<1>2. Begin(d) \in Nat /\ End(d) \in Nat /\ Begin(e) \in Nat /\ End(e) \in Nat
    BY <1>1, EntrySpans DEF Spans
<1>3. CASE d = e
    BY <1>2, <1>3
<1>4. CASE d # e
    <2>1. Len(table) \in Nat
        BY TableIs
    <2>2. End(d) <= Begin(e)
        BY <1>1, <1>4, <2>1 DEF Placed
    <2>3. PICK z \in Nat : z = SerialSize(table[e])
        BY <1>1, EntrySpans DEF Spans
    <2>4. End(e) = Begin(e) + z
        BY <1>1, <2>3, EntrySpans DEF Spans
    <2> QED BY <1>2, <2>2, <2>4
<1> QED BY <1>3, <1>4

\* An entry whose sizes are the ones written is found whole
LEMMA SizesFind ==
    ASSUME MerkleInv, NEW e \in 1 .. Len(table), End(e) <= Len(data),
           data[Begin(e) + 2] = written[Begin(e) + 2],
           data[Begin(e) + 3] = written[Begin(e) + 3]
    PROVE  Outcome(Begin(e)) = "ok" /\ EntryEnd(Begin(e)) = End(e)
<1> DEFINE p == Begin(e)
           s == SerializeEntry(table[e])
<1>1. PlacedAt(e) /\ Fits(table[e])
    BY PlacedIs, TableIs DEF MerkleInv, Placed
<1>2. PICK n \in Nat : n = SerialSize(table[e])
    BY <1>1 DEF PlacedAt, Spans
<1>3. p \in Nat /\ n >= 3 /\ End(e) = p + n /\ \A j \in 1 .. n : written[p + j] = s[j]
    BY <1>1, <1>2 DEF PlacedAt, Spans
<1>4. IsSerial(s, table[e])
    BY <1>1, SerialIs
<1>5. s[2] = Len(table[e].key) /\ s[3] = Len(table[e].value)
    BY <1>4 DEF IsSerial
<1>6. KeySize(p) = Len(table[e].key) /\ ValueSize(p) = Len(table[e].value)
    <2>1. 2 \in 1 .. n /\ 3 \in 1 .. n
        BY <1>3
    <2>2. written[p + 2] = s[2] /\ written[p + 3] = s[3]
        BY <1>3, <2>1
    <2> QED BY <1>5, <2>2 DEF KeySize, ValueSize
<1>7. KeySize(p) \in Byte /\ ValueSize(p) \in Byte
    BY <1>1, <1>6 DEF Fits
<1>8. EntryEnd(p) = p + n
    <2>1. PICK k \in Nat : k = KeySize(p)
        BY <1>7, BytesAre
    <2>2. PICK v \in Nat : v = ValueSize(p)
        BY <1>7, BytesAre
    <2>3. n = 3 + k + v
        BY <1>2, <1>6, <2>1, <2>2 DEF SerialSize
    <2>4. EntryEnd(p) = p + 3 + k + v
        BY <2>1, <2>2 DEF EntryEnd, HeaderSize
    <2> QED BY <1>3, <2>3, <2>4
<1>9. p + 3 <= Len(data) /\ EntryEnd(p) <= Len(data)
    <2>1. Len(data) \in Nat
        BY DEF MerkleInv
    <2> QED BY <1>3, <1>8, <2>1
<1>10. Outcome(p) = "ok"
    BY <1>3, <1>7, <1>9, OutcomeIs DEF MerkleInv
<1> QED BY <1>3, <1>8, <1>10

\* The reader stands where the entries were written
Follows(n) == AllRead(n) /\ \A i \in 0 .. n : Offset[i] = Begin(i + 1)

LEMMA FollowsIs ==
    ASSUME MerkleInv, NEW n \in 0 .. Len(table),
           \A e \in 1 .. n : Offset[e - 1] = Begin(e) =>
               Outcome(Begin(e)) = "ok" /\ EntryEnd(Begin(e)) = End(e)
    PROVE  Follows(n)
<1> DEFINE good == {i \in Nat : i <= n => Offset[i] = Begin(i + 1)}
<1>1. data \in Seq(Byte) /\ n \in Nat /\ Len(table) \in Nat
    BY TableIs DEF MerkleInv
<1>2. 0 \in good
    <2>1. Begin(1) = 0 /\ 0 + 1 = 1
        BY PlacedIs DEF MerkleInv, Placed
    <2>2. Offset[0] = 0
        BY <1>1, OffsetIs
    <2> QED BY <2>1, <2>2
<1>3. ASSUME NEW i \in Nat, i + 1 <= n, Offset[i] = Begin(i + 1)
      PROVE  Outcome(Offset[i]) = "ok" /\ Offset[i + 1] = Begin(i + 1 + 1)
    <2>1. PICK e \in 1 .. n : e = i + 1 /\ e - 1 = i
        BY <1>1, <1>3
    <2>2. Outcome(Begin(e)) = "ok" /\ EntryEnd(Begin(e)) = End(e)
        BY <1>3, <2>1
    <2>3. Offset[i + 1] = Beyond(Offset[i])
        BY <1>1, OffsetIs
    <2>4. Offset[i + 1] = End(e)
        BY <1>3, <2>1, <2>2, <2>3 DEF Beyond
    <2> QED BY <1>3, <2>1, <2>2, <2>4 DEF End
<1>4. ASSUME NEW i \in good
      PROVE  i + 1 \in good
    <2>1. i \in Nat /\ (i + 1 <= n => i <= n)
        BY <1>1
    <2> QED BY <1>3, <2>1
<1>5. good = Nat
    <2>1. good \in SUBSET Nat
        OBVIOUS
    <2> HIDE DEF good
    <2> QED BY <1>2, <1>4, <2>1, Induction
<1>6. \A i \in 0 .. n : Offset[i] = Begin(i + 1)
    BY <1>1, <1>5
<1>7. AllRead(n)
    <2>1. ASSUME NEW m \in 0 .. n - 1
          PROVE  Outcome(Offset[m]) = "ok"
        <3>1. m \in Nat /\ m + 1 <= n /\ m \in 0 .. n
            BY <1>1
        <3> QED BY <1>3, <1>6, <3>1
    <2> QED BY <2>1 DEF AllRead
<1> QED BY <1>6, <1>7 DEF Follows

\* Intact entries, one behind the other, are intact bytes
LEMMA IntactTogether ==
    ASSUME MerkleInv, \A e \in 1 .. Len(table) : Intact(Begin(e), End(e))
    PROVE  Intact(0, Len(written))
<1> DEFINE good == {i \in Nat : i <= Len(table) => Intact(0, Begin(i + 1))}
<1>1. data \in Seq(Byte) /\ Len(data) \in Nat /\ Len(table) \in Nat
    BY TableIs DEF MerkleInv
<1>2. Placed
    BY PlacedIs DEF MerkleInv
<1>3. 0 \in good
    <2>1. Begin(1) = 0 /\ 0 + 1 = 1
        BY <1>2 DEF Placed
    <2>2. Intact(0, 0)
        BY <1>1 DEF Intact
    <2> QED BY <2>1, <2>2
<1>4. ASSUME NEW i \in good
      PROVE  i + 1 \in good
    <2>1. SUFFICES ASSUME i + 1 <= Len(table)
                   PROVE  Intact(0, Begin(i + 1 + 1))
        OBVIOUS
    <2>2. PICK e \in 1 .. Len(table) : e = i + 1
        BY <1>1, <2>1
    <2>3. Intact(0, Begin(e))
        <3>1. i \in Nat /\ i <= Len(table)
            BY <1>1, <2>1
        <3> QED BY <2>2, <3>1
    <2>4. Intact(Begin(e), End(e))
        OBVIOUS
    <2>5. Begin(e) \in Nat /\ End(e) \in Nat
        BY EntrySpans DEF MerkleInv, Spans
    <2>6. Intact(0, End(e))
        BY <2>3, <2>4, <2>5 DEF Intact
    <2> QED BY <2>2, <2>6 DEF End
<1>5. good = Nat
    <2>1. good \in SUBSET Nat
        OBVIOUS
    <2> HIDE DEF good
    <2> QED BY <1>3, <1>4, <2>1, Induction
<1>6. Intact(0, Begin(Len(table) + 1))
    BY <1>1, <1>5
<1> QED BY <1>2, <1>6 DEF Placed

-----------------------------------------------------------------------------
(* What is found *)

LEMMA FoundAre ==
    ASSUME data \in Seq(Byte)
    PROVE  /\ EntryCount \in Nat /\ Len(EntriesFound) = EntryCount
           /\ DOMAIN EntriesFound = 1 .. EntryCount
           /\ \A i \in 1 .. EntryCount : EntriesFound[i] = EntryAt(Offset[i - 1])
<1>1. PICK n \in Nat : n = EntryCount
    BY CountIs DEF Counted
<1>2. EntriesFound = [i \in 1 .. n |-> EntryAt(Offset[i - 1])]
    BY <1>1 DEF EntriesFound
<1> QED BY <1>1, <1>2

LEMMA LeavesAre ==
    ASSUME table \in Tables
    PROVE  /\ IsSeq(Leaves(table)) /\ Len(Leaves(table)) = Len(table)
           /\ DOMAIN Leaves(table) = 1 .. Len(table)
           /\ \A i \in 1 .. Len(table) : Leaves(table)[i] = Hash(SerializeEntry(table[i]))
<1>1. PICK n \in Nat : n = Len(table) /\ DOMAIN table = 1 .. n
    BY TableIs
<1>2. Leaves(table) = [i \in 1 .. n |-> Hash(SerializeEntry(table[i]))]
    BY <1>1 DEF Leaves
<1> QED BY <1>1, <1>2 DEF IsSeq

LEMMA HashTells ==
    ASSUME NEW v, NEW w
    PROVE  (Hash(v) = Hash(w) => v = w) /\ Hash(v) # OtherHash
BY DEF Hash, OtherHash

LEMMA InvDamageDetected == MerkleInv => DamageDetected
<1> SUFFICES ASSUME MerkleInv, Len(metadata.leaves) = Len(table),
                    ValidateMerkle = [ok |-> TRUE, changed |-> {}]
             PROVE  Intact(0, Len(written)) /\ MetadataIntact
    BY DEF DamageDetected
<1> DEFINE leaves == metadata.leaves
<1>1. PICK n \in Nat : n = Len(table)
    BY TableIs DEF MerkleInv
<1>2. PICK c \in Nat : c = EntryCount
    BY FoundAre DEF MerkleInv
<1>3. MetadataReadable /\ Changed(EntriesFound) = {}
    BY DEF ValidateMerkle, Failed
<1>4. Len(EntriesFound) = c /\ \A i \in 1 .. c : EntriesFound[i] = EntryAt(Offset[i - 1])
    BY <1>2, FoundAre DEF MerkleInv
<1>5. DOMAIN leaves = 1 .. n /\ Len(leaves) = n
    BY <1>1 DEF MerkleInv, LeavesKept, IsSeq
<1>6. ASSUME NEW i \in 1 .. c + n
      PROVE  IF i <= c THEN MatchesLeaf(i, SerializeEntry(EntriesFound[i])) ELSE ~(i <= n)
    BY <1>3, <1>4, <1>5 DEF Changed
<1>7. c = n
    <2>1. CASE c < n
        <3>1. n \in 1 .. c + n /\ ~(n <= c)
            BY <2>1
        <3> QED BY <1>6, <3>1
    <2>2. CASE n < c
        <3>1. c \in 1 .. c + n /\ c <= c /\ c \notin 1 .. n
            BY <2>2
        <3> QED BY <1>5, <1>6, <3>1 DEF MatchesLeaf
    <2> QED BY <2>1, <2>2
<1>8. ASSUME NEW i \in 1 .. n
      PROVE  /\ leaves[i] = Hash(SerializeEntry(table[i]))
             /\ SerializeEntry(EntryAt(Offset[i - 1])) = SerializeEntry(table[i])
    <2>1. MatchesLeaf(i, SerializeEntry(EntriesFound[i]))
        BY <1>6, <1>7
    <2>2. leaves[i] = Hash(SerializeEntry(EntryAt(Offset[i - 1])))
        BY <1>4, <1>7, <2>1 DEF MatchesLeaf
    <2>3. LeafKept(i)
        BY <1>5 DEF MerkleInv, LeavesKept
    <2> QED BY <2>2, <2>3, HashTells DEF LeafKept
<1>9. MetadataIntact
    <2>1. metadata = [count |-> metadata.count, leaves |-> leaves] /\ metadata.count = n
        BY <1>3, <1>5 DEF MerkleInv, LeavesKept, MetadataReadable
    <2>2. leaves = Leaves(table)
        <3>1. IsSeq(leaves)
            BY DEF MerkleInv, LeavesKept
        <3>2. /\ IsSeq(Leaves(table)) /\ Len(Leaves(table)) = n
              /\ \A i \in 1 .. n : Leaves(table)[i] = Hash(SerializeEntry(table[i]))
            BY <1>1, LeavesAre DEF MerkleInv
        <3> HIDE DEF leaves
        <3> QED BY <1>5, <1>8, <3>1, <3>2 DEF IsSeq
    <2> QED BY <1>1, <2>1, <2>2 DEF MetadataIntact
<1>10. ASSUME NEW e \in 1 .. n, Offset[e - 1] = Begin(e)
       PROVE  /\ Outcome(Begin(e)) = "ok" /\ EntryEnd(Begin(e)) = End(e)
              /\ Intact(Begin(e), End(e))
    <2>1. AllRead(n)
        BY <1>2, <1>7, CountIs DEF MerkleInv, Counted
    <2>2. e - 1 \in 0 .. n - 1
        OBVIOUS
    <2>3. Outcome(Begin(e)) = "ok"
        BY <1>10, <2>1, <2>2 DEF AllRead
    <2>4. Same(e)
        BY <1>8, <1>10 DEF Same
    <2> QED BY <1>1, <2>3, <2>4, SameIsIntact
<1>11. Follows(n)
    <2>1. n \in 0 .. Len(table)
        BY <1>1
    <2> QED BY <1>10, <2>1, FollowsIs
<1>12. ASSUME NEW e \in 1 .. Len(table)
       PROVE  Intact(Begin(e), End(e))
    <2>1. e - 1 \in 0 .. n /\ e - 1 + 1 = e /\ e \in 1 .. n
        BY <1>1
    <2>2. Offset[e - 1] = Begin(e)
        BY <1>11, <2>1 DEF Follows
    <2> QED BY <1>10, <2>1, <2>2
<1>13. Intact(0, Len(written))
    BY <1>12, IntactTogether
<1> QED BY <1>9, <1>13

\* Whether the entry at its place is among the changed ones
Told(e) == e \in Changed(EntriesFound) <=> ~Same(e)

LEMMA ToldIs ==
    ASSUME MerkleInv, MetadataIntact, NEW n \in 1 .. Len(table), Follows(n), NEW e \in 1 .. n
    PROVE  Told(e)
<1>1. PICK c \in Nat : c = EntryCount
    BY FoundAre DEF MerkleInv
<1>2. Len(EntriesFound) = c /\ \A i \in 1 .. c : EntriesFound[i] = EntryAt(Offset[i - 1])
    BY <1>1, FoundAre DEF MerkleInv
<1>3. n \in Nat /\ n <= c
    BY <1>1, CountIs DEF MerkleInv, Counted, Follows
<1>4. metadata.leaves = Leaves(table)
    BY DEF MetadataIntact
<1>5. Len(table) \in Nat
    BY TableIs DEF MerkleInv
<1>6. e \in 1 .. Len(table) /\ e \in 1 .. c
    BY <1>3, <1>5
<1>7. Offset[e - 1] = Begin(e)
    <2>1. e - 1 \in 0 .. n /\ e - 1 + 1 = e
        BY <1>3
    <2> QED BY <2>1 DEF Follows
<1>8. EntriesFound[e] = EntryAt(Begin(e))
    BY <1>2, <1>6, <1>7
<1>9. MatchesLeaf(e, SerializeEntry(EntriesFound[e])) <=> Same(e)
    <2>1. e \in DOMAIN metadata.leaves
          /\ metadata.leaves[e] = Hash(SerializeEntry(table[e]))
        BY <1>4, <1>6, LeavesAre DEF MerkleInv
    <2> QED BY <1>8, <2>1, HashTells DEF MatchesLeaf, Same
<1>10. Len(metadata.leaves) = Len(table)
    BY <1>4, LeavesAre DEF MerkleInv
<1>11. e \in 1 .. Len(EntriesFound) + Len(metadata.leaves) /\ e <= Len(EntriesFound)
    BY <1>2, <1>5, <1>6, <1>10
<1>12. e \in Changed(EntriesFound) <=> ~MatchesLeaf(e, SerializeEntry(EntriesFound[e]))
    BY <1>11 DEF Changed
<1> QED BY <1>9, <1>12 DEF Told

\* Bytes that are intact from the beginning are so in every entry, its sizes included
LEMMA IntactParts ==
    ASSUME MerkleInv, NEW i \in 1 .. Len(table), Intact(0, End(i)), NEW e \in 1 .. i
    PROVE  /\ Intact(Begin(e), End(e))
           /\ Outcome(Begin(e)) = "ok" /\ EntryEnd(Begin(e)) = End(e)
<1>1. table \in Tables /\ Len(table) \in Nat /\ Len(data) \in Nat
    BY TableIs DEF MerkleInv
<1>2. e \in 1 .. Len(table) /\ e <= i
    BY <1>1
<1>3. Begin(e) \in Nat /\ End(e) \in Nat /\ End(i) \in Nat /\ End(e) <= End(i)
    BY <1>1, <1>2, TableOrder
<1>4. End(i) <= Len(data) /\ \A j \in 0 + 1 .. End(i) : SameByte(j)
    BY DEF Intact
<1>5. Intact(Begin(e), End(e))
    <2>1. End(e) <= Len(data)
        BY <1>1, <1>3, <1>4
    <2>2. \A j \in Begin(e) + 1 .. End(e) : j \in 0 + 1 .. End(i)
        BY <1>3
    <2> QED BY <1>4, <2>1, <2>2 DEF Intact
<1>6. PICK n \in Nat : n = SerialSize(table[e]) /\ n >= 3 /\ End(e) = Begin(e) + n
    BY <1>1, <1>2, EntrySpans DEF Spans
<1>7. ASSUME NEW j \in 2 .. 3
      PROVE  data[Begin(e) + j] = written[Begin(e) + j]
    <2>1. j \in 2 .. SerialSize(table[e]) /\ Begin(e) + j \in Begin(e) + 1 .. End(e)
        BY <1>3, <1>6
    <2>2. SameByte(Begin(e) + j)
        BY <1>5, <2>1 DEF Intact
    <2> QED BY <1>1, <1>2, <2>1, <2>2, NoFlag
<1>8. data[Begin(e) + 2] = written[Begin(e) + 2] /\ data[Begin(e) + 3] = written[Begin(e) + 3]
    BY <1>7
<1> QED BY <1>2, <1>5, <1>8, SizesFind DEF Intact

LEMMA InvChangesLocated == MerkleInv => ChangesLocated
<1> DEFINE changed == Changed(EntriesFound)
           sizes == UNION {{Begin(e) + 2, Begin(e) + 3} : e \in DOMAIN table}
<1> SUFFICES ASSUME MerkleInv, ValidateMerkle.ok, MetadataIntact
             PROVE  /\ \A i \in changed \cap DOMAIN table : ~Intact(0, End(i))
                    /\ Len(data) >= Len(written) /\ (\A i \in sizes : data[i] = written[i])
                         => changed \cap DOMAIN table
                                = {e \in DOMAIN table : ~Intact(Begin(e), End(e))}
    <2>1. ValidateMerkle.ok => ValidateMerkle.changed = changed
        BY DEF ValidateMerkle, Failed
    <2> HIDE DEF changed
    <2> QED BY <2>1 DEF ChangesLocated
<1>1. PICK n \in Nat : n = Len(table) /\ DOMAIN table = 1 .. n
    BY TableIs DEF MerkleInv
<1>2. ASSUME NEW i \in changed \cap DOMAIN table, Intact(0, End(i))
      PROVE  FALSE
    <2>1. i \in 1 .. n /\ i \in 1 .. Len(table) /\ i \in 0 .. Len(table) /\ i \in 1 .. i
        BY <1>1
    <2>2. \A e \in 1 .. i : /\ Intact(Begin(e), End(e))
                            /\ Outcome(Begin(e)) = "ok" /\ EntryEnd(Begin(e)) = End(e)
        BY <1>2, <2>1, IntactParts
    <2>3. Follows(i)
        BY <2>1, <2>2, FollowsIs
    <2>4. Same(i)
        BY <2>1, <2>2, IntactIsSame
    <2>5. Told(i)
        BY <2>1, <2>3, ToldIs
    <2> QED BY <2>4, <2>5 DEF Told
<1>3. ASSUME Len(data) >= Len(written), \A i \in sizes : data[i] = written[i]
      PROVE  changed \cap DOMAIN table = {e \in DOMAIN table : ~Intact(Begin(e), End(e))}
    <2>1. ASSUME NEW e \in 1 .. Len(table)
          PROVE  Outcome(Begin(e)) = "ok" /\ EntryEnd(Begin(e)) = End(e)
        <3>1. data[Begin(e) + 2] = written[Begin(e) + 2]
              /\ data[Begin(e) + 3] = written[Begin(e) + 3]
            <4>1. e \in DOMAIN table
                BY <1>1
            <4>2. Begin(e) + 2 \in sizes /\ Begin(e) + 3 \in sizes
                BY <4>1
            <4> HIDE DEF sizes
            <4> QED BY <1>3, <4>2
        <3>2. End(e) <= Len(data)
            <4>1. End(e) \in Nat /\ Len(written) \in Nat /\ End(e) <= Len(written)
                BY EntrySpans DEF MerkleInv, Spans
            <4>2. Len(data) \in Nat
                BY DEF MerkleInv
            <4> QED BY <1>3, <4>1, <4>2
        <3> QED BY <3>1, <3>2, SizesFind
    <2>2. ASSUME NEW e \in 1 .. n
          PROVE  e \in changed <=> ~Intact(Begin(e), End(e))
        <3>1. n \in 0 .. Len(table) /\ n \in 1 .. Len(table) /\ e \in 1 .. Len(table)
            BY <1>1
        <3>2. Follows(n)
            BY <1>1, <2>1, <3>1, FollowsIs
        <3>3. Told(e)
            BY <3>1, <3>2, ToldIs
        <3>4. Same(e) <=> Intact(Begin(e), End(e))
            BY <2>1, <3>1, SameIsIntact, IntactIsSame
        <3> QED BY <3>3, <3>4 DEF Told
    <2> HIDE DEF changed
    <2> QED BY <1>1, <2>2
<1> HIDE DEF changed, sizes
<1> QED BY <1>2, <1>3

LEMMA InvRootDistinguishes == MerkleInv => RootDistinguishes
<1> SUFFICES ASSUME MerkleInv, Len(EntriesFound) = Len(table),
                    Root(Leaves(EntriesFound)) = Root(Leaves(table))
             PROVE  Leaves(EntriesFound) = Leaves(table)
    BY DEF RootDistinguishes
<1>1. PICK n \in Nat : n = Len(EntriesFound) /\ DOMAIN EntriesFound = 1 .. n
    BY FoundAre DEF MerkleInv
<1>2. Leaves(EntriesFound) = [i \in 1 .. n |-> Hash(SerializeEntry(EntriesFound[i]))]
    BY <1>1 DEF Leaves
<1>3. IsSeq(Leaves(EntriesFound)) /\ Len(Leaves(EntriesFound)) = n
    BY <1>1, <1>2 DEF IsSeq
<1>4. IsSeq(Leaves(table)) /\ Len(Leaves(table)) = n
    BY <1>1, LeavesAre DEF MerkleInv
<1> QED BY <1>3, <1>4, RootTells

-----------------------------------------------------------------------------
(* The invariant is kept *)

LEMMA MerkleInit == Init => MerkleInv
<1> SUFFICES ASSUME Init
             PROVE  MerkleInv
    OBVIOUS
<1>1. table \in Tables
    BY DEF Init
<1>2. data \in Seq(Byte)
    BY <1>1, PlacedIs DEF Init, Placed, written
<1>3. /\ metadata.leaves = Leaves(table)
      /\ metadata = [count |-> Len(table), leaves |-> Leaves(table)]
    BY DEF Init
<1>4. LeavesKept
    <2>1. IsSeq(metadata.leaves) /\ Len(metadata.leaves) = Len(table) /\ Len(table) \in Nat
        BY <1>1, <1>3, LeavesAre, TableIs
    <2>2. \A i \in 1 .. Len(metadata.leaves) : LeafKept(i)
        BY <1>1, <1>3, <2>1, LeavesAre DEF LeafKept
    <2>3. metadata = [count |-> metadata.count, leaves |-> metadata.leaves]
        BY <1>3
    <2> QED BY <2>1, <2>2, <2>3 DEF LeavesKept
<1> QED BY <1>1, <1>2, <1>4 DEF MerkleInv

\* Leaves that are kept, given the table
KeptAs(m, t) ==
    /\ m = [count |-> m.count, leaves |-> m.leaves]
    /\ IsSeq(m.leaves) /\ Len(m.leaves) <= Len(t)
    /\ \A i \in 1 .. Len(m.leaves) : m.leaves[i] \in {Hash(SerializeEntry(t[i])), OtherHash}

LEMMA MerkleStep == MerkleInv /\ [Next]_vars => MerkleInv'
<1> SUFFICES ASSUME MerkleInv, [Next]_vars
             PROVE  MerkleInv'
    OBVIOUS
<1>1. table \in Tables /\ data \in Seq(Byte) /\ KeptAs(metadata, table) /\ Len(table) \in Nat
    BY TableIs DEF MerkleInv, LeavesKept, LeafKept, KeptAs
<1>2. SUFFICES table' \in Tables /\ data' \in Seq(Byte) /\ KeptAs(metadata', table')
    BY DEF MerkleInv, LeavesKept, LeafKept, KeptAs
<1>3. ASSUME Damage
      PROVE  table' = table
    BY <1>3 DEF Damage
<1> DEFINE leaves == metadata.leaves
<1>4. /\ metadata = [count |-> metadata.count, leaves |-> leaves]
      /\ IsSeq(leaves) /\ Len(leaves) <= Len(table) /\ DOMAIN leaves = 1 .. Len(leaves)
      /\ \A i \in 1 .. Len(leaves) : leaves[i] \in {Hash(SerializeEntry(table[i])), OtherHash}
    BY <1>1 DEF KeptAs, IsSeq
<1>5. Len(leaves) \in Nat
    BY <1>4 DEF IsSeq
<1>6. CASE ChangeByte
    <2>1. table' = table /\ metadata' = metadata
        BY <1>3, <1>6 DEF ChangeByte
    <2>2. PICK i \in DOMAIN data, b \in Byte : data' = [data EXCEPT ![i] = b]
        BY <1>6 DEF ChangeByte
    <2>3. data' \in Seq(Byte)
        BY <1>1, <2>2
    <2> QED BY <1>1, <2>1, <2>3
<1>7. CASE CutData
    <2>1. table' = table /\ metadata' = metadata
        BY <1>3, <1>7 DEF CutData
    <2>2. PICK n \in 0 .. Len(data) - 1 : data' = SubSeq(data, 1, n)
        BY <1>7 DEF CutData
    <2>3. data' \in Seq(Byte)
        BY <1>1, <2>2
    <2> QED BY <1>1, <2>1, <2>3
<1>8. CASE AddByte
    <2>1. table' = table /\ metadata' = metadata
        BY <1>3, <1>8 DEF AddByte
    <2>2. PICK b \in Byte : data' = Append(data, b)
        BY <1>8 DEF AddByte
    <2> QED BY <1>1, <2>1, <2>2
<1>9. CASE ChangeLeaf
    <2>1. table' = table /\ data' = data
        BY <1>3, <1>9 DEF ChangeLeaf
    <2>2. PICK i \in DOMAIN leaves : metadata' = [metadata EXCEPT !.leaves[i] = OtherHash]
        BY <1>9 DEF ChangeLeaf
    <2> DEFINE changed == [leaves EXCEPT ![i] = OtherHash]
    <2>3. metadata' = [count |-> metadata.count, leaves |-> changed]
        BY <1>4, <2>2
    <2>4. PICK n \in Nat : n = Len(leaves)
        BY <1>5
    <2>5. changed = [j \in 1 .. n |-> IF j = i THEN OtherHash ELSE leaves[j]]
        BY <1>4, <2>4
    <2> HIDE DEF leaves, changed
    <2>6. /\ Len(changed) = n
          /\ \A j \in 1 .. n : changed[j] = IF j = i THEN OtherHash ELSE leaves[j]
        BY <2>5
    <2>7. IsSeq(changed)
        BY <2>5, <2>6 DEF IsSeq
    <2>8. KeptAs([count |-> metadata.count, leaves |-> changed], table)
        BY <1>4, <2>4, <2>6, <2>7 DEF KeptAs
    <2> QED BY <1>1, <2>1, <2>3, <2>8
<1>10. CASE CutMetadata
    <2>1. table' = table /\ data' = data
        BY <1>3, <1>10 DEF CutMetadata
    <2>2. PICK n \in 0 .. Len(leaves) - 1 :
              metadata' = [metadata EXCEPT !.leaves = SubSeq(leaves, 1, n)]
        BY <1>10 DEF CutMetadata
    <2> DEFINE cut == SubSeq(leaves, 1, n)
    <2>3. metadata' = [count |-> metadata.count, leaves |-> cut]
        BY <1>4, <2>2
    <2>4. n \in Nat /\ n <= Len(leaves) /\ n <= Len(table)
        BY <1>1, <1>4, <1>5
    <2>5. cut = [j \in 1 .. n |-> leaves[j]]
        <3>1. PICK l : l = leaves /\ IsSeq(l)
            BY <1>4
        <3>2. SubSeq(l, 1, n) = [j \in 1 .. n |-> l[j]]
            <4> DEFINE S == {l[j] : j \in 1 .. Len(l)}
            <4>1. l \in Seq(S)
                BY <3>1 DEF IsSeq
            <4> HIDE DEF S
            <4> QED BY <2>4, <3>1, <4>1
        <3> QED BY <3>1, <3>2
    <2> HIDE DEF leaves, cut
    <2>6. Len(cut) = n /\ \A j \in 1 .. n : cut[j] = leaves[j]
        BY <2>4, <2>5
    <2>7. IsSeq(cut)
        BY <2>4, <2>5, <2>6 DEF IsSeq
    <2>8. \A j \in 1 .. n : j \in 1 .. Len(leaves)
        BY <1>5, <2>4
    <2>9. KeptAs([count |-> metadata.count, leaves |-> cut], table)
        BY <1>4, <2>4, <2>6, <2>7, <2>8 DEF KeptAs
    <2> QED BY <1>1, <2>1, <2>3, <2>9
<1>11. CASE ChangeCount
    <2>1. table' = table /\ data' = data
        BY <1>3, <1>11 DEF ChangeCount
    <2>2. PICK n : metadata' = [metadata EXCEPT !.count = n]
        BY <1>11 DEF ChangeCount
    <2>3. metadata' = [count |-> n, leaves |-> leaves]
        BY <1>4, <2>2
    <2> HIDE DEF leaves
    <2>4. KeptAs([count |-> n, leaves |-> leaves], table)
        BY <1>4 DEF KeptAs
    <2> QED BY <1>1, <2>1, <2>3, <2>4
<1>12. CASE UNCHANGED vars
    BY <1>1, <1>12 DEF vars
<1> QED BY <1>6, <1>7, <1>8, <1>9, <1>10, <1>11, <1>12 DEF Next

\* Whatever is done to the two files, the metadata's leaves stay those written, or are told
\* from every hash, and never get more (sstable.go:342-372)
THEOREM LeavesStayAsWritten == Spec => []MerkleInv
BY MerkleInit, MerkleStep, PTL DEF Spec

\* A table that ValidateMerkle calls valid, with as many leaves as it was written with, has
\* every byte and every leaf as written (sstable.go:218-233, 342-372)
THEOREM NoDamageUnnoticed == Spec => []DamageDetected
BY LeavesStayAsWritten, InvDamageDetected, PTL

\* What ValidateMerkle reports lies behind a change, and where no size was changed and no byte
\* is missing it reports the changed entries exactly (sstable.go:358-369)
THEOREM ReportsAreExact == Spec => []ChangesLocated
BY LeavesStayAsWritten, InvChangesLocated, PTL

\* Tables of as many entries with the same root have the same entries (tree.go:140-168)
THEOREM RootTellsTables == Spec => []RootDistinguishes
BY LeavesStayAsWritten, InvRootDistinguishes, PTL

==============================================================================
