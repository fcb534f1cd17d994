--------------------------- MODULE TokenBucketProofs ---------------------------
(***************************************************************************)
(* The token bucket limits what it should limit and nothing else, for      *)
(* every capacity, interval, running time and number of clock changes and  *)
(* failed writes.                                                          *)
(*                                                                         *)
(* The invariant ties a bucket, the running one or the logged one, to the  *)
(* time r of its last refill: the clock that the bucket keeps shows r up   *)
(* to the changes of the wall clock, the calls split into those served     *)
(* before r and those paid for since, and the tokens missing were taken    *)
(* since r.                                                                *)
(***************************************************************************)
EXTENDS TokenBucket, FiniteSetTheorems, TLAPS

-----------------------------------------------------------------------------
(* The inductive invariant *)

Typed ==
    /\ now \in Nat /\ skew \in Int /\ ahead \in Nat /\ back \in Nat /\ faults \in Nat
    /\ pc \in {"down", "ready", "store"}
    /\ capacity \in Nat /\ tokens \in 0..capacity
    /\ lastRefill \in [wall : Int, monotonic : Int] \cup [wall : Int]
    /\ stored \in [capacity : Nat, tokens : Nat, wall : Int]
    /\ taken \in Seq(0..now) /\ takenStored \in Seq(0..now) /\ served \in Seq(0..now)

\* The first call that is served logs the bucket, and a start restores it
StoredFirst ==
    /\ stored = NoState => served = <<>> /\ takenStored = <<>>
    /\ stored # NoState => stored.capacity > 0 /\ stored.tokens \in 0..stored.capacity
    /\ pc # "down" => capacity > 0 /\ (stored # NoState => capacity = stored.capacity)
    /\ pc = "down" => taken = takenStored

\* A wall clock's reading that was taken at r
WallAt(wall, r) == r + skew - ahead <= wall /\ wall <= r + skew + back

\* The calls served before a refill at r, all but k, and those paid for since
Recent(k, r) == {i \in 1..k : served[i] > r - (RefillInterval - ahead)}

PaidFor(cap, paid, r) ==
    \E k \in 0..Len(served) :
        /\ \A i \in 1..k : served[i] <= r
        /\ Cardinality(Recent(k, r)) <= cap
        /\ Len(served) - k <= paid

\* The tokens taken since r
Since(times, r) == {i \in DOMAIN times : times[i] >= r}

BucketRefilled ==
    pc # "down" =>
        \E r \in 0..now :
            /\ WallAt(lastRefill.wall, r)
            /\ "monotonic" \in DOMAIN lastRefill => lastRefill.monotonic = r
            /\ pc = "ready" => PaidFor(capacity, capacity - tokens, r)
            /\ pc = "store" => PaidFor(capacity, capacity - tokens - 1, r)
            /\ Cardinality(Since(taken, r)) >= capacity - tokens

StoredRefilled ==
    stored # NoState =>
        \E r \in 0..now :
            /\ WallAt(stored.wall, r)
            /\ PaidFor(stored.capacity, stored.capacity - stored.tokens, r)
            /\ Cardinality(Since(takenStored, r)) >= stored.capacity - stored.tokens

BucketInv == Typed /\ StoredFirst /\ BucketRefilled /\ StoredRefilled
-----------------------------------------------------------------------------
(* Counting the calls of a stretch of time *)

LEMMA SinceIs ==
    ASSUME NEW T, NEW times \in Seq(T), NEW r
    PROVE  /\ Since(times, r) \subseteq 1..Len(times)
           /\ IsFiniteSet(Since(times, r))
           /\ Cardinality(Since(times, r)) \in Nat
<1>1. Since(times, r) \subseteq 1..Len(times)
    BY DEF Since
<1>2. IsFiniteSet(1..Len(times))
    BY FS_Interval
<1>3. IsFiniteSet(Since(times, r))
    BY <1>1, <1>2, FS_Subset
<1> QED BY <1>1, <1>3, FS_CardinalityType

LEMMA SinceGrows ==
    ASSUME NEW times \in Seq(Int), NEW r \in Int, NEW t \in Int, t >= r
    PROVE  Cardinality(Since(Append(times, t), r)) = Cardinality(Since(times, r)) + 1
<1>1. Since(Append(times, t), r) = Since(times, r) \cup {Len(times) + 1}
    BY DEF Since
<1>2. Len(times) + 1 \notin Since(times, r)
    BY DEF Since
<1> QED BY <1>1, <1>2, SinceIs, FS_AddElement

LEMMA ServedIs ==
    ASSUME Typed
    PROVE  /\ Len(served) \in Nat
           /\ DOMAIN served = 1..Len(served)
           /\ \A i \in 1..Len(served) : served[i] \in Int
           /\ now \in Nat /\ ahead \in Nat
BY DEF Typed

LEMMA RecentIs ==
    ASSUME NEW k \in Nat, NEW r
    PROVE  IsFiniteSet(Recent(k, r)) /\ Cardinality(Recent(k, r)) \in Nat
<1>1. Recent(k, r) \in SUBSET (1..k)
    BY DEF Recent
<1>2. IsFiniteSet(1..k)
    BY FS_Interval
<1>3. IsFiniteSet(Recent(k, r))
    BY <1>1, <1>2, FS_Subset
<1> QED BY <1>3, FS_CardinalityType

\* A stretch of the interval's length that ends after the refill, served at most what
\* was paid for before it and since
LEMMA PaidForBounds ==
    ASSUME TokenBucketAssumption, Typed, NEW cap \in Nat, NEW paid \in Int,
           NEW r \in 0..now, PaidFor(cap, paid, r)
    PROVE  /\ Within(served, RefillInterval - ahead) <= cap + paid
           /\ Within(served, RefillInterval - ahead) \in Nat
<1> DEFINE late == {i \in DOMAIN served : served[i] > now - (RefillInterval - ahead)}
<1>1. PICK k \in 0..Len(served) : /\ Cardinality(Recent(k, r)) <= cap
                                  /\ Len(served) - k <= paid
    BY DEF PaidFor
<1>2. late \in SUBSET (Recent(k, r) \cup ((k + 1)..Len(served)))
    <2>1. SUFFICES ASSUME NEW i \in late, i \notin (k + 1)..Len(served)
                   PROVE  i \in Recent(k, r)
        OBVIOUS
    <2>2. i \in 1..Len(served) /\ served[i] > now - (RefillInterval - ahead)
        BY ServedIs
    <2>3. i \in 1..k /\ served[i] \in Int
        BY <2>1, <2>2, ServedIs
    <2>4. now >= r /\ now \in Nat /\ ahead \in Nat /\ RefillInterval \in Nat
        BY ServedIs DEF TokenBucketAssumption
    <2> QED BY <2>2, <2>3, <2>4 DEF Recent
<1>3. /\ IsFiniteSet((k + 1)..Len(served))
      /\ Cardinality((k + 1)..Len(served)) = Len(served) - k
    <2>1. /\ Len(served) \in Int /\ k \in Int /\ k + 1 \in Int /\ 1 \in Int
          /\ k <= Len(served)
        BY ServedIs
    <2>2. /\ IsFiniteSet((k + 1)..Len(served))
          /\ Cardinality((k + 1)..Len(served))
                 = IF k + 1 > Len(served) THEN 0 ELSE Len(served) - (k + 1) + 1
        BY <2>1, FS_Interval, Zenon
    <2> QED BY <2>1, <2>2
<1>4. Cardinality(Recent(k, r) \cap ((k + 1)..Len(served))) = 0
    <2>1. Recent(k, r) \cap ((k + 1)..Len(served)) = {}
        BY DEF Recent
    <2> QED BY <2>1, FS_EmptySet
<1>5. /\ IsFiniteSet(Recent(k, r) \cup ((k + 1)..Len(served)))
      /\ Cardinality(Recent(k, r) \cup ((k + 1)..Len(served)))
             = Cardinality(Recent(k, r)) + (Len(served) - k)
    <2>1. Len(served) \in Nat /\ k \in Nat
        BY DEF Typed
    <2>2. IsFiniteSet(Recent(k, r)) /\ Cardinality(Recent(k, r)) \in Nat
        BY <2>1, RecentIs
    <2> DEFINE A == Recent(k, r)
               B == (k + 1)..Len(served)
    <2>3. /\ IsFiniteSet(A \cup B)
          /\ Cardinality(A \cup B) = Cardinality(A) + Cardinality(B) - Cardinality(A \cap B)
        BY <1>3, <2>2, FS_Union
    <2> QED BY <1>3, <1>4, <2>1, <2>2, <2>3
<1>6. Cardinality(late) <= Cardinality(Recent(k, r)) + (Len(served) - k)
    BY <1>2, <1>5, FS_Subset
<1>7. IsFiniteSet(late)
    BY <1>2, <1>5, FS_Subset
<1>8. Cardinality(late) \in Nat
    BY <1>7, FS_CardinalityType
<1>9. Cardinality(Recent(k, r)) \in Nat /\ Len(served) \in Nat
    BY RecentIs DEF Typed
<1> QED BY <1>1, <1>6, <1>8, <1>9 DEF Within

\* Time goes on, and the wall clock may be set
ClockMoves ==
    /\ now' \in Nat /\ ahead' \in Nat /\ back' \in Nat /\ skew' \in Int
    /\ now <= now' /\ ahead <= ahead' /\ back <= back'
    /\ skew' - ahead' <= skew - ahead
    /\ skew + back <= skew' + back'

LEMMA WallStays ==
    ASSUME Typed, ClockMoves, NEW wall \in Int, NEW r \in 0..now, WallAt(wall, r)
    PROVE  WallAt(wall, r)' /\ r \in 0..now'
<1>1. now \in Nat /\ skew \in Int /\ ahead \in Nat /\ back \in Nat
    BY DEF Typed
<1>2. r \in Int
    BY <1>1
<1>3. WallAt(wall, r)'
    <2>1. r + skew - ahead <= wall /\ wall <= r + skew + back
        BY DEF WallAt
    <2>2. /\ ahead' \in Nat /\ back' \in Nat /\ skew' \in Int
          /\ skew' - ahead' <= skew - ahead /\ skew + back <= skew' + back'
        BY DEF ClockMoves
    <2>3. r + skew' - ahead' <= wall /\ wall <= r + skew' + back'
        <3>1. \A w, x, s, a, b, s1, a1, b1 \in Int :
                  /\ x + s - a <= w /\ w <= x + s + b
                  /\ s1 - a1 <= s - a /\ s + b <= s1 + b1
                  => x + s1 - a1 <= w /\ w <= x + s1 + b1
            OBVIOUS
        <3>2. /\ wall \in Int /\ r \in Int /\ skew \in Int /\ ahead \in Int /\ back \in Int
              /\ skew' \in Int /\ ahead' \in Int /\ back' \in Int
            BY <1>1, <1>2, <2>2
        <3> QED BY <2>1, <2>2, <3>1, <3>2, Zenon
    <2> QED BY <2>3 DEF WallAt
<1> QED BY <1>1, <1>3 DEF ClockMoves

LEMMA ClockStays ==
    ASSUME Typed, UNCHANGED clock
    PROVE  ClockMoves
BY DEF Typed, clock, ClockMoves

\* Setting the clock ahead, or time passing, leaves what was paid for
LEMMA PaidForStays ==
    ASSUME TokenBucketAssumption, Typed, served' = served, ahead' \in Nat, ahead <= ahead',
           NEW cap \in Nat, NEW paid \in Int, NEW more \in Int, paid <= more,
           NEW r \in 0..now, PaidFor(cap, paid, r)
    PROVE  PaidFor(cap, more, r)'
<1>1. PICK k \in 0..Len(served) :
          /\ \A i \in 1..k : served[i] <= r
          /\ Cardinality(Recent(k, r)) <= cap
          /\ Len(served) - k <= paid
    BY DEF PaidFor
<1>2. Recent(k, r)' \in SUBSET Recent(k, r)
    <2>1. SUFFICES ASSUME NEW i \in 1..k, served[i] > r - (RefillInterval - ahead')
                   PROVE  served[i] > r - (RefillInterval - ahead)
        BY DEF Recent
    <2>2. i \in 1..Len(served) /\ served[i] \in Int
        BY ServedIs
    <2>3. now \in Nat /\ ahead \in Nat /\ RefillInterval \in Nat
        BY ServedIs DEF TokenBucketAssumption
    <2> QED BY <2>1, <2>2, <2>3
<1>3. /\ Cardinality(Recent(k, r)') <= Cardinality(Recent(k, r))
      /\ IsFiniteSet(Recent(k, r)')
    BY <1>2, RecentIs, FS_Subset
<1>4. Cardinality(Recent(k, r)') \in Nat /\ Cardinality(Recent(k, r)) \in Nat
    BY <1>3, RecentIs, FS_CardinalityType
<1>5. Cardinality(Recent(k, r)') <= cap
    BY <1>1, <1>3, <1>4
<1>6. Len(served) \in Nat
    BY DEF Typed
<1> QED BY <1>1, <1>5, <1>6 DEF PaidFor

\* A refill that is due leaves nothing of the stretch before it but what the last paid for
LEMMA RefillPaysAgain ==
    ASSUME TokenBucketAssumption, Typed, NEW cap \in Nat, NEW paid \in Int, paid <= cap,
           NEW r \in 0..now, PaidFor(cap, paid, r), r <= now - (RefillInterval - ahead)
    PROVE  PaidFor(cap, 0, now)
<1> DEFINE n == Len(served)
<1>1. PICK k \in 0..n : /\ \A i \in 1..k : served[i] <= r
                        /\ n - k <= paid
    BY DEF PaidFor
<1>2. Recent(n, now) \in SUBSET ((k + 1)..n)
    <2>1. SUFFICES ASSUME NEW i \in 1..n, served[i] > now - (RefillInterval - ahead),
                          i \in 1..k
                   PROVE  FALSE
        BY ServedIs DEF Recent
    <2>2. served[i] <= r /\ served[i] \in Int
        BY <1>1, <2>1, ServedIs
    <2>3. now \in Nat /\ ahead \in Nat /\ RefillInterval \in Nat
        BY ServedIs DEF TokenBucketAssumption
    <2> QED BY <2>1, <2>2, <2>3
<1>3. /\ IsFiniteSet((k + 1)..n)
      /\ Cardinality((k + 1)..n) = n - k
    <2>1. n \in Int /\ k \in Int /\ k + 1 \in Int /\ k <= n
        BY ServedIs
    <2>2. /\ IsFiniteSet((k + 1)..n)
          /\ Cardinality((k + 1)..n) = IF k + 1 > n THEN 0 ELSE n - (k + 1) + 1
        BY <2>1, FS_Interval, Zenon
    <2> QED BY <2>1, <2>2
<1>4. Cardinality(Recent(n, now)) <= n - k
    BY <1>2, <1>3, FS_Subset
<1>5. Cardinality(Recent(n, now)) \in Nat
    BY RecentIs, ServedIs
<1>6. \A i \in 1..n : served[i] <= now
    BY SMTT(20) DEF Typed
<1>7. Cardinality(Recent(n, now)) <= cap
    BY <1>1, <1>4, <1>5, ServedIs
<1> QED BY <1>6, <1>7, ServedIs DEF PaidFor

\* A call that is served uses one of those paid for
LEMMA PaidForServed ==
    ASSUME TokenBucketAssumption, Typed, served' = Append(served, now),
           UNCHANGED <<now, ahead>>,
           NEW cap \in Nat, NEW paid \in Int, NEW r \in 0..now, PaidFor(cap, paid, r)
    PROVE  PaidFor(cap, paid + 1, r)'
<1>1. PICK k \in 0..Len(served) :
          /\ \A i \in 1..k : served[i] <= r
          /\ Cardinality(Recent(k, r)) <= cap
          /\ Len(served) - k <= paid
    BY DEF PaidFor
<1>2. /\ Len(served') = Len(served) + 1
      /\ \A i \in 1..Len(served) : served'[i] = served[i]
    BY DEF Typed
<1>3. Recent(k, r)' = Recent(k, r)
    BY <1>2, ServedIs, SMTT(20) DEF Recent
<1>4. /\ \A i \in 1..k : served'[i] <= r
      /\ Len(served') - k <= paid + 1
      /\ k \in 0..Len(served')
    BY <1>1, <1>2, ServedIs
<1> QED BY <1>1, <1>3, <1>4 DEF PaidFor

LEMMA TokenPaid ==
    ASSUME TokenBucketAssumption, Typed, served' = Append(served, now),
           UNCHANGED <<now, ahead, capacity, tokens>>, capacity \in Nat, tokens \in Nat,
           NEW r \in 0..now, PaidFor(capacity, capacity - tokens - 1, r)
    PROVE  PaidFor(capacity, capacity - tokens, r)'
<1>1. PICK paid \in Int, cap \in Nat : paid = capacity - tokens - 1 /\ cap = capacity
    OBVIOUS
<1>2. PaidFor(cap, paid, r)
    BY <1>1
<1>3. PaidFor(cap, paid + 1, r)'
    BY <1>2, PaidForServed
<1>4. cap = capacity' /\ paid + 1 = capacity' - tokens'
    BY <1>1
<1> QED BY <1>3, <1>4

-----------------------------------------------------------------------------
(* The invariant holds *)

LEMMA InitBucketInv == TokenBucketAssumption /\ Init => BucketInv
BY DEF Init, BucketInv, Typed, StoredFirst, BucketRefilled, StoredRefilled, Now, NoState

LEMMA TypedStep ==
    ASSUME TokenBucketAssumption, BucketInv, [Next]_vars
    PROVE  Typed'
<1>0. Typed /\ StoredFirst
    BY DEF BucketInv
<1> USE <1>0
<1>1. CASE Tick
    BY <1>1 DEF Tick, Typed, bucket
<1>2. CASE Jump
    BY <1>2, SMTT(20) DEF Jump, Typed, bucket
<1>3. CASE Start
    BY <1>3 DEF Start, New, Restored, Now, Typed, clock, StoredFirst, TokenBucketAssumption
<1>4. CASE Take
    <2>1. tokens' \in 0..capacity'
        BY <1>4 DEF Take, Available, Typed
    <2> QED BY <1>4, <2>1 DEF Take, Now, Typed, clock
<1>5. CASE Deny
    BY <1>5 DEF Deny, Denied, Typed, clock, bucket
<1>8. CASE StoreFails
    BY <1>8 DEF StoreFails, Typed, clock, bucket
<1>9. CASE UNCHANGED vars
    BY <1>9 DEF vars, Typed
<1>6. CASE Store
    BY <1>6 DEF Store, Typed, clock, bucket
<1>7. CASE Stop
    BY <1>7 DEF Stop, Typed, clock
<1> QED BY <1>1, <1>2, <1>3, <1>4, <1>5, <1>6, <1>7, <1>8, <1>9 DEF Next

LEMMA StoredFirstStep ==
    ASSUME TokenBucketAssumption, BucketInv, [Next]_vars
    PROVE  StoredFirst'
<1>0. Typed /\ StoredFirst
    BY DEF BucketInv
<1>1. CASE Tick \/ Jump \/ Deny \/ UNCHANGED vars
    <2>1. UNCHANGED <<pc, stored, capacity, served, taken, takenStored>>
        BY <1>1 DEF Tick, Jump, Deny, vars, bucket
    <2> QED BY <1>0, <2>1 DEF StoredFirst
<1>6. CASE StoreFails
    <2>1. /\ UNCHANGED <<stored, capacity, served, taken, takenStored>>
          /\ pc # "down" /\ pc' # "down"
        BY <1>6 DEF StoreFails, bucket
    <2> QED BY <1>0, <2>1 DEF StoredFirst
<1>2. CASE Start
    <2>1. UNCHANGED <<stored, served, takenStored, taken>> /\ pc' = "ready"
        BY <1>2 DEF Start
    <2>2. CASE stored = NoState
        BY <1>0, <1>2, <2>1, <2>2
           DEF Start, New, StoredFirst, NoState, TokenBucketAssumption
    <2>3. CASE stored # NoState
        BY <1>0, <1>2, <2>1, <2>3 DEF Start, Restored, StoredFirst
    <2> QED BY <2>2, <2>3
<1>3. CASE Take
    BY <1>0, <1>3 DEF Take, clock, StoredFirst
<1>4. CASE Store
    BY <1>0, <1>4 DEF Store, clock, bucket, StoredFirst, Typed, NoState
<1>5. CASE Stop
    BY <1>0, <1>5 DEF Stop, clock, StoredFirst
<1> QED BY <1>1, <1>2, <1>3, <1>4, <1>5, <1>6 DEF Next

LEMMA ClockStep ==
    ASSUME Typed, Tick \/ Jump
    PROVE  ClockMoves
<1>1. now \in Nat /\ skew \in Int /\ ahead \in Nat /\ back \in Nat
    BY DEF Typed
<1>2. CASE Tick
    BY <1>1, <1>2 DEF Tick, ClockMoves
<1>3. CASE Jump
    BY <1>1, <1>3 DEF Jump, ClockMoves
<1> QED BY <1>2, <1>3

LEMMA StoredRefilledStep ==
    ASSUME TokenBucketAssumption, BucketInv, [Next]_vars
    PROVE  StoredRefilled'
<1>0. Typed /\ StoredFirst /\ BucketRefilled /\ StoredRefilled
    BY DEF BucketInv
<1>1. ASSUME UNCHANGED <<stored, served, takenStored>>, ClockMoves
      PROVE  StoredRefilled'
    <2>1. SUFFICES ASSUME stored # NoState
                   PROVE  StoredRefilled'
        BY <1>1 DEF StoredRefilled, NoState
    <2>2. PICK r \in 0..now :
              /\ WallAt(stored.wall, r)
              /\ PaidFor(stored.capacity, stored.capacity - stored.tokens, r)
              /\ Cardinality(Since(takenStored, r)) >= stored.capacity - stored.tokens
        BY <1>0, <2>1 DEF StoredRefilled
    <2>3. /\ stored.capacity \in Nat /\ stored.tokens \in Nat /\ stored.wall \in Int
          /\ skew \in Int /\ ahead \in Nat /\ back \in Nat /\ now \in Nat
        BY <1>0 DEF Typed
    <2>4. WallAt(stored.wall, r)' /\ r \in 0..now'
        <3>1. WallAt(stored.wall, r)' <=> (\A w \in {stored.wall} : WallAt(w, r)')
            BY <1>1 DEF WallAt
        <3> QED BY <1>0, <1>1, <2>2, <2>3, <3>1, WallStays
    <2>5. PaidFor(stored.capacity, stored.capacity - stored.tokens, r)'
        BY <1>0, <1>1, <2>2, <2>3, PaidForStays DEF ClockMoves
    <2> QED BY <1>1, <2>2, <2>4, <2>5 DEF StoredRefilled
<1>2. CASE Tick \/ Jump
    <2>1. UNCHANGED <<stored, served, takenStored>>
        BY <1>2 DEF Tick, Jump
    <2> QED BY <1>0, <1>1, <1>2, <2>1, ClockStep
<1>4. CASE Start \/ Take \/ Deny \/ StoreFails \/ Stop \/ UNCHANGED vars
    <2>1. UNCHANGED <<stored, served, takenStored>> /\ UNCHANGED clock
        BY <1>4 DEF Start, Take, Deny, StoreFails, Stop, vars, clock
    <2> QED BY <1>0, <1>1, <2>1, ClockStays
<1>5. CASE Store
    <2>1. PICK r \in 0..now :
              /\ WallAt(lastRefill.wall, r)
              /\ PaidFor(capacity, capacity - tokens - 1, r)
              /\ Cardinality(Since(taken, r)) >= capacity - tokens
        BY <1>0, <1>5 DEF BucketRefilled, Store
    <2>2. capacity \in Nat /\ tokens \in 0..capacity
        BY <1>0 DEF Typed
    <2>3. PaidFor(capacity, capacity - tokens, r)'
        <3>1. served' = Append(served, now) /\ UNCHANGED <<now, ahead, capacity, tokens>>
            BY <1>5 DEF Store, clock, bucket
        <3> QED BY <1>0, <2>1, <2>2, <3>1, TokenPaid
    <2>4. /\ stored' = [capacity |-> capacity, tokens |-> tokens, wall |-> lastRefill.wall]
          /\ takenStored' = taken
          /\ UNCHANGED <<capacity, tokens, now, skew, ahead, back>>
        BY <1>5 DEF Store, clock, bucket
    <2> QED BY <2>1, <2>3, <2>4 DEF StoredRefilled, WallAt
<1> QED BY <1>2, <1>4, <1>5 DEF Next

LEMMA BucketRefilledStep ==
    ASSUME TokenBucketAssumption, BucketInv, [Next]_vars
    PROVE  BucketRefilled'
<1>0. Typed /\ StoredFirst /\ BucketRefilled /\ StoredRefilled
    BY DEF BucketInv
<1>a. /\ capacity \in Nat /\ tokens \in Nat /\ tokens <= capacity /\ lastRefill.wall \in Int
      /\ skew \in Int /\ ahead \in Nat /\ back \in Nat /\ now \in Nat
      /\ taken \in Seq(Int) /\ Len(served) \in Nat
    BY <1>0 DEF Typed
<1>1. ASSUME UNCHANGED <<bucket, served, taken>>, ClockMoves,
             pc' = pc \/ (pc = "store" /\ pc' = "ready")
      PROVE  BucketRefilled'
    <2>1. SUFFICES ASSUME pc # "down"
                   PROVE  BucketRefilled'
        BY <1>1 DEF BucketRefilled
    <2>2. PICK r \in 0..now :
              /\ WallAt(lastRefill.wall, r)
              /\ "monotonic" \in DOMAIN lastRefill => lastRefill.monotonic = r
              /\ pc = "ready" => PaidFor(capacity, capacity - tokens, r)
              /\ pc = "store" => PaidFor(capacity, capacity - tokens - 1, r)
              /\ Cardinality(Since(taken, r)) >= capacity - tokens
        BY <1>0, <2>1 DEF BucketRefilled
    <2>3. UNCHANGED <<capacity, tokens, lastRefill>>
        BY <1>1 DEF bucket
    <2>4. WallAt(lastRefill.wall, r)' /\ r \in 0..now'
        <3>1. WallAt(lastRefill.wall, r)' <=> (\A w \in {lastRefill.wall} : WallAt(w, r)')
            BY <2>3 DEF WallAt
        <3> QED BY <1>0, <1>1, <1>a, <2>2, <3>1, WallStays
    <2>5. pc' = "ready" => PaidFor(capacity, capacity - tokens, r)'
        <3>1. \A paid \in Int : PaidFor(capacity, paid, r) /\ paid <= capacity - tokens
                  => PaidFor(capacity, capacity - tokens, r)'
            BY <1>0, <1>1, <1>a, <2>3, PaidForStays DEF ClockMoves
        <3> QED BY <1>1, <1>a, <2>2, <2>3, <3>1
    <2>6. pc' = "store" => PaidFor(capacity, capacity - tokens - 1, r)'
        <3>1. PaidFor(capacity, capacity - tokens - 1, r)
                  => PaidFor(capacity, capacity - tokens - 1, r)'
            BY <1>0, <1>1, <1>a, <2>3, PaidForStays DEF ClockMoves
        <3> QED BY <1>1, <1>a, <2>2, <2>3, <3>1
    <2> QED BY <1>1, <2>2, <2>3, <2>4, <2>5, <2>6 DEF BucketRefilled
<1>2. CASE Tick \/ Jump
    <2>1. UNCHANGED <<bucket, served, taken>> /\ pc' = pc
        BY <1>2 DEF Tick, Jump
    <2> QED BY <1>0, <1>1, <1>2, <2>1, ClockStep
<1>4. CASE Deny \/ StoreFails \/ UNCHANGED vars
    <2>1. /\ UNCHANGED <<bucket, served, taken>> /\ UNCHANGED clock
          /\ pc' = pc \/ (pc = "store" /\ pc' = "ready")
        BY <1>4 DEF Deny, StoreFails, vars, clock, bucket
    <2> QED BY <1>0, <1>1, <2>1, ClockStays
<1>5. CASE Start
    <2>0. UNCHANGED <<now, skew, ahead, back, served, taken>> /\ pc' = "ready"
        BY <1>5 DEF Start, clock
    <2>1. CASE stored = NoState /\ \E c \in Capacities : New(c)
        <3>1. PICK c \in Capacities : New(c)
            BY <2>1
        <3>2. /\ capacity' = c /\ tokens' = c /\ c \in Nat
              /\ lastRefill' = [wall |-> now + skew, monotonic |-> now]
            BY <3>1 DEF New, Now, TokenBucketAssumption
        <3>3. PaidFor(capacity, capacity - tokens, now)'
            <4>1. Len(served) = 0
                BY <1>0, <2>1 DEF StoredFirst
            <4>2. Recent(0, now)' = {}
                BY DEF Recent
            <4>3. Cardinality(Recent(0, now)') <= c
                BY <3>2, <4>2, FS_EmptySet
            <4> QED BY <2>0, <3>2, <4>1, <4>3 DEF PaidFor
        <3>4. Cardinality(Since(taken, now)') >= 0
            <4>1. Cardinality(Since(taken, now)) \in Nat
                BY <1>a, SinceIs
            <4> QED BY <2>0, <4>1
        <3>5. WallAt(lastRefill.wall, now)'
            BY <1>a, <2>0, <3>2 DEF WallAt
        <3>6. now' \in 0..now'
            BY <1>a, <2>0
        <3> QED BY <2>0, <3>2, <3>3, <3>4, <3>5, <3>6 DEF BucketRefilled
    <2>2. CASE stored # NoState /\ Restored
        <3>1. PICK r \in 0..now :
                  /\ WallAt(stored.wall, r)
                  /\ PaidFor(stored.capacity, stored.capacity - stored.tokens, r)
                  /\ Cardinality(Since(takenStored, r)) >= stored.capacity - stored.tokens
            BY <1>0, <2>2 DEF StoredRefilled
        <3>2. /\ capacity' = stored.capacity /\ tokens' = stored.tokens
              /\ lastRefill' = [wall |-> stored.wall] /\ taken' = takenStored
            BY <1>0, <1>5, <2>2 DEF Restored, StoredFirst, Start
        <3>3. stored.capacity \in Nat /\ stored.tokens \in Nat
            BY <1>0 DEF Typed
        <3>4. PaidFor(stored.capacity, stored.capacity - stored.tokens, r)'
            <4>1. stored' = stored
                BY <1>5 DEF Start
            <4> QED BY <1>0, <1>a, <2>0, <3>1, <3>3, <4>1, PaidForStays
        <3>5. stored' = stored
            BY <1>5 DEF Start
        <3>6. WallAt(lastRefill.wall, r)'
            BY <2>0, <3>1, <3>2 DEF WallAt
        <3>7. PaidFor(capacity, capacity - tokens, r)'
            BY <3>2, <3>4, <3>5
        <3>8. ~("monotonic" \in DOMAIN lastRefill')
            BY <3>2
        <3> QED BY <2>0, <3>1, <3>2, <3>6, <3>7, <3>8 DEF BucketRefilled
    <2> QED BY <1>5, <2>1, <2>2 DEF Start
<1>6. CASE Take
    <2>0. /\ UNCHANGED <<now, skew, ahead, back, served, capacity>>
          /\ pc = "ready" /\ pc' = "store" /\ taken' = Append(taken, now)
        BY <1>6 DEF Take, clock
    <2>1. PICK r \in 0..now :
              /\ WallAt(lastRefill.wall, r)
              /\ "monotonic" \in DOMAIN lastRefill => lastRefill.monotonic = r
              /\ PaidFor(capacity, capacity - tokens, r)
              /\ Cardinality(Since(taken, r)) >= capacity - tokens
        BY <1>0, <2>0 DEF BucketRefilled
    <2>2. r \in 0..now' /\ r \in Int
        BY <1>a, <2>0, <2>1
    <2>3. CASE ~RefillDue
        <3>1. tokens' = tokens - 1 /\ lastRefill' = lastRefill
            BY <1>6, <2>3 DEF Take, Available
        <3>2. PaidFor(capacity, capacity - tokens - 1, r)'
            <4>1. \A paid \in Int : PaidFor(capacity, paid, r) => PaidFor(capacity, paid, r)'
                BY <1>0, <1>a, <2>0, <2>1, PaidForStays
            <4>2. capacity - tokens \in Int /\ capacity' - tokens' - 1 = capacity - tokens
                BY <1>a, <2>0, <3>1
            <4>3. \A paid \in Int : PaidFor(capacity, paid, r) =>
                      \A p \in {paid} : PaidFor(capacity, p, r)'
                BY <4>1
            <4> QED BY <2>0, <2>1, <4>1, <4>2
        <3>3. Cardinality(Since(taken', r)) >= capacity' - tokens'
            <4>1. Cardinality(Since(taken', r)) = Cardinality(Since(taken, r)) + 1
                BY <1>a, <2>0, <2>1, <2>2, SinceGrows
            <4>2. Cardinality(Since(taken, r)) \in Nat
                BY <1>a, SinceIs
            <4> QED BY <1>a, <2>0, <2>1, <3>1, <4>1, <4>2
        <3>4. WallAt(lastRefill.wall, r)'
            BY <2>0, <2>1, <3>1 DEF WallAt
        <3> QED BY <2>0, <2>1, <2>2, <3>1, <3>2, <3>3, <3>4 DEF BucketRefilled
    <2>4. CASE RefillDue
        <3>1. /\ tokens' = capacity - 1
              /\ lastRefill' = [wall |-> now + skew, monotonic |-> now]
            BY <1>6, <2>4 DEF Take, Available, Now
        <3>2. r <= now - (RefillInterval - ahead)
            <4>1. RefillInterval \in Nat
                BY DEF TokenBucketAssumption
            <4>2. CASE "monotonic" \in DOMAIN lastRefill
                BY <1>a, <2>1, <2>2, <2>4, <4>1, <4>2 DEF RefillDue, Elapsed, Now
            <4>3. CASE ~("monotonic" \in DOMAIN lastRefill)
                BY <1>a, <2>1, <2>2, <2>4, <4>1, <4>3 DEF RefillDue, Elapsed, Now, WallAt
            <4> QED BY <4>2, <4>3
        <3>3. PaidFor(capacity, 0, now)
            <4>1. capacity - tokens \in Int /\ capacity - tokens <= capacity
                BY <1>a
            <4> QED BY <1>0, <1>a, <2>1, <3>2, <4>1, RefillPaysAgain
        <3>4. PaidFor(capacity, capacity - tokens - 1, now)'
            <4>1. now \in 0..now /\ 0 \in Int
                BY <1>a
            <4>2. PaidFor(capacity, 0, now)'
                BY <1>0, <1>a, <2>0, <3>3, <4>1, PaidForStays
            <4>3. capacity' - tokens' - 1 = 0
                BY <1>a, <2>0, <3>1
            <4> QED BY <2>0, <4>2, <4>3
        <3>5. Cardinality(Since(taken', now)) >= capacity' - tokens'
            <4>1. Cardinality(Since(taken', now)) = Cardinality(Since(taken, now)) + 1
                BY <1>a, <2>0, SinceGrows
            <4>2. Cardinality(Since(taken, now)) \in Nat
                BY <1>a, SinceIs
            <4> QED BY <1>a, <2>0, <3>1, <4>1, <4>2
        <3>6. WallAt(lastRefill.wall, now)'
            BY <1>a, <2>0, <3>1 DEF WallAt
        <3>7. now \in 0..now'
            BY <1>a, <2>0
        <3> QED BY <2>0, <3>1, <3>4, <3>5, <3>6, <3>7 DEF BucketRefilled
    <2> QED BY <2>3, <2>4
<1>7. CASE Stop
    BY <1>7 DEF Stop, BucketRefilled
<1>8. CASE Store
    <2>1. /\ UNCHANGED <<capacity, tokens, lastRefill, now, ahead, taken>> /\ UNCHANGED clock
          /\ pc = "store" /\ pc' = "ready" /\ served' = Append(served, now)
        BY <1>8 DEF Store, clock, bucket
    <2>2. PICK r \in 0..now :
              /\ WallAt(lastRefill.wall, r)
              /\ "monotonic" \in DOMAIN lastRefill => lastRefill.monotonic = r
              /\ PaidFor(capacity, capacity - tokens - 1, r)
              /\ Cardinality(Since(taken, r)) >= capacity - tokens
        BY <1>0, <2>1 DEF BucketRefilled
    <2>3. PaidFor(capacity, capacity - tokens, r)'
        BY <1>0, <1>a, <2>1, <2>2, TokenPaid
    <2> QED BY <2>1, <2>2, <2>3 DEF BucketRefilled, WallAt, clock
<1> QED BY <1>2, <1>4, <1>5, <1>6, <1>7, <1>8 DEF Next

-----------------------------------------------------------------------------
(* The theorems *)

LEMMA BucketInvStep ==
    ASSUME TokenBucketAssumption, BucketInv, [Next]_vars
    PROVE  BucketInv'
BY TypedStep, StoredFirstStep, StoredRefilledStep, BucketRefilledStep DEF BucketInv

\* The bucket's state has its types: never a negative number of tokens nor more than the
\* capacity, never a time ahead of the clock in the logs of calls.
THEOREM BucketTyped == Spec => []Typed
<1>1. Init => BucketInv
    BY InitBucketInv, TokenBucketAssumption
<1>2. BucketInv /\ [Next]_vars => BucketInv'
    BY BucketInvStep, TokenBucketAssumption
<1>3. BucketInv => Typed
    BY DEF BucketInv
<1> QED BY <1>1, <1>2, <1>3, PTL DEF Spec

LEMMA BoundedByInv == ASSUME BucketInv PROVE RateBounded
<1>0. Typed /\ StoredFirst /\ StoredRefilled
    BY DEF BucketInv
<1>1. SUFFICES ASSUME stored # NoState
               PROVE  Within(served, RefillInterval - ahead) <= 2 * stored.capacity
    BY DEF RateBounded
<1>2. PICK r \in 0..now : PaidFor(stored.capacity, stored.capacity - stored.tokens, r)
    BY <1>0, <1>1 DEF StoredRefilled
<1>3. stored.capacity \in Nat /\ stored.tokens \in Nat
    BY <1>0 DEF Typed
<1>4. /\ Within(served, RefillInterval - ahead)
             <= stored.capacity + (stored.capacity - stored.tokens)
      /\ Within(served, RefillInterval - ahead) \in Nat
    <2>1. stored.capacity - stored.tokens \in Int
        BY <1>3
    <2> QED BY <1>0, <1>2, <1>3, <2>1, PaidForBounds, TokenBucketAssumption
<1> QED BY <1>3, <1>4

\* No restart, crash, failed write of the state or setting of the clock is a way round the
\* limit, for every capacity and interval (RateBounded).
THEOREM RateIsBounded == Spec => []RateBounded
<1>1. Init => BucketInv
    BY InitBucketInv, TokenBucketAssumption
<1>2. BucketInv /\ [Next]_vars => BucketInv'
    BY BucketInvStep, TokenBucketAssumption
<1>3. BucketInv => RateBounded
    BY BoundedByInv
<1> QED BY <1>1, <1>2, <1>3, PTL DEF Spec

LEMMA JustifiedByInv == ASSUME BucketInv PROVE DenialsJustified
<1>0. Typed /\ StoredFirst /\ BucketRefilled
    BY DEF BucketInv
<1>1. SUFFICES ASSUME Denied
               PROVE  Within(taken, RefillInterval + back) >= capacity
    BY DEF DenialsJustified
<1>2. PICK r \in 0..now :
          /\ WallAt(lastRefill.wall, r)
          /\ "monotonic" \in DOMAIN lastRefill => lastRefill.monotonic = r
          /\ Cardinality(Since(taken, r)) >= capacity - tokens
    BY <1>0, <1>1 DEF BucketRefilled, Denied
<1>3. /\ capacity \in Nat /\ tokens \in Nat /\ lastRefill.wall \in Int /\ capacity > 0
      /\ skew \in Int /\ back \in Nat /\ now \in Nat /\ taken \in Seq(Int)
      /\ RefillInterval \in Nat
    BY <1>0, <1>1, TokenBucketAssumption
       DEF Typed, StoredFirst, Denied, TokenBucketAssumption
<1>4. ~RefillDue /\ tokens = 0
    BY <1>1, <1>3 DEF Denied, Available
<1>5. r > now - (RefillInterval + back)
    <2>1. CASE "monotonic" \in DOMAIN lastRefill
        BY <1>2, <1>3, <1>4, <2>1 DEF RefillDue, Elapsed, Now
    <2>2. CASE ~("monotonic" \in DOMAIN lastRefill)
        BY <1>2, <1>3, <1>4, <2>2 DEF RefillDue, Elapsed, Now, WallAt
    <2> QED BY <2>1, <2>2
<1> DEFINE late == {i \in DOMAIN taken : taken[i] > now - (RefillInterval + back)}
<1>6. Since(taken, r) \in SUBSET late
    BY <1>3, <1>5 DEF Since
<1>7. IsFiniteSet(late)
    <2>1. late \in SUBSET (1..Len(taken)) /\ Len(taken) \in Nat
        BY <1>3
    <2>2. IsFiniteSet(1..Len(taken))
        BY <2>1, FS_Interval
    <2> QED BY <2>1, <2>2, FS_Subset
<1>8. Cardinality(Since(taken, r)) <= Cardinality(late)
    BY <1>6, <1>7, FS_Subset
<1>9. Cardinality(late) \in Nat /\ Cardinality(Since(taken, r)) \in Nat
    BY <1>3, <1>7, SinceIs, FS_CardinalityType
<1> QED BY <1>2, <1>3, <1>4, <1>8, <1>9 DEF Within

\* A call is turned away only when the whole capacity was taken within the interval, longer
\* by what the wall clock was set back: no restart postpones a refill (DenialsJustified).
THEOREM DenialsAreJustified == Spec => []DenialsJustified
<1>1. Init => BucketInv
    BY InitBucketInv, TokenBucketAssumption
<1>2. BucketInv /\ [Next]_vars => BucketInv'
    BY BucketInvStep, TokenBucketAssumption
<1>3. BucketInv => DenialsJustified
    BY JustifiedByInv
<1> QED BY <1>1, <1>2, <1>3, PTL DEF Spec
=============================================================================
