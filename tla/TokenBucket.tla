---------------------------- MODULE TokenBucket ----------------------------
(***************************************************************************)
(* The token bucket (internal/tokenbucket) over time, with the state that  *)
(* the engine logs after every token taken and gives back to the bucket    *)
(* when it starts again (engine.go:235-263).                               *)
(*                                                                         *)
(* Go's time.Now reads two clocks.  Sub uses the monotonic readings when   *)
(* both times have one, and the wall clock otherwise; a restored time has  *)
(* the wall clock's reading only.  The wall clock may be set at any time.  *)
(*                                                                         *)
(* That the logged state survives the process is what Engine shows; so the *)
(* length and range checks of Restore always pass.                         *)
(***************************************************************************)
EXTENDS Integers, Sequences, SequencesExt, FiniteSets

CONSTANTS
    Capacities,        \* tokenBucket.capacity, which may change between two starts
    RefillInterval,
    MaxTime,           \* bound: how long the model runs
    MaxJumps,          \* bound: times the wall clock is set, by one unit each
    MaxFaults          \* bound: states that cannot be logged

ASSUME TokenBucketAssumption ==
    /\ Capacities \subseteq Nat \ {0}
    /\ RefillInterval \in Nat \ {0}
    /\ MaxTime \in Nat
    /\ MaxJumps \in Nat
    /\ MaxFaults \in Nat

VARIABLES
    now,               \* time, as the monotonic clock shows it
    skew,              \* how far the wall clock is ahead of it
    \* tokenbucket.Bucket
    capacity,
    tokens,
    lastRefill,        \* [wall, monotonic], or [wall] for a restored time
    \* the log
    stored,            \* the last state logged, or NoState
    pc,                \* "down", "ready" for a call, or "store": a token is taken, not logged
    answer,
    \* bounds and history
    faults,
    ahead, back,       \* how far the wall clock was set ahead and back in all
    taken, takenStored, \* times of the tokens taken, as the bucket and the log know them
    served             \* times of the calls that Allow let through and the log took

vars == <<now, skew, capacity, tokens, lastRefill, stored, pc, answer, faults,
          ahead, back, taken, takenStored, served>>

clock == <<now, skew, ahead, back>>
bucket == <<capacity, tokens, lastRefill>>

NoState == [capacity |-> 0, tokens |-> 0, wall |-> 0]

Now == [wall |-> now + skew, monotonic |-> now]

\* now.Sub(b.lastRefill)
Elapsed ==
    IF "monotonic" \in DOMAIN lastRefill THEN Now.monotonic - lastRefill.monotonic
    ELSE Now.wall - lastRefill.wall

Init ==
    /\ now = 0
    /\ skew = 0
    /\ capacity = 0
    /\ tokens = 0
    /\ lastRefill = Now
    /\ stored = NoState
    /\ pc = "down"
    /\ answer = "none"
    /\ faults = 0
    /\ ahead = 0
    /\ back = 0
    /\ taken = <<>>
    /\ takenStored = <<>>
    /\ served = <<>>

Tick ==
    /\ now < MaxTime
    /\ now' = now + 1
    /\ UNCHANGED <<skew, ahead, back, bucket, stored, pc, answer, faults,
                   taken, takenStored, served>>

\* The wall clock is set
Jump ==
    /\ ahead + back < MaxJumps
    /\ \/ skew' = skew + 1 /\ ahead' = ahead + 1 /\ UNCHANGED back
       \/ skew' = skew - 1 /\ back' = back + 1 /\ UNCHANGED ahead
    /\ UNCHANGED <<now, bucket, stored, pc, answer, faults, taken, takenStored, served>>

\* New: a full bucket
New(c) ==
    /\ capacity' = c
    /\ tokens' = c
    /\ lastRefill' = Now

RestoredFull ==
    /\ capacity' = stored.capacity
    /\ tokens' = stored.capacity
    /\ lastRefill' = [wall |-> stored.wall]

RestoredNow ==
    /\ capacity' = stored.capacity
    /\ tokens' = stored.tokens
    /\ lastRefill' = Now

\* Restore: the stored capacity replaces the configured one
Restored ==
    /\ capacity' = stored.capacity
    /\ tokens' = stored.tokens
    /\ lastRefill' = [wall |-> stored.wall]

Start ==
    /\ pc = "down"
    /\ pc' = "ready"
    /\ \/ stored = NoState /\ \E c \in Capacities : New(c)
       \/ stored # NoState /\ Restored
    /\ UNCHANGED <<clock, stored, answer, faults, taken, takenStored, served>>

RefillDue == Elapsed >= RefillInterval

\* What Allow finds in the bucket after a refill that is due
Available == IF RefillDue THEN capacity ELSE tokens

\* Allow takes a token
Take ==
    /\ pc = "ready"
    /\ Available > 0
    /\ tokens' = Available - 1
    /\ lastRefill' = IF RefillDue THEN Now ELSE lastRefill
    /\ pc' = "store"
    /\ taken' = Append(taken, now)
    /\ UNCHANGED <<clock, capacity, stored, answer, faults, takenStored, served>>

Denied == pc = "ready" /\ Available <= 0

Deny ==
    /\ Denied
    /\ answer' = "limited"
    /\ UNCHANGED <<clock, bucket, stored, pc, faults, taken, takenStored, served>>

\* storeTokenBucketState: Serialize keeps the wall clock's reading
Store ==
    /\ pc = "store"
    /\ stored' = [capacity |-> capacity, tokens |-> tokens, wall |-> lastRefill.wall]
    /\ takenStored' = taken
    /\ served' = Append(served, now)
    /\ pc' = "ready"
    /\ answer' = "served"
    /\ UNCHANGED <<clock, bucket, faults, taken>>

\* The log does not take the state: the call ends, its token is gone
StoreFails ==
    /\ pc = "store"
    /\ faults < MaxFaults
    /\ faults' = faults + 1
    /\ pc' = "ready"
    /\ answer' = "error"
    /\ UNCHANGED <<clock, bucket, stored, taken, takenStored, served>>

\* The process ends, also between taking a token and logging it
Stop ==
    /\ pc # "down"
    /\ pc' = "down"
    /\ capacity' = 0
    /\ tokens' = 0
    /\ lastRefill' = [wall |-> 0, monotonic |-> 0]
    /\ taken' = takenStored
    /\ UNCHANGED <<clock, stored, answer, faults, takenStored, served>>

Next == Tick \/ Jump \/ Start \/ Take \/ Deny \/ Store \/ StoreFails \/ Stop

Spec == Init /\ [][Next]_vars

-----------------------------------------------------------------------------
(* Properties *)

\* How many of some times lie less than a span ago
Within(times, span) == Cardinality({i \in DOMAIN times : times[i] > now - span})

\* No restart, crash or failed log write is a way round the limit: any stretch of time as
\* long as the interval serves at most two bucketfuls, of the capacity in force when the
\* first state was logged, whatever is configured later.  A wall clock set ahead shortens
\* the stretch by as much (tokenbucket.go:30-46, 59-79).
RateBounded ==
    stored # NoState => Within(served, RefillInterval - ahead) <= 2 * stored.capacity

\* A call is turned away only when the bucket's whole capacity was taken within the last
\* interval: restarts do not postpone the refill.  A wall clock set back while a restored
\* time is compared with it extends that by as much, and by no more (tokenbucket.go:34-42).
DenialsJustified == Denied => Within(taken, RefillInterval + back) >= capacity
=============================================================================
