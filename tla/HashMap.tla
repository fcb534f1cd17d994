------------------------------ MODULE HashMap ------------------------------
(***************************************************************************)
(* The hash map behind a memtable (internal/hashmap): buckets that are     *)
(* chains of nodes, doubled in number when the load grows over 3/4.        *)
(*                                                                         *)
(* A deleted node stays in its chain; its value is Tombstone.  The 64-bit  *)
(* hash of a key is any number.                                            *)
(***************************************************************************)
EXTENDS Integers, Sequences, SequencesExt, FiniteSetsExt

CONSTANTS
    Keys, Values, Absent, Tombstone,
    Hash,                 \* key -> the 64-bit sum in bucketIndex
    DefaultBucketCount

VARIABLES
    buckets,     \* position from 0 -> the chain, first node first
    size,
    answer

vars == <<buckets, size, answer>>

Node(k, v) == [key |-> k, value |-> v]

Empty(count) == [i \in 0..count - 1 |-> <<>>]

BucketCount == Cardinality(DOMAIN buckets)

BucketIndex(k, count) == Hash[k] % count

\* The bucket an operation looks for the key in
Home(k) == BucketIndex(k, BucketCount)

\* The first node of the chain with the key, if it is there
At(k) == {i \in DOMAIN buckets[Home(k)] : buckets[Home(k)][i].key = k}

Holds(k) == At(k) # {}

ValueOf(k) == buckets[Home(k)][Min(At(k))].value

Live(k) == Holds(k) /\ ValueOf(k) # Tombstone

\* Where Entries finds nodes
Places == UNION {{<<i, j>> : j \in DOMAIN buckets[i]} : i \in DOMAIN buckets}

\* What Entries lists, the order left out: memtables sort it
Entries == {buckets[p[1]][p[2]] : p \in Places}

\* The nodes of a table in the order of resize: bucket after bucket
NodesOf(table, count) == FlattenSeq([i \in 1..count |-> table[i - 1]])

\* resize: node after node goes to the end of the chain it hashes to in the new table
ResizedInOldTable(table, count) ==
    LET nodes == NodesOf(table, count)
        moved[n \in 0..Len(nodes)] ==
            IF n = 0 THEN Empty(2 * count)
            ELSE [moved[n - 1] EXCEPT ![BucketIndex(nodes[n].key, count)] = Append(@, nodes[n])]
    IN  moved[Len(nodes)]

ResizedLive(table, count) ==
    LET nodes == SelectSeq(NodesOf(table, count), LAMBDA n : n.value # Tombstone)
        moved[n \in 0..Len(nodes)] ==
            IF n = 0 THEN Empty(2 * count)
            ELSE [moved[n - 1] EXCEPT ![BucketIndex(nodes[n].key, 2 * count)] =
                                          Append(@, nodes[n])]
    IN  moved[Len(nodes)]

Resized(table, count) ==
    LET nodes == NodesOf(table, count)
        moved[n \in 0..Len(nodes)] ==
            IF n = 0 THEN Empty(2 * count)
            ELSE [moved[n - 1] EXCEPT ![BucketIndex(nodes[n].key, 2 * count)] =
                                          Append(@, nodes[n])]
    IN  moved[Len(nodes)]

\* maxLoadFactor
OverloadedWhenFull(nodes, count) == nodes > count
Overloaded(nodes, count) == 4 * nodes > 3 * count

Init ==
    /\ buckets = Empty(DefaultBucketCount)
    /\ size = 0
    /\ answer = <<>>

\* The found node is changed where it is, live or deleted; a new one goes in front
Put(k, v) ==
    /\ answer' = <<k>>
    /\ \/ /\ Holds(k)
          /\ buckets' = [buckets EXCEPT ![Home(k)][Min(At(k))] = Node(k, v)]
          /\ UNCHANGED size
       \/ /\ ~Holds(k)
          /\ LET added == [buckets EXCEPT ![Home(k)] = <<Node(k, v)>> \o @]
             IN  buckets' = IF Overloaded(size + 1, BucketCount)
                            THEN Resized(added, BucketCount)
                            ELSE added
          /\ size' = size + 1

Get(k) ==
    /\ answer' = <<k, IF Live(k) THEN ValueOf(k) ELSE Absent>>
    /\ UNCHANGED <<buckets, size>>

Delete(k) ==
    /\ answer' = <<k, Live(k)>>
    /\ buckets' = IF Live(k)
                  THEN [buckets EXCEPT ![Home(k)][Min(At(k))] = Node(k, Tombstone)]
                  ELSE buckets
    /\ UNCHANGED size

Next == \E k \in Keys : (\E v \in Values : Put(k, v)) \/ Get(k) \/ Delete(k)

Spec == Init /\ [][Next]_vars

-----------------------------------------------------------------------------
(* Properties *)

\* Entries lists every key once and as many as are counted, so that a memtable is
\* full when it should be: no resize leaves a node where a later Put does not find
\* it and adds it again (hashmap.go:38-63, 65-91, memtable.go:50-56).
EveryKeyOnce ==
    /\ \A p, q \in Places : buckets[p[1]][p[2]].key = buckets[q[1]][q[2]].key => p = q
    /\ Cardinality(Places) = size

\* Between operations there are at most three nodes for four buckets: chains stay
\* short however many keys come (hashmap.go:88-90).
LoadBounded == 4 * size <= 3 * BucketCount
=============================================================================
