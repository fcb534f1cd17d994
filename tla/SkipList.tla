------------------------------ MODULE SkipList ------------------------------
(***************************************************************************)
(* The skip list behind a memtable (internal/skiplist): nodes linked in    *)
(* the order of their keys on level 1, and on each further level those     *)
(* whose random height reaches it.                                         *)
(*                                                                         *)
(* Levels count from 1, as heights do.  Node 0 is the head; since nothing  *)
(* points to the head, 0 as a pointer is nil.  Looking for a pointer on a  *)
(* level a node does not have would stop the program, and stops TLC.       *)
(***************************************************************************)
EXTENDS Integers, FiniteSets, FiniteSetsExt

CONSTANTS
    Keys, Values, Absent, Tombstone,
    MaxLevel

VARIABLES
    nodes,       \* node -> [key, value, forward], forward with a pointer for each of its levels
    level,       \* the levels a search uses
    size,
    answer

vars == <<nodes, level, size, answer>>

Nil == 0

\* The nodes that have a pointer on a level
Tall(l) == {x \in DOMAIN nodes : l \in DOMAIN nodes[x].forward}

\* Whether a search passes a node with the key n on its way to k
PassesFound(n, k) == n <= k
Passes(n, k) == n < k

\* On one level: the last node from x on that a search for k passes
Walk(x, l, k) ==
    LET walk[y \in Tall(l)] ==
            LET next == nodes[y].forward[l]
            IN  IF next # Nil /\ Passes(nodes[next].key, k) THEN walk[next] ELSE y
    IN  walk[x]

\* Where the search for a key leaves each level: from the top one down, going on below
\* at the node where it stopped above
Stops(k) ==
    LET stop[l \in 1..level] == Walk(IF l = level THEN 0 ELSE stop[l + 1], l, k)
    IN  stop

\* The node after the search, if it has the key
Found(k) == {x \in {nodes[Stops(k)[1]].forward[1]} \ {Nil} : nodes[x].key = k}

ValueOf(x) == nodes[x].value

Live(k) == \E x \in Found(k) : ValueOf(x) # Tombstone

Init ==
    /\ nodes = [x \in {0} |-> [key |-> -1, value |-> Absent,
                               forward |-> [l \in 1..MaxLevel |-> Nil]]]
    /\ level = 1
    /\ size = 0
    /\ answer = <<>>

\* s.level after a node of height h was added
RaisedNever(h) == level
Raised(h) == Max({level, h})

\* update: the nodes that the new node follows; above the levels in use, the head
Before(k, h) == LET stops == Stops(k) IN [l \in 1..h |-> IF l <= level THEN stops[l] ELSE 0]

\* The new node of height h is linked on each of its levels
Linked(k, v, h) ==
    LET before == Before(k, h)
        new == size + 1
    IN  [x \in DOMAIN nodes \cup {new} |->
            IF x = new
            THEN [key |-> k, value |-> v,
                  forward |-> [l \in 1..h |-> nodes[before[l]].forward[l]]]
            ELSE [nodes[x] EXCEPT !.forward =
                    [l \in DOMAIN @ |-> IF l <= h /\ before[l] = x THEN new ELSE @[l]]]]

Put(k, v) ==
    /\ answer' = <<k>>
    /\ \/ /\ \E x \in Found(k) : nodes' = [nodes EXCEPT ![x].value = v]
          /\ UNCHANGED <<level, size>>
       \/ /\ Found(k) = {}
          /\ \E h \in 1..MaxLevel :
                /\ nodes' = Linked(k, v, h)
                /\ level' = Raised(h)
          /\ size' = size + 1

Get(k) ==
    /\ \/ ~Live(k) /\ answer' = <<k, Absent>>
       \/ Live(k) /\ \E x \in Found(k) : answer' = <<k, ValueOf(x)>>
    /\ UNCHANGED <<nodes, level, size>>

Delete(k) ==
    /\ answer' = <<k, Live(k)>>
    /\ \/ ~Live(k) /\ UNCHANGED nodes
       \/ Live(k) /\ \E x \in Found(k) : nodes' = [nodes EXCEPT ![x].value = Tombstone]
    /\ UNCHANGED <<level, size>>

Next == \E k \in Keys : (\E v \in Values : Put(k, v)) \/ Get(k) \/ Delete(k)

Spec == Init /\ [][Next]_vars

-----------------------------------------------------------------------------
(* Properties *)

\* The nodes that a walk along a level meets after x
ListFrom(l) ==
    LET after[x \in Tall(l)] ==
            LET next == nodes[x].forward[l]
            IN  IF next = Nil THEN {} ELSE {next} \cup after[next]
    IN  after[0]

\* What Entries lists: the nodes met on the lowest level
Entries == {nodes[x] : x \in ListFrom(1)}

\* Every level is the list, in the order of the keys, of exactly the nodes that are high
\* enough for it, and no level above those in use has a node: a search that starts on
\* any level ends in front of the key (skiplist.go:41-80).
LevelsNested ==
    /\ \A l \in 1..MaxLevel :
          ListFrom(l) = {x \in 1..size : l <= Cardinality(DOMAIN nodes[x].forward)}
    /\ \A x \in DOMAIN nodes : \A l \in DOMAIN nodes[x].forward :
          nodes[x].forward[l] # Nil =>
              l <= level /\ nodes[x].key < nodes[nodes[x].forward[l]].key
=============================================================================
