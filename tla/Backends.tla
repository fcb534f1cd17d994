----------------------------- MODULE Backends ------------------------------
(***************************************************************************)
(* A memtable over the backend that memtable.implementation names          *)
(* (internal/memtable/memtable.go, backend.go): a hash map, a skip list or *)
(* a B-tree, each shown to be the map of MemtableBackend.                  *)
(*                                                                         *)
(* Each backend has keys and values of its own, as many as it needs to     *)
(* show all of its cases.  They share size and answer: one of them runs.   *)
(***************************************************************************)
EXTENDS Integers

CONSTANTS
    Absent, Tombstone,
    HashKeys, HashValues, Hash, DefaultBucketCount,
    ListKeys, ListValues, MaxLevel,
    TreeKeys, TreeValues, Order, MaxTombstones

ASSUME SentinelAssumption ==
    /\ Absent \notin HashValues \cup ListValues \cup TreeValues \cup {Tombstone}
    /\ Tombstone \notin HashValues \cup ListValues \cup TreeValues

ASSUME HashMapAssumption ==
    /\ Hash \in [HashKeys -> Nat]
    /\ DefaultBucketCount \in Nat \ {0}

ASSUME SkipListAssumption ==
    /\ ListKeys \subseteq Nat
    /\ MaxLevel \in Nat \ {0}

ASSUME BTreeAssumption ==
    /\ TreeKeys \subseteq Nat
    /\ Order \in Nat \ 0..2
    /\ MaxTombstones \in Nat

VARIABLES
    implementation,
    buckets,           \* hashmap.HashMap
    nodes, level,      \* skiplist.SkipList
    head,              \* btree.BTree
    size, answer,
    content            \* history: what Entries lists, key -> value, Tombstone or Absent

vars == <<implementation, buckets, nodes, level, head, size, answer, content>>

HM == INSTANCE HashMap WITH Keys <- HashKeys, Values <- HashValues
SL == INSTANCE SkipList WITH Keys <- ListKeys, Values <- ListValues
BT == INSTANCE BTree WITH Keys <- TreeKeys, Values <- TreeValues

Keys == HashKeys \cup ListKeys \cup TreeKeys
Values == HashValues \cup ListValues \cup TreeValues

\* What Entries lists
Entries ==
    CASE implementation = "hashmap" -> HM!Entries
      [] implementation = "skiplist" -> SL!Entries
      [] implementation = "btree" -> BT!Listed

Content(entries) ==
    [k \in Keys |->
        LET held == {entry \in entries : entry.key = k}
        IN  IF held = {} THEN Absent ELSE (CHOOSE entry \in held : TRUE).value]

\* newBackend
Init ==
    /\ implementation \in {"hashmap", "skiplist", "btree"}
    /\ HM!Init
    /\ SL!Init
    /\ BT!Init
    /\ content = Content(Entries)

Next ==
    /\ \/ /\ implementation = "hashmap"
          /\ HM!Next
          /\ UNCHANGED <<nodes, level, head>>
       \/ /\ implementation = "skiplist"
          /\ SL!Next
          /\ UNCHANGED <<buckets, head>>
       \/ /\ implementation = "btree"
          /\ BT!Next
          /\ UNCHANGED <<buckets, nodes, level>>
    /\ UNCHANGED implementation
    /\ \E entries \in {Entries'} : content' = Content(entries)

Spec == Init /\ [][Next]_vars

-----------------------------------------------------------------------------
(* Properties *)

\* Entries lists every key once and as many as are counted, so that a memtable is
\* full when it should be: no resize leaves a node where a later Put does not find
\* it and adds it again (hashmap.go:38-63, 65-91, memtable.go:50-56).
EveryKeyOnce == implementation = "hashmap" => HM!EveryKeyOnce

\* Between operations there are at most three nodes for four buckets: chains stay
\* short however many keys come (hashmap.go:88-90).
LoadBounded == implementation = "hashmap" => HM!LoadBounded

\* Every level is the list, in the order of the keys, of exactly the nodes that are high
\* enough for it, and no level above those in use has a node: a search that starts on
\* any level ends in front of the key (skiplist.go:41-80).
LevelsNested == implementation = "skiplist" => SL!LevelsNested

\* The tree stays a B-tree: all leaves at one depth, a child between any two entries and
\* outside them, no node over its limit and none but an empty tree's root without
\* entries (btree.go:35-51, 90-137).
Balanced == implementation = "btree" => BT!Balanced

\* Entries lists the keys in order, each once, and as many as are counted: a split loses
\* and repeats nothing (btree.go:199-228).
EntriesInOrder == implementation = "btree" => BT!EntriesInOrder

\* What Get finds by way of the hash, of the levels or of the nodes is what Entries lists,
\* through every resize, draw of heights and split: each backend is the map that memtables
\* build on, tombstones included.
Backend == INSTANCE MemtableBackend

BackendImplemented == Backend!Spec
=============================================================================
