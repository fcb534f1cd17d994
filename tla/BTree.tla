------------------------------- MODULE BTree -------------------------------
(***************************************************************************)
(* The B-tree behind a memtable (internal/btree): a new key goes into a    *)
(* leaf, and a full node is split on the way down to it.                   *)
(*                                                                         *)
(* A node is [entries, children]: its keys with their values, in order,    *)
(* and its children, none in a leaf.  Positions count from 1.              *)
(***************************************************************************)
EXTENDS Integers, Sequences, SequencesExt, FiniteSets, FiniteSetsExt

CONSTANTS
    Keys, Values, Absent, Tombstone,
    Order,
    MaxTombstones    \* bound: deleted keys at any time

VARIABLES
    head,        \* the root node
    size,
    answer

vars == <<head, size, answer>>

MaxKeys == Order - 1

Entry(k, v) == [key |-> k, value |-> v]

Leaf(entries) == [entries |-> entries, children |-> <<>>]

IsLeaf(node) == node.children = <<>>

\* Nodes with at most h levels from them down
Trees[h \in Nat] ==
    IF h = 0 THEN {}
    ELSE [entries : Seq([key : Keys, value : Values \cup {Tombstone}]),
          children : Seq(Trees[h - 1])]

\* As many levels as the tree can have: an insertion adds at most one
Levels == size + 1

IsFullLate(node) == Len(node.entries) > MaxKeys
IsFull(node) == Len(node.entries) = MaxKeys

\* findKeyIndex: the first position whose key is not smaller, or the one after the last
KeyIndex(node, k) ==
    Min({i \in DOMAIN node.entries : node.entries[i].key >= k} \cup {Len(node.entries) + 1})

HoldsAt(node, i, k) == i \in DOMAIN node.entries /\ node.entries[i].key = k

\* The values found for a key on the way from the root down: none or one
Search(k) ==
    LET search[h \in Nat] == [node \in Trees[h] |->
            LET i == KeyIndex(node, k)
            IN  IF HoldsAt(node, i, k) THEN {node.entries[i].value}
                ELSE IF IsLeaf(node) THEN {}
                ELSE search[h - 1][node.children[i]]]
    IN  search[Levels][head]

\* The tree with another value for a key that it holds
Updated(k, v) ==
    LET updated[h \in Nat] == [node \in Trees[h] |->
            LET i == KeyIndex(node, k)
            IN  IF HoldsAt(node, i, k) THEN [node EXCEPT !.entries[i].value = v]
                ELSE [node EXCEPT !.children[i] = updated[h - 1][@]]]
    IN  updated[Levels][head]

\* The entries of a node from one position to another and the children around them
Part(node, from, upto) ==
    [entries |-> SubSeq(node.entries, from, upto),
     children |-> IF IsLeaf(node) THEN <<>> ELSE SubSeq(node.children, from, upto + 1)]

WithHalves(parent, i, middle, left, right) ==
    [entries |-> InsertAt(parent.entries, i, middle),
     children |-> InsertAt(ReplaceAt(parent.children, i, left), i + 1, right)]

SplitKeepingMiddle(parent, i) ==
    LET child == parent.children[i]
        middle == Len(child.entries) \div 2 + 1
    IN  WithHalves(parent, i, child.entries[middle], Part(child, 1, middle),
                   Part(child, middle + 1, Len(child.entries)))

\* splitChild: the upper half of the i-th child becomes a new child after it, and the
\* entry between the halves moves up
Split(parent, i) ==
    LET child == parent.children[i]
        middle == Len(child.entries) \div 2 + 1
    IN  WithHalves(parent, i, child.entries[middle], Part(child, 1, middle - 1),
                   Part(child, middle + 1, Len(child.entries)))

\* After the i-th child was split: the half to go on with
HalfLeft(node, i, k) == i
Half(node, i, k) == IF k > node.entries[i].key THEN i + 1 ELSE i

\* A full root gets a parent first, which is then split
Grown == [entries |-> <<>>, children |-> <<head>>]

\* insertNonFull, from the root on
Inserted(k, v) ==
    LET inserted[h \in Nat] == [node \in Trees[h] |->
            LET i == KeyIndex(node, k)
                split == IF IsFull(node.children[i]) THEN Split(node, i) ELSE node
                down == IF IsFull(node.children[i]) THEN Half(split, i, k) ELSE i
            IN  IF IsLeaf(node) THEN Leaf(InsertAt(node.entries, i, Entry(k, v)))
                ELSE [split EXCEPT !.children[down] = inserted[h - 1][@]]]
    IN  inserted[Levels][IF IsFull(head) THEN Split(Grown, 1) ELSE head]

Init ==
    /\ head = Leaf(<<>>)
    /\ size = 0
    /\ answer = <<>>

Live(k) == Search(k) \notin {{}, {Tombstone}}

Put(k, v) ==
    /\ answer' = <<k>>
    /\ \/ /\ Search(k) # {}
          /\ head' = Updated(k, v)
          /\ UNCHANGED size
       \/ /\ Search(k) = {}
          /\ head' = Inserted(k, v)
          /\ size' = size + 1

Get(k) ==
    /\ answer' = <<k, IF Live(k) THEN CHOOSE v \in Search(k) : TRUE ELSE Absent>>
    /\ UNCHANGED <<head, size>>

Delete(k) ==
    /\ Live(k) => Cardinality({j \in Keys : Search(j) = {Tombstone}}) < MaxTombstones
    /\ answer' = <<k, Live(k)>>
    /\ head' = IF Live(k) THEN Updated(k, Tombstone) ELSE head
    /\ UNCHANGED size

Next == \E k \in Keys : (\E v \in Values : Put(k, v)) \/ Get(k) \/ Delete(k)

Spec == Init /\ [][Next]_vars

-----------------------------------------------------------------------------
(* Properties *)

\* collectEntries: the child before each entry, then the entry, and the last child at the end
Entries ==
    LET collected[h \in Nat] == [node \in Trees[h] |->
            LET below(i) == IF IsLeaf(node) THEN <<>> ELSE collected[h - 1][node.children[i]]
                gathered[n \in 0..Len(node.entries)] ==
                    IF n = 0 THEN <<>>
                    ELSE gathered[n - 1] \o Append(below(n), node.entries[n])
            IN  gathered[Len(node.entries)] \o below(Len(node.entries) + 1)]
    IN  collected[Levels][head]

Listed == ToSet(Entries)

\* The trees of h levels that keep to the limits: all leaves at one depth, a child between
\* any two entries and outside them, and entries in every node below the root.  (A tree of
\* order 3, which no memtable has, splits off a node without entries.)
BTrees[h \in Nat] ==
    IF h = 0 THEN {}
    ELSE {node \in Trees[h] :
             /\ Len(node.entries) <= MaxKeys
             /\ h > 1 => /\ Len(node.children) = Len(node.entries) + 1
                         /\ node.children \in Seq(BTrees[h - 1])
                         /\ Order > 3 => \A i \in DOMAIN node.children :
                                            Len(node.children[i].entries) >= 1}

\* The tree stays a B-tree, and only an empty one has a root without entries
\* (btree.go:35-51, 90-137).
Balanced ==
    /\ size > 0 => Len(head.entries) >= 1
    /\ \E h \in 1..Levels : head \in BTrees[h]

\* Entries lists the keys in order, each once, and as many as are counted: a split loses
\* and repeats nothing (btree.go:199-228).
EntriesInOrder ==
    /\ \A i \in 1..Len(Entries) - 1 : Entries[i].key < Entries[i + 1].key
    /\ Len(Entries) = size
=============================================================================
