----------------------------- MODULE Memtables -----------------------------
(***************************************************************************)
(* The memtable manager (internal/memtable): a list of memtables, the last *)
(* one active.  A memtable is a map from keys to entries; whichever of the *)
(* three backends holds it, what the manager sees of it is a function from *)
(* keys to Absent, a tombstone, or a value.                                *)
(***************************************************************************)
EXTENDS Integers, Sequences, FiniteSets, FiniteSetsExt, SequencesExt

CONSTANTS
    AllKeys,      \* every key a memtable can hold
    Absent,       \* the key has no entry
    Tombstone,    \* the key has an entry marked deleted
    MaxEntries,   \* memtable.maxEntries: entries that fill one memtable
    Instances     \* memtable.instances: memtables before a flush

ASSUME MemtablesAssumption ==
    /\ IsFiniteSet(AllKeys)
    /\ Absent # Tombstone
    /\ MaxEntries \in Nat \ {0}
    /\ Instances \in Nat \ {0}

EmptyMemtable == [k \in AllKeys |-> Absent]

\* NewMemtableManager and Clear: one empty memtable
NoMemtables == <<EmptyMemtable>>

\* Size counts tombstones too
Size(table) == Cardinality({k \in AllKeys : table[k] # Absent})

IsFull(table) == Size(table) >= MaxEntries

\* Put writes the active memtable; Delete leaves a tombstone there whether
\* or not the key had a live entry, so it is an Update with Tombstone.
Update(tables, k, v) == [tables EXCEPT ![Len(tables)][k] = v]

\* The bool both return: the active memtable is full and no other may be added
NeedsFlush(tables) == IsFull(Last(tables)) /\ Len(tables) >= Instances

\* What Put and Delete leave behind: a full active memtable gets a successor
Rolled(tables) ==
    IF IsFull(Last(tables)) /\ Len(tables) < Instances
    THEN Append(tables, EmptyMemtable)
    ELSE tables

MemLookupOldestFirst(tables, k) ==
    LET holding == {i \in DOMAIN tables : tables[i][k] # Absent}
    IN  IF holding = {} THEN Absent ELSE tables[Min(holding)][k]

\* Get and IsDeleted scan from the newest memtable and stop at the first
\* that has an entry for the key, live or deleted.
MemLookup(tables, k) ==
    LET holding == {i \in DOMAIN tables : tables[i][k] # Absent}
    IN  IF holding = {} THEN Absent ELSE tables[Max(holding)][k]

EntriesLive(tables) ==
    [k \in AllKeys |-> IF MemLookup(tables, k) = Tombstone THEN Absent ELSE MemLookup(tables, k)]

\* Entries merges the memtables, the newest entry of each key winning
Entries(tables) == [k \in AllKeys |-> MemLookup(tables, k)]
=============================================================================
