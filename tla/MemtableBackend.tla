-------------------------- MODULE MemtableBackend --------------------------
(***************************************************************************)
(* What a memtable expects of its backend (internal/memtable/backend.go):  *)
(* a map from keys to values in which a deleted key stays, as a tombstone. *)
(* HashMap, SkipList and BTree are shown to implement it, and Memtables    *)
(* builds on it.                                                           *)
(***************************************************************************)
CONSTANTS Keys, Values, Absent, Tombstone

VARIABLES
    content,     \* what Entries lists: key -> value, Tombstone or Absent
    answer       \* the key of the last operation, followed by what it returned

backendVars == <<content, answer>>

Live(k) == content[k] \notin {Absent, Tombstone}

Init ==
    /\ content = [k \in Keys |-> Absent]
    /\ answer = <<>>

Put(k, v) ==
    /\ answer' = <<k>>
    /\ content' = [content EXCEPT ![k] = v]

\* Delete marks a live key and says whether there was one
Delete(k) ==
    /\ answer' = <<k, Live(k)>>
    /\ content' = IF Live(k) THEN [content EXCEPT ![k] = Tombstone] ELSE content

Get(k) ==
    /\ answer' = <<k, IF Live(k) THEN content[k] ELSE Absent>>
    /\ UNCHANGED content

Next == \E k \in Keys : (\E v \in Values : Put(k, v)) \/ Delete(k) \/ Get(k)

Spec == Init /\ [][Next]_backendVars
=============================================================================
