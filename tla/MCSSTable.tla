----------------------------- MODULE MCSSTable -----------------------------
(* The instance of SSTable that TLC checks. *)
EXTENDS SSTable

CONSTANTS v

MCKeys == 1..4
MCSize == [value \in {v, Tombstone} |-> IF value = v THEN 2 ELSE 1]

\* In a filter of three bits two of the keys share one
MCHash == <<4, 7, 9, 11>>
=============================================================================
