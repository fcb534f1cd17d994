----------------------------- MODULE MCBackends ----------------------------
(* The instance of Backends that TLC checks: five keys for the hash map, two  *)
(* of which share a bucket after every resize, others only until the first or *)
(* the second.                                                                *)
EXTENDS Backends

MCHash == <<1, 9, 3, 5, 2>>

\* No operation reads the last answer, so what the backends go through does not depend on it
MCView == <<implementation, buckets, nodes, level, head, size, content>>
=============================================================================
