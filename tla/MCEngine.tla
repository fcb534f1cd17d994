------------------------------ MODULE MCEngine ------------------------------
(* Small instances of Engine for TLC, with EngineOneSegment.cfg and            *)
(* EngineSegments.cfg.                                                        *)
EXTENDS Engine

\* Callers' keys and values are interchangeable; the bucket's key is not
Symmetry == Permutations(Keys) \cup Permutations(Values)
=============================================================================
