-------------------------------- MODULE Lru --------------------------------
(***************************************************************************)
(* The least-recently-used list behind both caches of the engine: the      *)
(* record cache (internal/cache) and the block cache (internal/blockcache) *)
(* keep a map from keys to the elements of a list whose front is the most  *)
(* recently used entry.  The map is an index into the list, so the model   *)
(* keeps the list only: a sequence of entries [key, value], front first.   *)
(* Every method runs under the cache's mutex, hence one operator each.     *)
(***************************************************************************)
EXTENDS Integers, Sequences, SequencesExt

Entry(k, v) == [key |-> k, value |-> v]

Cached(c, k) == \E i \in DOMAIN c : c[i].key = k

Position(c, k) == CHOOSE i \in DOMAIN c : c[i].key = k

CachedValue(c, k) == c[Position(c, k)].value

CacheDelete(c, k) == IF Cached(c, k) THEN RemoveAt(c, Position(c, k)) ELSE c

\* lru.MoveToFront, with the entry's new value when Put updates it
MoveToFront(c, k, v) == <<Entry(k, v)>> \o CacheDelete(c, k)

\* Get moves the entry it finds to the front
CacheGet(c, k) == IF Cached(c, k) THEN MoveToFront(c, k, CachedValue(c, k)) ELSE c

CachePut(c, capacity, k, v) ==
    IF capacity <= 0 THEN c
    ELSE LET front == MoveToFront(c, k, v)
         IN  IF Len(front) > capacity THEN Front(front) ELSE front
=============================================================================
