------------------------------ MODULE MCMerkle ------------------------------
(***************************************************************************)
(* Tables for the model checker: entries with values of every size that    *)
(* fits a byte, a deleted entry, and up to four entries.                   *)
(***************************************************************************)
EXTENDS Merkle

Put(k, v) == [key |-> k, value |-> v, deleted |-> FALSE]
Tombstone(k) == [key |-> k, value |-> <<>>, deleted |-> TRUE]

MCTables == {
    <<Put(<<0>>, <<>>)>>,
    <<Put(<<0>>, <<2>>), Tombstone(<<1>>)>>,
    <<Tombstone(<<0, 1>>), Put(<<1>>, <<0, 2>>), Put(<<2>>, <<1>>)>>,
    <<Put(<<0>>, <<>>), Put(<<1>>, <<0>>), Put(<<1, 2>>, <<2>>), Tombstone(<<2>>)>>}
=============================================================================
