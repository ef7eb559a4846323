------------------------------- MODULE MCSync -------------------------------
(***************************************************************************)
(* Instances of NodeSync: a node that starts at genesis, with peers on one *)
(* chain of three blocks.                                                  *)
(***************************************************************************)
EXTENDS SyncProperties

StraightBlocks == {[i \in 1 .. k |-> "a"] : k \in 1 .. 3}
Start == <<>>
TwoBlocks == {<<"a", "a">>}
OneLost == {<<"a", "a">>}
NoneLost == {}
=============================================================================
