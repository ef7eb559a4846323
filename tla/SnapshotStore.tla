----------------------------- MODULE SnapshotStore -----------------------------
(***************************************************************************)
(* What multi-level rollback promises: a store and a stack of whole        *)
(* snapshots of it.  Rolling back a level returns the store to exactly     *)
(* what it was when that level was opened; merging two levels keeps the    *)
(* older snapshot; forgetting the oldest level loses nothing else.         *)
(***************************************************************************)
EXTENDS Integers, Sequences

CONSTANT Stores          \* every value the store can have

VARIABLES store,         \* the current contents
          levels,        \* the snapshots, oldest first
          failed         \* a rollback could not be carried out

vars == <<store, levels, failed>>

Init == store \in Stores /\ levels = <<>> /\ failed = FALSE

Last(q) == q[Len(q)]
ButLast(q) == SubSeq(q, 1, Len(q) - 1)

\* The first change outside any level may open one.
Update ==
  /\ store' \in Stores
  /\ levels' = levels \/ (levels = <<>> /\ levels' = <<store>>)
  /\ UNCHANGED failed

Begin ==
  /\ levels' = Append(levels, store)
  /\ UNCHANGED <<store, failed>>

BeginDroppingOldest ==
  /\ levels # <<>>
  /\ levels' = Append(Tail(levels), store)
  /\ UNCHANGED <<store, failed>>

\* The last level may stay behind as a level that opens where the store now is.
Rollback ==
  /\ levels # <<>>
  /\ store' = Last(levels)
  /\ \/ levels' = ButLast(levels)
     \/ Len(levels) = 1 /\ levels' = <<store'>>
  /\ UNCHANGED failed

Merge ==
  /\ Len(levels) >= 2
  /\ levels' = ButLast(levels)
  /\ UNCHANGED <<store, failed>>

Fail ==
  /\ levels # <<>>
  /\ failed' = TRUE
  /\ store' \in Stores
  /\ UNCHANGED levels

Next ==
  /\ ~failed
  /\ \/ Update \/ Begin \/ BeginDroppingOldest
     \/ Rollback \/ Merge \/ Fail

Spec == Init /\ [][Next]_vars
=============================================================================
