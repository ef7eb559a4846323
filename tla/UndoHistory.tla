------------------------------ MODULE UndoHistory ------------------------------
(***************************************************************************)
(* UndoDatabase with a history variable: beside each undo state, what the  *)
(* database held when that state was opened.  The properties relate what   *)
(* the undo states recorded to that history.                               *)
(***************************************************************************)
EXTENDS UndoDatabase

VARIABLE saved      \* saved[k]: the database when stack[k] was opened

hvars == <<objects, next_id, stack, active_sessions, disabled, status, saved>>

Now == [objects |-> objects, next_id |-> next_id]

HInit == Init /\ saved = <<>>

\* A change outside any session opens a state.
SavedOpened == IF ~disabled /\ stack = <<>> THEN <<Now>> ELSE saved

HCreate(x, v)  == create(x, v) /\ saved' = SavedOpened
HModify(id, v) == modify(id, v) /\ saved' = SavedOpened
HRemove(id)    == remove(id) /\ saved' = SavedOpened
HDisable       == disable /\ UNCHANGED saved
HEnable        == enable /\ UNCHANGED saved

HStart ==
  /\ start_undo_session
  /\ saved' = Append(IF Len(stack) = MaxSize THEN Tail(saved) ELSE saved, Now)

HUndo ==
  /\ undo
  /\ saved' = IF status' # "ok" THEN saved
              ELSE IF Len(stack) = 1 THEN <<Now'>> ELSE Front(saved)

HMerge == merge /\ saved' = Front(saved)
HCommit == commit /\ UNCHANGED saved
HPopCommit == pop_commit /\ saved' = IF status' # "ok" THEN saved ELSE Front(saved)

HNext ==
  \/ \E x \in Indexes, v \in Values : HCreate(x, v)
  \/ \E id \in Ids, v \in Values : HModify(id, v)
  \/ \E id \in Ids : HRemove(id)
  \/ HDisable
  \/ HEnable
  \/ HStart
  \/ HUndo
  \/ HMerge
  \/ HCommit
  \/ HPopCommit

HSpec == HInit /\ [][HNext]_hvars

----------------------------------------------------------------------------
Snapshots == [objects : [Ids -> Contents], next_id : [Indexes -> 0..MaxId]]

\* Every variable keeps its type.
TypeOK ==
  /\ objects \in [Ids -> Contents]
  /\ next_id \in [Indexes -> 0..MaxId]
  /\ stack \in Seq(UndoStates)
  /\ saved \in Seq(Snapshots)
  /\ active_sessions \in Nat
  /\ disabled \in BOOLEAN
  /\ status \in {"ok", "terminated", "corrupt"}

\* Every id in use is below the counter of its index.
IdsBelowNext(db) == \A i \in Ids : db.objects[i] # Absent => i[2] < db.next_id[i[1]]

\* What undo state s records of object i, when b was its content as s was
\* opened and a is its content as the next state is opened.
Records(s, i, b, a) ==
  LET old == s.old_values[i]
      rem == s.removed[i]
  IN IF i \in s.new_ids THEN b = Absent /\ a # Absent /\ old = Absent /\ rem = Absent
     ELSE IF old # Absent THEN b = old /\ (rem = Absent <=> a # Absent)
     ELSE IF rem # Absent THEN b = rem /\ a = Absent
     ELSE b = a

\* Undo state s is an exact record of the way from database b to database a,
\* with ids handed out in order and never twice.
Links(s, b, a) ==
  /\ \A i \in Ids : Records(s, i, b.objects[i], a.objects[i])
  /\ \A i \in s.new_ids : b.next_id[i[1]] <= i[2]
  /\ \A x \in Indexes :
       /\ b.next_id[x] <= a.next_id[x]
       /\ b.next_id[x] = IF s.old_index_next_ids[x] = NoId
                           THEN a.next_id[x] ELSE s.old_index_next_ids[x]

\* A stack of undo states beside the databases they were opened at: each is
\* an exact record of the way to the next one, the top one to database db.
Linked(stk, sav, db) ==
  /\ Len(sav) = Len(stk)
  /\ \A k \in 1..Len(stk) :
       Links(stk[k], sav[k], IF k = Len(stk) THEN db ELSE sav[k + 1])

\* Every undo state on the stack is an exact record of what happened between
\* its opening and the next one's (undo_database::on_create, on_modify,
\* on_remove, merge): undoing level by level returns to every past state.
LevelsLink == status = "ok" => Linked(stack, saved, Now)

\* Every id ever seen is below the counter it came from, now and at every
\* level, so a rolled back counter never hands out the id of a live object.
IdsNeverClash ==
  status = "ok" =>
    IdsBelowNext(Now) /\ \A k \in 1..Len(saved) : IdsBelowNext(saved[k])

\* Each session alive has an undo state of its own to roll back, however the
\* states below are dropped at max_size.
SessionsHaveStates == active_sessions <= Len(stack)

\* While recording is off (init_genesis), nothing is on the stack.
NothingWhileDisabled == disabled => stack = <<>> /\ saved = <<>>

\* An object that an outer session modified and a merged inner session removed.
Poisoned(s) == \E i \in Ids : s.old_values[i] # Absent /\ s.removed[i] # Absent

\* undo() and pop_commit() can fail for one reason only: a merge() left an
\* object both among the modified and among the removed ones.
FailsOnlyIfPoisoned ==
  /\ status = "ok" /\ stack # <<>> /\ revert_throws(Top) => Poisoned(Top)
  /\ status # "ok" => Poisoned(Top)

\* The undo database is a stack of whole snapshots of the object database.
Abstract == INSTANCE SnapshotStore WITH
  Stores <- Snapshots, store <- Now, levels <- saved, failed <- (status # "ok")

\* Undoing a level, by a session or by pop_commit, restores exactly the
\* database of the time the level was opened; merge keeps the older level.
ImplementsSnapshots == Abstract!Spec

\* The inductive invariant behind the theorems of UndoProofs.
IInv ==
  TypeOK /\ LevelsLink /\ IdsNeverClash /\ SessionsHaveStates /\ NothingWhileDisabled
=============================================================================
