----------------------------- MODULE UndoDatabase -----------------------------
(***************************************************************************)
(* The object database with multi-level rollback: object_database, its     *)
(* primary_index wrappers (create, modify, remove) and undo_database.      *)
(*                                                                         *)
(* An object is a value of Values under an id <<index, instance>>.  A      *)
(* session handle is anonymous, as in the code: undo(), merge() and        *)
(* commit() act on the top of the stack whichever session calls them, and  *)
(* only the number of live handles (_active_sessions) is kept.             *)
(***************************************************************************)
EXTENDS Integers, Sequences

CONSTANTS
  Indexes,      \* the (space, type) indexes of the object database
  MaxId,        \* bound: instances an index can hand out
  Values,       \* contents of an object
  Absent,       \* no object / no entry
  MaxSize,      \* undo_database::_max_size
  MaxSessions   \* bound: sessions alive at once (the program nests four)

ASSUME ConstantsAssumption ==
  /\ MaxId \in Nat
  /\ Absent \notin Values
  /\ MaxSize \in Nat \ {0}
  /\ MaxSessions \in 1..MaxSize

Ids == Indexes \X (0..(MaxId - 1))
Contents == Values \cup {Absent}
NoId == -1                       \* no entry in old_index_next_ids

VARIABLES
  objects,          \* the objects of every index
  next_id,          \* primary_index::_next_id
  stack,            \* undo_database::_stack
  active_sessions,  \* undo_database::_active_sessions
  disabled,         \* undo_database::_disabled
  status            \* "ok", or how an undo that threw left the process

vars == <<objects, next_id, stack, active_sessions, disabled, status>>

UndoStates == [old_values : [Ids -> Contents],
               old_index_next_ids : [Indexes -> NoId..MaxId],
               new_ids : SUBSET Ids,
               removed : [Ids -> Contents]]

EmptyState == [old_values |-> [i \in Ids |-> Absent],
               old_index_next_ids |-> [x \in Indexes |-> NoId],
               new_ids |-> {},
               removed |-> [i \in Ids |-> Absent]]

Init ==
  /\ objects = [i \in Ids |-> Absent]
  /\ next_id = [x \in Indexes |-> 0]
  /\ stack = <<>>
  /\ active_sessions = 0
  /\ disabled = FALSE
  /\ status = "ok"

----------------------------------------------------------------------------
(* What one undo state records.                                            *)

on_create(s, id) ==
  [s EXCEPT !.old_index_next_ids[id[1]] = IF @ = NoId THEN id[2] ELSE @,
            !.new_ids = @ \cup {id}]

on_modify(s, id) ==
  IF id \in s.new_ids \/ s.old_values[id] # Absent
    THEN s
    ELSE [s EXCEPT !.old_values[id] = objects[id]]

on_remove(s, id) ==
  IF id \in s.new_ids
    THEN [s EXCEPT !.new_ids = @ \ {id}]
  ELSE IF s.old_values[id] # Absent
    THEN [s EXCEPT !.removed[id] = s.old_values[id], !.old_values[id] = Absent]
  ELSE IF s.removed[id] # Absent
    THEN s
    ELSE [s EXCEPT !.removed[id] = objects[id]]

\* Mutant: merging keeps the inner session's old values over the outer's.
merge_states_inner_first(p, s) ==
  [old_values |-> [i \in Ids |->
      IF s.old_values[i] # Absent /\ i \notin p.new_ids
        THEN s.old_values[i] ELSE p.old_values[i]],
   old_index_next_ids |-> [x \in Indexes |->
      IF p.old_index_next_ids[x] = NoId
        THEN s.old_index_next_ids[x] ELSE p.old_index_next_ids[x]],
   new_ids |-> {i \in p.new_ids \cup s.new_ids : s.removed[i] = Absent},
   removed |-> [i \in Ids |->
      IF s.removed[i] # Absent /\ i \notin p.new_ids \cup s.new_ids
        THEN s.removed[i] ELSE p.removed[i]]]

\* Mutant: an object the outer session created and the inner one removed is
\* still to be deleted by an undo of the outer session.
merge_states_keep_new(p, s) ==
  [merge_states_inner_first(p, s) EXCEPT
     !.old_values = [i \in Ids |->
        IF s.old_values[i] # Absent /\ i \notin p.new_ids /\ p.old_values[i] = Absent
          THEN s.old_values[i] ELSE p.old_values[i]],
     !.new_ids = p.new_ids \cup s.new_ids]

\* merge(): the top state s folded into the state p below it.
merge_states(p, s) ==
  [old_values |-> [i \in Ids |->
      IF s.old_values[i] # Absent /\ i \notin p.new_ids /\ p.old_values[i] = Absent
        THEN s.old_values[i] ELSE p.old_values[i]],
   old_index_next_ids |-> [x \in Indexes |->
      IF p.old_index_next_ids[x] = NoId
        THEN s.old_index_next_ids[x] ELSE p.old_index_next_ids[x]],
   new_ids |-> {i \in p.new_ids \cup s.new_ids : s.removed[i] = Absent},
   removed |-> [i \in Ids |->
      IF s.removed[i] # Absent /\ i \notin p.new_ids \cup s.new_ids
        THEN s.removed[i] ELSE p.removed[i]]]

\* Mutant: what the level created stays.
reverted_objects_keep_new(s) ==
  [i \in Ids |-> IF s.removed[i] # Absent THEN s.removed[i]
                 ELSE IF s.old_values[i] # Absent THEN s.old_values[i]
                 ELSE objects[i]]

\* undo() and pop_commit() put back what state s recorded: old values, then
\* the new objects out, then the next ids, then the removed objects in.
reverted_objects(s) ==
  [i \in Ids |-> IF s.removed[i] # Absent THEN s.removed[i]
                 ELSE IF i \in s.new_ids THEN Absent
                 ELSE IF s.old_values[i] # Absent THEN s.old_values[i]
                 ELSE objects[i]]

\* Mutant: undo forgets the id counters.
reverted_next_id_kept(s) == next_id

reverted_next_id(s) ==
  [x \in Indexes |-> IF s.old_index_next_ids[x] # NoId
                       THEN s.old_index_next_ids[x] ELSE next_id[x]]

\* get_object() finds nothing to modify or remove, or insert() finds the id
\* taken: the loop throws half way.
revert_throws(s) ==
  \E i \in Ids :
    \/ s.old_values[i] # Absent /\ objects[i] = Absent
    \/ i \in s.new_ids /\ objects[i] = Absent
    \/ s.removed[i] # Absent /\ i \notin s.new_ids /\ objects[i] # Absent

Front(q) == SubSeq(q, 1, Len(q) - 1)
Top == stack[Len(stack)]

\* on_create/on_modify/on_remove open a state of no session when there is none.
Opened == IF stack = <<>> THEN <<EmptyState>> ELSE stack

----------------------------------------------------------------------------
(* Mutators of the object database.                                        *)

create(x, v) ==
  LET id == <<x, next_id[x]>> IN
  /\ status = "ok"
  /\ next_id[x] < MaxId
  /\ objects' = [objects EXCEPT ![id] = v]
  /\ next_id' = [next_id EXCEPT ![x] = @ + 1]
  /\ stack' = IF disabled THEN stack
              ELSE [Opened EXCEPT ![Len(Opened)] = on_create(@, id)]
  /\ UNCHANGED <<active_sessions, disabled, status>>

modify(id, v) ==
  /\ status = "ok"
  /\ objects[id] # Absent
  /\ objects' = [objects EXCEPT ![id] = v]
  /\ stack' = IF disabled THEN stack
              ELSE [Opened EXCEPT ![Len(Opened)] = on_modify(@, id)]
  /\ UNCHANGED <<next_id, active_sessions, disabled, status>>

remove(id) ==
  /\ status = "ok"
  /\ objects[id] # Absent
  /\ objects' = [objects EXCEPT ![id] = Absent]
  /\ stack' = IF disabled THEN stack
              ELSE [Opened EXCEPT ![Len(Opened)] = on_remove(@, id)]
  /\ UNCHANGED <<next_id, active_sessions, disabled, status>>

----------------------------------------------------------------------------
(* Sessions.                                                               *)

\* init_genesis() turns recording off around the first objects, with no
\* session alive and nothing recorded.
disable ==
  /\ status = "ok" /\ ~disabled
  /\ stack = <<>> /\ active_sessions = 0
  /\ disabled' = TRUE
  /\ UNCHANGED <<objects, next_id, stack, active_sessions, status>>

enable ==
  /\ status = "ok" /\ disabled
  /\ disabled' = FALSE
  /\ UNCHANGED <<objects, next_id, stack, active_sessions, status>>

\* Mutant: the oldest state is dropped whenever there is one.
start_undo_session_drop ==
  /\ status = "ok" /\ ~disabled
  /\ active_sessions < MaxSessions
  /\ stack' = Append(IF stack # <<>> THEN Tail(stack) ELSE stack, EmptyState)
  /\ active_sessions' = active_sessions + 1
  /\ UNCHANGED <<objects, next_id, disabled, status>>

start_undo_session ==
  /\ status = "ok" /\ ~disabled
  /\ active_sessions < MaxSessions
  /\ stack' = Append(IF Len(stack) = MaxSize THEN Tail(stack) ELSE stack, EmptyState)
  /\ active_sessions' = active_sessions + 1
  /\ UNCHANGED <<objects, next_id, disabled, status>>

\* A session undone or destroyed.  undo() leaves an empty state behind when it
\* pops the last one.  A throw leaves through ~session(): the process ends.
undo ==
  /\ status = "ok" /\ ~disabled
  /\ active_sessions > 0
  /\ IF revert_throws(Top)
       THEN /\ status' = "terminated"
            /\ UNCHANGED <<objects, next_id, stack, active_sessions>>
       ELSE /\ objects' = reverted_objects(Top)
            /\ next_id' = reverted_next_id(Top)
            /\ stack' = IF Len(stack) = 1 THEN <<EmptyState>> ELSE Front(stack)
            /\ active_sessions' = active_sessions - 1
            /\ UNCHANGED status
  /\ UNCHANGED disabled

merge ==
  /\ status = "ok"
  /\ active_sessions > 0
  /\ Len(stack) >= 2
  /\ stack' = [Front(stack) EXCEPT ![Len(stack) - 1] = merge_states(@, Top)]
  /\ active_sessions' = active_sessions - 1
  /\ UNCHANGED <<objects, next_id, disabled, status>>

\* Mutant: the destructor of a committed session counts it again.
commit_counted_twice ==
  /\ status = "ok"
  /\ active_sessions > 0
  /\ active_sessions' = active_sessions - 2
  /\ UNCHANGED <<objects, next_id, stack, disabled, status>>

commit ==
  /\ status = "ok"
  /\ active_sessions > 0
  /\ active_sessions' = active_sessions - 1
  /\ UNCHANGED <<objects, next_id, stack, disabled, status>>

\* pop_commit() catches the throw, enables recording again and rethrows: some
\* of the old values are back, the state stays on the stack.
pop_commit ==
  /\ status = "ok"
  /\ active_sessions = 0
  /\ stack # <<>>
  /\ IF revert_throws(Top)
       THEN /\ status' = "corrupt"
            /\ \E S \in SUBSET {i \in Ids : Top.old_values[i] # Absent /\ objects[i] # Absent} :
                 objects' = [i \in Ids |-> IF i \in S THEN Top.old_values[i] ELSE objects[i]]
            /\ UNCHANGED <<next_id, stack>>
       ELSE /\ objects' = reverted_objects(Top)
            /\ next_id' = reverted_next_id(Top)
            /\ stack' = Front(stack)
            /\ UNCHANGED status
  /\ UNCHANGED <<active_sessions, disabled>>

Next ==
  \/ \E x \in Indexes, v \in Values : create(x, v)
  \/ \E id \in Ids, v \in Values : modify(id, v)
  \/ \E id \in Ids : remove(id)
  \/ disable
  \/ enable
  \/ start_undo_session
  \/ undo
  \/ merge
  \/ commit
  \/ pop_commit

Spec == Init /\ [][Next]_vars
=============================================================================
