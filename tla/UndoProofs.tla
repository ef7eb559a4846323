------------------------------ MODULE UndoProofs ------------------------------
(***************************************************************************)
(* Proofs about UndoHistory, for every set of indexes and contents, every  *)
(* bound on ids and every stack size.                                      *)
(***************************************************************************)
EXTENDS UndoHistory, TLAPS, SequenceTheorems

\* Front drops the last element and nothing else.
LEMMA FrontFacts ==
  ASSUME NEW S, NEW q \in Seq(S), q # <<>>
  PROVE  /\ Front(q) \in Seq(S)
         /\ Len(Front(q)) = Len(q) - 1
         /\ \A k \in 1..(Len(q) - 1) : Front(q)[k] = q[k]
  <1>1. Len(q) \in Nat /\ Len(q) >= 1
    BY EmptySeq
  <1>2. \A i \in 1..(Len(q) - 1) : q[i] \in S
    BY <1>1, ElementOfSeq
  <1> DEFINE n == Len(q) - 1
             f == SubSeq(q, 1, n)
  <1>3. n \in Int /\ n >= 0 /\ (\A i \in 1..n : q[i] \in S)
    BY <1>1, <1>2
  <1> HIDE DEF n
  <1>4. /\ f \in Seq(S)
        /\ Len(f) = IF 1 <= n THEN n - 1 + 1 ELSE 0
        /\ \A i \in 1..(n - 1 + 1) : f[i] = q[1 + i - 1]
    BY <1>3, SubSeqProperties
  <1> HIDE DEF f
  <1>5. f \in Seq(S) /\ Len(f) = n /\ \A i \in 1..n : f[i] = q[i]
    BY <1>3, <1>4
  <1>6. QED
    BY <1>5 DEF Front, f, n

\* Dropping the oldest element shifts the others down by one.
LEMMA TailFacts ==
  ASSUME NEW S, NEW q \in Seq(S), q # <<>>
  PROVE  /\ Tail(q) \in Seq(S)
         /\ Len(Tail(q)) = Len(q) - 1
         /\ \A k \in 1..(Len(q) - 1) : Tail(q)[k] = q[k + 1]
  <1>1. Len(q) \in Nat /\ Len(q) >= 1
    BY EmptySeq
  <1>2. QED
    BY <1>1, HeadTailProperties

\* An undo state that records nothing has the type of an undo state.
LEMMA EmptyStateType == EmptyState \in UndoStates
  BY ConstantsAssumption DEF EmptyState, UndoStates, Contents, NoId

\* Every id is a pair of an index and an instance below MaxId.
LEMMA IdsFacts ==
  ASSUME NEW i \in Ids
  PROVE  /\ i[1] \in Indexes
         /\ i[2] \in 0..(MaxId - 1)
         /\ i = <<i[1], i[2]>>
  BY DEF Ids

----------------------------------------------------------------------------
(* One undo state as a record of the way between two databases.            *)

\* A state that records nothing links a database to itself.
LEMMA EmptyLinks ==
  ASSUME NEW db \in Snapshots
  PROVE  Links(EmptyState, db, db)
  BY ConstantsAssumption DEF Links, Records, EmptyState, Snapshots, NoId, Ids

\* merge(): two exact records in a row make one exact record, provided ids are
\* handed out once.  An object modified below and removed above ends up in both
\* maps of the result.
LEMMA MergeLinks ==
  ASSUME NEW p \in UndoStates, NEW s \in UndoStates,
         NEW b \in Snapshots, NEW m \in Snapshots, NEW a \in Snapshots,
         Links(p, b, m), Links(s, m, a),
         IdsBelowNext(b)
  PROVE  Links(merge_states(p, s), b, a)
  <1> DEFINE r == merge_states(p, s)
  <1>1. ASSUME NEW i \in Ids
        PROVE  Records(r, i, b.objects[i], a.objects[i])
    <2>1. Records(p, i, b.objects[i], m.objects[i]) /\ Records(s, i, m.objects[i], a.objects[i])
      BY DEF Links
    <2>2. i \in s.new_ids => b.objects[i] = Absent
      BY IdsFacts DEF Links, IdsBelowNext, Snapshots
    <2>3. /\ r.old_values[i] = IF s.old_values[i] # Absent /\ i \notin p.new_ids /\ p.old_values[i] = Absent
                                 THEN s.old_values[i] ELSE p.old_values[i]
          /\ i \in r.new_ids <=> (i \in p.new_ids \/ i \in s.new_ids) /\ s.removed[i] = Absent
          /\ r.removed[i] = IF s.removed[i] # Absent /\ i \notin p.new_ids /\ i \notin s.new_ids
                              THEN s.removed[i] ELSE p.removed[i]
      BY DEF merge_states
    <2>4. QED
      BY <2>1, <2>2, <2>3, ConstantsAssumption DEF Records
  <1>2. ASSUME NEW i \in r.new_ids
        PROVE  b.next_id[i[1]] <= i[2]
    <2>1. i \in Ids /\ (i \in p.new_ids \/ i \in s.new_ids)
      BY DEF merge_states, UndoStates
    <2>2. i[1] \in Indexes /\ b.next_id[i[1]] <= m.next_id[i[1]]
      BY <2>1, IdsFacts DEF Links
    <2>3. QED
      BY <2>1, <2>2, IdsFacts DEF Links, Snapshots
  <1>3. ASSUME NEW x \in Indexes
        PROVE  /\ b.next_id[x] <= a.next_id[x]
               /\ b.next_id[x] = IF r.old_index_next_ids[x] = NoId
                                   THEN a.next_id[x] ELSE r.old_index_next_ids[x]
    <2>1. r.old_index_next_ids[x] = IF p.old_index_next_ids[x] = NoId
                                      THEN s.old_index_next_ids[x] ELSE p.old_index_next_ids[x]
      BY DEF merge_states
    <2>2. QED
      BY <2>1 DEF Links, Snapshots, NoId, UndoStates
  <1>4. QED
    BY <1>1, <1>2, <1>3 DEF Links

\* create(): the id handed out is new to the level, whatever it recorded.
LEMMA CreateLinks ==
  ASSUME NEW s \in UndoStates, NEW b \in Snapshots, Now \in Snapshots, Now' \in Snapshots,
         Links(s, b, Now), IdsBelowNext(Now), IdsBelowNext(b),
         NEW x \in Indexes, NEW v \in Values, create(x, v)
  PROVE  Links(on_create(s, <<x, next_id[x]>>), b, Now')
  <1> DEFINE id == <<x, next_id[x]>>
             r == on_create(s, id)
  <1>1. id \in Ids /\ objects[id] = Absent /\ id[1] = x /\ id[2] = next_id[x]
    BY ConstantsAssumption DEF create, Now, Snapshots, IdsBelowNext, Ids
  <1>2. /\ r.old_values = s.old_values /\ r.removed = s.removed
        /\ r.new_ids = s.new_ids \cup {id}
        /\ \A y \in Indexes : r.old_index_next_ids[y] =
             IF y = x /\ s.old_index_next_ids[x] = NoId THEN next_id[x] ELSE s.old_index_next_ids[y]
    BY <1>1 DEF on_create, UndoStates
  <1>3. /\ \A i \in Ids : Now'.objects[i] = IF i = id THEN v ELSE objects[i]
        /\ \A y \in Indexes : Now'.next_id[y] = IF y = x THEN next_id[x] + 1 ELSE next_id[y]
    BY <1>1 DEF create, Now, Snapshots
  <1>4. b.next_id[x] <= next_id[x] /\ b.objects[id] = Absent
    BY <1>1, IdsFacts DEF Links, Now, Snapshots, IdsBelowNext
  <1>5. ASSUME NEW i \in Ids
        PROVE  Records(r, i, b.objects[i], Now'.objects[i])
    <2>1. Records(s, i, b.objects[i], objects[i])
      BY DEF Links, Now
    <2>2. QED
      BY <2>1, <1>1, <1>2, <1>3, <1>4, ConstantsAssumption DEF Records
  <1>6. \A i \in r.new_ids : b.next_id[i[1]] <= i[2]
    BY <1>1, <1>2, <1>4 DEF Links
  <1>7. ASSUME NEW y \in Indexes
        PROVE  /\ b.next_id[y] <= Now'.next_id[y]
               /\ b.next_id[y] = IF r.old_index_next_ids[y] = NoId
                                   THEN Now'.next_id[y] ELSE r.old_index_next_ids[y]
    BY <1>2, <1>3, <1>4 DEF Links, Now, Snapshots, NoId, UndoStates
  <1>8. QED
    BY <1>5, <1>6, <1>7 DEF Links

\* modify(): the first value the level saw is the one it keeps.
LEMMA ModifyLinks ==
  ASSUME NEW s \in UndoStates, NEW b \in Snapshots, Now \in Snapshots,
         Links(s, b, Now),
         NEW id \in Ids, NEW v \in Values, modify(id, v)
  PROVE  Links(on_modify(s, id), b, Now')
  <1> DEFINE r == on_modify(s, id)
  <1>1. /\ r.removed = s.removed /\ r.new_ids = s.new_ids
        /\ r.old_index_next_ids = s.old_index_next_ids
        /\ \A i \in Ids : r.old_values[i] =
             IF i = id /\ id \notin s.new_ids /\ s.old_values[id] = Absent
               THEN objects[id] ELSE s.old_values[i]
    BY DEF on_modify, UndoStates
  <1>2. /\ \A i \in Ids : Now'.objects[i] = IF i = id THEN v ELSE objects[i]
        /\ Now'.next_id = next_id
        /\ objects[id] # Absent
    BY DEF modify, Now, Snapshots
  <1>3. ASSUME NEW i \in Ids
        PROVE  Records(r, i, b.objects[i], Now'.objects[i])
    <2>1. Records(s, i, b.objects[i], objects[i])
      BY DEF Links, Now
    <2>2. QED
      BY <2>1, <1>1, <1>2, ConstantsAssumption DEF Records
  <1>4. QED
    BY <1>1, <1>2, <1>3 DEF Links, Now

\* remove(): what the level must put back is the first value it saw, or
\* nothing if the object was created in the level.
LEMMA RemoveLinks ==
  ASSUME NEW s \in UndoStates, NEW b \in Snapshots, Now \in Snapshots,
         Links(s, b, Now),
         NEW id \in Ids, remove(id)
  PROVE  Links(on_remove(s, id), b, Now')
  <1> DEFINE r == on_remove(s, id)
  <1>1. /\ r.old_index_next_ids = s.old_index_next_ids
        /\ r.new_ids \subseteq s.new_ids
        /\ \A i \in Ids : i # id =>
             /\ r.removed[i] = s.removed[i] /\ r.old_values[i] = s.old_values[i]
             /\ i \in r.new_ids <=> i \in s.new_ids
        /\ id \notin r.new_ids
    BY DEF on_remove, UndoStates
  <1>2. /\ \A i \in Ids : Now'.objects[i] = IF i = id THEN Absent ELSE objects[i]
        /\ Now'.next_id = next_id
        /\ objects[id] # Absent
    BY DEF remove, Now, Snapshots
  <1>3. ASSUME NEW i \in Ids
        PROVE  Records(r, i, b.objects[i], Now'.objects[i])
    <2>1. Records(s, i, b.objects[i], objects[i])
      BY DEF Links, Now
    <2>2. CASE i # id
      BY <2>1, <2>2, <1>1, <1>2 DEF Records
    <2>3. CASE i = id
      <3>1. CASE id \in s.new_ids
        BY <2>1, <2>3, <3>1, <1>1, <1>2 DEF Records, on_remove, UndoStates
      <3>2. CASE id \notin s.new_ids /\ s.old_values[id] # Absent
        BY <2>1, <2>3, <3>2, <1>1, <1>2 DEF Records, on_remove, UndoStates
      <3>3. CASE id \notin s.new_ids /\ s.old_values[id] = Absent
        BY <2>1, <2>3, <3>3, <1>1, <1>2 DEF Records, on_remove, UndoStates
      <3>4. QED
        BY <3>1, <3>2, <3>3
    <2>4. QED
      BY <2>2, <2>3
  <1>4. QED
    BY <1>1, <1>2, <1>3 DEF Links, Now

\* undo() and pop_commit(): when nothing throws, an exact record takes the
\* database back to where the level was opened.
LEMMA RevertLinks ==
  ASSUME NEW s \in UndoStates, NEW b \in Snapshots, Now \in Snapshots,
         Links(s, b, Now), ~revert_throws(s)
  PROVE  reverted_objects(s) = b.objects /\ reverted_next_id(s) = b.next_id
  <1>1. ASSUME NEW i \in Ids
        PROVE  reverted_objects(s)[i] = b.objects[i]
    BY DEF Links, Records, Now, reverted_objects, revert_throws
  <1>2. ASSUME NEW x \in Indexes
        PROVE  reverted_next_id(s)[x] = b.next_id[x]
    BY DEF Links, Now, reverted_next_id
  <1>3. QED
    BY <1>1, <1>2 DEF reverted_objects, reverted_next_id, Snapshots

\* An exact record can only throw on an object it holds twice.
LEMMA ThrowsIfPoisoned ==
  ASSUME NEW s \in UndoStates, NEW b \in Snapshots, Now \in Snapshots,
         Links(s, b, Now), revert_throws(s)
  PROVE  Poisoned(s)
  BY DEF Links, Records, Now, revert_throws, Poisoned

----------------------------------------------------------------------------
(* The stack of undo states beside the databases they were opened at.      *)

\* A session opened on top records nothing yet.
LEMMA PushLinked ==
  ASSUME NEW stk \in Seq(UndoStates), NEW sav \in Seq(Snapshots), NEW db \in Snapshots,
         Linked(stk, sav, db)
  PROVE  Linked(Append(stk, EmptyState), Append(sav, db), db)
  <1> DEFINE n == Len(stk)
             stk2 == Append(stk, EmptyState)
             sav2 == Append(sav, db)
  <1>1. n \in Nat /\ Len(sav) = n /\ Len(stk2) = n + 1 /\ Len(sav2) = n + 1
    BY EmptyStateType DEF Linked
  <1>2. /\ \A k \in 1..n : stk2[k] = stk[k] /\ sav2[k] = sav[k]
        /\ stk2[n + 1] = EmptyState /\ sav2[n + 1] = db
    BY <1>1, EmptyStateType
  <1>3. ASSUME NEW k \in 1..(n + 1)
        PROVE  Links(stk2[k], sav2[k], IF k = n + 1 THEN db ELSE sav2[k + 1])
    <2>1. CASE k = n + 1
      BY <2>1, <1>1, <1>2, EmptyLinks
    <2>2. CASE k = n /\ k # n + 1
      <3>1. k \in 1..n /\ Links(stk[k], sav[k], db)
        BY <2>2, <1>1 DEF Linked
      <3>2. QED
        BY <3>1, <2>2, <1>1, <1>2
    <2>3. CASE k < n
      <3>1. k \in 1..n /\ k + 1 \in 1..n /\ Links(stk[k], sav[k], sav[k + 1])
        BY <2>3, <1>1 DEF Linked
      <3>2. QED
        BY <3>1, <2>3, <1>1, <1>2
    <2>4. QED
      BY <2>1, <2>2, <2>3, <1>1
  <1>4. QED
    BY <1>1, <1>3 DEF Linked

\* Forgetting the oldest level leaves the others exact.
LEMMA DropLinked ==
  ASSUME NEW stk \in Seq(UndoStates), NEW sav \in Seq(Snapshots), NEW db \in Snapshots,
         Linked(stk, sav, db), stk # <<>>
  PROVE  Linked(Tail(stk), Tail(sav), db)
  <1> DEFINE n == Len(stk)
  <1>1. n \in Nat /\ n >= 1 /\ Len(sav) = n /\ sav # <<>>
    BY EmptySeq DEF Linked
  <1>2. /\ Len(Tail(stk)) = n - 1 /\ Len(Tail(sav)) = n - 1
        /\ \A k \in 1..(n - 1) : Tail(stk)[k] = stk[k + 1] /\ Tail(sav)[k] = sav[k + 1]
    BY <1>1, TailFacts
  <1>3. ASSUME NEW k \in 1..(n - 1)
        PROVE  Links(Tail(stk)[k], Tail(sav)[k], IF k = n - 1 THEN db ELSE Tail(sav)[k + 1])
    <2>1. k + 1 \in 1..n /\ Links(stk[k + 1], sav[k + 1], IF k + 1 = n THEN db ELSE sav[k + 1 + 1])
      BY <1>1 DEF Linked
    <2>2. k # n - 1 => k + 1 \in 1..(n - 1) /\ Tail(sav)[k + 1] = sav[k + 1 + 1]
      BY <1>1, <1>2
    <2>3. QED
      BY <2>1, <2>2, <1>1, <1>2
  <1>4. QED
    BY <1>2, <1>3 DEF Linked

\* Below the top level, the way leads to where the top level was opened.
LEMMA PopLinked ==
  ASSUME NEW stk \in Seq(UndoStates), NEW sav \in Seq(Snapshots), NEW db \in Snapshots,
         Linked(stk, sav, db), stk # <<>>
  PROVE  Linked(Front(stk), Front(sav), sav[Len(stk)])
  <1> DEFINE n == Len(stk)
  <1>1. n \in Nat /\ n >= 1 /\ Len(sav) = n /\ sav # <<>>
    BY EmptySeq DEF Linked
  <1>2. /\ Len(Front(stk)) = n - 1 /\ Len(Front(sav)) = n - 1
        /\ \A k \in 1..(n - 1) : Front(stk)[k] = stk[k] /\ Front(sav)[k] = sav[k]
    BY <1>1, FrontFacts
  <1>3. ASSUME NEW k \in 1..(n - 1)
        PROVE  Links(Front(stk)[k], Front(sav)[k], IF k = n - 1 THEN sav[n] ELSE Front(sav)[k + 1])
    <2>1. k \in 1..n /\ k # n /\ Links(stk[k], sav[k], sav[k + 1])
      BY <1>1 DEF Linked
    <2>2. k # n - 1 => k + 1 \in 1..(n - 1) /\ Front(sav)[k + 1] = sav[k + 1]
      BY <1>1, <1>2
    <2>3. k = n - 1 => sav[k + 1] = sav[n]
      BY <1>1
    <2>4. QED
      BY <2>1, <2>2, <2>3, <1>2
  <1>4. QED
    BY <1>2, <1>3 DEF Linked

\* A change recorded in the top level leaves the levels below alone.
LEMMA TopLinked ==
  ASSUME NEW stk \in Seq(UndoStates), NEW sav \in Seq(Snapshots),
         NEW db, NEW db2, NEW s \in UndoStates,
         Linked(stk, sav, db), stk # <<>>,
         Links(s, sav[Len(stk)], db2)
  PROVE  Linked([stk EXCEPT ![Len(stk)] = s], sav, db2)
  <1> DEFINE n == Len(stk)
             stk2 == [stk EXCEPT ![n] = s]
  <1>1. n \in Nat /\ n >= 1 /\ Len(sav) = n
    BY EmptySeq DEF Linked
  <1>2. Len(stk2) = n /\ stk2[n] = s /\ \A k \in 1..n : k # n => stk2[k] = stk[k]
    BY <1>1
  <1>3. ASSUME NEW k \in 1..n
        PROVE  Links(stk2[k], sav[k], IF k = n THEN db2 ELSE sav[k + 1])
    BY <1>1, <1>2 DEF Linked
  <1>4. QED
    BY <1>1, <1>2, <1>3 DEF Linked

\* merge(): the two top levels become one, opened where the lower one was.
LEMMA MergeTopLinked ==
  ASSUME NEW stk \in Seq(UndoStates), NEW sav \in Seq(Snapshots), NEW db \in Snapshots,
         Linked(stk, sav, db), Len(stk) >= 2,
         \A k \in 1..Len(sav) : IdsBelowNext(sav[k])
  PROVE  Linked([Front(stk) EXCEPT ![Len(stk) - 1] = merge_states(@, stk[Len(stk)])],
                Front(sav), db)
  <1> DEFINE n == Len(stk)
             r == merge_states(stk[n - 1], stk[n])
  <1>1. n \in Nat /\ n >= 2 /\ stk # <<>> /\ Len(sav) = n /\ sav # <<>>
    BY EmptySeq DEF Linked
  <1>2. /\ Front(stk) \in Seq(UndoStates) /\ Front(sav) \in Seq(Snapshots)
        /\ Len(Front(stk)) = n - 1 /\ Front(stk) # <<>>
        /\ Front(stk)[n - 1] = stk[n - 1] /\ Front(sav)[n - 1] = sav[n - 1]
    BY <1>1, FrontFacts, EmptySeq
  <1>3. Linked(Front(stk), Front(sav), sav[n])
    BY <1>1, PopLinked
  <1>4. Links(stk[n - 1], sav[n - 1], sav[n]) /\ Links(stk[n], sav[n], db)
    BY <1>1 DEF Linked
  <1>5. /\ stk[n - 1] \in UndoStates /\ stk[n] \in UndoStates
        /\ sav[n - 1] \in Snapshots /\ sav[n] \in Snapshots
    BY <1>1, ElementOfSeq
  <1>6. r \in UndoStates /\ Links(r, sav[n - 1], db)
    <2>1. Links(r, sav[n - 1], db)
      BY <1>1, <1>4, <1>5, MergeLinks
    <2>2. r \in UndoStates
      BY <1>5 DEF merge_states, UndoStates
    <2>3. QED
      BY <2>1, <2>2
  <1>7. Linked([Front(stk) EXCEPT ![n - 1] = r], Front(sav), db)
    BY <1>2, <1>3, <1>6, TopLinked
  <1>8. QED
    BY <1>2, <1>7

----------------------------------------------------------------------------
(* The invariant.                                                          *)

\* What a change outside any session opens is linked to the database.
LEMMA OpenedLinked ==
  ASSUME IInv, status = "ok", ~disabled
  PROVE  /\ Opened \in Seq(UndoStates) /\ Opened # <<>>
         /\ SavedOpened \in Seq(Snapshots)
         /\ Now \in Snapshots
         /\ Linked(Opened, SavedOpened, Now)
         /\ Len(Opened) >= Len(stack)
         /\ \A k \in 1..Len(SavedOpened) : IdsBelowNext(SavedOpened[k])
  <1>1. Now \in Snapshots
    BY DEF IInv, TypeOK, Now, Snapshots
  <1>2. CASE stack = <<>>
    <2>1. Opened = <<EmptyState>> /\ SavedOpened = <<Now>>
      BY <1>2 DEF Opened, SavedOpened
    <2>2. Linked(<<EmptyState>>, <<Now>>, Now)
      BY <1>1, EmptyLinks DEF Linked
    <2>3. QED
      BY <1>1, <1>2, <2>1, <2>2, EmptyStateType DEF IInv, IdsNeverClash
  <1>3. CASE stack # <<>>
    BY <1>1, <1>3 DEF Opened, SavedOpened, IInv, TypeOK, LevelsLink, IdsNeverClash
  <1>4. QED
    BY <1>2, <1>3

\* A change of the database recorded in the top level keeps the invariant.
LEMMA RecordStep ==
  ASSUME IInv, status = "ok", status' = "ok",
         objects' \in [Ids -> Contents], next_id' \in [Indexes -> 0..MaxId],
         UNCHANGED <<active_sessions, disabled>>, saved' = SavedOpened,
         IdsBelowNext(Now)',
         NEW s \in UndoStates,
         stack' = IF disabled THEN stack ELSE [Opened EXCEPT ![Len(Opened)] = s],
         ~disabled => Links(s, SavedOpened[Len(Opened)], Now')
  PROVE  IInv'
  <1>1. CASE disabled
    <2>1. stack' = <<>> /\ saved' = <<>>
      BY <1>1 DEF IInv, NothingWhileDisabled, SavedOpened
    <2>2. TypeOK'
      BY <1>1, <2>1 DEF IInv, TypeOK
    <2>3. QED
      BY <1>1, <2>1, <2>2 DEF IInv, LevelsLink, IdsNeverClash, SessionsHaveStates,
                              Linked, NothingWhileDisabled
  <1>2. CASE ~disabled
    <2>1. /\ Opened \in Seq(UndoStates) /\ Opened # <<>>
          /\ SavedOpened \in Seq(Snapshots)
          /\ Linked(Opened, SavedOpened, Now)
          /\ Len(Opened) >= Len(stack)
          /\ \A k \in 1..Len(SavedOpened) : IdsBelowNext(SavedOpened[k])
      BY <1>2, OpenedLinked
    <2>2. stack' = [Opened EXCEPT ![Len(Opened)] = s]
      BY <1>2
    <2>3. stack' \in Seq(UndoStates) /\ Len(stack') = Len(Opened)
      BY <2>1, <2>2, ExceptSeq
    <2>4. Linked(stack', saved', Now')
      <3>1. Links(s, SavedOpened[Len(Opened)], Now')
        BY <1>2
      <3>2. Linked([Opened EXCEPT ![Len(Opened)] = s], SavedOpened, Now')
        BY <3>1, <2>1, TopLinked
      <3>3. QED
        BY <3>2, <2>2
    <2>5. TypeOK'
      BY <2>1, <2>3 DEF IInv, TypeOK
    <2>6. SessionsHaveStates'
      BY <2>1, <2>3 DEF IInv, SessionsHaveStates, TypeOK
    <2>7. IdsNeverClash'
      BY <2>1 DEF IdsNeverClash
    <2>8. QED
      BY <1>2, <2>4, <2>5, <2>6, <2>7 DEF IInv, LevelsLink, NothingWhileDisabled
  <1>3. QED
    BY <1>1, <1>2

\* The top of the opened stack, with what holds of it.
LEMMA OpenedTop ==
  ASSUME IInv, status = "ok", ~disabled
  PROVE  /\ Opened[Len(Opened)] \in UndoStates
         /\ SavedOpened[Len(Opened)] \in Snapshots
         /\ Links(Opened[Len(Opened)], SavedOpened[Len(Opened)], Now)
         /\ IdsBelowNext(SavedOpened[Len(Opened)])
  <1> DEFINE n == Len(Opened)
  <1>1. /\ Opened \in Seq(UndoStates) /\ Opened # <<>>
        /\ SavedOpened \in Seq(Snapshots)
        /\ Linked(Opened, SavedOpened, Now)
        /\ \A k \in 1..Len(SavedOpened) : IdsBelowNext(SavedOpened[k])
    BY OpenedLinked
  <1>2. n \in Nat /\ n >= 1 /\ Len(SavedOpened) = n
    BY <1>1, EmptySeq DEF Linked
  <1>3. n \in 1..n
    BY <1>2
  <1>4. QED
    BY <1>1, <1>2, <1>3, ElementOfSeq DEF Linked

\* What the mutators record is an undo state.
LEMMA RecordTypes ==
  ASSUME TypeOK, NEW s \in UndoStates, NEW id \in Ids
  PROVE  on_create(s, id) \in UndoStates /\ on_modify(s, id) \in UndoStates
         /\ on_remove(s, id) \in UndoStates
  <1>1. id[1] \in Indexes /\ id[2] \in NoId..MaxId
    BY IdsFacts, ConstantsAssumption DEF NoId
  <1>2. on_create(s, id) \in UndoStates
    BY <1>1 DEF on_create, UndoStates
  <1>3. on_modify(s, id) \in UndoStates
    BY DEF on_modify, UndoStates, TypeOK
  <1>4. on_remove(s, id) \in UndoStates
    BY DEF on_remove, UndoStates, TypeOK, Contents
  <1>5. QED
    BY <1>2, <1>3, <1>4

\* create(), in or out of a session.
LEMMA CreateStep ==
  ASSUME IInv, NEW x \in Indexes, NEW v \in Values, HCreate(x, v)
  PROVE  IInv'
  <1> DEFINE id == <<x, next_id[x]>>
             top == IF disabled THEN EmptyState ELSE Opened[Len(Opened)]
             s == on_create(top, id)
  <1>1. status = "ok" /\ status' = "ok" /\ Now \in Snapshots /\ IdsBelowNext(Now)
    BY DEF HCreate, create, IInv, TypeOK, Now, Snapshots, IdsNeverClash
  <1>2. id \in Ids /\ id[1] = x /\ id[2] = next_id[x] /\ next_id[x] \in 0..(MaxId - 1)
    BY ConstantsAssumption DEF HCreate, create, IInv, TypeOK, Ids
  <1>3. objects' \in [Ids -> Contents] /\ next_id' \in [Indexes -> 0..MaxId]
    BY <1>2, ConstantsAssumption DEF HCreate, create, IInv, TypeOK, Contents
  <1>4. Now' \in Snapshots
    BY <1>3 DEF Now, Snapshots
  <1>5. IdsBelowNext(Now)'
    <2> SUFFICES ASSUME NEW i \in Ids, objects'[i] # Absent
                 PROVE  i[2] < next_id'[i[1]]
      BY DEF IdsBelowNext, Now
    <2>1. i[1] \in Indexes /\ i[2] \in Int /\ i = <<i[1], i[2]>>
      BY IdsFacts
    <2>2. next_id'[i[1]] = IF i[1] = x THEN next_id[x] + 1 ELSE next_id[i[1]]
      BY <2>1 DEF HCreate, create, IInv, TypeOK
    <2>3. CASE i = id
      BY <2>2, <2>3, <1>2
    <2>4. CASE i # id
      <3>1. objects[i] # Absent
        BY <2>4, <1>2 DEF HCreate, create, IInv, TypeOK
      <3>2. i[2] < next_id[i[1]]
        BY <3>1, <1>1 DEF IdsBelowNext, Now
      <3>3. QED
        BY <3>2, <2>1, <2>2, <1>2 DEF IInv, TypeOK
    <2>5. QED
      BY <2>3, <2>4
  <1>6. top \in UndoStates
    BY <1>1, OpenedTop, EmptyStateType
  <1>7. s \in UndoStates
    BY <1>2, <1>6, RecordTypes DEF IInv
  <1>8. ASSUME ~disabled
        PROVE  Links(s, SavedOpened[Len(Opened)], Now')
    <2>1. create(x, v)
      BY DEF HCreate
    <2>2. QED
      BY <1>1, <1>4, <1>6, <1>8, <2>1, OpenedTop, CreateLinks
  <1>9. stack' = IF disabled THEN stack ELSE [Opened EXCEPT ![Len(Opened)] = s]
    BY DEF HCreate, create
  <1>10. UNCHANGED <<active_sessions, disabled>> /\ saved' = SavedOpened
    BY DEF HCreate, create
  <1> HIDE DEF s
  <1>11. QED
    BY <1>1, <1>3, <1>5, <1>7, <1>8, <1>9, <1>10, RecordStep

\* modify(), in or out of a session.
LEMMA ModifyStep ==
  ASSUME IInv, NEW id \in Ids, NEW v \in Values, HModify(id, v)
  PROVE  IInv'
  <1> DEFINE top == IF disabled THEN EmptyState ELSE Opened[Len(Opened)]
             s == on_modify(top, id)
  <1>1. status = "ok" /\ status' = "ok" /\ Now \in Snapshots /\ IdsBelowNext(Now)
    BY DEF HModify, modify, IInv, TypeOK, Now, Snapshots, IdsNeverClash
  <1>2. objects' \in [Ids -> Contents] /\ next_id' \in [Indexes -> 0..MaxId]
    BY DEF HModify, modify, IInv, TypeOK, Contents
  <1>3. IdsBelowNext(Now)'
    BY <1>1 DEF HModify, modify, IInv, TypeOK, IdsBelowNext, Now
  <1>4. top \in UndoStates
    BY <1>1, OpenedTop, EmptyStateType
  <1>5. s \in UndoStates
    BY <1>4, RecordTypes DEF IInv
  <1>6. ASSUME ~disabled
        PROVE  Links(s, SavedOpened[Len(Opened)], Now')
    <2>1. modify(id, v)
      BY DEF HModify
    <2>2. QED
      BY <1>1, <1>4, <1>6, <2>1, OpenedTop, ModifyLinks
  <1>7. stack' = IF disabled THEN stack ELSE [Opened EXCEPT ![Len(Opened)] = s]
    BY DEF HModify, modify
  <1>8. UNCHANGED <<active_sessions, disabled>> /\ saved' = SavedOpened
    BY DEF HModify, modify
  <1> HIDE DEF s
  <1>9. QED
    BY <1>1, <1>2, <1>3, <1>5, <1>6, <1>7, <1>8, RecordStep

\* remove(), in or out of a session.
LEMMA RemoveStep ==
  ASSUME IInv, NEW id \in Ids, HRemove(id)
  PROVE  IInv'
  <1> DEFINE top == IF disabled THEN EmptyState ELSE Opened[Len(Opened)]
             s == on_remove(top, id)
  <1>1. status = "ok" /\ status' = "ok" /\ Now \in Snapshots /\ IdsBelowNext(Now)
    BY DEF HRemove, remove, IInv, TypeOK, Now, Snapshots, IdsNeverClash
  <1>2. objects' \in [Ids -> Contents] /\ next_id' \in [Indexes -> 0..MaxId]
    BY DEF HRemove, remove, IInv, TypeOK, Contents
  <1>3. IdsBelowNext(Now)'
    BY <1>1 DEF HRemove, remove, IInv, TypeOK, IdsBelowNext, Now
  <1>4. top \in UndoStates
    BY <1>1, OpenedTop, EmptyStateType
  <1>5. s \in UndoStates
    BY <1>4, RecordTypes DEF IInv
  <1>6. ASSUME ~disabled
        PROVE  Links(s, SavedOpened[Len(Opened)], Now')
    <2>1. remove(id)
      BY DEF HRemove
    <2>2. QED
      BY <1>1, <1>4, <1>6, <2>1, OpenedTop, RemoveLinks
  <1>7. stack' = IF disabled THEN stack ELSE [Opened EXCEPT ![Len(Opened)] = s]
    BY DEF HRemove, remove
  <1>8. UNCHANGED <<active_sessions, disabled>> /\ saved' = SavedOpened
    BY DEF HRemove, remove
  <1> HIDE DEF s
  <1>9. QED
    BY <1>1, <1>2, <1>3, <1>5, <1>6, <1>7, <1>8, RecordStep

\* start_undo_session(), dropping the oldest level at max_size.
LEMMA StartStep ==
  ASSUME IInv, HStart
  PROVE  IInv'
  <1> DEFINE stk == IF Len(stack) = MaxSize THEN Tail(stack) ELSE stack
             sav == IF Len(stack) = MaxSize THEN Tail(saved) ELSE saved
  <1>1. /\ status = "ok" /\ status' = "ok" /\ ~disabled
        /\ Now \in Snapshots /\ Now' = Now /\ Linked(stack, saved, Now)
        /\ stack' = Append(stk, EmptyState) /\ saved' = Append(sav, Now)
        /\ active_sessions < MaxSessions /\ active_sessions' = active_sessions + 1
    BY DEF HStart, start_undo_session, IInv, TypeOK, LevelsLink, Now, Snapshots
  <1>2. /\ stack \in Seq(UndoStates) /\ saved \in Seq(Snapshots)
        /\ Len(saved) = Len(stack) /\ Len(stack) \in Nat
    BY <1>1 DEF IInv, TypeOK, Linked
  <1>3. /\ stk \in Seq(UndoStates) /\ sav \in Seq(Snapshots)
        /\ Linked(stk, sav, Now)
        /\ Len(stk) = IF Len(stack) = MaxSize THEN MaxSize - 1 ELSE Len(stack)
        /\ \A k \in 1..Len(sav) : IdsBelowNext(sav[k])
    <2>1. CASE Len(stack) = MaxSize
      <3>1. stack # <<>> /\ saved # <<>>
        BY <2>1, <1>2, EmptySeq, ConstantsAssumption
      <3>2. Linked(Tail(stack), Tail(saved), Now)
        BY <3>1, <1>1, <1>2, DropLinked
      <3>3. /\ Tail(stack) \in Seq(UndoStates) /\ Len(Tail(stack)) = MaxSize - 1
            /\ Tail(saved) \in Seq(Snapshots) /\ Len(Tail(saved)) = MaxSize - 1
            /\ \A k \in 1..(MaxSize - 1) : Tail(saved)[k] = saved[k + 1]
        BY <2>1, <3>1, <1>2, TailFacts
      <3>4. \A k \in 1..(MaxSize - 1) : k + 1 \in 1..Len(saved)
        BY <2>1, <1>2, ConstantsAssumption
      <3>5. QED
        BY <2>1, <3>2, <3>3, <3>4, <1>1 DEF IInv, IdsNeverClash
    <2>2. CASE Len(stack) # MaxSize
      BY <2>2, <1>1, <1>2 DEF IInv, IdsNeverClash
    <2>3. QED
      BY <2>1, <2>2
  <1> HIDE DEF stk, sav
  <1>4. /\ stack' \in Seq(UndoStates) /\ Len(stack') = Len(stk) + 1
        /\ saved' \in Seq(Snapshots) /\ Len(saved') = Len(sav) + 1
        /\ \A k \in 1..Len(sav) : saved'[k] = sav[k]
        /\ saved'[Len(sav) + 1] = Now
    BY <1>1, <1>3, EmptyStateType
  <1>5. TypeOK'
    BY <1>1, <1>4 DEF IInv, TypeOK, HStart, start_undo_session
  <1>6. LevelsLink'
    BY <1>1, <1>3, PushLinked DEF LevelsLink
  <1>7. IdsNeverClash'
    <2>1. IdsBelowNext(Now)
      BY <1>1 DEF IInv, IdsNeverClash
    <2>2. ASSUME NEW k \in 1..(Len(sav) + 1)
          PROVE  IdsBelowNext(saved'[k])
      <3>1. Len(sav) \in Nat
        BY <1>3
      <3>2. k \in 1..Len(sav) \/ k = Len(sav) + 1
        BY <3>1
      <3>3. QED
        BY <3>2, <2>1, <1>3, <1>4
    <2>3. QED
      BY <2>1, <2>2, <1>1, <1>4 DEF IdsNeverClash
  <1>8. SessionsHaveStates'
    BY <1>1, <1>2, <1>3, <1>4, ConstantsAssumption DEF SessionsHaveStates, IInv, TypeOK
  <1>9. QED
    BY <1>5, <1>6, <1>7, <1>8 DEF IInv, NothingWhileDisabled, HStart, start_undo_session

\* A level at the top of the stack, with what holds of it.
LEMMA TopFacts ==
  ASSUME IInv, status = "ok", stack # <<>>
  PROVE  /\ Len(stack) \in Nat /\ Len(stack) >= 1 /\ Len(saved) = Len(stack)
         /\ saved # <<>>
         /\ Now \in Snapshots
         /\ Top \in UndoStates /\ saved[Len(stack)] \in Snapshots
         /\ Links(Top, saved[Len(stack)], Now)
         /\ IdsBelowNext(saved[Len(stack)])
  <1>1. /\ stack \in Seq(UndoStates) /\ saved \in Seq(Snapshots) /\ Now \in Snapshots
        /\ Linked(stack, saved, Now)
    BY DEF IInv, TypeOK, LevelsLink, Now, Snapshots
  <1>2. Len(stack) \in Nat /\ Len(stack) >= 1 /\ Len(saved) = Len(stack) /\ saved # <<>>
    BY <1>1, EmptySeq DEF Linked
  <1>3. Len(stack) \in 1..Len(stack)
    BY <1>2
  <1>4. QED
    BY <1>1, <1>2, <1>3, ElementOfSeq DEF Linked, Top, IInv, IdsNeverClash

\* A level rolled back without a throw: the database is where the level was
\* opened and the levels below are as they were.
LEMMA RollbackFacts ==
  ASSUME IInv, status = "ok", stack # <<>>, ~revert_throws(Top),
         objects' = reverted_objects(Top), next_id' = reverted_next_id(Top)
  PROVE  /\ Now' = saved[Len(stack)]
         /\ Now' \in Snapshots
         /\ objects' \in [Ids -> Contents] /\ next_id' \in [Indexes -> 0..MaxId]
         /\ IdsBelowNext(Now')
         /\ Front(stack) \in Seq(UndoStates) /\ Front(saved) \in Seq(Snapshots)
         /\ Len(Front(stack)) = Len(stack) - 1
         /\ Linked(Front(stack), Front(saved), Now')
         /\ \A k \in 1..Len(Front(saved)) : IdsBelowNext(Front(saved)[k])
  <1> DEFINE b == saved[Len(stack)]
  <1>1. /\ Len(stack) \in Nat /\ Len(stack) >= 1 /\ Len(saved) = Len(stack) /\ saved # <<>>
        /\ b \in Snapshots /\ IdsBelowNext(b) /\ Now \in Snapshots
        /\ Top \in UndoStates /\ Links(Top, b, Now)
    BY TopFacts
  <1>2. objects' = b.objects /\ next_id' = b.next_id
    BY <1>1, RevertLinks
  <1>3. Now' = b
    BY <1>1, <1>2 DEF Now, Snapshots
  <1>4. b.objects \in [Ids -> Contents] /\ b.next_id \in [Indexes -> 0..MaxId]
    BY <1>1 DEF Snapshots
  <1>5. /\ Front(stack) \in Seq(UndoStates) /\ Front(saved) \in Seq(Snapshots)
        /\ Len(Front(stack)) = Len(stack) - 1
        /\ Len(Front(saved)) = Len(stack) - 1
        /\ \A k \in 1..(Len(stack) - 1) : Front(saved)[k] = saved[k]
    BY <1>1, FrontFacts DEF IInv, TypeOK
  <1>6. Linked(Front(stack), Front(saved), b)
    BY <1>1, PopLinked DEF IInv, TypeOK, LevelsLink
  <1>7. \A k \in 1..Len(Front(saved)) : IdsBelowNext(Front(saved)[k])
    BY <1>1, <1>5 DEF IInv, IdsNeverClash
  <1>8. QED
    BY <1>1, <1>2, <1>3, <1>4, <1>5, <1>6, <1>7

\* undo(), or the end of a session that was neither committed nor merged.
LEMMA UndoStep ==
  ASSUME IInv, HUndo
  PROVE  IInv'
  <1>1. /\ status = "ok" /\ ~disabled /\ active_sessions \in Nat /\ active_sessions > 0
        /\ disabled' = disabled
        /\ stack \in Seq(UndoStates) /\ Len(stack) \in Nat /\ active_sessions <= Len(stack)
        /\ stack # <<>>
    BY DEF HUndo, undo, IInv, TypeOK, SessionsHaveStates
  <1>2. CASE revert_throws(Top)
    <2>1. /\ status' = "terminated" /\ saved' = saved
          /\ UNCHANGED <<objects, next_id, stack, active_sessions>>
      BY <1>2 DEF HUndo, undo
    <2>2. QED
      BY <1>1, <2>1 DEF IInv, TypeOK, LevelsLink, IdsNeverClash, SessionsHaveStates,
                        NothingWhileDisabled
  <1>3. CASE ~revert_throws(Top)
    <2>1. /\ objects' = reverted_objects(Top) /\ next_id' = reverted_next_id(Top)
          /\ stack' = IF Len(stack) = 1 THEN <<EmptyState>> ELSE Front(stack)
          /\ saved' = IF Len(stack) = 1 THEN <<Now'>> ELSE Front(saved)
          /\ active_sessions' = active_sessions - 1
          /\ status' = "ok"
      BY <1>1, <1>3 DEF HUndo, undo
    <2>2. /\ Now' \in Snapshots
          /\ objects' \in [Ids -> Contents] /\ next_id' \in [Indexes -> 0..MaxId]
          /\ IdsBelowNext(Now')
          /\ Front(stack) \in Seq(UndoStates) /\ Front(saved) \in Seq(Snapshots)
          /\ Len(Front(stack)) = Len(stack) - 1
          /\ Linked(Front(stack), Front(saved), Now')
          /\ \A k \in 1..Len(Front(saved)) : IdsBelowNext(Front(saved)[k])
      BY <1>1, <1>3, <2>1, RollbackFacts
    <2>3. /\ stack' \in Seq(UndoStates) /\ saved' \in Seq(Snapshots)
          /\ Linked(stack', saved', Now')
          /\ Len(stack') >= Len(stack) - 1
          /\ \A k \in 1..Len(saved') : IdsBelowNext(saved'[k])
      <3>1. CASE Len(stack) = 1
        <4>1. stack' = <<EmptyState>> /\ saved' = <<Now'>>
          BY <3>1, <2>1
        <4>2. Linked(<<EmptyState>>, <<Now'>>, Now')
          <5>1. Links(EmptyState, Now', Now')
            BY <2>2, EmptyLinks
          <5>2. QED
            BY <5>1 DEF Linked
        <4>3. QED
          BY <3>1, <4>1, <4>2, <2>2, EmptyStateType
      <3>2. CASE Len(stack) # 1
        BY <3>2, <2>1, <2>2, <1>1
      <3>3. QED
        BY <3>1, <3>2
    <2>4. TypeOK'
      BY <1>1, <2>1, <2>2, <2>3 DEF IInv, TypeOK
    <2>5. SessionsHaveStates'
      <3>1. Len(stack') \in Nat
        BY <2>3
      <3>2. QED
        BY <3>1, <1>1, <2>1, <2>3 DEF SessionsHaveStates
    <2>6. LevelsLink' /\ IdsNeverClash'
      BY <2>2, <2>3 DEF LevelsLink, IdsNeverClash
    <2>7. QED
      BY <1>1, <2>4, <2>5, <2>6 DEF IInv, NothingWhileDisabled
  <1>4. QED
    BY <1>2, <1>3

\* merge() of the top level into the one below.
LEMMA MergeStep ==
  ASSUME IInv, HMerge
  PROVE  IInv'
  <1> DEFINE n == Len(stack)
             r == merge_states(stack[n - 1], stack[n])
  <1>1. /\ status = "ok" /\ status' = "ok" /\ n >= 2 /\ n \in Nat /\ stack # <<>>
        /\ active_sessions \in Nat /\ active_sessions > 0 /\ active_sessions <= n
        /\ active_sessions' = active_sessions - 1
        /\ stack \in Seq(UndoStates) /\ saved \in Seq(Snapshots)
        /\ UNCHANGED <<objects, next_id, disabled>> /\ saved' = Front(saved)
    BY DEF HMerge, merge, IInv, TypeOK, SessionsHaveStates
  <1>2. /\ Len(saved) = n /\ saved # <<>> /\ Now \in Snapshots
        /\ Linked(stack, saved, Now)
        /\ IdsBelowNext(Now) /\ \A k \in 1..Len(saved) : IdsBelowNext(saved[k])
    BY <1>1, TopFacts DEF IInv, LevelsLink, IdsNeverClash
  <1>3. stack' = [Front(stack) EXCEPT ![Len(stack) - 1] = merge_states(@, stack[Len(stack)])]
    BY DEF HMerge, merge, Top
  <1>4. Linked(stack', Front(saved), Now)
    <2>1. Linked([Front(stack) EXCEPT ![Len(stack) - 1] = merge_states(@, stack[Len(stack)])],
                 Front(saved), Now)
      BY <1>1, <1>2, MergeTopLinked
    <2>2. QED
      BY <2>1, <1>3
  <1>5. stack' \in Seq(UndoStates) /\ Len(stack') = n - 1
    <2>1. /\ Front(stack) \in Seq(UndoStates) /\ Len(Front(stack)) = n - 1
          /\ Front(stack)[n - 1] = stack[n - 1]
      BY <1>1, FrontFacts
    <2>2. r \in UndoStates
      <3>1. stack[n - 1] \in UndoStates /\ stack[n] \in UndoStates
        BY <1>1, ElementOfSeq
      <3>2. QED
        BY <3>1 DEF merge_states, UndoStates
    <2>3. stack' = [Front(stack) EXCEPT ![n - 1] = r]
      BY <1>3, <2>1
    <2> HIDE DEF r
    <2>4. QED
      BY <2>1, <2>2, <2>3, <1>1, ExceptSeq
  <1>6. /\ Front(saved) \in Seq(Snapshots) /\ Len(Front(saved)) = n - 1
        /\ \A k \in 1..(n - 1) : Front(saved)[k] = saved[k]
    BY <1>1, <1>2, FrontFacts
  <1>7. TypeOK'
    BY <1>1, <1>5, <1>6 DEF IInv, TypeOK
  <1>8. LevelsLink'
    BY <1>1, <1>4 DEF LevelsLink, Now
  <1>9. IdsNeverClash'
    BY <1>1, <1>2, <1>6 DEF IdsNeverClash, IdsBelowNext, Now
  <1>10. SessionsHaveStates' /\ NothingWhileDisabled'
    BY <1>1, <1>5 DEF IInv, SessionsHaveStates, NothingWhileDisabled
  <1>11. QED
    BY <1>7, <1>8, <1>9, <1>10 DEF IInv

\* pop_commit() of the top level.
LEMMA PopCommitStep ==
  ASSUME IInv, HPopCommit
  PROVE  IInv'
  <1>1. /\ status = "ok" /\ active_sessions = 0 /\ active_sessions' = 0
        /\ disabled' = disabled /\ ~disabled /\ stack # <<>>
        /\ Top \in UndoStates
    BY TopFacts DEF HPopCommit, pop_commit, IInv, NothingWhileDisabled
  <1>2. CASE revert_throws(Top)
    <2>1. PICK S \in SUBSET {i \in Ids : Top.old_values[i] # Absent /\ objects[i] # Absent} :
            objects' = [i \in Ids |-> IF i \in S THEN Top.old_values[i] ELSE objects[i]]
      BY <1>2 DEF HPopCommit, pop_commit
    <2>2. objects' \in [Ids -> Contents]
      BY <1>1, <2>1 DEF UndoStates, IInv, TypeOK
    <2>3. status' = "corrupt" /\ saved' = saved /\ UNCHANGED <<next_id, stack>>
      BY <1>2 DEF HPopCommit, pop_commit
    <2>4. QED
      BY <1>1, <2>2, <2>3 DEF IInv, TypeOK, LevelsLink, IdsNeverClash, SessionsHaveStates,
                              NothingWhileDisabled
  <1>3. CASE ~revert_throws(Top)
    <2>1. /\ objects' = reverted_objects(Top) /\ next_id' = reverted_next_id(Top)
          /\ stack' = Front(stack) /\ saved' = Front(saved) /\ status' = "ok"
      BY <1>1, <1>3 DEF HPopCommit, pop_commit
    <2>2. /\ objects' \in [Ids -> Contents] /\ next_id' \in [Indexes -> 0..MaxId]
          /\ IdsBelowNext(Now')
          /\ Front(stack) \in Seq(UndoStates) /\ Front(saved) \in Seq(Snapshots)
          /\ Linked(Front(stack), Front(saved), Now')
          /\ \A k \in 1..Len(Front(saved)) : IdsBelowNext(Front(saved)[k])
      BY <1>1, <1>3, <2>1, RollbackFacts
    <2>3. TypeOK'
      BY <1>1, <2>1, <2>2 DEF IInv, TypeOK
    <2>4. LevelsLink' /\ IdsNeverClash'
      BY <2>1, <2>2 DEF LevelsLink, IdsNeverClash
    <2>5. SessionsHaveStates'
      BY <1>1, <2>1, <2>2 DEF SessionsHaveStates
    <2>6. QED
      BY <1>1, <2>3, <2>4, <2>5 DEF IInv, NothingWhileDisabled
  <1>4. QED
    BY <1>2, <1>3

\* Every step keeps the inductive invariant.
LEMMA Inductive ==
  ASSUME IInv, [HNext]_hvars
  PROVE  IInv'
  <1>1. ASSUME NEW x \in Indexes, NEW v \in Values, HCreate(x, v)
        PROVE  IInv'
    BY <1>1, CreateStep
  <1>2. ASSUME NEW id \in Ids, NEW v \in Values, HModify(id, v)
        PROVE  IInv'
    BY <1>2, ModifyStep
  <1>3. ASSUME NEW id \in Ids, HRemove(id)
        PROVE  IInv'
    BY <1>3, RemoveStep
  <1>4. CASE HDisable
    BY <1>4 DEF HDisable, disable, IInv, TypeOK, LevelsLink, IdsNeverClash,
                SessionsHaveStates, NothingWhileDisabled, Linked, Now
  <1>5. CASE HEnable
    BY <1>5 DEF HEnable, enable, IInv, TypeOK, LevelsLink, IdsNeverClash,
                SessionsHaveStates, NothingWhileDisabled, Now
  <1>6. CASE HStart
    BY <1>6, StartStep
  <1>7. CASE HUndo
    BY <1>7, UndoStep
  <1>8. CASE HMerge
    BY <1>8, MergeStep
  <1>9. CASE HCommit
    BY <1>9 DEF HCommit, commit, IInv, TypeOK, LevelsLink, IdsNeverClash,
                SessionsHaveStates, NothingWhileDisabled, Now
  <1>10. CASE HPopCommit
    BY <1>10, PopCommitStep
  <1>11. CASE UNCHANGED hvars
    BY <1>11 DEF hvars, IInv, TypeOK, LevelsLink, IdsNeverClash,
                 SessionsHaveStates, NothingWhileDisabled, Now
  <1>12. QED
    BY <1>1, <1>2, <1>3, <1>4, <1>5, <1>6, <1>7, <1>8, <1>9, <1>10, <1>11 DEF HNext

\* The empty database satisfies the invariant.
LEMMA Initial ==
  ASSUME HInit
  PROVE  IInv
  <1>1. TypeOK
    <2>1. stack \in Seq(UndoStates) /\ saved \in Seq(Snapshots)
      BY EmptySeq DEF HInit, Init
    <2>2. objects \in [Ids -> Contents] /\ next_id \in [Indexes -> 0..MaxId]
      BY ConstantsAssumption DEF HInit, Init, Contents
    <2>3. QED
      BY <2>1, <2>2 DEF HInit, Init, TypeOK
  <1>2. LevelsLink
    BY DEF HInit, Init, LevelsLink, Linked
  <1>3. IdsNeverClash
    BY DEF HInit, Init, IdsNeverClash, IdsBelowNext, Now
  <1>4. SessionsHaveStates /\ NothingWhileDisabled
    BY DEF HInit, Init, SessionsHaveStates, NothingWhileDisabled
  <1>5. QED
    BY <1>1, <1>2, <1>3, <1>4 DEF IInv

\* The inductive invariant holds in every reachable state.
THEOREM Invariant == HSpec => []IInv
  <1>1. HInit => IInv
    BY Initial
  <1>2. IInv /\ [HNext]_hvars => IInv'
    BY Inductive
  <1>3. QED
    BY <1>1, <1>2, PTL DEF HSpec

\* Whatever the operations of object_database and undo_database do, in any
\* order, every variable keeps its type.
THEOREM TypeCorrect == HSpec => []TypeOK
  <1>1. IInv => TypeOK
    BY DEF IInv
  <1>2. QED
    BY <1>1, Invariant, PTL

\* Every undo state is an exact record of the changes made between its opening
\* and the opening of the next one, however sessions nest, merge and commit.
THEOREM RecordsAreExact == HSpec => []LevelsLink
  <1>1. IInv => LevelsLink
    BY DEF IInv
  <1>2. QED
    BY <1>1, Invariant, PTL

\* No id is handed out while an object of that id is alive, although undo
\* moves the counters back.
THEOREM IdsAreFresh == HSpec => []IdsNeverClash
  <1>1. IInv => IdsNeverClash
    BY DEF IInv
  <1>2. QED
    BY <1>1, Invariant, PTL

\* Every session alive has an undo state of its own.
THEOREM SessionsRollBack == HSpec => []SessionsHaveStates
  <1>1. IInv => SessionsHaveStates
    BY DEF IInv
  <1>2. QED
    BY <1>1, Invariant, PTL

----------------------------------------------------------------------------
(* When undoing fails.                                                     *)

\* With exact records, the top level can only throw on an object merge() left
\* in both of its maps.
LEMMA OnlyPoisonThrows ==
  ASSUME IInv, status = "ok", stack # <<>>, revert_throws(Top)
  PROVE  Poisoned(Top)
  BY TopFacts, ThrowsIfPoisoned

\* A step that fails fails on such an object, and nothing happens after it.
LEMMA FailureStep ==
  ASSUME IInv, FailsOnlyIfPoisoned, [HNext]_hvars
  PROVE  FailsOnlyIfPoisoned'
  <1>1. IInv'
    BY Inductive
  <1>2. (status = "ok" /\ stack # <<>> /\ revert_throws(Top) => Poisoned(Top))'
    <2>1. (IInv /\ status = "ok" /\ stack # <<>> /\ revert_throws(Top) => Poisoned(Top))'
      BY OnlyPoisonThrows, PTL
    <2>2. QED
      BY <1>1, <2>1
  <1>3. (status # "ok" => Poisoned(Top))'
    <2>1. CASE UNCHANGED hvars
      BY <2>1 DEF hvars, FailsOnlyIfPoisoned, Top, Poisoned
    <2>2. CASE HUndo
      <3>1. status = "ok" /\ stack # <<>>
        BY <2>2 DEF HUndo, undo, IInv, TypeOK, SessionsHaveStates
      <3>2. CASE revert_throws(Top)
        <4>1. stack' = stack
          BY <2>2, <3>2 DEF HUndo, undo
        <4>2. QED
          BY <3>1, <3>2, <4>1, OnlyPoisonThrows DEF Top, Poisoned
      <3>3. CASE ~revert_throws(Top)
        BY <2>2, <3>3, <3>1 DEF HUndo, undo
      <3>4. QED
        BY <3>2, <3>3
    <2>3. CASE HPopCommit
      <3>1. status = "ok" /\ stack # <<>>
        BY <2>3 DEF HPopCommit, pop_commit
      <3>2. CASE revert_throws(Top)
        <4>1. stack' = stack
          BY <2>3, <3>2 DEF HPopCommit, pop_commit
        <4>2. QED
          BY <3>1, <3>2, <4>1, OnlyPoisonThrows DEF Top, Poisoned
      <3>3. CASE ~revert_throws(Top)
        BY <2>3, <3>3, <3>1 DEF HPopCommit, pop_commit
      <3>4. QED
        BY <3>2, <3>3
    <2>4. CASE HNext /\ ~HUndo /\ ~HPopCommit
      <3>1. status' = "ok"
        BY <2>4 DEF HNext, HCreate, create, HModify, modify, HRemove, remove, HDisable,
                    disable, HEnable, enable, HStart, start_undo_session, HMerge, merge,
                    HCommit, commit
      <3>2. QED
        BY <3>1
    <2>5. QED
      BY <2>1, <2>2, <2>3, <2>4
  <1>4. QED
    BY <1>2, <1>3 DEF FailsOnlyIfPoisoned

\* undo() and pop_commit() fail for one reason only: an object that an outer
\* session had modified and an inner session removed before it was merged.
THEOREM FailuresExplained == HSpec => []FailsOnlyIfPoisoned
  <1>1. HInit => FailsOnlyIfPoisoned
    BY DEF HInit, Init, FailsOnlyIfPoisoned
  <1>2. IInv /\ FailsOnlyIfPoisoned /\ [HNext]_hvars => FailsOnlyIfPoisoned'
    BY FailureStep
  <1>3. QED
    BY <1>1, <1>2, Invariant, PTL DEF HSpec

----------------------------------------------------------------------------
(* The undo database implements a stack of snapshots.                      *)

\* A change of the database is an update of the store.
LEMMA RecordRefines ==
  ASSUME IInv, IInv', status = "ok", status' = "ok", saved' = SavedOpened
  PROVE  Abstract!Next
  <1>1. Now' \in Snapshots
    BY DEF IInv, TypeOK, Now, Snapshots
  <1>2. saved' = saved \/ (saved = <<>> /\ saved' = <<Now>>)
    <2>1. stack = <<>> => saved = <<>>
      BY EmptySeq DEF IInv, LevelsLink, Linked, TypeOK
    <2>2. QED
      BY <2>1 DEF SavedOpened
  <1>3. QED
    BY <1>1, <1>2 DEF Abstract!Next, Abstract!Update

\* Every step is a step of the snapshot store or changes none of it.
LEMMA StepRefines ==
  ASSUME IInv, [HNext]_hvars
  PROVE  [Abstract!Next]_(Abstract!vars)
  <1>0. IInv'
    BY Inductive
  <1>1. ASSUME NEW x \in Indexes, NEW v \in Values, HCreate(x, v)
        PROVE  Abstract!Next
    BY <1>0, <1>1, RecordRefines DEF HCreate, create
  <1>2. ASSUME NEW id \in Ids, NEW v \in Values, HModify(id, v)
        PROVE  Abstract!Next
    BY <1>0, <1>2, RecordRefines DEF HModify, modify
  <1>3. ASSUME NEW id \in Ids, HRemove(id)
        PROVE  Abstract!Next
    BY <1>0, <1>3, RecordRefines DEF HRemove, remove
  <1>4. CASE HDisable \/ HEnable \/ HCommit \/ UNCHANGED hvars
    BY <1>4 DEF HDisable, disable, HEnable, enable, HCommit, commit, hvars, Now,
                Abstract!vars
  <1>5. CASE HStart
    <2>1. Now' = Now /\ status = "ok" /\ status' = "ok"
      BY <1>5 DEF HStart, start_undo_session, Now
    <2>2. CASE Len(stack) = MaxSize
      <3>1. saved # <<>>
        BY <2>1, <2>2, ConstantsAssumption DEF IInv, LevelsLink, Linked
      <3>2. saved' = Append(Tail(saved), Now)
        BY <1>5, <2>2 DEF HStart
      <3>3. QED
        BY <2>1, <3>1, <3>2 DEF Abstract!Next, Abstract!BeginDroppingOldest
    <2>3. CASE Len(stack) # MaxSize
      <3>1. saved' = Append(saved, Now)
        BY <1>5, <2>3 DEF HStart
      <3>2. QED
        BY <2>1, <3>1 DEF Abstract!Next, Abstract!Begin
    <2>4. QED
      BY <2>2, <2>3
  <1>6. CASE HUndo
    <2>1. status = "ok" /\ stack # <<>>
      BY <1>6 DEF HUndo, undo, IInv, TypeOK, SessionsHaveStates
    <2>2. Len(saved) = Len(stack) /\ saved # <<>>
      BY <2>1, TopFacts
    <2>3. CASE revert_throws(Top)
      <3>1. status' = "terminated" /\ saved' = saved /\ Now' \in Snapshots
        BY <1>0, <1>6, <2>3 DEF HUndo, undo, IInv, TypeOK, Now, Snapshots
      <3>2. QED
        BY <2>1, <2>2, <3>1 DEF Abstract!Next, Abstract!Fail
    <2>4. CASE ~revert_throws(Top)
      <3>1. /\ status' = "ok"
            /\ objects' = reverted_objects(Top) /\ next_id' = reverted_next_id(Top)
            /\ saved' = IF Len(stack) = 1 THEN <<Now'>> ELSE Front(saved)
        BY <1>6, <2>1, <2>4 DEF HUndo, undo
      <3>2. Now' = saved[Len(saved)]
        BY <2>1, <2>2, <2>4, <3>1, RollbackFacts
      <3>3. saved' = Front(saved) \/ (Len(saved) = 1 /\ saved' = <<Now'>>)
        BY <2>2, <3>1
      <3>4. QED
        BY <2>1, <2>2, <3>1, <3>2, <3>3
           DEF Abstract!Next, Abstract!Rollback, Abstract!Last, Abstract!ButLast, Front
    <2>5. QED
      BY <2>3, <2>4
  <1>7. CASE HMerge
    <2>1. /\ status = "ok" /\ status' = "ok" /\ Now' = Now /\ stack # <<>>
          /\ Len(stack) >= 2 /\ saved' = Front(saved)
      BY <1>7 DEF HMerge, merge, Now, IInv, TypeOK
    <2>2. Len(saved) = Len(stack)
      BY <2>1, TopFacts
    <2>3. QED
      BY <2>1, <2>2 DEF Abstract!Next, Abstract!Merge, Abstract!ButLast, Front
  <1>8. CASE HPopCommit
    <2>1. status = "ok" /\ stack # <<>>
      BY <1>8 DEF HPopCommit, pop_commit
    <2>2. Len(saved) = Len(stack) /\ saved # <<>>
      BY <2>1, TopFacts
    <2>3. CASE revert_throws(Top)
      <3>1. status' = "corrupt" /\ saved' = saved /\ Now' \in Snapshots
        BY <1>0, <1>8, <2>3 DEF HPopCommit, pop_commit, IInv, TypeOK, Now, Snapshots
      <3>2. QED
        BY <2>1, <2>2, <3>1 DEF Abstract!Next, Abstract!Fail
    <2>4. CASE ~revert_throws(Top)
      <3>1. /\ status' = "ok" /\ saved' = Front(saved)
            /\ objects' = reverted_objects(Top) /\ next_id' = reverted_next_id(Top)
        BY <1>8, <2>1, <2>4 DEF HPopCommit, pop_commit
      <3>2. Now' = saved[Len(saved)]
        BY <2>1, <2>2, <2>4, <3>1, RollbackFacts
      <3>3. QED
        BY <2>1, <2>2, <3>1, <3>2
           DEF Abstract!Next, Abstract!Rollback, Abstract!Last, Abstract!ButLast, Front
    <2>5. QED
      BY <2>3, <2>4
  <1>9. QED
    BY <1>1, <1>2, <1>3, <1>4, <1>5, <1>6, <1>7, <1>8 DEF HNext

\* Undoing a level, by a session or by pop_commit, restores exactly the
\* database of the time the level was opened: the undo database, which only
\* records differences, implements a stack of whole snapshots.
THEOREM Refinement == HSpec => ImplementsSnapshots
  <1>1. HInit => Abstract!Init
    <2>1. ASSUME HInit PROVE Abstract!Init
      <3>1. Now \in Snapshots
        BY <2>1, Initial DEF IInv, TypeOK, Now, Snapshots
      <3>2. QED
        BY <2>1, <3>1 DEF HInit, Init, Abstract!Init
    <2>2. QED
      BY <2>1
  <1>2. IInv /\ [HNext]_hvars => [Abstract!Next]_(Abstract!vars)
    BY StepRefines
  <1>3. QED
    BY <1>1, <1>2, Invariant, PTL DEF HSpec, ImplementsSnapshots, Abstract!Spec
=============================================================================
