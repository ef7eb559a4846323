----------------------------- MODULE ChainDatabase -----------------------------
(***************************************************************************)
(* One node's chain: the fork database, the block log on disk, the object  *)
(* database with its undo levels, the pending block, and the application   *)
(* that opens, closes and replays them.                                    *)
(*                                                                         *)
(* The object database is reduced to its head block, the transactions it   *)
(* has applied, in order, and the ones it would recognise; an undo level   *)
(* is a whole snapshot of it, as UndoProofs shows of the undo database.    *)
(* push_block runs on one thread and is never interleaved with another     *)
(* call, but the process can stop between any two of its writes to disk:   *)
(* each loop of push_block is therefore a sequence of steps, each with at  *)
(* most one write.                                                         *)
(***************************************************************************)
EXTENDS Integers, Sequences, FiniteSets, SequencesExt

CONSTANTS
  Blocks,      \* every block that can be signed
  Genesis,     \* the all-zero block id: no block yet
  Prev,        \* signed_block::previous
  Trxs,        \* signed_block::transactions
  Unsound,     \* blocks whose header or operations never validate
  Txs,         \* transactions that can be pushed on their own
  Conflicts,   \* pairs <<u, t>>: t does not apply where u has been applied
  MaxTrxs,     \* maximum_block_size, in transactions
  MaxUndo,     \* undo_database::_max_size
  MaxQueue,    \* bound: transactions pushed into one pending block
  MaxRestarts, \* bound: times the process is started again
  ForkWindow,  \* depth at which the fork database forgets blocks (1024)
  None         \* no block, no saved state

Ids == Blocks \cup {Genesis}

\* An id is a hash over the previous one: going back ends at a first block.
ASSUME ConstantsAssumption ==
  /\ Genesis \notin Blocks /\ None \notin Ids
  /\ Prev \in [Blocks -> Ids]
  /\ \A S \in SUBSET Blocks : S # {} => \E b \in S : Prev[b] \notin S
  /\ \A b \in Blocks : Trxs[b] \in Seq(ToSet(Trxs[b]))
  /\ MaxTrxs \in Nat /\ MaxRestarts \in Nat /\ MaxQueue \in Nat
  /\ MaxUndo \in Nat \ {0, 1, 2} /\ ForkWindow \in Nat \ {0}

\* block_num(): an id carries its own height.
Num[b \in Ids] == IF b = Genesis THEN 0 ELSE Num[Prev[b]] + 1

\* A block with everything it builds on.
Path[b \in Ids] == IF b = Genesis THEN {} ELSE {b} \cup Path[Prev[b]]

VARIABLES
  db,               \* the object database: head block, transactions applied, in
                    \* order, and transactions in transaction_index
  levels,           \* the undo database: the object database at each level
  active_sessions,  \* undo_database::_active_sessions
  pending_session,  \* _pending_block_session is set
  previous,         \* _pending_block.previous
  transactions,     \* _pending_block.transactions
  fork_index,       \* fork_database::_index
  linked,           \* blocks of the index whose prev pointer can be locked
  fork_head,        \* fork_database::_head
  disk,             \* _block_id_to_block: stored blocks by the id they are under
  stored,           \* the object database saved by the last close()
  clean,            \* no blockchain/dblock marker on disk
  task,             \* where the thread is in push_block or reindex
  restarts,         \* times the process was started again, up to MaxRestarts
  outcome           \* how the last push_block ended, the pending transactions it
                    \* kept, the object database and the pending block's
                    \* previous that it started from

undo_vars == <<db, levels, active_sessions, pending_session>>
pending_vars == <<previous, transactions>>
fork_vars == <<fork_index, linked, fork_head>>
disk_vars == <<disk, stored, clean, restarts>>
vars == <<undo_vars, pending_vars, fork_vars, disk_vars, task, outcome>>

GenesisState == [head |-> Genesis, applied |-> <<>>, recent |-> {}]
Idle == [phase |-> "idle", mode |-> "none", new |-> None,
         todo |-> <<>>, second |-> <<>>, old_trx |-> <<>>, keys |-> {}]
Down == [Idle EXCEPT !.phase = "down"]

Ascending(S) ==
  [i \in 1..Cardinality(S) |->
     CHOOSE b \in S : Cardinality({c \in S : Num[c] <= Num[b]}) = i]

----------------------------------------------------------------------------
(* Undo levels.                                                            *)

\* start_undo_session(): a level opened at state d.
start_undo_session(l, d) == Append(IF Len(l) = MaxUndo THEN Tail(l) ELSE l, d)

\* undo(): the level below the top, or an empty one where the top was opened.
undone(l) == IF Len(l) = 1 THEN l ELSE Front(l)

\* Resetting an unset _pending_block_session does nothing.
reset_db == IF pending_session THEN Last(levels) ELSE db
reset_levels == IF pending_session THEN undone(levels) ELSE levels
reset_active == IF pending_session THEN active_sessions - 1 ELSE active_sessions

----------------------------------------------------------------------------
(* Transactions.                                                           *)

\* apply_transaction(): the duplicate check, then the operations.
applies(t, d, skip_dupe) ==
  /\ skip_dupe \/ t \notin d.recent
  /\ \A u \in ToSet(d.applied) : <<u, t>> \notin Conflicts

\* Mutant: an applied transaction is never recorded.
with_trxs_unrecorded(d, trxs, skip_dupe) == [d EXCEPT !.applied = @ \o trxs]

\* Without the duplicate check, the transaction is not recorded either.
with_trxs(d, trxs, skip_dupe) ==
  [d EXCEPT !.applied = @ \o trxs,
            !.recent = IF skip_dupe THEN @ ELSE @ \cup ToSet(trxs)]

\* Mutant: a transaction that does not apply is queued all the same.
push_transaction_vars_queued(t, queue, skip_size) ==
  LET base == IF pending_session THEN levels ELSE start_undo_session(levels, db) IN
  /\ levels' = Front(start_undo_session(base, db))
  /\ active_sessions' = IF pending_session THEN active_sessions ELSE active_sessions + 1
  /\ pending_session' = TRUE
  /\ transactions' = Append(queue, t)
  /\ db' = IF applies(t, db, FALSE) /\ (skip_size \/ Len(queue) < MaxTrxs)
             THEN with_trxs(db, <<t>>, FALSE) ELSE db

\* push_transaction(): the change is made in a session of its own, merged into
\* the pending one; a throw undoes that session only.  The transaction is put
\* in the pending block before the size check.
push_transaction_vars(t, queue, skip_size) ==
  LET base == IF pending_session THEN levels ELSE start_undo_session(levels, db) IN
  /\ levels' = Front(start_undo_session(base, db))
  /\ active_sessions' = IF pending_session THEN active_sessions ELSE active_sessions + 1
  /\ pending_session' = TRUE
  /\ transactions' = IF applies(t, db, FALSE) THEN Append(queue, t) ELSE queue
  /\ db' = IF applies(t, db, FALSE) /\ (skip_size \/ Len(queue) < MaxTrxs)
             THEN with_trxs(db, <<t>>, FALSE) ELSE db

push_transaction_throws(t, queue) ==
  ~(applies(t, db, FALSE) /\ Len(queue) < MaxTrxs)

push_transaction(t, skip_size) ==
  /\ task.phase = "idle"
  /\ Len(transactions) < MaxQueue
  /\ push_transaction_vars(t, transactions, skip_size)
  /\ UNCHANGED <<previous, fork_vars, disk_vars, task, outcome>>

----------------------------------------------------------------------------
(* The fork database.                                                      *)

Children(S) == {b \in Blocks : Prev[b] \in S}

\* fork_database::push_block: the previous block must be known, unless the
\* database is empty or the block is a first block.
fork_links(b) == fork_head # None /\ Prev[b] # Genesis
fork_accepts(b) == fork_links(b) => Prev[b] \in fork_index
fork_raises(b) == fork_head # None /\ Num[b] > Num[fork_head]

\* What the new height erases.
fork_expired(b) ==
  IF fork_raises(b) THEN {c \in fork_index : Num[c] = Num[b] - ForkWindow} ELSE {}

pushed_head(b) == IF fork_head = None \/ fork_raises(b) THEN b ELSE fork_head
pushed_index(b) == (fork_index \cup {b}) \ fork_expired(b)
pushed_linked(b) ==
  (linked \cup (IF fork_links(b) THEN {b} ELSE {}))
    \ (fork_expired(b) \cup Children(fork_expired(b)))

fork_push(b) ==
  /\ fork_index' = pushed_index(b)
  /\ linked' = pushed_linked(b)
  /\ fork_head' = pushed_head(b)

\* fork_database::remove: the children's prev pointers die with the item.
fork_remove(S) ==
  /\ fork_index' = fork_index \ S
  /\ linked' = linked \ (S \cup Children(S))

\* fork_database::pop_block.
popped_head == IF fork_head \in linked THEN Prev[fork_head] ELSE None

\* fetch_branch_from(h, p): the two branches down to the blocks that share
\* their previous block.  When p is below h, p itself ends both of them.
first_branch(h, p) ==
  (Path[h] \ Path[p]) \cup (IF p \in Path[h] THEN {p} ELSE {})
second_branch(h, p) ==
  (Path[p] \ Path[h]) \cup (IF p \in Path[h] THEN {p} ELSE {})

\* Both ends are in the index and every prev pointer on the way can be locked.
branches_found(h, p, index, links) ==
  /\ h \in index /\ p \in index
  /\ first_branch(h, p) \ {Ascending(first_branch(h, p))[1]} \subseteq links
  /\ second_branch(h, p) \ {Ascending(second_branch(h, p))[1]} \subseteq links

----------------------------------------------------------------------------
(* push_block.                                                             *)

is_known_block(b) == b \in fork_index \/ b \in DOMAIN disk

Returned(queue, r) ==
  [result |-> r, queue |-> queue, from |-> reset_db, previous |-> previous]
Started(queue) == Returned(queue, "running")

\* The fork database refuses the block.  queue is what the caller left in the
\* pending block.
push_block_refused(b, queue) ==
  /\ task.phase = "idle"
  /\ ~fork_accepts(b)
  /\ transactions' = queue
  /\ outcome' = Returned(queue, "threw")
  /\ UNCHANGED <<undo_vars, previous, fork_vars, disk_vars, task>>

\* Mutant: the pending session is forgotten instead of undone.
push_block_linear_dirty(b) ==
  /\ task.phase = "idle"
  /\ fork_accepts(b)
  /\ Prev[pushed_head(b)] = db.head
  /\ fork_push(b)
  /\ transactions' = <<>>
  /\ active_sessions' = reset_active /\ pending_session' = FALSE
  /\ task' = [Idle EXCEPT !.phase = "apply", !.mode = "linear", !.new = b, !.todo = <<b>>]
  /\ outcome' = Started(<<>>)
  /\ UNCHANGED <<db, levels, previous, disk_vars>>

\* The longest chain builds off the head: the block is applied to it, whether
\* or not it is the block that does.
push_block_linear(b) ==
  /\ task.phase = "idle"
  /\ fork_accepts(b)
  /\ Prev[pushed_head(b)] = db.head
  /\ fork_push(b)
  /\ transactions' = <<>>
  /\ db' = reset_db /\ levels' = reset_levels
  /\ active_sessions' = reset_active /\ pending_session' = FALSE
  /\ task' = [Idle EXCEPT !.phase = "apply", !.mode = "linear", !.new = b, !.todo = <<b>>]
  /\ outcome' = Started(<<>>)
  /\ UNCHANGED <<previous, disk_vars>>

\* The longest chain is another one, and is no higher than the head.
push_block_stale(b, queue) ==
  /\ task.phase = "idle"
  /\ fork_accepts(b)
  /\ Prev[pushed_head(b)] # db.head
  /\ Num[pushed_head(b)] <= Num[db.head]
  /\ fork_push(b)
  /\ transactions' = queue
  /\ outcome' = Returned(queue, "false")
  /\ UNCHANGED <<undo_vars, previous, disk_vars, task>>

\* Mutant: a chain as high as the current one is switched to.
push_block_switch_equal(b, queue) ==
  LET h == pushed_head(b) IN
  /\ task.phase = "idle"
  /\ fork_accepts(b)
  /\ Prev[h] # db.head
  /\ Num[h] >= Num[db.head] /\ h # db.head
  /\ fork_push(b)
  /\ transactions' = queue
  /\ IF branches_found(h, previous, pushed_index(b), pushed_linked(b))
       THEN /\ task' = [Idle EXCEPT !.phase = "pop", !.mode = "switch", !.new = b,
                                    !.todo = Ascending(first_branch(h, previous)),
                                    !.second = Ascending(second_branch(h, previous))]
            /\ outcome' = Started(queue)
       ELSE /\ UNCHANGED task
            /\ outcome' = Returned(queue, "threw")
  /\ UNCHANGED <<undo_vars, previous, disk_vars>>

\* The longest chain is another one: leave the current one for it, if the
\* branches can be found.
push_block_switch(b, queue) ==
  LET h == pushed_head(b) IN
  /\ task.phase = "idle"
  /\ fork_accepts(b)
  /\ Prev[h] # db.head
  /\ Num[h] > Num[db.head]
  /\ fork_push(b)
  /\ transactions' = queue
  /\ IF branches_found(h, previous, pushed_index(b), pushed_linked(b))
       THEN /\ task' = [Idle EXCEPT !.phase = "pop", !.mode = "switch", !.new = b,
                                    !.todo = Ascending(first_branch(h, previous)),
                                    !.second = Ascending(second_branch(h, previous))]
            /\ outcome' = Started(queue)
       ELSE /\ UNCHANGED task
            /\ outcome' = Returned(queue, "threw")
  /\ UNCHANGED <<undo_vars, previous, disk_vars>>

push_block(b, queue) ==
  \/ push_block_refused(b, queue)
  \/ push_block_linear(b)
  \/ push_block_stale(b, queue)
  \/ push_block_switch(b, queue)

\* handle_block: the network fetches only what has_item() does not know.
handle_block(b) == ~is_known_block(b) /\ push_block(b, transactions)

\* The block produced holds the pending transactions, which are then dropped.
generate_block(b) ==
  /\ Len(transactions) <= MaxTrxs
  /\ b \notin Unsound
  /\ Prev[b] = previous /\ Trxs[b] = transactions
  /\ ~is_known_block(b)
  /\ push_block(b, <<>>)

----------------------------------------------------------------------------
(* The steps of push_block.                                                *)

Ended(r) == task' = Idle /\ outcome' = [outcome EXCEPT !.result = r]

\* Mutant: the level of the block is not undone.
pop_block_no_undo ==
  /\ task.phase \in {"pop", "unwind"}
  /\ db.head # Prev[task.second[1]]
  /\ disk' = [k \in DOMAIN disk \ {previous} |-> disk[k]]
  /\ pending_session' = FALSE
  /\ active_sessions' = reset_active
  /\ db' = reset_db
  /\ levels' = reset_levels
  /\ previous' = reset_db.head
  /\ fork_head' = popped_head
  /\ UNCHANGED <<transactions, fork_index, linked, stored, clean, restarts, task, outcome>>

\* pop_block(): drop the pending session, take the block off the disk, undo
\* its level, then step the fork database back.  pop_commit throws when no
\* level is left or a session is alive.
pop_block ==
  /\ task.phase \in {"pop", "unwind"}
  /\ db.head # Prev[task.second[1]]
  /\ disk' = [k \in DOMAIN disk \ {previous} |-> disk[k]]
  /\ pending_session' = FALSE
  /\ active_sessions' = reset_active
  /\ IF reset_active = 0 /\ reset_levels # <<>>
       THEN /\ db' = Last(reset_levels)
            /\ levels' = Front(reset_levels)
            /\ previous' = Last(reset_levels).head
            /\ fork_head' = popped_head
            /\ UNCHANGED <<task, outcome>>
       ELSE /\ db' = reset_db
            /\ levels' = reset_levels
            /\ Ended("threw")
            /\ UNCHANGED <<previous, fork_head>>
  /\ UNCHANGED <<transactions, fork_index, linked, stored, clean, restarts>>

\* Mutant: the old branch is not applied again.
pops_done_no_restore ==
  /\ task.phase \in {"pop", "unwind"}
  /\ db.head = Prev[task.second[1]]
  /\ task' = IF task.phase = "pop" THEN [task EXCEPT !.phase = "apply"]
             ELSE [task EXCEPT !.phase = "apply", !.mode = "restore"]
  /\ UNCHANGED <<undo_vars, pending_vars, fork_vars, disk_vars, outcome>>

pops_done ==
  /\ task.phase \in {"pop", "unwind"}
  /\ db.head = Prev[task.second[1]]
  /\ task' = IF task.phase = "pop" THEN [task EXCEPT !.phase = "apply"]
             ELSE [task EXCEPT !.phase = "apply", !.mode = "restore", !.todo = task.second]
  /\ UNCHANGED <<undo_vars, pending_vars, fork_vars, disk_vars, outcome>>

\* Mutant: the branch that failed stays in the fork database, the old one goes.
block_failed_wrong_branch ==
  \/ /\ task.mode = "linear"
     /\ fork_remove({task.new})
     /\ Ended("threw")
     /\ UNCHANGED fork_head
  \/ /\ task.mode = "switch"
     /\ fork_remove(ToSet(task.second))
     /\ fork_head' = Last(task.second)
     /\ task' = [task EXCEPT !.phase = "unwind", !.todo = <<>>]
     /\ UNCHANGED outcome
  \/ /\ task.mode = "restore"
     /\ Ended("threw")
     /\ UNCHANGED fork_vars

\* What push_block does with an exception of apply_block.
block_failed ==
  \/ /\ task.mode = "linear"
     /\ fork_remove({task.new})
     /\ Ended("threw")
     /\ UNCHANGED fork_head
  \/ /\ task.mode = "switch"
     /\ fork_remove(ToSet(task.todo))
     /\ fork_head' = Last(task.second)
     /\ task' = [task EXCEPT !.phase = "unwind", !.todo = <<>>]
     /\ UNCHANGED outcome
  \/ /\ task.mode = "restore"
     /\ Ended("threw")
     /\ UNCHANGED fork_vars

\* validate_block_header, then the transactions in order.
block_applies(b, skip_dupe) ==
  /\ previous = Prev[b]
  /\ b \notin Unsound
  /\ \A i \in 1..Len(Trxs[b]) :
       applies(Trxs[b][i], with_trxs(db, SubSeq(Trxs[b], 1, i - 1), skip_dupe), skip_dupe)

block_applied(b, skip_dupe) == [with_trxs(db, Trxs[b], skip_dupe) EXCEPT !.head = b]

\* Mutant: no session is opened around the block.
apply_block_no_session ==
  LET b == task.todo[1] IN
  /\ task.phase = "apply" /\ task.todo # <<>>
  /\ IF block_applies(b, FALSE)
       THEN /\ db' = block_applied(b, FALSE)
            /\ levels' = start_undo_session(levels, db)
            /\ active_sessions' = active_sessions + 1
            /\ previous' = b
            /\ transactions' = <<>>
            /\ task' = [task EXCEPT !.phase = "repush", !.old_trx = transactions]
            /\ UNCHANGED <<fork_vars, outcome>>
       ELSE /\ db' = with_trxs(db, Trxs[b], FALSE)
            /\ block_failed
            /\ UNCHANGED <<levels, active_sessions, previous, transactions>>
  /\ UNCHANGED <<pending_session, disk_vars>>

\* apply_block up to update_pending_block, in a session of its own.
apply_block ==
  LET b == task.todo[1]
      opened == start_undo_session(levels, db)
  IN
  /\ task.phase = "apply" /\ task.todo # <<>>
  /\ IF block_applies(b, FALSE)
       THEN /\ db' = block_applied(b, FALSE)
            /\ levels' = opened
            /\ active_sessions' = active_sessions + 1
            /\ previous' = b
            /\ transactions' = <<>>
            /\ task' = [task EXCEPT !.phase = "repush", !.old_trx = transactions]
            /\ UNCHANGED <<fork_vars, outcome>>
       ELSE /\ levels' = undone(opened)
            /\ block_failed
            /\ UNCHANGED <<db, active_sessions, previous, transactions>>
  /\ UNCHANGED <<pending_session, disk_vars>>

\* update_pending_block(): one of the pending transactions pushed again.  When
\* it throws, the session of the block is destroyed, which undoes the top
\* level, whichever session opened it.
update_pending_block ==
  LET t == task.old_trx[1]
      base == IF pending_session THEN levels ELSE start_undo_session(levels, db)
      settled == Front(start_undo_session(base, db))
  IN
  /\ task.phase = "repush" /\ task.old_trx # <<>>
  /\ IF push_transaction_throws(t, transactions)
       THEN /\ transactions' = IF applies(t, db, FALSE) THEN Append(transactions, t) ELSE transactions
            /\ pending_session' = TRUE
            /\ db' = Last(settled)
            /\ levels' = undone(settled)
            /\ active_sessions' = IF pending_session THEN active_sessions - 1 ELSE active_sessions
            /\ block_failed
       ELSE /\ push_transaction_vars(t, transactions, FALSE)
            /\ task' = [task EXCEPT !.old_trx = Tail(@)]
            /\ UNCHANGED <<fork_vars, outcome>>
  /\ UNCHANGED <<previous, disk_vars>>

\* Mutant: the session of the block is never committed.
store_block_no_commit ==
  /\ task.phase = "repush" /\ task.old_trx = <<>>
  /\ disk' = [k \in DOMAIN disk \cup {task.new} |->
                IF k = task.new THEN task.todo[1] ELSE disk[k]]
  /\ task' = [task EXCEPT !.phase = "apply", !.todo = Tail(@)]
  /\ UNCHANGED <<undo_vars, pending_vars, fork_vars, stored, clean, restarts, outcome>>

\* The block goes to disk under the id of the block that was pushed, and its
\* session is committed.
store_block ==
  /\ task.phase = "repush" /\ task.old_trx = <<>>
  /\ disk' = [k \in DOMAIN disk \cup {task.new} |->
                IF k = task.new THEN task.todo[1] ELSE disk[k]]
  /\ active_sessions' = active_sessions - 1
  /\ task' = [task EXCEPT !.phase = "apply", !.todo = Tail(@)]
  /\ UNCHANGED <<db, levels, pending_session, pending_vars, fork_vars,
                 stored, clean, restarts, outcome>>

push_block_done ==
  /\ task.phase = "apply" /\ task.todo = <<>>
  /\ Ended(CASE task.mode = "linear" -> "false"
             [] task.mode = "switch" -> "true"
             [] task.mode = "restore" -> "threw")
  /\ UNCHANGED <<undo_vars, pending_vars, fork_vars, disk_vars>>

----------------------------------------------------------------------------
(* Starting and stopping.                                                  *)

\* What a process starts with: an object database and the last block on disk.
Loaded(d) ==
  /\ db' = d
  /\ levels' = <<>> /\ active_sessions' = 0 /\ pending_session' = FALSE
  /\ previous' = d.head /\ transactions' = <<>>
  /\ outcome' = [result |-> "none", queue |-> <<>>, from |-> d, previous |-> d.head]

\* start_block(): the block under the highest key, with no previous block.
fork_start ==
  \/ /\ DOMAIN disk = {}
     /\ fork_index' = {} /\ linked' = {} /\ fork_head' = None
  \/ \E k \in DOMAIN disk :
       /\ \A j \in DOMAIN disk : Num[j] <= Num[k]
       /\ fork_index' = {disk[k]} /\ linked' = {} /\ fork_head' = disk[k]

startup_open ==
  /\ task.phase = "down" /\ clean
  /\ Loaded(IF stored = None THEN GenesisState ELSE stored)
  /\ fork_start
  /\ task' = Idle
  /\ clean' = FALSE
  /\ UNCHANGED <<disk, stored, restarts>>

\* After an unclean shutdown, or on request, the object database is wiped and
\* every stored block is applied again.
startup_reindex ==
  /\ task.phase = "down"
  /\ Loaded(GenesisState)
  /\ fork_start
  /\ task' = [Idle EXCEPT !.phase = "replay", !.keys = DOMAIN disk]
  /\ clean' = FALSE
  /\ stored' = None
  /\ UNCHANGED <<disk, restarts>>

\* Mutant: only the first stored block is applied again.
reindex_block_first ==
  /\ task.phase = "replay"
  /\ \E k \in task.keys :
       /\ \A j \in task.keys : Num[k] <= Num[j]
       /\ db' = block_applied(disk[k], TRUE)
       /\ levels' = IF levels = <<>> THEN <<db>> ELSE levels
       /\ previous' = disk[k]
       /\ task' = [task EXCEPT !.keys = {}]
  /\ UNCHANGED <<active_sessions, pending_session, transactions, fork_vars, disk_vars, outcome>>

\* The next stored block by key, without the duplicate check: its transactions
\* do not go back into transaction_index.  No session is opened: the first change opens
\* a level that no session owns.  A block that does not apply ends the process
\* through the destructors, which save what there is and remove the marker.
reindex_block ==
  /\ task.phase = "replay"
  /\ \E k \in task.keys :
       /\ \A j \in task.keys : Num[k] <= Num[j]
       /\ IF block_applies(disk[k], TRUE)
            THEN /\ db' = block_applied(disk[k], TRUE)
                 /\ levels' = IF levels = <<>> THEN <<db>> ELSE levels
                 /\ previous' = disk[k]
                 /\ task' = [task EXCEPT !.keys = @ \ {k}]
                 /\ UNCHANGED <<fork_vars, stored, clean>>
            ELSE /\ stored' = db /\ clean' = TRUE
                 /\ fork_index' = {} /\ linked' = {} /\ fork_head' = None
                 /\ task' = Down
                 /\ UNCHANGED <<db, levels, previous>>
  /\ UNCHANGED <<active_sessions, pending_session, transactions, disk, restarts, outcome>>

reindex_done ==
  /\ task.phase = "replay" /\ task.keys = {}
  /\ task' = Idle
  /\ UNCHANGED <<undo_vars, pending_vars, fork_vars, disk_vars, outcome>>

\* --resync-blockchain: the stored blocks are deleted too.
wipe ==
  /\ task.phase = "down" /\ DOMAIN disk # {}
  /\ disk' = [k \in {} |-> None]
  /\ stored' = None
  /\ UNCHANGED <<undo_vars, pending_vars, fork_vars, clean, restarts, task, outcome>>

\* The memory of the process is gone.
Stopped ==
  /\ restarts < MaxRestarts
  /\ restarts' = restarts + 1
  /\ fork_index' = {} /\ linked' = {} /\ fork_head' = None
  /\ Loaded(GenesisState)
  /\ task' = Down

close ==
  /\ task.phase = "idle"
  /\ Stopped
  /\ stored' = reset_db
  /\ clean' = TRUE
  /\ UNCHANGED disk

crash ==
  /\ task.phase # "down"
  /\ Stopped
  /\ UNCHANGED <<disk, stored, clean>>

----------------------------------------------------------------------------
Init ==
  /\ db = GenesisState /\ levels = <<>> /\ active_sessions = 0 /\ pending_session = FALSE
  /\ previous = Genesis /\ transactions = <<>>
  /\ fork_index = {} /\ linked = {} /\ fork_head = None
  /\ disk = [k \in {} |-> None] /\ stored = None /\ clean = FALSE /\ restarts = 0
  /\ task = Idle
  /\ outcome = [result |-> "none", queue |-> <<>>,
                 from |-> GenesisState, previous |-> Genesis]

\* The steps that run to their end once push_block or reindex has begun.
Step ==
  \/ pop_block
  \/ pops_done
  \/ apply_block
  \/ update_pending_block
  \/ store_block
  \/ push_block_done
  \/ reindex_block
  \/ reindex_done

Next ==
  \/ \E t \in Txs, skip_size \in BOOLEAN : push_transaction(t, skip_size)
  \/ \E b \in Blocks : handle_block(b)
  \/ \E b \in Blocks : generate_block(b)
  \/ Step
  \/ startup_open
  \/ startup_reindex
  \/ wipe
  \/ close
  \/ crash

\* A call that has begun is not suspended: the thread goes on with it.
Spec == Init /\ [][Next]_vars /\ WF_vars(Step)
=============================================================================
