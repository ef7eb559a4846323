--------------------------- MODULE ChainProperties ---------------------------
(* What the chain database promises between two calls.                     *)
EXTENDS ChainDatabase

\* The transactions of the blocks up to b, in order.
ChainTrxs[b \in Ids] == IF b = Genesis THEN <<>> ELSE ChainTrxs[Prev[b]] \o Trxs[b]

\* d is what applying the blocks up to its head, and nothing else, produces.
IsReplay(d) == d.applied = ChainTrxs[d.head]

\* Between calls the object database without its pending session is exactly
\* what the blocks up to its head produce, and every undo level holds what the
\* blocks up to an ancestor produce: push_block, pop_block and reindex leave no
\* trace of abandoned blocks.
StateIsReplay ==
  task.phase = "idle" =>
    /\ IsReplay(reset_db)
    /\ \A k \in 1..Len(levels) :
         levels[k].head \in Path[db.head] \cup {Genesis} /\ IsReplay(levels[k])

\* transaction_object: "enable the detection of duplicate transactions.  When a
\* transaction is included in a block a transaction_object is added".  The index
\* holds every transaction of the chain, and none of an abandoned block, which
\* could never be included again.
DuplicatesDetected ==
  task.phase = "idle" => reset_db.recent = ToSet(ChainTrxs[reset_db.head])

\* push_block: "Push block may fail in which case every partial change is
\* unwound".  The object database is back where the call found it.  Pending
\* transactions, pushed again after each block, can stop the restoring half way;
\* the node is then still on the chain it was on.
FailedPushUnwinds ==
  task.phase = "idle" /\ outcome.result = "threw" =>
    IF outcome.queue = <<>> /\ outcome.previous = outcome.from.head
      THEN reset_db = outcome.from
      ELSE reset_db.head \in Path[outcome.previous] \cup {Genesis}

\* push_block never leaves the node on a shorter chain, and reports a switch
\* only to a higher one.
NeverShorter ==
  task.phase = "idle" /\ outcome.result \in {"false", "true"} =>
    /\ Num[db.head] >= Num[outcome.from.head]
    /\ outcome.result = "true" => Num[db.head] > Num[outcome.from.head]

\* The head block is in the fork database, without which no block that builds
\* on it would ever be accepted again.
HeadCanBeExtended == task.phase = "idle" => db.head \in fork_index \cup {Genesis}

\* Between calls the only session alive is the pending one, so that pop_commit
\* finds none when the next fork switch needs it.
SessionsSettled ==
  task.phase = "idle" => active_sessions = IF pending_session THEN 1 ELSE 0

\* The blocks on disk are the blocks of the chain, each under its own id, after
\* every push and after every restart: a replay finds the same head again.
DiskIsChain ==
  task.phase = "idle" =>
    DOMAIN disk = Path[db.head] /\ \A k \in DOMAIN disk : disk[k] = k

\* push_block: "After push block is successful the block is appended to the
\* chain database on disk."
BlocksOnDisk ==
  task.phase = "idle" /\ outcome.result \in {"false", "true"} =>
    \A b \in Path[db.head] : b \in DOMAIN disk /\ disk[b] = b

\* The pending block builds on the head, and the block that generate_block
\* would make of it, unless it is too large, applies there.
PendingBlockApplies ==
  task.phase = "idle" =>
    /\ previous = db.head /\ reset_db.head = db.head
    /\ Len(transactions) <= MaxTrxs =>
         \A i \in 1..Len(transactions) :
           applies(transactions[i], with_trxs(reset_db, SubSeq(transactions, 1, i - 1), FALSE), FALSE)

\* The loops of push_block and reindex end.
Working == task.phase \notin {"idle", "down"}
PushEnds == Working ~> ~Working
=============================================================================
