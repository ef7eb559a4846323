-------------------------- MODULE ScheduleProperties --------------------------
(* What the block schedule promises.                                       *)
EXTENDS BlockSchedule

\* Two nodes with the same head agree on every block of the present and the
\* coming slots, whatever they went through: a restart, a fork switch or a
\* block they failed to generate leave different pending timestamps behind
\* (open, pop_block, generate_block, update_pending_block), and the consensus
\* checks of validate_block_header must not depend on them.
NodesAgree ==
  \A m, n \in Nodes : node[m].blocks = node[n].blocks =>
    \A t \in clock..(MaxTime + 2 * interval(head(node[n]))), w \in Witnesses :
      LET h == [timestamp |-> t, witness |-> w] IN
      validate_block_header(node[m], h) <=> validate_block_header(node[n], h)

\* As long as every task runs and every block arrives in its second, every slot
\* has its block: block_production_loop asks the schedule for a time a second
\* ahead, wakes at the slots of the clock and waits for a chain that is not
\* stale, and still no slot is missed, through shuffles and maintenance.
HeadKeepsUp ==
  calm => \A n \in Nodes : clock - head(node[n]).time <= interval(head(node[n]))

\* Every block has arrived, or would be refused.
Settled ==
  \A n \in Nodes, b \in sent : b \in node[n].known \/ ~push_block(node[n], b).ok

\* Once the blocks have arrived, in whatever order and however late, the nodes
\* are on chains of one length: push_block leaves no node on a branch that the
\* others have outgrown.  A restarted node has lost the fork database it needs
\* for that, and one that failed to generate a block refuses earlier slots.
Converges ==
  restarts = 0 /\ oversized = 0 /\ Settled =>
    \A m, n \in Nodes : Len(node[m].blocks) = Len(node[n].blocks)

\* process_budget: "The code that generates the next maintenance time should
\* only produce a result in the future".  While no slot is missed, it does.
MaintenanceAhead ==
  calm => \A n \in Nodes : LET g == head(node[n]) IN
    g.last_budget_time # 0 => g.next_maintenance_time > g.last_budget_time

\* perform_chain_maintenance: "maintain the invariant that all timestamps are a
\* multiple of the interval".  Where the pending timestamp is none, no block is
\* valid and the chain stops.
TimestampsAligned ==
  \A n \in Nodes : node[n].pending % interval(head(node[n])) = 0
=============================================================================
