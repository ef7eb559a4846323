----------------------------- MODULE BlockSchedule -----------------------------
(***************************************************************************)
(* Who may sign a block and when: slots, the schedule of witnesses, block  *)
(* timestamps, chain maintenance and the change of the block interval, and *)
(* the witness plugin that produces blocks, on several nodes that send     *)
(* each other blocks.                                                      *)
(*                                                                         *)
(* A block is the sequence of headers up to its own: its id commits to     *)
(* every block before it.  A header names its slot and witness, the chain  *)
(* parameters a proposal in it sets (or None), and the order of witnesses  *)
(* that the votes and its secret lead to where the order is drawn anew.    *)
(* Time is in whole seconds, as bts::time::now() and every timestamp are,  *)
(* and every clock is right.                                               *)
(***************************************************************************)
EXTENDS Integers, Sequences, FiniteSets, SequencesExt

CONSTANTS
  Nodes,
  Witnesses,
  Controls,      \* witness_plugin::_witnesses of each node
  Orders,        \* what update_active_witnesses or a shuffle can lead to
  RoundSize,     \* active_delegates.size()
  Parameters,    \* chain parameters that can be proposed
  Initial,       \* chain parameters of the genesis state
  GenesisTime,   \* BTS_GENESIS_TIMESTAMP
  MaxTime,       \* bound: where the clock stops
  MaxRestarts,   \* bound: restarts
  MaxOversized,  \* bound: blocks that are generated too large
  None

\* chain_parameters::validate().
Valid(p) ==
  /\ p.block_interval \in Nat \ {0} /\ p.maintenance_interval \in Nat
  /\ p.maintenance_interval > p.block_interval
  /\ p.maintenance_interval % p.block_interval = 0

ASSUME ScheduleAssumption ==
  /\ Controls \in [Nodes -> SUBSET Witnesses]
  /\ Orders \subseteq Seq(Witnesses) \ {<<>>} /\ Orders # {}
  /\ RoundSize \in Nat \ {0}
  /\ Valid(Initial) /\ \A p \in Parameters : Valid(p)
  /\ GenesisTime \in Nat /\ GenesisTime % Initial.block_interval = 0
  /\ MaxTime \in Nat /\ MaxRestarts \in Nat /\ MaxOversized \in Nat
  /\ None \notin Parameters

VARIABLES
  node,        \* each node's database and pending timestamp
  enabled,     \* witness_plugin::_production_enabled
  wake,        \* when _block_production_task runs next
  sent,        \* blocks broadcast
  clock,
  restarts,    \* restarts so far
  oversized,   \* blocks generated too large so far
  calm         \* every task has run and every block has arrived on time

vars == <<node, enabled, wake, sent, clock, restarts, oversized, calm>>

----------------------------------------------------------------------------
(* The global properties after each block.                                 *)

\* init_genesis().
GenesisState ==
  [time |-> GenesisTime, parameters |-> Initial, pending_parameters |-> None,
   next_maintenance_time |-> 0, last_budget_time |-> 0,
   active_witnesses |-> CHOOSE o \in Orders : TRUE]

\* A node: the headers of its chain, the global properties after each of them
\* and before the first, _pending_block.timestamp, the blocks of the fork
\* database, the height below which that has no blocks, and whether the block
\* pushed last was applied.
Fresh(headers, states) ==
  [blocks |-> headers, states |-> states, pending |-> Last(states).time,
   known |-> IF headers = <<>> THEN {} ELSE {headers}, base |-> Len(headers), ok |-> TRUE]

head(nd) == Last(nd.states)
interval(g) == g.parameters.block_interval

abs_slot(g, when) == when \div interval(g)

\* Mutant: the slot of the head block can be used again.
scheduled_again(g, when) == abs_slot(g, when) >= abs_slot(g, g.time)

\* get_scheduled_witness(): there is one only after the slot of the head block.
scheduled(g, when) == abs_slot(g, when) > abs_slot(g, g.time)
scheduled_time(g, when) == abs_slot(g, when) * interval(g)
scheduled_witness(g, when) ==
  g.active_witnesses[(abs_slot(g, when) % Len(g.active_witnesses)) + 1]

validate_block_header(nd, h) ==
  LET g == head(nd) IN
  /\ nd.pending <= h.timestamp
  /\ nd.pending % interval(g) = 0
  /\ scheduled(g, h.timestamp)
  /\ scheduled_time(g, h.timestamp) = h.timestamp
  /\ h.witness = scheduled_witness(g, h.timestamp)

\* Mutant: the next maintenance comes one block later.
next_maintenance_time_drift(g, h, num) ==
  h.timestamp + g.parameters.block_interval

\* The multiple of the interval after the first block, then one interval more
\* each time, however late the block is.
next_maintenance_time(g, h, num) ==
  LET m == g.parameters.maintenance_interval IN
  IF num = 1 THEN ((h.timestamp \div m) + 1) * m ELSE g.next_maintenance_time + m

\* perform_chain_maintenance(): new parameters take effect; process_budget()
\* takes the pending timestamp, in the new interval, for the current time.
perform_chain_maintenance(g, h, num) ==
  LET p == [g EXCEPT !.parameters = IF g.pending_parameters = None THEN @ ELSE g.pending_parameters,
                     !.pending_parameters = None,
                     !.active_witnesses = h.order]
  IN [p EXCEPT !.next_maintenance_time = next_maintenance_time(p, h, num),
               !.last_budget_time = h.timestamp + interval(p)]

maintenance_due(g, h) == g.next_maintenance_time <= h.timestamp
reshuffles(g, h, num) == maintenance_due(g, h) \/ num % RoundSize = 0

\* apply_block(): the proposal executes, the head moves, then maintenance or
\* the shuffle at the end of a round; the pending timestamp is last.
apply_block(nd, h) ==
  LET num == Len(nd.blocks) + 1
      g == [head(nd) EXCEPT !.time = h.timestamp,
              !.pending_parameters = IF h.update = None THEN @ ELSE h.update]
      after == IF maintenance_due(g, h) THEN perform_chain_maintenance(g, h, num)
               ELSE IF num % RoundSize = 0 THEN [g EXCEPT !.active_witnesses = h.order]
               ELSE g
  IN [nd EXCEPT !.blocks = Append(@, h),
                !.states = Append(@, after),
                !.pending = h.timestamp + interval(g)]

apply_if_valid(nd, h) ==
  IF nd.ok /\ validate_block_header(nd, h) THEN apply_block(nd, h) ELSE [nd EXCEPT !.ok = FALSE]

----------------------------------------------------------------------------
(* Pushing blocks.                                                         *)

\* Mutant: the pending timestamp is left as it was.
popped_keep_timestamp(nd, k) ==
  [nd EXCEPT !.blocks = SubSeq(@, 1, k), !.states = SubSeq(@, 1, k + 1), !.ok = TRUE]

\* pop_block() down to the first k blocks.
popped(nd, k) ==
  [nd EXCEPT !.blocks = SubSeq(@, 1, k), !.states = SubSeq(@, 1, k + 1),
             !.pending = nd.states[k + 1].time, !.ok = TRUE]

\* The height at which block b leaves the chain of the node.
fork_height(nd, b) ==
  CHOOSE k \in 0..Len(nd.blocks) :
    /\ SubSeq(b, 1, k) = SubSeq(nd.blocks, 1, k)
    /\ k < Len(nd.blocks) /\ k < Len(b) => nd.blocks[k + 1] # b[k + 1]

\* The blocks of the new branch applied in turn, or else the old ones again.
switched(nd, b) ==
  LET k == fork_height(nd, b)
      new == FoldLeft(apply_if_valid, popped(nd, k), SubSeq(b, k + 1, Len(b)))
      old == FoldLeft(apply_if_valid, popped(nd, k), SubSeq(nd.blocks, k + 1, Len(nd.blocks)))
  IN IF new.ok THEN new ELSE [old EXCEPT !.ok = FALSE]

fork_accepts(nd, b) == Front(b) = <<>> \/ Front(b) \in nd.known

\* push_block(): a block on the head is applied; a higher one is switched to,
\* if the fork database still has the place where it leaves the chain; another
\* is only remembered.  A block that fails is forgotten.
push_block(nd, b) ==
  LET k == [nd EXCEPT !.known = @ \cup {b}, !.ok = TRUE]
      next == IF Front(b) = nd.blocks THEN apply_if_valid(k, Last(b))
              ELSE IF Len(b) <= Len(nd.blocks) THEN k
              ELSE IF fork_height(nd, b) >= nd.base THEN switched(k, b)
              ELSE [k EXCEPT !.ok = FALSE]
  IN IF ~fork_accepts(nd, b) THEN [nd EXCEPT !.ok = FALSE]
     ELSE IF next.ok THEN next ELSE [next EXCEPT !.known = @ \ {b}]

\* A block of another node arrives.
handle_block(n, b) ==
  /\ b \notin node[n].known
  /\ \A k \in 1..Len(node[n].blocks) : b # SubSeq(node[n].blocks, 1, k)
  /\ node' = [node EXCEPT ![n] = push_block(@, b)]
  /\ UNCHANGED <<enabled, wake, sent, clock, restarts, oversized, calm>>

----------------------------------------------------------------------------
(* The witness plugin.                                                     *)

\* schedule_next_production(): the next slot of the clock.
next_production(g) == (clock \div interval(g) + 1) * interval(g)

\* The chain is not stale: production begins, and never stops again.
production_enabled(n) ==
  \/ enabled[n]
  \/ LET d == head(node[n]).time - clock IN
     IF d < 0 THEN -d <= interval(head(node[n])) ELSE d <= interval(head(node[n]))

\* Mutant: the production task allows itself a whole second too few.
is_scheduled_early(n) ==
  LET g == head(node[n])
      when == clock - 1
  IN
  /\ production_enabled(n)
  /\ scheduled(g, when)
  /\ scheduled_time(g, when) > g.time
  /\ scheduled_witness(g, when) \in Controls[n]
  /\ clock - g.time >= 1
  /\ scheduled_time(g, when) = clock

\* The witness scheduled one second from now is one of the node's, and its
\* slot begins now: at this resolution, within 500 ms is in the same second.
is_scheduled(n) ==
  LET g == head(node[n])
      when == clock + 1
  IN
  /\ production_enabled(n)
  /\ scheduled(g, when)
  /\ scheduled_time(g, when) > g.time
  /\ scheduled_witness(g, when) \in Controls[n]
  /\ clock - g.time >= 1
  /\ scheduled_time(g, when) = clock

\* The header that generate_block() signs, and the node as it pushes it: the
\* pending timestamp has become that of the slot.
generated(n, u, o) ==
  LET g == head(node[n]) IN
  [timestamp |-> scheduled_time(g, clock + 1), witness |-> scheduled_witness(g, clock + 1),
   update |-> u, order |-> o]
stamped(n) == [node[n] EXCEPT !.pending = scheduled_time(head(node[n]), clock + 1)]

\* The task runs, produces the block of the slot and broadcasts it.  One block
\* of a chain, not the first, executes a proposal that sets the parameters.
block_production_loop(n, u, o) ==
  LET h == generated(n, u, o)
      b == Append(node[n].blocks, h)
      nd == push_block(stamped(n), b)
  IN
  /\ wake[n] <= clock
  /\ is_scheduled(n)
  /\ o \in IF reshuffles(head(node[n]), h, Len(b)) THEN Orders
           ELSE {head(node[n]).active_witnesses}
  /\ u # None => Len(b) > 1 /\ \A i \in DOMAIN node[n].blocks : node[n].blocks[i].update = None
  /\ node' = [node EXCEPT ![n] = nd]
  /\ sent' = IF nd.ok THEN sent \cup {b} ELSE sent
  /\ enabled' = [enabled EXCEPT ![n] = TRUE]
  /\ wake' = [wake EXCEPT ![n] = next_production(head(nd))]
  /\ UNCHANGED <<clock, restarts, oversized, calm>>

\* The pending block is larger than a block may be: generate_block() throws
\* with the pending timestamp already set.
block_production_fails(n) ==
  /\ wake[n] <= clock
  /\ is_scheduled(n)
  /\ oversized < MaxOversized
  /\ oversized' = oversized + 1
  /\ calm' = FALSE
  /\ node' = [node EXCEPT ![n] = stamped(n)]
  /\ enabled' = [enabled EXCEPT ![n] = TRUE]
  /\ wake' = [wake EXCEPT ![n] = next_production(head(node[n]))]
  /\ UNCHANGED <<sent, clock, restarts>>

\* The task runs and has nothing to produce.
block_production_idle(n) ==
  /\ wake[n] <= clock
  /\ ~is_scheduled(n)
  /\ enabled' = [enabled EXCEPT ![n] = production_enabled(n)]
  /\ wake' = [wake EXCEPT ![n] = next_production(head(node[n]))]
  /\ UNCHANGED <<node, sent, clock, restarts, oversized, calm>>

----------------------------------------------------------------------------
\* open(): the pending timestamp is the head block's, the fork database has the
\* head block only, and the plugin waits for a fresh block.
restart(n) ==
  /\ restarts < MaxRestarts
  /\ restarts' = restarts + 1
  /\ calm' = FALSE
  /\ node' = [node EXCEPT ![n] = Fresh(@.blocks, @.states)]
  /\ enabled' = [enabled EXCEPT ![n] = FALSE]
  /\ wake' = [wake EXCEPT ![n] = next_production(head(node[n]))]
  /\ UNCHANGED <<sent, clock, oversized>>

\* Time does not wait for tasks or messages.
Late ==
  \/ \E n \in Nodes : wake[n] <= clock
  \/ \E n \in Nodes, b \in sent : b \notin node[n].known

Tick ==
  /\ clock < MaxTime
  /\ clock' = clock + 1
  /\ calm' = (calm /\ ~Late)
  /\ UNCHANGED <<node, enabled, wake, sent, restarts, oversized>>

Init ==
  /\ node = [n \in Nodes |-> Fresh(<<>>, <<GenesisState>>)]
  /\ enabled = [n \in Nodes |-> FALSE]
  /\ clock = GenesisTime
  /\ wake = [n \in Nodes |-> GenesisTime + Initial.block_interval]
  /\ sent = {}
  /\ restarts = 0
  /\ oversized = 0
  /\ calm = TRUE

Next ==
  \/ \E n \in Nodes, b \in sent : handle_block(n, b)
  \/ \E n \in Nodes, u \in Parameters \cup {None}, o \in Orders : block_production_loop(n, u, o)
  \/ \E n \in Nodes : block_production_fails(n)
  \/ \E n \in Nodes : block_production_idle(n)
  \/ \E n \in Nodes : restart(n)
  \/ Tick

Spec == Init /\ [][Next]_vars
=============================================================================
