---------------------------- MODULE ScheduleProofs ----------------------------
(***************************************************************************)
(* Proofs about BlockSchedule: while no proposal changes the block         *)
(* interval, what validate_block_header decides for the blocks to come     *)
(* depends on the chain alone, and not on the pending timestamp that each  *)
(* node was left with; and nodes that have received the same blocks are on *)
(* chains of one length, in whatever order the blocks came.  While every   *)
(* task runs and every block arrives in time, no slot is missed, and the   *)
(* next maintenance stays ahead.                                           *)
(***************************************************************************)
EXTENDS ScheduleProperties, ProofLibrary

\* No proposal changes the block interval.
OneInterval == \A p \in Parameters : p.block_interval = Initial.block_interval

Interval == Initial.block_interval

----------------------------------------------------------------------------
(* Slots.                                                                  *)

\* The block interval is a positive number.
LEMMA IntervalType == Interval \in Nat \ {0}
  BY ScheduleAssumption DEF Interval, Valid

\* Multiples.
LEMMA Multiples ==
  ASSUME NEW q \in Nat, NEW m \in Nat \ {0}
  PROVE  q * m \in Nat /\ (q * m) % m = 0
  OBVIOUS

\* A quotient, and what is left.
LEMMA Division ==
  ASSUME NEW t \in Nat, NEW m \in Nat \ {0}
  PROVE  /\ t \div m \in Nat /\ t % m \in Nat /\ t = (t \div m) * m + (t % m)
  OBVIOUS

\* Times at the start of a slot are at least an interval apart.
LEMMA SlotsApart ==
  ASSUME NEW s \in Nat, NEW t \in Nat, NEW m \in Nat \ {0}, s % m = 0, t % m = 0, t \div m > s \div m
  PROVE  t >= s + m
  <1> DEFINE a == s \div m
             b == t \div m
  <1>1. a \in Nat /\ b \in Nat /\ s = a * m /\ t = b * m /\ b >= a + 1
    BY Division
  <1> HIDE DEF a, b
  <1>2. b * m >= (a + 1) * m
    BY <1>1
  <1>3. (a + 1) * m = a * m + m
    BY <1>1
  <1>4. QED
    BY <1>1, <1>2, <1>3

\* The slot after one that is aligned.
LEMMA NextSlot ==
  ASSUME NEW s \in Nat, NEW m \in Nat \ {0}, s % m = 0
  PROVE  s + m \in Nat /\ (s + m) % m = 0
  <1> DEFINE a == s \div m
  <1>1. a \in Nat /\ s = a * m
    BY Division
  <1> HIDE DEF a
  <1>2. (a + 1) * m = a * m + m
    BY <1>1
  <1>3. s + m = (a + 1) * m /\ a + 1 \in Nat
    BY <1>1, <1>2
  <1>4. QED
    BY <1>3, Multiples

----------------------------------------------------------------------------
(* The chain of a node.                                                    *)

\* The global properties after block h, the num-th, where they were g before.
After(g, h, num) ==
  LET f == [g EXCEPT !.time = h.timestamp,
              !.pending_parameters = IF h.update = None THEN @ ELSE h.update]
  IN IF maintenance_due(f, h) THEN perform_chain_maintenance(f, h, num)
     ELSE IF num % RoundSize = 0 THEN [f EXCEPT !.active_witnesses = h.order]
     ELSE f

IsHeader(h) ==
  h.timestamp \in Nat /\ h.update \in Parameters \cup {None} /\ h.order \in Orders

IsGlobals(g) ==
  /\ DOMAIN g = {"time", "parameters", "pending_parameters", "next_maintenance_time",
                 "last_budget_time", "active_witnesses"}
  /\ g.time \in Nat /\ g.time % Interval = 0
  /\ g.parameters.block_interval = Interval
  /\ g.parameters \in Parameters \cup {Initial}
  /\ g.pending_parameters \in Parameters \cup {None}
  /\ g.active_witnesses \in Orders

\* What makes a header valid on a chain, the pending timestamp left aside.
Fitting(g, h) ==
  /\ scheduled(g, h.timestamp)
  /\ scheduled_time(g, h.timestamp) = h.timestamp
  /\ h.witness = scheduled_witness(g, h.timestamp)

\* The states of a node are those its blocks lead to, one after the other.
Built(nd) ==
  /\ DOMAIN nd = {"blocks", "states", "pending", "known", "base", "ok"}
  /\ IsSeq(nd.blocks) /\ IsSeq(nd.states) /\ Len(nd.states) = Len(nd.blocks) + 1
  /\ nd.states[1] = GenesisState
  /\ \A i \in 1 .. Len(nd.blocks) :
       /\ IsHeader(nd.blocks[i]) /\ Fitting(nd.states[i], nd.blocks[i])
       /\ nd.states[i + 1] = After(nd.states[i], nd.blocks[i], i)
  /\ \A i \in 1 .. Len(nd.states) : IsGlobals(nd.states[i])

\* The pending timestamp starts a slot that the next block may still take.
Timely(nd, now) ==
  /\ nd.pending \in Nat /\ nd.pending % Interval = 0
  /\ nd.pending <= head(nd).time + Interval \/ nd.pending <= now

NodeInv(nd, now) == Built(nd) /\ Timely(nd, now)

\* A block: headers only.
IsBlock(b) == IsSeq(b) /\ b # <<>> /\ \A i \in 1 .. Len(b) : IsHeader(b[i])

ScheduleInv ==
  /\ clock \in Nat
  /\ node = [n \in Nodes |-> node[n]]
  /\ \A n \in Nodes : NodeInv(node[n], clock)
  /\ \A b \in sent : IsBlock(b)

\* The genesis state.
LEMMA GenesisGlobals == IsGlobals(GenesisState)
  BY ScheduleAssumption DEF IsGlobals, GenesisState, Interval

\* The head is the last of the states.
LEMMA HeadFacts ==
  ASSUME NEW nd, Built(nd)
  PROVE  /\ Len(nd.blocks) \in Nat /\ head(nd) = nd.states[Len(nd.blocks) + 1] /\ IsGlobals(head(nd))
         /\ DOMAIN nd.blocks = 1 .. Len(nd.blocks) /\ DOMAIN nd.states = 1 .. Len(nd.blocks) + 1
         /\ interval(head(nd)) = Interval
  <1>1. /\ Len(nd.blocks) \in Nat /\ DOMAIN nd.blocks = 1 .. Len(nd.blocks)
        /\ Len(nd.states) \in Nat /\ DOMAIN nd.states = 1 .. Len(nd.states)
    BY DEF Built, IsSeq
  <1>2. Len(nd.states) = Len(nd.blocks) + 1
    BY DEF Built
  <1>3. head(nd) = nd.states[Len(nd.blocks) + 1]
    BY <1>2 DEF head, Last
  <1>4. Len(nd.blocks) + 1 \in 1 .. Len(nd.states)
    BY <1>1, <1>2
  <1>5. IsGlobals(head(nd))
    BY <1>3, <1>4 DEF Built
  <1>6. QED
    BY <1>1, <1>2, <1>3, <1>5 DEF IsGlobals, interval

\* A block keeps the interval and takes the time to its own.
LEMMA AfterGlobals ==
  ASSUME OneInterval, NEW g, IsGlobals(g), NEW h, IsHeader(h), h.timestamp % Interval = 0, NEW num
  PROVE  IsGlobals(After(g, h, num)) /\ After(g, h, num).time = h.timestamp
  <1> DEFINE f == [g EXCEPT !.time = h.timestamp,
                     !.pending_parameters = IF h.update = None THEN @ ELSE h.update]
  <1>1. IsGlobals(f) /\ f.time = h.timestamp
    BY DEF IsGlobals, IsHeader
  <1> HIDE DEF f
  <1>2. IsGlobals([f EXCEPT !.active_witnesses = h.order])
        /\ [f EXCEPT !.active_witnesses = h.order].time = h.timestamp
    BY <1>1 DEF IsGlobals, IsHeader
  <1>3. IsGlobals(perform_chain_maintenance(f, h, num)) /\ perform_chain_maintenance(f, h, num).time = h.timestamp
    <2> DEFINE x == IF f.pending_parameters = None THEN f.parameters ELSE f.pending_parameters
               p == [f EXCEPT !.parameters = x, !.pending_parameters = None, !.active_witnesses = h.order]
    <2>1. x.block_interval = Interval /\ x \in Parameters \cup {Initial}
      BY <1>1 DEF IsGlobals, OneInterval, Interval
    <2> HIDE DEF x
    <2>2. IsGlobals(p) /\ p.time = h.timestamp
      BY <1>1, <2>1, ScheduleAssumption DEF IsGlobals, IsHeader
    <2>3. perform_chain_maintenance(f, h, num) =
            [p EXCEPT !.next_maintenance_time = next_maintenance_time(p, h, num),
                      !.last_budget_time = h.timestamp + interval(p)]
      BY DEF perform_chain_maintenance, x
    <2> HIDE DEF p
    <2>4. QED
      BY <2>2, <2>3 DEF IsGlobals
  <1>4. After(g, h, num) = IF maintenance_due(f, h) THEN perform_chain_maintenance(f, h, num)
                           ELSE IF num % RoundSize = 0 THEN [f EXCEPT !.active_witnesses = h.order]
                           ELSE f
    BY DEF After, f
  <1>5. QED
    BY <1>1, <1>2, <1>3, <1>4


----------------------------------------------------------------------------
(* Pushing blocks.                                                         *)

\* A time that fits starts a slot, at least an interval after the head block.
LEMMA FittingTime ==
  ASSUME NEW nd, Built(nd), NEW h, h.timestamp \in Nat, Fitting(head(nd), h)
  PROVE  h.timestamp % Interval = 0 /\ h.timestamp >= head(nd).time + Interval
  <1> DEFINE g == head(nd)
             t == h.timestamp
             s == g.time
  <1>1. IsGlobals(g) /\ interval(g) = Interval
    BY HeadFacts
  <1>2. s \in Nat /\ s % Interval = 0 /\ t \in Nat
    BY <1>1 DEF IsGlobals
  <1>3. (t \div Interval) * Interval = t /\ t \div Interval > s \div Interval
    BY <1>1 DEF Fitting, scheduled, scheduled_time, abs_slot
  <1> HIDE DEF g, t, s
  <1>4. t \div Interval \in Nat
    BY <1>2, IntervalType, Division
  <1>5. t % Interval = 0
    BY <1>3, <1>4, IntervalType, Multiples
  <1>6. t >= s + Interval
    BY <1>2, <1>3, <1>5, IntervalType, SlotsApart
  <1>7. QED
    BY <1>5, <1>6 DEF g, t, s

\* From now on, the pending timestamp decides nothing.
LEMMA ValidIsFitting ==
  ASSUME NEW nd, NEW now \in Nat, NodeInv(nd, now), NEW h, h.timestamp \in Nat, h.timestamp >= now
  PROVE  validate_block_header(nd, h) <=> Fitting(head(nd), h)
  <1>1. Built(nd) /\ nd.pending \in Nat /\ nd.pending % Interval = 0
        /\ (nd.pending <= head(nd).time + Interval \/ nd.pending <= now)
    BY DEF NodeInv, Timely
  <1>2. interval(head(nd)) = Interval /\ head(nd).time \in Nat
    BY <1>1, HeadFacts DEF IsGlobals
  <1>3. validate_block_header(nd, h) <=> nd.pending <= h.timestamp /\ Fitting(head(nd), h)
    BY <1>1, <1>2 DEF validate_block_header, Fitting
  <1>4. ASSUME Fitting(head(nd), h)
        PROVE  nd.pending <= h.timestamp
    <2>1. h.timestamp >= head(nd).time + Interval
      BY <1>1, <1>4, FittingTime
    <2>2. QED
      BY <1>1, <1>2, <2>1, IntervalType
  <1>5. QED
    BY <1>3, <1>4

\* apply_block(): the chain is one block longer.
LEMMA AppliedInv ==
  ASSUME OneInterval, NEW nd, NEW now \in Nat, NodeInv(nd, now), NEW h, IsHeader(h),
         validate_block_header(nd, h)
  PROVE  /\ NodeInv(apply_block(nd, h), now) /\ NodeInv(apply_block(nd, h), 0)
         /\ head(apply_block(nd, h)) = After(head(nd), h, Len(nd.blocks) + 1)
  <1> DEFINE g == head(nd)
             n == Len(nd.blocks)
             a == After(g, h, n + 1)
             e == apply_block(nd, h)
  <1>1. Built(nd)
    BY DEF NodeInv
  <1>2. /\ n \in Nat /\ g = nd.states[n + 1] /\ IsGlobals(g) /\ interval(g) = Interval
        /\ DOMAIN nd.blocks = 1 .. n /\ DOMAIN nd.states = 1 .. n + 1
    BY <1>1, HeadFacts
  <1>3. Fitting(g, h) /\ h.timestamp \in Nat
    BY DEF validate_block_header, Fitting, IsHeader
  <1>4. h.timestamp % Interval = 0
    BY <1>1, <1>3, FittingTime
  <1>5. IsGlobals(a) /\ a.time = h.timestamp
    BY <1>2, <1>4, AfterGlobals
  <1>6. e = [nd EXCEPT !.blocks = Append(@, h), !.states = Append(@, a),
                       !.pending = h.timestamp + interval([g EXCEPT !.time = h.timestamp,
                          !.pending_parameters = IF h.update = None THEN @ ELSE h.update])]
    BY DEF apply_block, After
  <1>7. interval([g EXCEPT !.time = h.timestamp,
                  !.pending_parameters = IF h.update = None THEN @ ELSE h.update]) = Interval
    BY <1>2 DEF interval, IsGlobals
  <1> HIDE DEF e, a
  <1>8. /\ DOMAIN e = {"blocks", "states", "pending", "known", "base", "ok"}
        /\ e.blocks = Append(nd.blocks, h) /\ e.states = Append(nd.states, a)
        /\ e.pending = h.timestamp + Interval
    BY <1>1, <1>6, <1>7 DEF Built
  <1>9. /\ IsSeq(nd.blocks) /\ IsSeq(nd.states) /\ Len(nd.states) = n + 1 /\ nd.states[1] = GenesisState
        /\ \A i \in 1 .. n : /\ IsHeader(nd.blocks[i]) /\ Fitting(nd.states[i], nd.blocks[i])
                             /\ nd.states[i + 1] = After(nd.states[i], nd.blocks[i], i)
        /\ \A i \in 1 .. n + 1 : IsGlobals(nd.states[i])
    BY <1>1 DEF Built
  <1> HIDE DEF g, n
  <1>10. /\ IsSeq(e.blocks) /\ Len(e.blocks) = n + 1 /\ e.blocks[n + 1] = h
         /\ \A i \in 1 .. n : e.blocks[i] = nd.blocks[i]
    BY <1>8, <1>9, AppendSeq DEF n
  <1>11. /\ IsSeq(e.states) /\ Len(e.states) = n + 2 /\ e.states[n + 2] = a
         /\ \A i \in 1 .. n + 1 : e.states[i] = nd.states[i]
    <2>1. /\ IsSeq(e.states) /\ Len(e.states) = Len(nd.states) + 1 /\ e.states[Len(nd.states) + 1] = a
          /\ \A i \in 1 .. Len(nd.states) : e.states[i] = nd.states[i]
      BY <1>8, <1>9, AppendSeq
    <2>2. n + 1 + 1 = n + 2
      BY <1>2
    <2>3. QED
      BY <1>9, <2>1, <2>2
  <1>12. ASSUME NEW i \in 1 .. n + 1
         PROVE  /\ IsHeader(e.blocks[i]) /\ Fitting(e.states[i], e.blocks[i])
                /\ e.states[i + 1] = After(e.states[i], e.blocks[i], i)
    <2>1. CASE i \in 1 .. n
      <3>1. i \in 1 .. n + 1 /\ i + 1 \in 1 .. n + 1
        BY <1>2, <2>1
      <3>2. QED
        BY <1>9, <1>10, <1>11, <2>1, <3>1
    <2>2. CASE i = n + 1
      <3>1. e.states[i + 1] = a /\ e.states[i] = g
        BY <1>2, <1>11, <2>2
      <3>2. QED
        BY <1>3, <1>10, <2>2, <3>1 DEF a
    <2>3. QED
      BY <1>2, <2>1, <2>2
  <1>13. ASSUME NEW i \in 1 .. n + 2
         PROVE  IsGlobals(e.states[i])
    <2>1. i \in 1 .. n + 1 \/ i = n + 2
      BY <1>2
    <2>2. QED
      BY <1>5, <1>9, <1>11, <2>1
  <1>14. e.states[1] = GenesisState
    <2>1. 1 \in 1 .. n + 1
      BY <1>2
    <2>2. QED
      BY <1>9, <1>11, <2>1
  <1>15. n + 1 + 1 = n + 2
    BY <1>2
  <1>16. Built(e)
    BY <1>8, <1>10, <1>11, <1>12, <1>13, <1>14, <1>15 DEF Built
  <1>17. head(e) = a /\ head(e).time = h.timestamp
    BY <1>5, <1>11 DEF head, Last
  <1>18. Timely(e, now) /\ Timely(e, 0)
    <2>1. h.timestamp + Interval \in Nat /\ (h.timestamp + Interval) % Interval = 0
      BY <1>3, <1>4, IntervalType, NextSlot
    <2>2. QED
      BY <1>8, <1>17, <2>1 DEF Timely
  <1>19. QED
    BY <1>16, <1>17, <1>18 DEF NodeInv, e, a, g, n

\* A flag, a set of known blocks and a base of their own make no difference.
LEMMA FlagsInv ==
  ASSUME NEW nd, NEW now, NodeInv(nd, now), NEW e, DOMAIN e = DOMAIN nd, e.blocks = nd.blocks,
         e.states = nd.states, e.pending = nd.pending
  PROVE  NodeInv(e, now)
  BY DEF NodeInv, Built, Timely, head

\* A header applied if it is valid.
LEMMA ApplyIfValidInv ==
  ASSUME OneInterval, NEW nd, NEW now \in Nat, NodeInv(nd, now), NEW h, IsHeader(h)
  PROVE  NodeInv(apply_if_valid(nd, h), now)
  <1>1. CASE nd.ok /\ validate_block_header(nd, h)
    BY <1>1, AppliedInv DEF apply_if_valid
  <1>2. CASE ~ (nd.ok /\ validate_block_header(nd, h))
    <2> DEFINE e == [nd EXCEPT !.ok = FALSE]
    <2>1. /\ DOMAIN e = DOMAIN nd /\ e.blocks = nd.blocks
          /\ e.states = nd.states /\ e.pending = nd.pending
      BY DEF NodeInv, Built
    <2>2. NodeInv(e, now)
      BY <2>1, FlagsInv
    <2>3. QED
      BY <1>2, <2>2 DEF apply_if_valid
  <1>3. QED
    BY <1>1, <1>2


\* The first elements of a sequence.
LEMMA Prefix ==
  ASSUME NEW s, IsSeq(s), NEW k \in 0 .. Len(s)
  PROVE  /\ IsSeq(SubSeq(s, 1, k)) /\ Len(SubSeq(s, 1, k)) = k
         /\ \A i \in 1 .. k : SubSeq(s, 1, k)[i] = s[i]
  <1>1. s \in Seq(ToSet(s)) /\ Len(s) \in Nat
    BY DEF IsSeq
  <1>2. SubSeq(s, 1, k) \in Seq(ToSet(s)) /\ Len(SubSeq(s, 1, k)) = k
        /\ \A i \in 1 .. k : SubSeq(s, 1, k)[i] = s[i]
    BY <1>1
  <1>3. QED
    BY <1>2, SeqOfItself

\* The elements from some place on.
LEMMA Suffix ==
  ASSUME NEW s, IsSeq(s), NEW k \in 0 .. Len(s)
  PROVE  /\ IsSeq(SubSeq(s, k + 1, Len(s))) /\ Len(SubSeq(s, k + 1, Len(s))) = Len(s) - k
         /\ \A i \in 1 .. Len(s) - k : SubSeq(s, k + 1, Len(s))[i] = s[k + i]
  <1>1. s \in Seq(ToSet(s)) /\ Len(s) \in Nat
    BY DEF IsSeq
  <1>2. SubSeq(s, k + 1, Len(s)) \in Seq(ToSet(s)) /\ Len(SubSeq(s, k + 1, Len(s))) = Len(s) - k
        /\ \A i \in 1 .. Len(s) - k : SubSeq(s, k + 1, Len(s))[i] = s[k + i]
    BY <1>1
  <1>3. QED
    BY <1>2, SeqOfItself

\* pop_block(): the states of the blocks that are left are as they were.
LEMMA PoppedInv ==
  ASSUME NEW nd, NEW now \in Nat, NodeInv(nd, now), NEW k \in 0 .. Len(nd.blocks)
  PROVE  NodeInv(popped(nd, k), now)
  <1> DEFINE n == Len(nd.blocks)
             e == popped(nd, k)
  <1>1. Built(nd)
    BY DEF NodeInv
  <1>2. n \in Nat /\ k \in Nat /\ k <= n
    BY <1>1, HeadFacts
  <1>3. /\ IsSeq(nd.blocks) /\ IsSeq(nd.states) /\ Len(nd.states) = n + 1 /\ nd.states[1] = GenesisState
        /\ \A i \in 1 .. n : /\ IsHeader(nd.blocks[i]) /\ Fitting(nd.states[i], nd.blocks[i])
                             /\ nd.states[i + 1] = After(nd.states[i], nd.blocks[i], i)
        /\ \A i \in 1 .. n + 1 : IsGlobals(nd.states[i])
    BY <1>1 DEF Built
  <1>4. /\ DOMAIN e = {"blocks", "states", "pending", "known", "base", "ok"}
        /\ e.blocks = SubSeq(nd.blocks, 1, k) /\ e.states = SubSeq(nd.states, 1, k + 1)
        /\ e.pending = nd.states[k + 1].time
    BY <1>1 DEF popped, Built
  <1> HIDE DEF e, n
  <1>5. /\ IsSeq(e.blocks) /\ Len(e.blocks) = k
        /\ \A i \in 1 .. k : e.blocks[i] = nd.blocks[i]
    BY <1>3, <1>4, Prefix
  <1>6. /\ IsSeq(e.states) /\ Len(e.states) = k + 1
        /\ \A i \in 1 .. k + 1 : e.states[i] = nd.states[i]
    <2>1. k + 1 \in 0 .. Len(nd.states)
      BY <1>2, <1>3
    <2>2. QED
      BY <1>3, <1>4, <2>1, Prefix
  <1>7. ASSUME NEW i \in 1 .. k
        PROVE  /\ IsHeader(e.blocks[i]) /\ Fitting(e.states[i], e.blocks[i])
                /\ e.states[i + 1] = After(e.states[i], e.blocks[i], i)
    <2>1. i \in 1 .. n /\ i \in 1 .. k + 1 /\ i + 1 \in 1 .. k + 1
      BY <1>2
    <2>2. QED
      BY <1>3, <1>5, <1>6, <2>1
  <1>8. ASSUME NEW i \in 1 .. k + 1
        PROVE  IsGlobals(e.states[i])
    <2>1. i \in 1 .. n + 1
      BY <1>2
    <2>2. QED
      BY <1>3, <1>6, <2>1
  <1>9. 1 \in 1 .. k + 1 /\ k + 1 \in 1 .. k + 1
    BY <1>2
  <1>10. Built(e)
    BY <1>3, <1>4, <1>5, <1>6, <1>7, <1>8, <1>9 DEF Built
  <1>11. head(e).time = e.pending
    BY <1>4, <1>6, <1>9 DEF head, Last
  <1>12. Timely(e, now)
    <2>1. head(e).time \in Nat /\ head(e).time % Interval = 0
      BY <1>10, HeadFacts DEF IsGlobals
    <2>2. QED
      BY <1>11, <2>1, IntervalType DEF Timely
  <1>13. QED
    BY <1>10, <1>12 DEF NodeInv, e

\* A chain and a longer one part at some height.
LEMMA ForkHeight ==
  ASSUME NEW nd, Built(nd), NEW b, IsSeq(b), Len(b) > Len(nd.blocks)
  PROVE  /\ fork_height(nd, b) \in 0 .. Len(nd.blocks)
         /\ SubSeq(b, 1, fork_height(nd, b)) = SubSeq(nd.blocks, 1, fork_height(nd, b))
  <1> DEFINE s == nd.blocks
             n == Len(s)
             T == {k \in 0 .. n : SubSeq(b, 1, k) = SubSeq(s, 1, k)}
  <1>1. IsSeq(s) /\ n \in Nat /\ Len(b) \in Nat /\ n < Len(b)
    BY HeadFacts DEF Built, IsSeq
  <1> HIDE DEF s
  <1>2. 0 \in T
    <2>1. SubSeq(b, 1, 0) = <<>> /\ SubSeq(s, 1, 0) = <<>>
      BY <1>1 DEF IsSeq
    <2>2. QED
      BY <1>1, <2>1
  <1>3. PICK k \in T : \A x \in T : k >= x
    <2>1. Max(T) \in T /\ \A x \in T : Max(T) >= x
      BY <1>1, <1>2, MaxIn
    <2>2. QED
      BY <2>1
  <1>4. k \in 0 .. n /\ SubSeq(b, 1, k) = SubSeq(s, 1, k)
    OBVIOUS
  <1>5. ASSUME k < n, s[k + 1] = b[k + 1]
        PROVE  FALSE
    <2>1. k + 1 \in 0 .. n /\ k + 1 \in 0 .. Len(b) /\ k \in 0 .. Len(b) /\ k \in Nat
      BY <1>1, <1>4, <1>5
    <2> DEFINE x == SubSeq(b, 1, k + 1)
               y == SubSeq(s, 1, k + 1)
    <2>2. IsSeq(x) /\ Len(x) = k + 1 /\ \A i \in 1 .. k + 1 : x[i] = b[i]
      BY <1>1, <2>1, Prefix
    <2>3. IsSeq(y) /\ Len(y) = k + 1 /\ \A i \in 1 .. k + 1 : y[i] = s[i]
      BY <1>1, <2>1, Prefix
    <2>4. \A i \in 1 .. k : SubSeq(b, 1, k)[i] = b[i] /\ SubSeq(s, 1, k)[i] = s[i]
      BY <1>1, <1>4, <2>1, Prefix
    <2>5. ASSUME NEW i \in 1 .. k + 1
          PROVE  x[i] = y[i]
      <3>1. i \in 1 .. k \/ i = k + 1
        BY <2>1
      <3> HIDE DEF x, y
      <3>2. QED
        BY <1>4, <1>5, <2>2, <2>3, <2>4, <3>1
    <2>6. x = y
      <3>1. /\ x = [i \in 1 .. k + 1 |-> x[i]]
            /\ y = [i \in 1 .. k + 1 |-> y[i]]
        <4> HIDE DEF x, y
        <4>1. QED
          BY <2>2, <2>3 DEF IsSeq
      <3> HIDE DEF x, y
      <3>2. QED
        BY <2>5, <3>1
    <2>7. k + 1 \in T
      BY <2>1, <2>6
    <2> HIDE DEF T
    <2>8. QED
      BY <1>3, <2>1, <2>7
  <1>6. \E j \in 0 .. n : /\ SubSeq(b, 1, j) = SubSeq(s, 1, j)
                          /\ j < n /\ j < Len(b) => s[j + 1] # b[j + 1]
    BY <1>4, <1>5
  <1>7. QED
    BY <1>6 DEF fork_height, s

----------------------------------------------------------------------------
(* Switching to another branch.                                            *)

\* The recursion of a fold over the first headers of a branch, and its solution.
BranchStep(branch, base, g, T) ==
  IF T = {} THEN base ELSE LET m == Max(T) IN apply_if_valid(g[T \ {m}], branch[m])
Branched(branch, base, g) ==
  g = [T \in SUBSET DOMAIN branch |-> BranchStep(branch, base, g, T)]

\* A branch is applied along that recursion.
LEMMA BranchUnfold ==
  ASSUME NEW branch, NEW base
  PROVE  FoldLeft(apply_if_valid, base, branch) = (CHOOSE g : Branched(branch, base, g))[DOMAIN branch]
  BY DEF FoldLeft, MapThenFoldSet, Branched, BranchStep


\* The recursion has a solution.
LEMMA BranchedExist ==
  ASSUME NEW branch, NEW base, IsSeq(branch)
  PROVE  \E g : Branched(branch, base, g)
  <1> DEFINE S == DOMAIN branch
             Solves(g, n) == \A T \in SUBSET S : Cardinality(T) <= n => g[T] = BranchStep(branch, base, g, T)
             N == {n \in Nat : \E g : Solves(g, n)}
  <1>1. IsFiniteSet(S) /\ Len(branch) \in Nat /\ S = 1 .. Len(branch)
    BY FiniteDomain
  <1> HIDE DEF S
  <1>2. ASSUME NEW T \in SUBSET S
        PROVE  /\ Cardinality(T) \in Nat
               /\ T # {} => /\ Cardinality(T) > 0 /\ Max(T) \in T
                            /\ T \ {Max(T)} \in SUBSET S /\ Cardinality(T \ {Max(T)}) = Cardinality(T) - 1
    <2>1. IsFiniteSet(T) /\ Cardinality(T) \in Nat
      BY <1>1, FS_Subset, FS_CardinalityType
    <2>2. T # {} => Cardinality(T) # 0
      BY <2>1, FS_EmptySet
    <2>3. T # {} => Max(T) \in T
      <3>1. T \subseteq 0 .. Len(branch)
        BY <1>1
      <3>2. QED
        BY <1>1, <3>1, MaxIn
    <2>4. \A x \in T : Cardinality(T \ {x}) = Cardinality(T) - 1
      BY <2>1, FS_RemoveElement
    <2>5. QED
      BY <2>1, <2>2, <2>3, <2>4
  <1>3. 0 \in N
    <2> DEFINE g == [T \in SUBSET S |-> base]
    <2>1. ASSUME NEW T \in SUBSET S, Cardinality(T) <= 0
          PROVE  g[T] = BranchStep(branch, base, g, T)
      <3>1. T = {}
        <4>1. Cardinality(T) \in Nat
          BY <1>2
        <4>2. T # {} => Cardinality(T) > 0
          BY <1>2
        <4>3. QED
          BY <2>1, <4>1, <4>2
      <3>2. QED
        BY <3>1 DEF BranchStep
    <2>2. QED
      BY <2>1
  <1>4. ASSUME NEW n \in Nat, n \in N
        PROVE  n + 1 \in N
    <2>1. PICK g : Solves(g, n)
      BY <1>4
    <2> DEFINE h == [T \in SUBSET S |->
                       IF Cardinality(T) = n + 1 THEN BranchStep(branch, base, g, T) ELSE g[T]]
    <2>2. ASSUME NEW T \in SUBSET S, Cardinality(T) <= n + 1
          PROVE  h[T] = BranchStep(branch, base, h, T)
      <3>1. BranchStep(branch, base, h, T) = BranchStep(branch, base, g, T)
        <4>1. CASE T = {}
          BY <4>1 DEF BranchStep
        <4>2. CASE T # {}
          <5> DEFINE x == Max(T)
          <5>1. T \ {x} \in SUBSET S /\ Cardinality(T \ {x}) # n + 1
            BY <1>2, <2>2, <4>2
          <5> HIDE DEF x
          <5>2. h[T \ {x}] = g[T \ {x}]
            BY <5>1
          <5> HIDE DEF h
          <5>3. QED
            BY <4>2, <5>2 DEF BranchStep, x
        <4>3. QED
          BY <4>1, <4>2
      <3>2. Cardinality(T) # n + 1 => h[T] = g[T] /\ g[T] = BranchStep(branch, base, g, T)
        <4>1. Cardinality(T) \in Nat
          BY <1>2
        <4>2. Cardinality(T) # n + 1 => Cardinality(T) <= n
          BY <2>2, <4>1
        <4>3. QED
          BY <2>1, <4>2
      <3>3. Cardinality(T) = n + 1 => h[T] = BranchStep(branch, base, g, T)
        OBVIOUS
      <3>4. QED
        BY <3>1, <3>2, <3>3
    <2> HIDE DEF h
    <2>3. QED
      BY <2>2
  <1> HIDE DEF N
  <1>5. Nat \subseteq N /\ Cardinality(S) \in Nat
    BY <1>1, <1>3, <1>4, NatSetInduction, FS_CardinalityType
  <1>6. PICK g : Solves(g, Cardinality(S))
    BY <1>5 DEF N
  <1> DEFINE h == [T \in SUBSET S |-> g[T]]
  <1>7. ASSUME NEW T \in SUBSET S
        PROVE  h[T] = BranchStep(branch, base, h, T)
    <2>1. Cardinality(T) <= Cardinality(S)
      BY <1>1, FS_Subset
    <2>2. g[T] = BranchStep(branch, base, g, T)
      BY <1>6, <2>1
    <2>3. BranchStep(branch, base, h, T) = BranchStep(branch, base, g, T)
      <3>1. T # {} => h[T \ {Max(T)}] = g[T \ {Max(T)}]
        BY <1>2
      <3> HIDE DEF h
      <3>2. QED
        BY <3>1 DEF BranchStep
    <2>4. QED
      BY <2>2, <2>3
  <1>8. Branched(branch, base, h)
    BY <1>7 DEF Branched, S
  <1>9. QED
    BY <1>8

\* A branch applied header by header.
LEMMA FoldInv ==
  ASSUME OneInterval, NEW now \in Nat, NEW base, NodeInv(base, now), NEW branch, IsSeq(branch),
         \A m \in DOMAIN branch : IsHeader(branch[m])
  PROVE  NodeInv(FoldLeft(apply_if_valid, base, branch), now)
  <1> DEFINE S == DOMAIN branch
             g == CHOOSE g : Branched(branch, base, g)
             G == {T \in SUBSET S : NodeInv(g[T], now)}
  <1>1. Branched(branch, base, g)
    BY BranchedExist
  <1>2. FoldLeft(apply_if_valid, base, branch) = g[S]
    BY BranchUnfold
  <1> HIDE DEF g
  <1>3. \A T \in SUBSET S : g[T] = BranchStep(branch, base, g, T)
    BY <1>1 DEF Branched
  <1>4. IsFiniteSet(S) /\ Len(branch) \in Nat /\ S = 1 .. Len(branch)
    BY FiniteDomain
  <1>5. ASSUME NEW T \in SUBSET S, \A x \in T : T \ {x} \in G
        PROVE  T \in G
    <2>1. CASE T = {}
      BY <1>3, <2>1 DEF BranchStep
    <2>2. CASE T # {}
      <3> DEFINE m == Max(T)
                 p == g[T \ {m}]
      <3>1. m \in T
        <4>1. T \subseteq 0 .. Len(branch)
          BY <1>4
        <4>2. QED
          BY <1>4, <2>2, <4>1, MaxIn
      <3>2. g[T] = apply_if_valid(p, branch[m])
        BY <1>3, <2>2 DEF BranchStep
      <3> HIDE DEF m
      <3>3. NodeInv(p, now) /\ IsHeader(branch[m])
        BY <1>5, <3>1
      <3> HIDE DEF p
      <3>4. NodeInv(apply_if_valid(p, branch[m]), now)
        BY <3>3, ApplyIfValidInv
      <3>5. QED
        BY <3>2, <3>4
    <2>3. QED
      BY <2>1, <2>2
  <1>6. \A T \in SUBSET S : T \in G
    <2> HIDE DEF G, S
    <2>1. QED
      BY <1>4, <1>5, SubsetInduction
  <1>7. QED
    BY <1>2, <1>6

\* A switch ends on a chain of the new or of the old branch.
LEMMA SwitchedInv ==
  ASSUME OneInterval, NEW now \in Nat, NEW nd, NodeInv(nd, now), NEW b, IsBlock(b), Len(b) > Len(nd.blocks)
  PROVE  NodeInv(switched(nd, b), now)
  <1> DEFINE k == fork_height(nd, b)
             base == popped(nd, k)
             up == SubSeq(b, k + 1, Len(b))
             back == SubSeq(nd.blocks, k + 1, Len(nd.blocks))
             new == FoldLeft(apply_if_valid, base, up)
             old == FoldLeft(apply_if_valid, base, back)
             e == [old EXCEPT !.ok = FALSE]
  <1>1. /\ Built(nd) /\ IsSeq(b) /\ IsSeq(nd.blocks) /\ Len(b) \in Nat /\ Len(nd.blocks) \in Nat
        /\ \A i \in 1 .. Len(b) : IsHeader(b[i])
        /\ \A i \in 1 .. Len(nd.blocks) : IsHeader(nd.blocks[i])
    BY DEF NodeInv, Built, IsBlock, IsSeq
  <1>2. k \in 0 .. Len(nd.blocks)
    BY <1>1, ForkHeight
  <1>3. switched(nd, b) = IF new.ok THEN new ELSE e
    BY DEF switched
  <1> HIDE DEF k
  <1>4. NodeInv(base, now)
    BY <1>2, PoppedInv
  <1>5. k \in 0 .. Len(b) /\ k \in Nat
    BY <1>1, <1>2
  <1>6. IsSeq(up) /\ \A m \in DOMAIN up : IsHeader(up[m])
    <2>1. IsSeq(up) /\ Len(up) = Len(b) - k /\ \A i \in 1 .. Len(b) - k : up[i] = b[k + i]
      BY <1>1, <1>5, Suffix
    <2> HIDE DEF up
    <2>2. DOMAIN up = 1 .. Len(b) - k
      BY <2>1, FiniteDomain
    <2>3. \A i \in 1 .. Len(b) - k : k + i \in 1 .. Len(b)
      BY <1>1, <1>5
    <2>4. QED
      BY <1>1, <2>1, <2>2, <2>3
  <1>7. IsSeq(back) /\ \A m \in DOMAIN back : IsHeader(back[m])
    <2> DEFINE s == nd.blocks
    <2>0. IsSeq(s) /\ Len(s) \in Nat /\ k \in 0 .. Len(s) /\ \A i \in 1 .. Len(s) : IsHeader(s[i])
      BY <1>1, <1>2
    <2>1. IsSeq(back) /\ Len(back) = Len(s) - k /\ \A i \in 1 .. Len(s) - k : back[i] = s[k + i]
      BY <2>0, Suffix
    <2> HIDE DEF back, s
    <2>2. DOMAIN back = 1 .. Len(s) - k
      BY <2>1, FiniteDomain
    <2>3. \A i \in 1 .. Len(s) - k : k + i \in 1 .. Len(s)
      BY <2>0
    <2>4. QED
      BY <2>0, <2>1, <2>2, <2>3
  <1> HIDE DEF base, up, back
  <1>8. NodeInv(new, now) /\ NodeInv(old, now)
    BY <1>4, <1>6, <1>7, FoldInv
  <1> HIDE DEF new, old
  <1>9. /\ DOMAIN e = DOMAIN old /\ e.blocks = old.blocks
        /\ e.states = old.states /\ e.pending = old.pending
    BY <1>8 DEF NodeInv, Built
  <1>10. NodeInv(e, now)
    BY <1>8, <1>9, FlagsInv
  <1>11. QED
    BY <1>3, <1>8, <1>10

\* push_block(): on the head, on another branch, or only remembered.
LEMMA PushInv ==
  ASSUME OneInterval, NEW now \in Nat, NEW nd, NodeInv(nd, now), NEW b, IsBlock(b)
  PROVE  NodeInv(push_block(nd, b), now)
  <1> DEFINE k == [nd EXCEPT !.known = @ \cup {b}, !.ok = TRUE]
             refused == [nd EXCEPT !.ok = FALSE]
             next == IF Front(b) = nd.blocks THEN apply_if_valid(k, Last(b))
                     ELSE IF Len(b) <= Len(nd.blocks) THEN k
                     ELSE IF fork_height(nd, b) >= nd.base THEN switched(k, b)
                     ELSE [k EXCEPT !.ok = FALSE]
             forgotten == [next EXCEPT !.known = @ \ {b}]
  <1>1. push_block(nd, b) = IF ~ fork_accepts(nd, b) THEN refused
                            ELSE IF next.ok THEN next ELSE forgotten
    BY DEF push_block
  <1>2. NodeInv(refused, now)
    <2>1. /\ DOMAIN refused = DOMAIN nd /\ refused.blocks = nd.blocks
          /\ refused.states = nd.states /\ refused.pending = nd.pending
      BY DEF NodeInv, Built
    <2>2. QED
      BY <2>1, FlagsInv
  <1>3. NodeInv(k, now) /\ k.blocks = nd.blocks
    <2>1. /\ DOMAIN k = DOMAIN nd /\ k.blocks = nd.blocks
          /\ k.states = nd.states /\ k.pending = nd.pending
      BY DEF NodeInv, Built
    <2> HIDE DEF k
    <2>2. QED
      BY <2>1, FlagsInv
  <1> HIDE DEF k, refused
  <1>4. NodeInv([k EXCEPT !.ok = FALSE], now)
    <2> DEFINE e == [k EXCEPT !.ok = FALSE]
    <2>1. /\ DOMAIN e = DOMAIN k /\ e.blocks = k.blocks
          /\ e.states = k.states /\ e.pending = k.pending
      BY <1>3 DEF NodeInv, Built
    <2> HIDE DEF e
    <2>2. NodeInv(e, now)
      BY <1>3, <2>1, FlagsInv
    <2>3. QED
      BY <2>2 DEF e
  <1>5. NodeInv(apply_if_valid(k, Last(b)), now)
    <2>1. Len(b) \in 1 .. Len(b)
      <3>1. Len(b) \in Nat /\ Len(b) # 0
        BY EmptySeq DEF IsBlock, IsSeq
      <3>2. QED
        BY <3>1
    <2>2. IsHeader(Last(b))
      BY <2>1 DEF IsBlock, Last
    <2>3. QED
      BY <1>3, <2>2, ApplyIfValidInv
  <1>6. ASSUME ~ (Len(b) <= Len(nd.blocks))
        PROVE  NodeInv(switched(k, b), now)
    <2>1. Len(b) \in Nat /\ Len(k.blocks) \in Nat /\ k.blocks = nd.blocks
      BY <1>3, HeadFacts DEF IsBlock, IsSeq, NodeInv
    <2>2. Len(b) > Len(k.blocks)
      BY <1>6, <2>1
    <2>3. QED
      BY <1>3, <2>2, SwitchedInv
  <1>7. NodeInv(next, now)
    BY <1>3, <1>4, <1>5, <1>6
  <1> HIDE DEF next
  <1>8. NodeInv(forgotten, now)
    <2>1. /\ DOMAIN forgotten = DOMAIN next /\ forgotten.blocks = next.blocks
          /\ forgotten.states = next.states /\ forgotten.pending = next.pending
      BY <1>7 DEF NodeInv, Built
    <2> HIDE DEF forgotten
    <2>2. QED
      BY <1>7, <2>1, FlagsInv
  <1>9. QED
    BY <1>1, <1>2, <1>7, <1>8


----------------------------------------------------------------------------
(* The invariant.                                                          *)

\* Time passes.
LEMMA LaterInv ==
  ASSUME NEW nd, NEW now \in Nat, NodeInv(nd, now)
  PROVE  NodeInv(nd, now + 1)
  BY DEF NodeInv, Timely

\* The pending timestamp of a slot that begins now.
LEMMA StampedInv ==
  ASSUME NEW n \in Nodes, ScheduleInv, is_scheduled(n)
  PROVE  /\ NodeInv(stamped(n), clock)
         /\ scheduled_time(head(node[n]), clock + 1) = clock
         /\ stamped(n).blocks = node[n].blocks /\ stamped(n).states = node[n].states
  <1> DEFINE g == head(node[n])
             e == stamped(n)
  <1>1. clock \in Nat /\ NodeInv(node[n], clock) /\ Built(node[n])
    BY DEF ScheduleInv, NodeInv
  <1>2. scheduled_time(g, clock + 1) = clock
    BY DEF is_scheduled
  <1>3. interval(g) = Interval
    BY <1>1, HeadFacts
  <1>4. ((clock + 1) \div Interval) * Interval = clock
    BY <1>2, <1>3 DEF scheduled_time, abs_slot
  <1>5. (clock + 1) \div Interval \in Nat
    BY <1>1, IntervalType, Division
  <1>6. clock % Interval = 0
    BY <1>4, <1>5, IntervalType, Multiples
  <1>7. /\ DOMAIN e = {"blocks", "states", "pending", "known", "base", "ok"}
        /\ e.blocks = node[n].blocks /\ e.states = node[n].states /\ e.pending = clock
    BY <1>1, <1>2 DEF stamped, Built
  <1> HIDE DEF e, g
  <1>8. Built(e)
    BY <1>1, <1>7 DEF Built
  <1>9. Timely(e, clock)
    BY <1>1, <1>6, <1>7 DEF Timely
  <1>10. QED
    BY <1>2, <1>7, <1>8, <1>9 DEF NodeInv, e, g

\* The block that a node signs.
LEMMA GeneratedBlock ==
  ASSUME NEW n \in Nodes, ScheduleInv, is_scheduled(n), NEW u \in Parameters \cup {None}, NEW o \in Orders
  PROVE  LET h == generated(n, u, o)
         IN  /\ IsHeader(h) /\ h.timestamp = clock /\ IsBlock(Append(node[n].blocks, h))
  <1> DEFINE h == generated(n, u, o)
             s == node[n].blocks
             b == Append(s, h)
  <1>1. clock \in Nat /\ Built(node[n])
    BY DEF ScheduleInv, NodeInv
  <1>2. h.timestamp = clock /\ h.update = u /\ h.order = o
    BY StampedInv DEF generated
  <1>3. IsHeader(h)
    BY <1>1, <1>2 DEF IsHeader
  <1> HIDE DEF h
  <1>4. IsSeq(s) /\ Len(s) \in Nat /\ \A i \in 1 .. Len(s) : IsHeader(s[i])
    BY <1>1, HeadFacts DEF Built
  <1> HIDE DEF s
  <1>5. /\ IsSeq(b) /\ b # <<>> /\ Len(b) = Len(s) + 1 /\ b[Len(s) + 1] = h
        /\ \A i \in 1 .. Len(s) : b[i] = s[i]
    BY <1>4, AppendSeq
  <1> HIDE DEF b
  <1>6. \A i \in 1 .. Len(b) : IsHeader(b[i])
    <2> TAKE i \in 1 .. Len(b)
    <2>1. i \in 1 .. Len(s) \/ i = Len(s) + 1
      BY <1>4, <1>5
    <2>2. QED
      BY <1>3, <1>4, <1>5, <2>1
  <1>7. QED
    BY <1>2, <1>3, <1>5, <1>6 DEF IsBlock, b, s, h

\* One node changes.
LEMMA OneNode ==
  ASSUME ScheduleInv, NEW n \in Nodes, NEW e, NodeInv(e, clock), node' = [node EXCEPT ![n] = e],
         UNCHANGED <<sent, clock>>
  PROVE  ScheduleInv'
  <1>1. /\ clock \in Nat /\ \A m \in Nodes : NodeInv(node[m], clock)
        /\ node = [m \in Nodes |-> node[m]] /\ \A b \in sent : IsBlock(b)
    BY DEF ScheduleInv
  <1>2. node' = [m \in Nodes |-> IF m = n THEN e ELSE node[m]]
    BY <1>1
  <1>3. \A m \in Nodes : NodeInv(node'[m], clock)
    BY <1>1, <1>2
  <1>4. node' = [m \in Nodes |-> node'[m]]
    BY <1>2
  <1>5. QED
    BY <1>1, <1>3, <1>4 DEF ScheduleInv

\* A node that is started again.
LEMMA FreshInv ==
  ASSUME NEW nd, NEW now \in Nat, NodeInv(nd, now)
  PROVE  NodeInv(Fresh(nd.blocks, nd.states), now)
  <1> DEFINE e == Fresh(nd.blocks, nd.states)
  <1>1. /\ DOMAIN e = {"blocks", "states", "pending", "known", "base", "ok"}
        /\ e.blocks = nd.blocks /\ e.states = nd.states /\ e.pending = head(nd).time
    BY DEF Fresh, head
  <1> HIDE DEF e
  <1>2. Built(nd)
    BY DEF NodeInv
  <1>3. Built(e)
    BY <1>1, <1>2 DEF Built
  <1>4. head(e) = head(nd) /\ head(nd).time \in Nat /\ head(nd).time % Interval = 0
    BY <1>1, <1>2, HeadFacts DEF head, IsGlobals
  <1>5. Timely(e, now)
    BY <1>1, <1>4, IntervalType DEF Timely
  <1>6. QED
    BY <1>3, <1>5 DEF NodeInv, e

\* The genesis state of every node.
LEMMA ScheduleInit == Init => ScheduleInv
  <1> SUFFICES ASSUME Init
               PROVE  ScheduleInv
    OBVIOUS
  <1> DEFINE e == Fresh(<<>>, <<GenesisState>>)
  <1>1. /\ DOMAIN e = {"blocks", "states", "pending", "known", "base", "ok"}
        /\ e.blocks = <<>> /\ e.states = <<GenesisState>> /\ e.pending = Last(<<GenesisState>>).time
    BY DEF Fresh
  <1>2. /\ IsSeq(<<>>) /\ Len(<<>>) = 0 /\ IsSeq(<<GenesisState>>) /\ Len(<<GenesisState>>) = 1
        /\ <<GenesisState>>[1] = GenesisState /\ Last(<<GenesisState>>) = GenesisState
    BY DEF IsSeq, ToSet, Last
  <1> HIDE DEF e
  <1>3. Built(e)
    BY <1>1, <1>2, GenesisGlobals DEF Built
  <1>4. head(e) = GenesisState
    BY <1>1, <1>2 DEF head
  <1>5. Timely(e, clock)
    BY <1>1, <1>2, <1>4, GenesisGlobals, IntervalType DEF Timely, IsGlobals
  <1>6. clock \in Nat /\ sent = {} /\ node = [n \in Nodes |-> e]
    BY ScheduleAssumption DEF Init, e
  <1>7. QED
    BY <1>3, <1>5, <1>6 DEF ScheduleInv, NodeInv

\* Every step keeps the invariant.
LEMMA ScheduleStep == OneInterval /\ ScheduleInv /\ [Next]_vars => ScheduleInv'
  <1> SUFFICES ASSUME OneInterval, ScheduleInv, [Next]_vars
               PROVE  ScheduleInv'
    OBVIOUS
  <1>0. /\ clock \in Nat /\ \A m \in Nodes : NodeInv(node[m], clock)
        /\ node = [m \in Nodes |-> node[m]] /\ \A b \in sent : IsBlock(b)
    BY DEF ScheduleInv
  <1>1. ASSUME NEW n \in Nodes, NEW b \in sent, handle_block(n, b)
        PROVE  ScheduleInv'
    <2>1. NodeInv(push_block(node[n], b), clock)
      BY <1>0, PushInv
    <2>2. QED
      BY <1>1, <2>1, OneNode DEF handle_block
  <1>2. ASSUME NEW n \in Nodes, NEW u \in Parameters \cup {None}, NEW o \in Orders,
               block_production_loop(n, u, o)
        PROVE  ScheduleInv'
    <2> DEFINE b == Append(node[n].blocks, generated(n, u, o))
               nd == push_block(stamped(n), b)
    <2>1. is_scheduled(n) /\ clock' = clock /\ node' = [node EXCEPT ![n] = nd]
          /\ sent' \subseteq sent \cup {b}
      BY <1>2 DEF block_production_loop
    <2>2. IsBlock(b) /\ NodeInv(stamped(n), clock)
      BY <2>1, GeneratedBlock, StampedInv
    <2> HIDE DEF b
    <2>3. NodeInv(nd, clock)
      BY <1>0, <2>2, PushInv
    <2> HIDE DEF nd
    <2>4. node' = [m \in Nodes |-> IF m = n THEN nd ELSE node[m]]
      BY <1>0, <2>1
    <2>5. \A m \in Nodes : NodeInv(node'[m], clock)
      BY <1>0, <2>3, <2>4
    <2>6. node' = [m \in Nodes |-> node'[m]]
      BY <2>4
    <2>7. QED
      BY <1>0, <2>1, <2>2, <2>5, <2>6 DEF ScheduleInv
  <1>3. ASSUME NEW n \in Nodes, block_production_fails(n)
        PROVE  ScheduleInv'
    BY <1>3, StampedInv, OneNode DEF block_production_fails
  <1>4. ASSUME NEW n \in Nodes, block_production_idle(n)
        PROVE  ScheduleInv'
    BY <1>4 DEF block_production_idle, ScheduleInv
  <1>5. ASSUME NEW n \in Nodes, restart(n)
        PROVE  ScheduleInv'
    <2>1. node' = [node EXCEPT ![n] = Fresh(node[n].blocks, node[n].states)]
      BY <1>0, <1>5 DEF restart
    <2>2. QED
      BY <1>0, <1>5, <2>1, FreshInv, OneNode DEF restart
  <1>6. CASE Tick
    <2>1. clock' = clock + 1 /\ node' = node /\ sent' = sent
      BY <1>6 DEF Tick
    <2>2. \A m \in Nodes : NodeInv(node[m], clock + 1)
      BY <1>0, LaterInv
    <2>3. QED
      BY <1>0, <2>1, <2>2 DEF ScheduleInv
  <1>7. CASE UNCHANGED vars
    BY <1>7 DEF vars, ScheduleInv
  <1>8. QED
    BY <1>1, <1>2, <1>3, <1>4, <1>5, <1>6, <1>7 DEF Next

\* While no proposal changes the block interval, the invariant holds.
THEOREM ScheduleInvariant ==
  ASSUME OneInterval
  PROVE  Spec => []ScheduleInv
  <1>1. OneInterval
    OBVIOUS
  <1>2. ScheduleInv /\ [Next]_vars => ScheduleInv'
    BY <1>1, ScheduleStep
  <1>3. QED
    BY <1>2, ScheduleInit, PTL DEF Spec

\* The states of two nodes with the same blocks are the same.
LEMMA SameStates ==
  ASSUME NEW s, NEW t, Built(s), Built(t), s.blocks = t.blocks
  PROVE  head(s) = head(t)
  <1> DEFINE n == Len(s.blocks)
             G == {k \in Nat : k <= n => s.states[k + 1] = t.states[k + 1]}
  <1>1. n \in Nat /\ head(s) = s.states[n + 1] /\ head(t) = t.states[n + 1]
    BY HeadFacts
  <1>2. /\ \A i \in 1 .. n : s.states[i + 1] = After(s.states[i], s.blocks[i], i)
        /\ \A i \in 1 .. n : t.states[i + 1] = After(t.states[i], s.blocks[i], i)
        /\ s.states[1] = GenesisState /\ t.states[1] = GenesisState
    BY DEF Built
  <1> HIDE DEF n
  <1>3. 0 \in G
    BY <1>2
  <1>4. ASSUME NEW k \in Nat, k \in G
        PROVE  k + 1 \in G
    <2> SUFFICES ASSUME k + 1 <= n
                 PROVE  s.states[k + 1 + 1] = t.states[k + 1 + 1]
      OBVIOUS
    <2>1. k + 1 \in 1 .. n /\ k <= n
      BY <1>1
    <2>2. s.states[k + 1] = t.states[k + 1]
      BY <1>4, <2>1
    <2>3. QED
      BY <1>2, <2>1, <2>2
  <1> HIDE DEF G
  <1>5. n \in G
    BY <1>1, <1>3, <1>4, NatSetInduction
  <1>6. QED
    BY <1>1, <1>5 DEF G

\* Two nodes with the same head agree on every block to come, whatever restarts,
\* fork switches and failed productions left in their pending timestamps.
THEOREM NodesAlwaysAgree ==
  ASSUME OneInterval
  PROVE  Spec => []NodesAgree
  <1>1. Spec => []ScheduleInv
    BY ScheduleInvariant
  <1>2. ScheduleInv => NodesAgree
    <2> SUFFICES ASSUME ScheduleInv, NEW m \in Nodes, NEW n \in Nodes, node[m].blocks = node[n].blocks,
                        NEW t \in clock .. (MaxTime + 2 * interval(head(node[n]))), NEW w \in Witnesses
                 PROVE  LET h == [timestamp |-> t, witness |-> w]
                        IN  validate_block_header(node[m], h) <=> validate_block_header(node[n], h)
      BY DEF NodesAgree
    <2> DEFINE h == [timestamp |-> t, witness |-> w]
    <2>1. clock \in Nat /\ NodeInv(node[m], clock) /\ NodeInv(node[n], clock)
      BY DEF ScheduleInv
    <2>2. h.timestamp \in Nat /\ h.timestamp >= clock
      <3>1. t \in Int /\ t >= clock
        OBVIOUS
      <3>2. QED
        BY <2>1, <3>1
    <2>3. head(node[m]) = head(node[n])
      BY <2>1, SameStates DEF NodeInv
    <2> HIDE DEF h
    <2>4. QED
      BY <2>1, <2>2, <2>3, ValidIsFitting DEF h
  <1>3. QED
    BY <1>1, <1>2, PTL

\* Every timestamp stays a multiple of the interval: the change of the interval
\* is the only way to the state in which no block is valid.
THEOREM AlignedWithoutChange ==
  ASSUME OneInterval
  PROVE  Spec => []TimestampsAligned
  <1>1. Spec => []ScheduleInv
    BY ScheduleInvariant
  <1>2. ScheduleInv => TimestampsAligned
    <2> SUFFICES ASSUME ScheduleInv, NEW n \in Nodes
                 PROVE  node[n].pending % interval(head(node[n])) = 0
      BY DEF TimestampsAligned
    <2>1. Built(node[n]) /\ node[n].pending % Interval = 0
      BY DEF ScheduleInv, NodeInv, Timely
    <2>2. QED
      BY <2>1, HeadFacts
  <1>3. QED
    BY <1>1, <1>2, PTL


----------------------------------------------------------------------------
(* Convergence.                                                            *)

\* A chain of blocks that were all valid where they were produced.
Lawful(b) == b # <<>> /\ \E nd : Built(nd) /\ nd.blocks = b

\* A node that was never started again and never failed to generate a block: its
\* pending timestamp is at most an interval ahead, it knows its own head and no
\* higher block.
Open(nd) ==
  /\ NodeInv(nd, 0) /\ nd.base = 0
  /\ \A b \in nd.known : Len(b) <= Len(nd.blocks)
  /\ nd.blocks = <<>> \/ nd.blocks \in nd.known

\* Every block that was broadcast is lawful, and so was every block before it.
Peaceful ==
  /\ \A n \in Nodes : Open(node[n]) /\ (node[n].blocks = <<>> \/ node[n].blocks \in sent)
  /\ \A b \in sent : Lawful(b) /\ \A k \in 1 .. Len(b) : SubSeq(b, 1, k) \in sent

PeaceInv == /\ restarts \in Nat /\ oversized \in Nat
            /\ restarts = 0 /\ oversized = 0 => Peaceful

\* A prefix that is one longer, and the whole.
LEMMA PrefixSteps ==
  ASSUME NEW s, IsSeq(s), NEW m \in 0 .. Len(s) - 1
  PROVE  /\ Append(SubSeq(s, 1, m), s[m + 1]) = SubSeq(s, 1, m + 1)
         /\ SubSeq(s, 1, Len(s)) = s /\ Len(s) \in Nat /\ m \in 0 .. Len(s) /\ m + 1 \in 0 .. Len(s)
  <1> DEFINE p == SubSeq(s, 1, m)
             x == Append(p, s[m + 1])
             y == SubSeq(s, 1, m + 1)
             z == SubSeq(s, 1, Len(s))
  <1>1. Len(s) \in Nat /\ DOMAIN s = 1 .. Len(s) /\ s \in Seq(ToSet(s))
    BY DEF IsSeq
  <1>2. m \in 0 .. Len(s) /\ m + 1 \in 0 .. Len(s) /\ m \in Nat /\ Len(s) \in 0 .. Len(s)
    BY <1>1
  <1>3. IsSeq(p) /\ Len(p) = m /\ \A i \in 1 .. m : p[i] = s[i]
    BY <1>2, Prefix
  <1>4. IsSeq(y) /\ Len(y) = m + 1 /\ \A i \in 1 .. m + 1 : y[i] = s[i]
    BY <1>2, Prefix
  <1>5. IsSeq(z) /\ Len(z) = Len(s) /\ \A i \in 1 .. Len(s) : z[i] = s[i]
    BY <1>2, Prefix
  <1> HIDE DEF p, y, z
  <1>6. /\ IsSeq(x) /\ Len(x) = m + 1 /\ x[m + 1] = s[m + 1]
        /\ \A i \in 1 .. m : x[i] = p[i]
    BY <1>3, AppendSeq
  <1> HIDE DEF x
  <1>7. ASSUME NEW i \in 1 .. m + 1
        PROVE  x[i] = y[i]
    <2>1. i \in 1 .. m \/ i = m + 1
      BY <1>2
    <2>2. QED
      BY <1>3, <1>4, <1>6, <2>1
  <1>8. x = [i \in 1 .. m + 1 |-> x[i]] /\ y = [i \in 1 .. m + 1 |-> y[i]]
    BY <1>4, <1>6 DEF IsSeq
  <1>9. x = y
    BY <1>7, <1>8
  <1>10. z = [i \in 1 .. Len(s) |-> z[i]] /\ s = [i \in 1 .. Len(s) |-> s[i]]
    BY <1>1, <1>5 DEF IsSeq
  <1>11. z = s
    BY <1>5, <1>10
  <1>12. QED
    BY <1>1, <1>2, <1>9, <1>11 DEF x, y, z, p

\* The next block of a lawful chain applies wherever the blocks before it are.
LEMMA NextApplies ==
  ASSUME OneInterval, NEW w, Built(w), NEW x, NodeInv(x, 0), x.ok = TRUE,
         NEW m \in 0 .. Len(w.blocks) - 1, x.blocks = SubSeq(w.blocks, 1, m)
  PROVE  LET y == apply_if_valid(x, w.blocks[m + 1])
         IN  /\ NodeInv(y, 0) /\ y.ok = TRUE /\ y.blocks = SubSeq(w.blocks, 1, m + 1)
             /\ y.known = x.known /\ y.base = x.base
  <1> DEFINE h == w.blocks[m + 1]
             n == Len(w.blocks)
             v == popped(w, m)
             y == apply_if_valid(x, h)
  <1>1. n \in Nat /\ IsSeq(w.blocks) /\ IsSeq(w.states) /\ Len(w.states) = n + 1
    BY HeadFacts DEF Built
  <1>2. m \in 0 .. n /\ m + 1 \in 1 .. n /\ m \in Nat /\ m + 1 \in 0 .. n + 1
    BY <1>1
  <1>3. IsHeader(h) /\ Fitting(w.states[m + 1], h)
    BY <1>2 DEF Built
  <1>4. head(x) = w.states[m + 1]
    <2> DEFINE u == [w EXCEPT !.pending = 0]
    <2>1. NodeInv(u, 0) /\ u.blocks = w.blocks /\ u.states = w.states
      <3>1. /\ DOMAIN u = DOMAIN w /\ u.blocks = w.blocks /\ u.states = w.states /\ u.pending = 0
        BY DEF Built
      <3> HIDE DEF u
      <3>2. Built(u)
        BY <3>1 DEF Built
      <3>3. 0 % Interval = 0
        BY IntervalType
      <3>4. QED
        BY <3>1, <3>2, <3>3 DEF NodeInv, Timely
    <2> HIDE DEF u
    <2>2. NodeInv(popped(u, m), 0)
      BY <1>2, <2>1, PoppedInv
    <2>3. popped(u, m).blocks = SubSeq(w.blocks, 1, m) /\ popped(u, m).states = SubSeq(w.states, 1, m + 1)
      BY <2>1 DEF popped, NodeInv, Built
    <2>4. head(x) = head(popped(u, m))
      BY <2>2, <2>3, SameStates DEF NodeInv
    <2>5. /\ Len(SubSeq(w.states, 1, m + 1)) = m + 1
          /\ SubSeq(w.states, 1, m + 1)[m + 1] = w.states[m + 1]
      <3>1. m + 1 \in 0 .. Len(w.states) /\ m + 1 \in 1 .. m + 1
        BY <1>1, <1>2
      <3>2. QED
        BY <1>1, <3>1, Prefix
    <2>6. QED
      BY <2>3, <2>4, <2>5 DEF head, Last
  <1>5. validate_block_header(x, h)
    <2>1. h.timestamp \in Nat /\ h.timestamp >= 0
      BY <1>3 DEF IsHeader
    <2>2. QED
      BY <1>3, <1>4, <2>1, ValidIsFitting
  <1> HIDE DEF h
  <1>6. y = apply_block(x, h)
    BY <1>5 DEF apply_if_valid
  <1>7. NodeInv(apply_block(x, h), 0)
    BY <1>3, <1>5, AppliedInv
  <1>8. /\ apply_block(x, h).blocks = Append(x.blocks, h) /\ apply_block(x, h).ok = x.ok
        /\ apply_block(x, h).known = x.known /\ apply_block(x, h).base = x.base
    BY DEF apply_block, NodeInv, Built
  <1>9. Append(SubSeq(w.blocks, 1, m), h) = SubSeq(w.blocks, 1, m + 1)
    BY <1>1, PrefixSteps DEF h
  <1>10. QED
    BY <1>6, <1>7, <1>8, <1>9 DEF h

\* A lawful branch applies to its end.
LEMMA BranchApplies ==
  ASSUME OneInterval, NEW w, Built(w), NEW base, NodeInv(base, 0), base.ok = TRUE,
         NEW k \in 0 .. Len(w.blocks), base.blocks = SubSeq(w.blocks, 1, k)
  PROVE  LET y == FoldLeft(apply_if_valid, base, SubSeq(w.blocks, k + 1, Len(w.blocks)))
         IN  /\ NodeInv(y, 0) /\ y.ok = TRUE /\ y.blocks = w.blocks
             /\ y.known = base.known /\ y.base = base.base
  <1> DEFINE b == w.blocks
             n == Len(b)
             branch == SubSeq(b, k + 1, n)
             g == CHOOSE g : Branched(branch, base, g)
             Good(y, m) == /\ NodeInv(y, 0) /\ y.ok = TRUE /\ y.blocks = SubSeq(b, 1, k + m)
                           /\ y.known = base.known /\ y.base = base.base
             G == {m \in Nat : m <= n - k => Good(g[1 .. m], m)}
  <1>1. n \in Nat /\ k \in Nat /\ k <= n /\ IsSeq(b)
    BY HeadFacts DEF Built
  <1>2. IsSeq(branch) /\ Len(branch) = n - k /\ \A i \in 1 .. n - k : branch[i] = b[k + i]
    BY <1>1, Suffix
  <1>3. Branched(branch, base, g)
    BY <1>2, BranchedExist
  <1>4. FoldLeft(apply_if_valid, base, branch) = g[DOMAIN branch]
    BY BranchUnfold
  <1> HIDE DEF g, branch, Good
  <1>5. DOMAIN branch = 1 .. n - k
    BY <1>2, FiniteDomain
  <1>6. \A T \in SUBSET (1 .. n - k) : g[T] = BranchStep(branch, base, g, T)
    BY <1>3, <1>5 DEF Branched
  <1>7. 0 \in G
    <2>1. 1 .. 0 = {} /\ {} \in SUBSET (1 .. n - k)
      OBVIOUS
    <2>2. g[1 .. 0] = base
      BY <1>6, <2>1 DEF BranchStep
    <2>3. k + 0 = k
      BY <1>1
    <2>4. QED
      BY <2>2, <2>3 DEF Good
  <1>8. ASSUME NEW m \in Nat, m \in G
        PROVE  m + 1 \in G
    <2> SUFFICES ASSUME m + 1 <= n - k
                 PROVE  Good(g[1 .. m + 1], m + 1)
      OBVIOUS
    <2> DEFINE T == 1 .. m + 1
    <2>1. T \in SUBSET (1 .. n - k) /\ T # {} /\ T \ {m + 1} = 1 .. m /\ m + 1 \in T
      <3>1. m + 1 \in T
        OBVIOUS
      <3>2. \A x \in T : x \in 1 .. n - k
        BY <1>1
      <3>3. \A x \in T \ {m + 1} : x \in 1 .. m
        OBVIOUS
      <3>4. \A x \in 1 .. m : x \in T \ {m + 1}
        OBVIOUS
      <3> HIDE DEF T
      <3>5. QED
        BY <3>1, <3>2, <3>3, <3>4
    <2>2. Max(T) = m + 1
      <3>1. T \subseteq 0 .. m + 1
        OBVIOUS
      <3>0. m + 1 \in Nat
        OBVIOUS
      <3>2. Max(T) \in T /\ \A x \in T : Max(T) >= x
        <4> HIDE DEF T
        <4>1. QED
          BY <2>1, <3>0, <3>1, MaxIn
      <3>3. QED
        BY <2>1, <3>2
    <2>3. g[T] = apply_if_valid(g[1 .. m], branch[m + 1])
      <3> HIDE DEF T
      <3>1. g[T] = BranchStep(branch, base, g, T)
        BY <1>6, <2>1
      <3>2. QED
        BY <2>1, <2>2, <3>1 DEF BranchStep
    <2>4. Good(g[1 .. m], m)
      BY <1>1, <1>8
    <2>5. branch[m + 1] = b[k + m + 1] /\ k + m \in 0 .. n - 1
      <3>1. m + 1 \in 1 .. n - k
        BY <1>1
      <3>2. k + (m + 1) = k + m + 1
        BY <1>1
      <3>3. QED
        BY <1>1, <1>2, <3>1, <3>2
    <2> DEFINE x == g[1 .. m]
    <2> HIDE DEF x, T
    <2>6. LET y == apply_if_valid(x, b[k + m + 1])
          IN  /\ NodeInv(y, 0) /\ y.ok = TRUE /\ y.blocks = SubSeq(b, 1, k + m + 1)
              /\ y.known = x.known /\ y.base = x.base
      BY <2>4, <2>5, NextApplies, ZenonT(60) DEF Good, x
    <2>7. k + (m + 1) = k + m + 1
      BY <1>1
    <2>8. QED
      BY <2>3, <2>4, <2>5, <2>6, <2>7 DEF Good, x, T
  <1>9. n - k \in G
    <2>1. n - k \in Nat
      BY <1>1
    <2> HIDE DEF G
    <2>2. QED
      BY <1>7, <1>8, <2>1, NatSetInduction
  <1>10. Good(g[1 .. n - k], n - k) /\ k + (n - k) = n
    BY <1>1, <1>9
  <1>11. SubSeq(b, 1, n) = b
    <2>1. CASE n = 0
      BY <1>1, <2>1 DEF IsSeq
    <2>2. CASE n # 0
      <3>1. 0 \in 0 .. n - 1
        BY <1>1, <2>2
      <3>2. QED
        BY <1>1, <3>1, PrefixSteps
    <2>3. QED
      BY <2>1, <2>2
  <1>12. QED
    BY <1>4, <1>5, <1>10, <1>11 DEF Good, branch


\* A lawful block that the fork database accepts is never refused.
LEMMA PushLawful ==
  ASSUME OneInterval, NEW nd, Open(nd), NEW b, Lawful(b)
  PROVE  LET e == push_block(nd, b)
         IN  /\ Open(e) /\ (e.blocks = nd.blocks \/ e.blocks = b)
             /\ fork_accepts(nd, b) => e.ok = TRUE /\ e.known = nd.known \cup {b}
  <1> DEFINE k == [nd EXCEPT !.known = @ \cup {b}, !.ok = TRUE]
             refused == [nd EXCEPT !.ok = FALSE]
             next == IF Front(b) = nd.blocks THEN apply_if_valid(k, Last(b))
                     ELSE IF Len(b) <= Len(nd.blocks) THEN k
                     ELSE IF fork_height(nd, b) >= nd.base THEN switched(k, b)
                     ELSE [k EXCEPT !.ok = FALSE]
             Done(y) == /\ NodeInv(y, 0) /\ y.ok = TRUE /\ y.blocks = b
                        /\ y.known = nd.known \cup {b} /\ y.base = 0
  <1>1. PICK w : Built(w) /\ w.blocks = b
    BY DEF Lawful
  <1>2. /\ NodeInv(nd, 0) /\ nd.base = 0 /\ \A c \in nd.known : Len(c) <= Len(nd.blocks)
        /\ (nd.blocks = <<>> \/ nd.blocks \in nd.known) /\ b # <<>>
    BY DEF Open, Lawful
  <1>3. /\ Len(b) \in Nat /\ IsSeq(b) /\ IsBlock(b) /\ Len(nd.blocks) \in Nat /\ IsSeq(nd.blocks)
    BY <1>1, <1>2, HeadFacts DEF Built, NodeInv, IsBlock
  <1>4. Len(b) # 0 /\ Len(b) - 1 \in 0 .. Len(b) - 1
    <2>1. Len(b) # 0
      BY <1>2, <1>3, EmptySeq DEF IsSeq
    <2>2. QED
      BY <1>3, <2>1
  <1>5. /\ NodeInv(k, 0) /\ k.blocks = nd.blocks /\ k.ok = TRUE
        /\ k.known = nd.known \cup {b} /\ k.base = 0 /\ k.states = nd.states
    <2>1. /\ DOMAIN k = DOMAIN nd /\ k.blocks = nd.blocks
          /\ k.states = nd.states /\ k.pending = nd.pending
          /\ k.ok = TRUE /\ k.known = nd.known \cup {b} /\ k.base = 0
      BY <1>2 DEF NodeInv, Built
    <2> HIDE DEF k
    <2>2. QED
      BY <1>2, <2>1, FlagsInv
  <1>6. push_block(nd, b) = IF ~ fork_accepts(nd, b) THEN refused
                            ELSE IF next.ok THEN next ELSE [next EXCEPT !.known = @ \ {b}]
    BY DEF push_block
  <1>7. Open(refused) /\ refused.blocks = nd.blocks
    <2>1. /\ DOMAIN refused = DOMAIN nd /\ refused.blocks = nd.blocks
          /\ refused.states = nd.states /\ refused.pending = nd.pending
          /\ refused.known = nd.known /\ refused.base = nd.base
      BY <1>2 DEF NodeInv, Built
    <2> HIDE DEF refused
    <2>2. NodeInv(refused, 0)
      BY <1>2, <2>1, FlagsInv
    <2>3. QED
      BY <1>2, <2>1, <2>2 DEF Open
  <1> HIDE DEF k, refused
  <1>8. ASSUME Front(b) = nd.blocks
        PROVE  Done(apply_if_valid(k, Last(b))) /\ Len(b) > Len(nd.blocks)
    <2> DEFINE m == Len(b) - 1
    <2>1. Front(b) = SubSeq(b, 1, m) /\ Last(b) = b[Len(b)] /\ m + 1 = Len(b)
      BY <1>3 DEF Front, Last
    <2>2. m \in 0 .. Len(w.blocks) - 1 /\ k.blocks = SubSeq(w.blocks, 1, m)
      BY <1>1, <1>4, <1>5, <1>8, <2>1
    <2>3. Len(nd.blocks) = m
      BY <1>3, <1>8, <1>2, FrontSeq
    <2> HIDE DEF m
    <2>4. LET y == apply_if_valid(k, w.blocks[m + 1])
          IN  /\ NodeInv(y, 0) /\ y.ok = TRUE /\ y.blocks = SubSeq(w.blocks, 1, m + 1)
              /\ y.known = k.known /\ y.base = k.base
      <3>1. Built(w) /\ NodeInv(k, 0) /\ k.ok = TRUE
        BY <1>1, <1>5
      <3> HIDE DEF Done, next
      <3>2. QED
        BY <2>2, <3>1, NextApplies, ZenonT(60)
    <2>5. SubSeq(b, 1, Len(b)) = b
      BY <1>3, <1>4, PrefixSteps
    <2>6. Len(b) > Len(nd.blocks)
      BY <1>3, <2>3 DEF m
    <2>7. QED
      BY <1>1, <1>5, <2>1, <2>4, <2>5, <2>6
  <1>9. ASSUME ~ (Len(b) <= Len(nd.blocks))
        PROVE  Done(switched(k, b)) /\ fork_height(nd, b) >= nd.base
    <2> DEFINE j == fork_height(k, b)
               base == popped(k, j)
               new == FoldLeft(apply_if_valid, base, SubSeq(b, j + 1, Len(b)))
    <2>1. Len(b) > Len(k.blocks) /\ Len(b) > Len(nd.blocks) /\ Built(k) /\ Built(nd)
      BY <1>2, <1>3, <1>5, <1>9 DEF NodeInv
    <2>2. j \in 0 .. Len(k.blocks) /\ SubSeq(b, 1, j) = SubSeq(k.blocks, 1, j)
      BY <1>3, <2>1, ForkHeight
    <2>3. fork_height(nd, b) \in 0 .. Len(nd.blocks)
      BY <1>3, <2>1, ForkHeight
    <2>4. switched(k, b) = IF new.ok THEN new
            ELSE [FoldLeft(apply_if_valid, base, SubSeq(k.blocks, j + 1, Len(k.blocks))) EXCEPT !.ok = FALSE]
      BY DEF switched
    <2> HIDE DEF j
    <2>5. NodeInv(base, 0)
      BY <1>5, <2>2, PoppedInv
    <2>6. base.blocks = SubSeq(k.blocks, 1, j) /\ base.ok = TRUE /\ base.known = k.known /\ base.base = k.base
      BY <2>1 DEF popped, Built
    <2>7. j \in 0 .. Len(w.blocks)
      BY <1>1, <1>3, <1>5, <2>1, <2>2
    <2> HIDE DEF base
    <2>8. Done(new)
      <3>1. Built(w) /\ base.ok = TRUE /\ base.blocks = SubSeq(w.blocks, 1, j)
        BY <1>1, <2>2, <2>6
      <3>2. LET y == FoldLeft(apply_if_valid, base, SubSeq(w.blocks, j + 1, Len(w.blocks)))
            IN  /\ NodeInv(y, 0) /\ y.ok = TRUE /\ y.blocks = w.blocks
                /\ y.known = base.known /\ y.base = base.base
        <4> HIDE DEF Done, next
        <4>1. QED
          BY <2>5, <2>7, <3>1, BranchApplies, ZenonT(60)
      <3>3. QED
        BY <1>1, <1>5, <2>6, <3>2
    <2> HIDE DEF new
    <2>9. QED
      BY <1>2, <1>3, <2>3, <2>4, <2>8
  <1>10. Len(b) > Len(nd.blocks) \/ Len(b) <= Len(nd.blocks)
    BY <1>3
  <1>11. ASSUME NEW y, Done(y), Len(b) > Len(nd.blocks)
         PROVE  Open(y) /\ y.ok = TRUE /\ y.blocks = b /\ y.known = nd.known \cup {b}
    <2>1. \A c \in y.known : Len(c) <= Len(b)
      <3> TAKE c \in y.known
      <3>1. CASE c = b
        BY <1>3, <3>1
      <3>2. CASE c \in nd.known
        <4>1. Len(c) <= Len(nd.blocks)
          BY <1>2, <3>2
        <4>2. CASE Len(c) \in Int
          BY <1>3, <1>11, <4>1, <4>2
        <4>3. QED
          BY <1>3, <1>11, <4>1
      <3>3. QED
        BY <1>11, <3>1, <3>2
    <2>2. QED
      BY <1>11, <2>1 DEF Open
  <1>12. ASSUME Len(b) <= Len(nd.blocks)
         PROVE  Open(k)
    <2>1. \A c \in k.known : Len(c) <= Len(k.blocks)
      BY <1>2, <1>5, <1>12
    <2>2. QED
      BY <1>2, <1>5, <2>1 DEF Open
  <1>13. /\ Open(next) /\ next.ok = TRUE /\ (next.blocks = nd.blocks \/ next.blocks = b)
         /\ next.known = nd.known \cup {b}
    <2>1. CASE Front(b) = nd.blocks
      BY <1>8, <1>11, <2>1
    <2>2. CASE Front(b) # nd.blocks /\ Len(b) <= Len(nd.blocks)
      BY <1>5, <1>12, <2>2
    <2>3. CASE Front(b) # nd.blocks /\ ~ (Len(b) <= Len(nd.blocks))
      BY <1>9, <1>10, <1>11, <2>3
    <2>4. QED
      BY <2>1, <2>2, <2>3
  <1> HIDE DEF next, Done
  <1>14. QED
    BY <1>6, <1>7, <1>13


\* The slot of a time that starts it.
LEMMA Quotient ==
  ASSUME NEW q \in Nat, NEW m \in Nat \ {0}
  PROVE  (q * m) \div m = q
  OBVIOUS

\* A node signs only what it will itself apply: the time that the production task
\* asks the schedule for, one second ahead, is in the slot that begins now.
LEMMA SignedFits ==
  ASSUME NEW n \in Nodes, ScheduleInv, is_scheduled(n), NEW u \in Parameters \cup {None}, NEW o \in Orders
  PROVE  Fitting(head(node[n]), generated(n, u, o))
  <1> DEFINE g == head(node[n])
             h == generated(n, u, o)
             q == (clock + 1) \div Interval
  <1>1. clock \in Nat /\ interval(g) = Interval
    BY HeadFacts DEF ScheduleInv, NodeInv
  <1>2. q \in Nat
    BY <1>1, IntervalType, Division
  <1>3. q * Interval = clock /\ scheduled(g, clock + 1)
    BY <1>1, StampedInv DEF scheduled_time, abs_slot, is_scheduled
  <1>4. abs_slot(g, clock + 1) = q /\ abs_slot(g, clock) = clock \div Interval
    BY <1>1 DEF abs_slot
  <1>5. h.timestamp = clock /\ h.witness = scheduled_witness(g, clock + 1)
    BY StampedInv DEF generated
  <1> HIDE DEF g, h, q
  <1>6. clock \div Interval = q
    BY <1>2, <1>3, IntervalType, Quotient
  <1>7. scheduled(g, clock) /\ scheduled_time(g, clock) = clock
    BY <1>1, <1>3, <1>4, <1>6 DEF scheduled, scheduled_time
  <1>8. scheduled_witness(g, clock + 1) = scheduled_witness(g, clock)
    BY <1>4, <1>6 DEF scheduled_witness
  <1>9. QED
    BY <1>5, <1>7, <1>8 DEF Fitting, g, h

\* The block that a node signs extends its chain, there and anywhere.
LEMMA SignedApplies ==
  ASSUME OneInterval, ScheduleInv, NEW n \in Nodes, Open(node[n]), is_scheduled(n),
         NEW u \in Parameters \cup {None}, NEW o \in Orders
  PROVE  LET b == Append(node[n].blocks, generated(n, u, o))
             e == push_block(stamped(n), b)
         IN  /\ Open(e) /\ e.ok = TRUE /\ e.blocks = b /\ Lawful(b) /\ e.known = node[n].known \cup {b}
             /\ Front(b) = node[n].blocks /\ Last(b) = generated(n, u, o)
             /\ head(e) = After(head(node[n]), generated(n, u, o), Len(node[n].blocks) + 1)
  <1> DEFINE h == generated(n, u, o)
             s == node[n].blocks
             b == Append(s, h)
             st == stamped(n)
             k == [st EXCEPT !.known = @ \cup {b}, !.ok = TRUE]
             e == apply_block(k, h)
  <1>1. /\ clock \in Nat /\ Built(node[n]) /\ node[n].base = 0
        /\ (s = <<>> \/ s \in node[n].known) /\ \A c \in node[n].known : Len(c) <= Len(s)
    BY DEF Open, NodeInv, ScheduleInv
  <1>2. IsHeader(h) /\ h.timestamp = clock /\ Fitting(head(node[n]), h)
    BY GeneratedBlock, SignedFits
  <1>3. /\ NodeInv(st, clock) /\ st.blocks = s /\ st.states = node[n].states
    BY StampedInv
  <1>4. st.known = node[n].known /\ st.base = 0
    BY <1>1 DEF stamped, Built
  <1> HIDE DEF h, st
  <1>5. /\ k.blocks = s /\ k.states = node[n].states /\ k.ok = TRUE /\ k.base = 0
        /\ k.known = node[n].known \cup {b} /\ k.pending = st.pending /\ DOMAIN k = DOMAIN st
    BY <1>3, <1>4 DEF NodeInv, Built
  <1> HIDE DEF k
  <1>6. NodeInv(k, clock) /\ head(k) = head(node[n])
    BY <1>3, <1>5, FlagsInv DEF head
  <1>7. validate_block_header(k, h)
    <2>1. h.timestamp \in Nat /\ h.timestamp >= clock
      BY <1>1, <1>2
    <2>2. QED
      BY <1>1, <1>2, <1>6, <2>1, ValidIsFitting
  <1>8. NodeInv(e, 0) /\ head(e) = After(head(node[n]), h, Len(s) + 1)
    BY <1>1, <1>2, <1>5, <1>6, <1>7, AppliedInv
  <1>9. e.blocks = b /\ e.ok = TRUE /\ e.base = 0 /\ e.known = node[n].known \cup {b}
    BY <1>5, <1>6 DEF apply_block, NodeInv, Built
  <1>10. IsSeq(s) /\ Len(s) \in Nat
    BY <1>1, HeadFacts DEF Built
  <1> HIDE DEF s
  <1>11. IsSeq(b) /\ b # <<>> /\ Len(b) = Len(s) + 1 /\ Front(b) = s /\ Last(b) = h
    <2>1. /\ IsSeq(b) /\ b # <<>> /\ Len(b) = Len(s) + 1 /\ b[Len(s) + 1] = h
          /\ \A i \in 1 .. Len(s) : b[i] = s[i]
      BY <1>10, AppendSeq
    <2> HIDE DEF b
    <2>2. Last(b) = h
      BY <2>1 DEF Last
    <2>3. IsSeq(Front(b)) /\ Len(Front(b)) = Len(b) - 1 /\ \A i \in 1 .. Len(b) - 1 : Front(b)[i] = b[i]
      BY <2>1, FrontSeq
    <2>4. Len(b) - 1 = Len(s)
      BY <1>10, <2>1
    <2>5. /\ Front(b) = [i \in 1 .. Len(s) |-> Front(b)[i]] /\ s = [i \in 1 .. Len(s) |-> s[i]]
      BY <1>10, <2>3, <2>4 DEF IsSeq
    <2>6. Front(b) = s
      BY <2>1, <2>3, <2>4, <2>5
    <2>7. QED
      BY <2>1, <2>2, <2>6
  <1>12. push_block(st, b) = e
    <2>1. Front(b) = st.blocks /\ fork_accepts(st, b)
      BY <1>1, <1>3, <1>4, <1>11 DEF fork_accepts
    <2>2. apply_if_valid(k, Last(b)) = e
      BY <1>5, <1>7, <1>11 DEF apply_if_valid
    <2> HIDE DEF e
    <2>3. QED
      BY <1>9, <2>1, <2>2 DEF push_block, k
  <1> HIDE DEF e, b
  <1>13. \A c \in e.known : Len(c) <= Len(e.blocks)
    <2> TAKE c \in e.known
    <2>1. CASE c = b
      BY <1>9, <1>10, <1>11, <2>1
    <2>2. CASE c \in node[n].known
      <3>1. Len(c) <= Len(s)
        BY <1>1, <2>2 DEF s
      <3>2. CASE Len(c) \in Int
        BY <1>9, <1>10, <1>11, <3>1, <3>2
      <3>3. QED
        BY <1>9, <1>10, <1>11, <3>1
    <2>3. QED
      BY <1>9, <2>1, <2>2
  <1>14. Open(e) /\ Lawful(b)
    BY <1>8, <1>9, <1>11, <1>13 DEF Open, Lawful, NodeInv
  <1>15. QED
    BY <1>8, <1>9, <1>11, <1>12, <1>14 DEF b, s, h, st


\* A prefix of a block that extends a chain is the block or a prefix of the chain.
LEMMA PrefixOfExtension ==
  ASSUME NEW s, IsSeq(s), NEW x, NEW k \in 1 .. Len(Append(s, x))
  PROVE  \/ SubSeq(Append(s, x), 1, k) = Append(s, x)
         \/ k \in 1 .. Len(s) /\ s # <<>> /\ SubSeq(Append(s, x), 1, k) = SubSeq(s, 1, k)
  <1> DEFINE b == Append(s, x)
             y == SubSeq(b, 1, k)
             z == SubSeq(s, 1, k)
  <1>1. /\ IsSeq(b) /\ Len(s) \in Nat /\ Len(b) = Len(s) + 1
        /\ \A i \in 1 .. Len(s) : b[i] = s[i]
    BY AppendSeq
  <1> HIDE DEF b
  <1>2. k \in 1 .. Len(s) \/ k = Len(b)
    BY <1>1 DEF b
  <1>3. CASE k = Len(b)
    <2>1. 0 \in 0 .. Len(b) - 1
      BY <1>1
    <2>2. SubSeq(b, 1, Len(b)) = b
      BY <1>1, <2>1, PrefixSteps
    <2>3. QED
      BY <1>3, <2>2 DEF b
  <1>4. CASE k \in 1 .. Len(s)
    <2>1. k \in 0 .. Len(s) /\ k \in 0 .. Len(b)
      BY <1>1, <1>4
    <2>2. IsSeq(y) /\ Len(y) = k /\ \A i \in 1 .. k : y[i] = b[i]
      BY <1>1, <2>1, Prefix
    <2>3. IsSeq(z) /\ Len(z) = k /\ \A i \in 1 .. k : z[i] = s[i]
      BY <2>1, Prefix
    <2> HIDE DEF y, z
    <2>4. ASSUME NEW i \in 1 .. k
          PROVE  y[i] = z[i]
      <3>1. i \in 1 .. Len(s)
        BY <1>1, <1>4
      <3>2. QED
        BY <1>1, <2>2, <2>3, <3>1
    <2>5. y = [i \in 1 .. k |-> y[i]] /\ z = [i \in 1 .. k |-> z[i]]
      BY <2>2, <2>3 DEF IsSeq
    <2>6. y = z
      BY <2>4, <2>5
    <2>7. s # <<>>
      BY <1>4
    <2>8. QED
      BY <1>4, <2>6, <2>7 DEF y, z, b
  <1>5. QED
    BY <1>2, <1>3, <1>4

\* At the start there is peace.
LEMMA PeaceInit == Init => PeaceInv
  <1> SUFFICES ASSUME Init
               PROVE  PeaceInv
    OBVIOUS
  <1> DEFINE e == Fresh(<<>>, <<GenesisState>>)
  <1>1. /\ DOMAIN e = {"blocks", "states", "pending", "known", "base", "ok"}
        /\ e.blocks = <<>> /\ e.states = <<GenesisState>> /\ e.pending = Last(<<GenesisState>>).time
        /\ e.known = {} /\ e.base = Len(<<>>)
    BY DEF Fresh
  <1>2. /\ IsSeq(<<>>) /\ Len(<<>>) = 0 /\ IsSeq(<<GenesisState>>) /\ Len(<<GenesisState>>) = 1
        /\ <<GenesisState>>[1] = GenesisState /\ Last(<<GenesisState>>) = GenesisState
    BY DEF IsSeq, ToSet, Last
  <1> HIDE DEF e
  <1>3. Built(e)
    BY <1>1, <1>2, GenesisGlobals DEF Built
  <1>4. head(e) = GenesisState
    BY <1>1, <1>2 DEF head
  <1>5. Timely(e, 0)
    BY <1>1, <1>2, <1>4, GenesisGlobals, IntervalType DEF Timely, IsGlobals
  <1>6. Open(e)
    BY <1>1, <1>2, <1>3, <1>5 DEF Open, NodeInv
  <1>7. restarts = 0 /\ oversized = 0 /\ sent = {} /\ node = [n \in Nodes |-> e]
    BY DEF Init, e
  <1>8. Peaceful
    BY <1>1, <1>6, <1>7 DEF Peaceful
  <1>9. QED
    BY <1>7, <1>8 DEF PeaceInv

\* One node changes, and perhaps a block is sent.
LEMMA PeaceOneNode ==
  ASSUME ScheduleInv, Peaceful, NEW n \in Nodes, NEW e, Open(e), node' = [node EXCEPT ![n] = e],
         sent \subseteq sent', e.blocks = <<>> \/ e.blocks \in sent',
         \A b \in sent' : Lawful(b) /\ \A k \in 1 .. Len(b) : SubSeq(b, 1, k) \in sent'
  PROVE  Peaceful'
  <1>1. node' = [m \in Nodes |-> IF m = n THEN e ELSE node[m]]
    BY DEF ScheduleInv
  <1>2. ASSUME NEW m \in Nodes
        PROVE  Open(node'[m]) /\ (node'[m].blocks = <<>> \/ node'[m].blocks \in sent')
    <2>1. CASE m = n
      BY <1>1, <2>1
    <2>2. CASE m # n
      <3>1. node'[m] = node[m]
        BY <1>1, <2>2
      <3>2. Open(node[m]) /\ (node[m].blocks = <<>> \/ node[m].blocks \in sent)
        BY DEF Peaceful
      <3>3. QED
        BY <3>1, <3>2
    <2>3. QED
      BY <2>1, <2>2
  <1>3. QED
    BY <1>2 DEF Peaceful

\* Every step keeps the peace.
LEMMA PeaceStep == OneInterval /\ ScheduleInv /\ PeaceInv /\ [Next]_vars => PeaceInv'
  <1> SUFFICES ASSUME OneInterval, ScheduleInv, PeaceInv, [Next]_vars
               PROVE  PeaceInv'
    OBVIOUS
  <1>0. restarts \in Nat /\ oversized \in Nat
    BY DEF PeaceInv
  <1>1. ASSUME NEW n \in Nodes, NEW b \in sent, handle_block(n, b)
        PROVE  PeaceInv'
    <2>1. /\ restarts' = restarts /\ oversized' = oversized /\ sent' = sent
          /\ node' = [node EXCEPT ![n] = push_block(node[n], b)]
      <3>1. node' = [node EXCEPT ![n] = push_block(@, b)]
        BY <1>1 DEF handle_block
      <3>2. node = [m \in Nodes |-> node[m]]
        BY DEF ScheduleInv
      <3>3. QED
        BY <1>1, <3>1, <3>2 DEF handle_block
    <2>2. ASSUME Peaceful
          PROVE  Peaceful'
      <3> DEFINE e == push_block(node[n], b)
      <3>1. /\ Lawful(b) /\ Open(node[n]) /\ (node[n].blocks = <<>> \/ node[n].blocks \in sent)
        BY <2>2 DEF Peaceful
      <3>2. Open(e) /\ (e.blocks = node[n].blocks \/ e.blocks = b)
        BY <3>1, PushLawful
      <3> HIDE DEF e
      <3>3. e.blocks = <<>> \/ e.blocks \in sent'
        BY <2>1, <3>1, <3>2
      <3>4. \A c \in sent' : Lawful(c) /\ \A k \in 1 .. Len(c) : SubSeq(c, 1, k) \in sent'
        BY <2>1, <2>2 DEF Peaceful
      <3>5. node' = [node EXCEPT ![n] = e] /\ sent \subseteq sent'
        BY <2>1 DEF e
      <3>6. QED
        BY <2>2, <3>2, <3>3, <3>4, <3>5, PeaceOneNode
    <2>3. QED
      BY <1>0, <2>1, <2>2 DEF PeaceInv
  <1>2. ASSUME NEW n \in Nodes, NEW u \in Parameters \cup {None}, NEW o \in Orders,
               block_production_loop(n, u, o)
        PROVE  PeaceInv'
    <2> DEFINE s == node[n].blocks
               h == generated(n, u, o)
               b == Append(s, h)
               e == push_block(stamped(n), b)
    <2>1. /\ restarts' = restarts /\ oversized' = oversized /\ is_scheduled(n)
          /\ sent' = IF e.ok THEN sent \cup {b} ELSE sent
          /\ node' = [node EXCEPT ![n] = e]
      BY <1>2 DEF block_production_loop
    <2>2. ASSUME Peaceful
          PROVE  Peaceful'
      <3>1. Open(node[n]) /\ (s = <<>> \/ s \in sent)
            /\ \A c \in sent : Lawful(c) /\ \A k \in 1 .. Len(c) : SubSeq(c, 1, k) \in sent
        BY <2>2 DEF Peaceful
      <3>2. Open(e) /\ e.ok = TRUE /\ e.blocks = b /\ Lawful(b)
        BY <2>1, <3>1, SignedApplies
      <3>3. IsSeq(s)
        BY <3>1 DEF Open, NodeInv, Built
      <3>4. \A k \in 1 .. Len(b) : SubSeq(b, 1, k) = b \/ (k \in 1 .. Len(s) /\ s # <<>> /\ SubSeq(b, 1, k) = SubSeq(s, 1, k))
        <4> HIDE DEF s, h, e
        <4>1. QED
          BY <3>3, PrefixOfExtension
      <3> HIDE DEF e, b, s, h
      <3>5. sent' = sent \cup {b}
        BY <2>1, <3>2
      <3>6. ASSUME NEW c \in sent'
            PROVE  Lawful(c) /\ \A k \in 1 .. Len(c) : SubSeq(c, 1, k) \in sent'
        <4>1. CASE c \in sent
          BY <3>1, <3>5, <4>1
        <4>2. CASE c = b
          BY <3>1, <3>2, <3>4, <3>5, <4>2
        <4>3. QED
          BY <3>5, <4>1, <4>2
      <3>7. sent \subseteq sent' /\ e.blocks \in sent'
        BY <3>2, <3>5
      <3>8. QED
        BY <2>1, <2>2, <3>2, <3>6, <3>7, PeaceOneNode
    <2>3. QED
      BY <1>0, <2>1, <2>2 DEF PeaceInv
  <1>3. ASSUME NEW n \in Nodes, block_production_fails(n)
        PROVE  PeaceInv'
    <2>1. restarts' = restarts /\ oversized' = oversized + 1
      BY <1>3 DEF block_production_fails
    <2>2. QED
      BY <1>0, <2>1 DEF PeaceInv
  <1>4. ASSUME NEW n \in Nodes, block_production_idle(n)
        PROVE  PeaceInv'
    BY <1>4 DEF block_production_idle, PeaceInv, Peaceful
  <1>5. ASSUME NEW n \in Nodes, restart(n)
        PROVE  PeaceInv'
    <2>1. restarts' = restarts + 1 /\ oversized' = oversized
      BY <1>5 DEF restart
    <2>2. QED
      BY <1>0, <2>1 DEF PeaceInv
  <1>6. CASE Tick
    BY <1>6 DEF Tick, PeaceInv, Peaceful
  <1>7. CASE UNCHANGED vars
    BY <1>7 DEF vars, PeaceInv, Peaceful
  <1>8. QED
    BY <1>1, <1>2, <1>3, <1>4, <1>5, <1>6, <1>7 DEF Next

\* Where every block has arrived, no node is on a shorter chain than another.
LEMMA PeaceConverges ==
  ASSUME OneInterval, Peaceful, Settled, NEW m \in Nodes, NEW n \in Nodes
  PROVE  Len(node[m].blocks) <= Len(node[n].blocks)
  <1> DEFINE B == node[m].blocks
             x == node[n]
             G == {k \in Nat : k \in 1 .. Len(B) => SubSeq(B, 1, k) \in x.known}
  <1>1. /\ Open(x) /\ Open(node[m]) /\ (B = <<>> \/ B \in sent)
    BY DEF Peaceful
  <1>2. /\ IsSeq(B) /\ Len(B) \in Nat /\ Len(x.blocks) \in Nat /\ \A c \in x.known : Len(c) <= Len(x.blocks)
    BY <1>1, HeadFacts DEF Open, NodeInv, Built
  <1> HIDE DEF B, x
  <1>3. CASE Len(B) = 0
    BY <1>2, <1>3 DEF B, x
  <1>4. CASE Len(B) # 0
    <2>1. B \in sent
      <3>1. B # <<>>
        BY <1>4
      <3>2. QED
        BY <1>1, <3>1
    <2>2. \A k \in 1 .. Len(B) : SubSeq(B, 1, k) \in sent /\ Lawful(SubSeq(B, 1, k))
      BY <2>1 DEF Peaceful
    <2>3. 0 \in G
      OBVIOUS
    <2>4. ASSUME NEW k \in Nat, k \in G
          PROVE  k + 1 \in G
      <3> SUFFICES ASSUME k + 1 \in 1 .. Len(B)
                   PROVE  SubSeq(B, 1, k + 1) \in x.known
        OBVIOUS
      <3> DEFINE c == SubSeq(B, 1, k + 1)
      <3>1. c \in sent /\ Lawful(c)
        BY <2>2
      <3>2. Front(c) = SubSeq(B, 1, k) /\ (k = 0 => Front(c) = <<>>)
        <4>1. k + 1 \in 0 .. Len(B) /\ k \in 0 .. Len(B)
          BY <1>2
        <4>2. IsSeq(c) /\ Len(c) = k + 1 /\ \A i \in 1 .. k + 1 : c[i] = B[i]
          BY <1>2, <4>1, Prefix
        <4>3. /\ IsSeq(SubSeq(B, 1, k)) /\ Len(SubSeq(B, 1, k)) = k
              /\ \A i \in 1 .. k : SubSeq(B, 1, k)[i] = B[i]
          BY <1>2, <4>1, Prefix
        <4> DEFINE y == SubSeq(B, 1, k)
        <4> HIDE DEF c, y
        <4>4. c # <<>>
          BY <4>2
        <4>5. IsSeq(Front(c)) /\ Len(Front(c)) = Len(c) - 1 /\ \A i \in 1 .. Len(c) - 1 : Front(c)[i] = c[i]
          BY <4>2, <4>4, FrontSeq
        <4>6. Len(c) - 1 = k
          BY <4>2
        <4>7. Front(c) = [i \in 1 .. k |-> Front(c)[i]] /\ y = [i \in 1 .. k |-> y[i]]
          BY <4>3, <4>5, <4>6 DEF IsSeq, y
        <4>8. \A i \in 1 .. k : Front(c)[i] = y[i]
          <5> TAKE i \in 1 .. k
          <5>1. i \in 1 .. k + 1 /\ i \in 1 .. Len(c) - 1
            BY <4>6
          <5>2. QED
            BY <4>2, <4>3, <4>5, <5>1 DEF y
        <4>9. Front(c) = y
          BY <4>7, <4>8
        <4>10. k = 0 => Front(c) = <<>>
          BY <4>5, <4>6, EmptySeq DEF IsSeq
        <4>11. QED
          BY <4>9, <4>10 DEF y
      <3>3. fork_accepts(x, c)
        <4>1. CASE k = 0
          BY <3>2, <4>1 DEF fork_accepts
        <4>2. CASE k # 0
          <5>1. k \in 1 .. Len(B)
            BY <1>2, <4>2
          <5>2. QED
            BY <2>4, <3>2, <5>1 DEF fork_accepts
        <4>3. QED
          BY <4>1, <4>2
      <3> HIDE DEF c
      <3>4. push_block(x, c).ok = TRUE
        BY <1>1, <3>1, <3>3, PushLawful
      <3>5. c \in x.known
        BY <3>1, <3>4 DEF Settled, x
      <3>6. QED
        BY <3>5 DEF c
    <2> HIDE DEF G
    <2>5. Len(B) \in G
      BY <1>2, <2>3, <2>4, NatSetInduction
    <2>6. Len(B) \in 1 .. Len(B)
      BY <1>2, <1>4
    <2>7. SubSeq(B, 1, Len(B)) = B
      <3>1. 0 \in 0 .. Len(B) - 1
        BY <1>2, <1>4
      <3>2. QED
        BY <1>2, <3>1, PrefixSteps
    <2>8. B \in x.known
      BY <2>5, <2>6, <2>7 DEF G
    <2>9. QED
      BY <1>2, <2>8 DEF B, x
  <1>5. QED
    BY <1>3, <1>4

\* Once the blocks have arrived, in whatever order and however late, the nodes
\* are on chains of one length: push_block of a block that was valid where it was
\* signed never fails on another node, and never leaves it on a lower branch.
THEOREM NodesConverge ==
  ASSUME OneInterval
  PROVE  Spec => []Converges
  <1>1. Spec => []ScheduleInv
    BY ScheduleInvariant
  <1>2. OneInterval
    OBVIOUS
  <1>3. ScheduleInv /\ PeaceInv /\ [Next]_vars => PeaceInv'
    BY <1>2, PeaceStep
  <1>4. ScheduleInv /\ PeaceInv => Converges
    <2> SUFFICES ASSUME PeaceInv, restarts = 0, oversized = 0, Settled, NEW m \in Nodes, NEW n \in Nodes
                 PROVE  Len(node[m].blocks) = Len(node[n].blocks)
      BY DEF Converges
    <2>1. Peaceful
      BY DEF PeaceInv
    <2>2. Len(node[m].blocks) <= Len(node[n].blocks) /\ Len(node[n].blocks) <= Len(node[m].blocks)
      BY <1>2, <2>1, PeaceConverges
    <2>3. Len(node[m].blocks) \in Nat /\ Len(node[n].blocks) \in Nat
      BY <2>1, HeadFacts DEF Peaceful, Open, NodeInv
    <2>4. QED
      BY <2>2, <2>3
  <1>5. QED
    BY <1>1, <1>3, <1>4, PeaceInit, PTL DEF Spec

----------------------------------------------------------------------------
(* No slot is missed.                                                      *)

\* Every witness is one of exactly one node, and a slot lasts long enough for the
\* time that block_production_loop asks for, a second ahead, to lie in it.
Served ==
  /\ Interval >= 2
  /\ \A w \in Witnesses : \E n \in Nodes : w \in Controls[n]
  /\ \A m, n \in Nodes : m # n => Controls[m] \cap Controls[n] = {}

\* The start of the slot of a time.
SlotOf(t) == (t \div Interval) * Interval

\* A node has the block of the current slot; or the slot begins, and it has the
\* one before.
Current(nd, t) == head(nd).time = SlotOf(t)
Behind(nd, t) == t = SlotOf(t) /\ head(nd).time + Interval = t

\* The witness of the slot is one of these.
Turn(controls, nd, t) == scheduled_witness(head(nd), t) \in controls

\* Every node has the block of the slot, or the slot begins and each is on that
\* block or the one before: then the node whose turn it is has not yet run, or its
\* block has been sent and is on its way.
Kept(nds, wk, snt, t) ==
  /\ \A n \in Nodes : wk[n] \in Int /\ wk[n] <= SlotOf(t) + Interval
  /\ \A n \in Nodes : Current(nds[n], t) \/ Behind(nds[n], t)
  /\ \A m, n \in Nodes : (Current(nds[m], t) <=> Current(nds[n], t)) => nds[m].blocks = nds[n].blocks
  /\ \A m, n \in Nodes : Current(nds[m], t) /\ Behind(nds[n], t) =>
       /\ nds[m].blocks \in snt /\ nds[m].blocks \notin nds[n].known
       /\ nds[m].blocks # <<>> /\ Front(nds[m].blocks) = nds[n].blocks
  /\ \A n \in Nodes : Behind(nds[n], t) /\ Turn(Controls[n], nds[n], t) =>
       wk[n] <= t /\ \A m \in Nodes : Behind(nds[m], t)
  /\ \A n \in Nodes, b \in snt :
       b \in nds[n].known \/ \E m \in Nodes : Current(nds[m], t) /\ b = nds[m].blocks

CalmInv ==
  /\ wake = [n \in Nodes |-> wake[n]]
  /\ calm => restarts = 0 /\ oversized = 0 /\ Kept(node, wake, sent, clock)

\* A quotient with what is left.
LEMMA QuotientOf ==
  ASSUME NEW q \in Nat, NEW m \in Nat \ {0}, NEW r \in Nat, r < m
  PROVE  (q * m + r) \div m = q
  OBVIOUS

\* What is left is less than the divisor.
LEMMA Remainder ==
  ASSUME NEW t \in Nat, NEW m \in Nat \ {0}
  PROVE  t % m < m
  OBVIOUS

\* A time is in its slot, and a second later in the same or at the start of the next.
LEMMA SlotFacts ==
  ASSUME NEW t \in Nat
  PROVE  /\ SlotOf(t) \in Nat /\ SlotOf(t) <= t /\ t < SlotOf(t) + Interval
         /\ IF t + 1 < SlotOf(t) + Interval THEN SlotOf(t + 1) = SlotOf(t)
            ELSE t + 1 = SlotOf(t) + Interval /\ SlotOf(t + 1) = t + 1
         /\ (t \div Interval + 1) * Interval = SlotOf(t) + Interval
  <1> DEFINE q == t \div Interval
             r == t % Interval
             m == Interval
  <1>1. m \in Nat \ {0}
    BY IntervalType
  <1>2. q \in Nat /\ r \in Nat /\ r < m /\ t = q * m + r
    <2>1. q \in Nat /\ r \in Nat /\ t = q * m + r
      BY <1>1, Division
    <2>2. r < m
      BY <1>1, Remainder
    <2>3. QED
      BY <2>1, <2>2
  <1>3. SlotOf(t) = q * m
    BY DEF SlotOf
  <1>4. SlotOf(t + 1) = ((t + 1) \div m) * m
    BY DEF SlotOf
  <1>5. t \div Interval + 1 = q + 1 /\ Interval = m
    OBVIOUS
  <1> HIDE DEF q, r, m
  <1>6. q * m \in Nat /\ (q + 1) * m = q * m + m /\ q + 1 \in Nat
    BY <1>1, <1>2
  <1>7. CASE r + 1 < m
    <2>1. t + 1 = q * m + (r + 1) /\ r + 1 \in Nat
      BY <1>2, <1>6
    <2>2. (t + 1) \div m = q
      BY <1>1, <1>2, <1>7, <2>1, QuotientOf
    <2>3. QED
      BY <1>1, <1>2, <1>3, <1>4, <1>5, <1>6, <1>7, <2>1, <2>2
  <1>8. CASE r + 1 = m
    <2>1. t + 1 = (q + 1) * m + 0
      BY <1>1, <1>2, <1>6, <1>8
    <2>2. (t + 1) \div m = q + 1
      <3>1. 0 \in Nat /\ 0 < m
        BY <1>1
      <3>2. QED
        BY <1>1, <1>6, <2>1, <3>1, QuotientOf, ZenonT(60)
    <2>3. QED
      BY <1>1, <1>2, <1>3, <1>4, <1>5, <1>6, <1>8, <2>1, <2>2
  <1>9. QED
    BY <1>1, <1>2, <1>7, <1>8

\* The production task runs next at the start of the next slot.
LEMMA NextProduction ==
  ASSUME NEW nd, Built(nd), clock \in Nat
  PROVE  next_production(head(nd)) = SlotOf(clock) + Interval
  BY HeadFacts, SlotFacts DEF next_production

\* It is some node's turn.
LEMMA SomeTurn ==
  ASSUME Served, NEW nd, Built(nd), NEW t \in Nat
  PROVE  \E n \in Nodes : Turn(Controls[n], nd, t)
  <1> DEFINE a == head(nd).active_witnesses
             q == t \div Interval
  <1>1. a \in Orders /\ interval(head(nd)) = Interval
    BY HeadFacts DEF IsGlobals
  <1>2. scheduled_witness(head(nd), t) = a[(q % Len(a)) + 1]
    BY <1>1 DEF scheduled_witness, abs_slot
  <1> HIDE DEF a
  <1>3. a \in Seq(Witnesses) /\ a # <<>>
    BY <1>1, ScheduleAssumption
  <1>4. Len(a) \in Nat \ {0} /\ DOMAIN a = 1 .. Len(a)
    BY <1>3, EmptySeq
  <1>5. q \in Nat
    BY IntervalType, Division
  <1> HIDE DEF q
  <1>6. (q % Len(a)) + 1 \in 1 .. Len(a)
    BY <1>4, <1>5
  <1>7. a[(q % Len(a)) + 1] \in Witnesses
    BY <1>3, <1>6
  <1>8. QED
    BY <1>2, <1>7 DEF Served, Turn

\* Two nodes with the same head do not both have their turn.
LEMMA OneTurn ==
  ASSUME Served, NEW m \in Nodes, NEW n \in Nodes, m # n, NEW c, NEW d, head(c) = head(d), NEW t,
         Turn(Controls[m], c, t)
  PROVE  ~ Turn(Controls[n], d, t)
  BY DEF Served, Turn

\* A block takes the time to its own.
LEMMA AfterTime ==
  ASSUME NEW g, IsGlobals(g), NEW h, NEW num
  PROVE  After(g, h, num).time = h.timestamp
  <1> DEFINE f == [g EXCEPT !.time = h.timestamp,
                     !.pending_parameters = IF h.update = None THEN @ ELSE h.update]
  <1>1. f.time = h.timestamp /\ DOMAIN f = DOMAIN g
    BY DEF IsGlobals
  <1>2. After(g, h, num) = IF maintenance_due(f, h) THEN perform_chain_maintenance(f, h, num)
                           ELSE IF num % RoundSize = 0 THEN [f EXCEPT !.active_witnesses = h.order]
                           ELSE f
    BY DEF After, f
  <1> HIDE DEF f
  <1>3. perform_chain_maintenance(f, h, num).time = h.timestamp
    <2> DEFINE p == [f EXCEPT !.parameters = IF f.pending_parameters = None THEN f.parameters
                                             ELSE f.pending_parameters,
                              !.pending_parameters = None, !.active_witnesses = h.order]
    <2>1. p.time = h.timestamp
      BY <1>1 DEF IsGlobals
    <2>2. perform_chain_maintenance(f, h, num) =
            [p EXCEPT !.next_maintenance_time = next_maintenance_time(p, h, num),
                      !.last_budget_time = h.timestamp + interval(p)]
      BY DEF perform_chain_maintenance
    <2> HIDE DEF p
    <2>3. QED
      BY <2>1, <2>2
  <1>4. QED
    BY <1>1, <1>2, <1>3 DEF IsGlobals

\* The head block has the time of its header.
LEMMA HeadTime ==
  ASSUME NEW nd, Built(nd), nd.blocks # <<>>
  PROVE  head(nd).time = Last(nd.blocks).timestamp
  <1> DEFINE n == Len(nd.blocks)
  <1>1. n \in Nat /\ head(nd) = nd.states[n + 1] /\ IsSeq(nd.blocks)
    BY HeadFacts DEF Built
  <1>2. n \in 1 .. n
    BY <1>1, EmptySeq DEF IsSeq
  <1>3. nd.states[n + 1] = After(nd.states[n], nd.blocks[n], n)
    BY <1>2 DEF Built
  <1>4. IsGlobals(nd.states[n])
    <2>1. n \in 1 .. Len(nd.states)
      BY <1>1, <1>2 DEF Built
    <2>2. QED
      BY <2>1 DEF Built
  <1>5. QED
    BY <1>1, <1>3, <1>4, AfterTime DEF Last

\* A node produces at the start of a slot whose block it does not have, in its turn.
LEMMA ScheduledBehind ==
  ASSUME ScheduleInv, NEW n \in Nodes, is_scheduled(n)
  PROVE  /\ clock = SlotOf(clock) /\ head(node[n]).time < clock
         /\ Turn(Controls[n], node[n], clock)
  <1> DEFINE g == head(node[n])
             q == (clock + 1) \div Interval
  <1>1. clock \in Nat /\ interval(g) = Interval
    BY HeadFacts DEF ScheduleInv, NodeInv
  <1>2. q \in Nat
    BY <1>1, IntervalType, Division
  <1>3. q * Interval = clock /\ scheduled_time(g, clock + 1) > g.time
    BY <1>1, StampedInv DEF scheduled_time, abs_slot, is_scheduled
  <1>4. abs_slot(g, clock + 1) = q /\ abs_slot(g, clock) = clock \div Interval
    BY <1>1 DEF abs_slot
  <1>5. scheduled_witness(g, clock + 1) \in Controls[n] /\ scheduled_time(g, clock + 1) = clock
    BY DEF is_scheduled
  <1> HIDE DEF g, q
  <1>6. clock \div Interval = q
    BY <1>2, <1>3, IntervalType, Quotient
  <1>7. clock = SlotOf(clock)
    BY <1>3, <1>6 DEF SlotOf
  <1>8. scheduled_witness(g, clock + 1) = scheduled_witness(g, clock)
    BY <1>4, <1>6 DEF scheduled_witness
  <1>9. g.time < clock
    <2>1. g.time \in Nat
      BY HeadFacts DEF ScheduleInv, NodeInv, g, IsGlobals
    <2>2. QED
      BY <1>1, <1>3, <1>5, <2>1
  <1>10. QED
    BY <1>5, <1>7, <1>8, <1>9 DEF Turn, g

\* And it does produce then: the chain is not stale, and the slot lasts two seconds.
LEMMA BehindScheduled ==
  ASSUME Served, ScheduleInv, NEW n \in Nodes, Behind(node[n], clock), Turn(Controls[n], node[n], clock)
  PROVE  is_scheduled(n)
  <1> DEFINE g == head(node[n])
             q == clock \div Interval
             p == g.time \div Interval
  <1>1. clock \in Nat /\ interval(g) = Interval /\ g.time \in Nat /\ g.time % Interval = 0
    BY HeadFacts DEF ScheduleInv, NodeInv, IsGlobals
  <1>2. clock = q * Interval /\ g.time + Interval = clock
    BY DEF Behind, SlotOf
  <1>3. q \in Nat /\ p \in Nat /\ g.time = p * Interval
    <2> DEFINE s == g.time
    <2>1. clock \in Nat /\ s \in Nat /\ s % Interval = 0 /\ Interval \in Nat \ {0}
      BY <1>1, IntervalType
    <2> HIDE DEF s
    <2>2. clock \div Interval \in Nat /\ s \div Interval \in Nat
      BY <2>1, Division
    <2>3. s = (s \div Interval) * Interval
      BY <2>1, Division
    <2>4. QED
      BY <2>2, <2>3 DEF s
  <1>4. (clock + 1) \div Interval = q
    <2> HIDE DEF q
    <2>1. 1 \in Nat /\ 1 < Interval
      BY IntervalType DEF Served
    <2>2. QED
      BY <1>2, <1>3, <2>1, IntervalType, QuotientOf
  <1>5. abs_slot(g, clock + 1) = q /\ abs_slot(g, clock) = q /\ abs_slot(g, g.time) = p
    BY <1>1, <1>4 DEF abs_slot
  <1>6. Turn(Controls[n], node[n], clock) /\ production_enabled(n)
    <2>1. g.time - clock = - Interval /\ Interval \in Nat \ {0}
      BY <1>1, <1>2, IntervalType
    <2> HIDE DEF g
    <2>2. g.time - clock < 0 /\ - (g.time - clock) <= interval(g)
      BY <1>1, <2>1
    <2>3. QED
      BY <2>2 DEF production_enabled, g
  <1> HIDE DEF q, p
  <1>7. q > p
    <2>1. CASE q <= p
      <3>1. p = q + (p - q) /\ p - q \in Nat
        BY <1>3, <2>1
      <3>2. p * Interval = q * Interval + (p - q) * Interval
        BY <1>3, <3>1, IntervalType
      <3>3. (p - q) * Interval >= 0
        BY <3>1, IntervalType
      <3>4. QED
        BY <1>1, <1>2, <1>3, <3>2, <3>3, IntervalType
    <2>2. QED
      BY <1>3, <2>1
  <1>8. scheduled(g, clock + 1)
    BY <1>5, <1>7 DEF scheduled
  <1>9. scheduled_time(g, clock + 1) = clock
    BY <1>1, <1>2, <1>5 DEF scheduled_time
  <1>10. scheduled_witness(g, clock + 1) = scheduled_witness(g, clock)
    BY <1>5 DEF scheduled_witness
  <1>11. clock - g.time >= 1 /\ clock > g.time
    BY <1>1, <1>2, IntervalType
  <1>12. QED
    BY <1>6, <1>8, <1>9, <1>10, <1>11 DEF is_scheduled, g, Turn

\* A node is not both current and behind.
LEMMA NotBoth ==
  ASSUME NEW nd, Built(nd), NEW t \in Nat
  PROVE  ~ (Current(nd, t) /\ Behind(nd, t))
  <1>1. head(nd).time \in Nat
    BY HeadFacts DEF IsGlobals
  <1>2. QED
    BY <1>1, IntervalType DEF Current, Behind

\* A block of the slot that arrives: the node that was behind has caught up.
LEMMA KeptByHandling ==
  ASSUME OneInterval, Served, ScheduleInv, Peaceful, Kept(node, wake, sent, clock),
         NEW n \in Nodes, NEW b \in sent, handle_block(n, b)
  PROVE  Kept(node', wake', sent', clock')
  <1> DEFINE e == push_block(node[n], b)
  <1>1. /\ wake' = wake /\ sent' = sent /\ clock' = clock /\ b \notin node[n].known
        /\ node' = [node EXCEPT ![n] = e]
    <2>1. node' = [node EXCEPT ![n] = push_block(@, b)]
      BY DEF handle_block
    <2>2. node = [m \in Nodes |-> node[m]]
      BY DEF ScheduleInv
    <2>3. QED
      BY <2>1, <2>2 DEF handle_block
  <1>2. /\ clock \in Nat /\ node = [m \in Nodes |-> node[m]]
        /\ \A m \in Nodes : Built(node[m]) /\ Open(node[m])
    BY DEF ScheduleInv, NodeInv, Peaceful
  <1>3. PICK k \in Nodes : Current(node[k], clock) /\ b = node[k].blocks
    BY <1>1 DEF Kept
  <1>4. Behind(node[n], clock) /\ ~ Current(node[n], clock)
    <2>1. node[k].blocks # node[n].blocks \/ b = <<>>
      BY <1>1, <1>2, <1>3 DEF Open
    <2>2. b # <<>>
      BY DEF Peaceful, Lawful
    <2>3. ~ Current(node[n], clock)
      BY <1>3, <2>1, <2>2 DEF Kept
    <2>4. QED
      BY <2>3 DEF Kept
  <1>5. Front(b) = node[n].blocks /\ b # <<>>
    BY <1>3, <1>4 DEF Kept
  <1>6. fork_accepts(node[n], b)
    BY <1>2, <1>5 DEF fork_accepts, Open
  <1>7. Open(e) /\ e.known = node[n].known \cup {b}
    <2>1. Lawful(b) /\ Open(node[n])
      BY <1>2 DEF Peaceful
    <2>2. QED
      BY <1>6, <2>1, PushLawful
  <1>8. e.blocks = b
    <2>1. e.blocks = node[n].blocks \/ e.blocks = b
      BY <1>2, PushLawful DEF Peaceful
    <2>2. IsSeq(b)
      BY <1>2, <1>3 DEF Built
    <2>3. Len(node[n].blocks) = Len(b) - 1 /\ Len(b) \in Nat
      BY <1>5, <2>2, FrontSeq
    <2>4. Len(b) <= Len(e.blocks)
      BY <1>7 DEF Open
    <2>5. QED
      BY <2>1, <2>3, <2>4
  <1> HIDE DEF e
  <1>9. head(e) = head(node[k]) /\ Current(e, clock) /\ ~ Behind(e, clock)
    <2>1. Built(e) /\ Built(node[k])
      BY <1>2, <1>7 DEF Open, NodeInv
    <2>2. head(e) = head(node[k])
      BY <1>3, <1>8, <2>1, SameStates
    <2>3. Current(e, clock)
      BY <1>3, <2>2 DEF Current
    <2>4. QED
      BY <1>2, <2>1, <2>2, <2>3, NotBoth
  <1>10. \A m \in Nodes : node'[m] = IF m = n THEN e ELSE node[m]
    BY <1>1, <1>2
  <1>11. /\ \A m \in Nodes : wake[m] \in Int /\ wake[m] <= SlotOf(clock) + Interval
         /\ \A m \in Nodes : Current(node[m], clock) \/ Behind(node[m], clock)
         /\ \A m, l \in Nodes : (Current(node[m], clock) <=> Current(node[l], clock)) => node[m].blocks = node[l].blocks
         /\ \A m, l \in Nodes : Current(node[m], clock) /\ Behind(node[l], clock) =>
              /\ node[m].blocks \in sent /\ node[m].blocks \notin node[l].known
              /\ node[m].blocks # <<>> /\ Front(node[m].blocks) = node[l].blocks
         /\ \A m \in Nodes : Behind(node[m], clock) /\ Turn(Controls[m], node[m], clock) =>
              wake[m] <= clock /\ \A l \in Nodes : Behind(node[l], clock)
         /\ \A m \in Nodes, c \in sent :
              c \in node[m].known \/ \E l \in Nodes : Current(node[l], clock) /\ c = node[l].blocks
    BY DEF Kept
  <1>12. \A m \in Nodes : Current(node'[m], clock) \/ Behind(node'[m], clock)
    BY <1>9, <1>10, <1>11
  <1>13. ASSUME NEW m \in Nodes, NEW l \in Nodes, Current(node'[m], clock) <=> Current(node'[l], clock)
         PROVE  node'[m].blocks = node'[l].blocks
    <2>1. CASE m = n /\ l = n
      BY <2>1
    <2>2. CASE m = n /\ l # n
      <3>1. Current(node[l], clock)
        BY <1>9, <1>10, <1>13, <2>2
      <3>2. node[l].blocks = b
        BY <1>3, <1>11, <3>1
      <3>3. QED
        BY <1>8, <1>10, <2>2, <3>2
    <2>3. CASE m # n /\ l = n
      <3>1. Current(node[m], clock)
        BY <1>9, <1>10, <1>13, <2>3
      <3>2. node[m].blocks = b
        BY <1>3, <1>11, <3>1
      <3>3. QED
        BY <1>8, <1>10, <2>3, <3>2
    <2>4. CASE m # n /\ l # n
      BY <1>10, <1>11, <1>13, <2>4
    <2>5. QED
      BY <2>1, <2>2, <2>3, <2>4
  <1>14. ASSUME NEW m \in Nodes, NEW l \in Nodes, Current(node'[m], clock), Behind(node'[l], clock)
         PROVE  /\ node'[m].blocks \in sent /\ node'[m].blocks \notin node'[l].known
                /\ node'[m].blocks # <<>> /\ Front(node'[m].blocks) = node'[l].blocks
    <2>1. l # n /\ node'[l] = node[l] /\ Behind(node[l], clock)
      BY <1>9, <1>10, <1>14
    <2>2. CASE m = n
      <3>1. node'[m].blocks = node[k].blocks
        BY <1>3, <1>8, <1>10, <2>2
      <3>2. QED
        BY <1>3, <1>11, <2>1, <3>1
    <2>3. CASE m # n
      <3>1. node'[m] = node[m]
        BY <1>10, <2>3
      <3>2. QED
        BY <1>11, <1>14, <2>1, <3>1
    <2>4. QED
      BY <2>2, <2>3
  <1>15. ASSUME NEW m \in Nodes, Behind(node'[m], clock), Turn(Controls[m], node'[m], clock)
         PROVE  FALSE
    <2>1. node'[m] = node[m]
      BY <1>9, <1>10, <1>15
    <2>2. Behind(node[k], clock)
      BY <1>11, <1>15, <2>1
    <2>3. QED
      BY <1>2, <1>3, <2>2, NotBoth
  <1>16. ASSUME NEW m \in Nodes, NEW c \in sent
         PROVE  c \in node'[m].known \/ \E l \in Nodes : Current(node'[l], clock) /\ c = node'[l].blocks
    <2>1. node[m].known \subseteq node'[m].known
      BY <1>7, <1>10
    <2>2. CASE c \in node[m].known
      BY <2>1, <2>2
    <2>3. CASE c \notin node[m].known
      <3>1. PICK l \in Nodes : Current(node[l], clock) /\ c = node[l].blocks
        BY <1>11, <2>3
      <3>2. Current(node'[l], clock) /\ c = node'[l].blocks
        BY <1>4, <1>10, <3>1
      <3>3. QED
        BY <3>2
    <2>4. QED
      BY <2>2, <2>3
  <1>17. QED
    BY <1>1, <1>11, <1>12, <1>13, <1>14, <1>15, <1>16 DEF Kept

\* A node that produces was behind, and so was every other; its block is the next.
LEMMA Producing ==
  ASSUME OneInterval, ScheduleInv, Peaceful, Kept(node, wake, sent, clock),
         NEW n \in Nodes, NEW u \in Parameters \cup {None}, NEW o \in Orders, block_production_loop(n, u, o)
  PROVE  LET b == Append(node[n].blocks, generated(n, u, o))
             e == push_block(stamped(n), b)
         IN  /\ \A m \in Nodes : /\ Behind(node[m], clock) /\ ~ Current(node[m], clock)
                                 /\ node[m].blocks = node[n].blocks /\ head(node[m]) = head(node[n])
             /\ Turn(Controls[n], node[n], clock) /\ generated(n, u, o).timestamp = clock
             /\ Open(e) /\ e.blocks = b /\ e.known = node[n].known \cup {b} /\ Current(e, clock)
             /\ Front(b) = node[n].blocks /\ b # <<>> /\ Last(b) = generated(n, u, o)
             /\ node' = [node EXCEPT ![n] = e] /\ sent' = sent \cup {b}
             /\ wake' = [wake EXCEPT ![n] = SlotOf(clock) + Interval] /\ clock' = clock
  <1> DEFINE h == generated(n, u, o)
             b == Append(node[n].blocks, h)
             e == push_block(stamped(n), b)
  <1>1. /\ clock \in Nat /\ node = [m \in Nodes |-> node[m]]
        /\ \A m \in Nodes : Built(node[m]) /\ Open(node[m])
    BY DEF ScheduleInv, NodeInv, Peaceful
  <1>2. /\ is_scheduled(n) /\ clock' = clock /\ node' = [node EXCEPT ![n] = e]
        /\ sent' = IF e.ok THEN sent \cup {b} ELSE sent
        /\ wake' = [wake EXCEPT ![n] = next_production(head(e))]
    BY DEF block_production_loop
  <1>3. clock = SlotOf(clock) /\ head(node[n]).time < clock /\ Turn(Controls[n], node[n], clock)
    BY <1>2, ScheduledBehind
  <1>4. ~ Current(node[n], clock) /\ Behind(node[n], clock)
    <2>1. head(node[n]).time \in Nat
      BY <1>1, HeadFacts DEF IsGlobals
    <2>2. ~ Current(node[n], clock)
      BY <1>1, <1>3, <2>1 DEF Current
    <2>3. QED
      BY <2>2 DEF Kept
  <1>5. ASSUME NEW m \in Nodes
        PROVE  /\ Behind(node[m], clock) /\ ~ Current(node[m], clock)
               /\ node[m].blocks = node[n].blocks /\ head(node[m]) = head(node[n])
    <2>1. Behind(node[m], clock)
      BY <1>3, <1>4 DEF Kept
    <2>2. ~ Current(node[m], clock)
      BY <1>1, <2>1, NotBoth
    <2>3. node[m].blocks = node[n].blocks
      BY <1>4, <2>2 DEF Kept
    <2>4. QED
      BY <1>1, <2>1, <2>2, <2>3, SameStates
  <1>6. /\ Open(e) /\ e.ok = TRUE /\ e.blocks = b /\ e.known = node[n].known \cup {b}
        /\ Front(b) = node[n].blocks /\ Last(b) = h /\ Lawful(b)
    BY <1>1, <1>2, SignedApplies
  <1>7. h.timestamp = clock
    BY <1>2, GeneratedBlock
  <1> HIDE DEF e, b, h
  <1>8. b # <<>> /\ Built(e)
    BY <1>6 DEF Lawful, Open, NodeInv
  <1>9. Current(e, clock)
    BY <1>3, <1>6, <1>7, <1>8, HeadTime DEF Current
  <1>10. next_production(head(e)) = SlotOf(clock) + Interval
    BY <1>1, <1>8, NextProduction
  <1>11. QED
    BY <1>2, <1>3, <1>5, <1>6, <1>7, <1>8, <1>9, <1>10 DEF e, b, h

\* The block of the slot is produced.
LEMMA KeptByProducing ==
  ASSUME OneInterval, Served, ScheduleInv, Peaceful, Kept(node, wake, sent, clock),
         wake = [m \in Nodes |-> wake[m]],
         NEW n \in Nodes, NEW u \in Parameters \cup {None}, NEW o \in Orders, block_production_loop(n, u, o)
  PROVE  Kept(node', wake', sent', clock')
  <1> DEFINE b == Append(node[n].blocks, generated(n, u, o))
             e == push_block(stamped(n), b)
  <1>1. /\ \A m \in Nodes : /\ Behind(node[m], clock) /\ ~ Current(node[m], clock)
                            /\ node[m].blocks = node[n].blocks /\ head(node[m]) = head(node[n])
        /\ Turn(Controls[n], node[n], clock)
        /\ Open(e) /\ e.blocks = b /\ e.known = node[n].known \cup {b} /\ Current(e, clock)
        /\ Front(b) = node[n].blocks /\ b # <<>>
        /\ node' = [node EXCEPT ![n] = e] /\ sent' = sent \cup {b}
        /\ wake' = [wake EXCEPT ![n] = SlotOf(clock) + Interval] /\ clock' = clock
    BY Producing
  <1> HIDE DEF e, b
  <1>2. /\ clock \in Nat /\ node = [m \in Nodes |-> node[m]]
        /\ \A m \in Nodes : Built(node[m]) /\ Open(node[m])
    BY DEF ScheduleInv, NodeInv, Peaceful
  <1>3. \A m \in Nodes : node'[m] = IF m = n THEN e ELSE node[m]
    BY <1>1, <1>2
  <1>4. \A m \in Nodes : wake'[m] = IF m = n THEN SlotOf(clock) + Interval ELSE wake[m]
    BY <1>1
  <1>5. ~ Behind(e, clock)
    BY <1>1, <1>2, NotBoth DEF Open, NodeInv
  <1>6. \A m \in Nodes : (Current(node'[m], clock) <=> m = n) /\ (Behind(node'[m], clock) <=> m # n)
    BY <1>1, <1>3, <1>5
  <1>7. SlotOf(clock) \in Nat /\ \A m \in Nodes : wake[m] \in Int /\ wake[m] <= SlotOf(clock) + Interval
    BY <1>2, SlotFacts DEF Kept
  <1>8. \A m \in Nodes : wake'[m] \in Int /\ wake'[m] <= SlotOf(clock) + Interval
    BY <1>4, <1>7, IntervalType
  <1>9. \A m, l \in Nodes : (Current(node'[m], clock) <=> Current(node'[l], clock)) => node'[m].blocks = node'[l].blocks
    <2> SUFFICES ASSUME NEW m \in Nodes, NEW l \in Nodes, m = n <=> l = n
                 PROVE  node'[m].blocks = node'[l].blocks
      BY <1>6
    <2>1. CASE m = n
      BY <2>1
    <2>2. CASE m # n
      <3>1. node'[m] = node[m] /\ node'[l] = node[l]
        BY <1>3, <2>2
      <3>2. node[m].blocks = node[n].blocks /\ node[l].blocks = node[n].blocks
        BY <1>1
      <3>3. QED
        BY <3>1, <3>2
    <2>3. QED
      BY <2>1, <2>2
  <1>10. ASSUME NEW m \in Nodes, m # n
         PROVE  b \notin node'[m].known /\ node'[m].blocks = node[n].blocks
    <2>1. IsSeq(b)
      BY <1>1 DEF Open, NodeInv, Built
    <2>2. Len(node[m].blocks) = Len(b) - 1 /\ Len(b) \in Nat
      BY <1>1, <2>1, FrontSeq
    <2>3. \A c \in node[m].known : Len(c) <= Len(node[m].blocks)
      BY <1>2 DEF Open
    <2>4. b \notin node[m].known
      BY <2>2, <2>3
    <2>5. QED
      BY <1>1, <1>3, <1>10, <2>4
  <1>11. ASSUME NEW m \in Nodes, NEW l \in Nodes, Current(node'[m], clock), Behind(node'[l], clock)
         PROVE  /\ node'[m].blocks \in sent' /\ node'[m].blocks \notin node'[l].known
                /\ node'[m].blocks # <<>> /\ Front(node'[m].blocks) = node'[l].blocks
    <2>1. m = n /\ l # n
      BY <1>6, <1>11
    <2>2. node'[m].blocks = b
      BY <1>1, <1>3, <2>1
    <2>3. QED
      BY <1>1, <1>10, <2>1, <2>2
  <1>12. ASSUME NEW m \in Nodes, Behind(node'[m], clock), Turn(Controls[m], node'[m], clock)
         PROVE  FALSE
    <2>1. m # n /\ node'[m] = node[m]
      BY <1>3, <1>6, <1>12
    <2>2. head(node[m]) = head(node[n])
      BY <1>1
    <2>3. QED
      BY <1>1, <1>12, <2>1, <2>2, OneTurn
  <1>13. ASSUME NEW m \in Nodes, NEW c \in sent'
         PROVE  c \in node'[m].known \/ \E l \in Nodes : Current(node'[l], clock) /\ c = node'[l].blocks
    <2>1. CASE c = b
      <3>1. Current(node'[n], clock) /\ c = node'[n].blocks
        BY <1>1, <1>3, <2>1
      <3>2. QED
        BY <3>1
    <2>2. CASE c \in sent
      <3>1. c \in node[m].known
        BY <1>1, <2>2 DEF Kept
      <3>2. QED
        BY <1>1, <1>3, <3>1
    <2>3. QED
      BY <1>1, <2>1, <2>2
  <1>14. QED
    BY <1>1, <1>6, <1>8, <1>9, <1>11, <1>12, <1>13 DEF Kept

\* A node whose turn it is does not find that there is nothing to produce.
LEMMA KeptByIdling ==
  ASSUME Served, ScheduleInv, Kept(node, wake, sent, clock), wake = [m \in Nodes |-> wake[m]],
         NEW n \in Nodes, block_production_idle(n)
  PROVE  Kept(node', wake', sent', clock')
  <1>1. /\ node' = node /\ sent' = sent /\ clock' = clock /\ ~ is_scheduled(n)
        /\ wake' = [wake EXCEPT ![n] = next_production(head(node[n]))]
    BY DEF block_production_idle
  <1>2. next_production(head(node[n])) = SlotOf(clock) + Interval /\ SlotOf(clock) \in Nat
    BY NextProduction, SlotFacts DEF ScheduleInv, NodeInv
  <1>3. \A m \in Nodes : wake'[m] = IF m = n THEN SlotOf(clock) + Interval ELSE wake[m]
    BY <1>1, <1>2
  <1>4. \A m \in Nodes : wake[m] \in Int /\ wake[m] <= SlotOf(clock) + Interval
    BY DEF Kept
  <1>5. \A m \in Nodes : wake'[m] \in Int /\ wake'[m] <= SlotOf(clock) + Interval
    BY <1>2, <1>3, <1>4, IntervalType
  <1>6. ASSUME NEW m \in Nodes, Behind(node[m], clock), Turn(Controls[m], node[m], clock)
        PROVE  wake'[m] <= clock
    <2>1. m # n
      BY <1>1, <1>6, BehindScheduled
    <2>2. QED
      BY <1>3, <1>6, <2>1 DEF Kept
  <1>7. QED
    BY <1>1, <1>5, <1>6 DEF Kept

\* The clock does not leave a slot before its block is everywhere.
LEMMA KeptByTick ==
  ASSUME Served, ScheduleInv, Kept(node, wake, sent, clock), Tick, ~ Late
  PROVE  Kept(node', wake', sent', clock')
  <1>1. /\ clock' = clock + 1 /\ node' = node /\ wake' = wake /\ sent' = sent
    BY DEF Tick
  <1>2. /\ clock \in Nat /\ clock + 1 \in Nat /\ \A m \in Nodes : Built(node[m])
    BY DEF ScheduleInv, NodeInv
  <1>3. /\ \A m \in Nodes, b \in sent : b \in node[m].known
        /\ \A m \in Nodes : ~ (wake[m] <= clock)
    BY DEF Late
  <1>4. ASSUME NEW n \in Nodes
        PROVE  Current(node[n], clock)
    <2> SUFFICES ASSUME ~ Current(node[n], clock)
                 PROVE  FALSE
      OBVIOUS
    <2>1. Behind(node[n], clock)
      BY DEF Kept
    <2>2. PICK m \in Nodes : Turn(Controls[m], node[n], clock)
      BY <1>2, SomeTurn
    <2>3. CASE Current(node[m], clock)
      BY <1>3, <2>1, <2>3 DEF Kept
    <2>4. CASE ~ Current(node[m], clock)
      <3>1. Behind(node[m], clock) /\ node[m].blocks = node[n].blocks
        BY <2>4 DEF Kept
      <3>2. head(node[m]) = head(node[n])
        BY <1>2, <3>1, SameStates
      <3>3. Turn(Controls[m], node[m], clock)
        BY <2>2, <3>2 DEF Turn
      <3>4. QED
        BY <1>3, <3>1, <3>3 DEF Kept
    <2>5. QED
      BY <2>3, <2>4
  <1>5. \A m \in Nodes : head(node[m]).time = SlotOf(clock) /\ head(node[m]).time \in Nat
    BY <1>2, <1>4, HeadFacts DEF Current, IsGlobals
  <1>6. /\ SlotOf(clock) \in Nat /\ SlotOf(clock) <= clock
        /\ IF clock + 1 < SlotOf(clock) + Interval THEN SlotOf(clock + 1) = SlotOf(clock)
            ELSE clock + 1 = SlotOf(clock) + Interval /\ SlotOf(clock + 1) = clock + 1
    BY <1>2, SlotFacts
  <1>7. /\ \A m \in Nodes : wake[m] \in Int /\ wake[m] <= SlotOf(clock) + Interval
        /\ \A m, n \in Nodes : node[m].blocks = node[n].blocks
    BY <1>4 DEF Kept
  <1>8. CASE SlotOf(clock + 1) = SlotOf(clock)
    <2>1. \A m \in Nodes : Current(node[m], clock + 1) /\ ~ Behind(node[m], clock + 1)
      BY <1>2, <1>5, <1>6, <1>8 DEF Current, Behind
    <2>2. QED
      BY <1>1, <1>3, <1>7, <1>8, <2>1 DEF Kept
  <1>9. CASE clock + 1 = SlotOf(clock) + Interval /\ SlotOf(clock + 1) = clock + 1
    <2>1. \A m \in Nodes : Behind(node[m], clock + 1) /\ ~ Current(node[m], clock + 1)
      BY <1>2, <1>5, <1>6, <1>9, IntervalType DEF Current, Behind
    <2>2. \A m \in Nodes : wake[m] <= clock + 1 /\ wake[m] <= SlotOf(clock + 1) + Interval
      BY <1>2, <1>6, <1>7, <1>9, IntervalType
    <2>3. QED
      BY <1>1, <1>3, <1>7, <2>1, <2>2 DEF Kept
  <1>10. QED
    BY <1>6, <1>8, <1>9

\* The nodes start with the genesis block, before the first slot.
LEMMA KeptInit == Init => CalmInv
  <1> SUFFICES ASSUME Init
               PROVE  CalmInv
    OBVIOUS
  <1> DEFINE e == Fresh(<<>>, <<GenesisState>>)
  <1>1. /\ node = [n \in Nodes |-> e] /\ clock = GenesisTime /\ sent = {}
        /\ wake = [n \in Nodes |-> GenesisTime + Interval] /\ restarts = 0 /\ oversized = 0
    BY DEF Init, Interval
  <1>2. head(e).time = GenesisTime
    BY DEF Fresh, head, Last, GenesisState
  <1> HIDE DEF e
  <1>3. GenesisTime \in Nat /\ SlotOf(GenesisTime) = GenesisTime
    <2>1. GenesisTime \in Nat /\ GenesisTime % Interval = 0
      BY ScheduleAssumption DEF Interval
    <2>2. GenesisTime = (GenesisTime \div Interval) * Interval + 0
      BY <2>1, IntervalType, Division
    <2>3. (GenesisTime \div Interval) * Interval \in Nat
      BY <2>1, IntervalType, Division, Multiples
    <2>4. QED
      BY <2>1, <2>2, <2>3 DEF SlotOf
  <1>4. \A n \in Nodes : Current(node[n], clock) /\ ~ Behind(node[n], clock) /\ node[n] = e
    BY <1>1, <1>2, <1>3, IntervalType DEF Current, Behind
  <1>5. \A n \in Nodes : wake[n] \in Int /\ wake[n] <= SlotOf(clock) + Interval
    BY <1>1, <1>3, IntervalType
  <1>6. Kept(node, wake, sent, clock)
    BY <1>1, <1>4, <1>5 DEF Kept
  <1>7. QED
    BY <1>1, <1>6 DEF CalmInv

\* Every step of a calm schedule keeps it.
LEMMA CalmStep == OneInterval /\ Served /\ ScheduleInv /\ PeaceInv /\ CalmInv /\ [Next]_vars => CalmInv'
  <1> SUFFICES ASSUME OneInterval, Served, ScheduleInv, PeaceInv, CalmInv, [Next]_vars
               PROVE  CalmInv'
    OBVIOUS
  <1>0. /\ wake = [n \in Nodes |-> wake[n]]
        /\ calm => restarts = 0 /\ oversized = 0 /\ Kept(node, wake, sent, clock)
        /\ calm => Peaceful
    BY DEF CalmInv, PeaceInv
  <1>1. ASSUME NEW n \in Nodes, NEW b \in sent, handle_block(n, b)
        PROVE  CalmInv'
    <2>1. UNCHANGED <<wake, calm, restarts, oversized>>
      BY <1>1 DEF handle_block
    <2>2. calm => Kept(node', wake', sent', clock')
      BY <1>0, <1>1, KeptByHandling
    <2>3. QED
      BY <1>0, <2>1, <2>2 DEF CalmInv
  <1>2. ASSUME NEW n \in Nodes, NEW u \in Parameters \cup {None}, NEW o \in Orders,
               block_production_loop(n, u, o)
        PROVE  CalmInv'
    <2> DEFINE t == next_production(head(push_block(stamped(n), Append(node[n].blocks, generated(n, u, o)))))
    <2>1. UNCHANGED <<calm, restarts, oversized>> /\ wake' = [wake EXCEPT ![n] = t]
      BY <1>2 DEF block_production_loop
    <2> HIDE DEF t
    <2>2. calm => Kept(node', wake', sent', clock')
      BY <1>0, <1>2, KeptByProducing
    <2>3. wake' = [m \in Nodes |-> IF m = n THEN t ELSE wake[m]]
      BY <1>0, <2>1
    <2>4. wake' = [m \in Nodes |-> wake'[m]]
      BY <2>3
    <2>5. QED
      BY <1>0, <2>1, <2>2, <2>4 DEF CalmInv
  <1>3. ASSUME NEW n \in Nodes, NEW t, wake' = [wake EXCEPT ![n] = t]
        PROVE  wake' = [m \in Nodes |-> wake'[m]]
    <2>1. wake' = [m \in Nodes |-> IF m = n THEN t ELSE wake[m]]
      BY <1>0, <1>3
    <2>2. QED
      BY <2>1
  <1>4. ASSUME NEW n \in Nodes, block_production_fails(n) \/ restart(n)
        PROVE  CalmInv'
    <2>1. calm' = FALSE /\ wake' = [wake EXCEPT ![n] = next_production(head(node[n]))]
      BY <1>4 DEF block_production_fails, restart
    <2>2. QED
      BY <1>3, <2>1 DEF CalmInv
  <1>5. ASSUME NEW n \in Nodes, block_production_idle(n)
        PROVE  CalmInv'
    <2>1. UNCHANGED <<calm, restarts, oversized>> /\ wake' = [wake EXCEPT ![n] = next_production(head(node[n]))]
      BY <1>5 DEF block_production_idle
    <2>2. calm => Kept(node', wake', sent', clock')
      BY <1>0, <1>5, KeptByIdling
    <2>3. QED
      BY <1>0, <1>3, <2>1, <2>2 DEF CalmInv
  <1>6. CASE Tick
    <2>1. UNCHANGED <<wake, restarts, oversized>> /\ calm' = (calm /\ ~ Late)
      BY <1>6 DEF Tick
    <2>2. calm' => Kept(node', wake', sent', clock')
      BY <1>0, <1>6, <2>1, KeptByTick
    <2>3. QED
      BY <1>0, <2>1, <2>2 DEF CalmInv
  <1>7. CASE UNCHANGED vars
    BY <1>0, <1>7 DEF vars, CalmInv
  <1>8. QED
    BY <1>1, <1>2, <1>4, <1>5, <1>6, <1>7 DEF Next

\* While a schedule is calm, every node has the block of the current slot or the
\* slot has just begun.
THEOREM CalmInvariant ==
  ASSUME OneInterval, Served
  PROVE  Spec => []CalmInv
  <1>1. Spec => []ScheduleInv
    BY ScheduleInvariant
  <1>2. OneInterval /\ Served
    OBVIOUS
  <1>3. ScheduleInv /\ PeaceInv /\ [Next]_vars => PeaceInv'
    BY <1>2, PeaceStep
  <1>4. ScheduleInv /\ PeaceInv /\ CalmInv /\ [Next]_vars => CalmInv'
    BY <1>2, CalmStep
  <1>5. QED
    BY <1>1, <1>3, <1>4, PeaceInit, KeptInit, PTL DEF Spec

\* As long as every task runs and every block arrives in its second, no slot is
\* missed: through shuffles and maintenance, some node finds each slot to be its
\* own, when it looks a second ahead of a chain that is not stale.
THEOREM HeadAlwaysKeepsUp ==
  ASSUME OneInterval, Served
  PROVE  Spec => []HeadKeepsUp
  <1>1. Spec => []ScheduleInv
    BY ScheduleInvariant
  <1>2. Spec => []CalmInv
    BY CalmInvariant
  <1>3. ScheduleInv /\ CalmInv => HeadKeepsUp
    <2> SUFFICES ASSUME ScheduleInv, CalmInv, calm, NEW n \in Nodes
                 PROVE  clock - head(node[n]).time <= interval(head(node[n]))
      BY DEF HeadKeepsUp
    <2>1. clock \in Nat /\ Built(node[n])
      BY DEF ScheduleInv, NodeInv
    <2>2. head(node[n]).time \in Nat /\ interval(head(node[n])) = Interval
      BY <2>1, HeadFacts DEF IsGlobals
    <2>3. Current(node[n], clock) \/ Behind(node[n], clock)
      BY DEF CalmInv, Kept
    <2>4. SlotOf(clock) \in Nat /\ SlotOf(clock) <= clock /\ clock < SlotOf(clock) + Interval
      BY <2>1, SlotFacts
    <2>5. QED
      BY <2>1, <2>2, <2>3, <2>4, IntervalType DEF Current, Behind
  <1>4. QED
    BY <1>1, <1>2, <1>3, PTL

----------------------------------------------------------------------------
(* Maintenance.                                                            *)

\* The first maintenance, in the block of the first slot, is not one slot before
\* the next multiple of the maintenance interval.
FirstMaintenance == (GenesisTime + 2 * Interval) % Initial.maintenance_interval # 0

\* The next maintenance starts a slot after the head block, and is later than the
\* time the last budget was made for.
Regular(nd) ==
  LET g == head(nd) IN
  nd.blocks # <<>> =>
    /\ g.next_maintenance_time \in Nat /\ g.next_maintenance_time % Interval = 0
    /\ g.next_maintenance_time >= g.time + Interval
    /\ g.last_budget_time # 0 => g.next_maintenance_time > g.last_budget_time

AheadInv == calm => \A n \in Nodes : Regular(node[n])

\* A sum of multiples, and two multiples that differ.
LEMMA MultipleSum ==
  ASSUME NEW s \in Nat, NEW t \in Nat, NEW m \in Nat \ {0}, s % m = 0, t % m = 0
  PROVE  /\ s + t \in Nat /\ (s + t) % m = 0
         /\ s < t => s + m <= t
  <1> DEFINE a == s \div m
             b == t \div m
  <1>1. a \in Nat /\ b \in Nat /\ s = a * m /\ t = b * m
    BY Division
  <1> HIDE DEF a, b
  <1>2. (a + b) * m = a * m + b * m /\ a + b \in Nat
    BY <1>1
  <1>3. (s + t) % m = 0
    BY <1>1, <1>2, Multiples
  <1>4. ASSUME s < t
        PROVE  s + m <= t
    <2>1. CASE b <= a
      <3>1. a = b + (a - b) /\ a - b \in Nat
        BY <1>1, <2>1
      <3>2. a * m = b * m + (a - b) * m
        BY <1>1, <3>1
      <3>3. (a - b) * m >= 0
        BY <3>1
      <3>4. QED
        BY <1>1, <1>4, <3>2, <3>3
    <2>2. CASE b >= a + 1
      <3>1. b = a + 1 + (b - a - 1) /\ b - a - 1 \in Nat
        BY <1>1, <2>2
      <3>2. b * m = a * m + m + (b - a - 1) * m
        BY <1>1, <3>1
      <3>3. (b - a - 1) * m >= 0
        BY <3>1
      <3>4. QED
        BY <1>1, <3>2, <3>3
    <2>3. QED
      BY <1>1, <2>1, <2>2
  <1>5. QED
    BY <1>3, <1>4

\* A multiple of a multiple.
LEMMA MultipleOfMultiple ==
  ASSUME NEW q \in Nat, NEW k \in Nat \ {0}, NEW m \in Nat \ {0}, k % m = 0
  PROVE  q * k \in Nat /\ (q * k) % m = 0
  <1> DEFINE a == k \div m
  <1>1. a \in Nat /\ k = a * m
    BY Division
  <1> HIDE DEF a
  <1>2. q * k = (q * a) * m /\ q * a \in Nat
    BY <1>1
  <1>3. QED
    BY <1>2, Multiples

\* Chain parameters that can be in force.
LEMMA ParametersFacts ==
  ASSUME OneInterval, NEW p \in Parameters \cup {Initial}
  PROVE  /\ p.block_interval = Interval /\ p.maintenance_interval \in Nat \ {0}
         /\ p.maintenance_interval > Interval /\ p.maintenance_interval % Interval = 0
  <1>1. Valid(p) /\ p.block_interval = Interval
    BY ScheduleAssumption DEF OneInterval, Interval
  <1>2. QED
    BY <1>1, IntervalType DEF Valid

\* Where every slot has its block, a block that extends the chain leaves the next
\* maintenance after the budget.
LEMMA RegularNext ==
  ASSUME OneInterval, FirstMaintenance, NEW nd, Built(nd), Regular(nd), NEW h, IsHeader(h),
         h.timestamp = head(nd).time + Interval, nd.blocks = <<>> => h.update = None,
         NEW e, Built(e), e.blocks # <<>>, head(e) = After(head(nd), h, Len(nd.blocks) + 1)
  PROVE  Regular(e)
  <1> DEFINE g == head(nd)
             num == Len(nd.blocks) + 1
             t == h.timestamp
             f == [g EXCEPT !.time = h.timestamp,
                     !.pending_parameters = IF h.update = None THEN @ ELSE h.update]
             x == IF f.pending_parameters = None THEN f.parameters ELSE f.pending_parameters
             p == [f EXCEPT !.parameters = x, !.pending_parameters = None, !.active_witnesses = h.order]
             M == x.maintenance_interval
             a == head(e)
  <1>1. /\ Len(nd.blocks) \in Nat /\ IsGlobals(g) /\ g = nd.states[Len(nd.blocks) + 1]
        /\ nd.states[1] = GenesisState /\ IsSeq(nd.blocks)
    BY HeadFacts DEF Built
  <1>2. /\ f.time = t /\ DOMAIN f = DOMAIN g /\ f.next_maintenance_time = g.next_maintenance_time
        /\ f.last_budget_time = g.last_budget_time /\ f.parameters = g.parameters
        /\ f.pending_parameters = IF h.update = None THEN g.pending_parameters ELSE h.update
    BY <1>1 DEF IsGlobals
  <1>3. a = IF maintenance_due(f, h) THEN perform_chain_maintenance(f, h, num)
            ELSE IF num % RoundSize = 0 THEN [f EXCEPT !.active_witnesses = h.order]
            ELSE f
    BY DEF After, f
  <1>4. perform_chain_maintenance(f, h, num) =
          [p EXCEPT !.next_maintenance_time = next_maintenance_time(p, h, num),
                    !.last_budget_time = h.timestamp + interval(p)]
    BY DEF perform_chain_maintenance
  <1>5. x \in Parameters \cup {Initial}
    BY <1>1, <1>2, ScheduleAssumption DEF IsGlobals, IsHeader
  <1>6. M \in Nat \ {0} /\ M > Interval /\ M % Interval = 0 /\ x.block_interval = Interval
    BY <1>5, ParametersFacts
  <1>7. /\ g.time \in Nat /\ g.time % Interval = 0 /\ Interval \in Nat \ {0}
        /\ t \in Nat /\ t % Interval = 0 /\ t = g.time + Interval
    <2>1. g.time \in Nat /\ g.time % Interval = 0
      BY <1>1 DEF IsGlobals
    <2>2. QED
      BY <2>1, IntervalType, NextSlot
  <1>8. p.parameters = x /\ interval(p) = Interval /\ p.next_maintenance_time = g.next_maintenance_time
        /\ DOMAIN p = DOMAIN g /\ p.time = t
    <2> HIDE DEF x
    <2>1. p.parameters = x /\ p.next_maintenance_time = f.next_maintenance_time /\ p.time = f.time
          /\ DOMAIN p = DOMAIN f
      BY <1>1, <1>2 DEF IsGlobals
    <2> HIDE DEF p
    <2>2. QED
      BY <1>2, <1>6, <2>1 DEF interval
  <1> DEFINE N == next_maintenance_time(p, h, num)
  <1>9. N = IF num = 1 THEN ((t \div M) + 1) * M ELSE g.next_maintenance_time + M
    <2> HIDE DEF x, p, t
    <2>1. QED
      BY <1>8 DEF next_maintenance_time, t
  <1> HIDE DEF f, x, p, a, M, N
  <1>10. maintenance_due(f, h) => a.next_maintenance_time = N /\ a.last_budget_time = t + Interval /\ a.time = t
    <2> SUFFICES ASSUME maintenance_due(f, h)
                 PROVE  a.next_maintenance_time = N /\ a.last_budget_time = t + Interval /\ a.time = t
      OBVIOUS
    <2>1. a = [p EXCEPT !.next_maintenance_time = N, !.last_budget_time = t + Interval]
      <3> HIDE DEF t
      <3>1. QED
        BY <1>3, <1>4, <1>8 DEF N, t
    <2>2. {"next_maintenance_time", "last_budget_time", "time"} \subseteq DOMAIN p
      BY <1>1, <1>8 DEF IsGlobals
    <2>3. QED
      BY <1>8, <2>1, <2>2
  <1>11. ~ maintenance_due(f, h) => /\ a.next_maintenance_time = g.next_maintenance_time
                                    /\ a.last_budget_time = g.last_budget_time /\ a.time = t
    BY <1>2, <1>3
  <1>12. maintenance_due(f, h) <=> g.next_maintenance_time <= t
    BY <1>2 DEF maintenance_due
  <1>13. CASE nd.blocks = <<>>
    <2>1. num = 1 /\ g = GenesisState
      BY <1>1, <1>13
    <2>2. g.time = GenesisTime /\ g.next_maintenance_time = 0
      BY <2>1 DEF GenesisState
    <2>3. maintenance_due(f, h)
      BY <1>7, <1>12, <2>2
    <2>4. M = Initial.maintenance_interval
      BY <1>2, <1>13, <2>1 DEF GenesisState, M, x
    <2> DEFINE q == t \div M
    <2>5. N = (q + 1) * M
      BY <1>9, <2>1
    <2>6. q \in Nat /\ t % M \in Nat /\ t = q * M + (t % M) /\ t % M < M
      BY <1>6, <1>7, Division, Remainder
    <2> HIDE DEF q
    <2>7. N = q * M + M /\ N \in Nat /\ N > t
      <3>1. q * M \in Nat
        BY <1>6, <2>6
      <3>2. (q + 1) * M = q * M + M
        BY <1>6, <2>6
      <3>3. QED
        BY <1>6, <2>5, <2>6, <3>1, <3>2
    <2>8. N % Interval = 0 /\ N % M = 0
      <3>1. q + 1 \in Nat
        BY <2>6
      <3>2. ((q + 1) * M) % Interval = 0
        BY <1>6, <1>7, <3>1, MultipleOfMultiple
      <3>3. ((q + 1) * M) % M = 0
        BY <1>6, <3>1, Multiples
      <3>4. QED
        BY <2>5, <3>2, <3>3
    <2>9. N >= t + Interval
      BY <1>7, <2>7, <2>8, MultipleSum
    <2>10. N # t + Interval
      <3>1. t + Interval = GenesisTime + 2 * Interval
        BY <1>7, <2>2
      <3>2. QED
        BY <2>4, <2>8, <3>1 DEF FirstMaintenance
    <2>11. N > t + Interval
      <3>1. \A u, v \in Int : u >= v /\ u # v => u > v
        OBVIOUS
      <3>2. N \in Int /\ t + Interval \in Int
        BY <1>7, <2>7
      <3>3. QED
        BY <2>9, <2>10, <3>1, <3>2, Zenon
    <2>12. QED
      BY <1>10, <2>3, <2>7, <2>8, <2>9, <2>11 DEF Regular, a
  <1>14. CASE nd.blocks # <<>>
    <2>1. num # 1
      <3>1. Len(nd.blocks) # 0
        BY <1>1, <1>14, EmptySeq DEF IsSeq
      <3>2. QED
        BY <1>1, <3>1
    <2>2. /\ g.next_maintenance_time \in Nat /\ g.next_maintenance_time % Interval = 0
          /\ g.next_maintenance_time >= t
          /\ g.last_budget_time # 0 => g.next_maintenance_time > g.last_budget_time
      BY <1>7, <1>14 DEF Regular
    <2> HIDE DEF g, t
    <2>3. CASE g.next_maintenance_time <= t
      <3>1. N = t + M /\ maintenance_due(f, h)
        BY <1>7, <1>9, <1>12, <2>1, <2>2, <2>3
      <3>2. N \in Nat /\ N % Interval = 0 /\ N > t + Interval
        <4>1. t + M \in Nat /\ (t + M) % Interval = 0
          BY <1>6, <1>7, MultipleSum, ZenonT(60)
        <4>2. t + M > t + Interval
          <5>1. t \in Nat /\ M \in Nat /\ Interval \in Nat /\ M > Interval
            BY <1>6, <1>7
          <5>2. QED
            BY <5>1
        <4>3. QED
          BY <3>1, <4>1, <4>2
      <3>3. a.next_maintenance_time = N /\ a.last_budget_time = t + Interval /\ a.time = t
        BY <1>10, <3>1
      <3>4. N >= t + Interval
        BY <1>6, <1>7, <3>2
      <3>5. QED
        BY <3>2, <3>3, <3>4 DEF Regular, a
    <2>4. CASE g.next_maintenance_time > t
      <3>1. g.next_maintenance_time >= t + Interval
        BY <1>7, <2>2, <2>4, MultipleSum
      <3>2. ~ maintenance_due(f, h)
        BY <1>7, <1>12, <2>2, <2>4
      <3>3. QED
        BY <1>11, <2>2, <3>1, <3>2 DEF Regular, a
    <2>5. QED
      BY <1>7, <2>2, <2>3, <2>4
  <1>15. QED
    BY <1>13, <1>14

\* A calm schedule keeps every node regular.
LEMMA AheadStep ==
  OneInterval /\ FirstMaintenance /\ ScheduleInv /\ ScheduleInv' /\ PeaceInv /\ CalmInv /\ AheadInv /\ [Next]_vars
    => AheadInv'
  <1> SUFFICES ASSUME OneInterval, FirstMaintenance, ScheduleInv, ScheduleInv', PeaceInv, CalmInv, AheadInv,
                      [Next]_vars, calm'
               PROVE  \A n \in Nodes : Regular(node'[n])
    BY DEF AheadInv
  <1>0. /\ clock \in Nat /\ node = [m \in Nodes |-> node[m]] /\ \A m \in Nodes : Built(node[m]) /\ Built(node'[m])
        /\ calm => /\ Peaceful /\ Kept(node, wake, sent, clock) /\ \A m \in Nodes : Regular(node[m])
    BY DEF ScheduleInv, NodeInv, PeaceInv, CalmInv, AheadInv
  <1>1. ASSUME NEW n \in Nodes, NEW e, calm' = calm, node' = [node EXCEPT ![n] = e], Regular(e)
        PROVE  \A m \in Nodes : Regular(node'[m])
    <2>1. \A m \in Nodes : node'[m] = IF m = n THEN e ELSE node[m]
      BY <1>0, <1>1
    <2>2. QED
      BY <1>0, <1>1, <2>1
  <1>2. ASSUME NEW n \in Nodes, NEW b \in sent, handle_block(n, b)
        PROVE  \A m \in Nodes : Regular(node'[m])
    <2> DEFINE e == push_block(node[n], b)
    <2>1. calm' = calm /\ b \notin node[n].known /\ node' = [node EXCEPT ![n] = e]
      <3>1. node' = [node EXCEPT ![n] = push_block(@, b)]
        BY <1>2 DEF handle_block
      <3>2. QED
        BY <1>0, <1>2, <3>1 DEF handle_block
    <2>2. PICK k \in Nodes : b = node[k].blocks
      BY <1>0, <2>1 DEF Kept
    <2>3. e.blocks = node[n].blocks \/ e.blocks = b
      BY <1>0, <2>1, PushLawful DEF Peaceful
    <2>4. Built(e)
      <3>1. node'[n] = e
        BY <1>0, <2>1
      <3>2. QED
        BY <1>0, <3>1
    <2> HIDE DEF e
    <2>5. ASSUME NEW m \in Nodes, e.blocks = node[m].blocks
          PROVE  Regular(e)
      <3>1. head(e) = head(node[m])
        BY <1>0, <2>4, <2>5, SameStates
      <3>2. Regular(node[m])
        BY <1>0, <2>1
      <3>3. QED
        BY <2>5, <3>1, <3>2 DEF Regular
    <2>6. Regular(e)
      BY <2>2, <2>3, <2>5
    <2>7. QED
      BY <1>1, <2>1, <2>6
  <1>3. ASSUME NEW n \in Nodes, NEW u \in Parameters \cup {None}, NEW o \in Orders,
               block_production_loop(n, u, o)
        PROVE  \A m \in Nodes : Regular(node'[m])
    <2> DEFINE h == generated(n, u, o)
               b == Append(node[n].blocks, h)
               e == push_block(stamped(n), b)
    <2>1. calm' = calm /\ is_scheduled(n) /\ node' = [node EXCEPT ![n] = e] /\ (u # None => Len(b) > 1)
      BY <1>3 DEF block_production_loop
    <2>2. Peaceful /\ Kept(node, wake, sent, clock) /\ Regular(node[n]) /\ Built(node[n])
      BY <1>0, <2>1
    <2>3. h.timestamp = clock /\ Behind(node[n], clock) /\ b # <<>>
      BY <1>3, <2>2, Producing
    <2>4. IsHeader(h) /\ h.update = u
      BY <2>1, GeneratedBlock DEF generated
    <2>5. Open(e) /\ e.blocks = b /\ head(e) = After(head(node[n]), h, Len(node[n].blocks) + 1)
      BY <2>1, <2>2, SignedApplies DEF Peaceful
    <2>6. node[n].blocks = <<>> => h.update = None
      <3> SUFFICES ASSUME node[n].blocks = <<>>
                   PROVE  u = None
        BY <2>4
      <3>1. Len(node[n].blocks) = 0 /\ IsSeq(node[n].blocks)
        BY <2>2 DEF Built
      <3> HIDE DEF h
      <3>2. Len(b) = 1
        BY <3>1, AppendSeq
      <3>3. QED
        BY <2>1, <3>2
    <2>7. h.timestamp = head(node[n]).time + Interval
      BY <2>3 DEF Behind
    <2> HIDE DEF e, b, h
    <2>8. Built(e) /\ e.blocks # <<>>
      BY <2>3, <2>5 DEF Open, NodeInv
    <2>9. Regular(e)
      BY <2>2, <2>4, <2>5, <2>6, <2>7, <2>8, RegularNext
    <2>10. QED
      BY <1>1, <2>1, <2>9
  <1>4. ASSUME NEW n \in Nodes, block_production_fails(n) \/ restart(n)
        PROVE  FALSE
    BY <1>4 DEF block_production_fails, restart
  <1>5. ASSUME NEW n \in Nodes, block_production_idle(n)
        PROVE  \A m \in Nodes : Regular(node'[m])
    BY <1>0, <1>5 DEF block_production_idle
  <1>6. CASE Tick
    BY <1>0, <1>6 DEF Tick
  <1>7. CASE UNCHANGED vars
    BY <1>0, <1>7 DEF vars
  <1>8. QED
    BY <1>2, <1>3, <1>4, <1>5, <1>6, <1>7 DEF Next

\* While no slot is missed, the next maintenance time is in the future of the
\* budget, as the comment in process_budget expects: always, with the exception of
\* a first maintenance that comes one slot before the next multiple.
THEOREM MaintenanceStaysAhead ==
  ASSUME OneInterval, Served, FirstMaintenance
  PROVE  Spec => []MaintenanceAhead
  <1>1. Spec => []ScheduleInv
    BY ScheduleInvariant
  <1>2. Spec => []CalmInv
    BY CalmInvariant
  <1>3. OneInterval /\ FirstMaintenance
    OBVIOUS
  <1>4. ScheduleInv /\ PeaceInv /\ [Next]_vars => PeaceInv'
    BY <1>3, PeaceStep
  <1>5. ScheduleInv /\ ScheduleInv' /\ PeaceInv /\ CalmInv /\ AheadInv /\ [Next]_vars => AheadInv'
    BY <1>3, AheadStep
  <1>6. Init => AheadInv
    <2> SUFFICES ASSUME Init, NEW n \in Nodes
                 PROVE  node[n].blocks = <<>>
      BY DEF AheadInv, Regular
    <2>1. QED
      BY DEF Init, Fresh
  <1>7. ScheduleInv /\ AheadInv => MaintenanceAhead
    <2> SUFFICES ASSUME ScheduleInv, AheadInv, calm, NEW n \in Nodes, head(node[n]).last_budget_time # 0
                 PROVE  head(node[n]).next_maintenance_time > head(node[n]).last_budget_time
      BY DEF MaintenanceAhead
    <2>1. Built(node[n])
      BY DEF ScheduleInv, NodeInv
    <2>2. CASE node[n].blocks = <<>>
      <3>1. head(node[n]) = GenesisState
        <4>1. Len(node[n].blocks) = 0 /\ 0 + 1 = 1
          BY <2>2
        <4>2. head(node[n]) = node[n].states[Len(node[n].blocks) + 1]
          BY <2>1, HeadFacts
        <4>3. QED
          BY <2>1, <4>1, <4>2 DEF Built
      <3>2. QED
        BY <3>1 DEF GenesisState
    <2>3. CASE node[n].blocks # <<>>
      BY <2>3 DEF AheadInv, Regular
    <2>4. QED
      BY <2>2, <2>3
  <1>8. QED
    BY <1>1, <1>2, <1>4, <1>5, <1>6, <1>7, PeaceInit, PTL DEF Spec
=============================================================================
