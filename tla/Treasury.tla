------------------------------ MODULE Treasury ------------------------------
(***************************************************************************)
(* The core asset outside the market: who holds it, how fees are shared    *)
(* out, how the reserve flows back through the budget to witnesses and     *)
(* workers at every maintenance interval, how vesting balances release     *)
(* what they hold, and how withdrawal permissions limit what one account   *)
(* takes from another.                                                     *)
(*                                                                         *)
(* An operation is one action: it passes do_evaluate, pays its fee, is     *)
(* applied, and the fee is taken from the payer's balance at the very end. *)
(* One that throws anywhere is undone with its transaction and takes no    *)
(* step.  head_block_time is the time of the block before.  Votes are      *)
(* inputs: a maintenance block ranks the workers in any order.             *)
(***************************************************************************)
EXTENDS Integers, FiniteSetsExt, SequencesExt

CONSTANTS
    Accounts, Witnesses, WitnessAccount, Referrer, Prime,
    Genesis,              \* the account that pays for changes of parameters
    Deposits, Leftovers,  \* what init_genesis hands out, and what is left
    Fees,                 \* current_fee_schedule: operation -> fee
    Full,                 \* BTS_100_PERCENT
    Rate, Scale,          \* BTS_CORE_ASSET_CYCLE_RATE, 2^.._RATE_BITS
    Day, BlockInterval, StartTime,
    InitialParameters, NewParameters,
    TransferOps, BurnOps, VestingOps, WorkerOps, PermissionOps,
    Amounts,              \* amounts withdrawn and claimed
    Waits,                \* until the first period of a permission begins
    MaxOps, MaxTime, MaxMissed,   \* bounds: operations, time, slots in a row
    None

Total(f) == MapThenSumSet(LAMBDA x : f[x], DOMAIN f)

MaxSupply == Total(Deposits) + Leftovers

ParameterNames ==
    {"witness_percent_of_fee", "burn_percent_of_fee", "max_bulk_discount_percent_of_fee",
     "bulk_discount_threshold_min", "bulk_discount_threshold_max",
     "cashback_vesting_period_seconds", "witness_pay_per_block", "worker_budget_per_day",
     "maintenance_interval"}

ASSUME TreasuryAssumption ==
    /\ WitnessAccount \in [Witnesses -> Accounts]
    /\ Referrer \in [Accounts -> Accounts] /\ Prime \subseteq Accounts /\ Genesis \in Accounts
    /\ Deposits \in [Accounts -> Nat] /\ Leftovers \in Nat
    /\ IsFiniteSet(Accounts) /\ IsFiniteSet(Witnesses)
    /\ {Full, Rate, Scale, Day, BlockInterval} \subseteq Nat \ {0} /\ StartTime \in Nat
    /\ \A p \in {InitialParameters} \cup NewParameters :
         /\ p \in [ParameterNames -> Nat]
         /\ p.witness_percent_of_fee + p.burn_percent_of_fee <= Full
         /\ p.max_bulk_discount_percent_of_fee <= Full
         /\ p.bulk_discount_threshold_min <= p.bulk_discount_threshold_max
         /\ p.maintenance_interval > BlockInterval

\* validate(): fees and amounts are not negative.
OperationNames ==
    {"transfer", "asset_burn", "vesting_balance_create", "vesting_balance_withdraw",
     "witness_withdraw_pay", "worker_create", "global_parameters_update",
     "withdraw_permission_create", "withdraw_permission_update", "withdraw_permission_claim",
     "withdraw_permission_delete"}

ASSUME OperationsAssumption ==
    /\ Fees \in [OperationNames -> Nat] /\ Amounts \subseteq Nat /\ Waits \subseteq Nat
    /\ \A o \in TransferOps : {o.from, o.to} \subseteq Accounts /\ o.amount \in Nat
    /\ \A o \in BurnOps : o.payer \in Accounts /\ o.amount \in Nat
    /\ \A o \in VestingOps : {o.creator, o.owner} \subseteq Accounts
                             /\ {o.amount, o.vesting_seconds} \subseteq Nat
    /\ \A o \in WorkerOps : o.owner \in Accounts /\ {o.daily_pay, o.days} \subseteq Nat
    /\ \A o \in PermissionOps : {o.from, o.to} \subseteq Accounts
                                /\ {o.limit, o.period, o.periods} \subseteq Nat

VARIABLES
    db,   \* the objects of the chain database
    ops   \* operations so far

vars == <<db, ops>>

\* forfeited is history: what process_budget dropped of the witness budget.
Init ==
    /\ db = [balance |-> Deposits, lifetime_fees_paid |-> [a \in Accounts |-> 0],
             cashback_vb |-> [a \in Accounts |-> None],
             vesting |-> <<>>, workers |-> <<>>, permissions |-> <<>>,
             accumulated_income |-> [w \in Witnesses |-> 0],
             current_supply |-> MaxSupply, accumulated_fees |-> Leftovers,
             witness_budget |-> 0, last_budget_time |-> 0, next_maintenance_time |-> 0,
             time |-> StartTime, block_num |-> 0,
             parameters |-> InitialParameters, pending_parameters |-> None,
             forfeited |-> 0]
    /\ ops = 0

AtMost(a, b) == IF a <= b THEN a ELSE b
Ceiling(a, b) == (a + b - 1) \div b
Truncated(a, b) == IF a >= 0 THEN a \div b ELSE - ((- a) \div b)

----------------------------------------------------------------------------
(* Vesting balances.  Two fields are history: touched, the time of the     *)
(* last change, and credit, the coin-seconds held until then less those    *)
(* that the withdrawals used up.                                           *)

NewVesting(owner, amount, seconds, now) ==
    [owner |-> owner, balance |-> amount, vesting_seconds |-> seconds,
     coin_seconds_earned |-> 0, coin_seconds_earned_last_update |-> now,
     credit |-> 0, touched |-> now]

compute_coin_seconds_earned(v, now) ==
    AtMost(v.coin_seconds_earned + v.balance * (now - v.coin_seconds_earned_last_update),
           v.balance * v.vesting_seconds)

update_coin_seconds_earned(v, now) ==
    [v EXCEPT !.coin_seconds_earned = compute_coin_seconds_earned(v, now),
              !.coin_seconds_earned_last_update = now]

\* With a period of zero days the division throws and nothing is ever allowed.
get_allowed_withdraw(v, now) ==
    IF v.vesting_seconds = 0 THEN 0 ELSE compute_coin_seconds_earned(v, now) \div v.vesting_seconds

Aged(v, now) == [v EXCEPT !.credit = @ + v.balance * (now - v.touched), !.touched = now]

\* Mutant: what comes in vests for the time that passed before.
deposit_backdated(v, now, amount) ==
    update_coin_seconds_earned([Aged(v, now) EXCEPT !.balance = @ + amount], now)

\* What was there vests for the time that passed, what comes in starts anew.
deposit(v, now, amount) ==
    [update_coin_seconds_earned(Aged(v, now), now) EXCEPT !.balance = @ + amount]

withdraw(v, now, amount) ==
    [update_coin_seconds_earned(Aged(v, now), now)
        EXCEPT !.coin_seconds_earned = @ - amount * v.vesting_seconds,
               !.credit = @ - amount * v.vesting_seconds,
               !.balance = @ - amount]

----------------------------------------------------------------------------
(* Fees                                                                    *)

\* A balance whose period is no longer the current one is cut loose.
deposit_cashback(s, a, amount) ==
    LET vb      == s.cashback_vb[a]
        seconds == s.parameters.cashback_vesting_period_seconds
    IN  CASE amount = 0 -> s
          [] amount # 0 /\ vb # None /\ s.vesting[vb].vesting_seconds = seconds ->
               [s EXCEPT !.vesting[vb] = deposit(@, s.time, amount)]
          [] OTHER ->
               [s EXCEPT !.vesting = Append(@, NewVesting(a, amount, seconds, s.time)),
                         !.cashback_vb[a] = Len(s.vesting) + 1]

BulkDiscountPercent(s, a) ==
    LET p    == s.parameters
        paid == s.lifetime_fees_paid[a]
        span == p.bulk_discount_threshold_max - p.bulk_discount_threshold_min
    IN  CASE paid <= p.bulk_discount_threshold_min \/ a \notin Prime -> 0
          [] paid > p.bulk_discount_threshold_max /\ a \in Prime ->
               p.max_bulk_discount_percent_of_fee
          [] OTHER ->
               (p.max_bulk_discount_percent_of_fee * (paid - p.bulk_discount_threshold_min)) \div span

pay_fee(s, a, fee) ==
    LET bulk_cashback == (fee * BulkDiscountPercent(s, a)) \div Full
        total         == fee - bulk_cashback
        accumulated   == (total * s.parameters.witness_percent_of_fee) \div Full
        burned        == (total * s.parameters.burn_percent_of_fee) \div Full
        booked        == [s EXCEPT !.accumulated_fees = @ + accumulated + burned,
                                   !.lifetime_fees_paid[a] = @ + total]
    IN  deposit_cashback(
            deposit_cashback(booked, Referrer[a], total - accumulated - burned),
            a, bulk_cashback)

adjust_balance(s, a, delta) == [s EXCEPT !.balance[a] = @ + delta]

\* evaluator::apply: the fee is shared out, the operation applied, and the fee
\* taken from the payer at last.  Any change that makes a balance negative throws.
Paid(payer, op) == pay_fee(db, payer, Fees[op])

Applies(payer, op, applied) ==
    LET charged == adjust_balance(applied, payer, - Fees[op])
    IN  /\ ops < MaxOps
        /\ \A a \in Accounts : applied.balance[a] >= 0 /\ charged.balance[a] >= 0
        /\ db' = charged
        /\ ops' = ops + 1

----------------------------------------------------------------------------
(* Operations                                                              *)

transfer(o) ==
    LET s == Paid(o.from, "transfer")
    IN  /\ db.balance[o.from] >= o.amount
        /\ Applies(o.from, "transfer",
                   adjust_balance(adjust_balance(s, o.from, - o.amount), o.to, o.amount))

asset_burn(o) ==
    LET s == Paid(o.payer, "asset_burn")
    IN  /\ db.current_supply >= o.amount
        /\ Applies(o.payer, "asset_burn",
                   [adjust_balance(s, o.payer, - o.amount) EXCEPT !.current_supply = @ - o.amount])

\* The creator has to own the amount once more after it was taken from him.
vesting_balance_create(o) ==
    LET s == Paid(o.creator, "vesting_balance_create")
        v == NewVesting(o.owner, o.amount, o.vesting_seconds, s.time)
    IN  /\ db.balance[o.creator] - o.amount >= o.amount
        /\ Applies(o.creator, "vesting_balance_create",
                   [adjust_balance(s, o.creator, - o.amount) EXCEPT !.vesting = Append(@, v)])

vesting_balance_withdraw(i, amount) ==
    LET owner == db.vesting[i].owner
        s     == Paid(owner, "vesting_balance_withdraw")
    IN  /\ amount <= get_allowed_withdraw(db.vesting[i], db.time)
        /\ Applies(owner, "vesting_balance_withdraw",
                   adjust_balance([s EXCEPT !.vesting[i] = withdraw(@, s.time, amount)], owner, amount))

witness_withdraw_pay(w, amount) ==
    LET s == Paid(WitnessAccount[w], "witness_withdraw_pay")
    IN  /\ amount <= db.accumulated_income[w]
        /\ Applies(WitnessAccount[w], "witness_withdraw_pay",
                   [adjust_balance(s, WitnessAccount[w], amount)
                       EXCEPT !.accumulated_income[w] = @ - amount])

\* A worker is paid into a vesting balance of its own, or burns its pay.
worker_create(o) ==
    LET s    == Paid(o.owner, "worker_create")
        v    == NewVesting(o.owner, 0, o.days * Day, s.time)
        vb   == IF o.refund THEN None ELSE Len(s.vesting) + 1
        work == [daily_pay |-> o.daily_pay, begin |-> o.begin, end |-> o.end, vb |-> vb]
    IN  /\ o.owner \in Prime
        /\ o.begin >= db.time
        /\ Applies(o.owner, "worker_create",
                   [s EXCEPT !.workers = Append(@, work),
                             !.vesting = IF o.refund THEN @ ELSE Append(@, v)])

global_parameters_update(p) ==
    Applies(Genesis, "global_parameters_update",
            [Paid(Genesis, "global_parameters_update") EXCEPT !.pending_parameters = p])

----------------------------------------------------------------------------
(* Withdrawal permissions.  Three fields are history: start, from which    *)
(* the periods are counted, and what was taken in the latest of them.      *)

Permits(o, start) ==
    /\ start + o.periods * o.period > db.time
    /\ o.period >= BlockInterval

withdraw_permission_create(o, start) ==
    LET p == [from |-> o.from, to |-> o.to, limit |-> o.limit, period |-> o.period,
              expiration |-> start + o.periods * o.period,
              next_period_start_time |-> start, claimed_this_period |-> 0,
              start |-> start, window |-> 0, taken |-> 0]
    IN  /\ start > db.time
        /\ Permits(o, start)
        /\ Applies(o.from, "withdraw_permission_create",
                   [Paid(o.from, "withdraw_permission_create") EXCEPT !.permissions = Append(@, p)])

\* claimed_this_period is kept.
withdraw_permission_update(i, o, start) ==
    /\ db.permissions[i].from = o.from /\ db.permissions[i].to = o.to
    /\ start >= db.time
    /\ Permits(o, start)
    /\ Applies(o.from, "withdraw_permission_update",
               [Paid(o.from, "withdraw_permission_update")
                   EXCEPT !.permissions[i] =
                       [@ EXCEPT !.next_period_start_time = start,
                                 !.expiration = start + o.periods * o.period,
                                 !.limit = o.limit, !.period = o.period,
                                 !.start = start, !.window = 0, !.taken = 0]])

available_this_period(p, now) ==
    CASE now > p.next_period_start_time + p.period -> p.limit
      [] OTHER -> IF p.claimed_this_period < p.limit THEN p.limit - p.claimed_this_period ELSE 0

Noted(p, now, amount) ==
    LET window == (now - p.start) \div p.period
    IN  [p EXCEPT !.window = window, !.taken = IF window = p.window THEN @ + amount ELSE amount]

\* Mutant: the beginning of the next period is not moved.
Claimed_in_place(p, now, amount) ==
    LET periods == Truncated(now - p.next_period_start_time, p.period)
    IN  [Noted(p, now, amount)
            EXCEPT !.claimed_this_period = IF periods = 0 THEN @ + amount ELSE amount]

\* The number of periods is truncated: it may be zero or negative before the first begins.
Claimed(p, now, amount) ==
    LET periods == Truncated(now - p.next_period_start_time, p.period)
    IN  [Noted(p, now, amount)
            EXCEPT !.next_period_start_time = @ + periods * p.period,
                   !.claimed_this_period = IF periods = 0 THEN @ + amount ELSE amount]

withdraw_permission_claim(i, amount) ==
    LET p == db.permissions[i]
        s == Paid(p.to, "withdraw_permission_claim")
    IN  /\ p.expiration > db.time
        /\ amount <= available_this_period(p, db.time)
        /\ db.balance[p.from] >= amount
        /\ Applies(p.to, "withdraw_permission_claim",
                   adjust_balance(adjust_balance(
                       [s EXCEPT !.permissions[i] = Claimed(@, s.time, amount)],
                       p.from, - amount), p.to, amount))

withdraw_permission_delete(i) ==
    LET from == db.permissions[i].from
    IN  Applies(from, "withdraw_permission_delete",
                [Paid(from, "withdraw_permission_delete") EXCEPT !.permissions[i] = None])

update_withdraw_permissions(s) ==
    [s EXCEPT !.permissions = [i \in DOMAIN @ |->
        IF @[i] # None /\ @[i].expiration < s.time THEN None ELSE @[i]]]

----------------------------------------------------------------------------
(* The budget                                                              *)

\* _pending_block.timestamp while a maintenance block is applied.
PendingTime(s) == s.time + BlockInterval

get_max_budget(s) ==
    LET reserve == MaxSupply - s.current_supply + s.accumulated_fees
        dt      == PendingTime(s) - s.last_budget_time
    IN  IF s.last_budget_time = 0 \/ dt <= 0
        THEN 0
        ELSE AtMost(Ceiling(reserve * dt * Rate, Scale), reserve)

\* Pays worker i from what is left of the budget.
pay_worker(paid, i) ==
    LET w         == paid.s.workers[i]
        requested == (w.daily_pay * (PendingTime(paid.s) - paid.s.last_budget_time)) \div Day
        pay       == AtMost(paid.budget, requested)
    IN  [s      |-> IF w.vb = None
                    THEN [paid.s EXCEPT !.current_supply = @ - pay]
                    ELSE [paid.s EXCEPT !.vesting[w.vb] = deposit(@, paid.s.time, pay)],
         budget |-> paid.budget - pay]

\* The workers that are active and approved, best first.
pay_workers(s, ranking, budget) ==
    FoldLeft(LAMBDA paid, i : IF paid.budget > 0 THEN pay_worker(paid, i) ELSE paid,
             [s |-> s, budget |-> budget], ranking)

\* Mutant: what the workers did not get is issued too.
Issued_leftover_too(witness_budget, worker_budget, leftover) == witness_budget + worker_budget

\* What the workers did not get stays in the reserve.
Issued(witness_budget, worker_budget, leftover) == witness_budget + worker_budget - leftover

process_budget(s, ranking) ==
    LET time_to_maint  == s.next_maintenance_time - PendingTime(s)
        available      == get_max_budget(s)
        witness_budget == AtMost(s.parameters.witness_pay_per_block
                                   * Ceiling(time_to_maint, BlockInterval), available)
        worker_budget  == AtMost((s.parameters.worker_budget_per_day * time_to_maint) \div Day,
                                 available - witness_budget)
        paid           == pay_workers(s, ranking, worker_budget)
    IN  [paid.s EXCEPT
            !.current_supply = @ + Issued(witness_budget, worker_budget, paid.budget)
                                 - s.accumulated_fees,
            !.accumulated_fees = 0,
            !.witness_budget = witness_budget,
            !.last_budget_time = PendingTime(s),
            !.forfeited = @ + s.witness_budget]

update_signing_witness(s, w) ==
    LET pay == AtMost(s.parameters.witness_pay_per_block, s.witness_budget)
    IN  [s EXCEPT !.witness_budget = @ - pay, !.accumulated_income[w] = @ + pay]

Maintained(s) ==
    LET p == IF s.pending_parameters # None THEN s.pending_parameters ELSE s.parameters
    IN  [s EXCEPT !.parameters = p,
                  !.pending_parameters = None,
                  !.next_maintenance_time =
                      IF s.block_num = 1
                      THEN (s.time \div p.maintenance_interval + 1) * p.maintenance_interval
                      ELSE @ + p.maintenance_interval]

Due(s) == s.next_maintenance_time <= s.time

Ranked(s) == {i \in DOMAIN s.workers : /\ s.workers[i].begin <= PendingTime(s)
                                       /\ PendingTime(s) <= s.workers[i].end}

\* The process ends if an assertion on the next maintenance time fails.
apply_block(w, missed) ==
    LET signed == update_signing_witness(
                      [db EXCEPT !.time = @ + (missed + 1) * BlockInterval, !.block_num = @ + 1], w)
        next   == Maintained(signed)
    IN  /\ signed.time <= MaxTime
        /\ \/ /\ ~ Due(signed)
              /\ db' = update_withdraw_permissions(signed)
           \/ /\ Due(signed)
              /\ next.next_maintenance_time > PendingTime(next)
              /\ \E ranking \in SetToAllKPermutations(Ranked(next)) :
                   db' = update_withdraw_permissions(process_budget(next, ranking))
        /\ UNCHANGED ops

Permissions == {i \in DOMAIN db.permissions : db.permissions[i] # None}

Next ==
    \/ \E o \in TransferOps : transfer(o)
    \/ \E o \in BurnOps : asset_burn(o)
    \/ \E o \in VestingOps : vesting_balance_create(o)
    \/ \E i \in DOMAIN db.vesting, amount \in Amounts : vesting_balance_withdraw(i, amount)
    \/ \E w \in Witnesses, amount \in Amounts : witness_withdraw_pay(w, amount)
    \/ \E o \in WorkerOps : worker_create(o)
    \/ \E p \in NewParameters : global_parameters_update(p)
    \/ \E o \in PermissionOps, wait \in Waits : withdraw_permission_create(o, db.time + wait)
    \/ \E i \in Permissions, o \in PermissionOps, wait \in Waits :
         withdraw_permission_update(i, o, db.time + wait)
    \/ \E i \in Permissions, amount \in Amounts : withdraw_permission_claim(i, amount)
    \/ \E i \in Permissions : withdraw_permission_delete(i)
    \/ \E w \in Witnesses, missed \in 0 .. MaxMissed : apply_block(w, missed)

Spec == Init /\ [][Next]_vars
=============================================================================
