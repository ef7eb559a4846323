---------------------------- MODULE TreasuryProofs ----------------------------
(***************************************************************************)
(* Proofs about the core asset, vesting balances and withdrawal            *)
(* permissions, for every set of accounts, every schedule of fees, every   *)
(* parameter and every bound.                                              *)
(***************************************************************************)
EXTENDS TreasuryProperties, ProofLibrary

\* The fields of the records of the model.
DbFields ==
    {"balance", "lifetime_fees_paid", "cashback_vb", "vesting", "workers", "permissions",
     "accumulated_income", "current_supply", "accumulated_fees", "witness_budget",
     "last_budget_time", "next_maintenance_time", "time", "block_num", "parameters",
     "pending_parameters", "forfeited"}
VestingFields ==
    {"owner", "balance", "vesting_seconds", "coin_seconds_earned",
     "coin_seconds_earned_last_update", "credit", "touched"}
PermissionFields ==
    {"from", "to", "limit", "period", "expiration", "next_period_start_time",
     "claimed_this_period", "start", "window", "taken"}

\* A vesting balance: the coin-seconds on its account are never more than were
\* really held, nor than its balance can use.
VestingInv(v, now) ==
    /\ DOMAIN v = VestingFields /\ v.owner \in Accounts
    /\ v.balance \in Nat /\ v.vesting_seconds \in Nat /\ v.coin_seconds_earned \in Nat
    /\ v.touched \in Nat /\ v.touched <= now /\ v.coin_seconds_earned_last_update = v.touched
    /\ v.credit \in Int /\ v.coin_seconds_earned <= v.credit
    /\ v.coin_seconds_earned <= v.balance * v.vesting_seconds

\* The period that the code counts from begin is period w, in which the last claim
\* was made, or the next one if that claim came before the first period.
Counts(begin, start, w, period, now) ==
    \/ begin = start + w * period /\ start + w * period <= now
    \/ begin = start + w * period + period /\ start + w * period < now

\* A permission that was never claimed since it was agreed, or whose period is
\* the one of the last claim.
PermissionInv(p, now) ==
    /\ DOMAIN p = PermissionFields /\ {p.from, p.to} \subseteq Accounts
    /\ p.limit \in Nat /\ p.period \in Nat \ {0} /\ p.claimed_this_period \in Nat
    /\ p.taken \in Nat /\ {p.start, p.window, p.next_period_start_time, p.expiration} \subseteq Int
    /\ p.taken <= p.limit /\ p.taken <= p.claimed_this_period
    /\ \/ p.window = 0 /\ p.taken = 0 /\ p.next_period_start_time = p.start
       \/ Counts(p.next_period_start_time, p.start, p.window, p.period, now)

----------------------------------------------------------------------------
(* Arithmetic.                                                             *)

\* Products of natural numbers.
LEMMA Products ==
  ASSUME NEW a \in Nat, NEW b \in Nat, NEW c \in Nat
  PROVE  a * c \in Nat /\ (a <= b => a * c <= b * c)
  OBVIOUS

\* Products of integers.
LEMMA Distribution ==
  ASSUME NEW a \in Int, NEW b \in Int, NEW c \in Int
  PROVE  a * c \in Int /\ (a + b) * c = a * c + b * c /\ (a - b) * c = a * c - b * c
  OBVIOUS

\* Quotients of integers.
LEMMA Quotients ==
  ASSUME NEW a \in Int, NEW b \in Nat \ {0}
  PROVE  /\ a \div b \in Int /\ (a \div b) * b <= a /\ a < (a \div b) * b + b
         /\ a >= 0 => a \div b \in Nat
  OBVIOUS

\* What a quotient is.
LEMMA QuotientIs ==
  ASSUME NEW a \in Int, NEW b \in Nat \ {0}, NEW q \in Int, q * b <= a, a < q * b + b
  PROVE  a \div b = q
  OBVIOUS

----------------------------------------------------------------------------
(* Vesting balances.                                                       *)

\* The coin-seconds at a later time.
LEMMA CoinSeconds ==
  ASSUME NEW v, NEW now \in Nat, VestingInv(v, now)
  PROVE  LET e == compute_coin_seconds_earned(v, now)
             held == v.balance * (now - v.touched)
         IN  /\ e \in Nat /\ held \in Nat /\ v.balance * v.vesting_seconds \in Nat
             /\ e <= v.credit + held /\ e <= v.balance * v.vesting_seconds
             /\ held >= v.balance * v.vesting_seconds => e = v.balance * v.vesting_seconds
             /\ now = v.touched => e = v.coin_seconds_earned
  <1> DEFINE held == v.balance * (now - v.touched)
             most == v.balance * v.vesting_seconds
  <1>1. now - v.touched \in Nat /\ v.balance \in Nat /\ v.vesting_seconds \in Nat
    BY DEF VestingInv
  <1>2. held \in Nat /\ most \in Nat
    BY <1>1, Products
  <1>3. now = v.touched => held = 0
    BY <1>1
  <1>4. compute_coin_seconds_earned(v, now) = AtMost(v.coin_seconds_earned + held, most)
    BY DEF compute_coin_seconds_earned, VestingInv
  <1>5. v.coin_seconds_earned \in Nat /\ v.credit \in Int /\ v.coin_seconds_earned <= v.credit
        /\ v.coin_seconds_earned <= most
    BY DEF VestingInv
  <1> HIDE DEF held, most
  <1>6. QED
    BY <1>2, <1>3, <1>4, <1>5 DEF AtMost, held, most

\* A new balance.
LEMMA NewVestingInv ==
  ASSUME NEW a \in Accounts, NEW amount \in Nat, NEW seconds \in Nat, NEW now \in Nat
  PROVE  VestingInv(NewVesting(a, amount, seconds, now), now)
         /\ NewVesting(a, amount, seconds, now).balance = amount
  <1> DEFINE v == NewVesting(a, amount, seconds, now)
  <1>1. /\ DOMAIN v = VestingFields /\ v.owner = a /\ v.balance = amount /\ v.vesting_seconds = seconds
        /\ v.coin_seconds_earned = 0 /\ v.coin_seconds_earned_last_update = now
        /\ v.credit = 0 /\ v.touched = now
    BY DEF NewVesting, VestingFields
  <1> HIDE DEF v
  <1>2. amount * seconds \in Nat
    BY Products
  <1>3. QED
    BY <1>1, <1>2 DEF VestingInv, v

\* Time passes.
LEMMA VestingAges ==
  ASSUME NEW v, NEW now \in Nat, NEW later \in Nat, now <= later, VestingInv(v, now)
  PROVE  VestingInv(v, later)
  BY DEF VestingInv

\* The balance that deposit and withdraw start from.
LEMMA UpdatedVesting ==
  ASSUME NEW v, NEW now \in Nat, VestingInv(v, now)
  PROVE  LET u == update_coin_seconds_earned(Aged(v, now), now)
         IN  /\ DOMAIN u = VestingFields /\ u.owner = v.owner /\ u.balance = v.balance
             /\ u.vesting_seconds = v.vesting_seconds /\ u.touched = now
             /\ u.coin_seconds_earned_last_update = now
             /\ u.coin_seconds_earned = compute_coin_seconds_earned(v, now)
             /\ u.credit = v.credit + v.balance * (now - v.touched)
  <1> DEFINE w == Aged(v, now)
             u == update_coin_seconds_earned(w, now)
             e == compute_coin_seconds_earned(w, now)
  <1>1. /\ DOMAIN w = VestingFields /\ w.owner = v.owner /\ w.balance = v.balance
        /\ w.vesting_seconds = v.vesting_seconds /\ w.touched = now
        /\ w.coin_seconds_earned = v.coin_seconds_earned
        /\ w.coin_seconds_earned_last_update = v.coin_seconds_earned_last_update
        /\ w.credit = v.credit + v.balance * (now - v.touched)
    BY DEF Aged, VestingInv, VestingFields
  <1> HIDE DEF w
  <1>2. e = compute_coin_seconds_earned(v, now)
    BY <1>1 DEF compute_coin_seconds_earned
  <1>3. u = [w EXCEPT !.coin_seconds_earned = e, !.coin_seconds_earned_last_update = now]
    BY DEF update_coin_seconds_earned
  <1> HIDE DEF e, u
  <1>4. /\ DOMAIN u = VestingFields /\ u.owner = w.owner /\ u.balance = w.balance
        /\ u.vesting_seconds = w.vesting_seconds /\ u.touched = w.touched
        /\ u.coin_seconds_earned = e /\ u.coin_seconds_earned_last_update = now
        /\ u.credit = w.credit
    BY <1>1, <1>3 DEF VestingFields
  <1>5. QED
    BY <1>1, <1>2, <1>4 DEF u, w

\* The same amount may be withdrawn from v and from w.
SameAllowance(v, w, now) ==
    /\ w.vesting_seconds = v.vesting_seconds /\ w.owner = v.owner
    /\ compute_coin_seconds_earned(w, now) = compute_coin_seconds_earned(v, now)

\* deposit: what comes in has earned nothing yet.
LEMMA DepositInv ==
  ASSUME NEW v, NEW now \in Nat, NEW amount \in Nat, VestingInv(v, now)
  PROVE  /\ VestingInv(deposit(v, now, amount), now)
         /\ deposit(v, now, amount).balance = v.balance + amount
         /\ SameAllowance(v, deposit(v, now, amount), now)
  <1> DEFINE u == update_coin_seconds_earned(Aged(v, now), now)
             w == deposit(v, now, amount)
             e == compute_coin_seconds_earned(v, now)
             held == v.balance * (now - v.touched)
  <1>1. /\ DOMAIN u = VestingFields /\ u.owner = v.owner /\ u.balance = v.balance
        /\ u.vesting_seconds = v.vesting_seconds /\ u.touched = now
        /\ u.coin_seconds_earned_last_update = now
        /\ u.coin_seconds_earned = e /\ u.credit = v.credit + held
    BY UpdatedVesting
  <1>2. w = [u EXCEPT !.balance = @ + amount]
    BY DEF deposit
  <1>3. e \in Nat /\ held \in Nat /\ e <= v.credit + held /\ e <= v.balance * v.vesting_seconds
    BY CoinSeconds
  <1> HIDE DEF u, w, e, held
  <1>4. /\ DOMAIN w = VestingFields /\ w.owner = v.owner /\ w.balance = v.balance + amount
        /\ w.vesting_seconds = v.vesting_seconds /\ w.touched = now
        /\ w.coin_seconds_earned_last_update = now
        /\ w.coin_seconds_earned = e /\ w.credit = v.credit + held
    BY <1>1, <1>2 DEF VestingFields
  <1>5. v.balance \in Nat /\ v.vesting_seconds \in Nat /\ v.credit \in Int /\ v.owner \in Accounts
    BY DEF VestingInv
  <1>6. v.balance * v.vesting_seconds <= w.balance * w.vesting_seconds
        /\ v.balance * v.vesting_seconds \in Nat /\ w.balance * w.vesting_seconds \in Nat
    BY <1>4, <1>5, Products
  <1>7. VestingInv(w, now)
    BY <1>3, <1>4, <1>5, <1>6 DEF VestingInv
  <1>8. compute_coin_seconds_earned(w, now) = e
    BY <1>4, <1>7, CoinSeconds
  <1>9. QED
    BY <1>4, <1>7, <1>8 DEF SameAllowance, w, e

\* withdraw: what goes out has been paid for in coin-seconds.
LEMMA WithdrawInv ==
  ASSUME NEW v, NEW now \in Nat, NEW amount \in Nat, VestingInv(v, now),
         amount <= get_allowed_withdraw(v, now)
  PROVE  /\ VestingInv(withdraw(v, now, amount), now)
         /\ withdraw(v, now, amount).balance = v.balance - amount
  <1> DEFINE u == update_coin_seconds_earned(Aged(v, now), now)
             w == withdraw(v, now, amount)
             e == compute_coin_seconds_earned(v, now)
             held == v.balance * (now - v.touched)
             used == amount * v.vesting_seconds
  <1>1. /\ DOMAIN u = VestingFields /\ u.owner = v.owner /\ u.balance = v.balance
        /\ u.vesting_seconds = v.vesting_seconds /\ u.touched = now
        /\ u.coin_seconds_earned_last_update = now
        /\ u.coin_seconds_earned = e /\ u.credit = v.credit + held
    BY UpdatedVesting
  <1>2. w = [u EXCEPT !.coin_seconds_earned = @ - used, !.credit = @ - used, !.balance = @ - amount]
    BY DEF withdraw
  <1>3. e \in Nat /\ held \in Nat /\ e <= v.credit + held /\ e <= v.balance * v.vesting_seconds
    BY CoinSeconds
  <1>4. v.balance \in Nat /\ v.vesting_seconds \in Nat /\ v.credit \in Int /\ v.owner \in Accounts
    BY DEF VestingInv
  <1>5. used \in Nat /\ used <= e /\ amount <= v.balance
    <2>1. CASE v.vesting_seconds = 0
      <3>1. amount = 0
        BY <2>1 DEF get_allowed_withdraw
      <3>2. used = 0
        BY <2>1
      <3> HIDE DEF e, used
      <3>3. QED
        BY <1>3, <1>4, <3>1, <3>2
    <2>2. CASE v.vesting_seconds # 0
      <3> HIDE DEF e
      <3> DEFINE q == e \div v.vesting_seconds
      <3>1. amount <= q
        BY <2>2 DEF get_allowed_withdraw, e
      <3>2. q * v.vesting_seconds <= e /\ q \in Nat
        <4>1. e \in Int /\ e >= 0 /\ v.vesting_seconds \in Nat \ {0}
          BY <1>3, <1>4, <2>2
        <4>2. QED
          BY <4>1, Quotients
      <3> HIDE DEF q
      <3>3. used <= q * v.vesting_seconds /\ used \in Nat
        BY <1>4, <3>1, <3>2, Products
      <3>4. q <= v.balance
        <4>1. q * v.vesting_seconds <= v.balance * v.vesting_seconds
          BY <1>3, <1>4, <3>2, Products
        <4>2. QED
          BY <1>4, <2>2, <3>2, <4>1
      <3> HIDE DEF used
      <3>5. q * v.vesting_seconds \in Nat
        BY <1>4, <3>2, Products
      <3>6. QED
        BY <1>3, <1>4, <3>1, <3>2, <3>3, <3>4, <3>5
    <2>3. QED
      BY <2>1, <2>2
  <1>6. (v.balance - amount) * v.vesting_seconds = v.balance * v.vesting_seconds - used
        /\ v.balance * v.vesting_seconds \in Nat
    BY <1>4, Distribution, Products
  <1> HIDE DEF u, w, e, held, used
  <1>7. /\ DOMAIN w = VestingFields /\ w.owner = v.owner /\ w.balance = v.balance - amount
        /\ w.vesting_seconds = v.vesting_seconds /\ w.touched = now
        /\ w.coin_seconds_earned_last_update = now
        /\ w.coin_seconds_earned = e - used /\ w.credit = v.credit + held - used
    <2>1. /\ DOMAIN w = DOMAIN u /\ w.owner = u.owner /\ w.balance = u.balance - amount
          /\ w.vesting_seconds = u.vesting_seconds /\ w.touched = u.touched
          /\ w.coin_seconds_earned_last_update = u.coin_seconds_earned_last_update
          /\ w.coin_seconds_earned = u.coin_seconds_earned - used /\ w.credit = u.credit - used
      <3>1. DOMAIN u = VestingFields
        BY <1>1
      <3>2. QED
        BY <1>2, <3>1 DEF VestingFields
    <2>2. QED
      BY <1>1, <1>3, <1>4, <1>5, <2>1
  <1>8. /\ w.balance \in Nat /\ w.coin_seconds_earned \in Nat /\ w.credit \in Int
        /\ w.coin_seconds_earned <= w.credit
        /\ w.coin_seconds_earned <= w.balance * w.vesting_seconds
    <2> DEFINE most == v.balance * v.vesting_seconds
    <2>1. w.balance * w.vesting_seconds = most - used /\ e <= most /\ most \in Nat
      BY <1>3, <1>6, <1>7
    <2> HIDE DEF most
    <2>2. QED
      BY <1>3, <1>4, <1>5, <1>7, <2>1
  <1>9. VestingInv(w, now)
    BY <1>4, <1>7, <1>8 DEF VestingInv
  <1>10. QED
    BY <1>7, <1>9 DEF w

----------------------------------------------------------------------------
(* Withdrawal permissions.                                                 *)

\* Time passes.
LEMMA PermissionAges ==
  ASSUME NEW p, NEW now \in Nat, NEW later \in Nat, now <= later, PermissionInv(p, now)
  PROVE  PermissionInv(p, later)
  <1> DEFINE begins == p.start + p.window * p.period
  <1>1. begins \in Int
    <2>1. p.window \in Int /\ p.period \in Int /\ p.start \in Int
      BY DEF PermissionInv
    <2>2. p.window * p.period \in Int
      BY <2>1, Distribution
    <2>3. QED
      BY <2>1, <2>2
  <1>2. (begins <= now => begins <= later) /\ (begins < now => begins < later)
    <2> HIDE DEF begins
    <2> QED
      BY <1>1
  <1>3. QED
    BY <1>2 DEF PermissionInv, Counts

\* What a claim does to the fields.
LEMMA ClaimedFields ==
  ASSUME NEW p, NEW now, NEW amount, DOMAIN p = PermissionFields
  PROVE  LET q == Claimed(p, now, amount)
             w == (now - p.start) \div p.period
             n == Truncated(now - p.next_period_start_time, p.period)
         IN  /\ DOMAIN q = PermissionFields /\ q.from = p.from /\ q.to = p.to
             /\ q.limit = p.limit /\ q.period = p.period /\ q.expiration = p.expiration
             /\ q.start = p.start /\ q.window = w
             /\ q.taken = IF w = p.window THEN p.taken + amount ELSE amount
             /\ q.next_period_start_time = p.next_period_start_time + n * p.period
             /\ q.claimed_this_period = IF n = 0 THEN p.claimed_this_period + amount ELSE amount
  <1> DEFINE w == (now - p.start) \div p.period
             n == Truncated(now - p.next_period_start_time, p.period)
             t == IF w = p.window THEN p.taken + amount ELSE amount
             c == IF n = 0 THEN p.claimed_this_period + amount ELSE amount
             b == p.next_period_start_time + n * p.period
             o == Noted(p, now, amount)
             q == Claimed(p, now, amount)
  <1>1. o = [p EXCEPT !.window = w, !.taken = t]
    BY DEF Noted
  <1> HIDE DEF w, t, o
  <1>2. /\ DOMAIN o = PermissionFields /\ o.from = p.from /\ o.to = p.to /\ o.limit = p.limit
        /\ o.period = p.period /\ o.expiration = p.expiration /\ o.start = p.start
        /\ o.window = w /\ o.taken = t
        /\ o.next_period_start_time = p.next_period_start_time
        /\ o.claimed_this_period = p.claimed_this_period
    BY <1>1 DEF PermissionFields
  <1>3. q = [o EXCEPT !.next_period_start_time = b, !.claimed_this_period = c]
    BY <1>2 DEF Claimed, o
  <1> HIDE DEF n, c, b, q
  <1>4. /\ DOMAIN q = PermissionFields /\ q.from = o.from /\ q.to = o.to /\ q.limit = o.limit
        /\ q.period = o.period /\ q.expiration = o.expiration /\ q.start = o.start
        /\ q.window = o.window /\ q.taken = o.taken
        /\ q.next_period_start_time = b /\ q.claimed_this_period = c
    BY <1>2, <1>3 DEF PermissionFields
  <1>5. QED
    BY <1>2, <1>4 DEF q, w, t, c, b, n

\* Where a claim leaves the beginning of the period, when the last claim was in
\* period w and this one is in period v.
Moved(begin, start, w, period, now) ==
    LET v == (now - start) \div period
        n == Truncated(now - begin, period)
    IN  /\ v \in Int /\ v >= w /\ start + v * period <= now /\ n \in Int
        /\ v = w => n = 0 /\ now < start + w * period + period
        /\ v # w => begin + n * period = start + v * period

\* The code's count of periods moves as far as the periods did.
LEMMA PeriodMoves ==
  ASSUME NEW now \in Int, NEW start \in Int, NEW period \in Nat \ {0}, NEW w \in Int, NEW begin \in Int,
         Counts(begin, start, w, period, now)
  PROVE  Moved(begin, start, w, period, now)
  <1> DEFINE v == (now - start) \div period
             n == Truncated(now - begin, period)
             x == w * period
  <1>0. \/ begin = start + x /\ start + x <= now
        \/ begin = start + x + period /\ start + x < now
    BY DEF Counts
  <1>1. v \in Int /\ v * period <= now - start /\ now - start < v * period + period
    BY Quotients
  <1>2. x \in Int
    BY Distribution
  <1>3. v >= w
    <2>1. SUFFICES ASSUME v + 1 <= w
                   PROVE  FALSE
      <3> HIDE DEF v
      <3> QED
        BY <1>1
    <2>2. (v + 1) * period = v * period + period
      BY <1>1, Distribution
    <2>3. (v + 1) * period <= x
      <3>1. w - (v + 1) \in Nat
        BY <1>1, <2>1
      <3>2. (w - (v + 1)) * period \in Nat
        BY <3>1, Products
      <3>3. (w - (v + 1)) * period = x - (v + 1) * period /\ (v + 1) * period \in Int
        BY <1>1, Distribution
      <3> HIDE DEF x, v
      <3>4. QED
        BY <1>2, <3>2, <3>3
    <2>4. v * period \in Int
      BY <1>1, Distribution
    <2> HIDE DEF x, v
    <2>5. start + x <= now
      BY <1>0, <1>2
    <2>6. QED
      BY <1>1, <1>2, <2>2, <2>3, <2>4, <2>5
  <1>4. n \in Int
    BY Quotients DEF Truncated
  <1>5. ASSUME v = w
        PROVE  n = 0 /\ now < start + w * period + period
    <2>1. x <= now - start /\ now - start < x + period
      BY <1>1, <1>5
    <2>2. CASE begin = start + x
      <3>1. now - begin >= 0 /\ now - begin < period
        BY <1>2, <2>1, <2>2
      <3>2. (now - begin) \div period = 0
        BY <3>1, QuotientIs
      <3>3. QED
        BY <1>2, <2>1, <3>1, <3>2 DEF Truncated
    <2>3. CASE begin = start + x + period /\ start + x < now
      <3>1. now - begin < 0 /\ - (now - begin) > 0 /\ - (now - begin) < period
        <4> HIDE DEF x
        <4> QED
          BY <1>2, <2>1, <2>3
      <3>2. (- (now - begin)) \div period = 0
        BY <3>1, QuotientIs
      <3>3. QED
        BY <1>2, <2>1, <3>1, <3>2 DEF Truncated
    <2>4. QED
      BY <1>0, <2>2, <2>3
  <1>6. ASSUME v # w
        PROVE  begin + n * period = start + v * period
    <2> DEFINE y == v * period
               k == IF begin = start + x THEN w ELSE w + 1
    <2>1. k \in Int /\ k <= v /\ begin = start + k * period
      <3>1. (w + 1) * period = x + period
        BY Distribution
      <3>2. v >= w + 1
        <4> HIDE DEF v
        <4> QED
          BY <1>1, <1>3, <1>6
      <3>3. QED
        BY <1>0, <1>1, <1>3, <3>1, <3>2
    <2> HIDE DEF k
    <2>2. (v - k) * period = y - k * period /\ y \in Int /\ k * period \in Int
      BY <1>1, <2>1, Distribution
    <2>3. (v - k) * period \in Nat
      <3>1. v - k \in Nat
        BY <1>1, <2>1
      <3>2. QED
        BY <3>1, Products
    <2> DEFINE z == (v - k) * period
               kp == k * period
    <2>4. now - begin \in Int /\ now - begin >= z /\ now - begin < z + period /\ z \in Nat
      <3>1. y <= now - start /\ now - start < y + period /\ z = y - kp /\ begin = start + kp
            /\ y \in Int /\ kp \in Int /\ z \in Nat
        BY <1>1, <2>1, <2>2, <2>3
      <3> HIDE DEF z, kp, y
      <3>2. QED
        BY <3>1
    <2>5. v - k \in Int
      BY <1>1, <2>1
    <2>6. (now - begin) \div period = v - k
      <3> HIDE DEF v
      <3> QED
        BY <2>4, <2>5, QuotientIs
    <2>7. n = v - k
      <3>1. now - begin >= 0
        <4> HIDE DEF z
        <4> QED
          BY <2>4
      <3>2. QED
        BY <2>6, <3>1 DEF Truncated
    <2>8. n * period = y - kp
      BY <2>2, <2>7
    <2> HIDE DEF n, y, kp, z
    <2>9. QED
      BY <2>1, <2>2, <2>8 DEF y, kp
  <1>7. start + v * period <= now
    <2> DEFINE y == v * period
    <2>1. y \in Int /\ y <= now - start
      BY <1>1, Distribution
    <2> HIDE DEF y
    <2>2. start + y <= now
      BY <2>1
    <2>3. QED
      BY <2>2 DEF y
  <1>8. QED
    BY <1>1, <1>3, <1>4, <1>5, <1>6, <1>7 DEF Moved

\* The same for the first claim, which may come before the first period.
LEMMA PeriodStarts ==
  ASSUME NEW now \in Int, NEW start \in Int, NEW period \in Nat \ {0}
  PROVE  LET v == (now - start) \div period
             n == Truncated(now - start, period)
         IN  /\ v \in Int /\ n \in Int
             /\ \/ start + n * period = start + v * period /\ start + v * period <= now
                \/ start + n * period = start + v * period + period /\ start + v * period < now
  <1> DEFINE v == (now - start) \div period
             n == Truncated(now - start, period)
             y == v * period
  <1> SUFFICES /\ v \in Int /\ n \in Int
               /\ \/ start + n * period = start + y /\ start + y <= now
                  \/ start + n * period = start + y + period /\ start + y < now
    OBVIOUS
  <1>1. v \in Int /\ y <= now - start /\ now - start < y + period
    BY Quotients
  <1>2. y \in Int
    BY <1>1, Distribution
  <1>3. CASE now - start >= 0
    <2>1. n = v
      BY <1>3 DEF Truncated
    <2>2. start + y <= now
      <3> HIDE DEF y
      <3> QED
        BY <1>1, <1>2
    <2>3. QED
      BY <1>1, <2>1, <2>2
  <1>4. CASE now - start < 0
    <2> DEFINE k == (- (now - start)) \div period
               z == k * period
    <2>1. n = - k
      BY <1>4 DEF Truncated
    <2>2. k \in Int /\ z <= - (now - start) /\ - (now - start) < z + period
      BY Quotients
    <2>3. z \in Int
      BY <2>2, Distribution
    <2> HIDE DEF k, v
    <2>4. n \in Int /\ n * period = - z
      <3>1. (0 - k) * period = 0 * period - k * period
        BY <2>2, Distribution
      <3>2. QED
        BY <2>1, <2>2, <2>3, <3>1
    <2> HIDE DEF n
    <2>5. CASE v = n
      <3>1. y = n * period
        BY <2>5
      <3> HIDE DEF y
      <3>2. start + y <= now
        BY <1>1, <1>2
      <3>3. QED
        BY <1>1, <2>4, <3>1, <3>2
    <2>6. CASE v # n
      <3>1. v <= n
        <4>1. SUFFICES ASSUME n + 1 <= v
                       PROVE  FALSE
          BY <1>1, <2>4
        <4>2. (v - (n + 1)) * period \in Nat
          <5>1. v - (n + 1) \in Nat
            BY <1>1, <2>4, <4>1
          <5>2. QED
            BY <5>1, Products
        <4>3. (v - (n + 1)) * period = y - (n + 1) * period /\ (n + 1) * period = n * period + period
          BY <1>1, <2>4, Distribution
        <4> HIDE DEF y, z
        <4>4. y >= period - z
          <5> DEFINE u == (v - (n + 1)) * period
                     np == n * period
                     np1 == (n + 1) * period
          <5>1. u \in Nat /\ u = y - np1 /\ np1 = np + period /\ np = - z
            BY <2>4, <4>2, <4>3
          <5> HIDE DEF u, np, np1
          <5>2. QED
            BY <1>2, <2>3, <5>1
        <4>5. QED
          BY <1>1, <1>2, <2>2, <2>3, <4>4
      <3>2. v >= n - 1
        <4>1. SUFFICES ASSUME v + 2 <= n
                       PROVE  FALSE
          BY <1>1, <2>4
        <4>2. (n - (v + 2)) * period \in Nat
          <5>1. n - (v + 2) \in Nat
            BY <1>1, <2>4, <4>1
          <5>2. QED
            BY <5>1, Products
        <4>3. (n - (v + 2)) * period = n * period - (v + 2) * period
              /\ (v + 2) * period = y + 2 * period
          BY <1>1, <2>4, Distribution
        <4> HIDE DEF y, z
        <4>4. y <= - z - period - period
          <5> DEFINE u == (n - (v + 2)) * period
                     np == n * period
                     vp == (v + 2) * period
          <5>1. u \in Nat /\ u = np - vp /\ vp = y + 2 * period /\ np = - z
            BY <2>4, <4>2, <4>3
          <5> HIDE DEF u, np, vp
          <5>2. QED
            BY <1>2, <2>3, <5>1
        <4>5. QED
          BY <1>1, <1>2, <2>2, <2>3, <4>4
      <3>3. v = n - 1
        BY <1>1, <2>4, <2>6, <3>1, <3>2
      <3>4. y = - z - period
        <4>1. (n - 1) * period = n * period - 1 * period
          BY <2>4, Distribution
        <4>2. QED
          BY <2>4, <3>3, <4>1
      <3> HIDE DEF y, z
      <3>5. start + y < now /\ start + (- z) = start + y + period
        BY <1>2, <2>2, <2>3, <3>4
      <3>6. QED
        BY <1>1, <2>4, <3>5
    <2>7. QED
      BY <2>5, <2>6
  <1>5. QED
    BY <1>3, <1>4

\* withdraw_permission_claim: no period gives more than the limit.
LEMMA ClaimInv ==
  ASSUME NEW p, NEW now \in Nat, NEW amount \in Nat, PermissionInv(p, now),
         amount <= available_this_period(p, now)
  PROVE  PermissionInv(Claimed(p, now, amount), now)
  <1> DEFINE q == Claimed(p, now, amount)
             v == (now - p.start) \div p.period
             n == Truncated(now - p.next_period_start_time, p.period)
             begins == p.start + p.window * p.period
             now_begins == p.start + v * p.period
  <1> SUFFICES PermissionInv(q, now)
    OBVIOUS
  <1>1. /\ DOMAIN p = PermissionFields /\ {p.from, p.to} \subseteq Accounts
        /\ p.limit \in Nat /\ p.period \in Nat \ {0} /\ p.claimed_this_period \in Nat
        /\ p.taken \in Nat /\ p.start \in Int /\ p.window \in Int
        /\ p.next_period_start_time \in Int /\ p.expiration \in Int
        /\ p.taken <= p.limit /\ p.taken <= p.claimed_this_period
    BY DEF PermissionInv
  <1>2. /\ DOMAIN q = PermissionFields /\ q.from = p.from /\ q.to = p.to
        /\ q.limit = p.limit /\ q.period = p.period /\ q.expiration = p.expiration
        /\ q.start = p.start /\ q.window = v
        /\ q.taken = IF v = p.window THEN p.taken + amount ELSE amount
        /\ q.next_period_start_time = p.next_period_start_time + n * p.period
        /\ q.claimed_this_period = IF n = 0 THEN p.claimed_this_period + amount ELSE amount
    BY <1>1, ClaimedFields
  <1>3. /\ amount <= p.limit
        /\ now <= p.next_period_start_time + p.period =>
             amount <= p.limit - p.claimed_this_period \/ amount = 0
    BY <1>1 DEF available_this_period
  <1>4. ASSUME v \in Int, n \in Int, q.taken <= q.limit, q.taken <= q.claimed_this_period,
               Counts(q.next_period_start_time, p.start, v, p.period, now)
        PROVE  PermissionInv(q, now)
    <2> HIDE DEF q, v, n
    <2>1. q.taken \in Nat /\ q.claimed_this_period \in Nat
      BY <1>1, <1>2
    <2>2. n * p.period \in Int
      BY <1>1, <1>4, Distribution
    <2>3. q.next_period_start_time \in Int
      BY <1>1, <1>2, <2>2
    <2>4. QED
      BY <1>1, <1>2, <1>4, <2>1, <2>3 DEF PermissionInv
  <1>5. CASE p.window = 0 /\ p.taken = 0 /\ p.next_period_start_time = p.start
    <2>1. /\ v \in Int /\ n \in Int
          /\ \/ p.start + n * p.period = now_begins /\ now_begins <= now
             \/ p.start + n * p.period = now_begins + p.period /\ now_begins < now
      <3> DEFINE start == p.start
                 period == p.period
      <3>1. n = Truncated(now - start, period)
        BY <1>5
      <3>2. now \in Int /\ start \in Int /\ period \in Nat \ {0}
        BY <1>1
      <3> HIDE DEF start, period, n
      <3>3. /\ (now - start) \div period \in Int /\ n \in Int
            /\ \/ start + n * period = start + ((now - start) \div period) * period
                  /\ start + ((now - start) \div period) * period <= now
               \/ start + n * period = start + ((now - start) \div period) * period + period
                  /\ start + ((now - start) \div period) * period < now
        BY <3>1, <3>2, PeriodStarts
      <3>4. QED
        BY <3>3 DEF start, period
    <2>2. q.taken = amount /\ q.taken <= q.limit /\ q.taken <= q.claimed_this_period
      BY <1>1, <1>2, <1>3, <1>5
    <2>3. q.next_period_start_time = p.start + n * p.period
      BY <1>2, <1>5
    <2>4. Counts(q.next_period_start_time, p.start, v, p.period, now)
      <3> HIDE DEF q, v, n
      <3> QED
        BY <2>1, <2>3 DEF Counts
    <2> HIDE DEF q, v, n, now_begins
    <2>5. QED
      BY <1>4, <2>1, <2>2, <2>4
  <1>6. CASE Counts(p.next_period_start_time, p.start, p.window, p.period, now)
    <2>1. /\ v \in Int /\ v >= p.window /\ now_begins <= now /\ n \in Int
          /\ v = p.window => n = 0 /\ now < begins + p.period
          /\ v # p.window => p.next_period_start_time + n * p.period = now_begins
      <3> DEFINE start == p.start
                 period == p.period
                 w == p.window
                 b == p.next_period_start_time
      <3>1. /\ now \in Int /\ start \in Int /\ period \in Nat \ {0} /\ w \in Int /\ b \in Int
            /\ Counts(b, start, w, period, now)
        BY <1>1, <1>6
      <3> DEFINE u == (now - start) \div period
                 m == Truncated(now - b, period)
      <3> HIDE DEF start, period, w, b
      <3>2. /\ u \in Int /\ u >= w /\ start + u * period <= now /\ m \in Int
            /\ u = w => m = 0 /\ now < start + w * period + period
            /\ u # w => b + m * period = start + u * period
        <4>1. Moved(b, start, w, period, now)
          BY <3>1, PeriodMoves
        <4>2. QED
          BY <4>1 DEF Moved
      <3>3. QED
        BY <3>2 DEF start, period, w, b
    <2>2. begins \in Int
      BY <1>1, Distribution
    <2>3. CASE v = p.window
      <3>1. n = 0 /\ n * p.period = 0
        BY <1>1, <2>1, <2>3
      <3>2. now <= p.next_period_start_time + p.period
        <4>1. now < begins + p.period
          BY <2>1, <2>3
        <4>2. p.next_period_start_time = begins \/ p.next_period_start_time = begins + p.period
          BY <1>6 DEF Counts
        <4> HIDE DEF begins
        <4>3. QED
          BY <1>1, <2>2, <4>1, <4>2
      <3>3. q.taken = p.taken + amount /\ q.claimed_this_period = p.claimed_this_period + amount
        BY <1>2, <2>3, <3>1
      <3>4. q.taken <= q.limit /\ q.taken <= q.claimed_this_period
        <4> HIDE DEF q
        <4> QED
          BY <1>1, <1>2, <1>3, <3>2, <3>3
      <3>5. q.next_period_start_time = p.next_period_start_time
        <4> HIDE DEF q, n
        <4> QED
          BY <1>1, <1>2, <3>1
      <3>6. Counts(q.next_period_start_time, p.start, v, p.period, now)
        <4> HIDE DEF q, v
        <4> QED
          BY <1>6, <2>3, <3>5
      <3> HIDE DEF q, v, n, begins, now_begins
      <3>7. QED
        BY <1>4, <2>1, <3>4, <3>6
    <2>4. CASE v # p.window
      <3>1. q.taken = amount /\ q.taken <= q.limit /\ q.taken <= q.claimed_this_period
        BY <1>1, <1>2, <1>3, <2>4
      <3>2. Counts(q.next_period_start_time, p.start, v, p.period, now)
        <4> HIDE DEF q, v, n
        <4> QED
          BY <1>2, <2>1, <2>4 DEF Counts
      <3> HIDE DEF q, v, n, begins, now_begins
      <3>3. QED
        BY <1>4, <2>1, <3>1, <3>2
    <2>5. QED
      BY <2>3, <2>4
  <1>7. QED
    BY <1>5, <1>6 DEF PermissionInv

----------------------------------------------------------------------------
(* The inductive invariant.                                                *)

\* t is s but for the fields F.
Keeps(s, t, F) == DOMAIN t = DbFields /\ \A x \in DbFields \ F : t[x] = s[x]

Clock(s) ==
    /\ s.time \in Nat /\ s.block_num \in Nat
    /\ s.last_budget_time \in Nat /\ s.last_budget_time <= s.time + BlockInterval
    /\ s.next_maintenance_time \in Nat
    /\ s.parameters \in {InitialParameters} \cup NewParameters
    /\ s.pending_parameters = None \/ s.pending_parameters \in NewParameters

\* What accounts, witnesses and the fees hold.  A balance may be negative
\* until the operation is over.
Purses(s) ==
    /\ s.balance \in [Accounts -> Int] /\ s.lifetime_fees_paid \in [Accounts -> Nat]
    /\ s.accumulated_income \in [Witnesses -> Nat]
    /\ s.accumulated_fees \in Nat /\ s.witness_budget \in Nat /\ s.forfeited \in Nat
    /\ s.current_supply \in Int

Vestings(x, now) == IsSeq(x) /\ \A i \in DOMAIN x : VestingInv(x[i], now)

\* Cashback and workers name vesting balances that exist.
Owners(s) ==
    /\ s.cashback_vb \in [Accounts -> {None} \cup DOMAIN s.vesting]
    /\ IsSeq(s.workers)
    /\ \A i \in DOMAIN s.workers :
         /\ s.workers[i].daily_pay \in Nat
         /\ s.workers[i].vb = None \/ s.workers[i].vb \in DOMAIN s.vesting

Agreed(x, now) == IsSeq(x) /\ \A i \in DOMAIN x : x[i] = None \/ PermissionInv(x[i], now)

StateInv(s) ==
    /\ DOMAIN s = DbFields
    /\ Clock(s) /\ Purses(s) /\ Vestings(s.vesting, s.time) /\ Owners(s)
    /\ Agreed(s.permissions, s.time)

\* What is held exceeds the supply by a fee that nobody has paid yet.
Balanced(s, fee) ==
    StateInv(s) /\ Held(s) + s.forfeited = s.current_supply + fee /\ s.current_supply <= MaxSupply

\* The records are in order, the supply is what is held and nobody is in debt.
Sound(s) == Balanced(s, 0) /\ \A a \in Accounts : s.balance[a] >= 0

\* The inductive invariant.
TreasuryInv == Sound(db)

----------------------------------------------------------------------------
(* What is held.                                                           *)

\* The sum of the vesting balances.
Vested(x) == Sum([i \in DOMAIN x |-> x[i].balance], DOMAIN x)

\* The vesting balances hold an integer.
LEMMA VestedType ==
  ASSUME NEW x, NEW now, Vestings(x, now)
  PROVE  Vested(x) \in Int
  <1>1. \A i \in DOMAIN x : [j \in DOMAIN x |-> x[j].balance][i] \in Int
    BY DEF Vestings, VestingInv
  <1>2. QED
    BY <1>1, FiniteDomain, SumType DEF Vested, Vestings

\* One more vesting balance.
LEMMA VestedAppend ==
  ASSUME NEW x, NEW now, NEW v, Vestings(x, now), VestingInv(v, now)
  PROVE  /\ Vestings(Append(x, v), now) /\ Vested(Append(x, v)) = Vested(x) + v.balance
         /\ DOMAIN x \subseteq DOMAIN Append(x, v) /\ Len(x) + 1 \in DOMAIN Append(x, v)
         /\ \A i \in DOMAIN x : Append(x, v)[i] = x[i]
  <1> DEFINE y == Append(x, v)
             f == [i \in DOMAIN x |-> x[i].balance]
             e == [i \in DOMAIN y |-> y[i].balance]
             n == Len(x) + 1
  <1>1. /\ IsSeq(y) /\ Len(x) \in Nat /\ DOMAIN x = 1 .. Len(x) /\ DOMAIN y = 1 .. n
        /\ \A i \in 1 .. Len(x) : y[i] = x[i]
        /\ y[n] = v
    BY AppendSeq DEF Vestings
  <1>2. DOMAIN y = DOMAIN x \cup {n} /\ n \notin DOMAIN x
    BY <1>1
  <1> HIDE DEF y, n
  <1>3. \A i \in DOMAIN y : VestingInv(y[i], now)
    BY <1>1, <1>2 DEF Vestings
  <1>4. IsFiniteSet(DOMAIN x)
    BY FiniteDomain DEF Vestings
  <1>5. /\ \A i \in DOMAIN x : f[i] \in Int /\ e[i] = f[i]
        /\ e[n] = v.balance /\ v.balance \in Int
    <2>1. \A i \in DOMAIN x : y[i] = x[i] /\ i \in DOMAIN y
      BY <1>1, <1>2
    <2>2. \A i \in DOMAIN x : x[i].balance \in Int
      BY DEF Vestings, VestingInv
    <2>3. n \in DOMAIN y /\ y[n] = v
      BY <1>1, <1>2
    <2>4. v.balance \in Int
      BY DEF VestingInv
    <2>5. QED
      BY <2>1, <2>2, <2>3, <2>4
  <1> HIDE DEF f, e
  <1>6. Sum(e, DOMAIN x \cup {n}) = Sum(f, DOMAIN x) + v.balance
    BY <1>2, <1>4, <1>5, SumAdd
  <1>7. QED
    BY <1>1, <1>2, <1>3, <1>6 DEF Vestings, Vested, y, f, e, n

\* Another vesting balance in the place of one.
LEMMA VestedChange ==
  ASSUME NEW x, NEW now, NEW v, NEW k \in DOMAIN x, Vestings(x, now), VestingInv(v, now)
  PROVE  LET y == [x EXCEPT ![k] = v]
         IN  /\ Vestings(y, now) /\ Vested(y) = Vested(x) + v.balance - x[k].balance
             /\ DOMAIN y = DOMAIN x /\ y[k] = v /\ \A i \in DOMAIN x \ {k} : y[i] = x[i]
  <1> DEFINE y == [x EXCEPT ![k] = v]
             f == [i \in DOMAIN x |-> x[i].balance]
             e == [i \in DOMAIN y |-> y[i].balance]
  <1>1. DOMAIN y = DOMAIN x /\ y[k] = v /\ \A i \in DOMAIN x \ {k} : y[i] = x[i]
    OBVIOUS
  <1>2. IsSeq(y)
    <2>1. Len(x) \in Nat /\ DOMAIN x = 1 .. Len(x)
      BY FiniteDomain DEF Vestings
    <2>2. x \in Seq(ToSet(x) \cup {v})
      BY DEF Vestings, IsSeq
    <2>3. y \in Seq(ToSet(x) \cup {v})
      BY <2>1, <2>2, ExceptSeq
    <2>4. QED
      BY <2>3, SeqOfItself
  <1> HIDE DEF y
  <1>3. \A i \in DOMAIN y : VestingInv(y[i], now)
    BY <1>1 DEF Vestings
  <1>4. IsFiniteSet(DOMAIN x)
    BY FiniteDomain DEF Vestings
  <1>5. /\ \A i \in DOMAIN x : f[i] \in Int
        /\ \A i \in DOMAIN x \ {k} : e[i] = f[i]
        /\ e[k] = v.balance /\ f[k] = x[k].balance /\ v.balance \in Int
    BY <1>1 DEF Vestings, VestingInv
  <1> HIDE DEF f, e
  <1>6. Sum(e, DOMAIN x) = Sum(f, DOMAIN x) + v.balance - x[k].balance
    BY <1>4, <1>5, SumChange
  <1>7. QED
    BY <1>1, <1>2, <1>3, <1>6 DEF Vestings, Vested, y, f, e

\* The parts of what is held.
LEMMA HeldParts ==
  ASSUME NEW s, Purses(s), Vestings(s.vesting, s.time)
  PROVE  /\ Held(s) = Sum(s.balance, Accounts) + Vested(s.vesting)
                      + Sum(s.accumulated_income, Witnesses) + s.witness_budget + s.accumulated_fees
         /\ Sum(s.balance, Accounts) \in Int /\ Vested(s.vesting) \in Int
         /\ Sum(s.accumulated_income, Witnesses) \in Int /\ Held(s) \in Int
  <1>1. Total(s.balance) = Sum(s.balance, Accounts)
    BY DEF Total, Sum, Purses
  <1>2. Total(s.accumulated_income) = Sum(s.accumulated_income, Witnesses)
    BY DEF Total, Sum, Purses
  <1>3. Total(Vesting(s)) = Vested(s.vesting)
    BY DEF Total, Sum, Vesting, Vested
  <1>4. Sum(s.balance, Accounts) \in Int
    BY TreasuryAssumption, SumType DEF Purses
  <1>5. Sum(s.accumulated_income, Witnesses) \in Int
    BY TreasuryAssumption, SumType DEF Purses
  <1>6. Vested(s.vesting) \in Int
    BY VestedType
  <1>7. Held(s) = Sum(s.balance, Accounts) + Vested(s.vesting)
                  + Sum(s.accumulated_income, Witnesses) + s.witness_budget + s.accumulated_fees
    BY <1>1, <1>2, <1>3 DEF Held
  <1>8. s.witness_budget \in Int /\ s.accumulated_fees \in Int
    BY DEF Purses
  <1>9. QED
    BY <1>4, <1>5, <1>6, <1>7, <1>8

----------------------------------------------------------------------------
(* Balances and fees.                                                      *)

\* adjust_balance changes what one account holds.
LEMMA AdjustInv ==
  ASSUME NEW s, StateInv(s), NEW a \in Accounts, NEW delta \in Int
  PROVE  LET t == adjust_balance(s, a, delta)
         IN  /\ StateInv(t) /\ Keeps(s, t, {"balance"}) /\ Held(t) = Held(s) + delta
             /\ t.balance[a] = s.balance[a] + delta
             /\ \A b \in Accounts \ {a} : t.balance[b] = s.balance[b]
  <1> DEFINE t == adjust_balance(s, a, delta)
  <1>1. DOMAIN s = DbFields /\ s.balance \in [Accounts -> Int]
    BY DEF StateInv, Purses
  <1>2. Keeps(s, t, {"balance"}) /\ t.balance = [s.balance EXCEPT ![a] = @ + delta]
    BY <1>1 DEF adjust_balance, DbFields, Keeps
  <1> HIDE DEF t
  <1>3. /\ t.balance \in [Accounts -> Int] /\ t.balance[a] = s.balance[a] + delta
        /\ \A b \in Accounts \ {a} : t.balance[b] = s.balance[b]
    BY <1>1, <1>2
  <1>4. /\ DOMAIN t = DbFields /\ t.vesting = s.vesting /\ t.time = s.time
        /\ t.permissions = s.permissions /\ t.accumulated_income = s.accumulated_income
        /\ t.witness_budget = s.witness_budget /\ t.accumulated_fees = s.accumulated_fees
    BY <1>2 DEF DbFields, Keeps
  <1>5. Purses(t) /\ Clock(t) /\ Owners(t)
    BY <1>2, <1>3 DEF StateInv, Purses, Clock, Owners, Keeps, DbFields
  <1>6. StateInv(t)
    BY <1>4, <1>5 DEF StateInv
  <1>7. Sum(t.balance, Accounts) = Sum(s.balance, Accounts) + delta
    <2>1. Sum(t.balance, Accounts) = Sum(s.balance, Accounts) + t.balance[a] - s.balance[a]
      BY <1>1, <1>3, TreasuryAssumption, SumChange
    <2>2. Sum(s.balance, Accounts) \in Int /\ s.balance[a] \in Int
      BY <1>1, HeldParts DEF StateInv
    <2>3. QED
      BY <1>3, <2>1, <2>2
  <1>8. Held(t) = Held(s) + delta
    <2>1. /\ Held(s) = Sum(s.balance, Accounts) + Vested(s.vesting)
                       + Sum(s.accumulated_income, Witnesses) + s.witness_budget + s.accumulated_fees
          /\ Sum(s.balance, Accounts) \in Int /\ Vested(s.vesting) \in Int
          /\ Sum(s.accumulated_income, Witnesses) \in Int
          /\ s.witness_budget \in Int /\ s.accumulated_fees \in Int
      BY HeldParts DEF StateInv, Purses
    <2>2. Held(t) = Sum(t.balance, Accounts) + Vested(s.vesting)
                    + Sum(s.accumulated_income, Witnesses) + s.witness_budget + s.accumulated_fees
      BY <1>4, <1>6, HeldParts DEF StateInv
    <2>3. QED
      BY <1>7, <2>1, <2>2
  <1>9. QED
    BY <1>2, <1>3, <1>6, <1>8 DEF t

\* The vesting balances y come after x: the same amounts may be withdrawn from
\* those that are in both.
Extends(x, y, now) ==
    DOMAIN x \subseteq DOMAIN y /\ \A i \in DOMAIN x : SameAllowance(x[i], y[i], now)

\* The fields that sharing out a fee changes.
FeeFields == {"accumulated_fees", "lifetime_fees_paid", "vesting", "cashback_vb"}

\* t is s with the amount more in fees and vesting balances.
Shared(s, t, amount) ==
    /\ StateInv(t) /\ Keeps(s, t, FeeFields) /\ Held(t) = Held(s) + amount
    /\ Extends(s.vesting, t.vesting, s.time)

\* Fees are shared out one after the other.
LEMMA SharedTwice ==
  ASSUME NEW r, NEW s, NEW t, NEW a \in Int, NEW b \in Int, Held(r) \in Int,
         Shared(r, s, a), Shared(s, t, b)
  PROVE  Shared(r, t, a + b)
  <1>1. StateInv(t) /\ Keeps(r, t, FeeFields)
    BY DEF Shared, Keeps
  <1>2. Held(t) = Held(r) + (a + b)
    BY DEF Shared
  <1>3. r.time = s.time
    BY DEF Shared, Keeps, FeeFields, DbFields
  <1>4. Extends(r.vesting, t.vesting, r.time)
    BY <1>3 DEF Shared, Extends, SameAllowance
  <1>5. QED
    BY <1>1, <1>2, <1>4 DEF Shared

\* deposit_cashback: the amount goes into a vesting balance and earns nothing at once.
LEMMA CashbackShared ==
  ASSUME NEW s, StateInv(s), NEW a \in Accounts, NEW amount \in Nat
  PROVE  Shared(s, deposit_cashback(s, a, amount), amount)
  <1> DEFINE t == deposit_cashback(s, a, amount)
             vb == s.cashback_vb[a]
             seconds == s.parameters.cashback_vesting_period_seconds
             x == s.vesting
             y == t.vesting
  <1>1. /\ DOMAIN s = DbFields /\ s.time \in Nat /\ Vestings(x, s.time) /\ Purses(s)
        /\ s.cashback_vb \in [Accounts -> {None} \cup DOMAIN x]
    BY DEF StateInv, Clock, Owners
  <1>2. seconds \in Nat
    BY TreasuryAssumption DEF StateInv, Clock, ParameterNames
  <1> SUFFICES Shared(s, t, amount)
    OBVIOUS
  <1>3. ASSUME Keeps(s, t, {"vesting", "cashback_vb"}), Vestings(y, s.time),
               Vested(y) = Vested(x) + amount, Extends(x, y, s.time),
               t.cashback_vb \in [Accounts -> {None} \cup DOMAIN y]
        PROVE  Shared(s, t, amount)
    <2> HIDE DEF t
    <2>1. /\ t.balance = s.balance /\ t.accumulated_income = s.accumulated_income
          /\ t.witness_budget = s.witness_budget /\ t.accumulated_fees = s.accumulated_fees
          /\ t.permissions = s.permissions /\ t.time = s.time /\ DOMAIN t = DbFields
          /\ t.workers = s.workers /\ Keeps(s, t, FeeFields)
      BY <1>3 DEF Keeps, DbFields, FeeFields
    <2>2. Purses(t) /\ Clock(t)
      BY <1>3 DEF StateInv, Purses, Clock, Keeps, DbFields
    <2>3. Owners(t)
      BY <1>3, <2>1 DEF StateInv, Owners, Extends
    <2>4. StateInv(t)
      BY <1>3, <2>1, <2>2, <2>3 DEF StateInv
    <2>5. Held(t) = Held(s) + amount
      <3>1. /\ Held(s) = Sum(s.balance, Accounts) + Vested(x)
                         + Sum(s.accumulated_income, Witnesses) + s.witness_budget + s.accumulated_fees
            /\ Sum(s.balance, Accounts) \in Int /\ Vested(x) \in Int
            /\ Sum(s.accumulated_income, Witnesses) \in Int
            /\ s.witness_budget \in Int /\ s.accumulated_fees \in Int
        BY HeldParts DEF StateInv, Purses
      <3>2. Held(t) = Sum(s.balance, Accounts) + Vested(y)
                      + Sum(s.accumulated_income, Witnesses) + s.witness_budget + s.accumulated_fees
        BY <1>3, <2>1, <2>2, HeldParts
      <3> HIDE DEF x, y
      <3>3. QED
        BY <1>3, <3>1, <3>2
    <2>6. QED
      BY <1>3, <2>1, <2>4, <2>5 DEF Shared
  <1>4. CASE amount = 0
    <2>1. t = s
      BY <1>4 DEF deposit_cashback
    <2>2. Vested(x) \in Int
      BY <1>1, VestedType
    <2> HIDE DEF t
    <2>3. Keeps(s, t, {"vesting", "cashback_vb"}) /\ Extends(x, y, s.time)
      BY <1>1, <2>1 DEF Keeps, Extends, SameAllowance
    <2>4. Vested(y) = Vested(x) + amount
      BY <1>4, <2>1, <2>2
    <2>5. QED
      BY <1>1, <1>3, <2>1, <2>3, <2>4
  <1>5. CASE amount # 0 /\ vb # None /\ x[vb].vesting_seconds = seconds
    <2> DEFINE v == deposit(x[vb], s.time, amount)
    <2>1. t = [s EXCEPT !.vesting = [x EXCEPT ![vb] = v]]
      BY <1>5 DEF deposit_cashback
    <2>2. vb \in DOMAIN x
      BY <1>1, <1>5
    <2>3. /\ VestingInv(v, s.time) /\ v.balance = x[vb].balance + amount
          /\ SameAllowance(x[vb], v, s.time)
      BY <1>1, <2>2, DepositInv DEF Vestings
    <2> HIDE DEF t, v, vb, x
    <2>4. Keeps(s, t, {"vesting", "cashback_vb"}) /\ y = [x EXCEPT ![vb] = v]
          /\ t.cashback_vb = s.cashback_vb
      BY <1>1, <2>1 DEF Keeps, DbFields
    <2>5. /\ Vestings(y, s.time) /\ Vested(y) = Vested(x) + v.balance - x[vb].balance
          /\ DOMAIN y = DOMAIN x /\ y[vb] = v /\ \A i \in DOMAIN x \ {vb} : y[i] = x[i]
      <3> DEFINE z == [x EXCEPT ![vb] = v]
      <3>1. /\ Vestings(z, s.time) /\ Vested(z) = Vested(x) + v.balance - x[vb].balance
            /\ DOMAIN z = DOMAIN x /\ z[vb] = v /\ \A i \in DOMAIN x \ {vb} : z[i] = x[i]
        BY <1>1, <2>2, <2>3, VestedChange
      <3> HIDE DEF y, z
      <3>2. QED
        BY <2>4, <3>1 DEF z
    <2>6. x[vb].balance \in Int
      BY <1>1, <2>2 DEF Vestings, VestingInv
    <2>7. Vested(x) \in Int
      BY <1>1, VestedType
    <2> HIDE DEF y
    <2>8. Vested(y) = Vested(x) + amount
      BY <2>3, <2>5, <2>6, <2>7
    <2>9. Extends(x, y, s.time)
      BY <2>3, <2>5 DEF Extends, SameAllowance
    <2>10. QED
      BY <1>1, <1>3, <2>4, <2>5, <2>8, <2>9
  <1>6. CASE amount # 0 /\ ~ (vb # None /\ x[vb].vesting_seconds = seconds)
    <2> DEFINE v == NewVesting(a, amount, seconds, s.time)
               n == Len(x) + 1
    <2>1. t = [s EXCEPT !.vesting = Append(x, v), !.cashback_vb = [s.cashback_vb EXCEPT ![a] = n]]
      BY <1>6 DEF deposit_cashback
    <2>2. VestingInv(v, s.time) /\ v.balance = amount
      BY <1>1, <1>2, NewVestingInv
    <2> HIDE DEF t, v, vb, n, x
    <2>3. Keeps(s, t, {"vesting", "cashback_vb"}) /\ y = Append(x, v)
          /\ t.cashback_vb = [s.cashback_vb EXCEPT ![a] = n]
      BY <1>1, <2>1 DEF Keeps, DbFields
    <2> HIDE DEF y
    <2>4. /\ Vestings(y, s.time) /\ Vested(y) = Vested(x) + v.balance
          /\ DOMAIN x \subseteq DOMAIN y /\ n \in DOMAIN y
          /\ \A i \in DOMAIN x : y[i] = x[i]
      BY <1>1, <2>2, <2>3, VestedAppend DEF n
    <2>5. Extends(x, y, s.time)
      BY <2>4 DEF Extends, SameAllowance
    <2>6. t.cashback_vb \in [Accounts -> {None} \cup DOMAIN y]
      BY <1>1, <2>3, <2>4
    <2>7. QED
      BY <1>3, <2>2, <2>3, <2>4, <2>5, <2>6
  <1>7. QED
    BY <1>4, <1>5, <1>6

\* A common factor cancels.
LEMMA Cancels ==
  ASSUME NEW a \in Int, NEW b \in Int, NEW n \in Nat \ {0}, a * n <= b * n
  PROVE  a <= b
  OBVIOUS

\* Products commute.
LEMMA Commutes ==
  ASSUME NEW a \in Int, NEW b \in Int
  PROVE  a * b = b * a
  OBVIOUS

\* The fractions p and q of n parts of a are natural numbers and no more than a.
LEMMA Fractions ==
  ASSUME NEW a \in Nat, NEW p \in Nat, NEW q \in Nat, NEW n \in Nat \ {0}, p + q <= n
  PROVE  /\ (a * p) \div n \in Nat /\ (a * q) \div n \in Nat
         /\ (a * p) \div n + (a * q) \div n <= a
  <1> DEFINE x == (a * p) \div n
             y == (a * q) \div n
             ap == a * p
             aq == a * q
  <1>1. ap \in Nat /\ aq \in Nat
    BY Products
  <1>2. x \in Nat /\ x * n <= ap /\ y \in Nat /\ y * n <= aq
    <2> HIDE DEF ap, aq
    <2>1. ap \in Int /\ aq \in Int /\ ap >= 0 /\ aq >= 0
      BY <1>1
    <2>2. ap \div n \in Nat /\ (ap \div n) * n <= ap /\ aq \div n \in Nat /\ (aq \div n) * n <= aq
      BY <2>1, Quotients
    <2>3. QED
      BY <2>2 DEF ap, aq
  <1>3. ap + aq = (p + q) * a
    <2>1. (p + q) * a = p * a + q * a
      BY Distribution
    <2>2. p * a = a * p /\ q * a = a * q
      BY Commutes
    <2>3. QED
      BY <2>1, <2>2
  <1>4. (p + q) * a <= n * a /\ n * a = a * n /\ n * a \in Nat
    BY Products, Commutes
  <1> HIDE DEF x, y
  <1>5. (x + y) * n = x * n + y * n /\ x * n \in Nat /\ y * n \in Nat
    BY <1>2, Distribution, Products
  <1>6. (x + y) * n <= a * n
    <2> DEFINE xn == x * n
               yn == y * n
               an == n * a
               pq == (p + q) * a
    <2>1. xn \in Nat /\ yn \in Nat /\ an \in Nat /\ pq <= an /\ pq = ap + aq
          /\ xn <= ap /\ yn <= aq /\ (x + y) * n = xn + yn /\ a * n = an
      BY <1>2, <1>3, <1>4, <1>5
    <2> HIDE DEF xn, yn, an, pq, ap, aq
    <2>2. xn + yn <= an
      BY <1>1, <2>1
    <2>3. QED
      BY <2>1, <2>2
  <1>7. x + y <= a
    BY <1>2, <1>6, Cancels
  <1>8. QED
    BY <1>2, <1>7 DEF x, y

\* One fraction.
LEMMA Fraction ==
  ASSUME NEW a \in Nat, NEW p \in Nat, NEW n \in Nat \ {0}, p <= n
  PROVE  (a * p) \div n \in Nat /\ (a * p) \div n <= a
  <1>1. /\ (a * p) \div n \in Nat /\ (a * 0) \div n \in Nat
        /\ (a * p) \div n + (a * 0) \div n <= a
    BY Fractions
  <1> DEFINE x == (a * p) \div n
             y == (a * 0) \div n
  <1>2. x \in Nat /\ y \in Nat /\ x + y <= a
    BY <1>1, Zenon
  <1> HIDE DEF x, y
  <1>3. x \in Nat /\ x <= a
    BY <1>2
  <1>4. QED
    BY <1>3 DEF x

\* The parameters are natural numbers and the percentages in order.
LEMMA ParametersAre ==
  ASSUME NEW p \in {InitialParameters} \cup NewParameters
  PROVE  /\ \A x \in ParameterNames : p[x] \in Nat
         /\ p.witness_percent_of_fee \in Nat /\ p.burn_percent_of_fee \in Nat
         /\ p.max_bulk_discount_percent_of_fee \in Nat
         /\ p.bulk_discount_threshold_min \in Nat /\ p.bulk_discount_threshold_max \in Nat
         /\ p.cashback_vesting_period_seconds \in Nat /\ p.witness_pay_per_block \in Nat
         /\ p.worker_budget_per_day \in Nat /\ p.maintenance_interval \in Nat \ {0}
         /\ p.witness_percent_of_fee + p.burn_percent_of_fee <= Full
         /\ p.max_bulk_discount_percent_of_fee <= Full
         /\ p.bulk_discount_threshold_min <= p.bulk_discount_threshold_max
  BY TreasuryAssumption DEF ParameterNames

\* The discount is a percentage.
LEMMA DiscountIs ==
  ASSUME NEW s, StateInv(s), NEW a \in Accounts
  PROVE  BulkDiscountPercent(s, a) \in Nat /\ BulkDiscountPercent(s, a) <= Full
  <1> DEFINE p == s.parameters
             paid == s.lifetime_fees_paid[a]
             least == p.bulk_discount_threshold_min
             top == p.bulk_discount_threshold_max
             most == p.max_bulk_discount_percent_of_fee
  <1>1. /\ least \in Nat /\ top \in Nat /\ most \in Nat /\ most <= Full /\ least <= top
    BY ParametersAre DEF StateInv, Clock
  <1>2. paid \in Nat /\ Full \in Nat
    BY TreasuryAssumption DEF StateInv, Purses
  <1>3. CASE paid <= least \/ a \notin Prime
    <2>1. ~ (paid > top /\ a \in Prime)
      <3> HIDE DEF paid, least, top
      <3> QED
        BY <1>1, <1>2, <1>3
    <2>2. BulkDiscountPercent(s, a) = 0
      BY <1>3, <2>1 DEF BulkDiscountPercent
    <2>3. QED
      BY <1>2, <2>2
  <1>4. CASE paid > top /\ a \in Prime
    <2>1. ~ (paid <= least)
      <3> HIDE DEF paid, least, top
      <3> QED
        BY <1>1, <1>2, <1>4
    <2>2. BulkDiscountPercent(s, a) = most
      BY <1>4, <2>1 DEF BulkDiscountPercent
    <2>3. QED
      BY <1>1, <2>2
  <1>5. CASE ~ (paid <= least \/ a \notin Prime) /\ ~ (paid > top /\ a \in Prime)
    <2>1. BulkDiscountPercent(s, a) = (most * (paid - least)) \div (top - least)
      BY <1>5 DEF BulkDiscountPercent
    <2> HIDE DEF paid, least, top, most
    <2>2. paid - least \in Nat /\ top - least \in Nat \ {0} /\ paid - least <= top - least
      BY <1>1, <1>2, <1>5
    <2>3. (most * (paid - least)) \div (top - least) \in Nat
          /\ (most * (paid - least)) \div (top - least) <= most
      BY <1>1, <2>2, Fraction
    <2> DEFINE x == (most * (paid - least)) \div (top - least)
    <2> HIDE DEF x
    <2>4. x \in Nat /\ x <= most /\ BulkDiscountPercent(s, a) = x
      BY <2>1, <2>3 DEF x
    <2>5. QED
      BY <1>1, <1>2, <2>4
  <1>6. QED
    BY <1>3, <1>4, <1>5

\* The fee is booked: the part of the witnesses and the part that is burned.
LEMMA BookedShared ==
  ASSUME NEW s, StateInv(s), NEW a \in Accounts, NEW amount \in Nat, NEW total \in Nat,
         NEW t, t = [s EXCEPT !.accumulated_fees = @ + amount, !.lifetime_fees_paid[a] = @ + total]
  PROVE  Shared(s, t, amount)
  <1>1. /\ DOMAIN s = DbFields /\ s.lifetime_fees_paid \in [Accounts -> Nat]
        /\ s.accumulated_fees \in Nat
    BY DEF StateInv, Purses
  <1>2. /\ Keeps(s, t, {"accumulated_fees", "lifetime_fees_paid"})
        /\ t.accumulated_fees = s.accumulated_fees + amount
        /\ t.lifetime_fees_paid = [s.lifetime_fees_paid EXCEPT ![a] = @ + total]
    BY <1>1 DEF DbFields, Keeps
  <1>3. t.accumulated_fees \in Nat /\ t.lifetime_fees_paid \in [Accounts -> Nat]
    BY <1>1, <1>2
  <1>4. /\ t.balance = s.balance /\ t.accumulated_income = s.accumulated_income
        /\ t.witness_budget = s.witness_budget /\ t.vesting = s.vesting
        /\ t.permissions = s.permissions /\ t.time = s.time /\ DOMAIN t = DbFields
        /\ Keeps(s, t, FeeFields)
    BY <1>2 DEF Keeps, DbFields, FeeFields
  <1>5. Purses(t) /\ Clock(t) /\ Owners(t)
    BY <1>2, <1>3 DEF StateInv, Purses, Clock, Owners, Keeps, DbFields
  <1>6. StateInv(t)
    BY <1>4, <1>5 DEF StateInv
  <1>7. Held(t) = Held(s) + amount
    <2>1. /\ Held(s) = Sum(s.balance, Accounts) + Vested(s.vesting)
                       + Sum(s.accumulated_income, Witnesses) + s.witness_budget + s.accumulated_fees
          /\ Sum(s.balance, Accounts) \in Int /\ Vested(s.vesting) \in Int
          /\ Sum(s.accumulated_income, Witnesses) \in Int
          /\ s.witness_budget \in Int /\ s.accumulated_fees \in Int
      BY HeldParts DEF StateInv, Purses
    <2>2. Held(t) = Sum(s.balance, Accounts) + Vested(s.vesting)
                    + Sum(s.accumulated_income, Witnesses) + s.witness_budget + t.accumulated_fees
      BY <1>4, <1>6, HeldParts DEF StateInv
    <2>3. QED
      BY <1>2, <2>1, <2>2
  <1>8. Extends(s.vesting, t.vesting, s.time)
    BY <1>4 DEF Extends, SameAllowance
  <1>9. QED
    BY <1>4, <1>6, <1>7, <1>8 DEF Shared

\* pay_fee: the shares of the fee, rounded down, and the rest add up to the fee.
LEMMA PayFeeShared ==
  ASSUME NEW s, StateInv(s), NEW a \in Accounts, NEW fee \in Nat
  PROVE  Shared(s, pay_fee(s, a, fee), fee)
  <1> DEFINE bulk == (fee * BulkDiscountPercent(s, a)) \div Full
             total == fee - bulk
             accumulated == (total * s.parameters.witness_percent_of_fee) \div Full
             burned == (total * s.parameters.burn_percent_of_fee) \div Full
             rest == total - accumulated - burned
             booked == [s EXCEPT !.accumulated_fees = @ + accumulated + burned,
                                 !.lifetime_fees_paid[a] = @ + total]
             referred == deposit_cashback(booked, Referrer[a], rest)
             t == deposit_cashback(referred, a, bulk)
  <1>1. pay_fee(s, a, fee) = t
    BY DEF pay_fee
  <1>2. Full \in Nat \ {0} /\ Referrer[a] \in Accounts
    BY TreasuryAssumption
  <1>3. bulk \in Nat /\ bulk <= fee
    BY <1>2, DiscountIs, Fraction
  <1>4. total \in Nat /\ total + bulk = fee
    <2> HIDE DEF bulk
    <2> QED
      BY <1>3
  <1>5. accumulated \in Nat /\ burned \in Nat /\ accumulated + burned <= total
    <2> DEFINE p == s.parameters.witness_percent_of_fee
               q == s.parameters.burn_percent_of_fee
    <2>1. p \in Nat /\ q \in Nat /\ p + q <= Full
      BY ParametersAre DEF StateInv, Clock
    <2> HIDE DEF total, p, q
    <2>2. /\ (total * p) \div Full \in Nat /\ (total * q) \div Full \in Nat
          /\ (total * p) \div Full + (total * q) \div Full <= total
      BY <1>2, <1>4, <2>1, Fractions
    <2>3. QED
      BY <2>2, Zenon DEF p, q
  <1> HIDE DEF bulk, total, accumulated, burned
  <1>6. rest \in Nat /\ accumulated + burned \in Nat /\ accumulated + burned + rest + bulk = fee
    BY <1>3, <1>4, <1>5
  <1>7. booked = [s EXCEPT !.accumulated_fees = @ + (accumulated + burned),
                           !.lifetime_fees_paid[a] = @ + total]
    <2>1. s.accumulated_fees \in Nat
      BY DEF StateInv, Purses
    <2>2. s.accumulated_fees + accumulated + burned = s.accumulated_fees + (accumulated + burned)
      BY <1>5, <2>1
    <2>3. QED
      BY <2>2
  <1> HIDE DEF rest, booked
  <1>8. Shared(s, booked, accumulated + burned)
    BY <1>4, <1>6, <1>7, BookedShared
  <1>9. Shared(booked, referred, rest)
    BY <1>2, <1>6, <1>8, CashbackShared DEF Shared
  <1> HIDE DEF referred
  <1>10. Shared(referred, t, bulk)
    BY <1>3, <1>9, CashbackShared DEF Shared
  <1> HIDE DEF t
  <1>11. Held(s) \in Int
    BY HeldParts DEF StateInv
  <1>12. Shared(s, referred, accumulated + burned + rest)
    BY <1>6, <1>8, <1>9, <1>11, SharedTwice
  <1>13. Shared(s, t, accumulated + burned + rest + bulk)
    <2>1. accumulated + burned + rest \in Int /\ bulk \in Int
      BY <1>3, <1>6
    <2>2. QED
      BY <1>10, <1>11, <1>12, <2>1, SharedTwice
  <1>14. QED
    BY <1>1, <1>6, <1>13

----------------------------------------------------------------------------
(* What the operations change.                                             *)

\* What is held changes by what its parts change.
LEMMA HeldChange ==
  ASSUME NEW s, NEW t, StateInv(s), StateInv(t), t.balance = s.balance
  PROVE  /\ Held(t) = Held(s) + (Vested(t.vesting) - Vested(s.vesting))
                      + (Sum(t.accumulated_income, Witnesses) - Sum(s.accumulated_income, Witnesses))
                      + (t.witness_budget - s.witness_budget) + (t.accumulated_fees - s.accumulated_fees)
         /\ Held(s) \in Int /\ s.forfeited \in Int /\ s.current_supply \in Int
         /\ Vested(s.vesting) \in Int /\ Sum(s.accumulated_income, Witnesses) \in Int
         /\ s.witness_budget \in Int /\ s.accumulated_fees \in Int
  <1>1. /\ Held(s) = Sum(s.balance, Accounts) + Vested(s.vesting)
                     + Sum(s.accumulated_income, Witnesses) + s.witness_budget + s.accumulated_fees
        /\ Sum(s.balance, Accounts) \in Int /\ Vested(s.vesting) \in Int
        /\ Sum(s.accumulated_income, Witnesses) \in Int /\ Held(s) \in Int
        /\ s.witness_budget \in Int /\ s.accumulated_fees \in Int
        /\ s.forfeited \in Int /\ s.current_supply \in Int
    BY HeldParts DEF StateInv, Purses
  <1>2. /\ Held(t) = Sum(s.balance, Accounts) + Vested(t.vesting)
                     + Sum(t.accumulated_income, Witnesses) + t.witness_budget + t.accumulated_fees
        /\ Vested(t.vesting) \in Int /\ Sum(t.accumulated_income, Witnesses) \in Int
        /\ t.witness_budget \in Int /\ t.accumulated_fees \in Int
    BY HeldParts DEF StateInv, Purses
  <1>3. QED
    BY <1>1, <1>2

\* Nothing changes that is held.
LEMMA HeldSame ==
  ASSUME NEW s, NEW t, NEW fee, Balanced(s, fee), StateInv(t), t.balance = s.balance,
         t.vesting = s.vesting, t.accumulated_income = s.accumulated_income,
         t.witness_budget = s.witness_budget, t.accumulated_fees = s.accumulated_fees,
         t.forfeited = s.forfeited, t.current_supply = s.current_supply
  PROVE  Balanced(t, fee)
  <1>1. /\ Held(t) = Held(s) + (Vested(s.vesting) - Vested(s.vesting))
                     + (Sum(s.accumulated_income, Witnesses) - Sum(s.accumulated_income, Witnesses))
                     + (s.witness_budget - s.witness_budget) + (s.accumulated_fees - s.accumulated_fees)
        /\ Held(s) \in Int
        /\ Vested(s.vesting) \in Int /\ Sum(s.accumulated_income, Witnesses) \in Int
        /\ s.witness_budget \in Int /\ s.accumulated_fees \in Int
    BY HeldChange DEF Balanced
  <1>2. Held(t) = Held(s)
    BY <1>1
  <1>3. QED
    BY <1>2 DEF Balanced

\* The maximal supply.
LEMMA MaxSupplyIs == MaxSupply \in Int
  <1>1. Total(Deposits) = Sum(Deposits, Accounts)
    BY TreasuryAssumption DEF Total, Sum
  <1>2. Sum(Deposits, Accounts) \in Int
    BY TreasuryAssumption, SumType
  <1>3. QED
    BY <1>1, <1>2, TreasuryAssumption DEF MaxSupply

\* Types of the amounts that Balanced relates.
LEMMA BalancedTypes ==
  ASSUME NEW s, NEW fee, Balanced(s, fee)
  PROVE  /\ Held(s) \in Int /\ s.forfeited \in Nat /\ s.current_supply \in Int
         /\ s.time \in Nat /\ DOMAIN s = DbFields /\ StateInv(s)
         /\ Vestings(s.vesting, s.time) /\ Agreed(s.permissions, s.time)
  BY HeldParts DEF Balanced, StateInv, Purses, Clock

\* adjust_balance.
LEMMA AdjustBalanced ==
  ASSUME NEW s, NEW fee \in Int, Balanced(s, fee), NEW a \in Accounts, NEW delta \in Int
  PROVE  LET t == adjust_balance(s, a, delta)
         IN  Balanced(t, fee + delta) /\ Keeps(s, t, {"balance"})
  <1> DEFINE t == adjust_balance(s, a, delta)
  <1>1. /\ StateInv(t) /\ Keeps(s, t, {"balance"}) /\ Held(t) = Held(s) + delta
    BY AdjustInv DEF Balanced
  <1> HIDE DEF t
  <1>2. t.forfeited = s.forfeited /\ t.current_supply = s.current_supply
    BY <1>1 DEF Keeps, DbFields
  <1>3. Held(t) + t.forfeited = t.current_supply + (fee + delta)
    BY <1>1, <1>2, BalancedTypes DEF Balanced
  <1>4. QED
    BY <1>1, <1>2, <1>3 DEF Balanced, t

\* The supply is burned.
LEMMA BurnBalanced ==
  ASSUME NEW s, NEW fee \in Int, Balanced(s, fee), NEW amount \in Nat
  PROVE  Balanced([s EXCEPT !.current_supply = @ - amount], fee + amount)
  <1> DEFINE t == [s EXCEPT !.current_supply = @ - amount]
  <1>1. DOMAIN s = DbFields /\ s.current_supply \in Int
    BY BalancedTypes
  <1>2. Keeps(s, t, {"current_supply"}) /\ t.current_supply = s.current_supply - amount
    BY <1>1 DEF Keeps, DbFields
  <1> HIDE DEF t
  <1>3. StateInv(t)
    <2>1. Purses(t) /\ Clock(t) /\ Owners(t)
      BY <1>1, <1>2 DEF Balanced, StateInv, Purses, Clock, Owners, Keeps, DbFields
    <2>2. t.vesting = s.vesting /\ t.time = s.time /\ t.permissions = s.permissions /\ DOMAIN t = DbFields
      BY <1>2 DEF Keeps, DbFields
    <2>3. QED
      BY <2>1, <2>2 DEF Balanced, StateInv
  <1>4. /\ t.balance = s.balance /\ t.vesting = s.vesting
        /\ t.accumulated_income = s.accumulated_income /\ t.witness_budget = s.witness_budget
        /\ t.accumulated_fees = s.accumulated_fees /\ t.forfeited = s.forfeited
    BY <1>2 DEF Keeps, DbFields
  <1>5. Held(t) = Held(s)
    BY <1>3, <1>4, HeldChange DEF Balanced
  <1>6. QED
    BY <1>1, <1>2, <1>3, <1>4, <1>5, MaxSupplyIs, BalancedTypes DEF Balanced, t

\* A vesting balance is made.
LEMMA VestingAdded ==
  ASSUME NEW s, NEW fee \in Int, Balanced(s, fee), NEW v, VestingInv(v, s.time)
  PROVE  LET t == [s EXCEPT !.vesting = Append(@, v)]
         IN  /\ Balanced(t, fee + v.balance) /\ Keeps(s, t, {"vesting"})
             /\ DOMAIN s.vesting \subseteq DOMAIN t.vesting /\ Len(s.vesting) + 1 \in DOMAIN t.vesting
  <1> DEFINE t == [s EXCEPT !.vesting = Append(@, v)]
  <1>1. DOMAIN s = DbFields /\ Vestings(s.vesting, s.time)
    BY BalancedTypes
  <1>2. Keeps(s, t, {"vesting"}) /\ t.vesting = Append(s.vesting, v)
    BY <1>1 DEF Keeps, DbFields
  <1> HIDE DEF t
  <1>3. /\ Vestings(t.vesting, s.time) /\ Vested(t.vesting) = Vested(s.vesting) + v.balance
        /\ DOMAIN s.vesting \subseteq DOMAIN t.vesting /\ Len(s.vesting) + 1 \in DOMAIN t.vesting
    <2> DEFINE y == Append(s.vesting, v)
    <2>1. /\ Vestings(y, s.time) /\ Vested(y) = Vested(s.vesting) + v.balance
          /\ DOMAIN s.vesting \subseteq DOMAIN y /\ Len(s.vesting) + 1 \in DOMAIN y
      BY <1>1, VestedAppend
    <2> HIDE DEF y
    <2>2. QED
      BY <1>2, <2>1 DEF y
  <1>4. /\ t.balance = s.balance /\ t.time = s.time /\ t.permissions = s.permissions
        /\ t.accumulated_income = s.accumulated_income /\ t.witness_budget = s.witness_budget
        /\ t.accumulated_fees = s.accumulated_fees /\ t.forfeited = s.forfeited
        /\ t.current_supply = s.current_supply /\ t.workers = s.workers
        /\ t.cashback_vb = s.cashback_vb /\ DOMAIN t = DbFields
    BY <1>2 DEF Keeps, DbFields
  <1>5. StateInv(t)
    <2>1. Purses(t) /\ Clock(t)
      BY <1>2 DEF Balanced, StateInv, Purses, Clock, Keeps, DbFields
    <2>2. Owners(t)
      BY <1>3, <1>4 DEF Balanced, StateInv, Owners
    <2>3. QED
      BY <1>3, <1>4, <2>1, <2>2 DEF Balanced, StateInv
  <1>6. v.balance \in Int
    BY DEF VestingInv
  <1>7. Held(t) = Held(s) + v.balance
    <2>1. /\ Held(t) = Held(s) + (Vested(t.vesting) - Vested(s.vesting))
                      + (Sum(s.accumulated_income, Witnesses) - Sum(s.accumulated_income, Witnesses))
                      + (s.witness_budget - s.witness_budget) + (s.accumulated_fees - s.accumulated_fees)
         /\ Held(s) \in Int /\ Vested(s.vesting) \in Int
         /\ Sum(s.accumulated_income, Witnesses) \in Int
         /\ s.witness_budget \in Int /\ s.accumulated_fees \in Int
      BY <1>4, <1>5, HeldChange DEF Balanced
    <2>2. QED
      BY <1>3, <1>6, <2>1
  <1>8. Held(t) + t.forfeited = t.current_supply + (fee + v.balance)
    <2>1. /\ Held(s) + s.forfeited = s.current_supply + fee
          /\ Held(s) \in Int /\ s.forfeited \in Int /\ s.current_supply \in Int
      BY BalancedTypes DEF Balanced
    <2>2. QED
      BY <1>4, <1>6, <1>7, <2>1
  <1>9. Balanced(t, fee + v.balance)
    BY <1>4, <1>5, <1>8 DEF Balanced
  <1>10. QED
    BY <1>2, <1>3, <1>9 DEF t

\* A vesting balance is changed.
LEMMA VestingReplaced ==
  ASSUME NEW s, NEW fee \in Int, Balanced(s, fee), NEW k \in DOMAIN s.vesting,
         NEW v, VestingInv(v, s.time)
  PROVE  LET t == [s EXCEPT !.vesting[k] = v]
         IN  Balanced(t, fee + (v.balance - s.vesting[k].balance)) /\ Keeps(s, t, {"vesting"})
             /\ DOMAIN t.vesting = DOMAIN s.vesting
  <1> DEFINE t == [s EXCEPT !.vesting[k] = v]
             y == [s.vesting EXCEPT ![k] = v]
  <1>1. DOMAIN s = DbFields /\ Vestings(s.vesting, s.time)
    BY BalancedTypes
  <1>2. Keeps(s, t, {"vesting"}) /\ t.vesting = y
    BY <1>1 DEF Keeps, DbFields
  <1>3. /\ Vestings(y, s.time) /\ Vested(y) = Vested(s.vesting) + v.balance - s.vesting[k].balance
        /\ DOMAIN y = DOMAIN s.vesting
    BY <1>1, VestedChange
  <1> HIDE DEF t, y
  <1>4. /\ t.balance = s.balance /\ t.time = s.time /\ t.permissions = s.permissions
        /\ t.accumulated_income = s.accumulated_income /\ t.witness_budget = s.witness_budget
        /\ t.accumulated_fees = s.accumulated_fees /\ t.forfeited = s.forfeited
        /\ t.current_supply = s.current_supply /\ t.workers = s.workers
        /\ t.cashback_vb = s.cashback_vb /\ DOMAIN t = DbFields
    BY <1>2 DEF Keeps, DbFields
  <1>5. StateInv(t)
    <2>1. Purses(t) /\ Clock(t)
      BY <1>2 DEF Balanced, StateInv, Purses, Clock, Keeps, DbFields
    <2>2. Owners(t)
      BY <1>2, <1>3, <1>4 DEF Balanced, StateInv, Owners
    <2>3. QED
      BY <1>2, <1>3, <1>4, <2>1, <2>2 DEF Balanced, StateInv
  <1>6. v.balance \in Int
    BY DEF VestingInv
  <1>7. s.vesting[k].balance \in Int
    BY <1>1 DEF Vestings, VestingInv
  <1>8. Held(t) = Held(s) + (v.balance - s.vesting[k].balance)
    <2>1. /\ Held(t) = Held(s) + (Vested(y) - Vested(s.vesting))
                      + (Sum(s.accumulated_income, Witnesses) - Sum(s.accumulated_income, Witnesses))
                      + (s.witness_budget - s.witness_budget) + (s.accumulated_fees - s.accumulated_fees)
         /\ Held(s) \in Int /\ Vested(s.vesting) \in Int
         /\ Sum(s.accumulated_income, Witnesses) \in Int
         /\ s.witness_budget \in Int /\ s.accumulated_fees \in Int
      BY <1>2, <1>4, <1>5, HeldChange DEF Balanced
    <2>2. QED
      BY <1>3, <1>6, <1>7, <2>1
  <1>9. Held(t) + t.forfeited = t.current_supply + (fee + (v.balance - s.vesting[k].balance))
    BY <1>4, <1>6, <1>7, <1>8, BalancedTypes DEF Balanced
  <1>10. Balanced(t, fee + (v.balance - s.vesting[k].balance))
    BY <1>4, <1>5, <1>9 DEF Balanced
  <1>11. QED
    BY <1>2, <1>3, <1>10 DEF t

\* The income of a witness changes.
LEMMA IncomeChanged ==
  ASSUME NEW s, NEW fee \in Int, Balanced(s, fee), NEW w \in Witnesses, NEW income \in Nat
  PROVE  LET t == [s EXCEPT !.accumulated_income[w] = income]
         IN  Balanced(t, fee + (income - s.accumulated_income[w])) /\ Keeps(s, t, {"accumulated_income"})
  <1> DEFINE t == [s EXCEPT !.accumulated_income[w] = income]
             x == s.accumulated_income
             y == t.accumulated_income
  <1>1. DOMAIN s = DbFields /\ x \in [Witnesses -> Nat]
    BY BalancedTypes DEF StateInv, Purses
  <1>2. Keeps(s, t, {"accumulated_income"}) /\ y = [x EXCEPT ![w] = income]
    BY <1>1 DEF Keeps, DbFields
  <1> HIDE DEF t
  <1>3. /\ t.balance = s.balance /\ t.time = s.time /\ t.permissions = s.permissions
        /\ t.vesting = s.vesting /\ t.witness_budget = s.witness_budget
        /\ t.accumulated_fees = s.accumulated_fees /\ t.forfeited = s.forfeited
        /\ t.current_supply = s.current_supply /\ DOMAIN t = DbFields
    BY <1>2 DEF Keeps, DbFields
  <1> HIDE DEF x
  <1>4. y \in [Witnesses -> Nat] /\ y[w] = income /\ \A u \in Witnesses \ {w} : y[u] = x[u]
    BY <1>1, <1>2
  <1>5. StateInv(t)
    <2>1. Purses(t) /\ Clock(t) /\ Owners(t)
      BY <1>2, <1>4 DEF Balanced, StateInv, Purses, Clock, Owners, Keeps, DbFields
    <2>2. QED
      BY <1>3, <2>1 DEF Balanced, StateInv
  <1> HIDE DEF y
  <1>6. Sum(y, Witnesses) = Sum(x, Witnesses) + income - x[w] /\ x[w] \in Nat
    BY <1>1, <1>4, SumChange, TreasuryAssumption
  <1>7. Held(t) = Held(s) + (income - x[w])
    <2>1. /\ Held(t) = Held(s) + (Vested(s.vesting) - Vested(s.vesting))
                      + (Sum(y, Witnesses) - Sum(x, Witnesses))
                      + (s.witness_budget - s.witness_budget) + (s.accumulated_fees - s.accumulated_fees)
         /\ Held(s) \in Int /\ Vested(s.vesting) \in Int /\ Sum(x, Witnesses) \in Int
         /\ s.witness_budget \in Int /\ s.accumulated_fees \in Int
      BY <1>3, <1>5, HeldChange DEF Balanced, x, y
    <2>2. QED
      BY <1>6, <2>1
  <1>8. Held(t) + t.forfeited = t.current_supply + (fee + (income - x[w]))
    BY <1>3, <1>6, <1>7, BalancedTypes DEF Balanced
  <1>9. Balanced(t, fee + (income - x[w]))
    BY <1>3, <1>5, <1>8 DEF Balanced
  <1>10. QED
    BY <1>2, <1>9 DEF t, x

\* A worker is made, whose vesting balance exists.
LEMMA WorkerAdded ==
  ASSUME NEW s, NEW fee, Balanced(s, fee), NEW work, work.daily_pay \in Nat,
         work.vb = None \/ work.vb \in DOMAIN s.vesting
  PROVE  Balanced([s EXCEPT !.workers = Append(@, work)], fee)
  <1> DEFINE t == [s EXCEPT !.workers = Append(@, work)]
             x == s.workers
  <1>1. DOMAIN s = DbFields
    BY BalancedTypes
  <1>2. Keeps(s, t, {"workers"}) /\ t.workers = Append(x, work)
    BY <1>1 DEF Keeps, DbFields
  <1> HIDE DEF t
  <1>3. IsSeq(x) /\ \A i \in DOMAIN x : x[i].daily_pay \in Nat
                                        /\ (x[i].vb = None \/ x[i].vb \in DOMAIN s.vesting)
    BY DEF Balanced, StateInv, Owners
  <1> HIDE DEF x
  <1>4. /\ IsSeq(t.workers) /\ Len(x) \in Nat /\ DOMAIN x = 1 .. Len(x)
        /\ DOMAIN t.workers = 1 .. Len(x) + 1
        /\ \A i \in 1 .. Len(x) : t.workers[i] = x[i]
        /\ t.workers[Len(x) + 1] = work
    <2>1. /\ IsSeq(Append(x, work)) /\ Len(x) \in Nat /\ DOMAIN x = 1 .. Len(x)
          /\ DOMAIN Append(x, work) = 1 .. Len(x) + 1
          /\ \A i \in 1 .. Len(x) : Append(x, work)[i] = x[i]
          /\ Append(x, work)[Len(x) + 1] = work
      BY <1>3, AppendSeq
    <2>2. QED
      BY <1>2, <2>1
  <1>5. ASSUME NEW i \in DOMAIN t.workers
        PROVE  t.workers[i].daily_pay \in Nat
               /\ (t.workers[i].vb = None \/ t.workers[i].vb \in DOMAIN s.vesting)
    <2>1. i \in DOMAIN x \/ i = Len(x) + 1
      BY <1>4
    <2>2. t.workers[i] = work \/ (i \in DOMAIN x /\ t.workers[i] = x[i])
      <3>1. CASE i = Len(x) + 1
        BY <1>4, <3>1
      <3>2. CASE i \in DOMAIN x
        BY <1>4, <3>2
      <3>3. QED
        BY <2>1, <3>1, <3>2
    <2>3. QED
      BY <1>3, <2>2
  <1>6. /\ t.balance = s.balance /\ t.vesting = s.vesting /\ DOMAIN t = DbFields
        /\ t.accumulated_income = s.accumulated_income /\ t.witness_budget = s.witness_budget
        /\ t.accumulated_fees = s.accumulated_fees /\ t.forfeited = s.forfeited
        /\ t.current_supply = s.current_supply /\ t.time = s.time /\ t.permissions = s.permissions
        /\ t.cashback_vb = s.cashback_vb
    BY <1>2 DEF Keeps, DbFields
  <1>7. Purses(t) /\ Clock(t)
    BY <1>2 DEF Balanced, StateInv, Purses, Clock, Keeps, DbFields
  <1>8. Owners(t)
    BY <1>4, <1>5, <1>6 DEF Balanced, StateInv, Owners
  <1>9. StateInv(t)
    BY <1>6, <1>7, <1>8 DEF Balanced, StateInv
  <1>10. QED
    BY <1>6, <1>9, HeldSame DEF t

\* New parameters wait for the maintenance interval.
LEMMA ParametersPend ==
  ASSUME NEW s, NEW fee, Balanced(s, fee), NEW p \in NewParameters
  PROVE  Balanced([s EXCEPT !.pending_parameters = p], fee)
  <1> DEFINE t == [s EXCEPT !.pending_parameters = p]
  <1>1. DOMAIN s = DbFields
    BY BalancedTypes
  <1>2. Keeps(s, t, {"pending_parameters"}) /\ t.pending_parameters = p
    BY <1>1 DEF Keeps, DbFields
  <1> HIDE DEF t
  <1>3. /\ t.balance = s.balance /\ t.vesting = s.vesting /\ DOMAIN t = DbFields
        /\ t.accumulated_income = s.accumulated_income /\ t.witness_budget = s.witness_budget
        /\ t.accumulated_fees = s.accumulated_fees /\ t.forfeited = s.forfeited
        /\ t.current_supply = s.current_supply /\ t.time = s.time /\ t.permissions = s.permissions
    BY <1>2 DEF Keeps, DbFields
  <1>4. Purses(t) /\ Clock(t) /\ Owners(t)
    BY <1>2 DEF Balanced, StateInv, Purses, Clock, Owners, Keeps, DbFields
  <1>5. StateInv(t)
    BY <1>3, <1>4 DEF Balanced, StateInv
  <1>6. QED
    BY <1>3, <1>5, HeldSame DEF t

\* Permissions that are in order replace those of the state.
LEMMA PermissionsReplaced ==
  ASSUME NEW s, NEW fee, Balanced(s, fee), NEW x, Agreed(x, s.time)
  PROVE  LET t == [s EXCEPT !.permissions = x]
         IN  Balanced(t, fee) /\ Keeps(s, t, {"permissions"})
  <1> DEFINE t == [s EXCEPT !.permissions = x]
  <1>1. DOMAIN s = DbFields
    BY BalancedTypes
  <1>2. Keeps(s, t, {"permissions"}) /\ t.permissions = x
    BY <1>1 DEF Keeps, DbFields
  <1> HIDE DEF t
  <1>3. /\ t.balance = s.balance /\ t.vesting = s.vesting /\ DOMAIN t = DbFields
        /\ t.accumulated_income = s.accumulated_income /\ t.witness_budget = s.witness_budget
        /\ t.accumulated_fees = s.accumulated_fees /\ t.forfeited = s.forfeited
        /\ t.current_supply = s.current_supply /\ t.time = s.time
    BY <1>2 DEF Keeps, DbFields
  <1>4. Purses(t) /\ Clock(t) /\ Owners(t)
    BY <1>2 DEF Balanced, StateInv, Purses, Clock, Owners, Keeps, DbFields
  <1>5. StateInv(t)
    BY <1>2, <1>3, <1>4 DEF Balanced, StateInv
  <1>6. Balanced(t, fee)
    BY <1>3, <1>5, HeldSame
  <1>7. QED
    BY <1>2, <1>6 DEF t

\* One permission is agreed.
LEMMA AgreedAppend ==
  ASSUME NEW x, NEW now, NEW p, Agreed(x, now), PermissionInv(p, now)
  PROVE  Agreed(Append(x, p), now)
  <1> DEFINE y == Append(x, p)
  <1>1. /\ IsSeq(y) /\ Len(x) \in Nat /\ DOMAIN x = 1 .. Len(x) /\ DOMAIN y = 1 .. Len(x) + 1
        /\ \A i \in 1 .. Len(x) : y[i] = x[i]
        /\ y[Len(x) + 1] = p
    BY AppendSeq DEF Agreed
  <1> HIDE DEF y
  <1>2. ASSUME NEW i \in DOMAIN y
        PROVE  y[i] = None \/ PermissionInv(y[i], now)
    <2>1. (i \in DOMAIN x /\ y[i] = x[i]) \/ y[i] = p
      BY <1>1
    <2>2. QED
      BY <2>1 DEF Agreed
  <1>3. QED
    BY <1>1, <1>2 DEF Agreed, y

\* One permission is changed or withdrawn.
LEMMA AgreedChange ==
  ASSUME NEW x, NEW now, NEW p, NEW k \in DOMAIN x, Agreed(x, now),
         p = None \/ PermissionInv(p, now)
  PROVE  Agreed([x EXCEPT ![k] = p], now)
  <1> DEFINE y == [x EXCEPT ![k] = p]
  <1>1. IsSeq(y)
    <2>1. Len(x) \in Nat /\ DOMAIN x = 1 .. Len(x)
      BY FiniteDomain DEF Agreed
    <2>2. x \in Seq(ToSet(x) \cup {p})
      BY DEF Agreed, IsSeq
    <2>3. y \in Seq(ToSet(x) \cup {p})
      BY <2>1, <2>2, ExceptSeq
    <2>4. QED
      BY <2>3, SeqOfItself
  <1>2. QED
    BY <1>1 DEF Agreed

\* update_withdraw_permissions drops the permissions that have expired.
LEMMA ExpiredDropped ==
  ASSUME NEW s, NEW fee, Balanced(s, fee)
  PROVE  LET t == update_withdraw_permissions(s)
         IN  Balanced(t, fee) /\ Keeps(s, t, {"permissions"})
  <1> DEFINE x == s.permissions
             y == [i \in DOMAIN x |-> IF x[i] # None /\ x[i].expiration < s.time THEN None ELSE x[i]]
  <1>1. Agreed(x, s.time)
    BY BalancedTypes
  <1>2. y \in Seq(ToSet(x) \cup {None})
    <2>1. Len(x) \in Nat /\ DOMAIN x = 1 .. Len(x)
      BY <1>1, FiniteDomain DEF Agreed
    <2>2. y \in [1 .. Len(x) -> ToSet(x) \cup {None}]
      BY <2>1 DEF ToSet
    <2>3. QED
      BY <2>1, <2>2
  <1>3. IsSeq(y)
    BY <1>2, SeqOfItself
  <1>4. Agreed(y, s.time)
    BY <1>1, <1>3 DEF Agreed
  <1>5. update_withdraw_permissions(s) = [s EXCEPT !.permissions = y]
    BY BalancedTypes DEF update_withdraw_permissions, DbFields
  <1> HIDE DEF y
  <1>6. QED
    BY <1>4, <1>5, PermissionsReplaced

----------------------------------------------------------------------------
(* The operations.                                                         *)

\* The fee has been shared out and not been paid.
LEMMA PaidBalanced ==
  ASSUME Sound(db), NEW a \in Accounts, NEW op \in OperationNames
  PROVE  /\ Balanced(Paid(a, op), Fees[op]) /\ Keeps(db, Paid(a, op), FeeFields)
         /\ Extends(db.vesting, Paid(a, op).vesting, db.time)
         /\ Fees[op] \in Nat /\ Paid(a, op).time = db.time /\ db.time \in Nat
         /\ Paid(a, op).permissions = db.permissions
         /\ Paid(a, op).accumulated_income = db.accumulated_income
  <1> DEFINE s == Paid(a, op)
  <1>1. Fees[op] \in Nat
    BY OperationsAssumption
  <1>2. Balanced(db, 0)
    BY DEF Sound
  <1>3. Shared(db, s, Fees[op])
    BY <1>1, <1>2, PayFeeShared DEF Paid, Balanced
  <1> HIDE DEF s
  <1>4. StateInv(s) /\ Keeps(db, s, FeeFields) /\ Held(s) = Held(db) + Fees[op]
        /\ Extends(db.vesting, s.vesting, db.time)
    BY <1>3 DEF Shared
  <1>5. s.forfeited = db.forfeited /\ s.current_supply = db.current_supply /\ s.time = db.time
        /\ s.permissions = db.permissions /\ s.accumulated_income = db.accumulated_income
    BY <1>4 DEF Keeps, DbFields, FeeFields
  <1>6. /\ Held(db) + db.forfeited = db.current_supply + 0 /\ db.current_supply <= MaxSupply
        /\ Held(db) \in Int /\ db.forfeited \in Int /\ db.current_supply \in Int /\ db.time \in Nat
    BY <1>2, BalancedTypes DEF Balanced
  <1>7. Held(s) + s.forfeited = s.current_supply + Fees[op]
    BY <1>1, <1>4, <1>5, <1>6
  <1>8. QED
    BY <1>1, <1>4, <1>5, <1>6, <1>7 DEF Balanced, s

\* The fee is paid at last.
LEMMA AppliesSound ==
  ASSUME NEW payer \in Accounts, NEW op \in OperationNames, NEW applied,
         Balanced(applied, Fees[op]), Applies(payer, op, applied)
  PROVE  Sound(db')
  <1> DEFINE charged == adjust_balance(applied, payer, - Fees[op])
  <1>1. Fees[op] \in Int /\ - Fees[op] \in Int
    BY OperationsAssumption
  <1>2. Balanced(charged, Fees[op] + (- Fees[op]))
    BY <1>1, AdjustBalanced
  <1>3. Fees[op] + (- Fees[op]) = 0
    BY <1>1
  <1>4. db' = charged /\ \A a \in Accounts : charged.balance[a] >= 0
    BY DEF Applies
  <1> HIDE DEF charged
  <1>5. QED
    BY <1>2, <1>3, <1>4 DEF Sound

\* Amounts that go back and forth.
LEMMA BackAndForth ==
  ASSUME NEW fee \in Int, NEW amount \in Int
  PROVE  /\ fee + (- amount) + amount = fee /\ fee + amount + (- amount) = fee
         /\ - amount \in Int /\ fee + (- amount) \in Int /\ fee + amount \in Int
  OBVIOUS

\* transfer.
LEMMA TransferSound ==
  ASSUME Sound(db), NEW o \in TransferOps, transfer(o)
  PROVE  Sound(db')
  <1> DEFINE s == Paid(o.from, "transfer")
             fee == Fees["transfer"]
             r == adjust_balance(s, o.from, - o.amount)
             t == adjust_balance(r, o.to, o.amount)
  <1>1. o.from \in Accounts /\ o.to \in Accounts /\ o.amount \in Int /\ "transfer" \in OperationNames
    BY OperationsAssumption DEF OperationNames
  <1>2. Balanced(s, fee) /\ fee \in Int
    BY <1>1, PaidBalanced
  <1>3. Applies(o.from, "transfer", t)
    BY DEF transfer
  <1> HIDE DEF s, fee
  <1>4. /\ fee + (- o.amount) + o.amount = fee /\ - o.amount \in Int /\ fee + (- o.amount) \in Int
    BY <1>1, <1>2, BackAndForth
  <1>5. Balanced(r, fee + (- o.amount))
    BY <1>1, <1>2, <1>4, AdjustBalanced
  <1> HIDE DEF r
  <1>6. Balanced(t, fee + (- o.amount) + o.amount)
    BY <1>1, <1>4, <1>5, AdjustBalanced
  <1> HIDE DEF t
  <1>7. QED
    BY <1>1, <1>3, <1>4, <1>6, AppliesSound DEF fee

\* asset_burn.
LEMMA BurnSound ==
  ASSUME Sound(db), NEW o \in BurnOps, asset_burn(o)
  PROVE  Sound(db')
  <1> DEFINE s == Paid(o.payer, "asset_burn")
             fee == Fees["asset_burn"]
             r == adjust_balance(s, o.payer, - o.amount)
             t == [r EXCEPT !.current_supply = @ - o.amount]
  <1>1. o.payer \in Accounts /\ o.amount \in Nat /\ o.amount \in Int
        /\ "asset_burn" \in OperationNames
    BY OperationsAssumption DEF OperationNames
  <1>2. Balanced(s, fee) /\ fee \in Int
    BY <1>1, PaidBalanced
  <1>3. Applies(o.payer, "asset_burn", t)
    BY DEF asset_burn
  <1> HIDE DEF s, fee
  <1>4. /\ fee + (- o.amount) + o.amount = fee /\ - o.amount \in Int /\ fee + (- o.amount) \in Int
    BY <1>1, <1>2, BackAndForth
  <1>5. Balanced(r, fee + (- o.amount))
    BY <1>1, <1>2, <1>4, AdjustBalanced
  <1> HIDE DEF r
  <1>6. Balanced(t, fee + (- o.amount) + o.amount)
    BY <1>1, <1>4, <1>5, BurnBalanced
  <1> HIDE DEF t
  <1>7. QED
    BY <1>1, <1>3, <1>4, <1>6, AppliesSound DEF fee

\* vesting_balance_create.
LEMMA VestingCreateSound ==
  ASSUME Sound(db), NEW o \in VestingOps, vesting_balance_create(o)
  PROVE  Sound(db')
  <1> DEFINE s == Paid(o.creator, "vesting_balance_create")
             fee == Fees["vesting_balance_create"]
             v == NewVesting(o.owner, o.amount, o.vesting_seconds, s.time)
             r == adjust_balance(s, o.creator, - o.amount)
             t == [r EXCEPT !.vesting = Append(@, v)]
  <1>1. /\ o.creator \in Accounts /\ o.owner \in Accounts /\ o.amount \in Nat /\ o.amount \in Int
        /\ o.vesting_seconds \in Nat /\ "vesting_balance_create" \in OperationNames
    BY OperationsAssumption DEF OperationNames
  <1>2. Balanced(s, fee) /\ fee \in Int /\ s.time \in Nat
    BY <1>1, PaidBalanced
  <1>3. Applies(o.creator, "vesting_balance_create", t)
    BY DEF vesting_balance_create
  <1>4. VestingInv(v, s.time) /\ v.balance = o.amount
    BY <1>1, <1>2, NewVestingInv
  <1> HIDE DEF s, fee, v
  <1>5. /\ fee + (- o.amount) + o.amount = fee /\ - o.amount \in Int /\ fee + (- o.amount) \in Int
    BY <1>1, <1>2, BackAndForth
  <1>6. Balanced(r, fee + (- o.amount)) /\ r.time = s.time
    <2>1. Balanced(r, fee + (- o.amount)) /\ Keeps(s, r, {"balance"})
      BY <1>1, <1>2, <1>5, AdjustBalanced
    <2> HIDE DEF r
    <2>2. QED
      BY <2>1 DEF Keeps, DbFields
  <1> HIDE DEF r
  <1>7. Balanced(t, fee + (- o.amount) + v.balance)
    BY <1>4, <1>5, <1>6, VestingAdded
  <1> HIDE DEF t
  <1>8. QED
    BY <1>1, <1>3, <1>4, <1>5, <1>7, AppliesSound DEF fee

\* vesting_balance_withdraw.
LEMMA VestingWithdrawSound ==
  ASSUME Sound(db), NEW i \in DOMAIN db.vesting, NEW amount \in Amounts,
         vesting_balance_withdraw(i, amount)
  PROVE  Sound(db')
  <1> DEFINE owner == db.vesting[i].owner
             s == Paid(owner, "vesting_balance_withdraw")
             fee == Fees["vesting_balance_withdraw"]
             u == s.vesting[i]
             v == withdraw(u, s.time, amount)
             r == [s EXCEPT !.vesting[i] = v]
             t == adjust_balance(r, owner, amount)
  <1>1. amount \in Nat /\ amount \in Int /\ "vesting_balance_withdraw" \in OperationNames
    BY OperationsAssumption DEF OperationNames
  <1>2. owner \in Accounts
    BY BalancedTypes DEF Sound, Vestings, VestingInv
  <1>3. Balanced(s, fee) /\ fee \in Int /\ s.time = db.time /\ s.time \in Nat
        /\ Extends(db.vesting, s.vesting, db.time)
    BY <1>1, <1>2, PaidBalanced
  <1>4. amount <= get_allowed_withdraw(db.vesting[i], db.time)
    BY DEF vesting_balance_withdraw
  <1>5. Applies(owner, "vesting_balance_withdraw", t)
    BY DEF vesting_balance_withdraw
  <1> HIDE DEF s, fee, owner
  <1>6. i \in DOMAIN s.vesting /\ SameAllowance(db.vesting[i], u, s.time)
    BY <1>3 DEF Extends
  <1>7. VestingInv(u, s.time)
    BY <1>3, <1>6, BalancedTypes DEF Vestings
  <1> HIDE DEF u
  <1>8. amount <= get_allowed_withdraw(u, s.time)
    BY <1>3, <1>4, <1>6 DEF get_allowed_withdraw, SameAllowance
  <1>9. VestingInv(v, s.time) /\ v.balance = u.balance - amount
    BY <1>1, <1>3, <1>7, <1>8, WithdrawInv
  <1>10. u.balance \in Int
    BY <1>7 DEF VestingInv
  <1> HIDE DEF v
  <1>11. Balanced(r, fee + (v.balance - u.balance))
    BY <1>3, <1>6, <1>9, VestingReplaced DEF u
  <1>12. v.balance - u.balance = - amount
    BY <1>1, <1>9, <1>10
  <1>13. /\ fee + (- amount) + amount = fee /\ - amount \in Int /\ fee + (- amount) \in Int
    BY <1>1, <1>3, BackAndForth
  <1> HIDE DEF r
  <1>14. Balanced(t, fee + (- amount) + amount)
    BY <1>1, <1>2, <1>11, <1>12, <1>13, AdjustBalanced
  <1> HIDE DEF t
  <1>15. QED
    BY <1>1, <1>2, <1>5, <1>13, <1>14, AppliesSound DEF fee

\* witness_withdraw_pay.
LEMMA WithdrawPaySound ==
  ASSUME Sound(db), NEW w \in Witnesses, NEW amount \in Amounts, witness_withdraw_pay(w, amount)
  PROVE  Sound(db')
  <1> DEFINE a == WitnessAccount[w]
             s == Paid(a, "witness_withdraw_pay")
             fee == Fees["witness_withdraw_pay"]
             r == adjust_balance(s, a, amount)
             income == r.accumulated_income[w]
             t == [r EXCEPT !.accumulated_income[w] = income - amount]
  <1>1. amount \in Nat /\ amount \in Int /\ "witness_withdraw_pay" \in OperationNames /\ a \in Accounts
    BY OperationsAssumption, TreasuryAssumption DEF OperationNames
  <1>2. Balanced(s, fee) /\ fee \in Int /\ s.accumulated_income = db.accumulated_income
    BY <1>1, PaidBalanced
  <1>3. amount <= db.accumulated_income[w] /\ Applies(a, "witness_withdraw_pay", t)
    BY DEF witness_withdraw_pay
  <1> HIDE DEF s, fee, a
  <1>4. Balanced(r, fee + amount) /\ r.accumulated_income = s.accumulated_income
    <2>1. Balanced(r, fee + amount) /\ Keeps(s, r, {"balance"})
      BY <1>1, <1>2, AdjustBalanced
    <2> HIDE DEF r
    <2>2. QED
      BY <2>1 DEF Keeps, DbFields
  <1> HIDE DEF r
  <1>5. income \in Nat /\ income - amount \in Nat
    <2>1. income \in Nat
      BY <1>4, BalancedTypes DEF StateInv, Purses
    <2>2. amount <= income
      BY <1>2, <1>3, <1>4
    <2> HIDE DEF income
    <2>3. QED
      BY <1>1, <2>1, <2>2
  <1>6. fee + amount \in Int /\ fee + amount + (- amount) = fee
    BY <1>1, <1>2, BackAndForth
  <1>7. Balanced(t, fee + amount + ((income - amount) - income))
    BY <1>4, <1>5, <1>6, IncomeChanged
  <1>8. (income - amount) - income = - amount
    <2> HIDE DEF income
    <2> QED
      BY <1>1, <1>5
  <1> HIDE DEF t, income
  <1>9. QED
    BY <1>1, <1>3, <1>6, <1>7, <1>8, AppliesSound DEF fee

\* worker_create.
LEMMA WorkerCreateSound ==
  ASSUME Sound(db), NEW o \in WorkerOps, worker_create(o)
  PROVE  Sound(db')
  <1> DEFINE s == Paid(o.owner, "worker_create")
             fee == Fees["worker_create"]
             v == NewVesting(o.owner, 0, o.days * Day, s.time)
             vb == IF o.refund THEN None ELSE Len(s.vesting) + 1
             work == [daily_pay |-> o.daily_pay, begin |-> o.begin, end |-> o.end, vb |-> vb]
             r == [s EXCEPT !.vesting = Append(@, v)]
             t == [s EXCEPT !.workers = Append(@, work),
                            !.vesting = IF o.refund THEN @ ELSE Append(@, v)]
  <1>1. /\ o.owner \in Accounts /\ o.daily_pay \in Nat /\ o.days * Day \in Nat
        /\ "worker_create" \in OperationNames
    <2>1. o.days \in Nat /\ Day \in Nat
      BY OperationsAssumption, TreasuryAssumption
    <2>2. o.days * Day \in Nat
      BY <2>1, Products
    <2>3. QED
      BY <2>2, OperationsAssumption DEF OperationNames
  <1>2. Balanced(s, fee) /\ fee \in Int /\ s.time \in Nat /\ DOMAIN s = DbFields
    BY <1>1, PaidBalanced, BalancedTypes
  <1>3. Applies(o.owner, "worker_create", t)
    BY DEF worker_create
  <1>4. work.daily_pay \in Nat /\ work.vb = vb
    BY <1>1
  <1>5. VestingInv(v, s.time) /\ v.balance = 0
    BY <1>1, <1>2, NewVestingInv
  <1> HIDE DEF s, fee, v, work
  <1>6. Balanced(t, fee)
    <2>1. CASE o.refund
      <3>1. t = [s EXCEPT !.workers = Append(@, work)]
        <4>1. t = [s EXCEPT !.workers = Append(@, work), !.vesting = @]
          BY <2>1
        <4>2. QED
          BY <1>2, <4>1 DEF DbFields
      <3>2. QED
        BY <1>2, <1>4, <2>1, <3>1, WorkerAdded
    <2>2. CASE ~ o.refund
      <3>1. /\ Balanced(r, fee + v.balance) /\ Keeps(s, r, {"vesting"})
            /\ Len(s.vesting) + 1 \in DOMAIN r.vesting
        BY <1>2, <1>5, VestingAdded
      <3>2. t = [r EXCEPT !.workers = Append(@, work)]
        BY <1>2, <2>2 DEF DbFields
      <3> HIDE DEF r, t
      <3>3. work.vb \in DOMAIN r.vesting
        BY <1>4, <2>2, <3>1
      <3>4. Balanced(r, fee)
        BY <1>2, <1>5, <3>1
      <3>5. QED
        BY <1>4, <3>2, <3>3, <3>4, WorkerAdded
    <2>3. QED
      BY <2>1, <2>2
  <1> HIDE DEF t
  <1>7. QED
    BY <1>1, <1>3, <1>6, AppliesSound DEF fee

\* global_parameters_update.
LEMMA ParametersUpdateSound ==
  ASSUME Sound(db), NEW p \in NewParameters, global_parameters_update(p)
  PROVE  Sound(db')
  <1> DEFINE s == Paid(Genesis, "global_parameters_update")
             t == [s EXCEPT !.pending_parameters = p]
  <1>1. Genesis \in Accounts /\ "global_parameters_update" \in OperationNames
    BY TreasuryAssumption DEF OperationNames
  <1>2. Balanced(s, Fees["global_parameters_update"])
    BY <1>1, PaidBalanced
  <1>3. Applies(Genesis, "global_parameters_update", t)
    BY DEF global_parameters_update
  <1> HIDE DEF s
  <1>4. Balanced(t, Fees["global_parameters_update"])
    BY <1>2, ParametersPend
  <1> HIDE DEF t
  <1>5. QED
    BY <1>1, <1>3, <1>4, AppliesSound

\* withdraw_permission_create.
LEMMA PermissionCreateSound ==
  ASSUME Sound(db), NEW o \in PermissionOps, NEW wait \in Waits,
         withdraw_permission_create(o, db.time + wait)
  PROVE  Sound(db')
  <1> DEFINE start == db.time + wait
             s == Paid(o.from, "withdraw_permission_create")
             fee == Fees["withdraw_permission_create"]
             expiration == start + o.periods * o.period
             p == [from |-> o.from, to |-> o.to, limit |-> o.limit, period |-> o.period,
                   expiration |-> expiration,
                   next_period_start_time |-> start, claimed_this_period |-> 0,
                   start |-> start, window |-> 0, taken |-> 0]
             t == [s EXCEPT !.permissions = Append(@, p)]
  <1>1. /\ o.from \in Accounts /\ o.to \in Accounts /\ o.limit \in Nat /\ o.period \in Nat
        /\ o.periods \in Nat /\ wait \in Nat /\ "withdraw_permission_create" \in OperationNames
    BY OperationsAssumption DEF OperationNames
  <1>2. /\ Balanced(s, fee) /\ s.time = db.time /\ db.time \in Nat /\ DOMAIN s = DbFields
        /\ Agreed(s.permissions, s.time)
    BY <1>1, PaidBalanced, BalancedTypes
  <1>3. Applies(o.from, "withdraw_permission_create", t)
    BY DEF withdraw_permission_create
  <1>4. o.period >= BlockInterval /\ BlockInterval \in Nat \ {0}
    BY TreasuryAssumption DEF withdraw_permission_create, Permits
  <1>5. o.period \in Nat \ {0} /\ start \in Int
    BY <1>1, <1>2, <1>4
  <1>6. expiration \in Int
    <2>1. o.periods * o.period \in Nat
      BY <1>1, Products
    <2> HIDE DEF start
    <2>2. QED
      BY <1>5, <2>1
  <1> HIDE DEF start, expiration, s, fee
  <1>7. /\ DOMAIN p = PermissionFields /\ p.from = o.from /\ p.to = o.to /\ p.limit = o.limit
        /\ p.period = o.period /\ p.expiration = expiration /\ p.next_period_start_time = start
        /\ p.claimed_this_period = 0 /\ p.start = start /\ p.window = 0 /\ p.taken = 0
    BY DEF PermissionFields
  <1> HIDE DEF p
  <1>8. PermissionInv(p, s.time)
    BY <1>1, <1>5, <1>6, <1>7 DEF PermissionInv
  <1>9. Agreed(Append(s.permissions, p), s.time)
    BY <1>2, <1>8, AgreedAppend
  <1>10. t = [s EXCEPT !.permissions = Append(s.permissions, p)]
    OBVIOUS
  <1>11. Balanced(t, fee)
    BY <1>2, <1>9, <1>10, PermissionsReplaced
  <1> HIDE DEF t
  <1>12. QED
    BY <1>1, <1>3, <1>11, AppliesSound DEF fee

\* A permission of the state.
LEMMA PermissionIs ==
  ASSUME Sound(db), NEW i \in Permissions
  PROVE  /\ i \in DOMAIN db.permissions /\ PermissionInv(db.permissions[i], db.time)
         /\ db.permissions[i].from \in Accounts /\ db.permissions[i].to \in Accounts
         /\ db.time \in Nat
  <1>1. Agreed(db.permissions, db.time) /\ db.time \in Nat
    BY BalancedTypes DEF Sound
  <1>2. i \in DOMAIN db.permissions /\ db.permissions[i] # None
    BY DEF Permissions
  <1>3. PermissionInv(db.permissions[i], db.time)
    BY <1>1, <1>2 DEF Agreed
  <1>4. QED
    BY <1>1, <1>2, <1>3 DEF PermissionInv

\* The fee for a change of one permission.
LEMMA PermissionChanged ==
  ASSUME Sound(db), NEW i \in Permissions, NEW payer \in Accounts, NEW op \in OperationNames,
         NEW p, p = None \/ PermissionInv(p, db.time)
  PROVE  Balanced([Paid(payer, op) EXCEPT !.permissions[i] = p], Fees[op])
  <1> DEFINE s == Paid(payer, op)
             x == [s.permissions EXCEPT ![i] = p]
  <1>1. /\ Balanced(s, Fees[op]) /\ s.time = db.time /\ s.permissions = db.permissions
        /\ DOMAIN s = DbFields /\ Agreed(s.permissions, s.time)
    BY PaidBalanced, BalancedTypes
  <1>2. i \in DOMAIN s.permissions
    BY <1>1, PermissionIs
  <1> HIDE DEF s
  <1>3. Agreed(x, s.time)
    BY <1>1, <1>2, AgreedChange
  <1>4. [s EXCEPT !.permissions[i] = p] = [s EXCEPT !.permissions = x]
    OBVIOUS
  <1> HIDE DEF x
  <1>5. QED
    BY <1>1, <1>3, <1>4, PermissionsReplaced DEF s

\* withdraw_permission_update.
LEMMA PermissionUpdateSound ==
  ASSUME Sound(db), NEW i \in Permissions, NEW o \in PermissionOps, NEW wait \in Waits,
         withdraw_permission_update(i, o, db.time + wait)
  PROVE  Sound(db')
  <1> DEFINE start == db.time + wait
             op == "withdraw_permission_update"
             s == Paid(o.from, op)
             expiration == start + o.periods * o.period
             p == s.permissions[i]
             q == [p EXCEPT !.next_period_start_time = start, !.expiration = expiration,
                            !.limit = o.limit, !.period = o.period,
                            !.start = start, !.window = 0, !.taken = 0]
             t == [s EXCEPT !.permissions[i] = q]
  <1>1. /\ o.from \in Accounts /\ o.to \in Accounts /\ o.limit \in Nat /\ o.period \in Nat
        /\ o.periods \in Nat /\ wait \in Nat /\ op \in OperationNames
    BY OperationsAssumption DEF OperationNames
  <1>2. s.permissions = db.permissions
    BY <1>1, PaidBalanced
  <1>3. PermissionInv(p, db.time) /\ db.time \in Nat
    BY <1>2, PermissionIs
  <1>4. Applies(o.from, op, t)
    BY DEF withdraw_permission_update
  <1>5. o.period >= BlockInterval /\ BlockInterval \in Nat \ {0}
    BY TreasuryAssumption DEF withdraw_permission_update, Permits
  <1>6. o.period \in Nat \ {0} /\ start \in Int
    BY <1>1, <1>3, <1>5
  <1>7. expiration \in Int
    <2>1. o.periods * o.period \in Nat
      BY <1>1, Products
    <2> HIDE DEF start
    <2>2. QED
      BY <1>6, <2>1
  <1> HIDE DEF start, expiration, s, p
  <1>8. /\ DOMAIN q = PermissionFields /\ q.from = p.from /\ q.to = p.to /\ q.limit = o.limit
        /\ q.period = o.period /\ q.expiration = expiration /\ q.next_period_start_time = start
        /\ q.claimed_this_period = p.claimed_this_period
        /\ q.start = start /\ q.window = 0 /\ q.taken = 0
    <2>1. DOMAIN p = PermissionFields
      BY <1>3 DEF PermissionInv
    <2>2. QED
      BY <2>1 DEF PermissionFields
  <1> HIDE DEF q
  <1>9. p.from \in Accounts /\ p.to \in Accounts /\ p.claimed_this_period \in Nat
    BY <1>3 DEF PermissionInv
  <1>10. PermissionInv(q, db.time)
    BY <1>1, <1>6, <1>7, <1>8, <1>9 DEF PermissionInv
  <1>11. Balanced(t, Fees[op])
    BY <1>1, <1>10, PermissionChanged DEF s
  <1> HIDE DEF t
  <1>12. QED
    BY <1>1, <1>4, <1>11, AppliesSound

\* withdraw_permission_claim.
LEMMA PermissionClaimSound ==
  ASSUME Sound(db), NEW i \in Permissions, NEW amount \in Amounts,
         withdraw_permission_claim(i, amount)
  PROVE  Sound(db')
  <1> DEFINE p == db.permissions[i]
             op == "withdraw_permission_claim"
             fee == Fees[op]
             s == Paid(p.to, op)
             q == Claimed(s.permissions[i], s.time, amount)
             r == [s EXCEPT !.permissions[i] = q]
             u == adjust_balance(r, p.from, - amount)
             t == adjust_balance(u, p.to, amount)
  <1>1. amount \in Nat /\ amount \in Int /\ op \in OperationNames
    BY OperationsAssumption DEF OperationNames
  <1>2. PermissionInv(p, db.time) /\ p.from \in Accounts /\ p.to \in Accounts /\ db.time \in Nat
    BY PermissionIs
  <1>3. s.permissions = db.permissions /\ s.time = db.time /\ fee \in Int
    BY <1>1, <1>2, PaidBalanced
  <1>4. amount <= available_this_period(p, db.time) /\ Applies(p.to, op, t)
    BY DEF withdraw_permission_claim
  <1>5. PermissionInv(q, db.time)
    <2>1. q = Claimed(p, db.time, amount)
      BY <1>3
    <2> HIDE DEF q, p
    <2>2. QED
      BY <1>1, <1>2, <1>4, <2>1, ClaimInv
  <1> HIDE DEF q, p
  <1>6. Balanced(r, fee)
    BY <1>1, <1>2, <1>5, PermissionChanged
  <1> HIDE DEF r, fee
  <1>7. /\ fee + (- amount) + amount = fee /\ - amount \in Int /\ fee + (- amount) \in Int
    BY <1>1, <1>3, BackAndForth
  <1>8. Balanced(u, fee + (- amount))
    BY <1>2, <1>3, <1>6, <1>7, AdjustBalanced
  <1> HIDE DEF u
  <1>9. Balanced(t, fee + (- amount) + amount)
    BY <1>1, <1>2, <1>7, <1>8, AdjustBalanced
  <1> HIDE DEF t
  <1>10. QED
    BY <1>1, <1>2, <1>4, <1>7, <1>9, AppliesSound DEF fee

\* withdraw_permission_delete.
LEMMA PermissionDeleteSound ==
  ASSUME Sound(db), NEW i \in Permissions, withdraw_permission_delete(i)
  PROVE  Sound(db')
  <1> DEFINE from == db.permissions[i].from
             op == "withdraw_permission_delete"
             t == [Paid(from, op) EXCEPT !.permissions[i] = None]
  <1>1. from \in Accounts /\ op \in OperationNames
    BY PermissionIs DEF OperationNames
  <1>2. Applies(from, op, t)
    BY DEF withdraw_permission_delete
  <1>3. Balanced(t, Fees[op])
    BY <1>1, PermissionChanged
  <1> HIDE DEF t, from
  <1>4. QED
    BY <1>1, <1>2, <1>3, AppliesSound

----------------------------------------------------------------------------
(* Blocks and the budget.                                                  *)

\* Time passes.
LEMMA TimePasses ==
  ASSUME NEW s, NEW fee, Balanced(s, fee), NEW wait \in Nat
  PROVE  LET t == [s EXCEPT !.time = @ + wait, !.block_num = @ + 1]
         IN  Balanced(t, fee) /\ Keeps(s, t, {"time", "block_num"})
  <1> DEFINE t == [s EXCEPT !.time = @ + wait, !.block_num = @ + 1]
  <1>1. DOMAIN s = DbFields /\ s.time \in Nat
    BY BalancedTypes
  <1>2. Keeps(s, t, {"time", "block_num"}) /\ t.time = s.time + wait /\ t.block_num = s.block_num + 1
    BY <1>1 DEF Keeps, DbFields
  <1> HIDE DEF t
  <1>3. /\ t.balance = s.balance /\ t.vesting = s.vesting /\ DOMAIN t = DbFields
        /\ t.accumulated_income = s.accumulated_income /\ t.witness_budget = s.witness_budget
        /\ t.accumulated_fees = s.accumulated_fees /\ t.forfeited = s.forfeited
        /\ t.current_supply = s.current_supply /\ t.permissions = s.permissions
    BY <1>2 DEF Keeps, DbFields
  <1>4. t.time \in Nat /\ s.time <= t.time
    BY <1>1, <1>2
  <1>5. Clock(t)
    <2>1. s.last_budget_time <= s.time + BlockInterval /\ BlockInterval \in Nat
          /\ s.last_budget_time \in Nat /\ s.block_num \in Nat
      BY TreasuryAssumption DEF Balanced, StateInv, Clock
    <2>2. s.last_budget_time <= t.time + BlockInterval /\ t.block_num \in Nat
      BY <1>1, <1>2, <1>4, <2>1
    <2>3. QED
      BY <1>2, <1>4, <2>2 DEF Balanced, StateInv, Clock, Keeps, DbFields
  <1>6. Purses(t) /\ Owners(t)
    BY <1>2 DEF Balanced, StateInv, Purses, Owners, Keeps, DbFields
  <1>7. Vestings(t.vesting, t.time)
    BY <1>1, <1>3, <1>4, VestingAges DEF Balanced, StateInv, Vestings
  <1>8. Agreed(t.permissions, t.time)
    BY <1>1, <1>3, <1>4, PermissionAges DEF Balanced, StateInv, Agreed
  <1>9. StateInv(t)
    BY <1>3, <1>5, <1>6, <1>7, <1>8 DEF StateInv
  <1>10. Balanced(t, fee)
    BY <1>3, <1>9, HeldSame
  <1>11. QED
    BY <1>2, <1>10 DEF t

\* The smaller of two amounts.
LEMMA AtMostIs ==
  ASSUME NEW a \in Nat, NEW b \in Nat
  PROVE  AtMost(a, b) \in Nat /\ AtMost(a, b) <= a /\ AtMost(a, b) <= b
  BY DEF AtMost

\* update_signing_witness moves pay from the budget to the witness.
LEMMA WitnessPaid ==
  ASSUME NEW s, Balanced(s, 0), NEW w \in Witnesses
  PROVE  LET t == update_signing_witness(s, w)
         IN  Balanced(t, 0) /\ Keeps(s, t, {"witness_budget", "accumulated_income"})
  <1> DEFINE pay == AtMost(s.parameters.witness_pay_per_block, s.witness_budget)
             x == s.accumulated_income
             t == update_signing_witness(s, w)
  <1>1. DOMAIN s = DbFields /\ x \in [Witnesses -> Nat] /\ s.witness_budget \in Nat
    BY BalancedTypes DEF StateInv, Purses
  <1>2. pay \in Nat /\ pay <= s.witness_budget
    <2>1. s.parameters.witness_pay_per_block \in Nat
      BY ParametersAre DEF Balanced, StateInv, Clock
    <2>2. QED
      BY <1>1, <2>1, AtMostIs
  <1>3. t = [s EXCEPT !.witness_budget = @ - pay, !.accumulated_income[w] = @ + pay]
    BY DEF update_signing_witness
  <1> HIDE DEF t, pay
  <1>4. /\ Keeps(s, t, {"witness_budget", "accumulated_income"})
        /\ t.witness_budget = s.witness_budget - pay
        /\ t.accumulated_income = [x EXCEPT ![w] = @ + pay]
    BY <1>1, <1>3 DEF Keeps, DbFields
  <1>5. /\ t.balance = s.balance /\ t.vesting = s.vesting /\ DOMAIN t = DbFields
        /\ t.time = s.time /\ t.accumulated_fees = s.accumulated_fees /\ t.forfeited = s.forfeited
        /\ t.current_supply = s.current_supply /\ t.permissions = s.permissions
    BY <1>4 DEF Keeps, DbFields
  <1> DEFINE y == t.accumulated_income
  <1> HIDE DEF x
  <1>6. /\ y \in [Witnesses -> Nat] /\ y[w] = x[w] + pay
        /\ t.witness_budget \in Nat /\ x[w] \in Int
        /\ \A u \in Witnesses \ {w} : y[u] = x[u]
    BY <1>1, <1>2, <1>4
  <1>7. StateInv(t)
    <2>1. t.accumulated_income \in [Witnesses -> Nat] /\ t.witness_budget \in Nat
      BY <1>6
    <2>2. Purses(t)
      BY <1>4, <2>1 DEF Balanced, StateInv, Purses, Keeps, DbFields
    <2>3. Clock(t) /\ Owners(t)
      BY <1>4 DEF Balanced, StateInv, Clock, Owners, Keeps, DbFields
    <2>4. QED
      BY <1>5, <2>2, <2>3 DEF Balanced, StateInv
  <1> HIDE DEF y
  <1>8. Sum(y, Witnesses) = Sum(x, Witnesses) + (x[w] + pay) - x[w]
    <2>1. y[w] \in Int /\ \A u \in Witnesses : x[u] \in Int
      BY <1>1, <1>6
    <2>2. QED
      BY <1>6, <2>1, SumChange, TreasuryAssumption
  <1>9. Held(t) = Held(s) /\ Held(s) \in Int
    <2>1. /\ Held(t) = Held(s) + (Vested(s.vesting) - Vested(s.vesting))
                      + (Sum(y, Witnesses) - Sum(x, Witnesses))
                      + (t.witness_budget - s.witness_budget) + (s.accumulated_fees - s.accumulated_fees)
         /\ Held(s) \in Int /\ Vested(s.vesting) \in Int /\ Sum(x, Witnesses) \in Int
         /\ s.witness_budget \in Int /\ s.accumulated_fees \in Int
      BY <1>5, <1>7, HeldChange DEF Balanced, x, y
    <2>2. t.witness_budget = s.witness_budget - pay /\ x[w] \in Int /\ pay \in Int
      BY <1>2, <1>4, <1>6
    <2>3. QED
      BY <1>8, <2>1, <2>2
  <1>10. Balanced(t, 0)
    BY <1>5, <1>7, <1>9 DEF Balanced
  <1>11. QED
    BY <1>4, <1>10 DEF t

\* The maintenance interval ends: new parameters, and the time of the next one.
LEMMA MaintainedBalanced ==
  ASSUME NEW s, Balanced(s, 0)
  PROVE  LET t == Maintained(s)
         IN  Balanced(t, 0)
             /\ Keeps(s, t, {"parameters", "pending_parameters", "next_maintenance_time"})
  <1> DEFINE t == Maintained(s)
             p == IF s.pending_parameters # None THEN s.pending_parameters ELSE s.parameters
             n == IF s.block_num = 1
                  THEN (s.time \div p.maintenance_interval + 1) * p.maintenance_interval
                  ELSE s.next_maintenance_time + p.maintenance_interval
  <1>1. DOMAIN s = DbFields /\ s.time \in Nat /\ s.next_maintenance_time \in Nat
    BY BalancedTypes DEF StateInv, Clock
  <1>2. p \in {InitialParameters} \cup NewParameters
    BY DEF Balanced, StateInv, Clock
  <1>3. t = [s EXCEPT !.parameters = p, !.pending_parameters = None, !.next_maintenance_time = n]
    BY DEF Maintained
  <1> HIDE DEF p, t
  <1>4. p.maintenance_interval \in Nat \ {0}
    BY <1>2, ParametersAre
  <1>5. n \in Nat
    <2> DEFINE interval == p.maintenance_interval
               q == s.time \div interval
    <2> HIDE DEF interval
    <2>1. interval \in Nat \ {0}
      BY <1>4 DEF interval
    <2>2. q \in Nat
      BY <1>1, <2>1, Quotients
    <2> HIDE DEF q
    <2>3. (q + 1) * interval \in Nat
      BY <2>1, <2>2, Products
    <2>4. s.next_maintenance_time + interval \in Nat
      BY <1>1, <2>1
    <2>5. QED
      BY <2>3, <2>4 DEF q, interval
  <1> HIDE DEF n
  <1>6. /\ Keeps(s, t, {"parameters", "pending_parameters", "next_maintenance_time"})
        /\ t.parameters = p /\ t.pending_parameters = None /\ t.next_maintenance_time = n
    BY <1>1, <1>3 DEF Keeps, DbFields
  <1>7. /\ t.balance = s.balance /\ t.vesting = s.vesting /\ DOMAIN t = DbFields
        /\ t.accumulated_income = s.accumulated_income /\ t.witness_budget = s.witness_budget
        /\ t.accumulated_fees = s.accumulated_fees /\ t.forfeited = s.forfeited
        /\ t.current_supply = s.current_supply /\ t.permissions = s.permissions /\ t.time = s.time
    BY <1>6 DEF Keeps, DbFields
  <1>8. Clock(t)
    BY <1>2, <1>5, <1>6 DEF Balanced, StateInv, Clock, Keeps, DbFields
  <1>9. Purses(t) /\ Owners(t)
    BY <1>6 DEF Balanced, StateInv, Purses, Owners, Keeps, DbFields
  <1>10. StateInv(t)
    BY <1>7, <1>8, <1>9 DEF Balanced, StateInv
  <1>11. Balanced(t, 0)
    BY <1>7, <1>10, HeldSame
  <1>12. QED
    BY <1>6, <1>11 DEF t

\* One worker of the ranking is paid, while anything is left.
PayNext(paid, i) == IF paid.budget > 0 THEN pay_worker(paid, i) ELSE paid

\* The recursion of pay_workers over the first places of the ranking, and its solution.
PayStep(ranking, base, g, T) ==
    IF T = {} THEN base ELSE LET m == Max(T) IN PayNext(g[T \ {m}], ranking[m])
Payments(ranking, base, g) ==
    g = [T \in SUBSET DOMAIN ranking |-> PayStep(ranking, base, g, T)]

\* pay_workers follows the recursion.
LEMMA PayUnfold ==
  ASSUME NEW s, NEW ranking, NEW budget
  PROVE  pay_workers(s, ranking, budget) =
           (CHOOSE g : Payments(ranking, [s |-> s, budget |-> budget], g))[DOMAIN ranking]
  BY DEF pay_workers, FoldLeft, MapThenFoldSet, Payments, PayStep, PayNext

\* The recursion has a solution.
LEMMA PaymentsExist ==
  ASSUME NEW ranking, NEW base, IsSeq(ranking)
  PROVE  \E g : Payments(ranking, base, g)
  <1> DEFINE S == DOMAIN ranking
             Solves(g, n) == \A T \in SUBSET S : Cardinality(T) <= n => g[T] = PayStep(ranking, base, g, T)
             N == {n \in Nat : \E g : Solves(g, n)}
  <1>1. IsFiniteSet(S) /\ Len(ranking) \in Nat /\ S = 1 .. Len(ranking)
    BY FiniteDomain
  <1> HIDE DEF S
  <1>2. ASSUME NEW T \in SUBSET S
        PROVE  /\ Cardinality(T) \in Nat
               /\ T # {} => /\ Cardinality(T) > 0 /\ Max(T) \in T
                            /\ T \ {Max(T)} \in SUBSET S /\ Cardinality(T \ {Max(T)}) = Cardinality(T) - 1
    <2>1. IsFiniteSet(T) /\ Cardinality(T) \in Nat
      BY <1>1, FS_Subset, FS_CardinalityType
    <2>2. T # {} => Cardinality(T) # 0
      BY <2>1, FS_EmptySet
    <2>3. T # {} => Max(T) \in T
      <3>1. T \subseteq 0 .. Len(ranking)
        BY <1>1
      <3>2. QED
        BY <1>1, <3>1, MaxIn
    <2>4. \A x \in T : Cardinality(T \ {x}) = Cardinality(T) - 1
      BY <2>1, FS_RemoveElement
    <2>5. QED
      BY <2>1, <2>2, <2>3, <2>4
  <1>3. 0 \in N
    <2> DEFINE g == [T \in SUBSET S |-> base]
    <2>1. ASSUME NEW T \in SUBSET S, Cardinality(T) <= 0
          PROVE  g[T] = PayStep(ranking, base, g, T)
      <3>1. T = {}
        <4>1. Cardinality(T) \in Nat
          BY <1>2
        <4>2. T # {} => Cardinality(T) > 0
          BY <1>2
        <4>3. QED
          BY <2>1, <4>1, <4>2
      <3>2. QED
        BY <3>1 DEF PayStep
    <2>2. QED
      BY <2>1
  <1>4. ASSUME NEW n \in Nat, n \in N
        PROVE  n + 1 \in N
    <2>1. PICK g : Solves(g, n)
      BY <1>4
    <2> DEFINE h == [T \in SUBSET S |->
                       IF Cardinality(T) = n + 1 THEN PayStep(ranking, base, g, T) ELSE g[T]]
    <2>2. ASSUME NEW T \in SUBSET S, Cardinality(T) <= n + 1
          PROVE  h[T] = PayStep(ranking, base, h, T)
      <3>1. PayStep(ranking, base, h, T) = PayStep(ranking, base, g, T)
        <4>1. CASE T = {}
          BY <4>1 DEF PayStep
        <4>2. CASE T # {}
          <5> DEFINE x == Max(T)
          <5>1. T \ {x} \in SUBSET S /\ Cardinality(T \ {x}) # n + 1
            BY <1>2, <2>2, <4>2
          <5> HIDE DEF x
          <5>2. h[T \ {x}] = g[T \ {x}]
            BY <5>1
          <5> HIDE DEF h
          <5>3. QED
            BY <4>2, <5>2 DEF PayStep, x
        <4>3. QED
          BY <4>1, <4>2
      <3>2. Cardinality(T) # n + 1 => h[T] = g[T] /\ g[T] = PayStep(ranking, base, g, T)
        <4>1. Cardinality(T) \in Nat
          BY <1>2
        <4>2. Cardinality(T) # n + 1 => Cardinality(T) <= n
          BY <2>2, <4>1
        <4>3. QED
          BY <2>1, <4>2
      <3>3. Cardinality(T) = n + 1 => h[T] = PayStep(ranking, base, g, T)
        OBVIOUS
      <3>4. QED
        BY <3>1, <3>2, <3>3
    <2> HIDE DEF h
    <2>3. QED
      BY <2>2
  <1> HIDE DEF N
  <1>5. Nat \subseteq N /\ Cardinality(S) \in Nat
    BY <1>1, <1>3, <1>4, NatSetInduction, FS_CardinalityType
  <1>6. PICK g : Solves(g, Cardinality(S))
    BY <1>5 DEF N
  <1> DEFINE h == [T \in SUBSET S |-> g[T]]
  <1>7. ASSUME NEW T \in SUBSET S
        PROVE  h[T] = PayStep(ranking, base, h, T)
    <2>1. Cardinality(T) <= Cardinality(S)
      BY <1>1, FS_Subset
    <2>2. g[T] = PayStep(ranking, base, g, T)
      BY <1>6, <2>1
    <2>3. PayStep(ranking, base, h, T) = PayStep(ranking, base, g, T)
      <3>1. T # {} => h[T \ {Max(T)}] = g[T \ {Max(T)}]
        BY <1>2
      <3> HIDE DEF h
      <3>2. QED
        BY <3>1 DEF PayStep
    <2>4. QED
      BY <2>2, <2>3
  <1>8. Payments(ranking, base, h)
    BY <1>7 DEF Payments, S
  <1>9. QED
    BY <1>8

\* What the workers got so far: the supply exceeds what is held by what is left.
PaidInv(s, budget, paid) ==
    /\ paid.budget \in Nat /\ paid.budget <= budget
    /\ Balanced(paid.s, budget - paid.budget) /\ paid.s.current_supply <= s.current_supply
    /\ Keeps(s, paid.s, {"current_supply", "vesting"})

\* pay_worker pays from the budget, into a vesting balance or out of the supply.
LEMMA PayWorkerInv ==
  ASSUME NEW s, Balanced(s, 0), NEW budget \in Nat, NEW paid, PaidInv(s, budget, paid),
         NEW i \in DOMAIN s.workers
  PROVE  PaidInv(s, budget, pay_worker(paid, i))
  <1> DEFINE r == paid.s
             w == r.workers[i]
             dt == PendingTime(r) - r.last_budget_time
             requested == (w.daily_pay * dt) \div Day
             pay == AtMost(paid.budget, requested)
             burned == [r EXCEPT !.current_supply = @ - pay]
             v == deposit(r.vesting[w.vb], r.time, pay)
             vested == [r EXCEPT !.vesting[w.vb] = v]
             t == pay_worker(paid, i)
             fee == budget - paid.budget
  <1>1. /\ paid.budget \in Nat /\ paid.budget <= budget /\ Balanced(r, fee)
        /\ r.current_supply <= s.current_supply /\ Keeps(s, r, {"current_supply", "vesting"})
    BY DEF PaidInv
  <1>2. /\ t.s = IF w.vb = None THEN burned ELSE vested
        /\ t.budget = paid.budget - pay
    BY DEF pay_worker
  <1> HIDE DEF t
  <1>3. /\ StateInv(r) /\ DOMAIN r = DbFields /\ r.time \in Nat /\ r.current_supply \in Int
        /\ Vestings(r.vesting, r.time) /\ s.current_supply \in Int
    BY <1>1, BalancedTypes
  <1>4. w.daily_pay \in Nat /\ (w.vb = None \/ w.vb \in DOMAIN r.vesting)
    <2>1. r.workers = s.workers
      BY <1>1 DEF Keeps, DbFields
    <2>2. QED
      BY <1>3, <2>1 DEF StateInv, Owners
  <1>5. pay \in Nat /\ pay <= paid.budget
    <2>1. dt \in Nat
      BY <1>3, TreasuryAssumption DEF StateInv, Clock, PendingTime
    <2> DEFINE earned == w.daily_pay * dt
    <2>2. earned \in Nat
      <3> HIDE DEF dt, w
      <3> QED
        BY <1>4, <2>1, Products
    <2> HIDE DEF earned
    <2>3. earned \div Day \in Nat
      BY <2>2, Quotients, TreasuryAssumption
    <2>4. requested \in Nat
      BY <2>3 DEF earned
    <2> HIDE DEF requested
    <2>5. QED
      BY <1>1, <2>4, AtMostIs
  <1> HIDE DEF pay
  <1>6. fee \in Int /\ fee + pay = budget - t.budget /\ t.budget \in Nat /\ t.budget <= budget
    BY <1>1, <1>2, <1>5
  <1> HIDE DEF fee, r
  <1>7. CASE w.vb = None
    <2>1. t.s = burned
      BY <1>2, <1>7
    <2>2. Balanced(burned, fee + pay)
      BY <1>1, <1>5, <1>6, BurnBalanced
    <2>3. /\ Keeps(r, burned, {"current_supply", "vesting"})
          /\ burned.current_supply = r.current_supply - pay
      BY <1>3 DEF Keeps, DbFields
    <2> HIDE DEF burned
    <2>4. Keeps(s, burned, {"current_supply", "vesting"})
      BY <1>1, <2>3 DEF Keeps
    <2>5. burned.current_supply <= s.current_supply
      BY <1>1, <1>3, <1>5, <2>3
    <2>6. QED
      BY <1>6, <2>1, <2>2, <2>4, <2>5 DEF PaidInv, t
  <1>8. CASE w.vb # None
    <2> DEFINE u == r.vesting[w.vb]
    <2>1. t.s = vested
      BY <1>2, <1>8
    <2>2. w.vb \in DOMAIN r.vesting /\ VestingInv(u, r.time)
      BY <1>3, <1>4, <1>8 DEF Vestings
    <2> HIDE DEF w
    <2>3. VestingInv(v, r.time) /\ v.balance = u.balance + pay
      BY <1>3, <1>5, <2>2, DepositInv
    <2>4. u.balance \in Int
      BY <2>2 DEF VestingInv
    <2> HIDE DEF v
    <2>5. Balanced(vested, fee + (v.balance - u.balance)) /\ Keeps(r, vested, {"vesting"})
      BY <1>1, <1>6, <2>2, <2>3, VestingReplaced
    <2>6. v.balance - u.balance = pay
      BY <1>5, <2>3, <2>4
    <2> HIDE DEF vested, u
    <2>7. Keeps(s, vested, {"current_supply", "vesting"}) /\ vested.current_supply = r.current_supply
      BY <1>1, <2>5 DEF Keeps, DbFields
    <2>8. QED
      BY <1>1, <1>6, <2>1, <2>5, <2>6, <2>7 DEF PaidInv, t
  <1>9. QED
    BY <1>7, <1>8

\* pay_workers: the ranking is a sequence of workers.
LEMMA PayWorkersInv ==
  ASSUME NEW s, Balanced(s, 0), NEW budget \in Nat, NEW ranking, IsSeq(ranking),
         \A m \in DOMAIN ranking : ranking[m] \in DOMAIN s.workers
  PROVE  PaidInv(s, budget, pay_workers(s, ranking, budget))
  <1> DEFINE S == DOMAIN ranking
             base == [s |-> s, budget |-> budget]
             g == CHOOSE g : Payments(ranking, base, g)
             G == {T \in SUBSET S : PaidInv(s, budget, g[T])}
  <1>1. Payments(ranking, base, g)
    BY PaymentsExist
  <1>2. pay_workers(s, ranking, budget) = g[S]
    BY PayUnfold
  <1>3. PaidInv(s, budget, base)
    <2>1. base.s = s /\ base.budget = budget /\ budget - budget = 0
      OBVIOUS
    <2> HIDE DEF base
    <2>2. Keeps(s, s, {"current_supply", "vesting"}) /\ s.current_supply <= s.current_supply
      BY BalancedTypes DEF Keeps
    <2>3. QED
      BY <2>1, <2>2 DEF PaidInv
  <1> HIDE DEF g, base
  <1>4. \A T \in SUBSET S : g[T] = PayStep(ranking, base, g, T)
    BY <1>1 DEF Payments
  <1>5. IsFiniteSet(S) /\ Len(ranking) \in Nat /\ S = 1 .. Len(ranking)
    BY FiniteDomain
  <1>6. ASSUME NEW T \in SUBSET S, \A x \in T : T \ {x} \in G
        PROVE  T \in G
    <2>1. CASE T = {}
      BY <1>3, <1>4, <2>1 DEF PayStep
    <2>2. CASE T # {}
      <3> DEFINE m == Max(T)
                 p == g[T \ {m}]
      <3>1. m \in T
        <4>1. T \subseteq 0 .. Len(ranking)
          BY <1>5
        <4>2. QED
          BY <1>5, <2>2, <4>1, MaxIn
      <3>2. g[T] = PayNext(p, ranking[m])
        BY <1>4, <2>2 DEF PayStep
      <3> HIDE DEF m
      <3>3. PaidInv(s, budget, p) /\ ranking[m] \in DOMAIN s.workers
        BY <1>6, <3>1
      <3> HIDE DEF p
      <3>4. PaidInv(s, budget, PayNext(p, ranking[m]))
        BY <3>3, PayWorkerInv DEF PayNext
      <3>5. QED
        BY <3>2, <3>4
    <2>3. QED
      BY <2>1, <2>2
  <1>7. \A T \in SUBSET S : T \in G
    <2> HIDE DEF G
    <2> QED
      BY <1>5, <1>6, SubsetInduction
  <1>8. PaidInv(s, budget, g[S])
    BY <1>7
  <1>9. QED
    BY <1>2, <1>8

\* A quotient that is rounded up.
LEMMA CeilingIs ==
  ASSUME NEW a \in Nat, NEW b \in Nat \ {0}
  PROVE  Ceiling(a, b) \in Nat
  <1>1. a + b - 1 \in Int /\ a + b - 1 >= 0
    OBVIOUS
  <1>2. (a + b - 1) \div b \in Nat
    BY <1>1, Quotients
  <1>3. QED
    BY <1>2 DEF Ceiling

\* get_max_budget is no more than the reserve.
LEMMA MaxBudgetIs ==
  ASSUME NEW s, Balanced(s, 0)
  PROVE  /\ get_max_budget(s) \in Nat
         /\ get_max_budget(s) <= MaxSupply - s.current_supply + s.accumulated_fees
  <1> DEFINE reserve == MaxSupply - s.current_supply + s.accumulated_fees
             dt == PendingTime(s) - s.last_budget_time
  <1>1. reserve \in Nat
    BY BalancedTypes, MaxSupplyIs DEF Balanced, StateInv, Purses
  <1>2. dt \in Int
    BY TreasuryAssumption DEF Balanced, StateInv, Clock, PendingTime
  <1>3. CASE s.last_budget_time = 0 \/ dt <= 0
    <2>1. get_max_budget(s) = 0
      BY <1>3 DEF get_max_budget
    <2>2. QED
      BY <1>1, <2>1
  <1>4. CASE ~ (s.last_budget_time = 0 \/ dt <= 0)
    <2>1. get_max_budget(s) = AtMost(Ceiling(reserve * dt * Rate, Scale), reserve)
      BY <1>4 DEF get_max_budget
    <2>2. dt \in Nat
      BY <1>2, <1>4
    <2> HIDE DEF dt, reserve
    <2> DEFINE x == reserve * dt
               y == x * Rate
    <2>3. x \in Nat
      BY <1>1, <2>2, Products
    <2> HIDE DEF x
    <2>4. y \in Nat /\ Scale \in Nat \ {0}
      BY <2>3, Products, TreasuryAssumption
    <2> HIDE DEF y
    <2>5. Ceiling(y, Scale) \in Nat
      BY <2>4, CeilingIs
    <2>6. AtMost(Ceiling(y, Scale), reserve) \in Nat /\ AtMost(Ceiling(y, Scale), reserve) <= reserve
      BY <1>1, <2>5, AtMostIs
    <2>7. QED
      BY <2>1, <2>6 DEF x, y, reserve
  <1>5. QED
    BY <1>3, <1>4

\* process_budget: what is issued comes out of the reserve.
LEMMA BudgetSound ==
  ASSUME NEW s, Balanced(s, 0), NEW ranking, IsSeq(ranking),
         \A m \in DOMAIN ranking : ranking[m] \in DOMAIN s.workers,
         s.next_maintenance_time > PendingTime(s)
  PROVE  Balanced(process_budget(s, ranking), 0) /\ process_budget(s, ranking).balance = s.balance
  <1> DEFINE ttm == s.next_maintenance_time - PendingTime(s)
             available == get_max_budget(s)
             wb == AtMost(s.parameters.witness_pay_per_block * Ceiling(ttm, BlockInterval), available)
             kb == AtMost((s.parameters.worker_budget_per_day * ttm) \div Day, available - wb)
             paid == pay_workers(s, ranking, kb)
             p == paid.s
             supply == p.current_supply + Issued(wb, kb, paid.budget) - s.accumulated_fees
             t == process_budget(s, ranking)
  <1>1. /\ s.parameters.witness_pay_per_block \in Nat /\ s.parameters.worker_budget_per_day \in Nat
        /\ BlockInterval \in Nat \ {0} /\ Day \in Nat \ {0}
    BY ParametersAre, TreasuryAssumption DEF Balanced, StateInv, Clock
  <1>2. ttm \in Nat /\ PendingTime(s) \in Nat /\ PendingTime(s) = s.time + BlockInterval
    BY TreasuryAssumption DEF Balanced, StateInv, Clock, PendingTime
  <1>3. /\ available \in Nat /\ available <= MaxSupply - s.current_supply + s.accumulated_fees
        /\ s.accumulated_fees \in Nat /\ s.current_supply \in Int /\ s.witness_budget \in Nat
        /\ MaxSupply \in Int /\ DOMAIN s = DbFields
    BY MaxBudgetIs, MaxSupplyIs, BalancedTypes DEF StateInv, Purses
  <1> HIDE DEF ttm, available
  <1>4. wb \in Nat /\ wb <= available
    <2> DEFINE x == s.parameters.witness_pay_per_block * Ceiling(ttm, BlockInterval)
    <2>1. Ceiling(ttm, BlockInterval) \in Nat
      BY <1>1, <1>2, CeilingIs
    <2>2. x \in Nat
      BY <1>1, <2>1, Products
    <2> HIDE DEF x
    <2>3. AtMost(x, available) \in Nat /\ AtMost(x, available) <= available
      BY <1>3, <2>2, AtMostIs
    <2>4. QED
      BY <2>3 DEF x
  <1> HIDE DEF wb
  <1>5. kb \in Nat /\ kb <= available - wb
    <2> DEFINE x == s.parameters.worker_budget_per_day * ttm
    <2>1. x \in Nat
      BY <1>1, <1>2, Products
    <2> HIDE DEF x
    <2>2. x \div Day \in Nat
      BY <1>1, <2>1, Quotients
    <2>3. available - wb \in Nat
      BY <1>3, <1>4
    <2>4. AtMost(x \div Day, available - wb) \in Nat
          /\ AtMost(x \div Day, available - wb) <= available - wb
      BY <2>2, <2>3, AtMostIs
    <2>5. QED
      BY <2>4 DEF x
  <1>6. t = [p EXCEPT !.current_supply = supply, !.accumulated_fees = 0, !.witness_budget = wb,
                      !.last_budget_time = PendingTime(s), !.forfeited = @ + s.witness_budget]
    BY DEF process_budget, ttm, available, wb
  <1> HIDE DEF kb
  <1>7. PaidInv(s, kb, paid)
    BY <1>5, PayWorkersInv
  <1> HIDE DEF paid, t
  <1>8. /\ paid.budget \in Nat /\ paid.budget <= kb /\ Balanced(p, kb - paid.budget)
        /\ p.current_supply <= s.current_supply /\ Keeps(s, p, {"current_supply", "vesting"})
    BY <1>7 DEF PaidInv
  <1>9. /\ StateInv(p) /\ DOMAIN p = DbFields /\ p.current_supply \in Int /\ p.forfeited \in Nat
        /\ Held(p) \in Int
    BY <1>8, BalancedTypes
  <1>10. /\ p.accumulated_fees = s.accumulated_fees /\ p.witness_budget = s.witness_budget
         /\ p.time = s.time /\ p.balance = s.balance
    BY <1>8 DEF Keeps, DbFields
  <1>11. supply \in Int /\ supply = p.current_supply + wb + kb - paid.budget - s.accumulated_fees
    BY <1>3, <1>4, <1>5, <1>8, <1>9 DEF Issued
  <1> HIDE DEF p, supply
  <1>12. /\ Keeps(p, t, {"current_supply", "accumulated_fees", "witness_budget",
                         "last_budget_time", "forfeited"})
         /\ t.current_supply = supply /\ t.accumulated_fees = 0 /\ t.witness_budget = wb
         /\ t.last_budget_time = PendingTime(s) /\ t.forfeited = p.forfeited + s.witness_budget
    BY <1>6, <1>9 DEF Keeps, DbFields
  <1>13. /\ t.balance = p.balance /\ t.vesting = p.vesting /\ t.time = p.time
         /\ t.accumulated_income = p.accumulated_income /\ t.permissions = p.permissions
         /\ DOMAIN t = DbFields
    BY <1>12 DEF Keeps, DbFields
  <1>14. StateInv(t)
    <2>1. t.forfeited \in Nat
      BY <1>3, <1>9, <1>12
    <2>2. Purses(t)
      BY <1>4, <1>9, <1>11, <1>12, <2>1 DEF StateInv, Purses, Keeps, DbFields
    <2>3. Owners(t)
      BY <1>9, <1>12 DEF StateInv, Owners, Keeps, DbFields
    <2>4. t.last_budget_time \in Nat /\ t.last_budget_time <= t.time + BlockInterval
      BY <1>2, <1>10, <1>12, <1>13
    <2>5. Clock(t)
      BY <1>9, <1>12, <2>4 DEF StateInv, Clock, Keeps, DbFields
    <2>6. QED
      BY <1>9, <1>13, <2>2, <2>3, <2>5 DEF StateInv
  <1>15. Held(t) = Held(p) + (wb - s.witness_budget) + (0 - s.accumulated_fees)
    <2>1. /\ Held(t) = Held(p) + (Vested(p.vesting) - Vested(p.vesting))
                      + (Sum(p.accumulated_income, Witnesses) - Sum(p.accumulated_income, Witnesses))
                      + (wb - s.witness_budget) + (0 - s.accumulated_fees)
         /\ Vested(p.vesting) \in Int /\ Sum(p.accumulated_income, Witnesses) \in Int
      BY <1>9, <1>10, <1>12, <1>13, <1>14, HeldChange
    <2>2. QED
      BY <1>3, <1>4, <1>9, <2>1
  <1>16. Held(p) + p.forfeited = p.current_supply + (kb - paid.budget)
    BY <1>8 DEF Balanced
  <1>17. Held(t) + t.forfeited = t.current_supply + 0
    BY <1>3, <1>4, <1>5, <1>8, <1>9, <1>11, <1>12, <1>15, <1>16
  <1>18. t.current_supply <= MaxSupply
    BY <1>3, <1>4, <1>5, <1>8, <1>9, <1>11, <1>12
  <1>19. QED
    BY <1>10, <1>13, <1>14, <1>17, <1>18 DEF Balanced, t

\* A ranking is a sequence of active workers.
LEMMA RankingIs ==
  ASSUME NEW s, NEW ranking \in SetToAllKPermutations(Ranked(s)), IsSeq(s.workers)
  PROVE  IsSeq(ranking) /\ \A m \in DOMAIN ranking : ranking[m] \in DOMAIN s.workers
  <1>1. PICK R \in SUBSET Ranked(s) : ranking \in SetToSeqs(R)
    BY DEF SetToAllKPermutations
  <1>2. ranking \in [1 .. Cardinality(R) -> R]
    BY <1>1 DEF SetToSeqs
  <1>3. R \subseteq DOMAIN s.workers
    BY DEF Ranked
  <1>4. IsFiniteSet(R)
    BY <1>3, FiniteDomain, FS_Subset
  <1>5. Cardinality(R) \in Nat
    BY <1>4, FS_CardinalityType
  <1>6. ranking \in Seq(R)
    BY <1>2, <1>5
  <1>7. QED
    BY <1>2, <1>3, <1>6, SeqOfItself

\* apply_block.
LEMMA BlockSound ==
  ASSUME Sound(db), NEW w \in Witnesses, NEW missed \in 0 .. MaxMissed, apply_block(w, missed)
  PROVE  Sound(db')
  <1> DEFINE wait == (missed + 1) * BlockInterval
             later == [db EXCEPT !.time = @ + wait, !.block_num = @ + 1]
             signed == update_signing_witness(later, w)
             next == Maintained(signed)
  <1>1. wait \in Nat
    <2>1. missed + 1 \in Nat /\ BlockInterval \in Nat
      BY TreasuryAssumption
    <2>2. QED
      BY <2>1, Products
  <1>2. \/ db' = update_withdraw_permissions(signed)
        \/ /\ next.next_maintenance_time > PendingTime(next)
           /\ \E ranking \in SetToAllKPermutations(Ranked(next)) :
                db' = update_withdraw_permissions(process_budget(next, ranking))
    BY DEF apply_block
  <1> HIDE DEF wait
  <1>3. Balanced(db, 0) /\ \A a \in Accounts : db.balance[a] >= 0
    BY DEF Sound
  <1>4. Balanced(later, 0) /\ later.balance = db.balance
    <2>1. Balanced(later, 0) /\ Keeps(db, later, {"time", "block_num"})
      BY <1>1, <1>3, TimePasses
    <2> HIDE DEF later
    <2>2. QED
      BY <2>1 DEF Keeps, DbFields
  <1> HIDE DEF later
  <1>5. Balanced(signed, 0) /\ signed.balance = db.balance
    <2>1. Balanced(signed, 0) /\ Keeps(later, signed, {"witness_budget", "accumulated_income"})
      BY <1>4, WitnessPaid
    <2> HIDE DEF signed
    <2>2. QED
      BY <1>4, <2>1 DEF Keeps, DbFields
  <1> HIDE DEF signed
  <1>6. Balanced(next, 0) /\ next.balance = db.balance
    <2>1. /\ Balanced(next, 0)
          /\ Keeps(signed, next, {"parameters", "pending_parameters", "next_maintenance_time"})
      BY <1>5, MaintainedBalanced
    <2> HIDE DEF next
    <2>2. QED
      BY <1>5, <2>1 DEF Keeps, DbFields
  <1> HIDE DEF next
  <1>7. ASSUME NEW s, Balanced(s, 0), s.balance = db.balance, db' = update_withdraw_permissions(s)
        PROVE  Sound(db')
    <2>1. Balanced(db', 0) /\ Keeps(s, db', {"permissions"})
      BY <1>7, ExpiredDropped
    <2>2. db'.balance = s.balance
      BY <2>1 DEF Keeps, DbFields
    <2>3. QED
      BY <1>3, <1>7, <2>1, <2>2 DEF Sound
  <1>8. CASE db' = update_withdraw_permissions(signed)
    BY <1>5, <1>7, <1>8
  <1>9. ASSUME NEW ranking \in SetToAllKPermutations(Ranked(next)),
               next.next_maintenance_time > PendingTime(next),
               db' = update_withdraw_permissions(process_budget(next, ranking))
        PROVE  Sound(db')
    <2> DEFINE s == process_budget(next, ranking)
    <2>1. IsSeq(ranking) /\ \A m \in DOMAIN ranking : ranking[m] \in DOMAIN next.workers
      BY <1>6, RankingIs DEF Balanced, StateInv, Owners
    <2>2. Balanced(s, 0) /\ s.balance = next.balance
      BY <1>6, <1>9, <2>1, BudgetSound
    <2> HIDE DEF s
    <2>3. QED
      BY <1>6, <1>7, <1>9, <2>2 DEF s
  <1>10. QED
    BY <1>2, <1>8, <1>9

\* init_genesis.
LEMMA GenesisSound ==
  ASSUME Init
  PROVE  Sound(db)
  <1>1. /\ DOMAIN db = DbFields /\ db.balance = Deposits
        /\ db.lifetime_fees_paid = [a \in Accounts |-> 0]
        /\ db.cashback_vb = [a \in Accounts |-> None]
        /\ db.vesting = <<>> /\ db.workers = <<>> /\ db.permissions = <<>>
        /\ db.accumulated_income = [w \in Witnesses |-> 0]
        /\ db.current_supply = MaxSupply /\ db.accumulated_fees = Leftovers
        /\ db.witness_budget = 0 /\ db.last_budget_time = 0 /\ db.next_maintenance_time = 0
        /\ db.time = StartTime /\ db.block_num = 0
        /\ db.parameters = InitialParameters /\ db.pending_parameters = None
        /\ db.forfeited = 0
    BY DEF Init, DbFields
  <1>2. IsSeq(<<>>) /\ DOMAIN <<>> = {}
    BY DEF IsSeq
  <1>3. Deposits \in [Accounts -> Nat] /\ Leftovers \in Nat /\ StartTime \in Nat /\ BlockInterval \in Nat
    BY TreasuryAssumption
  <1>4. Vestings(db.vesting, db.time) /\ Agreed(db.permissions, db.time) /\ Owners(db)
    BY <1>1, <1>2 DEF Vestings, Agreed, Owners
  <1>5. Clock(db) /\ Purses(db)
    BY <1>1, <1>3, MaxSupplyIs DEF Clock, Purses
  <1>6. StateInv(db)
    BY <1>1, <1>4, <1>5 DEF StateInv
  <1>7. Held(db) = MaxSupply
    <2>1. /\ Held(db) = Sum(Deposits, Accounts) + Vested(<<>>)
                        + Sum(db.accumulated_income, Witnesses) + 0 + Leftovers
          /\ Sum(Deposits, Accounts) \in Int
      BY <1>1, <1>4, <1>5, HeldParts
    <2>2. Vested(<<>>) = 0
      BY <1>2, SumRecursion, FS_EmptySet DEF Vested
    <2>3. Sum(db.accumulated_income, Witnesses) = 0
      <3> DEFINE f == [w \in Witnesses |-> 0]
                 G == {T \in SUBSET Witnesses : Sum(f, T) = 0}
      <3>1. ASSUME NEW T \in SUBSET Witnesses, \A x \in T : T \ {x} \in G
            PROVE  T \in G
        <4>1. IsFiniteSet(T)
          BY FS_Subset, TreasuryAssumption
        <4> HIDE DEF f
        <4>2. CASE T = {}
          BY <4>1, <4>2, SumRecursion
        <4>3. CASE T # {}
          <5>1. PICK x : x \in T /\ Sum(f, T) = f[x] + Sum(f, T \ {x})
            BY <4>1, <4>3, SumRecursion
          <5>2. f[x] = 0 /\ Sum(f, T \ {x}) = 0
            BY <3>1, <5>1 DEF f
          <5>3. QED
            BY <5>1, <5>2
        <4>4. QED
          BY <4>2, <4>3
      <3> HIDE DEF G
      <3>2. \A T \in SUBSET Witnesses : T \in G
        BY <3>1, SubsetInduction, TreasuryAssumption
      <3>3. QED
        BY <1>1, <3>2 DEF G
    <2>4. MaxSupply = Sum(Deposits, Accounts) + Leftovers
      BY <1>3 DEF MaxSupply, Total, Sum
    <2>5. QED
      BY <1>3, <2>1, <2>2, <2>3, <2>4
  <1>8. Held(db) + db.forfeited = db.current_supply + 0 /\ db.current_supply <= MaxSupply
    BY <1>1, <1>7, MaxSupplyIs
  <1>9. \A a \in Accounts : db.balance[a] >= 0
    BY <1>1, <1>3
  <1>10. QED
    BY <1>6, <1>8, <1>9 DEF Sound, Balanced

----------------------------------------------------------------------------
(* The theorems.                                                           *)

\* Every operation and every block keeps the records in order and the supply
\* accounted for.
THEOREM TreasuryInvariant == Spec => []TreasuryInv
  <1>1. Init => TreasuryInv
    BY GenesisSound DEF TreasuryInv
  <1>2. TreasuryInv /\ [Next]_vars => TreasuryInv'
    <2> SUFFICES ASSUME TreasuryInv, [Next]_vars
                 PROVE  TreasuryInv'
      OBVIOUS
    <2> USE DEF TreasuryInv
    <2>1. CASE UNCHANGED vars
      BY <2>1 DEF vars
    <2>2. ASSUME NEW o \in TransferOps, transfer(o)
          PROVE  TreasuryInv'
      BY <2>2, TransferSound
    <2>3. ASSUME NEW o \in BurnOps, asset_burn(o)
          PROVE  TreasuryInv'
      BY <2>3, BurnSound
    <2>4. ASSUME NEW o \in VestingOps, vesting_balance_create(o)
          PROVE  TreasuryInv'
      BY <2>4, VestingCreateSound
    <2>5. ASSUME NEW i \in DOMAIN db.vesting, NEW amount \in Amounts,
                 vesting_balance_withdraw(i, amount)
          PROVE  TreasuryInv'
      BY <2>5, VestingWithdrawSound
    <2>6. ASSUME NEW w \in Witnesses, NEW amount \in Amounts, witness_withdraw_pay(w, amount)
          PROVE  TreasuryInv'
      BY <2>6, WithdrawPaySound
    <2>7. ASSUME NEW o \in WorkerOps, worker_create(o)
          PROVE  TreasuryInv'
      BY <2>7, WorkerCreateSound
    <2>8. ASSUME NEW p \in NewParameters, global_parameters_update(p)
          PROVE  TreasuryInv'
      BY <2>8, ParametersUpdateSound
    <2>9. ASSUME NEW o \in PermissionOps, NEW wait \in Waits,
                 withdraw_permission_create(o, db.time + wait)
          PROVE  TreasuryInv'
      BY <2>9, PermissionCreateSound
    <2>10. ASSUME NEW i \in Permissions, NEW o \in PermissionOps, NEW wait \in Waits,
                  withdraw_permission_update(i, o, db.time + wait)
           PROVE  TreasuryInv'
      BY <2>10, PermissionUpdateSound
    <2>11. ASSUME NEW i \in Permissions, NEW amount \in Amounts, withdraw_permission_claim(i, amount)
           PROVE  TreasuryInv'
      BY <2>11, PermissionClaimSound
    <2>12. ASSUME NEW i \in Permissions, withdraw_permission_delete(i)
           PROVE  TreasuryInv'
      BY <2>12, PermissionDeleteSound
    <2>13. ASSUME NEW w \in Witnesses, NEW missed \in 0 .. MaxMissed, apply_block(w, missed)
           PROVE  TreasuryInv'
      BY <2>13, BlockSound
    <2>14. QED
      BY <2>1, <2>2, <2>3, <2>4, <2>5, <2>6, <2>7, <2>8, <2>9, <2>10, <2>11, <2>12, <2>13 DEF Next
  <1>3. QED
    BY <1>1, <1>2, PTL DEF Spec

\* Fees, cashback, budget, worker pay and burning neither make nor lose a share,
\* and the supply never exceeds the maximum.
THEOREM SupplyIsAccounted == Spec => []SupplyAccounted
  <1>1. TreasuryInv => SupplyAccounted
    <2> SUFFICES ASSUME TreasuryInv
                 PROVE  SupplyAccounted
      OBVIOUS
    <2>1. Balanced(db, 0)
      BY DEF TreasuryInv, Sound
    <2>2. Held(db) + db.forfeited = db.current_supply /\ db.current_supply <= MaxSupply
      BY <2>1, BalancedTypes DEF Balanced
    <2>3. \A i \in DOMAIN db.vesting : db.vesting[i].balance \in Nat
      BY <2>1, BalancedTypes DEF Vestings, VestingInv
    <2>4. db.witness_budget \in Nat /\ \A w \in Witnesses : db.accumulated_income[w] \in Nat
      BY <2>1 DEF Balanced, StateInv, Purses
    <2>5. QED
      BY <2>2, <2>3, <2>4 DEF SupplyAccounted
  <1>2. QED
    BY <1>1, TreasuryInvariant, PTL

\* No share leaves a vesting balance before one was held there for the vesting
\* period, and what was left alone for that period can be withdrawn whole.
THEOREM BalancesVestOverTime == Spec => []VestsOverTime
  <1>1. TreasuryInv => VestsOverTime
    <2> SUFFICES ASSUME TreasuryInv, NEW i \in DOMAIN db.vesting
                 PROVE  LET v == db.vesting[i]
                        IN  /\ v.credit >= 0
                            /\ v.vesting_seconds > 0 /\ db.time - v.touched >= v.vesting_seconds =>
                                 get_allowed_withdraw(v, db.time) = v.balance
      BY DEF VestsOverTime
    <2> DEFINE v == db.vesting[i]
               e == compute_coin_seconds_earned(v, db.time)
               held == v.balance * (db.time - v.touched)
               most == v.balance * v.vesting_seconds
    <2>1. VestingInv(v, db.time) /\ db.time \in Nat
      BY BalancedTypes DEF TreasuryInv, Sound, Vestings
    <2> HIDE DEF v
    <2>2. v.credit \in Int /\ v.coin_seconds_earned \in Nat /\ v.coin_seconds_earned <= v.credit
          /\ v.balance \in Nat /\ v.vesting_seconds \in Nat /\ v.touched \in Nat
          /\ v.touched <= db.time
      BY <2>1 DEF VestingInv
    <2>3. v.credit >= 0
      BY <2>2
    <2>4. ASSUME v.vesting_seconds > 0, db.time - v.touched >= v.vesting_seconds
          PROVE  get_allowed_withdraw(v, db.time) = v.balance
      <3>1. held >= most
        <4> DEFINE d == db.time - v.touched
        <4>1. d \in Nat /\ v.vesting_seconds <= d
          BY <2>1, <2>2, <2>4
        <4> HIDE DEF d
        <4>2. v.vesting_seconds * v.balance <= d * v.balance
          BY <2>2, <4>1, Products
        <4>3. v.vesting_seconds * v.balance = v.balance * v.vesting_seconds
              /\ d * v.balance = v.balance * d /\ v.vesting_seconds * v.balance \in Int
              /\ d * v.balance \in Int
          BY <2>2, <4>1, Commutes, Distribution
        <4>4. QED
          BY <4>2, <4>3 DEF d
      <3>2. e = most
        BY <2>1, <3>1, CoinSeconds
      <3>3. get_allowed_withdraw(v, db.time) = e \div v.vesting_seconds
        BY <2>2, <2>4 DEF get_allowed_withdraw
      <3>4. most \div v.vesting_seconds = v.balance
        BY <2>2, <2>4
      <3>5. QED
        BY <3>2, <3>3, <3>4
    <2>5. QED
      BY <2>3, <2>4 DEF v
  <1>2. QED
    BY <1>1, TreasuryInvariant, PTL

\* No sequence of claims takes more than the limit in one period.
THEOREM ClaimsWithinLimit == Spec => []WithinLimit
  <1>1. TreasuryInv => WithinLimit
    <2> SUFFICES ASSUME TreasuryInv, NEW i \in Permissions
                 PROVE  db.permissions[i].taken <= db.permissions[i].limit
      BY DEF WithinLimit
    <2>1. PermissionInv(db.permissions[i], db.time)
      BY PermissionIs DEF TreasuryInv
    <2>2. QED
      BY <2>1 DEF PermissionInv
  <1>2. QED
    BY <1>1, TreasuryInvariant, PTL
=============================================================================
