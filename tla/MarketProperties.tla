--------------------------- MODULE MarketProperties ---------------------------
(***************************************************************************)
(* What the market keeps true: no asset is created or lost, every unit of  *)
(* the market-issued asset is owed by someone, the book is matched, and    *)
(* every operation ends.                                                   *)
(***************************************************************************)
EXTENDS Market

\* What some of the properties ask of the operations: no short order is for
\* nothing (its price 0/0 equals every price, so that the book has no first
\* order), no update of a call order takes collateral out, and no limit order is
\* above price::max (an amount is at most a balance, and so a share supply).
PricedShorts == \A r \in ShortOffers : r.amount > 0
NoWithdrawals == \A r \in Updates : r.add >= 0
OffersInRange == \A r \in Offers : r.amount <= MaxShare * r.min

\* globally_settle_asset is running: the collateral it has gathered is in no object
Settling ==
  task.todo # <<>> /\ Head(task.todo) \in {"settle_calls", "cancel", "cancel_again", "settle_balances"}

\* What an order holds of asset s, and what everyone holds of it.
Locked(o, s) ==
  IF IsLimit(o) THEN IF o.price.base = s THEN o.for_sale ELSE 0
  ELSE IF s = Backing THEN o.collateral ELSE 0

Held(d, s) ==
  Total([a \in Accounts |-> d.balance[a][s]]) + d.fees[s] + Total([o \in d.orders |-> Locked(o, s)])
  + (IF s = Backing THEN Total([c \in d.calls |-> c.collateral]) ELSE 0)
  + (IF s = Mia THEN Total([x \in d.settlements |-> x.balance]) ELSE 0)

Gathered(s) == IF s = Backing /\ Settling THEN task.gathered ELSE 0

\* database_fixture::verify_asset_supplies, for every asset: what accounts,
\* orders, settlements and accumulated fees hold is the current supply, through
\* every partial fill, rounding, market fee, refund and call; and nobody is in
\* debt to an account, while the process lives.
Conserved ==
  db.aborted \/
    /\ \A s \in Assets : (s = Mia /\ Settling) \/ Held(db, s) + Gathered(s) = db.supply[s]
    /\ \A a \in Accounts, s \in Assets : db.balance[a][s] >= 0

\* The same test's second sum: the market-issued asset in circulation is what
\* the call orders owe, so that covering every debt redeems every unit of it.
DebtBacksSupply == db.supply[Mia] = Total([c \in db.calls |-> c.debt])

\* The same test's third sum, for each account: total_core_in_orders, which
\* counts as voting stake, is the core that its orders hold.
CoreOf(a, d) ==
  Total([o \in d.orders |-> IF o.seller = a THEN Locked(o, Core) ELSE 0])
  + Total([c \in d.calls |-> IF c.borrower = a /\ Backing = Core THEN c.collateral ELSE 0])

CoreAccounted == \A a \in Accounts : db.core_in_orders[a] = CoreOf(a, db)

\* Between operations the book is matched: no bid is left beside an ask that
\* would take it, whichever of the two came first and whatever was filled,
\* called or cancelled since.
Matched ==
  Idle => \A o \in db.orders, y \in db.orders :
            ~(IsLimit(o) /\ y \in InRange(db, Inv(o.price)))

\* A fill gives an order at least what its own price asks for what it pays,
\* rounded down, whichever price the match was made at.
PriceHonoured ==
  [][\A f \in applied' : \A o \in db.orders : f.order = o.id =>
       f.receives >= Times(f.pays, o.price.base, o.price)]_vars

\* Every operation ends: each iteration of each loop, nested or not, brings it
\* closer, first by what is for sale, then by the loops left, then by the debt
\* and by where a force settlement is.  (That there is an iteration to take is
\* the absence of deadlocks.)
LoopWeight(l) == IF l = "calls" THEN 6 ELSE 1
Closeness ==
  <<Total([o \in db.orders |-> o.for_sale]),
    Total([i \in DOMAIN task.todo |-> LoopWeight(task.todo[i])]),
    3 * Total([c \in db.calls |-> c.debt])
      + (IF task.order = None THEN 1 ELSE IF task.gathered > db.force_settled THEN 2 ELSE 0)>>
Closer(m, n) == \E i \in 1..3 : m[i] < n[i] /\ \A j \in 1..(i - 1) : m[j] = n[j]
LoopsProgress ==
  [][task.todo # <<>> => task'.todo = <<>> \/ Closer(Closeness', Closeness)]_vars
=============================================================================
