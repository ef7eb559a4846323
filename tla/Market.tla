-------------------------------- MODULE Market --------------------------------
(***************************************************************************)
(* The order books of the market-issued asset Mia and of the assets it is  *)
(* traded against: limit, short and call orders, force settlements, and    *)
(* the operations that place, match, cancel, call and settle them.         *)
(*                                                                         *)
(* db is the part of the object database the market uses.  An operation    *)
(* does its evaluation and its first changes in one step and leaves in     *)
(* task.todo the loops still to run; each iteration of a loop is a step.   *)
(* Nothing else runs until todo is empty, and saved is the database that   *)
(* the undo session restores when a loop throws.  An assert that fails     *)
(* ends the process (db.aborted), and so does the use of an object that    *)
(* was removed (task.undefined).                                           *)
(***************************************************************************)
EXTENDS Integers, Sequences, FiniteSetsExt

CONSTANTS
  Accounts,
  Assets,           \* asset ids: natural numbers, 0 is the core asset
  Mia,              \* the market-issued asset
  Backing,          \* its short_backing_asset
  MarketFee,        \* MarketFee[s] = [percent, min, max], in hundredths
  Deposits,         \* initial balances: account -> asset -> amount
  Offers,           \* limit orders: [sell, amount, receive, min, fill_or_kill]
  ShortOffers,      \* short orders: [amount, collateral, initial, maintenance]
  Updates,          \* call order updates, beside closing: [add, cover]
  Settles,          \* amounts of a force settlement
  Feeds,            \* price feeds that may be published
  SettlePrices,     \* prices of a global settlement by the issuer
  OffsetPercent,    \* force_settlement_offset_percent
  VolumePercent,    \* maximum_force_settlement_volume
  MaxShare,         \* BTS_MAX_SHARE_SUPPLY
  MaxId             \* bound: objects created

ASSUME MarketAssumption ==
  /\ IsFiniteSet(Accounts) /\ Assets \subseteq Nat /\ 0 \in Assets
  /\ Mia \in Assets \ {0} /\ Backing \in Assets \ {Mia}
  /\ Deposits \in [Accounts -> [Assets -> Nat]] /\ \A a \in Accounts : Deposits[a][Mia] = 0
  /\ \A s \in Assets : MarketFee[s] \in [percent : 0..100, min : Nat, max : Nat]
  /\ OffsetPercent \in 0..100 /\ VolumePercent \in 0..100
  /\ MaxShare \in Nat \ {0} /\ MaxId \in Nat

\* The operations as validate() leaves them; a short order's ratios as
\* short_order_create_evaluator and price_feed::validate do.  No amount is
\* negative: the model assumes it of a short order and of a settlement price.
ASSUME OperationsAssumption ==
  /\ Offers \subseteq [sell : Assets, amount : Nat, receive : Assets, min : Nat, fill_or_kill : BOOLEAN]
  /\ ShortOffers \subseteq [amount : Nat, collateral : Nat, initial : Nat, maintenance : Nat]
  /\ \A r \in ShortOffers : r.initial > r.maintenance /\ r.maintenance >= 1000
  /\ Updates \subseteq [add : Int, cover : Int] /\ Settles \subseteq Nat

VARIABLES
  db,       \* balances, statistics, supplies, fees, orders, settlements
  feed,     \* current_feed of Mia
  task,     \* the operation in progress
  saved,    \* db when the operation began
  applied   \* fill_order_operations of the last step

vars == <<db, feed, task, saved, applied>>

Core == 0
None == 0                  \* no object: ids start at 1

----------------------------------------------------------------------------
(* Prices: base/quote, compared by their assets and then as fractions.     *)

Price(x, s, y, t) == [base |-> s, b |-> x, quote |-> t, q |-> y]
NullPrice == Price(0, 0, 0, 0)

\* price::validate, for a price between two assets
IsPrice(p, s, t) == p \in [base : {s}, b : Nat \ {0}, quote : {t}, q : Nat \ {0}]

ASSUME PricesAssumption ==
  /\ \A f \in Feeds : /\ f.call_limit = NullPrice \/ IsPrice(f.call_limit, Backing, Mia)
                      /\ f.short_limit = NullPrice \/ IsPrice(f.short_limit, Mia, Backing)
                      /\ f.settlement_price = NullPrice \/ IsPrice(f.settlement_price, Mia, Backing)
  /\ SettlePrices \subseteq [base : {Mia}, b : Nat, quote : {Backing}, q : Nat]

Inv(p) == Price(p.q, p.quote, p.b, p.base)
PriceMax(s, t) == Price(MaxShare, s, 1, t)

Less(p, r) ==
  \/ p.base < r.base
  \/ p.base = r.base /\ p.quote < r.quote
  \/ p.base = r.base /\ p.quote = r.quote /\ p.b * r.q < r.b * p.q

\* asset * price, rounded down
Times(x, s, p) == IF s = p.base THEN (x * p.q) \div p.b ELSE (x * p.b) \div p.q

\* price::call_price: the collateral above the ratio, for the debt
CallPrice(debt, collateral, ratio) ==
  Price((collateral * (ratio - 1000)) \div 1000, Backing, debt, Mia)

----------------------------------------------------------------------------
(* The objects and the order of their indexes.                             *)

IsLimit(o) == o.kind = "limit"
ForSale(o) == Times(o.for_sale, o.price.base, o.price)   \* amount_to_receive
Order(k, a, x, p, col, mcr) ==
  [id |-> db.next_id, kind |-> k, seller |-> a, for_sale |-> x, price |-> p,
   collateral |-> col, mcr |-> mcr]

\* The sum of the values of a function, such as a field of every order
Total(f) == MapThenSumSet(LAMBDA x : f[x], DOMAIN f)

First(S, Before(_, _)) == CHOOSE x \in S : \A y \in S \ {x} : Before(x, y)

\* by_price of the books: the highest price first; at one price a limit order
\* goes before a short order, and an older order before a younger one
BookBefore(x, y) ==
  \/ Less(y.price, x.price)
  \/ /\ ~Less(x.price, y.price)
     /\ \/ IsLimit(x) /\ ~IsLimit(y)
        \/ x.kind = y.kind /\ x.id < y.id

\* by_price of the call orders: the lowest call price first
CallBefore(x, y) ==
  \/ Less(x.call_price, y.call_price)
  \/ ~Less(y.call_price, x.call_price) /\ x.id < y.id

Collateralization(c) == Price(c.collateral, Backing, c.debt, Mia)
CollateralBefore(x, y) ==
  \/ Less(Collateralization(x), Collateralization(y))
  \/ ~Less(Collateralization(y), Collateralization(x)) /\ x.id < y.id

\* lower_bound(max) .. upper_bound(p): the orders of p's market no worse than p
InRange(d, p) ==
  {o \in d.orders : ~Less(PriceMax(p.base, p.quote), o.price) /\ ~Less(o.price, p)}

WithId(S, i) == {x \in S : x.id = i}
Find(S, i) == CHOOSE x \in S : x.id = i

----------------------------------------------------------------------------
(* Changes of the database.                                                *)

Asserts(d, p) == [d EXCEPT !.aborted = @ \/ ~p]
Adjust(d, a, s, x) == [d EXCEPT !.balance[a][s] = @ + x]
CoreInOrders(d, a, s, x) ==
  IF s = Core THEN [d EXCEPT !.core_in_orders[a] = @ + x] ELSE d
RemoveOrder(d, o) == [d EXCEPT !.orders = @ \ WithId(@, o.id)]
ReplaceOrder(d, o) == [d EXCEPT !.orders = (@ \ WithId(@, o.id)) \cup {o}]

CalculateMarketFee(s, x) ==
  LET f == MarketFee[s]
      percent == (x * f.percent) \div 100
  IN  IF f.percent = 0 THEN f.min
      ELSE IF percent > f.max THEN f.max
      ELSE IF percent < f.min THEN f.min ELSE percent

PayMarketFees(d, s, x) ==
  LET fee == CalculateMarketFee(s, x)
  IN  [Asserts(d, fee <= x) EXCEPT !.fees[s] = @ + fee]

\* Mutant: the core of a cancelled order still counts as being in orders.
CancelOrder_core_kept(d, o) ==
  LET s == IF IsLimit(o) THEN o.price.base ELSE o.price.quote
      x == IF IsLimit(o) THEN o.for_sale ELSE o.collateral
  IN  Adjust(RemoveOrder(d, o), o.seller, s, x)

\* An order's own asset goes back to its seller.
CancelOrder(d, o) ==
  LET s == IF IsLimit(o) THEN o.price.base ELSE o.price.quote
      x == IF IsLimit(o) THEN o.for_sale ELSE o.collateral
  IN  CoreInOrders(Adjust(RemoveOrder(d, o), o.seller, s, x), o.seller, s, -x)

\* What is left of an order after a fill: nothing, too little to sell, or an order
Rest(d, o, rest) ==
  IF rest.for_sale = 0 THEN RemoveOrder(d, o)
  ELSE IF ForSale(rest) = 0 THEN CancelOrder(d, rest)
  ELSE ReplaceOrder(d, rest)

\* Mutant: the market fee is accumulated but not taken from the seller.
FillLimit_fee_free(d, o, pays, receives) ==
  LET p    == o.price
      paid == Adjust(CoreInOrders(PayMarketFees(d, p.quote, receives), o.seller, p.base, -pays),
                     o.seller, p.quote, receives)
  IN  Rest(paid, o, [o EXCEPT !.for_sale = @ - pays])

FillLimit(d, o, pays, receives) ==
  LET p    == o.price
      fee  == CalculateMarketFee(p.quote, receives)
      paid == Adjust(CoreInOrders(PayMarketFees(d, p.quote, receives), o.seller, p.base, -pays),
                     o.seller, p.quote, receives - fee)
  IN  Rest(paid, o, [o EXCEPT !.for_sale = @ - pays])

\* The short's collateral and what the buyer paid back the debt of its call order.
FillShort(d, o, pays, receives) ==
  LET p      == o.price
      fee    == CalculateMarketFee(p.quote, receives)
      seller == IF pays = o.for_sale THEN o.collateral ELSE Times(pays, p.base, p)
      buyer  == receives - fee
      mine   == {c \in d.calls : c.borrower = o.seller}
      old    == IF mine # {} THEN CHOOSE c \in mine : TRUE
                ELSE [id |-> d.next_id, borrower |-> o.seller, debt |-> 0, collateral |-> 0]
      debt   == old.debt + pays
      col    == old.collateral + seller + buyer
      call   == [id |-> old.id, borrower |-> o.seller, debt |-> debt, collateral |-> col,
                 mcr |-> o.mcr, call_price |-> CallPrice(debt, col, o.mcr)]
      paid   == CoreInOrders(PayMarketFees(d, p.quote, receives), o.seller, p.quote, buyer)
      rest   == [o EXCEPT !.for_sale = @ - pays, !.collateral = @ - seller]
  IN  Asserts(Rest([paid EXCEPT !.supply[p.base] = @ + pays,
                               !.calls = (@ \ mine) \cup {call},
                               !.next_id = IF mine = {} THEN @ + 1 ELSE @], o, rest),
             rest.for_sale = 0 \/ rest.collateral > 0)

\* Mutant: what a call order buys back stays in circulation.
FillCall_supply_kept(d, c, pays, receives) ==
  LET rest  == [c EXCEPT !.debt = @ - receives, !.collateral = @ - pays]
      freed == IF rest.debt = 0 THEN rest.collateral ELSE 0
      out   == freed + (IF Backing = Core THEN pays ELSE 0)
  IN  Adjust([d EXCEPT !.calls = (@ \ {c}) \cup (IF rest.debt = 0 THEN {} ELSE {rest}),
                       !.core_in_orders[c.borrower] = @ - out], c.borrower, Backing, freed)

FillCall(d, c, pays, receives) ==
  LET rest  == [c EXCEPT !.debt = @ - receives, !.collateral = @ - pays]
      freed == IF rest.debt = 0 THEN rest.collateral ELSE 0
      out   == freed + (IF Backing = Core THEN pays ELSE 0)
      d1    == [Asserts(d, c.collateral >= pays) EXCEPT
                 !.supply[Mia] = @ - receives,
                 !.calls = (@ \ {c}) \cup (IF rest.debt = 0 THEN {} ELSE {rest}),
                 !.core_in_orders[c.borrower] = @ - out]
  IN  Asserts(Adjust(d1, c.borrower, Backing, freed), d1.core_in_orders[c.borrower] >= 0)

\* settle.owner is read after the object was removed, before its memory is reused
FillSettlement(d, s, pays, receives) ==
  LET fee == CalculateMarketFee(Backing, receives)
  IN  [Adjust(PayMarketFees(d, Backing, receives), s.owner, Backing, receives - fee) EXCEPT
        !.settlements = (@ \ {s}) \cup
           (IF pays < s.balance THEN {[s EXCEPT !.balance = @ - pays]} ELSE {})]

FillOrder(d, o, pays, receives) ==
  IF IsLimit(o) THEN FillLimit(d, o, pays, receives) ELSE FillShort(d, o, pays, receives)

\* Mutant: x pays all it offers, however little y has.
XPays_all(x, y, p) == x.for_sale

\* database::match of a limit order x with an order y: what x pays y, and y pays x
XPays(x, y, p) ==
  IF x.for_sale <= Times(y.for_sale, y.price.base, p) THEN x.for_sale
  ELSE Times(y.for_sale, y.price.base, p)
YPays(x, y, p) ==
  IF x.for_sale <= Times(y.for_sale, y.price.base, p) THEN Times(x.for_sale, x.price.base, p)
  ELSE y.for_sale
Match(d, x, y, p) ==
  IF x.for_sale > 0 /\ y.for_sale > 0
  THEN FillOrder(FillOrder(d, x, XPays(x, y, p), YPays(x, y, p)), y, YPays(x, y, p), XPays(x, y, p))
  ELSE Asserts(d, FALSE)

Fill(o, pays, receives) == [order |-> o.id, pays |-> pays, receives |-> receives]

----------------------------------------------------------------------------
(* Operations.  Each is one transaction, or one block's expirations.       *)

Idle == task.todo = <<>> /\ ~db.aborted /\ ~task.undefined
NoTask == [todo |-> <<>>, order |-> None, call |-> None, called |-> FALSE,
           fill_or_kill |-> FALSE, price |-> NullPrice, gathered |-> 0, supply |-> 0,
           undefined |-> FALSE]

\* check_call_orders does nothing for an asset that is not market issued
Checks(p) == IF Mia \in {p.base, p.quote} THEN <<"calls">> ELSE <<>>

Run(d, todo, order) ==
  /\ db' = d
  /\ saved' = IF todo = <<>> THEN d ELSE db
  /\ task' = IF todo = <<>> THEN NoTask ELSE [NoTask EXCEPT !.todo = todo, !.order = order]
  /\ applied' = {}
  /\ UNCHANGED feed

limit_order_create(a, r) ==
  LET o == Order("limit", a, r.amount, Price(r.amount, r.sell, r.min, r.receive), 0, 0)
  IN  /\ Idle /\ db.next_id <= MaxId
      /\ r.sell # r.receive /\ r.amount > 0 /\ r.min > 0
      /\ db.balance[a][r.sell] >= r.amount
      /\ db' = [CoreInOrders(Adjust(db, a, r.sell, -r.amount), a, r.sell, r.amount) EXCEPT
                 !.orders = @ \cup {o}, !.next_id = @ + 1]
      /\ saved' = db
      /\ task' = [NoTask EXCEPT !.todo = Checks(o.price) \o <<"return_if_called", "match">> \o Checks(o.price) \o <<"kill">>,
                                !.order = o.id, !.price = o.price, !.fill_or_kill = r.fill_or_kill]
      /\ applied' = {}
      /\ UNCHANGED feed

short_order_create(a, r) ==
  LET o == Order("short", a, r.amount, Inv(CallPrice(r.amount, r.collateral, r.initial)),
                 r.collateral, r.maintenance)
  IN  /\ Idle /\ db.next_id <= MaxId
      /\ ~Less(o.price, feed.short_limit)
      /\ db.balance[a][Backing] >= r.collateral
      /\ Run([CoreInOrders(Adjust(db, a, Backing, -r.collateral), a, Backing, r.collateral) EXCEPT
               !.orders = @ \cup {o}, !.next_id = @ + 1],
             <<"calls", "return_if_gone", "match", "calls">>, o.id)

order_cancel(o) == Idle /\ Run(CancelOrder(db, o), Checks(o.price), None)

call_order_update(a, add, cover) ==
  \E c \in {c \in db.calls : c.borrower = a} :
    LET closing == cover = c.debt
        rest == [c EXCEPT !.debt = @ - cover, !.collateral = @ + add,
                          !.call_price = CallPrice(c.debt - cover, c.collateral + add, c.mcr)]
        paid == [Adjust(db, a, Mia, -cover) EXCEPT !.supply[Mia] = @ - cover]
    IN  /\ Idle /\ cover >= 0 /\ (add > 0 \/ cover > 0)
        /\ db.balance[a][Mia] >= cover /\ db.balance[a][Backing] >= add
        /\ cover <= c.debt
        /\ IF closing
           THEN /\ add = -c.collateral
                /\ Run(CoreInOrders(Adjust([paid EXCEPT !.calls = @ \ {c}], a, Backing, c.collateral),
                                    a, Backing, -c.collateral), <<>>, None)
           ELSE /\ rest.collateral >= 0
                /\ Times(rest.debt, Mia, rest.call_price) < c.collateral
                /\ Run(CoreInOrders(Adjust([paid EXCEPT !.calls = (@ \ {c}) \cup {rest}],
                                           a, Backing, IF add > 0 THEN -add ELSE 0),
                                    a, Backing, add), <<>>, None)

asset_settle(a, x) ==
  /\ Idle /\ x >= 0 /\ db.next_id <= MaxId
  /\ db.balance[a][Mia] >= x
  /\ Run([Adjust(db, a, Mia, -x) EXCEPT
           !.settlements = @ \cup {[id |-> db.next_id, owner |-> a, balance |-> x]},
           !.next_id = @ + 1], <<>>, None)

asset_publish_feed(f) ==
  /\ Idle /\ feed # f
  /\ feed' = f
  /\ applied' = {}
  /\ UNCHANGED <<db, task, saved>>

\* globally_settle_asset at price p, on top of what is left to do
SwanTask(p) ==
  [task EXCEPT !.todo = <<"settle_calls", "cancel", "cancel_again", "settle_balances">> \o
                        (IF @ = <<>> THEN <<>> ELSE Tail(@)),
               !.call = None, !.called = TRUE,
               !.price = p, !.gathered = 0, !.supply = db.supply[Mia]]

asset_global_settle(p) ==
  /\ Idle /\ db.supply[Mia] > 0 /\ db.calls # {} /\ p.b > 0
  /\ LET c == First(db.calls, CollateralBefore)
     IN  Times(c.debt, Mia, p) <= c.collateral
  /\ task' = SwanTask(p)
  /\ saved' = db
  /\ applied' = {}
  /\ UNCHANGED <<db, feed>>

clear_expired_orders ==
  Idle /\ Run(db, <<"expire_limits", "expire_shorts", "settle">>, None)

perform_chain_maintenance ==
  /\ Idle /\ db.force_settled > 0
  /\ Run([db EXCEPT !.force_settled = 0], <<>>, None)

----------------------------------------------------------------------------
(* The loops.                                                              *)

At(what) == task.todo # <<>> /\ Head(task.todo) = what /\ ~db.aborted /\ ~task.undefined

\* One more iteration with database d, filling f; the task goes on as t.
Step(d, t, f) ==
  /\ db' = d
  /\ task' = IF db'.aborted \/ t.todo = <<>> THEN [NoTask EXCEPT !.undefined = t.undefined] ELSE t
  /\ saved' = IF task'.todo = <<>> THEN db' ELSE saved
  /\ applied' = f
  /\ UNCHANGED feed

Pop(t) == [t EXCEPT !.todo = Tail(@), !.call = None]
Throw == db' = saved /\ task' = NoTask /\ applied' = {} /\ UNCHANGED <<feed, saved>>
OwnOrderGone == WithId(db.orders, task.order) = {}

\* One iteration of check_call_orders: the call order task.call (the first one
\* when it is None, call_end when it is End) against the best order in range.
End == -1
CallsRange == InRange(db, Inv(feed.call_limit))
CurrentCall == IF task.call = None THEN First(db.calls, CallBefore) ELSE Find(db.calls, task.call)
NextCall(c) ==
  LET after == {x \in db.calls : x # c /\ CallBefore(c, x)}
  IN  IF after = {} THEN End ELSE First(after, CallBefore).id

NothingToCall ==
  \/ feed.call_limit = NullPrice
  \/ task.call = End
  \/ task.call = None /\ db.calls = {}
  \/ CallsRange = {}

\* An order that is removed with the call order it fills leaves limit_itr or
\* short_itr behind; the next iteration reads it.
CallStep ==
  LET c == CurrentCall
      o == First(CallsRange, BookBefore)
      pays == Min({c.debt, o.for_sale})
      receives == Times(pays, Mia, o.price)
      d == FillOrder(FillCall(db, c, receives, pays), o, pays, receives)
      filledCall == c.debt <= o.for_sale
      next == IF filledCall THEN NextCall(c) ELSE c.id
      dangling == filledCall /\ WithId(d.orders, o.id) = {} /\ next # End
  IN  /\ At("calls")
      /\ IF NothingToCall THEN Step(db, Pop(task), {})
         ELSE IF o.price.b = 0 \/ o.price.q = 0 THEN Throw
         ELSE IF Less(Inv(c.call_price), o.price) THEN Step(db, Pop(task), {})
         ELSE IF Times(c.debt, Mia, o.price) > c.collateral
         THEN Step(db, SwanTask(Price(c.debt, Mia, c.collateral, Backing)), {})
         ELSE Step(d, IF dangling THEN [NoTask EXCEPT !.undefined = TRUE]
                      ELSE [task EXCEPT !.call = next, !.called = @ \/ c.debt >= o.for_sale],
                   {Fill(o, pays, receives)})

\* A new order that a call filled: a limit order's operation goes on unless
\* check_call_orders says that it filled one.
ReturnStep ==
  \/ At("return_if_called") /\ Step(db, IF task.called /\ OwnOrderGone THEN NoTask ELSE Pop(task), {})
  \/ At("return_if_gone") /\ Step(db, IF OwnOrderGone THEN NoTask ELSE Pop(task), {})

\* Mutant: one match and no more.
KeepsMatching_once(d, o, y) == FALSE

\* The order of the book is gone and the new one is not.
KeepsMatching(d, o, y) == WithId(d.orders, y.id) = {} /\ WithId(d.orders, o.id) # {}

\* One iteration of the matching loop of a new order: it goes on as long as
\* only the order of the book is filled.
MatchStep ==
  LET o == Find(db.orders, task.order)
      p == IF OwnOrderGone THEN task.price ELSE o.price
      book == {y \in InRange(db, Inv(p)) : IsLimit(y) \/ p.quote = Mia}
      y == First(book, BookBefore)
      bid == IF IsLimit(o) THEN o ELSE y
      ask == IF IsLimit(o) THEN y ELSE o
      d == Match(db, bid, ask, y.price)
  IN  /\ At("match")
      /\ IF book = {} THEN Step(db, Pop(task), {})
         ELSE IF OwnOrderGone THEN Step(db, [NoTask EXCEPT !.undefined = TRUE], {})
         ELSE Step(d, IF KeepsMatching(d, o, y) THEN task ELSE Pop(task),
                   {Fill(bid, XPays(bid, ask, y.price), YPays(bid, ask, y.price)),
                    Fill(ask, YPays(bid, ask, y.price), XPays(bid, ask, y.price))})

KillStep ==
  /\ At("kill")
  /\ IF task.fill_or_kill /\ ~OwnOrderGone THEN Throw ELSE Step(db, Pop(task), {})

\* globally_settle_asset: every call order buys its debt at the price,
SettleCallsStep ==
  LET c == First(db.calls, CallBefore)
      pays == Times(c.debt, Mia, task.price)
  IN  /\ At("settle_calls")
      /\ IF db.calls = {} THEN Step(db, Pop(task), {})
         ELSE Step(FillCall(db, c, pays, c.debt), [task EXCEPT !.gathered = @ + pays], {})

\* the limit orders that sell Mia above the call limit are cancelled,
BeforeLimitEnd == {o \in db.orders : IsLimit(o) /\ ~Less(o.price, Inv(feed.call_limit))}

CancelStep ==
  LET S == {o \in BeforeLimitEnd : ~Less(PriceMax(Mia, Backing), o.price)}
  IN  /\ At("cancel")
      /\ IF S = {} THEN Step(db, Pop(task), {})
         ELSE Step(CancelOrder(db, First(S, BookBefore)), task, {})

\* and again from the first order of any market.  The loop does not advance
\* past an order that sells another asset: then there is no step to take.
CancelAgainStep ==
  LET o == First(BeforeLimitEnd, BookBefore)
  IN  /\ At("cancel_again")
      /\ IF BeforeLimitEnd = {} THEN Step(db, Pop(task), {})
         ELSE o.price.base = Mia /\ Step(CancelOrder(db, o), task, {})

\* Balances in Mia are paid out, and the rest goes to the fees of the backing asset.
SettleBalancesStep ==
  LET out == [a \in Accounts |-> Times(db.balance[a][Mia], Mia, task.price)]
      total == Total([a \in Accounts |-> db.balance[a][Mia]]) + db.fees[Mia]
      left == task.gathered - Total(out)
      balance == [a \in Accounts |-> [db.balance[a] EXCEPT ![Mia] = 0, ![Backing] = @ + out[a]]]
      fees == [db.fees EXCEPT ![Mia] = 0, ![Backing] = @ + left]
  IN  /\ At("settle_balances")
      /\ IF total # task.supply THEN Throw
         ELSE Step([db EXCEPT !.balance = balance, !.fees = fees], Pop(task), {})

\* clear_expired_orders: any limit order, and then any short order, may have
\* expired; its cancelling checks calls
ExpireStep ==
  /\ At("expire_limits") \/ At("expire_shorts")
  /\ \/ Step(db, Pop(task), {})
     \/ \E o \in {o \in db.orders : IsLimit(o) <=> At("expire_limits")} :
          Step(CancelOrder(db, o), [task EXCEPT !.todo = Checks(o.price) \o @], {})

MaxVolume == ((db.supply[Mia] + db.force_settled) * VolumePercent) \div 100

\* Mutant: a volume that is used up does not end the loop.
SettleNextStep_used_up ==
  LET s == First(db.settlements, LAMBDA x, y : x.id < y.id)
      receives == (Times(s.balance, Mia, feed.settlement_price) * (100 - OffsetPercent)) \div 100
  IN  /\ At("settle") /\ task.order = None
      /\ IF db.settlements = {} \/ feed.settlement_price = NullPrice
         THEN Step(db, Pop(task), {})
         ELSE Step(db, [task EXCEPT !.order = s.id,
                                    !.price = Price(s.balance, Mia, receives, Backing),
                                    !.supply = MaxVolume,
                                    !.gathered = db.force_settled], {})

\* The next force settlement is taken, whatever its date.
SettleNextStep ==
  LET s == First(db.settlements, LAMBDA x, y : x.id < y.id)
      receives == (Times(s.balance, Mia, feed.settlement_price) * (100 - OffsetPercent)) \div 100
  IN  /\ At("settle") /\ task.order = None
      /\ IF \/ db.settlements = {}
            \/ feed.settlement_price = NullPrice
            \/ db.force_settled >= MaxVolume
         THEN Step(db, Pop(task), {})
         ELSE Step(db, [task EXCEPT !.order = s.id,
                                    !.price = Price(s.balance, Mia, receives, Backing),
                                    !.supply = MaxVolume,
                                    !.gathered = db.force_settled], {})

\* The least collateralized call order buys from it, up to the volume left.
SettleStep ==
  LET s == Find(db.settlements, task.order)
      c == First(db.calls, CollateralBefore)
      receives == Min({s.balance, task.supply - task.gathered, c.debt})
      pays == Times(receives, Mia, task.price)
      d == FillSettlement(FillCall(db, c, pays, receives), s, receives, pays)
  IN  /\ At("settle") /\ task.order # None
      /\ IF task.gathered >= task.supply \/ WithId(db.settlements, task.order) = {}
         THEN Step([db EXCEPT !.force_settled = task.gathered], [task EXCEPT !.order = None], {})
         ELSE IF db.calls = {} \/ s.balance = 0 \/ c.collateral = 0
         THEN Step(Asserts(db, FALSE), task, {})
         ELSE Step(d, [task EXCEPT !.gathered = @ + receives], {})

\* The process is gone.
Terminated == (db.aborted \/ task.undefined) /\ UNCHANGED vars

Loop ==
  \/ CallStep
  \/ ReturnStep
  \/ MatchStep
  \/ KillStep
  \/ SettleCallsStep
  \/ CancelStep
  \/ CancelAgainStep
  \/ SettleBalancesStep
  \/ ExpireStep
  \/ SettleNextStep
  \/ SettleStep

----------------------------------------------------------------------------
Init ==
  /\ db = [balance |-> Deposits,
           core_in_orders |-> [a \in Accounts |-> 0],
           supply |-> [s \in Assets |-> Total([a \in Accounts |-> Deposits[a][s]])],
           fees |-> [s \in Assets |-> 0],
           orders |-> {}, calls |-> {}, settlements |-> {},
           force_settled |-> 0, next_id |-> 1, aborted |-> FALSE]
  /\ feed \in Feeds
  /\ task = NoTask
  /\ saved = db
  /\ applied = {}

Next ==
  \/ \E a \in Accounts, r \in Offers : limit_order_create(a, r)
  \/ \E a \in Accounts, r \in ShortOffers : short_order_create(a, r)
  \/ \E o \in db.orders : order_cancel(o)
  \/ \E a \in Accounts, r \in Updates : call_order_update(a, r.add, r.cover)
  \/ \E c \in db.calls : call_order_update(c.borrower, -c.collateral, c.debt)
  \/ \E a \in Accounts, x \in Settles : asset_settle(a, x)
  \/ \E f \in Feeds : asset_publish_feed(f)
  \/ \E p \in SettlePrices : asset_global_settle(p)
  \/ clear_expired_orders
  \/ perform_chain_maintenance
  \/ Loop
  \/ Terminated

Spec == Init /\ [][Next]_vars
=============================================================================
