------------------------------- MODULE MCMarket -------------------------------
(***************************************************************************)
(* Instances of the market: alice and bob trade core (0) and the           *)
(* market-issued asset (1), which is short sold against core.              *)
(***************************************************************************)
EXTENDS MarketProperties

CONSTANTS alice, bob

TwoDeposits == [a \in {alice, bob} |-> [s \in Assets |-> IF s = Mia THEN 0 ELSE 6]]
NoFee == [percent |-> 0, min |-> 0, max |-> 0]
HalfFee == [percent |-> 50, min |-> 0, max |-> 1]
TwoFees == [s \in Assets |-> IF s = Mia THEN HalfFee ELSE NoFee]
Offer(s, x, t, y, k) == [sell |-> s, amount |-> x, receive |-> t, min |-> y, fill_or_kill |-> k]
SomeOffers == {Offer(0, 2, 1, 1, FALSE), Offer(0, 3, 1, 2, FALSE),
               Offer(1, 1, 0, 2, FALSE), Offer(1, 2, 0, 1, TRUE), Offer(1, 3, 0, 2, FALSE)}
SomeShorts == {[amount |-> x, collateral |-> y, initial |-> 2000, maintenance |-> 1500] :
                 x \in {1}, y \in {2}} \cup
              {[amount |-> 3, collateral |-> 4, initial |-> 2000, maintenance |-> 1750]}
SomeUpdates == {[add |-> 1, cover |-> 0], [add |-> 1, cover |-> 1]}
\* Covers part of the debt and takes collateral out.
Withdrawals == {[add |-> -4, cover |-> 1]}
Feed(c, s, t) == [call_limit |-> Price(c[1], Backing, c[2], Mia),
                  short_limit |-> Price(s[1], Mia, s[2], Backing),
                  settlement_price |-> Price(t[1], Mia, t[2], Backing)]
NoFeed == [call_limit |-> NullPrice, short_limit |-> NullPrice, settlement_price |-> NullPrice]
SomeFeeds == {Feed(<<3, 1>>, <<1, 4>>, <<1, 1>>), NoFeed}
SomePrices == {Price(1, Mia, 1, Backing)}

\* The hypotheses of the theorems of MarketProofs
ASSUME HypothesesHold ==
  PricedShorts /\ OffersInRange /\ Backing = Core /\ (NoWithdrawals \/ Updates = Withdrawals)
=============================================================================
