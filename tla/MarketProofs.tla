----------------------------- MODULE MarketProofs -----------------------------
(***************************************************************************)
(* Proofs about the market, for every set of accounts, assets, offers,     *)
(* feeds and fees, and every sequence of operations.                       *)
(***************************************************************************)
EXTENDS MarketProperties, ProofLibrary

----------------------------------------------------------------------------
(* The objects of the market.                                              *)

Prices == [base : Assets, b : Int, quote : Assets, q : Int]
Orders == [id : Nat, kind : {"limit", "short"}, seller : Accounts, for_sale : Int,
           price : Prices, collateral : Int, mcr : Int]
Calls == [id : Nat, borrower : Accounts, debt : Int, collateral : Int, mcr : Int,
          call_price : Prices]
Settlements == [id : Nat, owner : Accounts, balance : Int]
Dbs == [balance : [Accounts -> [Assets -> Int]], core_in_orders : [Accounts -> Int],
        supply : [Assets -> Int], fees : [Assets -> Int], orders : SUBSET Orders,
        calls : SUBSET Calls, settlements : SUBSET Settlements, force_settled : Nat,
        next_id : Nat, aborted : BOOLEAN]

\* A limit order can still be sold for something; a short order perhaps not.
OrderInv(o) ==
  /\ o.id > 0
  /\ IsLimit(o) => /\ o.price.base # o.price.quote /\ o.price.b > 0 /\ o.price.q > 0
                   /\ o.for_sale > 0 /\ ForSale(o) > 0
  /\ ~IsLimit(o) => /\ o.price.base = Mia /\ o.price.quote = Backing /\ o.mcr >= 1000
                    /\ o.for_sale > 0 /\ o.price.b > 0 /\ o.price.q >= 0

CallInv(c) ==
  /\ c.id > 0 /\ c.debt > 0 /\ c.mcr >= 1000
  /\ c.call_price.base = Backing /\ c.call_price.quote = Mia /\ c.call_price.q > 0

SettlementInv(x) == x.id > 0 /\ x.balance >= 0

\* Ids are unique and below the next one.
Identified(S, n) == (\A x \in S : x.id < n) /\ \A x, y \in S : x.id = y.id => x = y

DbType(d) ==
  /\ d \in Dbs
  /\ IsFiniteSet(d.orders) /\ IsFiniteSet(d.calls) /\ IsFiniteSet(d.settlements)
  /\ Identified(d.orders, d.next_id) /\ Identified(d.calls, d.next_id)
  /\ Identified(d.settlements, d.next_id) /\ d.next_id > 0
  /\ \A o \in d.orders : OrderInv(o)
  /\ \A c \in d.calls : CallInv(c)
  /\ \A x \in d.settlements : SettlementInv(x)
  /\ \A x, y \in d.calls : x.borrower = y.borrower => x = y

----------------------------------------------------------------------------
(* Fractions and rounding.                                                 *)

LEMMA Products ==
  ASSUME NEW a \in Int, NEW b \in Int, NEW c \in Nat
  PROVE  /\ a * c \in Int /\ b * c \in Int
         /\ a <= b => a * c <= b * c
         /\ a < b /\ c > 0 => a * c < b * c
  OBVIOUS

LEMMA Cancel ==
  ASSUME NEW a \in Int, NEW b \in Int, NEW c \in Nat \ {0}
  PROVE  /\ a * c <= b * c => a <= b
         /\ a * c < b * c => a < b
  <1>1. b < a => b * c < a * c
    BY Products
  <1>2. b <= a => b * c <= a * c
    BY Products
  <1>3. a * c \in Int /\ b * c \in Int
    BY Products
  <1>4. QED
    BY <1>1, <1>2, <1>3

LEMMA Regroup ==
  ASSUME NEW a \in Int, NEW b \in Int, NEW c \in Int
  PROVE  /\ (a * b) * c = (a * c) * b /\ (a * b) * c = (c * b) * a /\ (a * b) * c = (b * c) * a
         /\ a * b = b * a /\ a * b \in Int
  OBVIOUS

LEMMA Floor ==
  ASSUME NEW a \in Int, NEW b \in Nat \ {0}
  PROVE  /\ a \div b \in Int /\ (a \div b) * b <= a /\ a < (a \div b) * b + b
         /\ a >= 0 => a \div b >= 0
  OBVIOUS

LEMMA FloorBounds ==
  ASSUME NEW a \in Int, NEW b \in Nat \ {0}, NEW k \in Int
  PROVE  /\ k * b <= a => k <= a \div b
         /\ a <= k * b => a \div b <= k
  <1> DEFINE f == a \div b
  <1>1. f \in Int /\ f * b <= a /\ a < f * b + b
    BY Floor
  <1> HIDE DEF f
  <1>2. ASSUME k * b <= a
        PROVE  k <= f
    <2>1. k * b < (f + 1) * b
      BY <1>1, <1>2
    <2>2. k < f + 1
      BY <1>1, <2>1, Cancel
    <2>3. QED
      BY <1>1, <2>2
  <1>3. ASSUME a <= k * b
        PROVE  f <= k
    <2>1. f * b <= k * b
      BY <1>1, <1>3
    <2>2. QED
      BY <1>1, <2>1, Cancel
  <1>4. QED
    BY <1>2, <1>3 DEF f

\* What is bought for x at a better price is no less.
LEMMA BetterPrice ==
  ASSUME NEW x \in Nat, NEW m \in Nat, NEW n \in Nat \ {0}, NEW m2 \in Nat, NEW n2 \in Nat \ {0},
         m * n2 <= m2 * n
  PROVE  (x * m) \div n <= (x * m2) \div n2
  <1> DEFINE k == (x * m) \div n
  <1>1. k \in Int /\ k * n <= x * m /\ x * m \in Int /\ x * m2 \in Int
    BY Floor, Regroup
  <1> HIDE DEF k
  <1>2. (k * n) * n2 <= (x * m) * n2
    BY <1>1, Regroup, Products
  <1>3. (m * n2) * x <= (m2 * n) * x
    BY Regroup, Products
  <1>4. (k * n) * n2 = (k * n2) * n
    BY <1>1, Regroup
  <1>5. (x * m) * n2 = (m * n2) * x
    BY Regroup
  <1>6. (m2 * n) * x = (x * m2) * n
    BY Regroup
  <1>7. k * n2 \in Int /\ (k * n2) * n \in Int /\ (x * m2) * n \in Int /\ (m * n2) * x \in Int
    BY <1>1, Regroup
  <1>8. (k * n2) * n <= (x * m2) * n
    BY <1>2, <1>3, <1>4, <1>5, <1>6, <1>7
  <1>9. k * n2 <= x * m2
    BY <1>1, <1>7, <1>8, Cancel
  <1>10. QED
    BY <1>1, <1>9, FloorBounds DEF k

\* What y pays for at a price is worth no more than y at a worse one.
LEMMA WorsePrice ==
  ASSUME NEW y \in Nat, NEW m \in Nat, NEW n \in Nat \ {0}, NEW m2 \in Nat \ {0}, NEW n2 \in Nat \ {0},
         m * n2 <= m2 * n, NEW z \in Nat, z <= (y * n2) \div m2
  PROVE  (z * m) \div n <= y
  <1> DEFINE f == (y * n2) \div m2
  <1>1. f \in Int /\ f * m2 <= y * n2 /\ y * n2 \in Int /\ z <= f
    BY Floor, Regroup
  <1> HIDE DEF f
  <1>2. z * m2 <= f * m2 /\ z * m2 \in Int /\ f * m2 \in Int
    BY <1>1, Products
  <1>3. z * m2 <= y * n2
    BY <1>1, <1>2
  <1>4. (z * m2) * n <= (y * n2) * n
    BY <1>1, <1>2, <1>3, Products
  <1>5. (m * n2) * z <= (m2 * n) * z
    BY Regroup, Products
  <1>6. /\ (m * n2) * z = (z * m) * n2
        /\ (m2 * n) * z = (z * m2) * n
        /\ (y * n2) * n = (y * n) * n2
    BY Regroup
  <1>7. /\ (m * n2) * z \in Int /\ (m2 * n) * z \in Int /\ (y * n2) * n \in Int
        /\ z * m \in Int /\ y * n \in Int
    BY Regroup
  <1>8. (z * m) * n2 <= (y * n) * n2
    BY <1>4, <1>5, <1>6, <1>7
  <1>9. z * m <= y * n
    BY <1>7, <1>8, Cancel
  <1>10. QED
    BY <1>7, <1>9, FloorBounds

LEMMA FractionOrder ==
  ASSUME NEW x \in Int, NEW p \in Nat \ {0}, NEW y \in Int, NEW q \in Nat \ {0},
         NEW z \in Int, NEW r \in Nat \ {0}, x * q <= y * p, y * r <= z * q
  PROVE  /\ x * r <= z * p
         /\ x * q < y * p \/ y * r < z * q => x * r < z * p
  <1>1. x * q \in Int /\ y * p \in Int /\ y * r \in Int /\ z * q \in Int /\ x * r \in Int /\ z * p \in Int
    BY Regroup
  <1>2. /\ (x * q) * r <= (y * p) * r /\ (y * r) * p <= (z * q) * p
        /\ x * q < y * p => (x * q) * r < (y * p) * r
        /\ y * r < z * q => (y * r) * p < (z * q) * p
    BY <1>1, Products
  <1>3. (x * q) * r = (x * r) * q /\ (y * p) * r = (y * r) * p /\ (z * q) * p = (z * p) * q
    BY Regroup
  <1>4. (x * r) * q \in Int /\ (y * r) * p \in Int /\ (z * p) * q \in Int
    BY <1>1, Regroup
  <1>5. (x * r) * q <= (z * p) * q
    BY <1>2, <1>3, <1>4
  <1>6. x * q < y * p \/ y * r < z * q => (x * r) * q < (z * p) * q
    BY <1>2, <1>3, <1>4
  <1>7. QED
    BY <1>1, <1>5, <1>6, Cancel

----------------------------------------------------------------------------
(* The order of the indexes.                                               *)

Ordered(S, R) ==
  /\ \A x, y \in S : x # y => <<x, y>> \in R \/ <<y, x>> \in R
  /\ \A x, y, z \in S : <<x, y>> \in R /\ <<y, z>> \in R => <<x, z>> \in R

LEMMA LeastExists ==
  ASSUME NEW S, IsFiniteSet(S), S # {}, NEW R, Ordered(S, R)
  PROVE  \E m \in S : \A y \in S \ {m} : <<m, y>> \in R
  <1> DEFINE G == {T \in SUBSET S : T # {} => \E m \in T : \A y \in T \ {m} : <<m, y>> \in R}
  <1>1. ASSUME NEW T \in SUBSET S, \A x \in T : T \ {x} \in G
        PROVE  T \in G
    <2>1. CASE T = {}
      BY <2>1
    <2>2. CASE T # {}
      <3>1. PICK x \in T : TRUE
        BY <2>2
      <3>2. CASE T \ {x} = {}
        BY <3>1, <3>2
      <3>3. CASE T \ {x} # {}
        <4>1. PICK m \in T \ {x} : \A y \in (T \ {x}) \ {m} : <<m, y>> \in R
          BY <1>1, <3>3
        <4>2. CASE <<m, x>> \in R
          BY <4>1, <4>2
        <4>3. CASE <<x, m>> \in R
          <5>1. \A y \in T \ {x} : <<x, y>> \in R
            BY <4>1, <4>3 DEF Ordered
          <5>2. QED
            BY <5>1
        <4>4. QED
          BY <4>1, <4>2, <4>3 DEF Ordered
      <3>4. QED
        BY <3>2, <3>3
    <2>3. QED
      BY <2>1, <2>2
  <1> HIDE DEF G
  <1>2. \A T \in SUBSET S : (\A x \in T : T \ {x} \in G) => T \in G
    BY <1>1
  <1>3. \A T \in SUBSET S : T \in G
    BY <1>2, SubsetInduction
  <1>4. S \in G
    BY <1>3
  <1>5. QED
    BY <1>4 DEF G

\* Prices with a quote are in a weak order.
LEMMA PriceOrder ==
  ASSUME NEW p \in Prices, NEW r \in Prices, NEW s \in Prices, p.q > 0, r.q > 0, s.q > 0
  PROVE  /\ ~(Less(p, r) /\ Less(r, p))
         /\ ~Less(r, p) /\ ~Less(s, r) => ~Less(s, p)
         /\ Less(p, r) /\ ~Less(s, r) => Less(p, s)
         /\ ~Less(r, p) /\ Less(r, s) => Less(p, s)
  <1>1. Assets \subseteq Nat
    BY MarketAssumption
  <1>2. /\ p.base \in Nat /\ p.quote \in Nat /\ p.b \in Int /\ p.q \in Nat \ {0}
        /\ r.base \in Nat /\ r.quote \in Nat /\ r.b \in Int /\ r.q \in Nat \ {0}
        /\ s.base \in Nat /\ s.quote \in Nat /\ s.b \in Int /\ s.q \in Nat \ {0}
    <2>1. /\ p.base \in Assets /\ p.quote \in Assets /\ p.b \in Int /\ p.q \in Int
          /\ r.base \in Assets /\ r.quote \in Assets /\ r.b \in Int /\ r.q \in Int
          /\ s.base \in Assets /\ s.quote \in Assets /\ s.b \in Int /\ s.q \in Int
      BY DEF Prices
    <2>2. /\ p.base \in Nat /\ p.quote \in Nat /\ r.base \in Nat /\ r.quote \in Nat
          /\ s.base \in Nat /\ s.quote \in Nat
      BY <1>1, <2>1
    <2>3. p.q \in Nat \ {0} /\ r.q \in Nat \ {0} /\ s.q \in Nat \ {0}
      BY <2>1
    <2>4. QED
      BY <2>1, <2>2, <2>3
  <1>3. /\ p.b * r.q \in Int /\ r.b * p.q \in Int /\ r.b * s.q \in Int
        /\ s.b * r.q \in Int /\ p.b * s.q \in Int /\ s.b * p.q \in Int
    BY <1>2, Regroup
  <1>4. /\ p.b * r.q <= r.b * p.q /\ r.b * s.q <= s.b * r.q => p.b * s.q <= s.b * p.q
        /\ p.b * r.q < r.b * p.q /\ r.b * s.q <= s.b * r.q => p.b * s.q < s.b * p.q
        /\ p.b * r.q <= r.b * p.q /\ r.b * s.q < s.b * r.q => p.b * s.q < s.b * p.q
    BY <1>2, <1>3, FractionOrder
  <1>5. QED
    BY <1>2, <1>3, <1>4 DEF Less

LEMMA FirstOfBook ==
  ASSUME NEW S, IsFiniteSet(S), S # {}, S \subseteq Orders,
         \A x, y \in S : x.id = y.id => x = y, \A x \in S : x.price.q > 0
  PROVE  First(S, BookBefore) \in S
  <1> DEFINE R == {w \in S \X S : BookBefore(w[1], w[2])}
  <1>1. \A x \in S : x.price \in Prices /\ x.id \in Nat /\ x.kind \in {"limit", "short"}
    BY DEF Orders
  <1>2. \A x, y \in S : <<x, y>> \in R <=> BookBefore(x, y)
    OBVIOUS
  <1> HIDE DEF R
  <1>3. ASSUME NEW x \in S, NEW y \in S, x # y
        PROVE  <<x, y>> \in R \/ <<y, x>> \in R
    BY <1>1, <1>2, <1>3 DEF BookBefore, IsLimit
  <1>4. ASSUME NEW x \in S, NEW y \in S, NEW z \in S, <<x, y>> \in R, <<y, z>> \in R
        PROVE  <<x, z>> \in R
    <2>1. BookBefore(x, y) /\ BookBefore(y, z)
      BY <1>2, <1>4
    <2>2. \A u, v, w \in {x, y, z} :
             /\ ~(Less(u.price, v.price) /\ Less(v.price, u.price))
             /\ ~Less(v.price, u.price) /\ ~Less(w.price, v.price) => ~Less(w.price, u.price)
             /\ Less(u.price, v.price) /\ ~Less(w.price, v.price) => Less(u.price, w.price)
             /\ ~Less(v.price, u.price) /\ Less(v.price, w.price) => Less(u.price, w.price)
      BY <1>1, PriceOrder
    <2>3. BookBefore(x, z)
      BY <1>1, <2>1, <2>2 DEF BookBefore, IsLimit
    <2>4. QED
      BY <1>2, <2>3
  <1>5. \E m \in S : \A y \in S \ {m} : <<m, y>> \in R
    <2>1. Ordered(S, R)
      BY <1>3, <1>4 DEF Ordered
    <2>2. QED
      BY <2>1, LeastExists
  <1>6. \E m \in S : \A y \in S \ {m} : BookBefore(m, y)
    BY <1>2, <1>5
  <1>7. QED
    BY <1>6 DEF First

LEMMA FirstOfCalls ==
  ASSUME NEW S, IsFiniteSet(S), S # {}, S \subseteq Calls,
         \A x, y \in S : x.id = y.id => x = y, \A c \in S : CallInv(c)
  PROVE  First(S, CallBefore) \in S /\ First(S, CollateralBefore) \in S
  <1> DEFINE P(c) == c.call_price
             Q(c) == Collateralization(c)
             R == {w \in S \X S : CallBefore(w[1], w[2])}
             T == {w \in S \X S : CollateralBefore(w[1], w[2])}
  <1>1. \A x \in S : /\ x.id \in Nat /\ P(x) \in Prices /\ Q(x) \in Prices
                     /\ P(x).q > 0 /\ Q(x).q > 0
    BY MarketAssumption DEF Calls, CallInv, Collateralization, Price, Prices
  <1>2. \A x, y \in S : /\ <<x, y>> \in R <=> CallBefore(x, y)
                        /\ <<x, y>> \in T <=> CollateralBefore(x, y)
    OBVIOUS
  <1>3. \A x, y \in S : /\ CallBefore(x, y) <=> \/ Less(P(x), P(y))
                                                \/ ~Less(P(y), P(x)) /\ x.id < y.id
                        /\ CollateralBefore(x, y) <=> \/ Less(Q(x), Q(y))
                                                      \/ ~Less(Q(y), Q(x)) /\ x.id < y.id
    BY DEF CallBefore, CollateralBefore
  <1>4. \A x, y, z \in S :
           /\ ~(Less(P(x), P(y)) /\ Less(P(y), P(x)))
           /\ ~Less(P(y), P(x)) /\ ~Less(P(z), P(y)) => ~Less(P(z), P(x))
           /\ Less(P(x), P(y)) /\ ~Less(P(z), P(y)) => Less(P(x), P(z))
           /\ ~Less(P(y), P(x)) /\ Less(P(y), P(z)) => Less(P(x), P(z))
    BY <1>1, PriceOrder
  <1>5. \A x, y, z \in S :
           /\ ~(Less(Q(x), Q(y)) /\ Less(Q(y), Q(x)))
           /\ ~Less(Q(y), Q(x)) /\ ~Less(Q(z), Q(y)) => ~Less(Q(z), Q(x))
           /\ Less(Q(x), Q(y)) /\ ~Less(Q(z), Q(y)) => Less(Q(x), Q(z))
           /\ ~Less(Q(y), Q(x)) /\ Less(Q(y), Q(z)) => Less(Q(x), Q(z))
    BY <1>1, PriceOrder
  <1> HIDE DEF R, T, P, Q
  <1>6. ASSUME NEW x \in S, NEW y \in S, x # y
        PROVE  /\ <<x, y>> \in R \/ <<y, x>> \in R
               /\ <<x, y>> \in T \/ <<y, x>> \in T
    BY <1>1, <1>2, <1>3, <1>6
  <1>7. ASSUME NEW x \in S, NEW y \in S, NEW z \in S
        PROVE  /\ <<x, y>> \in R /\ <<y, z>> \in R => <<x, z>> \in R
               /\ <<x, y>> \in T /\ <<y, z>> \in T => <<x, z>> \in T
    <2>1. x.id \in Nat /\ y.id \in Nat /\ z.id \in Nat
      BY <1>1
    <2>2. CallBefore(x, y) /\ CallBefore(y, z) => CallBefore(x, z)
      BY <2>1, <1>3, <1>4
    <2>3. CollateralBefore(x, y) /\ CollateralBefore(y, z) => CollateralBefore(x, z)
      BY <2>1, <1>3, <1>5
    <2>4. QED
      BY <1>2, <2>2, <2>3
  <1>8. \E m \in S : \A y \in S \ {m} : <<m, y>> \in R
    <2>1. Ordered(S, R)
      BY <1>6, <1>7 DEF Ordered
    <2>2. QED
      BY <2>1, LeastExists
  <1>9. \E m \in S : \A y \in S \ {m} : <<m, y>> \in T
    <2>1. Ordered(S, T)
      BY <1>6, <1>7 DEF Ordered
    <2>2. QED
      BY <2>1, LeastExists
  <1>10. QED
    BY <1>2, <1>8, <1>9 DEF First

\* The oldest settlement.
FirstSettlement(S) == First(S, LAMBDA x, y : x.id < y.id)

LEMMA FirstOfSettlements ==
  ASSUME NEW S, S # {}, S \subseteq Settlements, \A x, y \in S : x.id = y.id => x = y
  PROVE  FirstSettlement(S) \in S
  <1> DEFINE T == {x.id : x \in S}
  <1>1. T \subseteq Nat /\ T # {}
    BY DEF Settlements
  <1>2. PICK i \in T : \A j \in T : i <= j
    BY <1>1, LeastNat
  <1>3. PICK m \in S : m.id = i
    BY <1>2
  <1>4. \A y \in S \ {m} : m.id < y.id
    BY <1>1, <1>2, <1>3
  <1>5. QED
    BY <1>3, <1>4 DEF FirstSettlement, First

----------------------------------------------------------------------------
(* Sums.                                                                   *)

\* What is summed, as functions.
LockedOf(s) == [o \in Orders |-> Locked(o, s)]
OwnLocked(a) == [o \in Orders |-> IF o.seller = a THEN Locked(o, Core) ELSE 0]
DebtOf == [c \in Calls |-> c.debt]
CollateralOf == [c \in Calls |-> c.collateral]
OwnCollateral(a) == [c \in Calls |-> IF c.borrower = a /\ Backing = Core THEN c.collateral ELSE 0]
BalanceOf == [x \in Settlements |-> x.balance]
BalanceIn(d, s) == [a \in Accounts |-> d.balance[a][s]]

\* The total of a part of a function.
LEMMA TotalIs ==
  ASSUME NEW f, NEW S, IsFiniteSet(S), NEW e, e = [x \in S |-> f[x]]
  PROVE  Total(e) = Sum(f, S)
  <1>1. Total(e) = Sum(e, S)
    BY DEF Total, Sum
  <1>2. Sum(e, S) = Sum(f, S)
    BY SumSame
  <1>3. QED
    BY <1>1, <1>2

\* One element is taken out, put in, or takes the place of another one.
LEMMA SumDrop ==
  ASSUME NEW f, NEW S, IsFiniteSet(S), \A x \in S : f[x] \in Int, NEW a \in S
  PROVE  /\ IsFiniteSet(S \ {a}) /\ Sum(f, S) \in Int
         /\ Sum(f, S \ {a}) = Sum(f, S) - f[a]
  <1>1. IsFiniteSet(S \ {a})
    BY FS_RemoveElement
  <1>2. Sum(f, S) \in Int /\ Sum(f, S \ {a}) \in Int
    BY <1>1, SumType
  <1>3. Sum(f, S) = f[a] + Sum(f, S \ {a})
    BY SumRemove
  <1>4. QED
    BY <1>1, <1>2, <1>3

LEMMA SumInsert ==
  ASSUME NEW f, NEW S, IsFiniteSet(S), \A x \in S : f[x] \in Int, NEW a, a \notin S, f[a] \in Int
  PROVE  IsFiniteSet(S \cup {a}) /\ Sum(f, S \cup {a}) = Sum(f, S) + f[a]
  BY FS_AddElement, SumAdd

LEMMA SumSwap ==
  ASSUME NEW f, NEW S, IsFiniteSet(S), \A x \in S : f[x] \in Int, NEW a \in S,
         NEW b, b \notin S \ {a}, f[b] \in Int
  PROVE  /\ IsFiniteSet((S \ {a}) \cup {b})
         /\ Sum(f, (S \ {a}) \cup {b}) = Sum(f, S) - f[a] + f[b]
  <1>1. /\ IsFiniteSet(S \ {a}) /\ Sum(f, S) \in Int
        /\ Sum(f, S \ {a}) = Sum(f, S) - f[a]
    BY SumDrop
  <1>2. /\ IsFiniteSet((S \ {a}) \cup {b})
        /\ Sum(f, (S \ {a}) \cup {b}) = Sum(f, S \ {a}) + f[b]
    BY <1>1, SumInsert
  <1>3. QED
    BY <1>1, <1>2

\* The sums have terms.
LEMMA Terms ==
  /\ \A s : \A o \in Orders : LockedOf(s)[o] = Locked(o, s) /\ LockedOf(s)[o] \in Int
  /\ \A a : \A o \in Orders : /\ OwnLocked(a)[o] = IF o.seller = a THEN Locked(o, Core) ELSE 0
                              /\ OwnLocked(a)[o] \in Int
  /\ \A c \in Calls : /\ DebtOf[c] = c.debt /\ DebtOf[c] \in Int
                      /\ CollateralOf[c] = c.collateral /\ CollateralOf[c] \in Int
  /\ \A a : \A c \in Calls :
        /\ OwnCollateral(a)[c] = IF c.borrower = a /\ Backing = Core THEN c.collateral ELSE 0
        /\ OwnCollateral(a)[c] \in Int
  /\ \A x \in Settlements : BalanceOf[x] = x.balance /\ BalanceOf[x] \in Int
  <1>1. \A s : \A o \in Orders : Locked(o, s) \in Int
    BY DEF Locked, Orders
  <1>2. \A c \in Calls : c.debt \in Int /\ c.collateral \in Int
    BY DEF Calls
  <1>3. \A x \in Settlements : x.balance \in Int
    BY DEF Settlements
  <1>4. QED
    BY <1>1, <1>2, <1>3 DEF LockedOf, OwnLocked, DebtOf, CollateralOf, OwnCollateral, BalanceOf

\* What the properties speak of, in these terms.
CollateralIn(d, s) == IF s = Backing THEN Sum(CollateralOf, d.calls) ELSE 0
SettledIn(d, s) == IF s = Mia THEN Sum(BalanceOf, d.settlements) ELSE 0
HeldSum(d, s) ==
  Sum(BalanceIn(d, s), Accounts) + d.fees[s] + Sum(LockedOf(s), d.orders)
  + CollateralIn(d, s) + SettledIn(d, s)
CoreSum(a, d) == Sum(OwnLocked(a), d.orders) + Sum(OwnCollateral(a), d.calls)
DebtSum(d) == Sum(DebtOf, d.calls)

LEMMA SumsAre ==
  ASSUME NEW d, DbType(d)
  PROVE  /\ \A s \in Assets : /\ Held(d, s) = HeldSum(d, s)
                              /\ Sum(BalanceIn(d, s), Accounts) \in Int
                              /\ Sum(LockedOf(s), d.orders) \in Int /\ d.fees[s] \in Int
                              /\ d.supply[s] \in Int
                              /\ CollateralIn(d, s) \in Int /\ SettledIn(d, s) \in Int
         /\ Sum(CollateralOf, d.calls) \in Int /\ Sum(BalanceOf, d.settlements) \in Int
         /\ \A a \in Accounts : /\ CoreOf(a, d) = CoreSum(a, d)
                                /\ Sum(OwnLocked(a), d.orders) \in Int
                                /\ Sum(OwnCollateral(a), d.calls) \in Int
                                /\ d.core_in_orders[a] \in Int
         /\ Total([c \in d.calls |-> c.debt]) = DebtSum(d) /\ DebtSum(d) \in Int
  <1>1. /\ d.orders \subseteq Orders /\ d.calls \subseteq Calls /\ d.settlements \subseteq Settlements
        /\ IsFiniteSet(d.orders) /\ IsFiniteSet(d.calls) /\ IsFiniteSet(d.settlements)
        /\ d.fees \in [Assets -> Int] /\ d.supply \in [Assets -> Int]
        /\ d.balance \in [Accounts -> [Assets -> Int]] /\ d.core_in_orders \in [Accounts -> Int]
        /\ IsFiniteSet(Accounts)
    BY MarketAssumption DEF DbType, Dbs
  <1>2. ASSUME NEW s \in Assets
        PROVE  /\ Total([a \in Accounts |-> d.balance[a][s]]) = Sum(BalanceIn(d, s), Accounts)
               /\ Sum(BalanceIn(d, s), Accounts) \in Int
               /\ Total([o \in d.orders |-> Locked(o, s)]) = Sum(LockedOf(s), d.orders)
               /\ Sum(LockedOf(s), d.orders) \in Int
    <2>1. \A a \in Accounts : BalanceIn(d, s)[a] \in Int
      BY <1>1 DEF BalanceIn
    <2>2. Total(BalanceIn(d, s)) = Sum(BalanceIn(d, s), Accounts)
      BY <1>1, TotalIs DEF BalanceIn
    <2>3. Sum(BalanceIn(d, s), Accounts) \in Int
      BY <1>1, <2>1, SumType
    <2>4. [o \in d.orders |-> Locked(o, s)] = [o \in d.orders |-> LockedOf(s)[o]]
      BY <1>1, Terms
    <2>5. Total([o \in d.orders |-> Locked(o, s)]) = Sum(LockedOf(s), d.orders)
      BY <1>1, <2>4, TotalIs
    <2>6. Sum(LockedOf(s), d.orders) \in Int
      BY <1>1, Terms, SumType
    <2>7. QED
      BY <2>2, <2>3, <2>5, <2>6 DEF BalanceIn
  <1>3. /\ Total([c \in d.calls |-> c.collateral]) = Sum(CollateralOf, d.calls)
        /\ Sum(CollateralOf, d.calls) \in Int
    <2>1. [c \in d.calls |-> c.collateral] = [c \in d.calls |-> CollateralOf[c]]
      BY <1>1, Terms
    <2>2. \A c \in d.calls : CollateralOf[c] \in Int
      BY <1>1, Terms
    <2>3. QED
      BY <1>1, <2>1, <2>2, TotalIs, SumType
  <1>4. /\ Total([x \in d.settlements |-> x.balance]) = Sum(BalanceOf, d.settlements)
        /\ Sum(BalanceOf, d.settlements) \in Int
    <2>1. [x \in d.settlements |-> x.balance] = [x \in d.settlements |-> BalanceOf[x]]
      BY <1>1, Terms
    <2>2. \A x \in d.settlements : BalanceOf[x] \in Int
      BY <1>1, Terms
    <2>3. QED
      BY <1>1, <2>1, <2>2, TotalIs, SumType
  <1>5. Total([c \in d.calls |-> c.debt]) = DebtSum(d) /\ DebtSum(d) \in Int
    <2>1. [c \in d.calls |-> c.debt] = [c \in d.calls |-> DebtOf[c]]
      BY <1>1, Terms
    <2>2. \A c \in d.calls : DebtOf[c] \in Int
      BY <1>1, Terms
    <2>3. QED
      BY <1>1, <2>1, <2>2, TotalIs, SumType DEF DebtSum
  <1>6. ASSUME NEW a \in Accounts
        PROVE  /\ CoreOf(a, d) = CoreSum(a, d)
               /\ Sum(OwnLocked(a), d.orders) \in Int
               /\ Sum(OwnCollateral(a), d.calls) \in Int
    <2>1. [o \in d.orders |-> IF o.seller = a THEN Locked(o, Core) ELSE 0]
            = [o \in d.orders |-> OwnLocked(a)[o]]
      BY <1>1, Terms
    <2>2. [c \in d.calls |-> IF c.borrower = a /\ Backing = Core THEN c.collateral ELSE 0]
            = [c \in d.calls |-> OwnCollateral(a)[c]]
      BY <1>1, Terms
    <2>3. /\ \A o \in d.orders : OwnLocked(a)[o] \in Int
          /\ \A c \in d.calls : OwnCollateral(a)[c] \in Int
      BY <1>1, Terms
    <2>4. Total([o \in d.orders |-> IF o.seller = a THEN Locked(o, Core) ELSE 0])
            = Sum(OwnLocked(a), d.orders)
      BY <1>1, <2>1, TotalIs
    <2>5. Total([c \in d.calls |-> IF c.borrower = a /\ Backing = Core THEN c.collateral ELSE 0])
            = Sum(OwnCollateral(a), d.calls)
      BY <1>1, <2>2, TotalIs
    <2>6. QED
      BY <1>1, <2>3, <2>4, <2>5, SumType DEF CoreOf, CoreSum
  <1>7. ASSUME NEW s \in Assets
        PROVE  /\ Held(d, s) = HeldSum(d, s)
               /\ CollateralIn(d, s) \in Int /\ SettledIn(d, s) \in Int
    BY <1>2, <1>3, <1>4 DEF Held, HeldSum, CollateralIn, SettledIn
  <1>8. QED
    BY <1>1, <1>2, <1>3, <1>4, <1>5, <1>6, <1>7

----------------------------------------------------------------------------
(* What a change of the database does to the sums.                         *)

\* What the books say there is more than there should be.
Surplus(d, s) == HeldSum(d, s) - d.supply[s]
CoreGap(d, a) == d.core_in_orders[a] - CoreSum(a, d)
DebtGap(d) == d.supply[Mia] - DebtSum(d)

\* Nobody is in debt, and no order is.
Solvent(d) ==
  /\ \A a \in Accounts, s \in Assets : d.balance[a][s] >= 0
  /\ \A o \in d.orders : o.collateral >= 0
  /\ \A c \in d.calls : c.collateral >= 0

LEMMA GapTypes ==
  ASSUME NEW d, DbType(d)
  PROVE  /\ \A s \in Assets : Surplus(d, s) \in Int /\ HeldSum(d, s) \in Int
         /\ \A a \in Accounts : CoreGap(d, a) \in Int
         /\ DebtGap(d) \in Int
  <1>1. ASSUME NEW s \in Assets
        PROVE  Surplus(d, s) \in Int /\ HeldSum(d, s) \in Int
    <2>1. /\ Sum(BalanceIn(d, s), Accounts) \in Int /\ Sum(LockedOf(s), d.orders) \in Int
          /\ d.fees[s] \in Int /\ d.supply[s] \in Int
          /\ CollateralIn(d, s) \in Int /\ SettledIn(d, s) \in Int
      BY SumsAre
    <2>2. QED
      BY <2>1 DEF Surplus, HeldSum
  <1>2. ASSUME NEW a \in Accounts
        PROVE  CoreGap(d, a) \in Int
    <2>1. /\ Sum(OwnLocked(a), d.orders) \in Int /\ Sum(OwnCollateral(a), d.calls) \in Int
          /\ d.core_in_orders[a] \in Int
      BY SumsAre
    <2>2. QED
      BY <2>1 DEF CoreGap, CoreSum
  <1>3. d.supply[Mia] \in Int /\ DebtSum(d) \in Int
    BY MarketAssumption, SumsAre
  <1>4. QED
    BY <1>1, <1>2, <1>3 DEF DebtGap

\* x at s, nothing elsewhere.
At1(s, t, x) == IF t = s THEN x ELSE 0

\* What only touches balances, fees, statistics and orders.
Untouched(d, e) ==
  /\ e.calls = d.calls /\ e.supply = d.supply /\ e.settlements = d.settlements
  /\ e.next_id = d.next_id /\ e.force_settled = d.force_settled

LEMMA AdjustEffect ==
  ASSUME NEW d, DbType(d), NEW a \in Accounts, NEW s \in Assets, NEW x \in Int
  PROVE  LET e == Adjust(d, a, s, x)
         IN  /\ DbType(e) /\ Untouched(d, e) /\ e.aborted = d.aborted /\ e.orders = d.orders
             /\ \A t \in Assets : Surplus(e, t) = Surplus(d, t) + At1(s, t, x)
             /\ \A b \in Accounts : CoreGap(e, b) = CoreGap(d, b)
             /\ DebtGap(e) = DebtGap(d)
             /\ Solvent(d) /\ (d.balance[a][s] + x >= 0) => Solvent(e)
  <1> DEFINE e == Adjust(d, a, s, x)
             bal == [d.balance EXCEPT ![a][s] = @ + x]
  <1>1. d \in Dbs /\ d.balance \in [Accounts -> [Assets -> Int]]
    BY DEF DbType, Dbs
  <1>2. bal \in [Accounts -> [Assets -> Int]]
    BY <1>1
  <1>3. e = [d EXCEPT !.balance = bal]
    BY DEF Adjust
  <1>4. \A b \in Accounts, t \in Assets : bal[b][t] = d.balance[b][t] + (IF b = a /\ t = s THEN x ELSE 0)
    BY <1>1
  <1> HIDE DEF bal, e
  <1>5. /\ e \in Dbs /\ e.balance = bal /\ e.core_in_orders = d.core_in_orders
        /\ e.supply = d.supply /\ e.fees = d.fees /\ e.orders = d.orders /\ e.calls = d.calls
        /\ e.settlements = d.settlements /\ e.next_id = d.next_id
    BY <1>1, <1>2, <1>3 DEF Dbs
  <1>6. DbType(e)
    BY <1>5 DEF DbType
  <1>7. Untouched(d, e) /\ e.aborted = d.aborted /\ e.orders = d.orders
    BY <1>1, <1>3, <1>5 DEF Untouched, Dbs
  <1>8. ASSUME NEW t \in Assets
        PROVE  Surplus(e, t) = Surplus(d, t) + At1(s, t, x)
    <2>1. /\ BalanceIn(e, t) = [b \in Accounts |-> bal[b][t]]
          /\ \A b \in Accounts : BalanceIn(d, t)[b] = d.balance[b][t] /\ BalanceIn(d, t)[b] \in Int
      BY <1>1, <1>5 DEF BalanceIn
    <2>2. \A b \in Accounts \ {a} : BalanceIn(e, t)[b] = BalanceIn(d, t)[b]
      BY <1>1, <1>4, <2>1
    <2>3. BalanceIn(e, t)[a] = BalanceIn(d, t)[a] + At1(s, t, x) /\ BalanceIn(e, t)[a] \in Int
      BY <1>1, <1>4, <2>1 DEF At1
    <2>4. Sum(BalanceIn(e, t), Accounts) = Sum(BalanceIn(d, t), Accounts) + BalanceIn(e, t)[a] - BalanceIn(d, t)[a]
      BY <2>1, <2>2, <2>3, SumChange, MarketAssumption
    <2>5. /\ Sum(BalanceIn(d, t), Accounts) \in Int /\ Sum(LockedOf(t), d.orders) \in Int
          /\ d.fees[t] \in Int /\ d.supply[t] \in Int
          /\ CollateralIn(d, t) \in Int /\ SettledIn(d, t) \in Int
      BY SumsAre
    <2>6. At1(s, t, x) \in Int
      BY DEF At1
    <2>7. Sum(BalanceIn(e, t), Accounts) = Sum(BalanceIn(d, t), Accounts) + At1(s, t, x)
      BY <2>1, <2>3, <2>4, <2>5, <2>6
    <2>8. CollateralIn(e, t) = CollateralIn(d, t) /\ SettledIn(e, t) = SettledIn(d, t)
      BY <1>5 DEF CollateralIn, SettledIn
    <2>9. QED
      BY <1>5, <2>5, <2>6, <2>7, <2>8 DEF Surplus, HeldSum
  <1>9. /\ \A b \in Accounts : CoreGap(e, b) = CoreGap(d, b)
        /\ DebtGap(e) = DebtGap(d)
    BY <1>5 DEF CoreGap, CoreSum, DebtGap, DebtSum
  <1>10. Solvent(d) /\ (d.balance[a][s] + x >= 0) => Solvent(e)
    BY <1>1, <1>4, <1>5 DEF Solvent
  <1>11. QED
    BY <1>6, <1>7, <1>8, <1>9, <1>10 DEF e

\* The same of a database that an adjustment is known to give.
LEMMA AdjustedEffect ==
  ASSUME NEW d, DbType(d), NEW a \in Accounts, NEW s \in Assets, NEW x \in Int, NEW e, e = Adjust(d, a, s, x)
  PROVE  /\ DbType(e) /\ Untouched(d, e) /\ e.aborted = d.aborted /\ e.orders = d.orders
         /\ \A t \in Assets : Surplus(e, t) = Surplus(d, t) + At1(s, t, x)
         /\ \A b \in Accounts : CoreGap(e, b) = CoreGap(d, b)
         /\ DebtGap(e) = DebtGap(d)
         /\ Solvent(d) /\ (d.balance[a][s] + x >= 0) => Solvent(e)
  BY AdjustEffect, ZenonT(60)

LEMMA CoreInOrdersEffect ==
  ASSUME NEW d, DbType(d), NEW a \in Accounts, NEW s \in Assets, NEW x \in Int
  PROVE  LET e == CoreInOrders(d, a, s, x)
         IN  /\ DbType(e) /\ Untouched(d, e) /\ e.aborted = d.aborted /\ e.orders = d.orders /\ e.balance = d.balance
             /\ \A t \in Assets : Surplus(e, t) = Surplus(d, t)
             /\ \A b \in Accounts : CoreGap(e, b) = CoreGap(d, b) + At1(a, b, At1(Core, s, x))
             /\ DebtGap(e) = DebtGap(d)
             /\ Solvent(d) => Solvent(e)
  <1> DEFINE e == CoreInOrders(d, a, s, x)
             core == [d.core_in_orders EXCEPT ![a] = @ + At1(Core, s, x)]
  <1>1. d \in Dbs /\ d.core_in_orders \in [Accounts -> Int] /\ At1(Core, s, x) \in Int
    BY DEF DbType, Dbs, At1
  <1>2. core \in [Accounts -> Int]
    BY <1>1
  <1>3. e = [d EXCEPT !.core_in_orders = core]
    <2>1. CASE s = Core
      BY <2>1 DEF CoreInOrders, At1
    <2>2. CASE s # Core
      <3>1. core = d.core_in_orders
        BY <1>1, <2>2 DEF At1
      <3>2. d = [d EXCEPT !.core_in_orders = d.core_in_orders]
        BY <1>1 DEF Dbs
      <3>3. QED
        BY <2>2, <3>1, <3>2 DEF CoreInOrders
    <2>3. QED
      BY <2>1, <2>2
  <1>4. \A b \in Accounts : core[b] = d.core_in_orders[b] + At1(a, b, At1(Core, s, x))
    <2> DEFINE y == At1(Core, s, x)
    <2> HIDE DEF y
    <2>1. y \in Int /\ core = [d.core_in_orders EXCEPT ![a] = @ + y]
      BY <1>1 DEF y
    <2>2. \A b \in Accounts : core[b] = d.core_in_orders[b] + (IF b = a THEN y ELSE 0)
      BY <1>1, <2>1
    <2>3. QED
      BY <2>2 DEF y, At1
  <1> HIDE DEF core, e
  <1>5. /\ e \in Dbs /\ e.balance = d.balance /\ e.core_in_orders = core
        /\ e.supply = d.supply /\ e.fees = d.fees /\ e.orders = d.orders /\ e.calls = d.calls
        /\ e.settlements = d.settlements /\ e.next_id = d.next_id
    BY <1>1, <1>2, <1>3 DEF Dbs
  <1>6. DbType(e)
    BY <1>5 DEF DbType
  <1>7. Untouched(d, e) /\ e.aborted = d.aborted /\ e.orders = d.orders /\ e.balance = d.balance
    BY <1>1, <1>3, <1>5 DEF Untouched, Dbs
  <1>8. /\ \A t \in Assets : Surplus(e, t) = Surplus(d, t)
        /\ DebtGap(e) = DebtGap(d)
    BY <1>5 DEF Surplus, HeldSum, BalanceIn, CollateralIn, SettledIn, DebtGap, DebtSum
  <1>9. ASSUME NEW b \in Accounts
        PROVE  CoreGap(e, b) = CoreGap(d, b) + At1(a, b, At1(Core, s, x))
    <2>1. CoreSum(b, e) = CoreSum(b, d)
      BY <1>5 DEF CoreSum
    <2>2. /\ Sum(OwnLocked(b), d.orders) \in Int /\ Sum(OwnCollateral(b), d.calls) \in Int
          /\ d.core_in_orders[b] \in Int
      BY SumsAre
    <2>3. CoreSum(b, d) \in Int
      BY <2>2 DEF CoreSum
    <2>4. At1(a, b, At1(Core, s, x)) \in Int
      BY <1>1 DEF At1
    <2>5. QED
      BY <1>4, <1>5, <2>1, <2>2, <2>3, <2>4 DEF CoreGap
  <1>10. Solvent(d) => Solvent(e)
    BY <1>5 DEF Solvent
  <1>11. QED
    BY <1>6, <1>7, <1>8, <1>9, <1>10 DEF e

\* The market fee.
LEMMA FeeType ==
  ASSUME NEW s \in Assets, NEW x \in Nat
  PROVE  CalculateMarketFee(s, x) \in Nat
  <1>1. MarketFee[s].percent \in Nat /\ MarketFee[s].min \in Nat /\ MarketFee[s].max \in Nat
    BY MarketAssumption
  <1>2. x * MarketFee[s].percent \in Nat
    BY <1>1
  <1>3. (x * MarketFee[s].percent) \div 100 \in Nat
    BY <1>2
  <1>4. QED
    BY <1>1, <1>3 DEF CalculateMarketFee

LEMMA FeesEffect ==
  ASSUME NEW d, DbType(d), NEW s \in Assets, NEW x \in Nat
  PROVE  LET e == PayMarketFees(d, s, x)
             fee == CalculateMarketFee(s, x)
         IN  /\ DbType(e) /\ fee \in Nat /\ e.orders = d.orders /\ e.balance = d.balance
             /\ Untouched(d, e)
             /\ e.aborted <=> d.aborted \/ fee > x
             /\ \A t \in Assets : Surplus(e, t) = Surplus(d, t) + At1(s, t, fee)
             /\ \A b \in Accounts : CoreGap(e, b) = CoreGap(d, b)
             /\ DebtGap(e) = DebtGap(d)
             /\ Solvent(d) => Solvent(e)
  <1> DEFINE e == PayMarketFees(d, s, x)
             fee == CalculateMarketFee(s, x)
             fees == [d.fees EXCEPT ![s] = @ + fee]
             ab == d.aborted \/ ~(fee <= x)
  <1>1. d \in Dbs /\ d.fees \in [Assets -> Int] /\ d.aborted \in BOOLEAN
    BY DEF DbType, Dbs
  <1>2. fee \in Nat
    BY FeeType
  <1>3. fees \in [Assets -> Int] /\ ab \in BOOLEAN /\ (ab <=> d.aborted \/ fee > x)
    BY <1>1, <1>2
  <1>4. e = [d EXCEPT !.aborted = ab, !.fees = fees]
    BY <1>1 DEF PayMarketFees, Asserts, Dbs
  <1>5. \A t \in Assets : fees[t] = d.fees[t] + At1(s, t, fee)
    BY <1>1, <1>2 DEF At1
  <1> HIDE DEF fees, ab, e, fee
  <1>6. /\ e \in Dbs /\ e.balance = d.balance /\ e.core_in_orders = d.core_in_orders
        /\ e.supply = d.supply /\ e.fees = fees /\ e.orders = d.orders /\ e.calls = d.calls
        /\ e.settlements = d.settlements /\ e.next_id = d.next_id /\ e.aborted = ab
    BY <1>1, <1>3, <1>4 DEF Dbs
  <1>7. DbType(e)
    BY <1>6 DEF DbType
  <1>8. Untouched(d, e)
    BY <1>1, <1>4, <1>6 DEF Dbs, Untouched
  <1>9. ASSUME NEW t \in Assets
        PROVE  Surplus(e, t) = Surplus(d, t) + At1(s, t, fee)
    <2>1. At1(s, t, fee) \in Int
      BY <1>2 DEF At1
    <2>2. BalanceIn(e, t) = BalanceIn(d, t)
      BY <1>6 DEF BalanceIn
    <2>3. /\ Sum(BalanceIn(d, t), Accounts) \in Int /\ Sum(LockedOf(t), d.orders) \in Int
          /\ d.fees[t] \in Int /\ d.supply[t] \in Int
          /\ CollateralIn(d, t) \in Int /\ SettledIn(d, t) \in Int
      BY SumsAre
    <2>4. CollateralIn(e, t) = CollateralIn(d, t) /\ SettledIn(e, t) = SettledIn(d, t)
      BY <1>6 DEF CollateralIn, SettledIn
    <2>5. e.fees[t] = d.fees[t] + At1(s, t, fee)
      BY <1>5, <1>6
    <2>6. QED
      BY <1>6, <2>1, <2>2, <2>3, <2>4, <2>5 DEF Surplus, HeldSum
  <1>10. /\ \A b \in Accounts : CoreGap(e, b) = CoreGap(d, b)
         /\ DebtGap(e) = DebtGap(d)
    BY <1>6 DEF CoreGap, CoreSum, DebtGap, DebtSum
  <1>11. Solvent(d) => Solvent(e)
    BY <1>6 DEF Solvent
  <1>12. QED
    BY <1>2, <1>3, <1>6, <1>7, <1>8, <1>9, <1>10, <1>11 DEF e, fee

\* The order book changes.
Rebooks(d, e, O, n, f, g) ==
  /\ e = [d EXCEPT !.orders = O, !.next_id = n]
  /\ O \subseteq Orders /\ IsFiniteSet(O) /\ n \in Nat /\ n >= d.next_id
  /\ Identified(O, n) /\ \A o \in O : OrderInv(o)
  /\ f \in [Assets -> Int] /\ g \in [Accounts -> Int]
  /\ \A t \in Assets : Sum(LockedOf(t), O) = Sum(LockedOf(t), d.orders) + f[t]
  /\ \A b \in Accounts : Sum(OwnLocked(b), O) = Sum(OwnLocked(b), d.orders) + g[b]

LEMMA OrdersEffect ==
  ASSUME NEW d, DbType(d), NEW e, NEW O, NEW n, NEW f, NEW g, Rebooks(d, e, O, n, f, g)
  PROVE  /\ DbType(e) /\ e.orders = O
         /\ \A t \in Assets : Surplus(e, t) = Surplus(d, t) + f[t]
         /\ \A b \in Accounts : CoreGap(e, b) = CoreGap(d, b) - g[b]
         /\ DebtGap(e) = DebtGap(d)
         /\ Solvent(d) /\ (\A o \in O : o.collateral >= 0) => Solvent(e)
  <1>1. /\ d \in Dbs /\ d.next_id \in Nat /\ n \in Nat /\ n >= d.next_id
        /\ O \subseteq Orders /\ f \in [Assets -> Int] /\ g \in [Accounts -> Int]
        /\ e = [d EXCEPT !.orders = O, !.next_id = n]
    BY DEF DbType, Dbs, Rebooks
  <1>2. /\ e \in Dbs /\ e.orders = O /\ e.next_id = n /\ e.balance = d.balance
        /\ e.core_in_orders = d.core_in_orders /\ e.supply = d.supply /\ e.fees = d.fees
        /\ e.calls = d.calls /\ e.settlements = d.settlements
    BY <1>1 DEF Dbs
  <1>3. Identified(d.calls, n) /\ Identified(d.settlements, n) /\ n > 0
    <2>1. d.calls \subseteq Calls /\ d.settlements \subseteq Settlements
      BY <1>1 DEF Dbs
    <2>2. (\A x \in d.calls : x.id \in Nat) /\ (\A x \in d.settlements : x.id \in Nat)
      BY <2>1 DEF Calls, Settlements
    <2>3. QED
      BY <1>1, <2>2 DEF DbType, Identified
  <1>4. DbType(e)
    BY <1>2, <1>3 DEF DbType, Rebooks
  <1>5. ASSUME NEW t \in Assets
        PROVE  Surplus(e, t) = Surplus(d, t) + f[t]
    <2>1. /\ Sum(BalanceIn(d, t), Accounts) \in Int /\ Sum(LockedOf(t), d.orders) \in Int
          /\ d.fees[t] \in Int /\ d.supply[t] \in Int
          /\ CollateralIn(d, t) \in Int /\ SettledIn(d, t) \in Int
      BY SumsAre
    <2>2. CollateralIn(e, t) = CollateralIn(d, t) /\ SettledIn(e, t) = SettledIn(d, t)
      BY <1>2 DEF CollateralIn, SettledIn
    <2>3. BalanceIn(e, t) = BalanceIn(d, t)
      BY <1>2 DEF BalanceIn
    <2>4. Sum(LockedOf(t), e.orders) = Sum(LockedOf(t), d.orders) + f[t] /\ f[t] \in Int
      BY <1>1, <1>2 DEF Rebooks
    <2>5. QED
      BY <1>2, <2>1, <2>2, <2>3, <2>4 DEF Surplus, HeldSum
  <1>6. ASSUME NEW b \in Accounts
        PROVE  CoreGap(e, b) = CoreGap(d, b) - g[b]
    <2>1. /\ Sum(OwnLocked(b), d.orders) \in Int /\ Sum(OwnCollateral(b), d.calls) \in Int
          /\ d.core_in_orders[b] \in Int
      BY SumsAre
    <2>2. Sum(OwnLocked(b), e.orders) = Sum(OwnLocked(b), d.orders) + g[b] /\ g[b] \in Int
      BY <1>1, <1>2 DEF Rebooks
    <2>3. QED
      BY <1>2, <2>1, <2>2 DEF CoreGap, CoreSum
  <1>7. DebtGap(e) = DebtGap(d)
    BY <1>2 DEF DebtGap, DebtSum
  <1>8. Solvent(d) /\ (\A o \in O : o.collateral >= 0) => Solvent(e)
    BY <1>2 DEF Solvent
  <1>9. QED
    BY <1>2, <1>4, <1>5, <1>6, <1>7, <1>8

\* The orders of a database.
LEMMA OrderFacts ==
  ASSUME NEW d, DbType(d)
  PROVE  /\ d \in Dbs /\ d.orders \subseteq Orders /\ IsFiniteSet(d.orders) /\ d.next_id \in Nat \ {0}
         /\ \A o \in d.orders : OrderInv(o) /\ o.id < d.next_id /\ o.id \in Nat
         /\ \A x, y \in d.orders : x.id = y.id => x = y
         /\ \A y \in d.orders : WithId(d.orders, y.id) = {y}
  <1>1. d \in Dbs /\ d.orders \subseteq Orders /\ IsFiniteSet(d.orders) /\ d.next_id \in Nat /\ d.next_id > 0
    BY DEF DbType, Dbs
  <1>2. /\ \A o \in d.orders : OrderInv(o) /\ o.id < d.next_id
        /\ \A x, y \in d.orders : x.id = y.id => x = y
    BY DEF DbType, Identified
  <1>3. \A o \in d.orders : o.id \in Nat
    BY <1>1 DEF Orders
  <1>4. \A y \in d.orders : WithId(d.orders, y.id) = {y}
    BY <1>2 DEF WithId
  <1>5. QED
    BY <1>1, <1>2, <1>3, <1>4

LEMMA RemoveEffect ==
  ASSUME NEW d, DbType(d), NEW y \in d.orders, NEW o, o.id = y.id
  PROVE  LET e == RemoveOrder(d, o)
         IN  /\ DbType(e) /\ e = [d EXCEPT !.orders = d.orders \ {y}] /\ e.orders = d.orders \ {y}
             /\ \A t \in Assets : Surplus(e, t) = Surplus(d, t) - Locked(y, t) /\ Locked(y, t) \in Int
             /\ \A b \in Accounts : CoreGap(e, b) = CoreGap(d, b) + At1(y.seller, b, Locked(y, Core))
             /\ DebtGap(e) = DebtGap(d)
             /\ Solvent(d) => Solvent(e)
  <1> DEFINE e == RemoveOrder(d, o)
             O == d.orders \ {y}
             f == [t \in Assets |-> -Locked(y, t)]
             g == [b \in Accounts |-> -At1(y.seller, b, Locked(y, Core))]
  <1>1. /\ d \in Dbs /\ d.orders \subseteq Orders /\ IsFiniteSet(d.orders) /\ d.next_id \in Nat
        /\ \A x \in d.orders : OrderInv(x) /\ x.id < d.next_id
        /\ \A x, z \in d.orders : x.id = z.id => x = z
        /\ WithId(d.orders, y.id) = {y} /\ y \in Orders
    BY OrderFacts
  <1>2. e = [d EXCEPT !.orders = O]
    BY <1>1 DEF RemoveOrder, WithId
  <1>3. e = [d EXCEPT !.orders = O, !.next_id = d.next_id]
    BY <1>1, <1>2 DEF Dbs
  <1>4. \A t : Locked(y, t) \in Int /\ LockedOf(t)[y] = Locked(y, t)
    BY <1>1, Terms
  <1>5. \A b : At1(y.seller, b, Locked(y, Core)) = OwnLocked(b)[y] /\ OwnLocked(b)[y] \in Int
    BY <1>1, Terms DEF At1
  <1>6. f \in [Assets -> Int] /\ g \in [Accounts -> Int]
    BY <1>4, <1>5
  <1>7. \A t \in Assets : f[t] = -Locked(y, t)
    OBVIOUS
  <1>8. \A b \in Accounts : g[b] = -OwnLocked(b)[y]
    BY <1>5
  <1>9. IsFiniteSet(O) /\ Identified(O, d.next_id) /\ \A x \in O : OrderInv(x)
    BY <1>1, FS_RemoveElement DEF Identified
  <1> HIDE DEF f, g, O, e
  <1>10. ASSUME NEW t \in Assets
         PROVE  Sum(LockedOf(t), O) = Sum(LockedOf(t), d.orders) + f[t]
    <2>1. \A x \in d.orders : LockedOf(t)[x] \in Int
      BY <1>1, Terms
    <2>2. Sum(LockedOf(t), O) = Sum(LockedOf(t), d.orders) - LockedOf(t)[y] /\ Sum(LockedOf(t), d.orders) \in Int
      BY <1>1, <2>1, SumDrop DEF O
    <2>3. QED
      BY <2>2, <1>4, <1>7
  <1>11. ASSUME NEW b \in Accounts
         PROVE  Sum(OwnLocked(b), O) = Sum(OwnLocked(b), d.orders) + g[b]
    <2>1. \A x \in d.orders : OwnLocked(b)[x] \in Int
      BY <1>1, Terms
    <2>2. Sum(OwnLocked(b), O) = Sum(OwnLocked(b), d.orders) - OwnLocked(b)[y] /\ Sum(OwnLocked(b), d.orders) \in Int
      BY <1>1, <2>1, SumDrop DEF O
    <2>3. QED
      BY <2>2, <1>5, <1>8
  <1>12. /\ DbType(e) /\ e.orders = O
         /\ \A t \in Assets : Surplus(e, t) = Surplus(d, t) + f[t]
         /\ \A b \in Accounts : CoreGap(e, b) = CoreGap(d, b) - g[b]
         /\ DebtGap(e) = DebtGap(d)
         /\ Solvent(d) /\ (\A x \in O : x.collateral >= 0) => Solvent(e)
    <2>1. O \subseteq Orders /\ d.next_id >= d.next_id
      BY <1>1 DEF O
    <2>2. Rebooks(d, e, O, d.next_id, f, g)
      BY <1>3, <1>1, <1>6, <1>9, <1>10, <1>11, <2>1 DEF Rebooks
    <2>3. QED
      BY <2>2, OrdersEffect
  <1>13. /\ \A t \in Assets : Surplus(e, t) = Surplus(d, t) - Locked(y, t)
         /\ \A b \in Accounts : CoreGap(e, b) = CoreGap(d, b) + At1(y.seller, b, Locked(y, Core))
    <2>1. ASSUME NEW t \in Assets
          PROVE  Surplus(e, t) = Surplus(d, t) - Locked(y, t)
      <3>1. Surplus(d, t) \in Int
        BY GapTypes
      <3>2. QED
        BY <3>1, <1>4, <1>7, <1>12
    <2>2. ASSUME NEW b \in Accounts
          PROVE  CoreGap(e, b) = CoreGap(d, b) + At1(y.seller, b, Locked(y, Core))
      <3>1. CoreGap(d, b) \in Int
        BY GapTypes
      <3>2. QED
        BY <3>1, <1>5, <1>8, <1>12
    <2>3. QED
      BY <2>1, <2>2
  <1>14. Solvent(d) => Solvent(e)
    BY <1>12 DEF Solvent, O
  <1>15. QED
    BY <1>2, <1>4, <1>12, <1>13, <1>14 DEF e, O

LEMMA ReplaceEffect ==
  ASSUME NEW d, DbType(d), NEW y \in d.orders, NEW o \in Orders, o.id = y.id, OrderInv(o)
  PROVE  LET e == ReplaceOrder(d, o)
         IN  /\ DbType(e) /\ e = [d EXCEPT !.orders = (d.orders \ {y}) \cup {o}]
             /\ e.orders = (d.orders \ {y}) \cup {o}
             /\ \A t \in Assets : /\ Surplus(e, t) = Surplus(d, t) - Locked(y, t) + Locked(o, t)
                                  /\ Locked(y, t) \in Int /\ Locked(o, t) \in Int
             /\ \A b \in Accounts : CoreGap(e, b) = CoreGap(d, b) + At1(y.seller, b, Locked(y, Core))
                                                    - At1(o.seller, b, Locked(o, Core))
             /\ DebtGap(e) = DebtGap(d)
             /\ Solvent(d) /\ o.collateral >= 0 => Solvent(e)
  <1> DEFINE e == ReplaceOrder(d, o)
             O == (d.orders \ {y}) \cup {o}
             f == [t \in Assets |-> Locked(o, t) - Locked(y, t)]
             g == [b \in Accounts |-> At1(o.seller, b, Locked(o, Core)) - At1(y.seller, b, Locked(y, Core))]
  <1>1. /\ d \in Dbs /\ d.orders \subseteq Orders /\ IsFiniteSet(d.orders) /\ d.next_id \in Nat
        /\ \A x \in d.orders : OrderInv(x) /\ x.id < d.next_id
        /\ \A x, z \in d.orders : x.id = z.id => x = z
        /\ WithId(d.orders, y.id) = {y} /\ y \in Orders
    BY OrderFacts
  <1>2. e = [d EXCEPT !.orders = O]
    BY <1>1 DEF ReplaceOrder, WithId
  <1>3. e = [d EXCEPT !.orders = O, !.next_id = d.next_id]
    BY <1>1, <1>2 DEF Dbs
  <1>4. \A t : /\ Locked(y, t) \in Int /\ LockedOf(t)[y] = Locked(y, t)
               /\ Locked(o, t) \in Int /\ LockedOf(t)[o] = Locked(o, t)
    BY <1>1, Terms
  <1>5. \A b : /\ At1(y.seller, b, Locked(y, Core)) = OwnLocked(b)[y] /\ OwnLocked(b)[y] \in Int
               /\ At1(o.seller, b, Locked(o, Core)) = OwnLocked(b)[o] /\ OwnLocked(b)[o] \in Int
    BY <1>1, Terms DEF At1
  <1>6. f \in [Assets -> Int] /\ g \in [Accounts -> Int]
    BY <1>4, <1>5
  <1>7. \A t \in Assets : f[t] = Locked(o, t) - Locked(y, t)
    OBVIOUS
  <1>8. \A b \in Accounts : g[b] = OwnLocked(b)[o] - OwnLocked(b)[y]
    BY <1>5
  <1>9. o \notin d.orders \ {y}
    BY <1>1
  <1>10. Identified(O, d.next_id) /\ \A x \in O : OrderInv(x)
    BY <1>1 DEF Identified
  <1>11. IsFiniteSet(O)
    BY <1>1, FS_RemoveElement, FS_AddElement
  <1> HIDE DEF f, g, O, e
  <1>12. ASSUME NEW t \in Assets
         PROVE  Sum(LockedOf(t), O) = Sum(LockedOf(t), d.orders) + f[t]
    <2>1. (\A x \in d.orders : LockedOf(t)[x] \in Int) /\ LockedOf(t)[o] \in Int
      BY <1>1, Terms
    <2>2. Sum(LockedOf(t), O) = Sum(LockedOf(t), d.orders) - LockedOf(t)[y] + LockedOf(t)[o]
      BY <1>1, <1>9, <2>1, SumSwap DEF O
    <2>3. Sum(LockedOf(t), d.orders) \in Int
      BY SumsAre
    <2>4. QED
      BY <2>2, <2>3, <1>4, <1>7
  <1>13. ASSUME NEW b \in Accounts
         PROVE  Sum(OwnLocked(b), O) = Sum(OwnLocked(b), d.orders) + g[b]
    <2>1. (\A x \in d.orders : OwnLocked(b)[x] \in Int) /\ OwnLocked(b)[o] \in Int
      BY <1>1, Terms
    <2>2. Sum(OwnLocked(b), O) = Sum(OwnLocked(b), d.orders) - OwnLocked(b)[y] + OwnLocked(b)[o]
      BY <1>1, <1>9, <2>1, SumSwap DEF O
    <2>3. Sum(OwnLocked(b), d.orders) \in Int
      BY SumsAre
    <2>4. QED
      BY <2>2, <2>3, <1>5, <1>8
  <1>14. /\ DbType(e) /\ e.orders = O
         /\ \A t \in Assets : Surplus(e, t) = Surplus(d, t) + f[t]
         /\ \A b \in Accounts : CoreGap(e, b) = CoreGap(d, b) - g[b]
         /\ DebtGap(e) = DebtGap(d)
         /\ Solvent(d) /\ (\A x \in O : x.collateral >= 0) => Solvent(e)
    <2>1. O \subseteq Orders /\ d.next_id >= d.next_id
      BY <1>1 DEF O
    <2>2. Rebooks(d, e, O, d.next_id, f, g)
      BY <1>3, <1>1, <1>6, <1>10, <1>11, <1>12, <1>13, <2>1 DEF Rebooks
    <2>3. QED
      BY <2>2, OrdersEffect
  <1>15. /\ \A t \in Assets : Surplus(e, t) = Surplus(d, t) - Locked(y, t) + Locked(o, t)
         /\ \A b \in Accounts : CoreGap(e, b) = CoreGap(d, b) + At1(y.seller, b, Locked(y, Core))
                                                    - At1(o.seller, b, Locked(o, Core))
    <2>1. ASSUME NEW t \in Assets
          PROVE  Surplus(e, t) = Surplus(d, t) - Locked(y, t) + Locked(o, t)
      <3>1. Surplus(d, t) \in Int
        BY GapTypes
      <3>2. QED
        BY <3>1, <1>4, <1>7, <1>14
    <2>2. ASSUME NEW b \in Accounts
          PROVE  CoreGap(e, b) = CoreGap(d, b) + At1(y.seller, b, Locked(y, Core))
                                 - At1(o.seller, b, Locked(o, Core))
      <3>1. CoreGap(d, b) \in Int
        BY GapTypes
      <3>2. QED
        BY <3>1, <1>5, <1>8, <1>14
    <2>3. QED
      BY <2>1, <2>2
  <1>16. Solvent(d) /\ o.collateral >= 0 => Solvent(e)
    BY <1>14 DEF Solvent, O
  <1>17. QED
    BY <1>2, <1>4, <1>14, <1>15, <1>16 DEF e, O

\* What is left of order y is order o.
Remainder(y, o) ==
  /\ o \in Orders /\ o.id = y.id /\ o.kind = y.kind /\ o.seller = y.seller /\ o.price = y.price
  /\ o.mcr = y.mcr /\ o.for_sale >= 0

\* The effect of y becoming o, gone or not.
Becomes(d, e, y, o) ==
  /\ DbType(e) /\ Untouched(d, e) /\ e.aborted = d.aborted
  /\ \A t \in Assets : /\ Surplus(e, t) = Surplus(d, t) - Locked(y, t) + Locked(o, t)
                       /\ Locked(y, t) \in Int /\ Locked(o, t) \in Int
  /\ \A b \in Accounts : CoreGap(e, b) = CoreGap(d, b) + At1(y.seller, b, Locked(y, Core))
                                         - At1(y.seller, b, Locked(o, Core))
  /\ DebtGap(e) = DebtGap(d)
  /\ Solvent(d) /\ o.collateral >= 0 => Solvent(e)
  /\ (e.orders = d.orders \ {y}) \/ (o.for_sale > 0 /\ e.orders = (d.orders \ {y}) \cup {o})

LEMMA OrderAsset ==
  ASSUME NEW o \in Orders, ~IsLimit(o) => o.price.quote = Backing,
         NEW s, s = (IF IsLimit(o) THEN o.price.base ELSE o.price.quote),
         NEW x, x = (IF IsLimit(o) THEN o.for_sale ELSE o.collateral)
  PROVE  s \in Assets /\ x \in Int /\ \A t : At1(s, t, x) = Locked(o, t)
  <1>1. o.price.base \in Assets /\ o.price.quote \in Assets /\ o.for_sale \in Int /\ o.collateral \in Int
    BY DEF Orders, Prices
  <1>2. QED
    BY <1>1 DEF At1, Locked

LEMMA CancelEffect ==
  ASSUME NEW d, DbType(d), NEW y \in d.orders, NEW o, Remainder(y, o)
  PROVE  LET e == CancelOrder(d, o)
         IN  Becomes(d, e, y, o) /\ e.orders = d.orders \ {y}
  <1> DEFINE s == IF IsLimit(o) THEN o.price.base ELSE o.price.quote
             x == IF IsLimit(o) THEN o.for_sale ELSE o.collateral
             d1 == RemoveOrder(d, o)
             d2 == Adjust(d1, o.seller, s, x)
             e == CancelOrder(d, o)
  <1>1. o \in Orders /\ o.id = y.id /\ o.seller = y.seller /\ o.seller \in Accounts /\ o.for_sale >= 0
    BY DEF Remainder, Orders
  <1>2. ~IsLimit(o) => o.price.quote = Backing
    BY OrderFacts DEF Remainder, OrderInv, IsLimit
  <1>3. s \in Assets /\ x \in Int /\ \A t : At1(s, t, x) = Locked(o, t)
    BY <1>1, <1>2, OrderAsset
  <1>4. x >= 0 \/ ~(o.collateral >= 0)
    BY <1>1
  <1>5. e = CoreInOrders(d2, o.seller, s, -x)
    BY DEF CancelOrder
  <1> HIDE DEF s, x, e, d1, d2
  <1>6. /\ DbType(d1) /\ d1 = [d EXCEPT !.orders = d.orders \ {y}] /\ d1.orders = d.orders \ {y}
        /\ \A t \in Assets : Surplus(d1, t) = Surplus(d, t) - Locked(y, t) /\ Locked(y, t) \in Int
        /\ \A b \in Accounts : CoreGap(d1, b) = CoreGap(d, b) + At1(y.seller, b, Locked(y, Core))
        /\ DebtGap(d1) = DebtGap(d)
        /\ Solvent(d) => Solvent(d1)
    BY <1>1, RemoveEffect DEF d1
  <1>7. /\ DbType(d2) /\ Untouched(d1, d2) /\ d2.aborted = d1.aborted /\ d2.orders = d1.orders
        /\ \A t \in Assets : Surplus(d2, t) = Surplus(d1, t) + At1(s, t, x)
        /\ \A b \in Accounts : CoreGap(d2, b) = CoreGap(d1, b)
        /\ DebtGap(d2) = DebtGap(d1)
        /\ Solvent(d1) /\ (d1.balance[o.seller][s] + x >= 0) => Solvent(d2)
    <2>1. DbType(d1) /\ o.seller \in Accounts /\ s \in Assets /\ x \in Int
      BY <1>1, <1>3, <1>6
    <2>2. QED
      BY <2>1, AdjustEffect DEF d2
  <1>8. /\ DbType(e) /\ Untouched(d2, e) /\ e.aborted = d2.aborted /\ e.orders = d2.orders
        /\ \A t \in Assets : Surplus(e, t) = Surplus(d2, t)
        /\ \A b \in Accounts : CoreGap(e, b) = CoreGap(d2, b) + At1(o.seller, b, At1(Core, s, -x))
        /\ DebtGap(e) = DebtGap(d2)
        /\ Solvent(d2) => Solvent(e)
    <2>1. -x \in Int
      BY <1>3
    <2>2. QED
      BY <1>1, <1>3, <1>5, <1>7, <2>1, CoreInOrdersEffect
  <1>9. Untouched(d, e) /\ e.aborted = d.aborted /\ e.orders = d.orders \ {y}
    <2>1. d \in Dbs
      BY DEF DbType
    <2>2. Untouched(d, d1) /\ d1.aborted = d.aborted
      BY <1>6, <2>1 DEF Dbs, Untouched
    <2>3. QED
      BY <1>6, <1>7, <1>8, <2>2 DEF Untouched
  <1>10. ASSUME NEW t \in Assets
         PROVE  /\ Surplus(e, t) = Surplus(d, t) - Locked(y, t) + Locked(o, t)
                /\ Locked(y, t) \in Int /\ Locked(o, t) \in Int
    <2>1. Surplus(d, t) \in Int /\ Locked(y, t) \in Int /\ Locked(o, t) \in Int
      BY <1>1, <1>6, GapTypes, Terms
    <2>2. Surplus(d1, t) = Surplus(d, t) - Locked(y, t)
      BY <1>6
    <2>3. Surplus(d2, t) = Surplus(d1, t) + Locked(o, t)
      BY <1>3, <1>7
    <2>4. Surplus(e, t) = Surplus(d2, t)
      BY <1>8
    <2>5. QED
      BY <2>1, <2>2, <2>3, <2>4
  <1>11. ASSUME NEW b \in Accounts
         PROVE  CoreGap(e, b) = CoreGap(d, b) + At1(y.seller, b, Locked(y, Core))
                                - At1(y.seller, b, Locked(o, Core))
    <2>1. Core \in Assets
      BY MarketAssumption DEF Core
    <2>2. CoreGap(d, b) \in Int /\ Locked(y, Core) \in Int /\ Locked(o, Core) \in Int
      BY <2>1, <1>10, GapTypes
    <2>3. At1(Core, s, -x) = -Locked(o, Core)
      <3>1. At1(Core, s, -x) = -At1(s, Core, x)
        BY <1>3 DEF At1
      <3>2. QED
        BY <1>3, <3>1
    <2>4. At1(o.seller, b, At1(Core, s, -x)) = -At1(y.seller, b, Locked(o, Core))
      BY <1>1, <2>2, <2>3 DEF At1
    <2>5. At1(y.seller, b, Locked(y, Core)) \in Int /\ At1(y.seller, b, Locked(o, Core)) \in Int
      BY <2>2 DEF At1
    <2>6. CoreGap(d1, b) = CoreGap(d, b) + At1(y.seller, b, Locked(y, Core))
      BY <1>6
    <2>7. CoreGap(d2, b) = CoreGap(d1, b)
      BY <1>7
    <2>8. CoreGap(e, b) = CoreGap(d2, b) + At1(o.seller, b, At1(Core, s, -x))
      BY <1>8
    <2>9. QED
      BY <2>2, <2>4, <2>5, <2>6, <2>7, <2>8
  <1>12. Solvent(d) /\ o.collateral >= 0 => Solvent(e)
    <2>1. SUFFICES ASSUME Solvent(d), o.collateral >= 0 PROVE Solvent(e)
      OBVIOUS
    <2>2. Solvent(d1) /\ d1.balance[o.seller][s] >= 0 /\ d1.balance[o.seller][s] \in Int
      BY <1>1, <1>3, <1>6, <2>1 DEF Solvent, DbType, Dbs
    <2>3. QED
      BY <1>3, <1>4, <1>7, <1>8, <2>1, <2>2
  <1>13. DebtGap(e) = DebtGap(d) /\ DbType(e)
    BY <1>6, <1>7, <1>8
  <1>14. Becomes(d, e, y, o)
    <2>1. \A t \in Assets : /\ Surplus(e, t) = Surplus(d, t) - Locked(y, t) + Locked(o, t)
                             /\ Locked(y, t) \in Int /\ Locked(o, t) \in Int
      BY <1>10
    <2>2. \A b \in Accounts : CoreGap(e, b) = CoreGap(d, b) + At1(y.seller, b, Locked(y, Core))
                                               - At1(y.seller, b, Locked(o, Core))
      BY <1>11
    <2>3. (e.orders = d.orders \ {y}) \/ (o.for_sale > 0 /\ e.orders = (d.orders \ {y}) \cup {o})
      BY <1>9
    <2>4. DbType(e) /\ Untouched(d, e) /\ e.aborted = d.aborted /\ DebtGap(e) = DebtGap(d)
      BY <1>9, <1>13
    <2>5. QED
      BY <1>12, <2>1, <2>2, <2>3, <2>4 DEF Becomes
  <1>15. QED
    BY <1>9, <1>14 DEF e

LEMMA RestEffect ==
  ASSUME NEW d, DbType(d), NEW y \in d.orders, NEW o, Remainder(y, o),
         o.for_sale = 0 => IsLimit(o) \/ o.collateral = 0
  PROVE  /\ Becomes(d, Rest(d, y, o), y, o)
         /\ o.for_sale = 0 => Rest(d, y, o).orders = d.orders \ {y}
  <1> DEFINE e == Rest(d, y, o)
  <1>1. /\ o \in Orders /\ o.id = y.id /\ o.seller = y.seller /\ o.kind = y.kind /\ o.price = y.price
        /\ o.mcr = y.mcr /\ o.for_sale \in Nat /\ o.price \in Prices
    BY DEF Remainder, Orders
  <1>2. OrderInv(y) /\ d \in Dbs
    BY OrderFacts
  <1>3. CASE o.for_sale = 0
    <2>1. e = RemoveOrder(d, y)
      BY <1>3 DEF Rest
    <2>2. \A t : Locked(o, t) = 0
      BY <1>3 DEF Locked
    <2> HIDE DEF e
    <2>3. /\ DbType(e) /\ e = [d EXCEPT !.orders = d.orders \ {y}] /\ e.orders = d.orders \ {y}
          /\ \A t \in Assets : Surplus(e, t) = Surplus(d, t) - Locked(y, t) /\ Locked(y, t) \in Int
          /\ \A b \in Accounts : CoreGap(e, b) = CoreGap(d, b) + At1(y.seller, b, Locked(y, Core))
          /\ DebtGap(e) = DebtGap(d)
          /\ Solvent(d) => Solvent(e)
      BY <2>1, RemoveEffect
    <2>4. Untouched(d, e) /\ e.aborted = d.aborted
      BY <1>2, <2>3 DEF Untouched, Dbs
    <2>5. ASSUME NEW t \in Assets
          PROVE  /\ Surplus(e, t) = Surplus(d, t) - Locked(y, t) + Locked(o, t)
                 /\ Locked(y, t) \in Int /\ Locked(o, t) \in Int
      <3>1. Surplus(d, t) \in Int
        BY GapTypes
      <3>2. Surplus(e, t) = Surplus(d, t) - Locked(y, t) /\ Locked(y, t) \in Int /\ Locked(o, t) = 0
        BY <2>2, <2>3
      <3>3. QED
        BY <3>1, <3>2
    <2>6. ASSUME NEW b \in Accounts
          PROVE  CoreGap(e, b) = CoreGap(d, b) + At1(y.seller, b, Locked(y, Core))
                                 - At1(y.seller, b, Locked(o, Core))
      <3>1. CoreGap(d, b) \in Int /\ Locked(y, Core) \in Int
        BY <2>3, GapTypes, MarketAssumption DEF Core
      <3>2. At1(y.seller, b, Locked(o, Core)) = 0 /\ At1(y.seller, b, Locked(y, Core)) \in Int
        BY <2>2, <3>1 DEF At1
      <3>3. CoreGap(e, b) = CoreGap(d, b) + At1(y.seller, b, Locked(y, Core))
        BY <2>3
      <3>4. QED
        BY <3>1, <3>2, <3>3
    <2>7. DbType(e) /\ DebtGap(e) = DebtGap(d) /\ (Solvent(d) => Solvent(e)) /\ e.orders = d.orders \ {y}
      BY <2>3
    <2>8. Becomes(d, e, y, o)
      <3>1. \A t \in Assets : /\ Surplus(e, t) = Surplus(d, t) - Locked(y, t) + Locked(o, t)
                               /\ Locked(y, t) \in Int /\ Locked(o, t) \in Int
        BY <2>5
      <3>2. \A b \in Accounts : CoreGap(e, b) = CoreGap(d, b) + At1(y.seller, b, Locked(y, Core))
                                                 - At1(y.seller, b, Locked(o, Core))
        BY <2>6
      <3>3. (e.orders = d.orders \ {y}) \/ (o.for_sale > 0 /\ e.orders = (d.orders \ {y}) \cup {o})
        BY <2>7
      <3>4. DbType(e) /\ Untouched(d, e) /\ e.aborted = d.aborted /\ DebtGap(e) = DebtGap(d)
            /\ (Solvent(d) /\ o.collateral >= 0 => Solvent(e))
        BY <2>4, <2>7
      <3>5. QED
        BY <3>1, <3>2, <3>3, <3>4 DEF Becomes
    <2>9. QED
      BY <2>7, <2>8 DEF e
  <1>4. CASE o.for_sale # 0 /\ ForSale(o) = 0
    <2>1. e = CancelOrder(d, o)
      BY <1>4 DEF Rest
    <2>2. QED
      BY <1>4, <2>1, CancelEffect
  <1>5. CASE o.for_sale # 0 /\ ForSale(o) # 0
    <2>1. e = ReplaceOrder(d, o)
      BY <1>5 DEF Rest
    <2>2. OrderInv(o)
      <3>1. o.for_sale > 0
        BY <1>1, <1>5
      <3>2. ~IsLimit(o) => OrderInv(o)
        BY <1>1, <1>2, <3>1 DEF OrderInv, IsLimit
      <3>3. ASSUME IsLimit(o)
            PROVE  OrderInv(o)
        <4>1. IsLimit(y)
          BY <1>1, <3>3 DEF IsLimit
        <4>2. o.price.b \in Nat \ {0} /\ o.price.q \in Nat \ {0}
          BY <1>1, <1>2, <4>1 DEF OrderInv, Prices
        <4>3. ForSale(o) = (o.for_sale * o.price.q) \div o.price.b
          BY DEF ForSale, Times
        <4>4. o.for_sale * o.price.q \in Nat
          BY <1>1, <4>2
        <4>5. ForSale(o) \in Int /\ ForSale(o) >= 0
          BY <4>2, <4>3, <4>4, Floor
        <4>6. ForSale(o) > 0
          BY <1>5, <4>5
        <4>7. QED
          BY <1>1, <1>2, <3>1, <3>3, <4>1, <4>6 DEF OrderInv
      <3>4. QED
        BY <3>2, <3>3
    <2> HIDE DEF e
    <2>3. /\ DbType(e) /\ e = [d EXCEPT !.orders = (d.orders \ {y}) \cup {o}]
          /\ e.orders = (d.orders \ {y}) \cup {o}
          /\ \A t \in Assets : /\ Surplus(e, t) = Surplus(d, t) - Locked(y, t) + Locked(o, t)
                               /\ Locked(y, t) \in Int /\ Locked(o, t) \in Int
          /\ \A b \in Accounts : CoreGap(e, b) = CoreGap(d, b) + At1(y.seller, b, Locked(y, Core))
                                                 - At1(o.seller, b, Locked(o, Core))
          /\ DebtGap(e) = DebtGap(d)
          /\ Solvent(d) /\ o.collateral >= 0 => Solvent(e)
      BY <1>1, <2>1, <2>2, ReplaceEffect
    <2>4. Untouched(d, e) /\ e.aborted = d.aborted
      BY <1>2, <2>3 DEF Untouched, Dbs
    <2>5. o.for_sale > 0
      BY <1>1, <1>5
    <2>6. Becomes(d, e, y, o)
      BY <1>1, <2>3, <2>4, <2>5 DEF Becomes
    <2>7. QED
      BY <1>5, <2>6 DEF e
  <1>6. QED
    BY <1>3, <1>4, <1>5

----------------------------------------------------------------------------
(* Fills.                                                                  *)

\* What no change of the market disturbs.
Keeps(d, e) ==
  /\ DbType(e) /\ DebtGap(e) = DebtGap(d)
  /\ Backing = Core => \A b \in Accounts : CoreGap(e, b) = CoreGap(d, b)
  /\ d.aborted => e.aborted
  /\ d.aborted \/ Solvent(d) => e.aborted \/ Solvent(e)

\* x of asset s is paid to someone outside, and y of asset t is received.
Trades(d, e, s, x, t, y) ==
  \A u \in Assets : Surplus(e, u) = Surplus(d, u) - At1(s, u, x) + At1(t, u, y)

\* Order y is filled, for all it has or for less.
Filled(d, e, y, pays) ==
  /\ \A z \in d.orders : z # y => z \in e.orders
  /\ \A z \in e.orders : z \in d.orders \/ (z.id = y.id /\ z.kind = y.kind /\ z.price = y.price)
  /\ pays = y.for_sale => WithId(e.orders, y.id) = {}

CallIds(d) == {c.id : c \in d.calls}

\* A chain of changes.
LEMMA KeepsBoth ==
  ASSUME NEW d, NEW e, NEW h, Keeps(d, e), Keeps(e, h)
  PROVE  Keeps(d, h)
  BY DEF Keeps

LEMMA BecomesFilled ==
  ASSUME NEW d, DbType(d), NEW e, NEW y \in d.orders, NEW o, Remainder(y, o), NEW pays \in Nat,
         o.for_sale = y.for_sale - pays,
         (e.orders = d.orders \ {y}) \/ (o.for_sale > 0 /\ e.orders = (d.orders \ {y}) \cup {o})
  PROVE  Filled(d, e, y, pays)
  <1>1. /\ \A x, z \in d.orders : x.id = z.id => x = z
        /\ y \in Orders
    BY OrderFacts
  <1>2. y.for_sale \in Int
    BY <1>1 DEF Orders
  <1>3. CASE e.orders = d.orders \ {y}
    BY <1>1, <1>3 DEF Filled, WithId
  <1>4. CASE o.for_sale > 0 /\ e.orders = (d.orders \ {y}) \cup {o}
    <2>1. pays # y.for_sale
      BY <1>2, <1>4
    <2>2. QED
      BY <1>4, <2>1 DEF Filled, Remainder
  <1>5. QED
    BY <1>3, <1>4

LEMMA FillLimitEffect ==
  ASSUME NEW d, DbType(d), NEW y \in d.orders, IsLimit(y), NEW pays \in Nat, pays <= y.for_sale,
         NEW receives \in Nat
  PROVE  LET e == FillLimit(d, y, pays, receives)
         IN  /\ Keeps(d, e) /\ Trades(d, e, y.price.base, pays, y.price.quote, receives)
             /\ Filled(d, e, y, pays) /\ CallIds(d) = CallIds(e)
  <1> DEFINE p == y.price
             fee == CalculateMarketFee(p.quote, receives)
             d1 == PayMarketFees(d, p.quote, receives)
             d2 == CoreInOrders(d1, y.seller, p.base, -pays)
             d3 == Adjust(d2, y.seller, p.quote, receives - fee)
             o == [y EXCEPT !.for_sale = @ - pays]
             e == FillLimit(d, y, pays, receives)
  <1>1. /\ y \in Orders /\ y.seller \in Accounts /\ p.base \in Assets /\ p.quote \in Assets
        /\ y.for_sale \in Int /\ y.collateral \in Int
    BY OrderFacts DEF Orders, Prices
  <1>2. e = Rest(d3, y, o)
    BY DEF FillLimit
  <1>3. /\ Remainder(y, o) /\ IsLimit(o) /\ o.for_sale = y.for_sale - pays
        /\ o.collateral = y.collateral
    BY <1>1 DEF Remainder, Orders, IsLimit
  <1>4. \A t : /\ Locked(y, t) = At1(p.base, t, y.for_sale)
               /\ Locked(o, t) = At1(p.base, t, y.for_sale - pays)
    <2>1. o.price = p
      BY <1>1 DEF Orders
    <2>2. QED
      BY <1>3, <2>1 DEF Locked, At1
  <1> HIDE DEF p, fee, d1, d2, d3, o, e
  <1>5. /\ DbType(d1) /\ fee \in Nat /\ d1.orders = d.orders /\ d1.balance = d.balance
        /\ Untouched(d, d1)
        /\ d1.aborted <=> d.aborted \/ fee > receives
        /\ \A t \in Assets : Surplus(d1, t) = Surplus(d, t) + At1(p.quote, t, fee)
        /\ \A b \in Accounts : CoreGap(d1, b) = CoreGap(d, b)
        /\ DebtGap(d1) = DebtGap(d)
        /\ Solvent(d) => Solvent(d1)
    BY <1>1, FeesEffect DEF d1, fee
  <1>6. /\ DbType(d2) /\ Untouched(d1, d2) /\ d2.aborted = d1.aborted /\ d2.orders = d1.orders
        /\ d2.balance = d1.balance
        /\ \A t \in Assets : Surplus(d2, t) = Surplus(d1, t)
        /\ \A b \in Accounts : CoreGap(d2, b) = CoreGap(d1, b) + At1(y.seller, b, At1(Core, p.base, -pays))
        /\ DebtGap(d2) = DebtGap(d1)
        /\ Solvent(d1) => Solvent(d2)
    <2>1. DbType(d1) /\ y.seller \in Accounts /\ p.base \in Assets /\ -pays \in Int
      BY <1>1, <1>5
    <2>2. QED
      BY <2>1, CoreInOrdersEffect DEF d2
  <1>7. /\ DbType(d3) /\ Untouched(d2, d3) /\ d3.aborted = d2.aborted /\ d3.orders = d2.orders
        /\ \A t \in Assets : Surplus(d3, t) = Surplus(d2, t) + At1(p.quote, t, receives - fee)
        /\ \A b \in Accounts : CoreGap(d3, b) = CoreGap(d2, b)
        /\ DebtGap(d3) = DebtGap(d2)
        /\ Solvent(d2) /\ (d2.balance[y.seller][p.quote] + (receives - fee) >= 0) => Solvent(d3)
    <2>1. DbType(d2) /\ y.seller \in Accounts /\ p.quote \in Assets /\ receives - fee \in Int
      BY <1>1, <1>5, <1>6
    <2>2. QED
      BY <2>1, AdjustEffect DEF d3
  <1>8. y \in d3.orders /\ d3.orders = d.orders
    BY <1>5, <1>6, <1>7
  <1>9. Becomes(d3, e, y, o) /\ (o.for_sale = 0 => e.orders = d3.orders \ {y})
    BY <1>2, <1>3, <1>7, <1>8, RestEffect
  <1>10. ASSUME NEW t \in Assets
         PROVE  Surplus(e, t) = Surplus(d, t) - At1(p.base, t, pays) + At1(p.quote, t, receives)
    <2>1. Surplus(e, t) = Surplus(d3, t) - Locked(y, t) + Locked(o, t)
      BY <1>9 DEF Becomes
    <2>2. /\ Surplus(d3, t) = Surplus(d2, t) + At1(p.quote, t, receives - fee)
          /\ Surplus(d2, t) = Surplus(d1, t)
          /\ Surplus(d1, t) = Surplus(d, t) + At1(p.quote, t, fee)
      BY <1>5, <1>6, <1>7
    <2>3. Surplus(d, t) \in Int /\ fee \in Nat
      BY <1>5, GapTypes
    <2>4. QED
      BY <1>1, <1>4, <2>1, <2>2, <2>3 DEF At1
  <1>11. ASSUME NEW b \in Accounts
         PROVE  CoreGap(e, b) = CoreGap(d, b)
    <2>1. CoreGap(e, b) = CoreGap(d3, b) + At1(y.seller, b, Locked(y, Core))
                          - At1(y.seller, b, Locked(o, Core))
      BY <1>9 DEF Becomes
    <2>2. /\ CoreGap(d3, b) = CoreGap(d2, b) /\ CoreGap(d1, b) = CoreGap(d, b)
          /\ CoreGap(d2, b) = CoreGap(d1, b) + At1(y.seller, b, At1(Core, p.base, -pays))
      BY <1>5, <1>6, <1>7
    <2>3. CoreGap(d, b) \in Int
      BY GapTypes
    <2>4. QED
      BY <1>1, <1>4, <2>1, <2>2, <2>3 DEF At1
  <1>12. d.aborted \/ Solvent(d) => e.aborted \/ Solvent(e)
    <2>1. SUFFICES ASSUME d.aborted = FALSE, Solvent(d), e.aborted = FALSE PROVE Solvent(e)
      <3>1. e.aborted = d3.aborted
        BY <1>9 DEF Becomes
      <3>2. d.aborted => e.aborted
        BY <1>5, <1>6, <1>7, <3>1
      <3>3. d.aborted \in BOOLEAN /\ e.aborted \in BOOLEAN
        BY <1>9 DEF Becomes, DbType, Dbs
      <3>4. QED
        BY <3>2, <3>3
    <2>2. e.aborted = d1.aborted
      BY <1>6, <1>7, <1>9 DEF Becomes
    <2>3. receives - fee >= 0
      BY <1>5, <2>1, <2>2
    <2>4. d2.balance[y.seller][p.quote] >= 0 /\ d2.balance[y.seller][p.quote] \in Int
      BY <1>1, <1>5, <1>6, <2>1 DEF Solvent, DbType, Dbs
    <2>5. Solvent(d3)
      BY <1>5, <1>6, <1>7, <2>1, <2>3, <2>4
    <2>6. o.collateral >= 0
      BY <1>3, <2>1 DEF Solvent
    <2>7. QED
      BY <1>9, <2>5, <2>6 DEF Becomes
  <1>13. DbType(e) /\ DebtGap(e) = DebtGap(d) /\ (d.aborted => e.aborted)
    <2>1. DbType(e) /\ DebtGap(e) = DebtGap(d3) /\ e.aborted = d3.aborted
      BY <1>9 DEF Becomes
    <2>2. QED
      BY <1>5, <1>6, <1>7, <2>1
  <1>14. Keeps(d, e)
    BY <1>11, <1>12, <1>13 DEF Keeps
  <1>15. Trades(d, e, p.base, pays, p.quote, receives)
    BY <1>10 DEF Trades
  <1>16. Filled(d, e, y, pays)
    <2>1. (e.orders = d.orders \ {y}) \/ (o.for_sale > 0 /\ e.orders = (d.orders \ {y}) \cup {o})
      BY <1>8, <1>9 DEF Becomes
    <2>2. QED
      BY <1>3, <2>1, BecomesFilled
  <1>17. CallIds(d) = CallIds(e)
    <2>1. e.calls = d.calls
      BY <1>5, <1>6, <1>7, <1>9 DEF Untouched, Becomes
    <2>2. QED
      BY <2>1 DEF CallIds
  <1>18. QED
    BY <1>14, <1>15, <1>16, <1>17 DEF e, p

\* The call orders become C: the debt changes by x, the collateral by y, and both
\* are a's.
CallsChange(d, C, n, x, y, a) ==
  /\ C \subseteq Calls /\ IsFiniteSet(C) /\ Identified(C, n) /\ (\A c \in C : CallInv(c))
  /\ \A u, v \in C : u.borrower = v.borrower => u = v
  /\ n \in Nat /\ n >= d.next_id /\ x \in Int /\ y \in Int /\ a \in Accounts
  /\ Sum(DebtOf, C) = DebtSum(d) + x
  /\ Sum(CollateralOf, C) = Sum(CollateralOf, d.calls) + y
  /\ \A b \in Accounts : Sum(OwnCollateral(b), C) = Sum(OwnCollateral(b), d.calls)
                                                    + At1(a, b, At1(Core, Backing, y))

LEMMA CallFacts ==
  ASSUME NEW d, DbType(d)
  PROVE  /\ d \in Dbs /\ d.calls \subseteq Calls /\ IsFiniteSet(d.calls) /\ d.next_id \in Nat \ {0}
         /\ \A c \in d.calls : /\ CallInv(c) /\ c.id < d.next_id /\ c.id \in Nat
                               /\ c.borrower \in Accounts /\ c.debt \in Nat \ {0} /\ c.collateral \in Int
                               /\ c.mcr \in Int /\ c.call_price \in Prices
         /\ \A u, v \in d.calls : u.id = v.id => u = v
         /\ \A u, v \in d.calls : u.borrower = v.borrower => u = v
  <1>1. /\ d \in Dbs /\ d.calls \subseteq Calls /\ IsFiniteSet(d.calls) /\ d.next_id \in Nat
        /\ d.next_id > 0
    BY DEF DbType, Dbs
  <1>2. /\ \A c \in d.calls : CallInv(c) /\ c.id < d.next_id
        /\ \A u, v \in d.calls : u.id = v.id => u = v
        /\ \A u, v \in d.calls : u.borrower = v.borrower => u = v
    BY DEF DbType, Identified
  <1>3. \A c \in d.calls : /\ c.id \in Nat /\ c.borrower \in Accounts /\ c.debt \in Int
                           /\ c.collateral \in Int /\ c.mcr \in Int /\ c.call_price \in Prices
    BY <1>1 DEF Calls
  <1>4. \A c \in d.calls : c.debt \in Nat \ {0}
    BY <1>2, <1>3 DEF CallInv
  <1>5. QED
    BY <1>1, <1>2, <1>3, <1>4

\* The terms of a call order.
LEMMA CallTerms ==
  ASSUME NEW c \in Calls
  PROVE  /\ DebtOf[c] = c.debt /\ c.debt \in Int
         /\ CollateralOf[c] = c.collateral /\ c.collateral \in Int
         /\ \A b : /\ OwnCollateral(b)[c] = At1(c.borrower, b, At1(Core, Backing, c.collateral))
                   /\ OwnCollateral(b)[c] \in Int
  <1>1. DebtOf[c] = c.debt /\ c.debt \in Int /\ CollateralOf[c] = c.collateral /\ c.collateral \in Int
    BY Terms
  <1>2. \A b : OwnCollateral(b)[c] = IF c.borrower = b /\ Backing = Core THEN c.collateral ELSE 0
    BY Terms
  <1>3. QED
    BY <1>1, <1>2 DEF At1

LEMMA CallDrop ==
  ASSUME NEW d, DbType(d), NEW c \in d.calls
  PROVE  CallsChange(d, d.calls \ {c}, d.next_id, -c.debt, -c.collateral, c.borrower)
  <1> DEFINE C == d.calls \ {c}
  <1>1. /\ d.calls \subseteq Calls /\ IsFiniteSet(d.calls) /\ d.next_id \in Nat /\ c \in Calls
        /\ c.borrower \in Accounts
        /\ \A u \in d.calls : CallInv(u) /\ u.id < d.next_id
        /\ \A u, v \in d.calls : u.id = v.id => u = v
        /\ \A u, v \in d.calls : u.borrower = v.borrower => u = v
    BY CallFacts
  <1>2. C \subseteq Calls /\ IsFiniteSet(C) /\ Identified(C, d.next_id) /\ (\A u \in C : CallInv(u))
    BY <1>1, FS_RemoveElement DEF Identified
  <1>3. \A u, v \in C : u.borrower = v.borrower => u = v
    BY <1>1
  <1>4. /\ DebtOf[c] = c.debt /\ c.debt \in Int
        /\ CollateralOf[c] = c.collateral /\ c.collateral \in Int
        /\ \A b : /\ OwnCollateral(b)[c] = At1(c.borrower, b, At1(Core, Backing, c.collateral))
                  /\ OwnCollateral(b)[c] \in Int
    BY <1>1, CallTerms
  <1>5. /\ \A u \in d.calls : DebtOf[u] \in Int /\ CollateralOf[u] \in Int
        /\ \A b : \A u \in d.calls : OwnCollateral(b)[u] \in Int
    BY <1>1, Terms
  <1>6. Sum(DebtOf, C) = DebtSum(d) + -c.debt
    <2>1. Sum(DebtOf, C) = Sum(DebtOf, d.calls) - DebtOf[c] /\ Sum(DebtOf, d.calls) \in Int
      BY <1>1, <1>5, SumDrop
    <2>2. QED
      BY <1>4, <2>1 DEF DebtSum
  <1>7. Sum(CollateralOf, C) = Sum(CollateralOf, d.calls) + -c.collateral
    <2>1. /\ Sum(CollateralOf, C) = Sum(CollateralOf, d.calls) - CollateralOf[c]
          /\ Sum(CollateralOf, d.calls) \in Int
      BY <1>1, <1>5, SumDrop
    <2>2. QED
      BY <1>4, <2>1
  <1>8. ASSUME NEW b \in Accounts
        PROVE  Sum(OwnCollateral(b), C) = Sum(OwnCollateral(b), d.calls)
                                          + At1(c.borrower, b, At1(Core, Backing, -c.collateral))
    <2>1. /\ Sum(OwnCollateral(b), C) = Sum(OwnCollateral(b), d.calls) - OwnCollateral(b)[c]
          /\ Sum(OwnCollateral(b), d.calls) \in Int
      <3>1. \A u \in d.calls : OwnCollateral(b)[u] \in Int
        BY <1>5
      <3>2. QED
        BY <1>1, <3>1, SumDrop
    <2>2. QED
      BY <1>4, <2>1 DEF At1
  <1> HIDE DEF C
  <1>9. /\ d.next_id \in Nat /\ d.next_id >= d.next_id /\ -c.debt \in Int /\ -c.collateral \in Int
        /\ c.borrower \in Accounts
    BY <1>1, <1>4
  <1>10. CallsChange(d, C, d.next_id, -c.debt, -c.collateral, c.borrower)
    BY <1>2, <1>3, <1>6, <1>7, <1>8, <1>9 DEF CallsChange
  <1>11. QED
    BY <1>10 DEF C

LEMMA CallSwap ==
  ASSUME NEW d, DbType(d), NEW c \in d.calls, NEW k \in Calls, CallInv(k), k.id = c.id,
         k.borrower = c.borrower
  PROVE  CallsChange(d, (d.calls \ {c}) \cup {k}, d.next_id, k.debt - c.debt,
                     k.collateral - c.collateral, c.borrower)
  <1> DEFINE C == (d.calls \ {c}) \cup {k}
  <1>1. /\ d.calls \subseteq Calls /\ IsFiniteSet(d.calls) /\ d.next_id \in Nat /\ c \in Calls
        /\ c.borrower \in Accounts
        /\ \A u \in d.calls : CallInv(u) /\ u.id < d.next_id
        /\ \A u, v \in d.calls : u.id = v.id => u = v
        /\ \A u, v \in d.calls : u.borrower = v.borrower => u = v
    BY CallFacts
  <1>2. C \subseteq Calls /\ Identified(C, d.next_id) /\ (\A u \in C : CallInv(u))
    BY <1>1 DEF Identified
  <1>3. (\A u, v \in C : u.borrower = v.borrower => u = v) /\ k \notin d.calls \ {c}
    BY <1>1
  <1>4. IsFiniteSet(C)
    BY <1>1, FS_RemoveElement, FS_AddElement
  <1>5. /\ DebtOf[c] = c.debt /\ c.debt \in Int
        /\ CollateralOf[c] = c.collateral /\ c.collateral \in Int
        /\ \A b : /\ OwnCollateral(b)[c] = At1(c.borrower, b, At1(Core, Backing, c.collateral))
                  /\ OwnCollateral(b)[c] \in Int
    BY <1>1, CallTerms
  <1>6. /\ DebtOf[k] = k.debt /\ k.debt \in Int
        /\ CollateralOf[k] = k.collateral /\ k.collateral \in Int
        /\ \A b : /\ OwnCollateral(b)[k] = At1(c.borrower, b, At1(Core, Backing, k.collateral))
                  /\ OwnCollateral(b)[k] \in Int
    BY CallTerms
  <1>7. /\ \A u \in d.calls : DebtOf[u] \in Int /\ CollateralOf[u] \in Int
        /\ \A b : \A u \in d.calls : OwnCollateral(b)[u] \in Int
    BY <1>1, Terms
  <1>8. Sum(DebtOf, d.calls) \in Int /\ Sum(CollateralOf, d.calls) \in Int
    BY SumsAre DEF DebtSum
  <1>swap. ASSUME NEW f, \A u \in d.calls : f[u] \in Int, f[k] \in Int
           PROVE  Sum(f, C) = Sum(f, d.calls) - f[c] + f[k]
    <2>1. IsFiniteSet(d.calls) /\ k \notin d.calls \ {c}
      BY <1>1, <1>3
    <2>2. QED
      BY <1>swap, <2>1, SumSwap
  <1> HIDE DEF C
  <1>9. Sum(DebtOf, C) = DebtSum(d) + (k.debt - c.debt)
    <2>1. Sum(DebtOf, C) = Sum(DebtOf, d.calls) - DebtOf[c] + DebtOf[k]
      <3>1. (\A u \in d.calls : DebtOf[u] \in Int) /\ DebtOf[k] \in Int
        BY <1>6, <1>7
      <3>2. QED
        BY <1>swap, <3>1
    <2>2. QED
      BY <1>5, <1>6, <1>8, <2>1 DEF DebtSum
  <1>10. Sum(CollateralOf, C) = Sum(CollateralOf, d.calls) + (k.collateral - c.collateral)
    <2>1. Sum(CollateralOf, C) = Sum(CollateralOf, d.calls) - CollateralOf[c] + CollateralOf[k]
      <3>1. (\A u \in d.calls : CollateralOf[u] \in Int) /\ CollateralOf[k] \in Int
        BY <1>6, <1>7
      <3>2. QED
        BY <1>swap, <3>1
    <2>2. QED
      BY <1>5, <1>6, <1>8, <2>1
  <1>11. ASSUME NEW b \in Accounts
         PROVE  Sum(OwnCollateral(b), C) = Sum(OwnCollateral(b), d.calls)
                                 + At1(c.borrower, b, At1(Core, Backing, k.collateral - c.collateral))
    <2>1. (\A u \in d.calls : OwnCollateral(b)[u] \in Int) /\ OwnCollateral(b)[k] \in Int
      BY <1>6, <1>7
    <2>2. Sum(OwnCollateral(b), C) = Sum(OwnCollateral(b), d.calls) - OwnCollateral(b)[c] + OwnCollateral(b)[k]
      BY <1>swap, <2>1
    <2>3. Sum(OwnCollateral(b), d.calls) \in Int
      BY SumsAre
    <2>4. /\ OwnCollateral(b)[c] = At1(c.borrower, b, At1(Core, Backing, c.collateral))
          /\ OwnCollateral(b)[k] = At1(c.borrower, b, At1(Core, Backing, k.collateral))
          /\ c.collateral \in Int /\ k.collateral \in Int
      BY <1>5, <1>6
    <2>5. QED
      BY <2>2, <2>3, <2>4 DEF At1
  <1>12. /\ d.next_id \in Nat /\ d.next_id >= d.next_id /\ k.debt - c.debt \in Int
         /\ k.collateral - c.collateral \in Int /\ c.borrower \in Accounts
    BY <1>1, <1>5, <1>6
  <1>13. CallsChange(d, C, d.next_id, k.debt - c.debt, k.collateral - c.collateral, c.borrower)
    BY <1>2, <1>3, <1>4, <1>9, <1>10, <1>11, <1>12 DEF CallsChange
  <1>14. QED
    BY <1>13 DEF C

LEMMA CallAdd ==
  ASSUME NEW d, DbType(d), NEW k \in Calls, CallInv(k), k.id = d.next_id,
         \A c \in d.calls : c.borrower # k.borrower
  PROVE  CallsChange(d, d.calls \cup {k}, d.next_id + 1, k.debt, k.collateral, k.borrower)
  <1> DEFINE C == d.calls \cup {k}
  <1>1. /\ d.calls \subseteq Calls /\ IsFiniteSet(d.calls) /\ d.next_id \in Nat
        /\ k.borrower \in Accounts
        /\ \A u \in d.calls : CallInv(u) /\ u.id < d.next_id /\ u.id \in Nat
        /\ \A u, v \in d.calls : u.id = v.id => u = v
        /\ \A u, v \in d.calls : u.borrower = v.borrower => u = v
    BY CallFacts DEF Calls
  <1>2. C \subseteq Calls /\ Identified(C, d.next_id + 1) /\ (\A u \in C : CallInv(u))
    BY <1>1 DEF Identified
  <1>3. (\A u, v \in C : u.borrower = v.borrower => u = v) /\ k \notin d.calls
    BY <1>1
  <1>4. IsFiniteSet(C)
    BY <1>1, FS_AddElement
  <1>5. /\ DebtOf[k] = k.debt /\ k.debt \in Int
        /\ CollateralOf[k] = k.collateral /\ k.collateral \in Int
        /\ \A b : /\ OwnCollateral(b)[k] = At1(k.borrower, b, At1(Core, Backing, k.collateral))
                  /\ OwnCollateral(b)[k] \in Int
    BY CallTerms
  <1>6. /\ \A u \in d.calls : DebtOf[u] \in Int /\ CollateralOf[u] \in Int
        /\ \A b : \A u \in d.calls : OwnCollateral(b)[u] \in Int
    BY <1>1, Terms
  <1>7. Sum(DebtOf, C) = DebtSum(d) + k.debt
    BY <1>1, <1>3, <1>5, <1>6, SumInsert DEF DebtSum
  <1>8. Sum(CollateralOf, C) = Sum(CollateralOf, d.calls) + k.collateral
    BY <1>1, <1>3, <1>5, <1>6, SumInsert
  <1>9. ASSUME NEW b \in Accounts
        PROVE  Sum(OwnCollateral(b), C) = Sum(OwnCollateral(b), d.calls)
                                          + At1(k.borrower, b, At1(Core, Backing, k.collateral))
    <2>1. (\A u \in d.calls : OwnCollateral(b)[u] \in Int) /\ OwnCollateral(b)[k] \in Int
      BY <1>5, <1>6
    <2>2. Sum(OwnCollateral(b), C) = Sum(OwnCollateral(b), d.calls) + OwnCollateral(b)[k]
      BY <1>1, <1>3, <2>1, SumInsert
    <2>3. QED
      BY <1>5, <2>2
  <1> HIDE DEF C
  <1>10. d.next_id + 1 \in Nat /\ d.next_id + 1 >= d.next_id
    BY <1>1
  <1>11. CallsChange(d, C, d.next_id + 1, k.debt, k.collateral, k.borrower)
    BY <1>1, <1>2, <1>3, <1>4, <1>5, <1>7, <1>8, <1>9, <1>10 DEF CallsChange
  <1>12. QED
    BY <1>11 DEF C

LEMMA AssertsEffect ==
  ASSUME NEW d, DbType(d), NEW p, NEW e, e = Asserts(d, p)
  PROVE  /\ DbType(e) /\ Untouched(d, e) /\ e.orders = d.orders
         /\ (d.aborted => e.aborted) /\ (e.aborted <=> d.aborted \/ ~p)
         /\ \A t \in Assets : Surplus(e, t) = Surplus(d, t)
         /\ \A b \in Accounts : CoreGap(e, b) = CoreGap(d, b)
         /\ DebtGap(e) = DebtGap(d)
         /\ Solvent(d) => Solvent(e)
  <1> DEFINE ab == d.aborted \/ ~p
  <1>1. d \in Dbs /\ d.aborted \in BOOLEAN /\ ab \in BOOLEAN
    BY DEF DbType, Dbs
  <1>2. e = [d EXCEPT !.aborted = ab]
    BY DEF Asserts
  <1>3. ab <=> d.aborted \/ ~p
    OBVIOUS
  <1> HIDE DEF ab
  <1>4. /\ e \in Dbs /\ e.balance = d.balance /\ e.core_in_orders = d.core_in_orders
        /\ e.supply = d.supply /\ e.fees = d.fees /\ e.orders = d.orders /\ e.calls = d.calls
        /\ e.settlements = d.settlements /\ e.next_id = d.next_id /\ e.aborted = ab
        /\ e.force_settled = d.force_settled
    BY <1>1, <1>2 DEF Dbs
  <1>5. DbType(e)
    BY <1>4 DEF DbType
  <1>6. \A t \in Assets : Surplus(e, t) = Surplus(d, t)
    BY <1>4 DEF Surplus, HeldSum, BalanceIn, CollateralIn, SettledIn
  <1>7. (\A b \in Accounts : CoreGap(e, b) = CoreGap(d, b)) /\ DebtGap(e) = DebtGap(d)
    BY <1>4 DEF CoreGap, CoreSum, DebtGap, DebtSum
  <1>8. Solvent(d) => Solvent(e)
    BY <1>4 DEF Solvent
  <1>9. QED
    BY <1>3, <1>4, <1>5, <1>6, <1>7, <1>8 DEF Untouched

\* Database e has call orders e.calls instead: x more Mia is owed and in
\* circulation, and a's core in orders changes by z.
Recalls(d, e, x, y, z, a) ==
  /\ DbType(d) /\ e \in Dbs /\ z \in Int
  /\ e.balance = d.balance /\ e.fees = d.fees /\ e.orders = d.orders /\ e.settlements = d.settlements
  /\ CallsChange(d, e.calls, e.next_id, x, y, a)
  /\ e.supply = [d.supply EXCEPT ![Mia] = @ + x]
  /\ e.core_in_orders = [d.core_in_orders EXCEPT ![a] = @ + z]

LEMMA CallsEffect ==
  ASSUME NEW d, NEW e, NEW x, NEW y, NEW z, NEW a, Recalls(d, e, x, y, z, a)
  PROVE  /\ DbType(e) /\ x \in Int /\ y \in Int /\ z \in Int /\ a \in Accounts
         /\ \A t \in Assets : Surplus(e, t) = Surplus(d, t) + At1(Backing, t, y) - At1(Mia, t, x)
         /\ \A b \in Accounts : CoreGap(e, b) = CoreGap(d, b) + At1(a, b, z - At1(Core, Backing, y))
         /\ DebtGap(e) = DebtGap(d)
         /\ Solvent(d) /\ (\A c \in e.calls : c.collateral >= 0) => Solvent(e)
  <1>1. /\ DbType(d) /\ d \in Dbs /\ e \in Dbs /\ z \in Int /\ e.balance = d.balance /\ e.fees = d.fees
        /\ e.orders = d.orders /\ e.settlements = d.settlements
        /\ d.supply \in [Assets -> Int] /\ d.core_in_orders \in [Accounts -> Int]
    BY DEF Recalls, DbType, Dbs
  <1>2. /\ x \in Int /\ y \in Int /\ a \in Accounts /\ e.next_id \in Nat /\ e.next_id >= d.next_id
        /\ d.next_id \in Nat
    BY <1>1 DEF Recalls, CallsChange, Dbs
  <1>3. DbType(e)
    <2>1. Identified(e.orders, e.next_id) /\ Identified(e.settlements, e.next_id) /\ e.next_id > 0
      <3>1. d.orders \subseteq Orders /\ d.settlements \subseteq Settlements
        BY <1>1 DEF Dbs
      <3>2. (\A u \in d.orders : u.id \in Nat) /\ (\A u \in d.settlements : u.id \in Nat)
        BY <3>1 DEF Orders, Settlements
      <3>3. QED
        BY <1>1, <1>2, <3>2 DEF DbType, Identified
    <2>2. /\ IsFiniteSet(e.calls) /\ Identified(e.calls, e.next_id) /\ (\A c \in e.calls : CallInv(c))
          /\ \A u, v \in e.calls : u.borrower = v.borrower => u = v
      BY DEF Recalls, CallsChange
    <2>3. QED
      BY <1>1, <2>1, <2>2 DEF DbType
  <1>4. ASSUME NEW t \in Assets
        PROVE  Surplus(e, t) = Surplus(d, t) + At1(Backing, t, y) - At1(Mia, t, x)
    <2>1. /\ Sum(BalanceIn(d, t), Accounts) \in Int /\ Sum(LockedOf(t), d.orders) \in Int
          /\ d.fees[t] \in Int /\ d.supply[t] \in Int
          /\ CollateralIn(d, t) \in Int /\ SettledIn(d, t) \in Int
          /\ Sum(CollateralOf, d.calls) \in Int
      BY <1>1, SumsAre
    <2>2. /\ BalanceIn(e, t) = BalanceIn(d, t) /\ SettledIn(e, t) = SettledIn(d, t)
      BY <1>1 DEF BalanceIn, SettledIn
    <2>3. Sum(CollateralOf, e.calls) = Sum(CollateralOf, d.calls) + y
      BY DEF Recalls, CallsChange
    <2>4. CollateralIn(e, t) = CollateralIn(d, t) + At1(Backing, t, y)
      BY <1>2, <2>1, <2>3 DEF CollateralIn, At1
    <2>5. e.supply[t] = d.supply[t] + At1(Mia, t, x)
      BY <1>1, <1>2, MarketAssumption DEF Recalls, At1
    <2>6. At1(Backing, t, y) \in Int /\ At1(Mia, t, x) \in Int
      BY <1>2 DEF At1
    <2>7. e.fees[t] = d.fees[t] /\ Sum(LockedOf(t), e.orders) = Sum(LockedOf(t), d.orders)
      BY <1>1
    <2>8. QED
      BY <2>1, <2>2, <2>4, <2>5, <2>6, <2>7 DEF Surplus, HeldSum
  <1>5. ASSUME NEW b \in Accounts
        PROVE  CoreGap(e, b) = CoreGap(d, b) + At1(a, b, z - At1(Core, Backing, y))
    <2>1. /\ Sum(OwnLocked(b), d.orders) \in Int /\ Sum(OwnCollateral(b), d.calls) \in Int
          /\ d.core_in_orders[b] \in Int
      BY <1>1, SumsAre
    <2>2. Sum(OwnCollateral(b), e.calls) = Sum(OwnCollateral(b), d.calls) + At1(a, b, At1(Core, Backing, y))
      BY DEF Recalls, CallsChange
    <2>3. Sum(OwnLocked(b), e.orders) = Sum(OwnLocked(b), d.orders)
      BY <1>1
    <2>4. e.core_in_orders[b] = d.core_in_orders[b] + At1(a, b, z)
      BY <1>1, <1>2, <2>1 DEF Recalls, At1
    <2>5. At1(Core, Backing, y) \in Int
      BY <1>2 DEF At1
    <2>6. /\ At1(a, b, z) \in Int /\ At1(a, b, At1(Core, Backing, y)) \in Int
          /\ At1(a, b, z - At1(Core, Backing, y)) = At1(a, b, z) - At1(a, b, At1(Core, Backing, y))
      BY <1>1, <2>5 DEF At1
    <2>7. QED
      BY <2>1, <2>2, <2>3, <2>4, <2>6 DEF CoreGap, CoreSum
  <1>6. DebtGap(e) = DebtGap(d)
    <2>1. d.supply[Mia] \in Int /\ DebtSum(d) \in Int /\ Mia \in Assets
      BY <1>1, SumsAre, MarketAssumption
    <2>2. e.supply[Mia] = d.supply[Mia] + x
      BY <1>1, <2>1 DEF Recalls
    <2>3. DebtSum(e) = DebtSum(d) + x
      BY DEF Recalls, CallsChange, DebtSum
    <2>4. QED
      BY <1>2, <2>1, <2>2, <2>3 DEF DebtGap
  <1>7. Solvent(d) /\ (\A c \in e.calls : c.collateral >= 0) => Solvent(e)
    BY <1>1 DEF Solvent
  <1>8. QED
    BY <1>1, <1>2, <1>3, <1>4, <1>5, <1>6, <1>7

\* FillCall: at most the debt is bought back.
LEMMA FillCallEffect ==
  ASSUME NEW d, DbType(d), NEW c \in d.calls, NEW pays \in Nat,
         NEW receives \in Nat, receives <= c.debt
  PROVE  LET e == FillCall(d, c, pays, receives)
         IN  /\ Keeps(d, e) /\ Trades(d, e, Backing, pays, Mia, receives)
             /\ e.orders = d.orders /\ e.settlements = d.settlements
             /\ e.supply[Mia] = d.supply[Mia] - receives /\ e.force_settled = d.force_settled
             /\ CallIds(d) \ {c.id} \subseteq CallIds(e)
             /\ receives < c.debt => c.id \in CallIds(e)
             /\ receives = c.debt => e.calls = d.calls \ {c}
  <1> DEFINE rest == [c EXCEPT !.debt = @ - receives, !.collateral = @ - pays]
             freed == IF rest.debt = 0 THEN rest.collateral ELSE 0
             out == freed + (IF Backing = Core THEN pays ELSE 0)
             ab == d.aborted \/ ~(c.collateral >= pays)
             C == (d.calls \ {c}) \cup (IF rest.debt = 0 THEN {} ELSE {rest})
             core == [d.core_in_orders EXCEPT ![c.borrower] = @ - out]
             d1 == [Asserts(d, c.collateral >= pays) EXCEPT
                     !.supply[Mia] = @ - receives,
                     !.calls = (@ \ {c}) \cup (IF rest.debt = 0 THEN {} ELSE {rest}),
                     !.core_in_orders[c.borrower] = @ - out]
             d2 == Adjust(d1, c.borrower, Backing, freed)
             e == FillCall(d, c, pays, receives)
             y == -(freed + pays)
  <1>1. /\ d \in Dbs /\ c \in Calls /\ CallInv(c) /\ c.borrower \in Accounts /\ c.debt \in Int
        /\ c.collateral \in Int /\ c.id \in Nat /\ d.next_id \in Nat /\ d.calls \subseteq Calls
        /\ Backing \in Assets /\ Mia \in Assets
    BY CallFacts, MarketAssumption
  <1>2. /\ rest \in Calls /\ rest.debt = c.debt - receives /\ rest.collateral = c.collateral - pays
        /\ rest.id = c.id /\ rest.borrower = c.borrower /\ rest.mcr = c.mcr
        /\ rest.call_price = c.call_price
    <2>1. c.debt - receives \in Int /\ c.collateral - pays \in Int
      BY <1>1
    <2>2. c \in [id : Nat, borrower : Accounts, debt : Int, collateral : Int, mcr : Int, call_price : Prices]
      BY <1>1 DEF Calls
    <2>3. /\ rest.debt = c.debt - receives /\ rest.collateral = c.collateral - pays
          /\ rest.id = c.id /\ rest.borrower = c.borrower /\ rest.mcr = c.mcr
          /\ rest.call_price = c.call_price
      BY <2>2
    <2>4. rest \in Calls
      BY <2>1, <2>2 DEF Calls
    <2>5. QED
      BY <2>3, <2>4
  <1>3. freed \in Int /\ out \in Int /\ y \in Int
    BY <1>1, <1>2
  <1>4. d.aborted \in BOOLEAN /\ ab \in BOOLEAN
    BY <1>1 DEF Dbs
  <1>5. d1 = [d EXCEPT !.aborted = ab, !.supply = [d.supply EXCEPT ![Mia] = @ - receives],
                       !.calls = C, !.core_in_orders = core]
    BY <1>1 DEF Asserts, Dbs
  <1>6. e = Asserts(d2, d1.core_in_orders[c.borrower] >= 0)
    BY DEF FillCall
  <1>7. freed = (IF rest.debt = 0 THEN rest.collateral ELSE 0) /\ C = (d.calls \ {c}) \cup (IF rest.debt = 0 THEN {} ELSE {rest})
    OBVIOUS
  <1>8. out = freed + (IF Backing = Core THEN pays ELSE 0) /\ y = -(freed + pays)
    OBVIOUS
  <1>9. ab <=> d.aborted \/ c.collateral < pays
    BY <1>1
  <1>10. core = [d.core_in_orders EXCEPT ![c.borrower] = @ + -out]
    BY <1>1, <1>3 DEF Dbs
  <1> HIDE DEF rest, freed, out, ab, C, core, d1, d2, e, y
  <1>11. CallsChange(d, C, d.next_id, -receives, y, c.borrower)
    <2>1. CASE rest.debt = 0
      <3>1. C = d.calls \ {c} /\ -receives = -c.debt /\ y = -c.collateral
        BY <1>1, <1>2, <1>7, <1>8, <2>1
      <3>2. QED
        BY <3>1, CallDrop
    <2>2. CASE rest.debt # 0
      <3>1. C = (d.calls \ {c}) \cup {rest} /\ -receives = rest.debt - c.debt
            /\ y = rest.collateral - c.collateral
        BY <1>1, <1>2, <1>7, <1>8, <2>2
      <3>2. CallInv(rest)
        BY <1>1, <1>2, <2>2 DEF CallInv
      <3>3. QED
        BY <1>2, <3>1, <3>2, CallSwap
    <2>3. QED
      BY <2>1, <2>2
  <1>12. Recalls(d, d1, -receives, y, -out, c.borrower)
    <2>1. C \subseteq Calls
      BY <1>11 DEF CallsChange
    <2>2. core \in [Accounts -> Int] /\ [d.supply EXCEPT ![Mia] = @ - receives] \in [Assets -> Int]
      BY <1>1, <1>3, <1>10 DEF Dbs
    <2>3. /\ d1 \in Dbs /\ d1.balance = d.balance /\ d1.fees = d.fees /\ d1.orders = d.orders
          /\ d1.settlements = d.settlements /\ d1.calls = C /\ d1.next_id = d.next_id
          /\ d1.core_in_orders = core /\ d1.supply = [d.supply EXCEPT ![Mia] = @ - receives]
      BY <1>1, <1>4, <1>5, <2>1, <2>2 DEF Dbs
    <2>4. [d.supply EXCEPT ![Mia] = @ - receives] = [d.supply EXCEPT ![Mia] = @ + -receives]
      BY <1>1 DEF Dbs
    <2>5. QED
      BY <1>3, <1>10, <1>11, <2>3, <2>4 DEF Recalls
  <1>13. /\ d1.aborted = ab /\ d1.orders = d.orders /\ d1.settlements = d.settlements /\ d1.calls = C
         /\ d1.force_settled = d.force_settled /\ d1.supply[Mia] = d.supply[Mia] - receives
         /\ d1.balance = d.balance
    BY <1>1, <1>5 DEF Dbs
  <1>14. /\ DbType(d1)
         /\ \A t \in Assets : Surplus(d1, t) = Surplus(d, t) + At1(Backing, t, y) - At1(Mia, t, -receives)
         /\ \A b \in Accounts : CoreGap(d1, b) = CoreGap(d, b) + At1(c.borrower, b, -out - At1(Core, Backing, y))
         /\ DebtGap(d1) = DebtGap(d)
         /\ Solvent(d) /\ (\A u \in d1.calls : u.collateral >= 0) => Solvent(d1)
    BY <1>12, CallsEffect
  <1>15. /\ DbType(d2) /\ Untouched(d1, d2) /\ d2.aborted = d1.aborted /\ d2.orders = d1.orders
         /\ \A t \in Assets : Surplus(d2, t) = Surplus(d1, t) + At1(Backing, t, freed)
         /\ \A b \in Accounts : CoreGap(d2, b) = CoreGap(d1, b)
         /\ DebtGap(d2) = DebtGap(d1)
         /\ Solvent(d1) /\ (d1.balance[c.borrower][Backing] + freed >= 0) => Solvent(d2)
    <2>1. DbType(d1) /\ c.borrower \in Accounts /\ Backing \in Assets /\ freed \in Int
      BY <1>1, <1>3, <1>14
    <2>2. QED
      BY <2>1, AdjustEffect DEF d2
  <1>16. /\ DbType(e) /\ Untouched(d2, e) /\ e.orders = d2.orders /\ (d2.aborted => e.aborted)
         /\ \A t \in Assets : Surplus(e, t) = Surplus(d2, t)
         /\ \A b \in Accounts : CoreGap(e, b) = CoreGap(d2, b)
         /\ DebtGap(e) = DebtGap(d2)
         /\ Solvent(d2) => Solvent(e)
    BY <1>6, <1>15, AssertsEffect
  <1>17. ASSUME NEW t \in Assets
         PROVE  Surplus(e, t) = Surplus(d, t) - At1(Backing, t, pays) + At1(Mia, t, receives)
    <2>1. /\ Surplus(e, t) = Surplus(d2, t) /\ Surplus(d2, t) = Surplus(d1, t) + At1(Backing, t, freed)
          /\ Surplus(d1, t) = Surplus(d, t) + At1(Backing, t, y) - At1(Mia, t, -receives)
      BY <1>14, <1>15, <1>16
    <2>2. Surplus(d, t) \in Int
      BY GapTypes
    <2>3. QED
      BY <1>3, <1>8, <2>1, <2>2, MarketAssumption DEF At1
  <1>18. ASSUME Backing = Core, NEW b \in Accounts
         PROVE  CoreGap(e, b) = CoreGap(d, b)
    <2>1. /\ CoreGap(e, b) = CoreGap(d2, b) /\ CoreGap(d2, b) = CoreGap(d1, b)
          /\ CoreGap(d1, b) = CoreGap(d, b) + At1(c.borrower, b, -out - At1(Core, Backing, y))
      BY <1>14, <1>15, <1>16
    <2>2. CoreGap(d, b) \in Int
      BY GapTypes
    <2>3. At1(Core, Backing, y) = -out /\ -out - -out = 0
      BY <1>3, <1>8, <1>18 DEF At1
    <2>4. QED
      BY <2>1, <2>2, <2>3 DEF At1
  <1>19. DbType(e) /\ DebtGap(e) = DebtGap(d) /\ (d.aborted => e.aborted)
    BY <1>9, <1>13, <1>14, <1>15, <1>16
  <1>20. d.aborted \/ Solvent(d) => e.aborted \/ Solvent(e)
    <2>1. SUFFICES ASSUME d.aborted = FALSE, Solvent(d), e.aborted = FALSE PROVE Solvent(e)
      <3>1. d.aborted \in BOOLEAN /\ e.aborted \in BOOLEAN
        BY <1>19 DEF DbType, Dbs
      <3>2. QED
        BY <1>19, <3>1
    <2>2. c.collateral >= pays
      BY <1>1, <1>9, <1>13, <1>15, <1>16, <2>1
    <2>3. rest.collateral >= 0 /\ freed >= 0
      BY <1>1, <1>2, <1>7, <2>2
    <2>4. \A u \in C : u.collateral >= 0
      BY <1>7, <2>1, <2>3 DEF Solvent
    <2>5. d.balance[c.borrower][Backing] >= 0 /\ d.balance[c.borrower][Backing] \in Int
      BY <1>1, <2>1 DEF Solvent, Dbs
    <2>6. Solvent(d1)
      BY <1>13, <1>14, <2>1, <2>4
    <2>7. d1.balance[c.borrower][Backing] + freed >= 0
      BY <1>3, <1>13, <2>3, <2>5
    <2>8. QED
      BY <1>15, <1>16, <2>6, <2>7
  <1>21. Keeps(d, e)
    BY <1>18, <1>19, <1>20 DEF Keeps
  <1>22. Trades(d, e, Backing, pays, Mia, receives)
    BY <1>17 DEF Trades
  <1>23. /\ e.orders = d.orders /\ e.settlements = d.settlements /\ e.calls = C
         /\ e.supply[Mia] = d.supply[Mia] - receives /\ e.force_settled = d.force_settled
    BY <1>13, <1>15, <1>16 DEF Untouched
  <1>24. /\ CallIds(d) \ {c.id} \subseteq CallIds(e)
         /\ receives < c.debt => c.id \in CallIds(e)
         /\ receives = c.debt => e.calls = d.calls \ {c}
    <2>1. d.calls \ {c} \subseteq e.calls
      BY <1>7, <1>23
    <2>2. receives < c.debt => rest \in e.calls
      BY <1>1, <1>2, <1>7, <1>23
    <2>3. receives = c.debt => e.calls = d.calls \ {c}
      BY <1>1, <1>2, <1>7, <1>23
    <2>4. QED
      BY <1>2, <2>1, <2>2, <2>3 DEF CallIds
  <1>25. QED
    BY <1>21, <1>22, <1>23, <1>24 DEF e

\* FillShort: the short borrows what it pays.
LEMMA FillShortEffect ==
  ASSUME NEW d, DbType(d), NEW y \in d.orders, ~IsLimit(y), NEW pays \in Nat, 0 < pays,
         pays <= y.for_sale, NEW receives \in Nat
  PROVE  LET e == FillShort(d, y, pays, receives)
         IN  /\ Keeps(d, e) /\ Trades(d, e, y.price.base, pays, y.price.quote, receives)
             /\ Filled(d, e, y, pays) /\ CallIds(d) \subseteq CallIds(e)
  <1> DEFINE p == y.price
             fee == CalculateMarketFee(p.quote, receives)
             seller == IF pays = y.for_sale THEN y.collateral ELSE Times(pays, p.base, p)
             buyer == receives - fee
             mine == {c \in d.calls : c.borrower = y.seller}
             old == IF mine # {} THEN CHOOSE c \in mine : TRUE
                    ELSE [id |-> d.next_id, borrower |-> y.seller, debt |-> 0, collateral |-> 0]
             debt == old.debt + pays
             col == old.collateral + seller + buyer
             call == [id |-> old.id, borrower |-> y.seller, debt |-> debt, collateral |-> col,
                      mcr |-> y.mcr, call_price |-> CallPrice(debt, col, y.mcr)]
             d1 == PayMarketFees(d, p.quote, receives)
             d2 == CoreInOrders(d1, y.seller, p.quote, buyer)
             o == [y EXCEPT !.for_sale = @ - pays, !.collateral = @ - seller]
             d3 == [d2 EXCEPT !.supply[p.base] = @ + pays, !.calls = (@ \ mine) \cup {call},
                              !.next_id = IF mine = {} THEN @ + 1 ELSE @]
             d4 == Rest(d3, y, o)
             e == FillShort(d, y, pays, receives)
  <1>1. /\ y \in Orders /\ y.seller \in Accounts /\ p \in Prices /\ y.for_sale \in Int
        /\ y.collateral \in Int /\ y.mcr \in Int
    BY OrderFacts DEF Orders
  <1>2. /\ p.base = Mia /\ p.quote = Backing /\ y.mcr >= 1000 /\ p.b > 0 /\ p.q >= 0
    BY OrderFacts DEF OrderInv
  <1>3. p.b \in Nat \ {0} /\ p.q \in Nat /\ Mia \in Assets /\ Backing \in Assets /\ Mia # Backing
    BY <1>1, <1>2, MarketAssumption DEF Prices
  <1>4. e = Asserts(d4, o.for_sale = 0 \/ o.collateral > 0)
    BY DEF FillShort
  <1>5. fee \in Nat /\ buyer \in Int
    BY <1>2, <1>3, FeeType
  <1>6. /\ seller \in Int /\ (Solvent(d) => seller >= 0)
        /\ pays = y.for_sale => seller = y.collateral
    <2>1. Times(pays, p.base, p) = (pays * p.q) \div p.b
      BY DEF Times
    <2>2. pays * p.q \in Nat
      BY <1>3
    <2>3. Times(pays, p.base, p) \in Int /\ Times(pays, p.base, p) >= 0
      BY <1>3, <2>1, <2>2, Floor
    <2>4. Solvent(d) => y.collateral >= 0
      BY DEF Solvent
    <2>5. QED
      BY <1>1, <2>3, <2>4
  <1>7. /\ d \in Dbs /\ d.calls \subseteq Calls /\ d.next_id \in Nat /\ d.next_id > 0
        /\ \A u, v \in d.calls : u.borrower = v.borrower => u = v
        /\ \A c \in d.calls : /\ c.id \in Nat /\ c.id > 0 /\ c.debt \in Nat /\ c.collateral \in Int
    BY CallFacts DEF CallInv
  <1>8. \/ mine = {} /\ old.id = d.next_id /\ old.debt = 0 /\ old.collateral = 0
        \/ old \in d.calls /\ old.borrower = y.seller /\ mine = {old}
    BY <1>7
  <1>9. /\ old.id \in Nat /\ old.id > 0 /\ old.debt \in Nat /\ old.collateral \in Int
        /\ Solvent(d) => old.collateral >= 0
    BY <1>7, <1>8 DEF Solvent
  <1>10. buyer = receives - fee /\ debt = old.debt + pays /\ col = old.collateral + seller + buyer
    OBVIOUS
  <1>11. /\ call.id = old.id /\ call.borrower = y.seller /\ call.debt = debt /\ call.collateral = col
         /\ call.mcr = y.mcr /\ call.call_price = CallPrice(debt, col, y.mcr)
         /\ call = [id |-> call.id, borrower |-> call.borrower, debt |-> call.debt,
                    collateral |-> call.collateral, mcr |-> call.mcr, call_price |-> call.call_price]
    OBVIOUS
  <1>12. /\ Remainder(y, o) /\ ~IsLimit(o) /\ o.for_sale = y.for_sale - pays
         /\ o.collateral = y.collateral - seller
    <2>1. seller \in Int /\ o = [y EXCEPT !.for_sale = @ - pays, !.collateral = @ - seller]
      BY <1>6
    <2> HIDE DEF seller, o
    <2>2. y.for_sale - pays \in Int /\ y.collateral - seller \in Int /\ y.for_sale - pays >= 0
      BY <1>1, <2>1
    <2>3. o \in Orders
      BY <1>1, <2>1, <2>2 DEF Orders
    <2>4. /\ o.id = y.id /\ o.kind = y.kind /\ o.seller = y.seller /\ o.price = y.price /\ o.mcr = y.mcr
          /\ o.for_sale = y.for_sale - pays /\ o.collateral = y.collateral - seller
      BY <1>1, <2>1 DEF Orders
    <2>5. QED
      BY <2>2, <2>3, <2>4 DEF Remainder, IsLimit
  <1>13. \A c : c \in mine <=> c \in d.calls /\ c.borrower = y.seller
    OBVIOUS
  <1>14. d3 = [d2 EXCEPT !.supply[p.base] = @ + pays, !.calls = (d2.calls \ mine) \cup {call},
                         !.next_id = IF mine = {} THEN d2.next_id + 1 ELSE d2.next_id]
    OBVIOUS
  <1> HIDE DEF p, fee, seller, buyer, mine, old, debt, col, call, d1, d2, d3, d4, o, e
  <1>15. call \in Calls /\ CallInv(call)
    <2>1. debt \in Nat \ {0} /\ col \in Int
      BY <1>5, <1>6, <1>9, <1>10
    <2>2. col * (y.mcr - 1000) \in Int
      BY <1>1, <2>1, Regroup
    <2>3. (col * (y.mcr - 1000)) \div 1000 \in Int
      BY <2>2, Floor
    <2>4. /\ CallPrice(debt, col, y.mcr) \in Prices /\ CallPrice(debt, col, y.mcr).base = Backing
          /\ CallPrice(debt, col, y.mcr).quote = Mia /\ CallPrice(debt, col, y.mcr).q = debt
      BY <1>3, <2>1, <2>3 DEF CallPrice, Price, Prices
    <2>5. call \in Calls
      BY <1>1, <1>9, <1>11, <2>1, <2>4 DEF Calls
    <2>6. QED
      BY <1>2, <1>9, <1>11, <2>1, <2>4, <2>5 DEF CallInv
  <1>16. /\ DbType(d1) /\ d1.orders = d.orders /\ d1.balance = d.balance
         /\ Untouched(d, d1)
         /\ d1.aborted <=> d.aborted \/ fee > receives
         /\ \A t \in Assets : Surplus(d1, t) = Surplus(d, t) + At1(Backing, t, fee)
         /\ \A b \in Accounts : CoreGap(d1, b) = CoreGap(d, b)
         /\ DebtGap(d1) = DebtGap(d)
         /\ Solvent(d) => Solvent(d1)
    <2>1. d1 = PayMarketFees(d, Backing, receives) /\ fee = CalculateMarketFee(Backing, receives)
      BY <1>2 DEF d1, fee
    <2>2. QED
      BY <1>3, <2>1, FeesEffect
  <1>17. /\ DbType(d2) /\ Untouched(d1, d2) /\ d2.aborted = d1.aborted /\ d2.orders = d1.orders
         /\ d2.balance = d1.balance
         /\ \A t \in Assets : Surplus(d2, t) = Surplus(d1, t)
         /\ \A b \in Accounts : CoreGap(d2, b) = CoreGap(d1, b) + At1(y.seller, b, At1(Core, Backing, buyer))
         /\ DebtGap(d2) = DebtGap(d1)
         /\ Solvent(d1) => Solvent(d2)
    <2>1. DbType(d1) /\ y.seller \in Accounts /\ Backing \in Assets /\ buyer \in Int
      BY <1>1, <1>3, <1>5, <1>16
    <2>2. d2 = CoreInOrders(d1, y.seller, Backing, buyer)
      BY <1>2 DEF d2
    <2>3. QED
      BY <2>1, <2>2, CoreInOrdersEffect
  <1>18. d2.calls = d.calls /\ d2.next_id = d.next_id /\ d2.orders = d.orders
    BY <1>16, <1>17 DEF Untouched
  <1> DEFINE C == (d.calls \ mine) \cup {call}
             n == IF mine = {} THEN d.next_id + 1 ELSE d.next_id
  <1>19. CallsChange(d2, C, n, pays, seller + buyer, y.seller)
    <2>1. CASE mine = {}
      <3>1. /\ C = d2.calls \cup {call} /\ n = d2.next_id + 1 /\ call.debt = pays
            /\ call.collateral = seller + buyer /\ call.id = d2.next_id
        BY <1>5, <1>6, <1>8, <1>10, <1>11, <1>18, <2>1
      <3>2. \A c \in d2.calls : c.borrower # call.borrower
        BY <1>11, <1>13, <1>18, <2>1
      <3>3. CallsChange(d2, d2.calls \cup {call}, d2.next_id + 1, call.debt, call.collateral, call.borrower)
        BY <1>15, <1>17, <3>1, <3>2, CallAdd
      <3>4. QED
        BY <1>11, <3>1, <3>3
    <2>2. CASE mine # {}
      <3>1. old \in d2.calls /\ old.borrower = y.seller /\ mine = {old}
        BY <1>8, <1>18, <2>2
      <3>2. /\ C = (d2.calls \ {old}) \cup {call} /\ n = d2.next_id /\ call.debt - old.debt = pays
            /\ call.collateral - old.collateral = seller + buyer
        BY <1>5, <1>6, <1>9, <1>10, <1>11, <1>18, <2>2, <3>1
      <3>3. CallsChange(d2, (d2.calls \ {old}) \cup {call}, d2.next_id, call.debt - old.debt,
                        call.collateral - old.collateral, old.borrower)
        BY <1>11, <1>15, <1>17, <3>1, CallSwap
      <3>4. QED
        BY <3>1, <3>2, <3>3
    <2>3. QED
      BY <2>1, <2>2
  <1>20. d3 = [d2 EXCEPT !.supply[Mia] = @ + pays, !.calls = C, !.next_id = n]
    BY <1>2, <1>14, <1>18
  <1>21. old.collateral + seller + buyer >= 0 /\ Solvent(d) => \A u \in C : u.collateral >= 0
    BY <1>10, <1>11 DEF Solvent
  <1>22. d.calls \ mine \subseteq C /\ call \in C
    OBVIOUS
  <1> HIDE DEF C, n
  <1>23. /\ Recalls(d2, d3, pays, seller + buyer, 0, y.seller)
         /\ d3.calls = C /\ d3.aborted = d2.aborted /\ d3.orders = d2.orders
    <2>1. d2 \in Dbs /\ C \subseteq Calls /\ n \in Nat
      BY <1>17, <1>19 DEF DbType, CallsChange
    <2>2. /\ d3 \in Dbs /\ d3.balance = d2.balance /\ d3.fees = d2.fees /\ d3.orders = d2.orders
          /\ d3.settlements = d2.settlements /\ d3.calls = C /\ d3.next_id = n
          /\ d3.core_in_orders = d2.core_in_orders /\ d3.supply = [d2.supply EXCEPT ![Mia] = @ + pays]
          /\ d3.aborted = d2.aborted
      <3> DEFINE sup == [d2.supply EXCEPT ![Mia] = @ + pays]
      <3>1. sup \in [Assets -> Int] /\ d3 = [d2 EXCEPT !.supply = sup, !.calls = C, !.next_id = n]
        BY <1>3, <1>20, <2>1 DEF Dbs
      <3> HIDE DEF sup
      <3>2. /\ d3 \in Dbs /\ d3.balance = d2.balance /\ d3.fees = d2.fees /\ d3.orders = d2.orders
            /\ d3.settlements = d2.settlements /\ d3.calls = C /\ d3.next_id = n
            /\ d3.core_in_orders = d2.core_in_orders /\ d3.supply = sup /\ d3.aborted = d2.aborted
        BY <2>1, <3>1 DEF Dbs
      <3>3. QED
        BY <3>2 DEF sup
    <2>3. d2.core_in_orders = [d2.core_in_orders EXCEPT ![y.seller] = @ + 0]
      BY <1>1, <2>1 DEF Dbs
    <2>4. QED
      BY <1>17, <1>19, <2>2, <2>3 DEF Recalls
  <1>24. /\ DbType(d3)
         /\ \A t \in Assets : Surplus(d3, t) = Surplus(d2, t) + At1(Backing, t, seller + buyer) - At1(Mia, t, pays)
         /\ \A b \in Accounts : CoreGap(d3, b) = CoreGap(d2, b) + At1(y.seller, b, 0 - At1(Core, Backing, seller + buyer))
         /\ DebtGap(d3) = DebtGap(d2)
         /\ Solvent(d2) /\ (\A c \in d3.calls : c.collateral >= 0) => Solvent(d3)
    BY <1>23, CallsEffect
  <1>25. Becomes(d3, d4, y, o) /\ (o.for_sale = 0 => d4.orders = d3.orders \ {y})
    <2>1. y \in d3.orders
      BY <1>18, <1>23
    <2>2. o.for_sale = 0 => o.collateral = 0
      BY <1>1, <1>6, <1>12
    <2>3. QED
      BY <1>12, <1>24, <2>1, <2>2, RestEffect DEF d4
  <1>26. /\ DbType(e) /\ Untouched(d4, e) /\ e.orders = d4.orders /\ (d4.aborted => e.aborted)
         /\ e.aborted <=> d4.aborted \/ ~(o.for_sale = 0 \/ o.collateral > 0)
         /\ \A t \in Assets : Surplus(e, t) = Surplus(d4, t)
         /\ \A b \in Accounts : CoreGap(e, b) = CoreGap(d4, b)
         /\ DebtGap(e) = DebtGap(d4)
         /\ Solvent(d4) => Solvent(e)
    <2>1. DbType(d4)
      BY <1>25 DEF Becomes
    <2>2. QED
      BY <1>4, <2>1, AssertsEffect, ZenonT(60)
  <1>27. \A t : Locked(y, t) = At1(Backing, t, y.collateral) /\ Locked(o, t) = At1(Backing, t, y.collateral - seller)
    BY <1>12 DEF Locked, At1
  <1>28. ASSUME NEW t \in Assets
         PROVE  Surplus(e, t) = Surplus(d, t) - At1(Mia, t, pays) + At1(Backing, t, receives)
    <2>1. Surplus(e, t) = Surplus(d4, t) /\ Surplus(d4, t) = Surplus(d3, t) - Locked(y, t) + Locked(o, t)
      BY <1>25, <1>26 DEF Becomes
    <2>2. /\ Surplus(d3, t) = Surplus(d2, t) + At1(Backing, t, seller + buyer) - At1(Mia, t, pays)
          /\ Surplus(d2, t) = Surplus(d1, t)
          /\ Surplus(d1, t) = Surplus(d, t) + At1(Backing, t, fee)
      BY <1>16, <1>17, <1>24
    <2>3. Surplus(d, t) \in Int
      BY GapTypes
    <2>4. /\ Locked(y, t) = At1(Backing, t, y.collateral)
          /\ Locked(o, t) = At1(Backing, t, y.collateral - seller)
      BY <1>27
    <2>5. QED
      BY <1>1, <1>3, <1>5, <1>6, <1>10, <2>1, <2>2, <2>3, <2>4 DEF At1
  <1>29. ASSUME NEW b \in Accounts
         PROVE  CoreGap(e, b) = CoreGap(d, b)
    <2>1. /\ CoreGap(e, b) = CoreGap(d4, b)
          /\ CoreGap(d4, b) = CoreGap(d3, b) + At1(y.seller, b, Locked(y, Core)) - At1(y.seller, b, Locked(o, Core))
      BY <1>25, <1>26 DEF Becomes
    <2>2. /\ CoreGap(d3, b) = CoreGap(d2, b) + At1(y.seller, b, 0 - At1(Core, Backing, seller + buyer))
          /\ CoreGap(d2, b) = CoreGap(d1, b) + At1(y.seller, b, At1(Core, Backing, buyer))
          /\ CoreGap(d1, b) = CoreGap(d, b)
      BY <1>16, <1>17, <1>24
    <2>3. CoreGap(d, b) \in Int
      BY GapTypes
    <2>4. /\ Locked(y, Core) = At1(Backing, Core, y.collateral)
          /\ Locked(o, Core) = At1(Backing, Core, y.collateral - seller)
      BY <1>27
    <2>5. QED
      BY <1>1, <1>5, <1>6, <2>1, <2>2, <2>3, <2>4 DEF At1
  <1>30. DbType(e) /\ DebtGap(e) = DebtGap(d) /\ (d.aborted => e.aborted)
    <2>1. DebtGap(d4) = DebtGap(d3) /\ d4.aborted = d3.aborted
      BY <1>25 DEF Becomes
    <2>2. QED
      BY <1>16, <1>17, <1>23, <1>24, <1>26, <2>1
  <1>31. d.aborted \/ Solvent(d) => e.aborted \/ Solvent(e)
    <2>1. SUFFICES ASSUME d.aborted = FALSE, Solvent(d), e.aborted = FALSE PROVE Solvent(e)
      <3>1. d.aborted \in BOOLEAN /\ e.aborted \in BOOLEAN
        BY <1>30 DEF DbType, Dbs
      <3>2. QED
        BY <1>30, <3>1
    <2>2. d4.aborted = d1.aborted
      BY <1>17, <1>23, <1>25 DEF Becomes
    <2>3. fee <= receives /\ (o.for_sale = 0 \/ o.collateral > 0)
      BY <1>5, <1>16, <1>26, <2>1, <2>2
    <2>4. o.collateral >= 0
      <3>1. CASE o.for_sale = 0
        BY <1>1, <1>6, <1>12, <3>1
      <3>2. CASE o.collateral > 0
        BY <1>1, <1>6, <1>12, <3>2
      <3>3. QED
        BY <2>3, <3>1, <3>2
    <2>5. old.collateral + seller + buyer >= 0
      BY <1>5, <1>6, <1>9, <1>10, <2>1, <2>3
    <2>6. Solvent(d3)
      BY <1>16, <1>17, <1>21, <1>23, <1>24, <2>1, <2>5
    <2>7. QED
      BY <1>25, <1>26, <2>4, <2>6 DEF Becomes
  <1>32. Keeps(d, e)
    BY <1>29, <1>30, <1>31 DEF Keeps
  <1>33. Trades(d, e, p.base, pays, p.quote, receives)
    BY <1>2, <1>28 DEF Trades
  <1>34. Filled(d, e, y, pays)
    <2>1. (e.orders = d.orders \ {y}) \/ (o.for_sale > 0 /\ e.orders = (d.orders \ {y}) \cup {o})
      BY <1>18, <1>23, <1>25, <1>26 DEF Becomes
    <2>2. QED
      BY <1>12, <2>1, BecomesFilled
  <1>35. CallIds(d) \subseteq CallIds(e)
    <2>1. e.calls = C
      BY <1>23, <1>25, <1>26 DEF Becomes, Untouched
    <2>2. \A c \in mine : c.id = call.id
      BY <1>8, <1>11, <1>13
    <2>3. \A c \in d.calls : \E u \in C : u.id = c.id
      BY <1>22, <2>2
    <2>4. QED
      BY <2>1, <2>3 DEF CallIds
  <1>36. QED
    BY <1>32, <1>33, <1>34, <1>35 DEF e, p

LEMMA FillOrderEffect ==
  ASSUME NEW d, DbType(d), NEW y \in d.orders, NEW pays \in Nat, IsLimit(y) \/ 0 < pays,
         pays <= y.for_sale, NEW receives \in Nat
  PROVE  LET e == FillOrder(d, y, pays, receives)
         IN  /\ Keeps(d, e) /\ Trades(d, e, y.price.base, pays, y.price.quote, receives)
             /\ Filled(d, e, y, pays) /\ CallIds(d) \subseteq CallIds(e)
  <1>1. CASE IsLimit(y)
    <2>1. FillOrder(d, y, pays, receives) = FillLimit(d, y, pays, receives)
      BY <1>1 DEF FillOrder
    <2>2. QED
      BY <1>1, <2>1, FillLimitEffect
  <1>2. CASE ~IsLimit(y)
    <2>1. FillOrder(d, y, pays, receives) = FillShort(d, y, pays, receives)
      BY <1>2 DEF FillOrder
    <2>2. QED
      BY <1>2, <2>1, FillShortEffect
  <1>3. QED
    BY <1>1, <1>2

\* The force settlements become S.
Resettles(d, e, S, n, x) ==
  /\ DbType(d) /\ e = [d EXCEPT !.settlements = S, !.next_id = n]
  /\ S \subseteq Settlements /\ IsFiniteSet(S) /\ n \in Nat /\ n >= d.next_id /\ x \in Int
  /\ Identified(S, n) /\ (\A s \in S : SettlementInv(s))
  /\ Sum(BalanceOf, S) = Sum(BalanceOf, d.settlements) + x

LEMMA SettlementsEffect ==
  ASSUME NEW d, NEW e, NEW S, NEW n, NEW x, Resettles(d, e, S, n, x)
  PROVE  /\ DbType(e) /\ e.settlements = S /\ e.orders = d.orders /\ e.calls = d.calls
         /\ e.aborted = d.aborted /\ e.supply = d.supply /\ e.balance = d.balance
         /\ e.force_settled = d.force_settled
         /\ \A t \in Assets : Surplus(e, t) = Surplus(d, t) + At1(Mia, t, x)
         /\ \A b \in Accounts : CoreGap(e, b) = CoreGap(d, b)
         /\ DebtGap(e) = DebtGap(d)
         /\ Solvent(d) => Solvent(e)
  <1>1. /\ DbType(d) /\ d \in Dbs /\ S \subseteq Settlements /\ n \in Nat /\ n >= d.next_id
        /\ d.next_id \in Nat /\ x \in Int /\ e = [d EXCEPT !.settlements = S, !.next_id = n]
    BY DEF Resettles, DbType, Dbs
  <1>2. /\ e \in Dbs /\ e.orders = d.orders /\ e.next_id = n /\ e.balance = d.balance
        /\ e.core_in_orders = d.core_in_orders /\ e.supply = d.supply /\ e.fees = d.fees
        /\ e.calls = d.calls /\ e.settlements = S /\ e.aborted = d.aborted
        /\ e.force_settled = d.force_settled
    BY <1>1 DEF Dbs
  <1>3. Identified(d.calls, n) /\ Identified(d.orders, n) /\ n > 0
    <2>1. d.calls \subseteq Calls /\ d.orders \subseteq Orders
      BY <1>1 DEF Dbs
    <2>2. (\A u \in d.calls : u.id \in Nat) /\ (\A u \in d.orders : u.id \in Nat)
      BY <2>1 DEF Calls, Orders
    <2>3. QED
      BY <1>1, <2>2 DEF DbType, Identified
  <1>4. DbType(e)
    BY <1>1, <1>2, <1>3 DEF DbType, Resettles
  <1>5. ASSUME NEW t \in Assets
        PROVE  Surplus(e, t) = Surplus(d, t) + At1(Mia, t, x)
    <2>1. /\ Sum(BalanceIn(d, t), Accounts) \in Int /\ Sum(LockedOf(t), d.orders) \in Int
          /\ d.fees[t] \in Int /\ d.supply[t] \in Int
          /\ CollateralIn(d, t) \in Int /\ SettledIn(d, t) \in Int /\ Sum(BalanceOf, d.settlements) \in Int
      BY <1>1, SumsAre
    <2>2. BalanceIn(e, t) = BalanceIn(d, t) /\ CollateralIn(e, t) = CollateralIn(d, t)
      BY <1>2 DEF BalanceIn, CollateralIn
    <2>3. Sum(BalanceOf, e.settlements) = Sum(BalanceOf, d.settlements) + x
      BY <1>2 DEF Resettles
    <2>4. SettledIn(e, t) = SettledIn(d, t) + At1(Mia, t, x) /\ At1(Mia, t, x) \in Int
      BY <1>1, <2>1, <2>3 DEF SettledIn, At1
    <2>5. QED
      BY <1>2, <2>1, <2>2, <2>4 DEF Surplus, HeldSum
  <1>6. (\A b \in Accounts : CoreGap(e, b) = CoreGap(d, b)) /\ DebtGap(e) = DebtGap(d)
    BY <1>2 DEF CoreGap, CoreSum, DebtGap, DebtSum
  <1>7. Solvent(d) => Solvent(e)
    BY <1>2 DEF Solvent
  <1>8. QED
    BY <1>2, <1>4, <1>5, <1>6, <1>7

LEMMA SettlementFacts ==
  ASSUME NEW d, DbType(d)
  PROVE  /\ d \in Dbs /\ d.settlements \subseteq Settlements /\ IsFiniteSet(d.settlements)
         /\ d.next_id \in Nat \ {0}
         /\ \A x \in d.settlements : /\ SettlementInv(x) /\ x.id < d.next_id /\ x.id \in Nat
                                     /\ x.owner \in Accounts /\ x.balance \in Nat
         /\ \A x, y \in d.settlements : x.id = y.id => x = y
  <1>1. /\ d \in Dbs /\ d.settlements \subseteq Settlements /\ IsFiniteSet(d.settlements)
        /\ d.next_id \in Nat /\ d.next_id > 0
    BY DEF DbType, Dbs
  <1>2. /\ \A x \in d.settlements : SettlementInv(x) /\ x.id < d.next_id
        /\ \A x, y \in d.settlements : x.id = y.id => x = y
    BY DEF DbType, Identified
  <1>3. \A x \in d.settlements : x.id \in Nat /\ x.owner \in Accounts /\ x.balance \in Int
    BY <1>1 DEF Settlements
  <1>4. QED
    BY <1>1, <1>2, <1>3 DEF SettlementInv

LEMMA FillSettlementEffect ==
  ASSUME NEW d, DbType(d), NEW s \in d.settlements, NEW pays \in Nat, pays <= s.balance,
         NEW receives \in Nat
  PROVE  LET e == FillSettlement(d, s, pays, receives)
         IN  /\ Keeps(d, e) /\ Trades(d, e, Mia, pays, Backing, receives)
             /\ e.orders = d.orders /\ e.calls = d.calls /\ e.force_settled = d.force_settled
             /\ \A x \in e.settlements : \E y \in d.settlements : y.id = x.id /\ x.balance <= y.balance
  <1> DEFINE fee == CalculateMarketFee(Backing, receives)
             d1 == PayMarketFees(d, Backing, receives)
             d2 == Adjust(d1, s.owner, Backing, receives - fee)
             k == [s EXCEPT !.balance = @ - pays]
             S == (d.settlements \ {s}) \cup (IF pays < s.balance THEN {k} ELSE {})
             e == FillSettlement(d, s, pays, receives)
  <1>1. /\ d \in Dbs /\ d.settlements \subseteq Settlements /\ IsFiniteSet(d.settlements)
        /\ d.next_id \in Nat /\ s \in Settlements /\ s.owner \in Accounts /\ s.balance \in Nat
        /\ \A x \in d.settlements : SettlementInv(x) /\ x.id < d.next_id /\ x.balance \in Nat
        /\ \A x, y \in d.settlements : x.id = y.id => x = y
        /\ Backing \in Assets /\ Mia \in Assets /\ Mia # Backing
    BY SettlementFacts, MarketAssumption
  <1>2. k \in Settlements /\ k.id = s.id /\ k.balance = s.balance - pays
    BY <1>1 DEF Settlements
  <1>3. e = [d2 EXCEPT !.settlements = (@ \ {s}) \cup (IF pays < s.balance THEN {k} ELSE {})]
    BY DEF FillSettlement
  <1>4. S = (d.settlements \ {s}) \cup (IF pays < s.balance THEN {k} ELSE {})
    OBVIOUS
  <1> HIDE DEF fee, d1, d2, k, S, e
  <1>5. /\ DbType(d1) /\ fee \in Nat /\ d1.orders = d.orders /\ d1.balance = d.balance
        /\ Untouched(d, d1)
        /\ d1.aborted <=> d.aborted \/ fee > receives
        /\ \A t \in Assets : Surplus(d1, t) = Surplus(d, t) + At1(Backing, t, fee)
        /\ \A b \in Accounts : CoreGap(d1, b) = CoreGap(d, b)
        /\ DebtGap(d1) = DebtGap(d)
        /\ Solvent(d) => Solvent(d1)
    BY <1>1, FeesEffect DEF d1, fee
  <1>6. /\ DbType(d2) /\ Untouched(d1, d2) /\ d2.aborted = d1.aborted /\ d2.orders = d1.orders
        /\ \A t \in Assets : Surplus(d2, t) = Surplus(d1, t) + At1(Backing, t, receives - fee)
        /\ \A b \in Accounts : CoreGap(d2, b) = CoreGap(d1, b)
        /\ DebtGap(d2) = DebtGap(d1)
        /\ Solvent(d1) /\ (d1.balance[s.owner][Backing] + (receives - fee) >= 0) => Solvent(d2)
    <2>1. DbType(d1) /\ s.owner \in Accounts /\ Backing \in Assets /\ receives - fee \in Int
      BY <1>1, <1>5
    <2>2. QED
      BY <2>1, AdjustEffect DEF d2
  <1>7. d2.settlements = d.settlements /\ d2.next_id = d.next_id /\ d2.calls = d.calls
        /\ d2.force_settled = d.force_settled /\ d2.orders = d.orders
    BY <1>5, <1>6 DEF Untouched
  <1>8. Resettles(d2, e, S, d2.next_id, -pays)
    <2>1. e = [d2 EXCEPT !.settlements = S, !.next_id = d2.next_id]
      <3>1. e = [d2 EXCEPT !.settlements = S]
        BY <1>3, <1>4, <1>7
      <3>2. d2 \in Dbs
        BY <1>6 DEF DbType
      <3>3. QED
        BY <3>1, <3>2 DEF Dbs
    <2>2. /\ \A x \in d.settlements : BalanceOf[x] \in Int
          /\ BalanceOf[s] = s.balance /\ BalanceOf[k] = k.balance
          /\ Sum(BalanceOf, d.settlements) \in Int
      BY <1>1, <1>2, Terms, SumsAre
    <2>3. /\ S \subseteq Settlements /\ Identified(S, d2.next_id) /\ (\A x \in S : SettlementInv(x))
      BY <1>1, <1>2, <1>4, <1>7 DEF Identified, SettlementInv
    <2>4. IsFiniteSet(S) /\ Sum(BalanceOf, S) = Sum(BalanceOf, d.settlements) + -pays
      <3>1. CASE pays < s.balance
        <4>1. S = (d.settlements \ {s}) \cup {k} /\ k \notin d.settlements \ {s}
          BY <1>1, <1>2, <1>4, <3>1
        <4>2. BalanceOf[k] \in Int
          BY <1>2, Terms
        <4>3. IsFiniteSet(S) /\ Sum(BalanceOf, S) = Sum(BalanceOf, d.settlements) - BalanceOf[s] + BalanceOf[k]
          BY <1>1, <2>2, <4>1, <4>2, SumSwap
        <4>4. QED
          BY <1>1, <1>2, <2>2, <4>3
      <3>2. CASE ~(pays < s.balance)
        <4>1. S = d.settlements \ {s} /\ s.balance = pays
          BY <1>1, <1>4, <3>2
        <4>2. IsFiniteSet(S) /\ Sum(BalanceOf, S) = Sum(BalanceOf, d.settlements) - BalanceOf[s]
          BY <1>1, <2>2, <4>1, SumDrop
        <4>3. QED
          BY <1>1, <2>2, <4>1, <4>2
      <3>3. QED
        BY <3>1, <3>2
    <2>5. d2.next_id \in Nat /\ d2.next_id >= d2.next_id /\ -pays \in Int
      BY <1>1, <1>7
    <2>6. Sum(BalanceOf, S) = Sum(BalanceOf, d2.settlements) + -pays
      BY <1>7, <2>4
    <2>7. QED
      BY <1>6, <2>1, <2>3, <2>4, <2>5, <2>6 DEF Resettles
  <1>9. /\ DbType(e) /\ e.settlements = S /\ e.orders = d2.orders /\ e.calls = d2.calls
        /\ e.aborted = d2.aborted /\ e.force_settled = d2.force_settled
        /\ \A t \in Assets : Surplus(e, t) = Surplus(d2, t) + At1(Mia, t, -pays)
        /\ \A b \in Accounts : CoreGap(e, b) = CoreGap(d2, b)
        /\ DebtGap(e) = DebtGap(d2)
        /\ Solvent(d2) => Solvent(e)
    BY <1>8, SettlementsEffect
  <1>10. ASSUME NEW t \in Assets
         PROVE  Surplus(e, t) = Surplus(d, t) - At1(Mia, t, pays) + At1(Backing, t, receives)
    <2>1. /\ Surplus(e, t) = Surplus(d2, t) + At1(Mia, t, -pays)
          /\ Surplus(d2, t) = Surplus(d1, t) + At1(Backing, t, receives - fee)
          /\ Surplus(d1, t) = Surplus(d, t) + At1(Backing, t, fee)
      BY <1>5, <1>6, <1>9
    <2>2. Surplus(d, t) \in Int /\ fee \in Nat
      BY <1>5, GapTypes
    <2>3. QED
      BY <1>1, <2>1, <2>2 DEF At1
  <1>11. \A b \in Accounts : CoreGap(e, b) = CoreGap(d, b)
    BY <1>5, <1>6, <1>9
  <1>12. DbType(e) /\ DebtGap(e) = DebtGap(d) /\ (d.aborted => e.aborted)
    BY <1>5, <1>6, <1>9
  <1>13. d.aborted \/ Solvent(d) => e.aborted \/ Solvent(e)
    <2>1. SUFFICES ASSUME d.aborted = FALSE, Solvent(d), e.aborted = FALSE PROVE Solvent(e)
      <3>1. d.aborted \in BOOLEAN /\ e.aborted \in BOOLEAN
        BY <1>12 DEF DbType, Dbs
      <3>2. QED
        BY <1>12, <3>1
    <2>2. receives - fee >= 0
      BY <1>5, <1>6, <1>9, <2>1
    <2>3. d1.balance[s.owner][Backing] >= 0 /\ d1.balance[s.owner][Backing] \in Int
      BY <1>1, <1>5, <2>1 DEF Solvent, DbType, Dbs
    <2>4. QED
      BY <1>5, <1>6, <1>9, <2>1, <2>2, <2>3
  <1>14. Keeps(d, e)
    BY <1>11, <1>12, <1>13 DEF Keeps
  <1>15. Trades(d, e, Mia, pays, Backing, receives)
    BY <1>10 DEF Trades
  <1>16. \A x \in e.settlements : \E y \in d.settlements : y.id = x.id /\ x.balance <= y.balance
    BY <1>1, <1>2, <1>4, <1>9
  <1>17. QED
    BY <1>7, <1>9, <1>14, <1>15, <1>16 DEF e
----------------------------------------------------------------------------
(* The invariant.                                                          *)

GatheringLoops == {"settle_calls", "cancel", "cancel_again"}
SettlingLoops == GatheringLoops \cup {"settle_balances"}
Loops == SettlingLoops \cup {"calls", "return_if_called", "return_if_gone", "match", "kill",
                             "expire_limits", "expire_shorts", "settle"}
Tasks == [todo : Seq(Loops), order : Nat, call : Int, called : BOOLEAN, fill_or_kill : BOOLEAN,
          price : Prices, gathered : Int, supply : Int, undefined : BOOLEAN]

\* The loops of a global settlement follow each other.
TodoInv(todo) ==
  /\ \A i \in DOMAIN todo : todo[i] \in GatheringLoops =>
       i + 1 \in DOMAIN todo /\ todo[i + 1] \in SettlingLoops
  /\ \A i \in DOMAIN todo : i > 1 /\ todo[i] \in SettlingLoops => todo[i - 1] \in GatheringLoops

Within(l, s) == \E i \in DOMAIN s : s[i] = l
Has(t, l) == Within(l, t.todo)

\* A price of Mia in the backing asset, which may be null.
MiaPrice(p) == p.base = Mia /\ p.quote = Backing /\ p.b >= 0 /\ p.q >= 0

SettlingNow(t) == t.todo # <<>> /\ Head(t.todo) \in SettlingLoops

TaskInv(t, d) ==
  /\ t \in Tasks /\ TodoInv(t.todo) /\ ~(Has(t, "settle") /\ Has(t, "match"))
  /\ SettlingNow(t) => /\ MiaPrice(t.price) /\ t.price.b > 0
                       /\ Head(t.todo) # "settle_calls" => d.calls = {}
  /\ t.call # None => /\ t.todo # <<>> /\ Head(t.todo) = "calls"
                      /\ t.call = End \/ \E c \in d.calls : c.id = t.call
  /\ t.order # None /\ Has(t, "settle") =>
       /\ Head(t.todo) = "settle" /\ MiaPrice(t.price) /\ t.gathered >= 0
       /\ \A x \in d.settlements : x.id = t.order /\ x.balance > 0 => t.price.b > 0

\* The limit order o would be taken by y.
Takes(o, y) ==
  /\ IsLimit(o) /\ ~Less(PriceMax(o.price.quote, o.price.base), y.price)
  /\ ~Less(y.price, Inv(o.price))

DbInv(d) ==
  /\ DbType(d)
  /\ DebtGap(d) = 0
  /\ Backing = Core => \A a \in Accounts : CoreGap(d, a) = 0
  /\ d.aborted \/ Solvent(d)

\* Nothing but the collateral gathered is missing.
Missing(t, d, s) ==
  IF ~SettlingNow(t) THEN 0
  ELSE IF s = Backing THEN t.gathered
  ELSE IF s = Mia THEN d.supply[Mia] - t.supply ELSE 0
Balanced(t, d) == \A s \in Assets : Surplus(d, s) + Missing(t, d, s) = 0

\* Only the new order can still be matched, and no limit order is out of range.
Uncrossed(t, d) ==
  /\ \A o \in d.orders : IsLimit(o) => o.price.b <= MaxShare * o.price.q
  /\ \A o, y \in d.orders : Takes(o, y) => Has(t, "match") /\ t.order \in {o.id, y.id}

StateInv(t, d) ==
  /\ TaskInv(t, d) /\ DbInv(d)
  /\ NoWithdrawals => d.aborted \/ Balanced(t, d)
  /\ OffersInRange => d.aborted \/ t.undefined \/ Uncrossed(t, d)

\* saved is what Throw restores.
MarketInv ==
  /\ feed \in Feeds
  /\ StateInv(task, db)
  /\ task.todo # <<>> => StateInv(NoTask, saved) /\ ~saved.aborted

----------------------------------------------------------------------------
(* What a match pays.                                                      *)

\* x pays n/m of what it gets, and gets m/n of what it pays; xq/xb and yq/yb are
\* what the two orders ask.
Deals(fx, fy, m, n, xb, xq, yb, yq, X, Y) ==
  /\ fx \in Nat \ {0} /\ fy \in Nat \ {0} /\ m \in Nat \ {0} /\ n \in Nat \ {0}
  /\ xb \in Nat \ {0} /\ xq \in Nat /\ yb \in Nat \ {0} /\ yq \in Nat
  /\ xq * n <= m * xb /\ yq * m <= n * yb /\ (fx * xq) \div xb > 0
  /\ X = IF fx <= (fy * n) \div m THEN fx ELSE (fy * n) \div m
  /\ Y = IF fx <= (fy * n) \div m THEN (fx * m) \div n ELSE fy

LEMMA Deal ==
  ASSUME NEW fx, NEW fy, NEW m, NEW n, NEW xb, NEW xq, NEW yb, NEW yq, NEW X, NEW Y,
         Deals(fx, fy, m, n, xb, xq, yb, yq, X, Y)
  PROVE  /\ X \in Nat /\ X <= fx /\ Y \in Nat \ {0} /\ Y <= fy
         /\ X = fx \/ Y = fy
         /\ (X * xq) \div xb <= Y /\ (Y * yq) \div yb <= X
<1> USE DEF Deals
<1>1. /\ fy * n \in Nat /\ fx * m \in Nat /\ fx * xq \in Nat
      /\ (fy * n) \div m \in Nat /\ (fx * m) \div n \in Nat /\ (fx * xq) \div xb \in Int
  <2>1. fy * n \in Int /\ fx * m \in Int /\ fx * xq \in Int
    BY Regroup
  <2>2. 0 * n <= fy * n /\ 0 * m <= fx * m /\ 0 * xq <= fx * xq
    BY Products
  <2>3. fy * n \in Nat /\ fx * m \in Nat /\ fx * xq \in Nat
    BY <2>1, <2>2
  <2> QED  BY <2>3, Floor
<1>2. (fx * xq) \div xb <= (fx * m) \div n
  BY BetterPrice
<1>3. CASE fx <= (fy * n) \div m
  <2>1. (fx * m) \div n <= fy
    <3>1. fx * m <= ((fy * n) \div m) * m
      BY <1>1, <1>3, Products
    <3>2. ((fy * n) \div m) * m <= fy * n
      BY <1>1, Floor
    <3>3. fx * m <= fy * n
      BY <1>1, <3>1, <3>2, Products
    <3> QED  BY <3>3, <1>1, FloorBounds
  <2>2. (((fx * m) \div n) * yq) \div yb <= fx
    BY <1>1, WorsePrice
  <2> QED  BY <2>1, <2>2, <1>1, <1>2, <1>3
<1>4. CASE ~(fx <= (fy * n) \div m)
  <2>1. X = (fy * n) \div m /\ Y = fy /\ X \in Nat
    BY <1>1, <1>4
  <2>2. (X * xq) \div xb <= fy
    BY <2>1, WorsePrice
  <2>3. (fy * yq) \div yb <= X
    BY <2>1, BetterPrice
  <2> QED  BY <2>1, <2>2, <2>3, <1>1, <1>4
<1> QED  BY <1>3, <1>4

\* An order in the range of a price is of its market, at no worse a price.
LEMMA InRangeFacts ==
  ASSUME NEW d, DbType(d), NEW p \in Prices, NEW y \in InRange(d, p)
  PROVE  /\ y \in d.orders /\ y \in Orders /\ OrderInv(y) /\ y.price \in Prices
         /\ y.price.base = p.base /\ y.price.quote = p.quote
         /\ y.price.b > 0 /\ y.price.q > 0 /\ y.for_sale > 0
         /\ p.b * y.price.q <= y.price.b * p.q
<1>1. y \in d.orders /\ ~Less(PriceMax(p.base, p.quote), y.price) /\ ~Less(y.price, p)
  BY DEF InRange
<1>2. y \in Orders /\ OrderInv(y)
  BY <1>1, OrderFacts
<1>3. /\ y.price \in Prices /\ y.price.base \in Nat /\ y.price.quote \in Nat /\ p.base \in Nat
      /\ p.quote \in Nat /\ y.price.b \in Int /\ y.price.q \in Int /\ p.b \in Int /\ p.q \in Int
      /\ y.price.b > 0 /\ y.for_sale > 0
  <2>1. y.price \in Prices
    BY <1>2 DEF Orders
  <2>2. \A u \in Prices : u.base \in Nat /\ u.quote \in Nat /\ u.b \in Int /\ u.q \in Int
    BY MarketAssumption DEF Prices
  <2>3. y.price.b > 0 /\ y.for_sale > 0
    BY <1>2 DEF OrderInv
  <2> QED  BY <2>1, <2>2, <2>3
<1>4. y.price.base = p.base /\ y.price.quote = p.quote
  <2>1. /\ ~(p.base < y.price.base) /\ ~(p.base = y.price.base /\ p.quote < y.price.quote)
        /\ ~(y.price.base < p.base) /\ ~(y.price.base = p.base /\ y.price.quote < p.quote)
    BY <1>1 DEF Less, PriceMax, Price
  <2> QED  BY <2>1, <1>3
<1>5. ~(MaxShare * y.price.q < y.price.b * 1) /\ ~(y.price.b * p.q < p.b * y.price.q)
  BY <1>1, <1>4 DEF Less, PriceMax, Price
<1>6. y.price.q > 0
  <2>1. SUFFICES ASSUME y.price.q <= 0 PROVE FALSE
    BY <1>3
  <2>2. y.price.q * MaxShare <= 0 * MaxShare
    BY <2>1, <1>3, Products, MarketAssumption
  <2>3. MaxShare * y.price.q = y.price.q * MaxShare /\ MaxShare * y.price.q \in Int
    BY <1>3, Regroup, MarketAssumption
  <2> QED  BY <2>2, <2>3, <1>3, <1>5, MarketAssumption
<1>7. p.b * y.price.q <= y.price.b * p.q
  <2>1. p.b * y.price.q \in Int /\ y.price.b * p.q \in Int
    BY <1>3, Regroup
  <2> QED  BY <2>1, <1>5
<1> QED  BY <1>1, <1>2, <1>3, <1>4, <1>6, <1>7

\* Orders x and y of one market, of which x is a limit order and y is no more
\* expensive than x allows, at the price of either.
Meets(d, x, y, p) ==
  /\ DbType(d) /\ x \in d.orders /\ y \in d.orders /\ IsLimit(x)
  /\ x.price.base = y.price.quote /\ x.price.quote = y.price.base
  /\ x.price.q * y.price.q <= x.price.b * y.price.b
  /\ p = x.price \/ (p = y.price /\ y.price.q > 0)

LEMMA MatchPays ==
  ASSUME NEW d, NEW x, NEW y, NEW p, Meets(d, x, y, p)
  PROVE  LET X == XPays(x, y, p)
             Y == YPays(x, y, p)
         IN  /\ x.for_sale > 0 /\ y.for_sale > 0 /\ x.id # y.id
             /\ X \in Nat /\ X <= x.for_sale /\ Y \in Nat \ {0} /\ Y <= y.for_sale
             /\ X = x.for_sale \/ Y = y.for_sale
             /\ Times(X, x.price.base, x.price) <= Y /\ Times(Y, y.price.base, y.price) <= X
<1> DEFINE X == XPays(x, y, p)
           Y == YPays(x, y, p)
           xb == x.price.b
           xq == x.price.q
           yb == y.price.b
           yq == y.price.q
           fx == x.for_sale
           fy == y.for_sale
           m == IF p = x.price THEN xq ELSE yb
           n == IF p = x.price THEN xb ELSE yq
<1>1. x \in Orders /\ OrderInv(x) /\ y \in Orders /\ OrderInv(y) /\ (x.id = y.id => x = y)
  BY OrderFacts DEF Meets
<1>2. /\ xb \in Nat \ {0} /\ xq \in Nat \ {0} /\ yb \in Nat \ {0} /\ yq \in Nat
      /\ fx \in Nat \ {0} /\ fy \in Nat \ {0} /\ ForSale(x) > 0
      /\ x.price.base # x.price.quote /\ y.price.base # y.price.quote
  BY <1>1, MarketAssumption DEF Meets, Orders, Prices, OrderInv
<1>3. x.id # y.id
  BY <1>1, <1>2 DEF Meets
<1>4. (fx * xq) \div xb > 0
  BY <1>2 DEF ForSale, Times
<1>5. m \in Nat \ {0} /\ n \in Nat \ {0} /\ (p = x.price \/ p = y.price)
  BY <1>2 DEF Meets
<1>6. /\ Times(fy, y.price.base, p) = (fy * n) \div m
      /\ Times(fx, x.price.base, p) = (fx * m) \div n
  <2>1. CASE p = x.price
    BY <2>1, <1>2 DEF Times, Meets
  <2>2. CASE p # x.price
    BY <2>2, <1>2 DEF Times, Meets
  <2> QED  BY <2>1, <2>2
<1>7. xq * n <= m * xb /\ yq * m <= n * yb
  <2>1. /\ xq * xb \in Int /\ xq * xb = xb * xq /\ yq * yb = yb * yq /\ yq * yb \in Int
        /\ xq * yq <= xb * yb /\ xb * yb = yb * xb /\ xq * yq = yq * xq /\ xq * yq \in Int
    BY <1>2, Regroup DEF Meets
  <2>2. CASE p = x.price
    <3>1. m = xq /\ n = xb
      BY <2>2
    <3> HIDE DEF m, n, xb, xq, yb, yq
    <3> QED  BY <2>1, <3>1
  <2>3. CASE p # x.price
    <3>1. m = yb /\ n = yq
      BY <2>3
    <3> HIDE DEF m, n, xb, xq, yb, yq
    <3> QED  BY <2>1, <3>1
  <2> HIDE DEF m, n, xb, xq, yb, yq
  <2> QED  BY <2>2, <2>3
<1>8. /\ X = (IF fx <= (fy * n) \div m THEN fx ELSE (fy * n) \div m)
      /\ Y = (IF fx <= (fy * n) \div m THEN (fx * m) \div n ELSE fy)
  BY <1>6 DEF XPays, YPays
<1>9. Times(X, x.price.base, x.price) = (X * xq) \div xb /\ Times(Y, y.price.base, y.price) = (Y * yq) \div yb
  BY DEF Times
<1> HIDE DEF X, Y, xb, xq, yb, yq, fx, fy, m, n
<1>10. /\ X \in Nat /\ X <= fx /\ Y \in Nat \ {0} /\ Y <= fy
       /\ X = fx \/ Y = fy
       /\ (X * xq) \div xb <= Y /\ (Y * yq) \div yb <= X
  <2>1. Deals(fx, fy, m, n, xb, xq, yb, yq, X, Y)
    BY <1>2, <1>4, <1>5, <1>7, <1>8 DEF Deals
  <2> QED  BY <2>1, Deal
<1> USE DEF X, Y, fx, fy
<1> QED  BY <1>2, <1>3, <1>9, <1>10

\* Every order of e is an order of d, or what is left of one.
OrdersFrom(d, e) ==
  \A z \in e.orders : \E w \in d.orders : w.id = z.id /\ w.kind = z.kind /\ w.price = z.price

LEMMA FilledFrom ==
  ASSUME NEW d, NEW e, NEW y \in d.orders, NEW pays, Filled(d, e, y, pays)
  PROVE  OrdersFrom(d, e)
BY DEF Filled, OrdersFrom

LEMMA MatchEffect ==
  ASSUME NEW d, NEW x, NEW y, NEW p, Meets(d, x, y, p)
  PROVE  LET e == Match(d, x, y, p)
         IN  /\ Keeps(d, e) /\ OrdersFrom(d, e)
             /\ \A t \in Assets : Surplus(e, t) = Surplus(d, t)
             /\ WithId(e.orders, x.id) = {} \/ WithId(e.orders, y.id) = {}
<1> DEFINE X == XPays(x, y, p)
           Y == YPays(x, y, p)
           d1 == FillOrder(d, x, X, Y)
           e == FillOrder(d1, y, Y, X)
<1>1. /\ x.for_sale > 0 /\ y.for_sale > 0 /\ x.id # y.id
      /\ X \in Nat /\ X <= x.for_sale /\ Y \in Nat \ {0} /\ Y <= y.for_sale
      /\ X = x.for_sale \/ Y = y.for_sale
  BY MatchPays
<1>2. Match(d, x, y, p) = e
  BY <1>1 DEF Match
<1>3. DbType(d) /\ x \in d.orders /\ y \in d.orders /\ IsLimit(x)
      /\ x.price.base = y.price.quote /\ x.price.quote = y.price.base
  BY DEF Meets
<1> HIDE DEF X, Y
<1>4. /\ Keeps(d, d1) /\ Trades(d, d1, x.price.base, X, x.price.quote, Y) /\ Filled(d, d1, x, X)
  BY <1>1, <1>3, FillOrderEffect
<1>5. DbType(d1) /\ y \in d1.orders
  BY <1>1, <1>3, <1>4 DEF Keeps, Filled
<1> HIDE DEF d1
<1>6. /\ Keeps(d1, e) /\ Trades(d1, e, y.price.base, Y, y.price.quote, X) /\ Filled(d1, e, y, Y)
  BY <1>1, <1>5, FillOrderEffect
<1> HIDE DEF e
<1>7. Keeps(d, e)
  BY <1>4, <1>6, KeepsBoth
<1>8. OrdersFrom(d, e)
  <2>1. OrdersFrom(d, d1) /\ OrdersFrom(d1, e)
    BY <1>3, <1>4, <1>5, <1>6, FilledFrom
  <2> QED  BY <2>1 DEF OrdersFrom
<1>9. ASSUME NEW t \in Assets PROVE Surplus(e, t) = Surplus(d, t)
  <2>1. /\ Surplus(d1, t) = Surplus(d, t) - At1(x.price.base, t, X) + At1(x.price.quote, t, Y)
        /\ Surplus(e, t) = Surplus(d1, t) - At1(x.price.quote, t, Y) + At1(x.price.base, t, X)
    BY <1>3, <1>4, <1>6 DEF Trades
  <2>2. Surplus(d, t) \in Int /\ At1(x.price.base, t, X) \in Int /\ At1(x.price.quote, t, Y) \in Int
    BY <1>1, <1>3, GapTypes DEF At1
  <2>3. Surplus(d1, t) \in Int /\ Surplus(e, t) \in Int
    BY <1>5, <1>7, GapTypes DEF Keeps
  <2> HIDE DEF e, d1
  <2> QED  BY <2>1, <2>2, <2>3
<1>10. WithId(e.orders, x.id) = {} \/ WithId(e.orders, y.id) = {}
  <2>1. CASE Y = y.for_sale
    BY <2>1, <1>6 DEF Filled
  <2>2. CASE X = x.for_sale
    <3>1. WithId(d1.orders, x.id) = {}
      BY <2>2, <1>4 DEF Filled
    <3>2. \A z \in e.orders : z \in d1.orders \/ z.id = y.id
      BY <1>6 DEF Filled
    <3> QED  BY <3>1, <3>2, <1>1 DEF WithId
  <2> QED  BY <1>1, <2>1, <2>2
<1> QED  BY <1>2, <1>7, <1>8, <1>9, <1>10

----------------------------------------------------------------------------
(* The loops of an operation.                                              *)

LEMMA TailTodo ==
  ASSUME NEW s \in Seq(Loops), s # <<>>, TodoInv(s)
  PROVE  /\ Tail(s) \in Seq(Loops) /\ TodoInv(Tail(s)) /\ Head(s) \in Loops /\ Within(Head(s), s)
         /\ Head(s) \in GatheringLoops => Tail(s) # <<>>
         /\ Tail(s) # <<>> => (Head(Tail(s)) \in SettlingLoops <=> Head(s) \in GatheringLoops)
         /\ \A l : Within(l, Tail(s)) => Within(l, s)
         /\ \A l : Within(l, s) => l = Head(s) \/ Within(l, Tail(s))
<1>1. /\ Len(s) \in Nat \ {0} /\ DOMAIN s = 1..Len(s) /\ Head(s) = s[1] /\ Head(s) \in Loops
      /\ Tail(s) \in Seq(Loops) /\ Len(Tail(s)) = Len(s) - 1 /\ DOMAIN Tail(s) = 1..(Len(s) - 1)
      /\ \A i \in 1..(Len(s) - 1) : Tail(s)[i] = s[i + 1]
  OBVIOUS
<1>2. TodoInv(Tail(s))
  <2>1. ASSUME NEW i \in DOMAIN Tail(s), Tail(s)[i] \in GatheringLoops
        PROVE  i + 1 \in DOMAIN Tail(s) /\ Tail(s)[i + 1] \in SettlingLoops
    <3>1. i + 1 \in DOMAIN s /\ s[i + 1] \in GatheringLoops
      BY <1>1, <2>1
    <3>2. i + 2 \in DOMAIN s /\ s[(i + 1) + 1] \in SettlingLoops
      BY <3>1, <1>1 DEF TodoInv
    <3> QED  BY <3>2, <1>1
  <2>2. ASSUME NEW i \in DOMAIN Tail(s), i > 1, Tail(s)[i] \in SettlingLoops
        PROVE  Tail(s)[i - 1] \in GatheringLoops
    <3>1. i + 1 \in DOMAIN s /\ i + 1 > 1 /\ s[i + 1] \in SettlingLoops
      BY <1>1, <2>2
    <3>2. s[(i + 1) - 1] \in GatheringLoops
      BY <3>1 DEF TodoInv
    <3> QED  BY <3>2, <1>1, <2>2
  <2> QED  BY <2>1, <2>2 DEF TodoInv
<1>3. Head(s) \in GatheringLoops => Len(s) > 1 /\ s[2] \in SettlingLoops
  <2>1. s[1] \in GatheringLoops => 1 + 1 \in DOMAIN s /\ s[1 + 1] \in SettlingLoops
    BY <1>1 DEF TodoInv
  <2> QED  BY <2>1, <1>1
<1>4. Len(s) > 1 /\ s[2] \in SettlingLoops => Head(s) \in GatheringLoops
  <2>1. Len(s) > 1 /\ s[2] \in SettlingLoops => s[2 - 1] \in GatheringLoops
    BY <1>1 DEF TodoInv
  <2> QED  BY <2>1, <1>1
<1>5. (Tail(s) = <<>> <=> Len(s) = 1) /\ (Tail(s) # <<>> => Head(Tail(s)) = s[2] /\ Len(s) > 1)
  <2> DEFINE w == Tail(s)
  <2>1. w \in Seq(Loops) /\ Len(w) = Len(s) - 1 /\ (1 <= Len(s) - 1 => w[1] = s[1 + 1])
    BY <1>1
  <2> HIDE DEF w
  <2>2. (w = <<>> <=> Len(w) = 0) /\ (w # <<>> => Head(w) = w[1])
    BY <2>1
  <2>3. (w = <<>> <=> Len(s) = 1) /\ (w # <<>> => Head(w) = s[2] /\ Len(s) > 1)
    BY <2>1, <2>2, <1>1
  <2> QED  BY <2>3 DEF w
<1>6. \A l : Within(l, Tail(s)) => Within(l, s)
  <2>1. \A i \in DOMAIN Tail(s) : i + 1 \in DOMAIN s /\ Tail(s)[i] = s[i + 1]
    BY <1>1
  <2> QED  BY <2>1 DEF Within
<1>7. \A l : Within(l, s) => l = Head(s) \/ Within(l, Tail(s))
  <2>1. \A i \in DOMAIN s : i = 1 \/ (i - 1 \in DOMAIN Tail(s) /\ Tail(s)[i - 1] = s[i])
    BY <1>1
  <2> QED  BY <2>1, <1>1 DEF Within
<1>8. Within(Head(s), s)
  BY <1>1 DEF Within
<1> QED  BY <1>1, <1>2, <1>3, <1>4, <1>5, <1>6, <1>7, <1>8

\* Another loop goes before the ones to do.
LEMMA PushTodo ==
  ASSUME NEW s \in Seq(Loops), TodoInv(s), s # <<>> => Head(s) \notin SettlingLoops,
         NEW l \in Loops \ SettlingLoops, NEW w, w = <<l>> \o s
  PROVE  /\ w \in Seq(Loops) /\ TodoInv(w) /\ w # <<>> /\ Head(w) = l
         /\ \A k : Within(k, w) <=> k = l \/ Within(k, s)
<1>1. /\ w \in Seq(Loops) /\ Len(s) \in Nat /\ Len(w) = Len(s) + 1 /\ DOMAIN w = 1..(Len(s) + 1)
      /\ DOMAIN s = 1..Len(s) /\ w[1] = l /\ \A i \in 1..Len(s) : w[i + 1] = s[i]
  OBVIOUS
<1>2. \A i \in DOMAIN w : i = 1 \/ (i - 1 \in DOMAIN s /\ w[i] = s[i - 1])
  <2>1. ASSUME NEW i \in DOMAIN w, i # 1 PROVE i - 1 \in DOMAIN s /\ w[(i - 1) + 1] = s[i - 1] /\ (i - 1) + 1 = i
    BY <1>1, <2>1
  <2> QED  BY <2>1
<1>3. TodoInv(w)
  <2>1. ASSUME NEW i \in DOMAIN w, w[i] \in GatheringLoops
        PROVE  i + 1 \in DOMAIN w /\ w[i + 1] \in SettlingLoops
    <3>1. i - 1 \in DOMAIN s /\ s[i - 1] \in GatheringLoops
      BY <1>1, <1>2, <2>1 DEF SettlingLoops
    <3>2. (i - 1) + 1 \in DOMAIN s /\ s[(i - 1) + 1] \in SettlingLoops
      BY <3>1 DEF TodoInv
    <3> QED  BY <3>2, <1>1
  <2>2. ASSUME NEW i \in DOMAIN w, i > 1, w[i] \in SettlingLoops PROVE w[i - 1] \in GatheringLoops
    <3>1. i - 1 \in DOMAIN s /\ s[i - 1] \in SettlingLoops
      BY <1>1, <1>2, <2>2
    <3>2. i - 1 > 1
      BY <3>1, <1>1
    <3>3. s[(i - 1) - 1] \in GatheringLoops
      BY <3>1, <3>2 DEF TodoInv
    <3>4. i - 1 \in DOMAIN w /\ i - 1 # 1
      BY <3>1, <3>2, <1>1
    <3> QED  BY <3>3, <3>4, <1>2
  <2> QED  BY <2>1, <2>2 DEF TodoInv
<1>4. \A k : Within(k, w) <=> k = l \/ Within(k, s)
  <2>1. \A i \in DOMAIN s : i + 1 \in DOMAIN w /\ w[i + 1] = s[i]
    BY <1>1
  <2>2. 1 \in DOMAIN w
    BY <1>1
  <2> QED  BY <2>1, <2>2, <1>1, <1>2, ZenonT(60) DEF Within
<1> QED  BY <1>1, <1>3, <1>4

\* A global settlement goes before the ones to do.
LEMMA SwanTodo ==
  ASSUME NEW s \in Seq(Loops), TodoInv(s), s # <<>> => Head(s) \notin SettlingLoops,
         NEW w, w = <<"settle_calls", "cancel", "cancel_again", "settle_balances">> \o s
  PROVE  /\ w \in Seq(Loops) /\ TodoInv(w) /\ w # <<>> /\ Head(w) = "settle_calls"
         /\ \A k : Within(k, w) <=> k \in SettlingLoops \/ Within(k, s)
<1> DEFINE g == <<"settle_calls", "cancel", "cancel_again", "settle_balances">>
<1>0. g \in Seq(Loops) /\ Len(g) = 4 /\ g[1] = "settle_calls" /\ g[2] = "cancel" /\ g[3] = "cancel_again" /\ g[4] = "settle_balances"
  BY DEF Loops, SettlingLoops, GatheringLoops
<1>1. w = g \o s
  OBVIOUS
<1> HIDE DEF g
<1>2. /\ w \in Seq(Loops) /\ Len(s) \in Nat /\ Len(w) = Len(s) + 4 /\ DOMAIN w = 1..(Len(s) + 4)
      /\ DOMAIN s = 1..Len(s) /\ w[1] = "settle_calls" /\ w[2] = "cancel" /\ w[3] = "cancel_again"
      /\ w[4] = "settle_balances"
      /\ \A i \in 5..(Len(s) + 4) : w[i] = s[i - 4]
  BY <1>0, <1>1
<1>3. \A i \in DOMAIN w : i = 1 \/ i = 2 \/ i = 3 \/ i = 4 \/ (i > 4 /\ i - 4 \in DOMAIN s /\ w[i] = s[i - 4])
  BY <1>2
<1>4. TodoInv(w)
  <2>1. ASSUME NEW i \in DOMAIN w, w[i] \in GatheringLoops
        PROVE  i + 1 \in DOMAIN w /\ w[i + 1] \in SettlingLoops
    <3>1. CASE i \in {1, 2, 3}
      BY <3>1, <1>2 DEF SettlingLoops, GatheringLoops
    <3>2. CASE i = 4
      BY <3>2, <2>1, <1>2 DEF GatheringLoops
    <3>3. CASE i > 4
      <4>1. i - 4 \in DOMAIN s /\ s[i - 4] \in GatheringLoops
        BY <1>2, <2>1, <3>3
      <4>2. (i - 4) + 1 \in DOMAIN s /\ s[(i - 4) + 1] \in SettlingLoops
        BY <4>1 DEF TodoInv
      <4>3. i + 1 \in DOMAIN w /\ i + 1 > 4 /\ (i + 1) - 4 = (i - 4) + 1
        BY <4>2, <1>2, <3>3
      <4> QED  BY <4>2, <4>3, <1>2
    <3> QED  BY <3>1, <3>2, <3>3, <1>3
  <2>2. ASSUME NEW i \in DOMAIN w, i > 1, w[i] \in SettlingLoops PROVE w[i - 1] \in GatheringLoops
    <3>1. CASE i \in {2, 3, 4}
      BY <3>1, <1>2 DEF SettlingLoops, GatheringLoops
    <3>2. CASE i > 4
      <4>1. i - 4 \in DOMAIN s /\ s[i - 4] \in SettlingLoops
        BY <1>2, <2>2, <3>2
      <4>2. i - 4 > 1
        BY <4>1, <1>2
      <4>3. s[(i - 4) - 1] \in GatheringLoops
        BY <4>1, <4>2 DEF TodoInv
      <4>4. i - 1 \in DOMAIN w /\ i - 1 > 4 /\ (i - 1) - 4 = (i - 4) - 1
        BY <4>1, <4>2, <1>2
      <4> QED  BY <4>3, <4>4, <1>2
    <3> QED  BY <3>1, <3>2, <2>2, <1>3
  <2> QED  BY <2>1, <2>2 DEF TodoInv
<1>5. \A k : Within(k, w) <=> k \in SettlingLoops \/ Within(k, s)
  <2>1. \A i \in DOMAIN s : i + 4 \in DOMAIN w /\ w[i + 4] = s[i]
    BY <1>2
  <2>2. \A i \in 1..4 : i \in DOMAIN w /\ w[i] \in SettlingLoops
    BY <1>2 DEF SettlingLoops, GatheringLoops
  <2>3. \A k \in SettlingLoops : \E i \in 1..4 : w[i] = k
    BY <1>2 DEF SettlingLoops, GatheringLoops
  <2>4. \A k : Within(k, s) => Within(k, w)
    BY <2>1 DEF Within
  <2>5. \A k \in SettlingLoops : Within(k, w)
    BY <2>2, <2>3 DEF Within
  <2>6. \A i \in DOMAIN w : w[i] \in SettlingLoops \/ (i - 4 \in DOMAIN s /\ w[i] = s[i - 4])
    BY <1>2, <1>3, <2>2
  <2>7. \A k : Within(k, w) => k \in SettlingLoops \/ Within(k, s)
    BY <2>6 DEF Within
  <2> QED  BY <2>4, <2>5, <2>7
<1> QED  BY <1>2, <1>4, <1>5

----------------------------------------------------------------------------
(* How the invariant is carried from step to step.                         *)

LEMMA KeepsInv ==
  ASSUME NEW d, NEW e, DbInv(d), Keeps(d, e)
  PROVE  DbInv(e)
BY DEF DbInv, Keeps

LEMMA NullTask ==
  /\ NullPrice \in Prices /\ NoTask \in Tasks /\ NoTask.todo = <<>> /\ NoTask.undefined = FALSE
  /\ \A d : \A u \in BOOLEAN : LET t == [NoTask EXCEPT !.undefined = u]
                              IN  TaskInv(t, d) /\ t.todo = <<>> /\ t.undefined = u /\ ~SettlingNow(t)
<1>1. NullPrice \in Prices
  BY MarketAssumption DEF NullPrice, Price, Prices
<1>2. NoTask \in Tasks /\ NoTask.todo = <<>> /\ NoTask.order = None /\ NoTask.call = None
  BY <1>1 DEF NoTask, Tasks, None
<1>3. NoTask.undefined = FALSE
  BY DEF NoTask
<1>4. ASSUME NEW u \in BOOLEAN, NEW d
      PROVE  LET t == [NoTask EXCEPT !.undefined = u]
             IN  TaskInv(t, d) /\ t.todo = <<>> /\ t.undefined = u /\ ~SettlingNow(t)
  <2> DEFINE t == [NoTask EXCEPT !.undefined = u]
  <2>1. t \in Tasks /\ t.todo = <<>> /\ t.order = None /\ t.call = None /\ t.undefined = u
    BY <1>2 DEF Tasks
  <2>2. TodoInv(t.todo) /\ ~SettlingNow(t)
    BY <2>1 DEF TodoInv, SettlingNow
  <2> HIDE DEF t
  <2>3. TaskInv(t, d)
    BY <2>1, <2>2 DEF TaskInv, Has, Within
  <2> QED  BY <2>1, <2>2, <2>3 DEF t
<1> QED  BY <1>1, <1>2, <1>3, <1>4

\* No operation is in progress.
Settled(u, d) ==
  /\ u \in BOOLEAN /\ DbInv(d)
  /\ NoWithdrawals => d.aborted \/ \A s \in Assets : Surplus(d, s) = 0
  /\ OffersInRange => d.aborted \/ u \/ Uncrossed(NoTask, d)

LEMMA SettledInv ==
  ASSUME NEW u, NEW d, Settled(u, d)
  PROVE  StateInv([NoTask EXCEPT !.undefined = u], d)
<1> DEFINE t == [NoTask EXCEPT !.undefined = u]
<1>1. TaskInv(t, d) /\ t.todo = <<>> /\ t.undefined = u /\ ~SettlingNow(t)
  BY NullTask DEF Settled
<1> HIDE DEF t
<1>2. NoWithdrawals => d.aborted \/ Balanced(t, d)
  <2>1. \A s \in Assets : Missing(t, d, s) = 0
    BY <1>1 DEF Missing
  <2>2. \A s \in Assets : Surplus(d, s) = 0 => Surplus(d, s) + Missing(t, d, s) = 0
    BY <2>1
  <2> QED  BY <2>2 DEF Settled, Balanced
<1>3. OffersInRange => d.aborted \/ t.undefined \/ Uncrossed(t, d)
  <2>1. Uncrossed(NoTask, d) => Uncrossed(t, d)
    <3>1. ~Has(NoTask, "match")
      BY NullTask DEF Has, Within
    <3> QED  BY <3>1 DEF Uncrossed
  <2> QED  BY <2>1, <1>1 DEF Settled
<1> QED  BY <1>1, <1>2, <1>3 DEF StateInv, Settled, t

LEMMA SettledNow ==
  ASSUME NEW t, NEW d, StateInv(t, d), t.todo = <<>>
  PROVE  Settled(t.undefined, d)
<1>1. t.undefined \in BOOLEAN
  BY DEF StateInv, TaskInv, Tasks
<1>2. NoWithdrawals => d.aborted \/ \A s \in Assets : Surplus(d, s) = 0
  <2>1. \A s \in Assets : Missing(t, d, s) = 0
    BY DEF Missing, SettlingNow
  <2>2. \A s \in Assets : Surplus(d, s) + Missing(t, d, s) = 0 => Surplus(d, s) = 0
    <3>1. \A s \in Assets : Surplus(d, s) \in Int
      BY GapTypes DEF StateInv, DbInv
    <3> QED  BY <2>1, <3>1
  <2> QED  BY <2>2 DEF StateInv, Balanced
<1>3. Uncrossed(t, d) => Uncrossed(NoTask, d)
  BY DEF Uncrossed, Has, Within
<1> QED  BY <1>1, <1>2, <1>3 DEF Settled, StateInv

LEMMA NoTaskIs == NoTask = [NoTask EXCEPT !.undefined = FALSE]
<1>1. NoTask \in Tasks /\ NoTask.undefined = FALSE
  BY NullTask
<1> QED  BY <1>1 DEF Tasks

\* A step of a loop.
LEMMA StepInv ==
  ASSUME MarketInv, task.todo # <<>>, NEW d, NEW t, NEW f, Step(d, t, f), DbInv(d),
         t.undefined \in BOOLEAN, d.aborted \/ StateInv(t, d)
  PROVE  MarketInv'
<1>1. db' = d /\ feed' = feed /\ feed \in Feeds
  BY DEF Step, MarketInv
<1>2. CASE d.aborted \/ t.todo = <<>>
  <2>1. task' = [NoTask EXCEPT !.undefined = t.undefined]
    BY <1>1, <1>2 DEF Step
  <2>2. Settled(t.undefined, d)
    <3>1. CASE d.aborted
      BY <3>1 DEF Settled
    <3>2. CASE ~d.aborted
      BY <3>2, <1>2, SettledNow
    <3> QED  BY <3>1, <3>2
  <2>3. StateInv(task', d)
    BY <2>1, <2>2, SettledInv
  <2>4. task'.todo = <<>>
    BY <2>1, NullTask
  <2> QED  BY <1>1, <2>3, <2>4 DEF MarketInv, StateInv, TaskInv, DbInv, Balanced, Uncrossed
<1>3. CASE ~(d.aborted \/ t.todo = <<>>)
  <2>1. task' = t /\ saved' = saved /\ StateInv(t, d)
    BY <1>1, <1>3 DEF Step
  <2> QED  BY <1>1, <2>1 DEF MarketInv
<1> QED  BY <1>2, <1>3

\* The undo session of the operation is dropped.
LEMMA ThrowInv ==
  ASSUME MarketInv, task.todo # <<>>, Throw
  PROVE  MarketInv'
<1>1. feed' = feed /\ db' = saved /\ saved' = saved /\ task' = NoTask /\ task'.todo = <<>>
  BY NullTask DEF Throw
<1> QED  BY <1>1 DEF MarketInv

\* The first step of an operation.
LEMMA IdleInv ==
  ASSUME MarketInv, Idle
  PROVE  Settled(FALSE, db) /\ StateInv(NoTask, db) /\ ~db.aborted /\ DbInv(db) /\ DbType(db) /\ Solvent(db)
<1>1. task.todo = <<>> /\ task.undefined = FALSE
  BY DEF Idle, MarketInv, StateInv, TaskInv, Tasks
<1>2. Settled(FALSE, db)
  BY <1>1, SettledNow DEF MarketInv
<1> QED  BY <1>2, SettledInv, NoTaskIs DEF Settled, DbInv, Idle

LEMMA BeginInv ==
  ASSUME MarketInv, Idle, NEW d, NEW t, db' = d, task' = t, feed' = feed, saved' \in {d, db},
         StateInv(t, d), t.todo # <<>> => saved' = db
  PROVE  MarketInv'
<1>1. StateInv(NoTask, db) /\ ~db.aborted
  BY IdleInv
<1> QED  BY <1>1 DEF MarketInv

LEMMA UncrossedKept ==
  ASSUME NEW t, NEW d, NEW u, NEW e, Uncrossed(t, d), OrdersFrom(d, e), u.order = t.order,
         Has(t, "match") => Has(u, "match")
  PROVE  Uncrossed(u, e)
<1>1. ASSUME NEW o \in e.orders, IsLimit(o) PROVE o.price.b <= MaxShare * o.price.q
  <2>1. PICK w \in d.orders : w.id = o.id /\ w.kind = o.kind /\ w.price = o.price
    BY DEF OrdersFrom
  <2>2. w.price.b <= MaxShare * w.price.q
    BY <1>1, <2>1 DEF Uncrossed, IsLimit
  <2> QED  BY <2>1, <2>2
<1>2. ASSUME NEW o \in e.orders, NEW y \in e.orders, Takes(o, y)
      PROVE  Has(u, "match") /\ u.order \in {o.id, y.id}
  <2>1. PICK w \in d.orders : w.id = o.id /\ w.kind = o.kind /\ w.price = o.price
    BY DEF OrdersFrom
  <2>2. PICK z \in d.orders : z.id = y.id /\ z.kind = y.kind /\ z.price = y.price
    BY DEF OrdersFrom
  <2>3. Takes(w, z)
    BY <1>2, <2>1, <2>2 DEF Takes, IsLimit
  <2> QED  BY <2>1, <2>2, <2>3 DEF Uncrossed
<1> QED  BY <1>1, <1>2 DEF Uncrossed

LEMMA SameDb ==
  ASSUME NEW d, DbType(d)
  PROVE  Keeps(d, d) /\ OrdersFrom(d, d)
BY DEF Keeps, OrdersFrom

LEMMA PopTask ==
  ASSUME NEW t, NEW d, NEW e, TaskInv(t, d), t.todo # <<>>,
         t.order = None \/ Head(t.todo) # "settle",
         Head(t.todo) \in GatheringLoops => e.calls = {}
  PROVE  /\ TaskInv(Pop(t), e) /\ Pop(t).undefined = t.undefined /\ Pop(t).order = t.order
         /\ Pop(t).gathered = t.gathered /\ Pop(t).supply = t.supply
         /\ SettlingNow(Pop(t)) <=> Head(t.todo) \in GatheringLoops
         /\ \A l : Has(Pop(t), l) => Has(t, l)
         /\ \A l : Has(t, l) => l = Head(t.todo) \/ Has(Pop(t), l)
<1> DEFINE p == Pop(t)
           s == t.todo
<1>1. t \in Tasks /\ s \in Seq(Loops) /\ TodoInv(s)
  BY DEF TaskInv, Tasks
<1>2. /\ Tail(s) \in Seq(Loops) /\ TodoInv(Tail(s)) /\ Head(s) \in Loops /\ Within(Head(s), s)
      /\ Head(s) \in GatheringLoops => Tail(s) # <<>>
      /\ Tail(s) # <<>> => (Head(Tail(s)) \in SettlingLoops <=> Head(s) \in GatheringLoops)
      /\ \A l : Within(l, Tail(s)) => Within(l, s)
      /\ \A l : Within(l, s) => l = Head(s) \/ Within(l, Tail(s))
  BY <1>1, TailTodo
<1>3. /\ p \in Tasks /\ p.todo = Tail(s) /\ p.call = None /\ p.undefined = t.undefined
      /\ p.order = t.order /\ p.gathered = t.gathered /\ p.supply = t.supply /\ p.price = t.price
  <2> DEFINE w == Tail(s)
  <2>1. p = [t EXCEPT !.todo = w, !.call = None]
    BY DEF Pop
  <2>2. w \in Seq(Loops) /\ None \in Int
    BY <1>2 DEF None
  <2> HIDE DEF w, p
  <2>3. /\ p \in Tasks /\ p.todo = w /\ p.call = None /\ p.undefined = t.undefined
        /\ p.order = t.order /\ p.gathered = t.gathered /\ p.supply = t.supply /\ p.price = t.price
    BY <1>1, <2>1, <2>2 DEF Tasks
  <2> QED  BY <2>3 DEF w
<1> HIDE DEF p
<1>4. SettlingNow(p) <=> Head(s) \in GatheringLoops
  BY <1>2, <1>3 DEF SettlingNow
<1>5. (\A l : Has(p, l) => Has(t, l)) /\ (\A l : Has(t, l) => l = Head(s) \/ Has(p, l))
  BY <1>2, <1>3 DEF Has
<1>6. Head(s) \in GatheringLoops => SettlingNow(t)
  BY DEF SettlingNow, SettlingLoops
<1>7. SettlingNow(p) => MiaPrice(p.price) /\ p.price.b > 0 /\ e.calls = {}
  BY <1>3, <1>4, <1>6 DEF TaskInv
<1>8. ~(p.order # None /\ Has(p, "settle"))
  BY <1>3, <1>5 DEF TaskInv
<1>9. ~(Has(p, "settle") /\ Has(p, "match"))
  BY <1>5 DEF TaskInv
<1>10. TaskInv(p, e)
  BY <1>2, <1>3, <1>7, <1>8, <1>9 DEF TaskInv
<1> QED  BY <1>3, <1>4, <1>5, <1>10 DEF p

\* The loop at the head is done.
LEMMA PopState ==
  ASSUME NEW t, NEW d, NEW e, StateInv(t, d), t.todo # <<>>, Keeps(d, e), OrdersFrom(d, e),
         \A s \in Assets : Surplus(e, s) = Surplus(d, s),
         t.order = None \/ Head(t.todo) # "settle", Head(t.todo) # "settle_balances",
         Head(t.todo) \in GatheringLoops => e.calls = {} /\ e.supply = d.supply,
         Head(t.todo) = "match" /\ OffersInRange /\ Uncrossed(t, d) => \A o, y \in e.orders : ~Takes(o, y)
  PROVE  StateInv(Pop(t), e) /\ DbInv(e) /\ Pop(t).undefined \in BOOLEAN
<1> DEFINE p == Pop(t)
<1>1. /\ TaskInv(p, e) /\ p.undefined = t.undefined /\ p.order = t.order
      /\ p.gathered = t.gathered /\ p.supply = t.supply
      /\ SettlingNow(p) <=> Head(t.todo) \in GatheringLoops
      /\ \A l : Has(p, l) => Has(t, l)
      /\ \A l : Has(t, l) => l = Head(t.todo) \/ Has(p, l)
  <2>1. TaskInv(t, d) /\ (Head(t.todo) \in GatheringLoops => e.calls = {})
    BY DEF StateInv
  <2> QED  BY <2>1, PopTask
<1> HIDE DEF p
<1>2. DbInv(e)
  BY KeepsInv DEF StateInv
<1>3. SettlingNow(p) <=> SettlingNow(t)
  BY <1>1 DEF SettlingNow, SettlingLoops
<1>4. \A s \in Assets : Missing(p, e, s) = Missing(t, d, s)
  BY <1>1, <1>3 DEF Missing
<1>5. Balanced(t, d) => Balanced(p, e)
  BY <1>4 DEF Balanced
<1>6. OffersInRange /\ Uncrossed(t, d) => Uncrossed(p, e)
  <2>1. CASE Head(t.todo) = "match"
    <3>1. ASSUME Uncrossed(t, d) PROVE Uncrossed(t, e)
      BY <3>1, UncrossedKept
    <3> QED  BY <2>1, <3>1 DEF Uncrossed
  <2>2. CASE Head(t.todo) # "match"
    <3>1. Has(t, "match") => Has(p, "match")
      BY <2>2, <1>1
    <3> QED  BY <3>1, <1>1, UncrossedKept
  <2> QED  BY <2>1, <2>2
<1>7. d.aborted => e.aborted
  BY DEF Keeps
<1>8. p.undefined \in BOOLEAN
  BY <1>1 DEF TaskInv, Tasks
<1> QED  BY <1>1, <1>2, <1>5, <1>6, <1>7, <1>8 DEF StateInv, p

LEMMA PopInv ==
  ASSUME MarketInv, task.todo # <<>>, Step(db, Pop(task), {}),
         task.order = None \/ Head(task.todo) # "settle", Head(task.todo) # "settle_balances",
         Head(task.todo) = "settle_calls" => db.calls = {},
         Head(task.todo) = "match" /\ OffersInRange /\ Uncrossed(task, db) => \A o, y \in db.orders : ~Takes(o, y)
  PROVE  MarketInv'
<1>1. StateInv(task, db) /\ DbType(db)
  BY DEF MarketInv, StateInv, DbInv
<1>2. Head(task.todo) \in GatheringLoops => db.calls = {}
  BY <1>1 DEF StateInv, TaskInv, SettlingNow, SettlingLoops
<1>3. Keeps(db, db) /\ OrdersFrom(db, db)
  BY <1>1, SameDb
<1>4. StateInv(Pop(task), db) /\ DbInv(db) /\ Pop(task).undefined \in BOOLEAN
  BY <1>1, <1>2, <1>3, PopState
<1> QED  BY <1>4, StepInv

----------------------------------------------------------------------------
(* The steps of the loops.                                                 *)

\* What is known at the head of a loop.
LEMMA AtFacts ==
  ASSUME MarketInv, NEW l, At(l)
  PROVE  /\ task.todo # <<>> /\ Head(task.todo) = l /\ ~db.aborted /\ task.undefined = FALSE
         /\ StateInv(task, db) /\ TaskInv(task, db) /\ task \in Tasks
         /\ DbInv(db) /\ DbType(db) /\ Solvent(db) /\ feed \in Feeds
         /\ SettlingNow(task) <=> l \in SettlingLoops
         /\ OffersInRange => Uncrossed(task, db)
         /\ NoWithdrawals => Balanced(task, db)
<1>1. task.todo # <<>> /\ Head(task.todo) = l /\ ~db.aborted /\ ~task.undefined
  BY DEF At
<1>2. /\ StateInv(task, db) /\ TaskInv(task, db) /\ task \in Tasks
      /\ DbInv(db) /\ DbType(db) /\ feed \in Feeds
  BY DEF MarketInv, StateInv, DbInv, TaskInv
<1>3. task.undefined = FALSE /\ Solvent(db)
  BY <1>1, <1>2 DEF Tasks, DbInv
<1>4. (OffersInRange => Uncrossed(task, db)) /\ (NoWithdrawals => Balanced(task, db))
  BY <1>1, <1>2 DEF StateInv
<1> QED  BY <1>1, <1>2, <1>3, <1>4 DEF SettlingNow

\* The new order is gone, so that there is nothing to match.
LEMMA GoneState ==
  ASSUME MarketInv, NEW l \in Loops \ SettlingLoops, At(l), OwnOrderGone
  PROVE  StateInv(NoTask, db)
<1>1. (OffersInRange => Uncrossed(task, db)) /\ (NoWithdrawals => Balanced(task, db)) /\ DbInv(db) /\ ~SettlingNow(task)
  BY AtFacts
<1>2. NoWithdrawals => \A s \in Assets : Surplus(db, s) = 0
  <2>1. \A s \in Assets : Missing(task, db, s) = 0
    BY <1>1 DEF Missing
  <2>2. \A s \in Assets : Surplus(db, s) + Missing(task, db, s) = 0 => Surplus(db, s) = 0
    <3>1. \A s \in Assets : Surplus(db, s) \in Int
      BY <1>1, GapTypes DEF DbInv
    <3> QED  BY <2>1, <3>1
  <2> QED  BY <1>1, <2>2 DEF Balanced
<1>3. \A o \in db.orders : o.id # task.order
  BY DEF OwnOrderGone, WithId
<1>4. Uncrossed(task, db) => Uncrossed(NoTask, db)
  BY <1>3 DEF Uncrossed
<1>5. Settled(FALSE, db)
  BY <1>1, <1>2, <1>4 DEF Settled
<1> QED  BY <1>5, SettledInv, NoTaskIs

LEMMA ReturnInv ==
  ASSUME MarketInv, ReturnStep
  PROVE  MarketInv'
<1>1. ASSUME NEW l \in {"return_if_called", "return_if_gone"}, At(l), OwnOrderGone, Step(db, NoTask, {})
      PROVE  MarketInv'
  <2>1. StateInv(NoTask, db)
    BY <1>1, GoneState DEF Loops, SettlingLoops, GatheringLoops
  <2>2. NoTask.undefined \in BOOLEAN /\ DbInv(db) /\ task.todo # <<>>
    BY <1>1, NullTask, AtFacts
  <2> QED  BY <1>1, <2>1, <2>2, StepInv
<1>2. ASSUME NEW l \in {"return_if_called", "return_if_gone"}, At(l), Step(db, Pop(task), {})
      PROVE  MarketInv'
  <2>1. task.todo # <<>> /\ Head(task.todo) = l
    BY <1>2, AtFacts
  <2> QED  BY <1>2, <2>1, PopInv
<1>3. CASE At("return_if_called") /\ Step(db, IF task.called /\ OwnOrderGone THEN NoTask ELSE Pop(task), {})
  BY <1>1, <1>2, <1>3
<1>4. CASE At("return_if_gone") /\ Step(db, IF OwnOrderGone THEN NoTask ELSE Pop(task), {})
  BY <1>1, <1>2, <1>4
<1> QED  BY <1>3, <1>4 DEF ReturnStep

LEMMA KillInv ==
  ASSUME MarketInv, KillStep
  PROVE  MarketInv'
<1>1. task.todo # <<>> /\ Head(task.todo) = "kill"
  BY AtFacts DEF KillStep
<1>2. CASE Throw
  BY <1>1, <1>2, ThrowInv
<1>3. CASE Step(db, Pop(task), {})
  BY <1>1, <1>3, PopInv
<1> QED  BY <1>2, <1>3 DEF KillStep

LEMMA CancelKeeps ==
  ASSUME NEW d, DbType(d), NEW y \in d.orders
  PROVE  LET e == CancelOrder(d, y)
         IN  /\ Keeps(d, e) /\ OrdersFrom(d, e) /\ Untouched(d, e) /\ e.aborted = d.aborted
             /\ \A s \in Assets : Surplus(e, s) = Surplus(d, s)
<1> DEFINE e == CancelOrder(d, y)
<1>1. y \in Orders /\ OrderInv(y)
  BY OrderFacts
<1>2. Remainder(y, y)
  BY <1>1 DEF Remainder, OrderInv, Orders
<1>3. Becomes(d, e, y, y) /\ e.orders = d.orders \ {y}
  BY <1>2, CancelEffect
<1> HIDE DEF e
<1>4. ASSUME NEW s \in Assets PROVE Surplus(e, s) = Surplus(d, s)
  <2>1. Surplus(e, s) = Surplus(d, s) - Locked(y, s) + Locked(y, s) /\ Locked(y, s) \in Int
    BY <1>3 DEF Becomes
  <2>2. Surplus(d, s) \in Int
    BY GapTypes
  <2> QED  BY <2>1, <2>2
<1>5. ASSUME NEW b \in Accounts PROVE CoreGap(e, b) = CoreGap(d, b)
  <2>1. CoreGap(e, b) = CoreGap(d, b) + At1(y.seller, b, Locked(y, Core)) - At1(y.seller, b, Locked(y, Core))
    BY <1>3 DEF Becomes
  <2>2. CoreGap(d, b) \in Int /\ Locked(y, Core) \in Int
    BY GapTypes, <1>3, MarketAssumption DEF Becomes, Core
  <2>3. At1(y.seller, b, Locked(y, Core)) \in Int
    BY <2>2 DEF At1
  <2> QED  BY <2>1, <2>2, <2>3
<1>6. Solvent(d) => Solvent(e)
  BY <1>3 DEF Becomes, Solvent
<1>7. DbType(e) /\ DebtGap(e) = DebtGap(d) /\ Untouched(d, e) /\ e.aborted = d.aborted
  BY <1>3 DEF Becomes
<1>8. Keeps(d, e)
  BY <1>5, <1>6, <1>7 DEF Keeps
<1>9. OrdersFrom(d, e)
  BY <1>3 DEF OrdersFrom
<1> QED  BY <1>4, <1>7, <1>8, <1>9 DEF e

\* The loop goes on.
LEMMA SameTask ==
  ASSUME NEW t, NEW d, NEW e, StateInv(t, d), Keeps(d, e), OrdersFrom(d, e), Untouched(d, e),
         \A s \in Assets : Surplus(e, s) = Surplus(d, s)
  PROVE  StateInv(t, e) /\ DbInv(e) /\ t.undefined \in BOOLEAN
<1>1. TaskInv(t, e) /\ t.undefined \in BOOLEAN
  BY DEF StateInv, TaskInv, Untouched, Tasks
<1>2. DbInv(e)
  BY KeepsInv DEF StateInv
<1>3. Balanced(t, d) => Balanced(t, e)
  <2>1. \A s \in Assets : Missing(t, e, s) = Missing(t, d, s)
    BY DEF Missing, Untouched
  <2> QED  BY <2>1 DEF Balanced
<1>4. Uncrossed(t, d) => Uncrossed(t, e)
  BY UncrossedKept
<1>5. d.aborted => e.aborted
  BY DEF Keeps
<1> QED  BY <1>1, <1>2, <1>3, <1>4, <1>5 DEF StateInv

LEMMA FirstLimit ==
  ASSUME NEW d, DbType(d), NEW S, S \subseteq d.orders, S # {}, \A o \in S : o.price.q > 0
  PROVE  First(S, BookBefore) \in d.orders /\ First(S, BookBefore) \in S
<1>1. IsFiniteSet(S) /\ S \subseteq Orders /\ \A x, y \in S : x.id = y.id => x = y
  BY OrderFacts, FS_Subset
<1> QED  BY <1>1, FirstOfBook

LEMMA CancelInv ==
  ASSUME MarketInv, CancelStep \/ CancelAgainStep
  PROVE  MarketInv'
<1>1. PICK l \in {"cancel", "cancel_again"} : At(l)
  BY DEF CancelStep, CancelAgainStep
<1>2. task.todo # <<>> /\ Head(task.todo) = l /\ StateInv(task, db) /\ DbType(db)
  BY <1>1, AtFacts
<1>3. CASE Step(db, Pop(task), {})
  BY <1>1, <1>2, <1>3, PopInv
<1>4. ASSUME NEW o \in db.orders, Step(CancelOrder(db, o), task, {}) PROVE MarketInv'
  <2> DEFINE e == CancelOrder(db, o)
  <2>1. /\ Keeps(db, e) /\ OrdersFrom(db, e) /\ Untouched(db, e)
        /\ \A s \in Assets : Surplus(e, s) = Surplus(db, s)
    BY <1>2, CancelKeeps
  <2> HIDE DEF e
  <2>2. StateInv(task, e) /\ DbInv(e) /\ task.undefined \in BOOLEAN
    BY <1>2, <2>1, SameTask
  <2>3. Step(e, task, {})
    BY <1>4 DEF e
  <2> QED  BY <1>2, <2>2, <2>3, StepInv
<1>5. \A o \in BeforeLimitEnd : o \in db.orders /\ o.price.q > 0
  BY <1>2, OrderFacts DEF BeforeLimitEnd, OrderInv
<1>6. CASE CancelStep
  <2> DEFINE S == {o \in BeforeLimitEnd : ~Less(PriceMax(Mia, Backing), o.price)}
  <2>1. \/ Step(db, Pop(task), {})
        \/ S # {} /\ Step(CancelOrder(db, First(S, BookBefore)), task, {})
    BY <1>6 DEF CancelStep
  <2>2. S \subseteq db.orders /\ \A o \in S : o.price.q > 0
    BY <1>5
  <2> HIDE DEF S
  <2>3. S # {} => First(S, BookBefore) \in db.orders
    BY <1>2, <2>2, FirstLimit
  <2> QED  BY <2>1, <2>3, <1>3, <1>4
<1>7. CASE CancelAgainStep
  <2>1. \/ Step(db, Pop(task), {})
        \/ BeforeLimitEnd # {} /\ Step(CancelOrder(db, First(BeforeLimitEnd, BookBefore)), task, {})
    BY <1>7 DEF CancelAgainStep
  <2>2. BeforeLimitEnd \subseteq db.orders /\ \A o \in BeforeLimitEnd : o.price.q > 0
    BY <1>5
  <2>3. BeforeLimitEnd # {} => First(BeforeLimitEnd, BookBefore) \in db.orders
    BY <1>2, <2>2, FirstLimit
  <2> QED  BY <2>1, <2>3, <1>3, <1>4
<1> QED  BY <1>6, <1>7

\* check_call_orders is to run before the rest.
LEMMA ChecksTodo ==
  ASSUME NEW s \in Seq(Loops), TodoInv(s), s # <<>> => Head(s) \notin SettlingLoops,
         NEW p, NEW w, w = Checks(p) \o s
  PROVE  /\ w \in Seq(Loops) /\ TodoInv(w) /\ (w # <<>> => Head(w) \notin SettlingLoops)
         /\ w # s => w # <<>> /\ Head(w) = "calls"
         /\ \A k : Within(k, w) => k = "calls" \/ Within(k, s)
         /\ \A k : Within(k, s) => Within(k, w)
<1>0. "calls" \in Loops \ SettlingLoops
  BY DEF Loops, SettlingLoops, GatheringLoops
<1>1. CASE Checks(p) = <<"calls">>
  <2>1. w = <<"calls">> \o s
    BY <1>1
  <2> QED  BY <1>0, <2>1, PushTodo
<1>2. CASE Checks(p) = <<>>
  <2>1. w = s
    BY <1>2
  <2> QED  BY <2>1
<1> QED  BY <1>1, <1>2 DEF Checks

LEMMA ExpireInv ==
  ASSUME MarketInv, ExpireStep
  PROVE  MarketInv'
<1>1. PICK l \in {"expire_limits", "expire_shorts"} : At(l)
  BY DEF ExpireStep
<1>2. /\ task.todo # <<>> /\ Head(task.todo) = l /\ StateInv(task, db) /\ DbType(db)
      /\ TaskInv(task, db) /\ task \in Tasks /\ task.undefined = FALSE /\ ~SettlingNow(task)
  BY <1>1, AtFacts DEF SettlingLoops, GatheringLoops
<1>3. CASE Step(db, Pop(task), {})
  BY <1>1, <1>2, <1>3, PopInv
<1>4. ASSUME NEW o \in db.orders, Step(CancelOrder(db, o), [task EXCEPT !.todo = Checks(o.price) \o @], {})
      PROVE  MarketInv'
  <2> DEFINE e == CancelOrder(db, o)
             w == Checks(o.price) \o task.todo
             t == [task EXCEPT !.todo = w]
  <2>1. /\ Keeps(db, e) /\ OrdersFrom(db, e) /\ Untouched(db, e)
        /\ \A s \in Assets : Surplus(e, s) = Surplus(db, s)
    BY <1>2, CancelKeeps
  <2>2. StateInv(task, e) /\ DbInv(e)
    BY <1>2, <2>1, SameTask
  <2>3. Step(e, t, {})
    BY <1>4
  <2>4. task.todo \in Seq(Loops) /\ TodoInv(task.todo) /\ Head(task.todo) \notin SettlingLoops
    BY <1>1, <1>2 DEF TaskInv, Tasks, SettlingNow
  <2>5. /\ w \in Seq(Loops) /\ TodoInv(w) /\ (w # <<>> => Head(w) \notin SettlingLoops)
        /\ \A k : Within(k, w) => k = "calls" \/ Within(k, task.todo)
        /\ \A k : Within(k, task.todo) => Within(k, w)
    <3> DEFINE s == task.todo
               p == o.price
    <3>1. w = Checks(p) \o s /\ s \in Seq(Loops) /\ TodoInv(s) /\ (s # <<>> => Head(s) \notin SettlingLoops)
      BY <2>4
    <3> HIDE DEF w, s, p
    <3>2. /\ w \in Seq(Loops) /\ TodoInv(w) /\ (w # <<>> => Head(w) \notin SettlingLoops)
          /\ \A k : Within(k, w) => k = "calls" \/ Within(k, s)
          /\ \A k : Within(k, s) => Within(k, w)
      BY <3>1, ChecksTodo
    <3> QED  BY <3>2 DEF s
  <2> HIDE DEF e, w
  <2>6. /\ t \in Tasks /\ t.todo = w /\ t.call = task.call /\ t.order = task.order
        /\ t.undefined = task.undefined
    BY <1>2, <2>5 DEF Tasks
  <2> HIDE DEF t
  <2>7. task.call = None /\ (task.order = None \/ ~Has(task, "settle"))
    BY <1>1, <1>2 DEF TaskInv
  <2>8. ~(t.order # None /\ Has(t, "settle"))
    BY <2>5, <2>6, <2>7 DEF Has
  <2>9. ~SettlingNow(t)
    BY <2>5, <2>6 DEF SettlingNow
  <2>10. TaskInv(t, e)
    <3>1. ~(Has(t, "settle") /\ Has(t, "match"))
      BY <1>2, <2>5, <2>6 DEF TaskInv, Has
    <3> QED  BY <2>5, <2>6, <2>7, <2>8, <2>9, <3>1 DEF TaskInv
  <2>11. Balanced(task, e) => Balanced(t, e)
    BY <1>2, <2>9 DEF Balanced, Missing
  <2>12. Uncrossed(task, e) => Uncrossed(t, e)
    BY <2>5, <2>6 DEF Uncrossed, Has
  <2>13. StateInv(t, e)
    BY <2>2, <2>6, <2>10, <2>11, <2>12 DEF StateInv
  <2>14. t.undefined \in BOOLEAN
    BY <1>2, <2>6
  <2> QED  BY <1>2, <2>2, <2>3, <2>13, <2>14, StepInv
<1> QED  BY <1>3, <1>4 DEF ExpireStep

\* A call order is found.
LEMMA FirstCall ==
  ASSUME NEW d, DbType(d), NEW S, S \subseteq d.calls, S # {}
  PROVE  First(S, CallBefore) \in S /\ First(S, CollateralBefore) \in S
<1>1. IsFiniteSet(S) /\ S \subseteq Calls /\ (\A x, y \in S : x.id = y.id => x = y) /\ \A c \in S : CallInv(c)
  BY CallFacts, FS_Subset
<1> QED  BY <1>1, FirstOfCalls

\* A price of Mia gives natural numbers.
LEMMA MiaTimes ==
  ASSUME NEW p \in Prices, MiaPrice(p), p.b > 0, NEW x \in Nat
  PROVE  Times(x, Mia, p) \in Nat
<1>1. p.b \in Nat \ {0} /\ p.q \in Nat
  BY DEF Prices, MiaPrice
<1>2. x * p.q \in Int /\ 0 * p.q <= x * p.q
  BY <1>1, Products
<1>3. (x * p.q) \div p.b \in Nat
  BY <1>1, <1>2, Floor
<1> QED  BY <1>3 DEF Times, MiaPrice

LEMMA SettleCallsInv ==
  ASSUME MarketInv, SettleCallsStep
  PROVE  MarketInv'
<1> DEFINE c == First(db.calls, CallBefore)
           pays == Times(c.debt, Mia, task.price)
           e == FillCall(db, c, pays, c.debt)
           t == [task EXCEPT !.gathered = @ + pays]
<1>1. At("settle_calls")
  BY DEF SettleCallsStep
<1>2. /\ task.todo # <<>> /\ Head(task.todo) = "settle_calls" /\ StateInv(task, db) /\ DbType(db)
      /\ TaskInv(task, db) /\ task \in Tasks /\ task.undefined = FALSE /\ SettlingNow(task) /\ DbInv(db)
  BY <1>1, AtFacts DEF SettlingLoops, GatheringLoops
<1>3. CASE db.calls = {}
  <2>1. Step(db, Pop(task), {})
    BY <1>3 DEF SettleCallsStep
  <2> QED  BY <1>2, <1>3, <2>1, PopInv
<1>4. CASE db.calls # {}
  <2>1. Step(e, t, {})
    BY <1>4 DEF SettleCallsStep
  <2>2. c \in db.calls
    BY <1>2, <1>4, FirstCall
  <2> HIDE DEF c
  <2>3. c.debt \in Nat
    BY <1>2, <2>2, CallFacts
  <2>4. pays \in Nat
    <3>1. task.price \in Prices /\ MiaPrice(task.price) /\ task.price.b > 0
      BY <1>2 DEF TaskInv, Tasks
    <3> QED  BY <2>3, <3>1, MiaTimes
  <2> HIDE DEF pays
  <2>5. /\ Keeps(db, e) /\ Trades(db, e, Backing, pays, Mia, c.debt)
        /\ e.orders = db.orders /\ e.settlements = db.settlements
        /\ e.supply[Mia] = db.supply[Mia] - c.debt
    <3>1. c.debt <= c.debt
      BY <2>3
    <3> QED  BY <1>2, <2>2, <2>3, <2>4, <3>1, FillCallEffect
  <2> HIDE DEF e
  <2>6. /\ t \in Tasks /\ t.todo = task.todo /\ t.call = task.call /\ t.order = task.order
        /\ t.undefined = task.undefined /\ t.price = task.price /\ t.supply = task.supply
        /\ t.gathered = task.gathered + pays /\ task.gathered \in Int /\ task.supply \in Int
    BY <1>2, <2>4 DEF Tasks
  <2> HIDE DEF t
  <2>7. DbInv(e)
    BY <1>2, <2>5, KeepsInv
  <2>8. SettlingNow(t)
    BY <1>2, <2>6 DEF SettlingNow
  <2>9. TaskInv(t, e)
    BY <1>2, <2>5, <2>6 DEF TaskInv, Has
  <2>10. Balanced(task, db) => Balanced(t, e)
    <3>1. SUFFICES ASSUME Balanced(task, db), NEW s \in Assets
                   PROVE  Surplus(e, s) + Missing(t, e, s) = 0
      BY DEF Balanced
    <3>2. /\ Surplus(db, s) + Missing(task, db, s) = 0
          /\ Surplus(e, s) = Surplus(db, s) - At1(Backing, s, pays) + At1(Mia, s, c.debt)
      BY <2>5, <3>1 DEF Balanced, Trades
    <3>3. Surplus(db, s) \in Int /\ db.supply[Mia] \in Int /\ e.supply[Mia] \in Int
      BY <1>2, <2>5, GapTypes, MarketAssumption DEF DbType, Dbs, Keeps
    <3>4. CASE s = Backing
      <4>1. At1(Backing, s, pays) = pays /\ At1(Mia, s, c.debt) = 0
        BY <3>4, MarketAssumption DEF At1
      <4>2. Missing(task, db, s) = task.gathered /\ Missing(t, e, s) = task.gathered + pays
        BY <1>2, <2>6, <2>8, <3>4 DEF Missing
      <4> QED  BY <3>2, <3>3, <4>1, <4>2, <2>4, <2>6
    <3>5. CASE s = Mia
      <4>1. At1(Backing, s, pays) = 0 /\ At1(Mia, s, c.debt) = c.debt
        BY <3>5, MarketAssumption DEF At1
      <4>2. /\ Missing(task, db, s) = db.supply[Mia] - task.supply
            /\ Missing(t, e, s) = db.supply[Mia] - c.debt - task.supply
        BY <1>2, <2>5, <2>6, <2>8, <3>5, MarketAssumption DEF Missing
      <4> QED  BY <3>2, <3>3, <4>1, <4>2, <2>3, <2>6
    <3>6. CASE s # Backing /\ s # Mia
      <4>1. At1(Backing, s, pays) = 0 /\ At1(Mia, s, c.debt) = 0
        BY <3>6 DEF At1
      <4>2. Missing(task, db, s) = 0 /\ Missing(t, e, s) = 0
        BY <1>2, <2>8, <3>6 DEF Missing
      <4> QED  BY <3>2, <3>3, <4>1, <4>2
    <3> QED  BY <3>4, <3>5, <3>6
  <2>11. Uncrossed(task, db) => Uncrossed(t, e)
    BY <2>5, <2>6 DEF Uncrossed, Has
  <2>12. db.aborted => e.aborted
    BY <2>5 DEF Keeps
  <2>13. StateInv(t, e)
    BY <1>2, <2>6, <2>7, <2>9, <2>10, <2>11, <2>12 DEF StateInv
  <2>14. t.undefined \in BOOLEAN
    BY <1>2, <2>6
  <2> QED  BY <1>2, <2>1, <2>7, <2>13, <2>14, StepInv
<1> QED  BY <1>3, <1>4

LEMMA InverseFacts ==
  ASSUME NEW p \in Prices
  PROVE  /\ Inv(p) \in Prices /\ Inv(p).base = p.quote /\ Inv(p).quote = p.base
         /\ Inv(p).b = p.q /\ Inv(p).q = p.b
BY DEF Inv, Price, Prices

\* An order that takes another is taken by it.
LEMMA TakesBoth ==
  ASSUME NEW d, DbType(d), NEW o \in d.orders, NEW y \in d.orders, Takes(o, y)
  PROVE  /\ y \in InRange(d, Inv(o.price)) /\ (IsLimit(y) \/ o.price.quote = Mia)
         /\ o.price.b <= MaxShare * o.price.q => o \in InRange(d, Inv(y.price))
<1>1. o \in Orders /\ OrderInv(o) /\ y \in Orders /\ OrderInv(y) /\ o.price \in Prices /\ y.price \in Prices
  BY OrderFacts DEF Orders
<1>2. /\ Inv(o.price) \in Prices /\ Inv(o.price).base = o.price.quote /\ Inv(o.price).quote = o.price.base
      /\ Inv(o.price).b = o.price.q /\ Inv(o.price).q = o.price.b
      /\ Inv(y.price) \in Prices /\ Inv(y.price).base = y.price.quote /\ Inv(y.price).quote = y.price.base
      /\ Inv(y.price).b = y.price.q /\ Inv(y.price).q = y.price.b
  BY <1>1, InverseFacts
<1>3. y \in InRange(d, Inv(o.price))
  BY <1>2 DEF Takes, InRange
<1>4. /\ y.price.base = o.price.quote /\ y.price.quote = o.price.base
      /\ o.price.q * y.price.q <= y.price.b * o.price.b
  BY <1>2, <1>3, InRangeFacts
<1>5. IsLimit(y) \/ o.price.quote = Mia
  BY <1>1, <1>4 DEF OrderInv
<1>6. ASSUME o.price.b <= MaxShare * o.price.q PROVE o \in InRange(d, Inv(y.price))
  <2>1. /\ o.price.b \in Int /\ o.price.q \in Int /\ y.price.b \in Int /\ y.price.q \in Int
        /\ o.price.base \in Nat /\ o.price.quote \in Nat
    BY <1>1, MarketAssumption DEF Prices
  <2>2. /\ MaxShare * o.price.q \in Int /\ o.price.b * y.price.b \in Int /\ y.price.q * o.price.q \in Int
        /\ o.price.b * y.price.b = y.price.b * o.price.b /\ y.price.q * o.price.q = o.price.q * y.price.q
    BY <2>1, Regroup, MarketAssumption
  <2>3. ~(MaxShare * o.price.q < o.price.b * 1) /\ ~(o.price.b * y.price.b < y.price.q * o.price.q)
    BY <1>4, <1>6, <2>1, <2>2
  <2>4. ~Less(PriceMax(Inv(y.price).base, Inv(y.price).quote), o.price)
    BY <1>2, <1>4, <2>1, <2>3 DEF Less, PriceMax, Price
  <2>5. ~Less(o.price, Inv(y.price))
    BY <1>2, <1>4, <2>1, <2>3 DEF Less
  <2> QED  BY <2>4, <2>5 DEF InRange
<1> QED  BY <1>3, <1>5, <1>6

\* The new order, the best order it meets, and the two as bid and ask.
Pairs(o, book, y, bid, ask) ==
  /\ ~OwnOrderGone /\ o = Find(db.orders, task.order)
  /\ book = {z \in InRange(db, Inv(o.price)) : IsLimit(z) \/ o.price.quote = Mia}
  /\ book # {} /\ y = First(book, BookBefore)
  /\ bid = (IF IsLimit(o) THEN o ELSE y) /\ ask = (IF IsLimit(o) THEN y ELSE o)

LEMMA OwnOrder ==
  ASSUME ~OwnOrderGone
  PROVE  LET o == Find(db.orders, task.order) IN o \in db.orders /\ o.id = task.order
<1>1. \E o \in db.orders : o.id = task.order
  BY DEF OwnOrderGone, WithId
<1> QED  BY <1>1 DEF Find

LEMMA MatchMeets ==
  ASSUME DbType(db), NEW o, NEW book, NEW y, NEW bid, NEW ask, Pairs(o, book, y, bid, ask)
  PROVE  /\ o \in db.orders /\ o.id = task.order /\ y \in db.orders
         /\ Meets(db, bid, ask, y.price)
<1>1. o \in db.orders /\ o.id = task.order
  BY OwnOrder DEF Pairs
<1>2. o \in Orders /\ OrderInv(o) /\ o.price \in Prices
  BY <1>1, OrderFacts DEF Orders
<1>3. /\ Inv(o.price) \in Prices /\ Inv(o.price).base = o.price.quote /\ Inv(o.price).quote = o.price.base
      /\ Inv(o.price).b = o.price.q /\ Inv(o.price).q = o.price.b
  BY <1>2, InverseFacts
<1>4. \A z \in book : z \in InRange(db, Inv(o.price)) /\ (IsLimit(z) \/ o.price.quote = Mia)
  BY DEF Pairs
<1>5. book \subseteq db.orders /\ \A z \in book : z.price.q > 0
  BY <1>3, <1>4, InRangeFacts
<1>6. y \in book
  BY <1>5, FirstLimit DEF Pairs
<1>7. /\ y \in db.orders /\ OrderInv(y) /\ y.price \in Prices /\ y.price.q > 0
      /\ y.price.base = o.price.quote /\ y.price.quote = o.price.base
      /\ o.price.q * y.price.q <= y.price.b * o.price.b
  BY <1>3, <1>4, <1>6, InRangeFacts
<1>8. /\ o.price.b * y.price.b = y.price.b * o.price.b /\ y.price.q * o.price.q = o.price.q * y.price.q
      /\ o.price.b * y.price.b \in Int /\ y.price.q * o.price.q \in Int
  BY <1>2, <1>7, Regroup DEF Prices
<1>9. CASE IsLimit(o)
  <2>1. bid = o /\ ask = y
    BY <1>9 DEF Pairs
  <2>2. o.price.q * y.price.q <= o.price.b * y.price.b
    BY <1>7, <1>8
  <2> QED  BY <1>1, <1>7, <1>9, <2>1, <2>2 DEF Meets
<1>10. CASE ~IsLimit(o)
  <2>1. bid = y /\ ask = o
    BY <1>10 DEF Pairs
  <2>2. IsLimit(y)
    BY <1>2, <1>4, <1>6, <1>10, MarketAssumption DEF OrderInv
  <2>3. y.price.q * o.price.q <= y.price.b * o.price.b
    BY <1>7, <1>8
  <2> QED  BY <1>1, <1>7, <2>1, <2>2, <2>3 DEF Meets
<1> QED  BY <1>1, <1>7, <1>9, <1>10

\* Nothing is left to match when the book is empty.
LEMMA NothingToMatch ==
  ASSUME DbType(db), NEW p, p = (IF OwnOrderGone THEN task.price ELSE Find(db.orders, task.order).price),
         {z \in InRange(db, Inv(p)) : IsLimit(z) \/ p.quote = Mia} = {}, Uncrossed(task, db)
  PROVE  \A o, y \in db.orders : ~Takes(o, y)
<1>1. SUFFICES ASSUME NEW o \in db.orders, NEW y \in db.orders, Takes(o, y) PROVE FALSE
  OBVIOUS
<1>2. task.order \in {o.id, y.id} /\ o.price.b <= MaxShare * o.price.q /\ IsLimit(o)
  BY <1>1 DEF Uncrossed, Takes
<1>3. ~OwnOrderGone
  <2>1. \E x \in db.orders : x.id = task.order
    BY <1>2
  <2> QED  BY <2>1 DEF OwnOrderGone, WithId
<1>4. PICK z \in db.orders : z = Find(db.orders, task.order) /\ z.id = task.order
  BY <1>3, OwnOrder
<1>5. z = o \/ z = y
  BY <1>2, <1>4, OrderFacts
<1>6. p = z.price
  BY <1>3, <1>4
<1>7. /\ y \in InRange(db, Inv(o.price)) /\ (IsLimit(y) \/ o.price.quote = Mia)
      /\ o \in InRange(db, Inv(y.price))
  BY <1>1, <1>2, TakesBoth
<1> QED  BY <1>2, <1>5, <1>6, <1>7

LEMMA MatchInv ==
  ASSUME MarketInv, MatchStep
  PROVE  MarketInv'
<1> DEFINE o == Find(db.orders, task.order)
           p == IF OwnOrderGone THEN task.price ELSE o.price
           book == {y \in InRange(db, Inv(p)) : IsLimit(y) \/ p.quote = Mia}
           y == First(book, BookBefore)
           bid == IF IsLimit(o) THEN o ELSE y
           ask == IF IsLimit(o) THEN y ELSE o
           e == Match(db, bid, ask, y.price)
           f == {Fill(bid, XPays(bid, ask, y.price), YPays(bid, ask, y.price)),
                 Fill(ask, YPays(bid, ask, y.price), XPays(bid, ask, y.price))}
<1>1. At("match")
  BY DEF MatchStep
<1>2. /\ task.todo # <<>> /\ Head(task.todo) = "match" /\ StateInv(task, db) /\ DbType(db)
      /\ TaskInv(task, db) /\ task \in Tasks /\ task.undefined = FALSE /\ ~SettlingNow(task) /\ DbInv(db)
      /\ NoWithdrawals => Balanced(task, db)
  <2>1. "match" \notin SettlingLoops
    BY DEF SettlingLoops, GatheringLoops
  <2> HIDE DEF o, p, book, y, bid, ask, e, f
  <2> QED  BY <1>1, <2>1, AtFacts
<1>3. CASE book = {}
  <2>1. Step(db, Pop(task), {})
    BY <1>3 DEF MatchStep
  <2>2. Uncrossed(task, db) => \A x, z \in db.orders : ~Takes(x, z)
    BY <1>2, <1>3, NothingToMatch
  <2> QED  BY <1>2, <2>1, <2>2, PopInv
<1>4. CASE book # {} /\ OwnOrderGone
  <2> DEFINE t == [NoTask EXCEPT !.undefined = TRUE]
  <2>1. Step(db, t, {})
    BY <1>4 DEF MatchStep
  <2>2. NoWithdrawals => \A s \in Assets : Surplus(db, s) = 0
    <3>1. \A s \in Assets : Missing(task, db, s) = 0 /\ Surplus(db, s) \in Int
      BY <1>2, GapTypes DEF Missing
    <3> QED  BY <1>2, <3>1 DEF Balanced
  <2>3. Settled(TRUE, db)
    BY <1>2, <2>2 DEF Settled
  <2>4. StateInv(t, db)
    BY <2>3, SettledInv
  <2>5. t.undefined \in BOOLEAN
    BY NullTask
  <2> HIDE DEF t
  <2> QED  BY <1>2, <2>1, <2>4, <2>5, StepInv
<1>5. CASE book # {} /\ ~OwnOrderGone
  <2>1. Step(e, IF KeepsMatching(e, o, y) THEN task ELSE Pop(task), f)
    BY <1>5 DEF MatchStep
  <2>2. Pairs(o, book, y, bid, ask)
    BY <1>5 DEF Pairs
  <2> HIDE DEF o, book, y, bid, ask, f
  <2>3. o \in db.orders /\ o.id = task.order /\ y \in db.orders /\ Meets(db, bid, ask, y.price)
    BY <1>2, <2>2, MatchMeets
  <2>4. {bid, ask} = {o, y}
    BY <2>2 DEF Pairs
  <2>5. /\ Keeps(db, e) /\ OrdersFrom(db, e) /\ \A s \in Assets : Surplus(e, s) = Surplus(db, s)
        /\ WithId(e.orders, bid.id) = {} \/ WithId(e.orders, ask.id) = {}
    BY <2>3, MatchEffect
  <2> HIDE DEF e
  <2>6. WithId(e.orders, o.id) = {} \/ WithId(e.orders, y.id) = {}
    BY <2>4, <2>5
  <2>7. DbInv(e) /\ (db.aborted => e.aborted)
    BY <1>2, <2>5, KeepsInv DEF Keeps
  <2>8. Uncrossed(task, db) => Uncrossed(task, e)
    BY <2>5, UncrossedKept
  <2>9. CASE KeepsMatching(e, o, y)
    <3>1. Step(e, task, f)
      BY <2>1, <2>9
    <3>2. TaskInv(task, e)
      BY <1>2 DEF TaskInv
    <3>3. Balanced(task, db) => Balanced(task, e)
      BY <1>2, <2>5 DEF Balanced, Missing
    <3>4. StateInv(task, e)
      BY <1>2, <2>7, <2>8, <3>2, <3>3 DEF StateInv
    <3> QED  BY <1>2, <2>7, <3>1, <3>4, StepInv
  <2>10. CASE ~KeepsMatching(e, o, y)
    <3>1. Step(e, Pop(task), f)
      BY <2>1, <2>10
    <3>2. WithId(e.orders, o.id) = {}
      BY <2>6, <2>10 DEF KeepsMatching
    <3>3. \A x \in e.orders : x.id # task.order
      BY <2>3, <3>2 DEF WithId
    <3>4. Uncrossed(task, db) => \A x, z \in e.orders : ~Takes(x, z)
      BY <2>8, <3>3 DEF Uncrossed
    <3>5. StateInv(Pop(task), e) /\ Pop(task).undefined \in BOOLEAN
      BY <1>2, <2>5, <3>4, PopState DEF GatheringLoops
    <3> QED  BY <1>2, <2>7, <3>1, <3>5, StepInv
  <2> QED  BY <2>9, <2>10
<1> QED  BY <1>3, <1>4, <1>5

LEMMA Least2 ==
  ASSUME NEW a \in Int, NEW b \in Int
  PROVE  Min({a, b}) \in {a, b} /\ Min({a, b}) <= a /\ Min({a, b}) <= b
<1>1. \E x \in {a, b} : \A y \in {a, b} : x <= y
  <2>1. CASE a <= b
    BY <2>1
  <2>2. CASE b <= a
    BY <2>2
  <2> QED  BY <2>1, <2>2
<1> QED  BY <1>1 DEF Min

\* A feed that is not null gives prices between Mia and its backing.
LEMMA FeedPrices ==
  ASSUME NEW f \in Feeds
  PROVE  /\ f.call_limit # NullPrice => /\ f.call_limit \in Prices /\ f.call_limit.base = Backing
                                        /\ f.call_limit.quote = Mia
         /\ f.settlement_price # NullPrice => /\ f.settlement_price \in Prices
                                              /\ MiaPrice(f.settlement_price) /\ f.settlement_price.b > 0
<1>1. /\ f.call_limit # NullPrice => IsPrice(f.call_limit, Backing, Mia)
      /\ f.settlement_price # NullPrice => IsPrice(f.settlement_price, Mia, Backing)
  BY PricesAssumption
<1>2. Mia \in Assets /\ Backing \in Assets
  BY MarketAssumption
<1>3. IsPrice(f.call_limit, Backing, Mia) => f.call_limit \in Prices /\ f.call_limit.base = Backing /\ f.call_limit.quote = Mia
  BY <1>2, MarketAssumption DEF IsPrice, Prices
<1>4. ASSUME IsPrice(f.settlement_price, Mia, Backing)
      PROVE  f.settlement_price \in Prices /\ MiaPrice(f.settlement_price) /\ f.settlement_price.b > 0
  BY <1>2, <1>4, MarketAssumption DEF IsPrice, Prices, MiaPrice
<1> QED  BY <1>1, <1>3, <1>4

\* globally_settle_asset begins.
LEMMA SwanState ==
  ASSUME MarketInv, ~db.aborted, task.undefined = FALSE, task.todo = <<>> \/ Head(task.todo) = "calls",
         NEW p \in Prices, MiaPrice(p), p.b > 0
  PROVE  StateInv(SwanTask(p), db) /\ SwanTask(p).undefined = FALSE /\ SwanTask(p).todo # <<>>
<1> DEFINE t == SwanTask(p)
           s == IF task.todo = <<>> THEN <<>> ELSE Tail(task.todo)
           w == <<"settle_calls", "cancel", "cancel_again", "settle_balances">> \o s
<1>1. StateInv(task, db) /\ TaskInv(task, db) /\ task \in Tasks /\ DbInv(db) /\ DbType(db)
  BY DEF MarketInv, StateInv, DbInv, TaskInv
<1>2. task.todo \in Seq(Loops) /\ TodoInv(task.todo)
  BY <1>1 DEF TaskInv, Tasks
<1>3. "calls" \notin SettlingLoops /\ "calls" \notin GatheringLoops /\ "settle" \notin SettlingLoops
      /\ "settle_calls" \in SettlingLoops
  BY DEF SettlingLoops, GatheringLoops
<1>4. /\ s \in Seq(Loops) /\ TodoInv(s) /\ (s # <<>> => Head(s) \notin SettlingLoops)
      /\ \A l : Within(l, s) => Within(l, task.todo)
      /\ \A l : Within(l, task.todo) => l = "calls" \/ Within(l, s)
  <2>1. CASE task.todo = <<>>
    <3>1. s = <<>> /\ \A l : ~Within(l, <<>>)
      BY <2>1 DEF Within
    <3>2. TodoInv(<<>>)
      BY DEF TodoInv
    <3> QED  BY <2>1, <3>1, <3>2
  <2>2. CASE task.todo # <<>>
    <3>1. s = Tail(task.todo) /\ Head(task.todo) = "calls"
      BY <2>2
    <3> QED  BY <1>2, <1>3, <2>2, <3>1, TailTodo
  <2> QED  BY <2>1, <2>2
<1>5. t = [task EXCEPT !.todo = w, !.call = None, !.called = TRUE, !.price = p, !.gathered = 0,
                       !.supply = db.supply[Mia]]
  BY DEF SwanTask
<1>6. w = <<"settle_calls", "cancel", "cancel_again", "settle_balances">> \o s
  OBVIOUS
<1> HIDE DEF t, s, w
<1>7. /\ w \in Seq(Loops) /\ TodoInv(w) /\ w # <<>> /\ Head(w) = "settle_calls"
      /\ \A k : Within(k, w) <=> k \in SettlingLoops \/ Within(k, s)
  BY <1>4, <1>6, SwanTodo
<1>8. db.supply[Mia] \in Int /\ None \in Int
  BY <1>1, MarketAssumption DEF DbType, Dbs, None
<1>9. /\ t \in Tasks /\ t.todo = w /\ t.call = None /\ t.price = p /\ t.gathered = 0
      /\ t.supply = db.supply[Mia] /\ t.order = task.order /\ t.undefined = FALSE
  <2> DEFINE n == db.supply[Mia]
  <2>1. n \in Int /\ None \in Int /\ w \in Seq(Loops) /\ task \in Tasks
    BY <1>1, <1>7, <1>8
  <2>2. t = [task EXCEPT !.todo = w, !.call = None, !.called = TRUE, !.price = p, !.gathered = 0, !.supply = n]
    BY <1>5
  <2> HIDE DEF n
  <2>3. t \in Tasks
    <3> DEFINE t1 == [task EXCEPT !.todo = w, !.call = None, !.called = TRUE]
    <3>1. t1 \in Tasks
      BY <2>1 DEF Tasks
    <3>2. t = [t1 EXCEPT !.price = p, !.gathered = 0, !.supply = n]
      BY <2>1, <2>2 DEF Tasks
    <3> HIDE DEF t1
    <3>3. p \in Prices /\ n \in Int /\ 0 \in Int
      BY <2>1
    <3>4. t = [todo |-> t1.todo, order |-> t1.order, call |-> t1.call, called |-> t1.called,
               fill_or_kill |-> t1.fill_or_kill, price |-> p, gathered |-> 0, supply |-> n,
               undefined |-> t1.undefined]
      BY <3>1, <3>2 DEF Tasks
    <3> QED  BY <3>1, <3>3, <3>4 DEF Tasks
  <2>4. /\ t.todo = w /\ t.call = None /\ t.price = p /\ t.gathered = 0
        /\ t.supply = n /\ t.order = task.order /\ t.undefined = task.undefined
    BY <2>1, <2>2 DEF Tasks
  <2> QED  BY <2>3, <2>4 DEF n
<1>10. ~(t.order # None /\ Has(t, "settle"))
  <2>1. Has(t, "settle") => Has(task, "settle")
    BY <1>3, <1>4, <1>7, <1>9 DEF Has
  <2>2. Has(task, "settle") => task.todo # <<>>
    BY DEF Has, Within
  <2> QED  BY <1>1, <1>9, <2>1, <2>2 DEF TaskInv
<1>11. SettlingNow(t) /\ ~SettlingNow(task)
  BY <1>3, <1>7, <1>9 DEF SettlingNow
<1>12. TaskInv(t, db)
  <2>1. "match" \notin SettlingLoops
    BY DEF SettlingLoops, GatheringLoops
  <2>2. ~(Has(t, "settle") /\ Has(t, "match"))
    BY <1>1, <1>3, <1>4, <1>7, <1>9, <2>1 DEF TaskInv, Has
  <2> QED  BY <1>7, <1>9, <1>10, <2>2 DEF TaskInv
<1>13. Balanced(task, db) => Balanced(t, db)
  <2>1. \A x \in Assets : Missing(task, db, x) = 0 /\ Missing(t, db, x) = 0
    BY <1>8, <1>9, <1>11 DEF Missing
  <2> QED  BY <2>1 DEF Balanced
<1>14. Uncrossed(task, db) => Uncrossed(t, db)
  BY <1>4, <1>7, <1>9 DEF Uncrossed, Has
<1>15. StateInv(t, db)
  BY <1>1, <1>9, <1>12, <1>13, <1>14 DEF StateInv
<1> QED  BY <1>7, <1>9, <1>15 DEF t

\* The call order and the order of the book of one iteration of check_call_orders.
LEMMA CalledPair ==
  ASSUME MarketInv, At("calls"), ~NothingToCall, NEW c, c = CurrentCall,
         NEW o, o = First(CallsRange, BookBefore)
  PROVE  /\ c \in db.calls /\ c.debt \in Nat \ {0} /\ c.id \in Nat
         /\ o \in db.orders /\ o.price \in Prices /\ MiaPrice(o.price) /\ o.price.b > 0 /\ o.price.q > 0
         /\ o.for_sale \in Nat \ {0}
<1>1. DbType(db) /\ TaskInv(task, db) /\ feed \in Feeds
  BY AtFacts
<1>2. /\ feed.call_limit # NullPrice /\ task.call # End /\ ~(task.call = None /\ db.calls = {})
      /\ CallsRange # {}
  BY DEF NothingToCall
<1>3. c \in db.calls
  <2>1. CASE task.call = None
    BY <1>1, <1>2, <2>1, FirstCall DEF CurrentCall
  <2>2. CASE task.call # None
    <3>1. \E x \in db.calls : x.id = task.call
      BY <1>1, <1>2, <2>2 DEF TaskInv
    <3> QED  BY <2>2, <3>1 DEF CurrentCall, Find
  <2> QED  BY <2>1, <2>2
<1>4. c.debt \in Nat \ {0} /\ c.id \in Nat
  BY <1>1, <1>3, CallFacts
<1>5. /\ Inv(feed.call_limit) \in Prices /\ Inv(feed.call_limit).base = Mia
      /\ Inv(feed.call_limit).quote = Backing
  BY <1>1, <1>2, FeedPrices, InverseFacts
<1>6. CallsRange \subseteq db.orders /\ \A z \in CallsRange : z.price.q > 0
  BY <1>1, <1>5, InRangeFacts DEF CallsRange
<1>7. o \in InRange(db, Inv(feed.call_limit))
  BY <1>1, <1>2, <1>6, FirstLimit DEF CallsRange
<1>8. /\ o \in db.orders /\ o \in Orders /\ o.price \in Prices /\ o.price.base = Mia /\ o.price.quote = Backing
      /\ o.price.b > 0 /\ o.price.q > 0 /\ o.for_sale > 0
  BY <1>1, <1>5, <1>7, InRangeFacts
<1>9. MiaPrice(o.price) /\ o.for_sale \in Nat \ {0}
  BY <1>8 DEF MiaPrice, Orders, Prices
<1> QED  BY <1>3, <1>4, <1>8, <1>9

\* A call order and an order of the book fill each other.
LEMMA CallFill ==
  ASSUME NEW d, DbType(d), NEW c \in d.calls, NEW o \in d.orders, MiaPrice(o.price),
         NEW pays \in Nat, 0 < pays, pays <= c.debt, pays <= o.for_sale, NEW receives \in Nat
  PROVE  LET e == FillOrder(FillCall(d, c, receives, pays), o, pays, receives)
         IN  /\ Keeps(d, e) /\ OrdersFrom(d, e)
             /\ \A s \in Assets : Surplus(e, s) = Surplus(d, s)
             /\ CallIds(d) \ {c.id} \subseteq CallIds(e)
             /\ pays < c.debt => c.id \in CallIds(e)
<1> DEFINE d1 == FillCall(d, c, receives, pays)
           e == FillOrder(d1, o, pays, receives)
<1>1. /\ Keeps(d, d1) /\ Trades(d, d1, Backing, receives, Mia, pays) /\ d1.orders = d.orders
      /\ CallIds(d) \ {c.id} \subseteq CallIds(d1)
      /\ pays < c.debt => c.id \in CallIds(d1)
  BY FillCallEffect
<1> HIDE DEF d1
<1>2. DbType(d1) /\ o \in d1.orders
  BY <1>1 DEF Keeps
<1>3. /\ Keeps(d1, e) /\ Trades(d1, e, o.price.base, pays, o.price.quote, receives)
      /\ Filled(d1, e, o, pays) /\ CallIds(d1) \subseteq CallIds(e)
  BY <1>2, FillOrderEffect
<1> HIDE DEF e
<1>4. Keeps(d, e)
  BY <1>1, <1>3, KeepsBoth
<1>5. OrdersFrom(d, e)
  <2>1. OrdersFrom(d1, e)
    BY <1>2, <1>3, FilledFrom
  <2> QED  BY <1>1, <2>1 DEF OrdersFrom
<1>6. ASSUME NEW s \in Assets PROVE Surplus(e, s) = Surplus(d, s)
  <2>1. /\ Surplus(d1, s) = Surplus(d, s) - At1(Backing, s, receives) + At1(Mia, s, pays)
        /\ Surplus(e, s) = Surplus(d1, s) - At1(Mia, s, pays) + At1(Backing, s, receives)
    BY <1>1, <1>3 DEF Trades, MiaPrice
  <2>2. Surplus(d, s) \in Int /\ At1(Backing, s, receives) \in Int /\ At1(Mia, s, pays) \in Int
    BY GapTypes DEF At1
  <2>3. Surplus(d1, s) \in Int /\ Surplus(e, s) \in Int
    BY <1>2, <1>4, GapTypes DEF Keeps
  <2> QED  BY <2>1, <2>2, <2>3
<1>7. (CallIds(d) \ {c.id} \subseteq CallIds(e)) /\ (pays < c.debt => c.id \in CallIds(e))
  BY <1>1, <1>3
<1> QED  BY <1>4, <1>5, <1>6, <1>7 DEF e, d1

LEMMA CallStepInv ==
  ASSUME MarketInv, CallStep
  PROVE  MarketInv'
<1> DEFINE c == CurrentCall
           o == First(CallsRange, BookBefore)
           pays == Min({c.debt, o.for_sale})
           receives == Times(pays, Mia, o.price)
           e == FillOrder(FillCall(db, c, receives, pays), o, pays, receives)
           filledCall == c.debt <= o.for_sale
           next == IF filledCall THEN NextCall(c) ELSE c.id
           dangling == filledCall /\ WithId(e.orders, o.id) = {} /\ next # End
           t == [task EXCEPT !.call = next, !.called = @ \/ c.debt >= o.for_sale]
           f == {Fill(o, pays, receives)}
           p == Price(c.debt, Mia, c.collateral, Backing)
<1>0. "calls" \notin SettlingLoops
  BY DEF SettlingLoops, GatheringLoops
<1>1. At("calls")
  BY DEF CallStep
<1>2. /\ task.todo # <<>> /\ Head(task.todo) = "calls" /\ StateInv(task, db) /\ DbType(db)
      /\ TaskInv(task, db) /\ task \in Tasks /\ task.undefined = FALSE /\ ~SettlingNow(task) /\ DbInv(db)
      /\ Solvent(db) /\ ~db.aborted
      /\ NoWithdrawals => Balanced(task, db)
  <2> HIDE DEF c, o, pays, receives, e, t, f, p
  <2> QED  BY <1>0, <1>1, AtFacts
<1>3. \/ Step(db, Pop(task), {})
      \/ Throw
      \/ ~NothingToCall /\ Step(db, SwanTask(p), {})
      \/ ~NothingToCall /\ Step(e, IF dangling THEN [NoTask EXCEPT !.undefined = TRUE] ELSE t, f)
  BY DEF CallStep
<1>4. CASE Step(db, Pop(task), {})
  <2> HIDE DEF c, o, pays, receives, e, t, f, p
  <2> QED  BY <1>2, <1>4, PopInv
<1>5. CASE Throw
  <2> HIDE DEF c, o, pays, receives, e, t, f, p
  <2> QED  BY <1>2, <1>5, ThrowInv
<1>6. ASSUME ~NothingToCall
      PROVE  /\ c \in db.calls /\ c.debt \in Nat \ {0} /\ c.id \in Nat
             /\ o \in db.orders /\ o.price \in Prices /\ MiaPrice(o.price) /\ o.price.b > 0
             /\ o.for_sale \in Nat \ {0}
  BY <1>1, <1>6, CalledPair
<1>7. CASE ~NothingToCall /\ Step(db, SwanTask(p), {})
  <2> HIDE DEF c
  <2>1. c.collateral \in Int /\ c.collateral >= 0 /\ c.debt \in Nat \ {0}
    BY <1>2, <1>6, <1>7, CallFacts DEF Solvent
  <2>2. p \in Prices /\ MiaPrice(p) /\ p.b > 0
    BY <2>1, MarketAssumption DEF Price, Prices, MiaPrice
  <2> HIDE DEF p
  <2>3. StateInv(SwanTask(p), db) /\ SwanTask(p).undefined = FALSE
    BY <1>2, <2>2, SwanState
  <2>4. SwanTask(p).undefined \in BOOLEAN
    BY <2>3
  <2> QED  BY <1>2, <1>7, <2>3, <2>4, StepInv
<1>8. CASE ~NothingToCall /\ Step(e, IF dangling THEN [NoTask EXCEPT !.undefined = TRUE] ELSE t, f)
  <2>1. /\ c \in db.calls /\ c.debt \in Nat \ {0} /\ c.id \in Nat
        /\ o \in db.orders /\ o.price \in Prices /\ MiaPrice(o.price) /\ o.price.b > 0
        /\ o.for_sale \in Nat \ {0}
    BY <1>6, <1>8
  <2> HIDE DEF c, o, f
  <2>2. pays \in Nat /\ 0 < pays /\ pays <= c.debt /\ pays <= o.for_sale /\ pays \in {c.debt, o.for_sale}
    <3> DEFINE x == c.debt
               z == o.for_sale
    <3>1. x \in Int /\ z \in Int /\ x > 0 /\ z > 0
      BY <2>1
    <3> HIDE DEF x, z
    <3>2. Min({x, z}) \in {x, z} /\ Min({x, z}) <= x /\ Min({x, z}) <= z
      BY <3>1, Least2
    <3>3. pays = Min({x, z})
      BY DEF x, z
    <3> HIDE DEF pays
    <3>4. pays \in Nat /\ 0 < pays /\ pays <= x /\ pays <= z /\ pays \in {x, z}
      BY <3>1, <3>2, <3>3
    <3> QED  BY <3>4 DEF x, z
  <2> HIDE DEF pays
  <2>3. receives \in Nat
    BY <2>1, <2>2, MiaTimes
  <2> HIDE DEF receives
  <2>4. /\ Keeps(db, e) /\ OrdersFrom(db, e)
        /\ \A s \in Assets : Surplus(e, s) = Surplus(db, s)
        /\ CallIds(db) \ {c.id} \subseteq CallIds(e)
        /\ pays < c.debt => c.id \in CallIds(e)
    BY <1>2, <2>1, <2>2, <2>3, CallFill
  <2> HIDE DEF e
  <2>5. DbInv(e) /\ (db.aborted => e.aborted)
    BY <1>2, <2>4, KeepsInv DEF Keeps
  <2>6. CASE dangling
    <3> DEFINE u == [NoTask EXCEPT !.undefined = TRUE]
    <3>1. Step(e, u, f)
      BY <1>8, <2>6
    <3>2. NoWithdrawals => \A s \in Assets : Surplus(e, s) = 0
      <4>1. \A s \in Assets : Missing(task, db, s) = 0 /\ Surplus(db, s) \in Int
        BY <1>2, GapTypes DEF Missing
      <4>2. NoWithdrawals => \A s \in Assets : Surplus(db, s) = 0
        BY <1>2, <4>1 DEF Balanced
      <4> QED  BY <2>4, <4>2
    <3>3. Settled(TRUE, e)
      BY <2>5, <3>2 DEF Settled
    <3>4. StateInv(u, e)
      BY <3>3, SettledInv
    <3>5. u.undefined \in BOOLEAN
      BY NullTask
    <3> HIDE DEF u
    <3> QED  BY <1>2, <2>5, <3>1, <3>4, <3>5, StepInv
  <2>7. CASE ~dangling
    <3>1. Step(e, t, f)
      BY <1>8, <2>7
    <3>2. next \in Int /\ (next = End \/ next \in CallIds(e))
      <4>1. CASE filledCall
        <5> DEFINE after == {x \in db.calls : x # c /\ CallBefore(c, x)}
        <5>1. next = IF after = {} THEN End ELSE First(after, CallBefore).id
          BY <4>1 DEF NextCall
        <5>2. after \subseteq db.calls
          OBVIOUS
        <5>3. after # {} => First(after, CallBefore) \in after
          <6> HIDE DEF after
          <6> QED  BY <1>2, <5>2, FirstCall
        <5>4. \A x \in after : x \in db.calls /\ x.id \in Nat /\ x.id # c.id /\ x.id \in CallIds(e)
          BY <1>2, <2>1, <2>4, CallFacts DEF CallIds
        <5>5. End \in Int
          BY DEF End
        <5> HIDE DEF after, next
        <5> QED  BY <5>1, <5>3, <5>4, <5>5
      <4>2. CASE ~filledCall
        <5>1. next = c.id /\ pays < c.debt
          BY <2>1, <2>2, <4>2
        <5> QED  BY <2>1, <2>4, <5>1
      <4> QED  BY <4>1, <4>2
    <3> HIDE DEF next
    <3>3. /\ t \in Tasks /\ t.todo = task.todo /\ t.order = task.order /\ t.undefined = FALSE
          /\ t.call = next
      <4> DEFINE z == task.called \/ c.debt >= o.for_sale
      <4>1. t = [task EXCEPT !.call = next, !.called = z] /\ z \in BOOLEAN
        OBVIOUS
      <4> HIDE DEF z, t
      <4> QED  BY <1>2, <3>2, <4>1 DEF Tasks
    <3> HIDE DEF t
    <3>4. TaskInv(t, e)
      <4>1. t.call = End \/ \E x \in e.calls : x.id = t.call
        BY <3>2, <3>3 DEF CallIds
      <4>2. ~SettlingNow(t)
        BY <1>2, <3>3 DEF SettlingNow
      <4>3. ~(t.order # None /\ Has(t, "settle"))
        BY <1>2, <3>3 DEF TaskInv, Has
      <4>4. ~(Has(t, "settle") /\ Has(t, "match"))
        BY <1>2, <3>3 DEF TaskInv, Has
      <4> QED  BY <1>2, <3>3, <4>1, <4>2, <4>3, <4>4 DEF TaskInv
    <3>5. Balanced(task, db) => Balanced(t, e)
      <4>1. ~SettlingNow(t)
        BY <1>2, <3>3 DEF SettlingNow
      <4> QED  BY <1>2, <2>4, <4>1 DEF Balanced, Missing
    <3>6. Uncrossed(task, db) => Uncrossed(t, e)
      BY <2>4, <3>3, UncrossedKept DEF Has
    <3>7. StateInv(t, e)
      BY <1>2, <2>5, <3>3, <3>4, <3>5, <3>6 DEF StateInv
    <3>8. t.undefined \in BOOLEAN
      BY <3>3
    <3> QED  BY <1>2, <2>5, <3>1, <3>7, <3>8, StepInv
  <2> QED  BY <2>6, <2>7
<1> QED  BY <1>3, <1>4, <1>5, <1>7, <1>8

\* The sum of two functions.
LEMMA SumPlus ==
  ASSUME NEW f, NEW g, NEW h, NEW S, IsFiniteSet(S),
         \A x \in S : f[x] \in Int /\ g[x] \in Int /\ h[x] = f[x] + g[x]
  PROVE  Sum(h, S) = Sum(f, S) + Sum(g, S)
<1> DEFINE G == {T \in SUBSET S : Sum(h, T) = Sum(f, T) + Sum(g, T)}
<1>1. ASSUME NEW T \in SUBSET S, \A x \in T : T \ {x} \in G PROVE T \in G
  <2>1. IsFiniteSet(T) /\ \A x \in T : f[x] \in Int /\ g[x] \in Int /\ h[x] \in Int
    BY FS_Subset
  <2>2. CASE T = {}
    <3>1. Sum(f, {}) = 0 /\ Sum(g, {}) = 0 /\ Sum(h, {}) = 0
      BY <2>1, SumRecursion
    <3> QED  BY <2>2, <3>1
  <2>3. CASE T # {}
    <3>1. PICK x \in T : TRUE
      BY <2>3
    <3>2. /\ Sum(f, T) = f[x] + Sum(f, T \ {x}) /\ Sum(g, T) = g[x] + Sum(g, T \ {x})
          /\ Sum(h, T) = h[x] + Sum(h, T \ {x})
      BY <2>1, SumRemove
    <3>3. IsFiniteSet(T \ {x})
      BY <2>1, FS_Subset
    <3>4. Sum(f, T \ {x}) \in Int /\ Sum(g, T \ {x}) \in Int
      BY <2>1, <3>3, SumType
    <3>5. Sum(h, T \ {x}) = Sum(f, T \ {x}) + Sum(g, T \ {x})
      BY <1>1
    <3>6. f[x] \in Int /\ g[x] \in Int /\ h[x] = f[x] + g[x]
      OBVIOUS
    <3>7. Sum(h, T) = Sum(f, T) + Sum(g, T)
      BY <3>2, <3>4, <3>5, <3>6
    <3> QED  BY <3>7
  <2> QED  BY <2>2, <2>3
<1> HIDE DEF G
<1>2. \A T \in SUBSET S : T \in G
  BY <1>1, SubsetInduction
<1> QED  BY <1>2 DEF G

\* Only the count of what was settled changes.
LEMMA ForceSettledEffect ==
  ASSUME NEW d, DbType(d), NEW n \in Nat, NEW e, e = [d EXCEPT !.force_settled = n]
  PROVE  /\ Keeps(d, e) /\ OrdersFrom(d, e) /\ e.aborted = d.aborted /\ e.supply = d.supply
         /\ e.calls = d.calls /\ e.settlements = d.settlements /\ e.orders = d.orders
         /\ \A t \in Assets : Surplus(e, t) = Surplus(d, t)
<1>1. d \in Dbs
  BY DEF DbType
<1>2. /\ e \in Dbs /\ e.balance = d.balance /\ e.core_in_orders = d.core_in_orders
      /\ e.supply = d.supply /\ e.fees = d.fees /\ e.orders = d.orders /\ e.calls = d.calls
      /\ e.settlements = d.settlements /\ e.next_id = d.next_id /\ e.aborted = d.aborted
  BY <1>1 DEF Dbs
<1>3. DbType(e)
  BY <1>2 DEF DbType
<1>4. \A t \in Assets : Surplus(e, t) = Surplus(d, t)
  BY <1>2 DEF Surplus, HeldSum, BalanceIn, CollateralIn, SettledIn
<1>5. (\A b \in Accounts : CoreGap(e, b) = CoreGap(d, b)) /\ DebtGap(e) = DebtGap(d)
  BY <1>2 DEF CoreGap, CoreSum, DebtGap, DebtSum
<1>6. Solvent(d) => Solvent(e)
  BY <1>2 DEF Solvent
<1>7. Keeps(d, e)
  BY <1>2, <1>3, <1>5, <1>6 DEF Keeps
<1> QED  BY <1>2, <1>4, <1>7 DEF OrdersFrom

\* A settlement is taken, or a settlement is done with.
LEMMA SettleState ==
  ASSUME MarketInv, At("settle"), NEW e, Keeps(db, e), OrdersFrom(db, e),
         \A s \in Assets : Surplus(e, s) = Surplus(db, s),
         NEW t \in Tasks, t.todo = task.todo, t.call = task.call, t.undefined = task.undefined,
         t.order # None => /\ MiaPrice(t.price) /\ t.gathered >= 0
                           /\ \A x \in e.settlements : x.id = t.order /\ x.balance > 0 => t.price.b > 0
  PROVE  StateInv(t, e) /\ DbInv(e) /\ t.undefined \in BOOLEAN
<1>0. "settle" \notin SettlingLoops
  BY DEF SettlingLoops, GatheringLoops
<1>1. /\ task.todo # <<>> /\ Head(task.todo) = "settle" /\ StateInv(task, db) /\ DbInv(db)
      /\ TaskInv(task, db) /\ task \in Tasks /\ task.undefined = FALSE /\ ~SettlingNow(task)
  BY <1>0, AtFacts
<1>2. DbInv(e) /\ (db.aborted => e.aborted)
  BY <1>1, KeepsInv DEF Keeps
<1>3. task.call = None
  BY <1>1 DEF TaskInv
<1>4. ~SettlingNow(t)
  BY <1>1 DEF SettlingNow
<1>5. TaskInv(t, e)
  <2>1. ~(Has(t, "settle") /\ Has(t, "match"))
    BY <1>1 DEF TaskInv, Has
  <2> QED  BY <1>1, <1>3, <1>4, <2>1 DEF TaskInv
<1>6. Balanced(task, db) => Balanced(t, e)
  BY <1>1, <1>4 DEF Balanced, Missing
<1>7. Uncrossed(task, db) => Uncrossed(t, e)
  <2>1. ASSUME Uncrossed(task, db) PROVE Uncrossed(task, e)
    BY <2>1, UncrossedKept
  <2>2. Has(task, "settle")
    BY <1>1, TailTodo DEF Has, TaskInv, Tasks
  <2>3. ~Has(task, "match")
    BY <1>1, <2>2 DEF TaskInv
  <2>4. Uncrossed(task, e) => Uncrossed(t, e)
    BY <2>3 DEF Uncrossed
  <2> QED  BY <2>1, <2>4
<1> QED  BY <1>1, <1>2, <1>5, <1>6, <1>7 DEF StateInv

LEMMA SettleNextInv ==
  ASSUME MarketInv, SettleNextStep
  PROVE  MarketInv'
<1> DEFINE s == FirstSettlement(db.settlements)
           receives == (Times(s.balance, Mia, feed.settlement_price) * (100 - OffsetPercent)) \div 100
           p == Price(s.balance, Mia, receives, Backing)
           t == [task EXCEPT !.order = s.id, !.price = p, !.supply = MaxVolume, !.gathered = db.force_settled]
<1>1. At("settle") /\ task.order = None
  BY DEF SettleNextStep
<1>2. /\ task.todo # <<>> /\ Head(task.todo) = "settle" /\ DbType(db) /\ task \in Tasks /\ feed \in Feeds
  BY <1>1, AtFacts
<1>3. \/ Step(db, Pop(task), {})
      \/ db.settlements # {} /\ feed.settlement_price # NullPrice /\ Step(db, t, {})
  BY DEF SettleNextStep, FirstSettlement, First
<1>4. CASE Step(db, Pop(task), {})
  <2> HIDE DEF s, receives, p, t
  <2> QED  BY <1>1, <1>2, <1>4, PopInv
<1>5. CASE db.settlements # {} /\ feed.settlement_price # NullPrice /\ Step(db, t, {})
  <2>1. /\ db.settlements \subseteq Settlements /\ \A x, y \in db.settlements : x.id = y.id => x = y
    BY <1>2, SettlementFacts
  <2>2. s \in db.settlements
    BY <1>5, <2>1, FirstOfSettlements
  <2> HIDE DEF s
  <2>3. s.balance \in Nat /\ s.id \in Nat
    BY <1>2, <2>2, SettlementFacts
  <2>4. Times(s.balance, Mia, feed.settlement_price) \in Nat
    BY <1>2, <1>5, <2>3, FeedPrices, MiaTimes
  <2>5. receives \in Nat
    <3> DEFINE x == Times(s.balance, Mia, feed.settlement_price)
               k == 100 - OffsetPercent
    <3>1. x \in Nat /\ k \in Nat /\ receives = (x * k) \div 100
      BY <2>4, MarketAssumption
    <3> HIDE DEF x, k, receives
    <3>2. x * k \in Int /\ 0 * k <= x * k
      BY <3>1, Products
    <3> QED  BY <3>1, <3>2, Floor
  <2> HIDE DEF receives
  <2>6. p \in Prices /\ MiaPrice(p) /\ p.b = s.balance
    BY <2>3, <2>5, MarketAssumption DEF Price, Prices, MiaPrice
  <2> HIDE DEF p
  <2>7. MaxVolume \in Int /\ db.force_settled \in Nat
    <3> HIDE DEF t
    <3>0. db \in Dbs /\ Mia \in Assets /\ VolumePercent \in Int
      BY <1>2, MarketAssumption DEF DbType
    <3>1. db.supply[Mia] \in Int /\ db.force_settled \in Nat /\ VolumePercent \in Int
      BY <3>0 DEF Dbs
    <3>2. (db.supply[Mia] + db.force_settled) * VolumePercent \in Int
      BY <3>1, Regroup
    <3> QED  BY <3>1, <3>2, Floor DEF MaxVolume
  <2>8. /\ t \in Tasks /\ t.todo = task.todo /\ t.call = task.call /\ t.undefined = task.undefined
        /\ t.order = s.id /\ t.price = p /\ t.gathered = db.force_settled
    <3> DEFINE v == MaxVolume
               n == db.force_settled
               i == s.id
    <3>1. t = [task EXCEPT !.order = i, !.price = p, !.supply = v, !.gathered = n]
          /\ i \in Nat /\ p \in Prices /\ v \in Int /\ n \in Int
      BY <2>3, <2>6, <2>7
    <3> HIDE DEF v, n, i, t
    <3>2. t = [todo |-> task.todo, order |-> i, call |-> task.call, called |-> task.called,
               fill_or_kill |-> task.fill_or_kill, price |-> p, gathered |-> n, supply |-> v,
               undefined |-> task.undefined]
      BY <1>2, <3>1 DEF Tasks
    <3>3. t \in Tasks
      BY <1>2, <3>1, <3>2 DEF Tasks
    <3> QED  BY <3>2, <3>3 DEF n, i
  <2>9. Step(db, t, {})
    BY <1>5
  <2> HIDE DEF t
  <2>10. \A x \in db.settlements : x.id = t.order /\ x.balance > 0 => t.price.b > 0
    BY <2>1, <2>2, <2>6, <2>8
  <2>11. Keeps(db, db) /\ OrdersFrom(db, db)
    BY <1>2, SameDb
  <2>12. MiaPrice(t.price) /\ t.gathered >= 0
    BY <2>6, <2>7, <2>8
  <2>13. StateInv(t, db) /\ DbInv(db) /\ t.undefined \in BOOLEAN
    BY <1>1, <2>8, <2>10, <2>11, <2>12, SettleState
  <2> QED  BY <1>2, <2>9, <2>13, StepInv
<1> QED  BY <1>3, <1>4, <1>5

LEMMA Least3 ==
  ASSUME NEW a \in Int, NEW b \in Int, NEW c \in Int
  PROVE  Min({a, b, c}) \in {a, b, c} /\ Min({a, b, c}) <= a /\ Min({a, b, c}) <= b /\ Min({a, b, c}) <= c
<1>1. \E x \in {a, b, c} : \A y \in {a, b, c} : x <= y
  <2>1. CASE a <= b /\ a <= c
    BY <2>1
  <2>2. CASE b <= a /\ b <= c
    BY <2>2
  <2>3. CASE c <= a /\ c <= b
    BY <2>3
  <2> QED  BY <2>1, <2>2, <2>3
<1> QED  BY <1>1 DEF Min

LEMMA SettleInv ==
  ASSUME MarketInv, SettleStep
  PROVE  MarketInv'
<1> DEFINE s == Find(db.settlements, task.order)
           c == First(db.calls, CollateralBefore)
           receives == Min({s.balance, task.supply - task.gathered, c.debt})
           pays == Times(receives, Mia, task.price)
           d1 == FillCall(db, c, pays, receives)
           e == FillSettlement(d1, s, receives, pays)
           t == [task EXCEPT !.gathered = @ + receives]
<1>1. At("settle") /\ task.order # None
  BY DEF SettleStep
<1>2. /\ task.todo # <<>> /\ Head(task.todo) = "settle" /\ DbType(db) /\ task \in Tasks
      /\ TaskInv(task, db) /\ Has(task, "settle")
  BY <1>1, AtFacts, TailTodo DEF TaskInv, Tasks, Has
<1>3. /\ MiaPrice(task.price) /\ task.price \in Prices /\ task.gathered \in Nat /\ task.supply \in Int
      /\ \A x \in db.settlements : x.id = task.order /\ x.balance > 0 => task.price.b > 0
  BY <1>1, <1>2 DEF TaskInv, Tasks
<1>4. \/ Step([db EXCEPT !.force_settled = task.gathered], [task EXCEPT !.order = None], {})
      \/ Step(Asserts(db, FALSE), task, {})
      \/ /\ WithId(db.settlements, task.order) # {} /\ ~(task.gathered >= task.supply)
         /\ db.calls # {} /\ s.balance # 0
         /\ Step(e, t, {})
  BY DEF SettleStep
<1>5. CASE Step([db EXCEPT !.force_settled = task.gathered], [task EXCEPT !.order = None], {})
  <2> DEFINE h == [db EXCEPT !.force_settled = task.gathered]
             u == [task EXCEPT !.order = None]
  <2> HIDE DEF s, c, receives, pays, d1, e, t
  <2>1. Keeps(db, h) /\ OrdersFrom(db, h) /\ \A x \in Assets : Surplus(h, x) = Surplus(db, x)
    BY <1>2, <1>3, ForceSettledEffect
  <2>2. /\ u \in Tasks /\ u.todo = task.todo /\ u.call = task.call /\ u.undefined = task.undefined
        /\ u.order = None
    BY <1>2 DEF Tasks, None
  <2>3. Step(h, u, {})
    BY <1>5
  <2> HIDE DEF h, u
  <2>4. StateInv(u, h) /\ DbInv(h) /\ u.undefined \in BOOLEAN
    BY <1>1, <2>1, <2>2, SettleState
  <2> QED  BY <1>2, <2>3, <2>4, StepInv
<1>6. CASE Step(Asserts(db, FALSE), task, {})
  <2> DEFINE h == Asserts(db, FALSE)
  <2> HIDE DEF s, c, receives, pays, d1, e, t
  <2>1. /\ DbType(h) /\ h.aborted /\ DebtGap(h) = DebtGap(db)
        /\ \A b \in Accounts : CoreGap(h, b) = CoreGap(db, b)
    BY <1>2, AssertsEffect
  <2>2. Step(h, task, {})
    BY <1>6
  <2> HIDE DEF h
  <2>3. Keeps(db, h)
    BY <2>1 DEF Keeps
  <2>4. DbInv(db) /\ task.undefined \in BOOLEAN
    BY <1>1, AtFacts
  <2>5. DbInv(h)
    BY <2>3, <2>4, KeepsInv
  <2> QED  BY <1>2, <2>1, <2>2, <2>4, <2>5, StepInv
<1>7. CASE /\ WithId(db.settlements, task.order) # {} /\ ~(task.gathered >= task.supply)
           /\ db.calls # {} /\ s.balance # 0
           /\ Step(e, t, {})
  <2>1. s \in db.settlements /\ s.id = task.order
    <3>1. \E x \in db.settlements : x.id = task.order
      BY <1>7 DEF WithId
    <3> QED  BY <3>1 DEF Find
  <2>2. c \in db.calls
    BY <1>2, <1>7, FirstCall
  <2> HIDE DEF s, c
  <2>3. s.balance \in Nat \ {0} /\ c.debt \in Nat \ {0}
    BY <1>2, <1>7, <2>1, <2>2, SettlementFacts, CallFacts
  <2>4. receives \in Nat /\ receives <= s.balance /\ receives <= c.debt
    <3> DEFINE x == s.balance
               y == task.supply - task.gathered
               z == c.debt
    <3>1. x \in Int /\ y \in Int /\ z \in Int /\ x > 0 /\ y > 0 /\ z > 0
      BY <1>3, <1>7, <2>3
    <3> HIDE DEF x, y, z
    <3>2. Min({x, y, z}) \in {x, y, z} /\ Min({x, y, z}) <= x /\ Min({x, y, z}) <= z
      BY <3>1, Least3
    <3>3. receives = Min({x, y, z})
      BY DEF x, y, z
    <3> HIDE DEF receives
    <3>4. receives \in Nat /\ receives <= x /\ receives <= z
      BY <3>1, <3>2, <3>3
    <3> QED  BY <3>4 DEF x, z
  <2> HIDE DEF receives
  <2>5. pays \in Nat
    <3>1. task.price.b > 0
      BY <1>3, <2>1, <2>3
    <3> QED  BY <1>3, <2>4, <3>1, MiaTimes
  <2> HIDE DEF pays
  <2>6. Keeps(db, d1) /\ Trades(db, d1, Backing, pays, Mia, receives) /\ d1.orders = db.orders
        /\ d1.settlements = db.settlements
    BY <1>2, <2>2, <2>4, <2>5, FillCallEffect
  <2> HIDE DEF d1
  <2>7. DbType(d1) /\ s \in d1.settlements
    BY <2>1, <2>6 DEF Keeps
  <2>8. /\ Keeps(d1, e) /\ Trades(d1, e, Mia, receives, Backing, pays) /\ e.orders = d1.orders
        /\ \A x \in e.settlements : \E y \in d1.settlements : y.id = x.id /\ x.balance <= y.balance
    BY <2>4, <2>5, <2>7, FillSettlementEffect
  <2> HIDE DEF e
  <2>9. Keeps(db, e) /\ OrdersFrom(db, e)
    BY <2>6, <2>8, KeepsBoth DEF OrdersFrom
  <2>10. ASSUME NEW a \in Assets PROVE Surplus(e, a) = Surplus(db, a)
    <3>1. /\ Surplus(d1, a) = Surplus(db, a) - At1(Backing, a, pays) + At1(Mia, a, receives)
          /\ Surplus(e, a) = Surplus(d1, a) - At1(Mia, a, receives) + At1(Backing, a, pays)
      BY <2>6, <2>8 DEF Trades
    <3>2. Surplus(db, a) \in Int /\ At1(Backing, a, pays) \in Int /\ At1(Mia, a, receives) \in Int
      BY <1>2, <2>4, <2>5, GapTypes DEF At1
    <3>3. Surplus(d1, a) \in Int /\ Surplus(e, a) \in Int
      BY <2>7, <2>9, GapTypes DEF Keeps
    <3> QED  BY <3>1, <3>2, <3>3
  <2>11. /\ t \in Tasks /\ t.todo = task.todo /\ t.call = task.call /\ t.undefined = task.undefined
         /\ t.order = task.order /\ t.price = task.price /\ t.gathered >= 0
    BY <1>2, <1>3, <2>4 DEF Tasks
  <2>12. Step(e, t, {})
    BY <1>7
  <2> HIDE DEF t
  <2>13. ASSUME NEW x \in e.settlements, x.id = t.order /\ x.balance > 0 PROVE t.price.b > 0
    <3>1. PICK y \in db.settlements : y.id = x.id /\ x.balance <= y.balance
      BY <2>6, <2>8
    <3>2. x.balance \in Int /\ y.balance \in Int
      BY <1>2, <2>9, <3>1, SettlementFacts DEF Keeps
    <3> QED  BY <1>3, <2>11, <2>13, <3>1, <3>2
  <2>14. StateInv(t, e) /\ DbInv(e) /\ t.undefined \in BOOLEAN
    <3>1. \A x \in e.settlements : x.id = t.order /\ x.balance > 0 => t.price.b > 0
      BY <2>13
    <3>2. \A a \in Assets : Surplus(e, a) = Surplus(db, a)
      BY <2>10
    <3> QED  BY <1>1, <1>3, <2>9, <2>11, <3>1, <3>2, SettleState
  <2> QED  BY <1>2, <2>12, <2>14, StepInv
<1> QED  BY <1>4, <1>5, <1>6, <1>7

\* Every balance in Mia is exchanged for the backing asset: out[a] for account a,
\* and left for the fees.
Exchanges(d, e, out, left) ==
  LET bal == [a \in Accounts |-> [d.balance[a] EXCEPT ![Mia] = 0, ![Backing] = @ + out[a]]]
      fees == [d.fees EXCEPT ![Mia] = 0, ![Backing] = @ + left]
  IN  /\ DbType(d) /\ out \in [Accounts -> Nat] /\ left \in Int
      /\ e = [d EXCEPT !.balance = bal, !.fees = fees]

LEMMA ExchangeEffect ==
  ASSUME NEW d, NEW out, NEW left, NEW e, Exchanges(d, e, out, left)
  PROVE  /\ Keeps(d, e) /\ e.orders = d.orders /\ e.calls = d.calls /\ e.supply = d.supply
         /\ e.aborted = d.aborted
         /\ Surplus(e, Mia) = Surplus(d, Mia) - Sum(BalanceIn(d, Mia), Accounts) - d.fees[Mia]
         /\ Surplus(e, Backing) = Surplus(d, Backing) + Sum(out, Accounts) + left
         /\ \A t \in Assets \ {Mia, Backing} : Surplus(e, t) = Surplus(d, t)
<1> DEFINE bal == [a \in Accounts |-> [d.balance[a] EXCEPT ![Mia] = 0, ![Backing] = @ + out[a]]]
           fees == [d.fees EXCEPT ![Mia] = 0, ![Backing] = @ + left]
<1>0. Mia \in Assets /\ Backing \in Assets /\ Mia # Backing /\ IsFiniteSet(Accounts)
  BY MarketAssumption
<1>a. DbType(d) /\ out \in [Accounts -> Nat] /\ left \in Int
  BY DEF Exchanges
<1>1. d \in Dbs /\ d.balance \in [Accounts -> [Assets -> Int]] /\ d.fees \in [Assets -> Int]
  BY <1>a DEF DbType, Dbs
<1>2. e = [d EXCEPT !.balance = bal, !.fees = fees]
  BY DEF Exchanges
<1>3. /\ bal \in [Accounts -> [Assets -> Int]]
      /\ \A a \in Accounts : bal[a][Mia] = 0 /\ bal[a][Backing] = d.balance[a][Backing] + out[a]
      /\ \A a \in Accounts, t \in Assets \ {Mia, Backing} : bal[a][t] = d.balance[a][t]
  BY <1>a, <1>0, <1>1
<1>4. /\ fees \in [Assets -> Int] /\ fees[Mia] = 0 /\ fees[Backing] = d.fees[Backing] + left
      /\ \A t \in Assets \ {Mia, Backing} : fees[t] = d.fees[t]
  BY <1>a, <1>0, <1>1
<1> HIDE DEF bal, fees
<1>5. /\ e \in Dbs /\ e.balance = bal /\ e.core_in_orders = d.core_in_orders
      /\ e.supply = d.supply /\ e.fees = fees /\ e.orders = d.orders /\ e.calls = d.calls
      /\ e.settlements = d.settlements /\ e.next_id = d.next_id /\ e.aborted = d.aborted
  BY <1>1, <1>2, <1>3, <1>4 DEF Dbs
<1>6. DbType(e)
  BY <1>a, <1>5 DEF DbType
<1>7. /\ \A t \in Assets : \A a \in Accounts : /\ BalanceIn(d, t)[a] = d.balance[a][t] /\ d.balance[a][t] \in Int
                                               /\ BalanceIn(e, t)[a] = bal[a][t] /\ bal[a][t] \in Int
      /\ \A a \in Accounts : out[a] \in Int
  BY <1>a, <1>1, <1>3, <1>5 DEF BalanceIn
<1>8. Sum(BalanceIn(e, Mia), Accounts) = 0
  <2> DEFINE z == BalanceIn(e, Mia)
  <2>1. \A a \in Accounts : z[a] = 0
    BY <1>0, <1>3, <1>7
  <2> HIDE DEF z
  <2>a. \A a \in Accounts : z[a] \in Int /\ z[a] \in Int /\ z[a] = z[a] + z[a]
    BY <2>1
  <2>b. \A a \in Accounts : z[a] \in Int
    BY <2>1
  <2>2. Sum(z, Accounts) = Sum(z, Accounts) + Sum(z, Accounts)
    BY <1>0, <2>a, SumPlus
  <2>3. Sum(z, Accounts) \in Int
    BY <1>0, <2>b, SumType
  <2>4. \A i \in Int : i = i + i => i = 0
    OBVIOUS
  <2>5. Sum(z, Accounts) = 0
    BY ONLY <2>2, <2>3, <2>4, Zenon
  <2> QED  BY <2>5 DEF z
<1>9. Sum(BalanceIn(e, Backing), Accounts) = Sum(BalanceIn(d, Backing), Accounts) + Sum(out, Accounts)
  <2> DEFINE z == BalanceIn(e, Backing)
             y == BalanceIn(d, Backing)
  <2>1. \A a \in Accounts : y[a] \in Int /\ out[a] \in Int /\ z[a] = y[a] + out[a]
    BY <1>0, <1>3, <1>7
  <2> HIDE DEF z, y
  <2>2. Sum(z, Accounts) = Sum(y, Accounts) + Sum(out, Accounts)
    BY <1>0, <2>1, SumPlus
  <2> QED  BY <2>2 DEF z, y
<1>10. \A t \in Assets \ {Mia, Backing} : Sum(BalanceIn(e, t), Accounts) = Sum(BalanceIn(d, t), Accounts)
  <2>1. ASSUME NEW t \in Assets \ {Mia, Backing}
        PROVE  Sum(BalanceIn(e, t), Accounts) = Sum(BalanceIn(d, t), Accounts)
    <3>1. \A a \in Accounts : BalanceIn(e, t)[a] = BalanceIn(d, t)[a]
      BY <1>3, <1>7
    <3> QED  BY <1>0, <3>1, SumSame
  <2> QED  BY <2>1
<1>11. Sum(out, Accounts) \in Int
  BY <1>0, <1>7, SumType
<1>12. \A t \in Assets : CollateralIn(e, t) = CollateralIn(d, t) /\ SettledIn(e, t) = SettledIn(d, t)
  BY <1>5 DEF CollateralIn, SettledIn
<1>13. \A t \in Assets : /\ Sum(BalanceIn(d, t), Accounts) \in Int /\ Sum(LockedOf(t), d.orders) \in Int
                         /\ d.fees[t] \in Int /\ d.supply[t] \in Int
                         /\ CollateralIn(d, t) \in Int /\ SettledIn(d, t) \in Int
  BY <1>a, SumsAre
<1>14. Surplus(e, Mia) = Surplus(d, Mia) - Sum(BalanceIn(d, Mia), Accounts) - d.fees[Mia]
  <2>1. /\ e.fees[Mia] = 0 /\ e.supply = d.supply /\ e.orders = d.orders
        /\ CollateralIn(e, Mia) = CollateralIn(d, Mia) /\ SettledIn(e, Mia) = SettledIn(d, Mia)
    BY <1>0, <1>4, <1>5, <1>12
  <2>2. /\ Sum(BalanceIn(d, Mia), Accounts) \in Int /\ Sum(LockedOf(Mia), d.orders) \in Int
        /\ d.fees[Mia] \in Int /\ d.supply[Mia] \in Int
        /\ CollateralIn(d, Mia) \in Int /\ SettledIn(d, Mia) \in Int
    BY <1>0, <1>13
  <2> QED  BY <1>8, <2>1, <2>2 DEF Surplus, HeldSum
<1>15. Surplus(e, Backing) = Surplus(d, Backing) + Sum(out, Accounts) + left
  <2>1. /\ e.fees[Backing] = d.fees[Backing] + left /\ e.supply = d.supply /\ e.orders = d.orders
        /\ CollateralIn(e, Backing) = CollateralIn(d, Backing) /\ SettledIn(e, Backing) = SettledIn(d, Backing)
    BY <1>0, <1>4, <1>5, <1>12
  <2>2. /\ Sum(BalanceIn(d, Backing), Accounts) \in Int /\ Sum(LockedOf(Backing), d.orders) \in Int
        /\ d.fees[Backing] \in Int /\ d.supply[Backing] \in Int
        /\ CollateralIn(d, Backing) \in Int /\ SettledIn(d, Backing) \in Int
    BY <1>0, <1>13
  <2> QED  BY <1>a, <1>9, <1>11, <2>1, <2>2 DEF Surplus, HeldSum
<1>16. \A t \in Assets \ {Mia, Backing} : Surplus(e, t) = Surplus(d, t)
  BY <1>4, <1>5, <1>10, <1>12 DEF Surplus, HeldSum
<1>17. (\A b \in Accounts : CoreGap(e, b) = CoreGap(d, b)) /\ DebtGap(e) = DebtGap(d)
  BY <1>5 DEF CoreGap, CoreSum, DebtGap, DebtSum
<1>18. Solvent(d) => Solvent(e)
  <2>1. ASSUME NEW a \in Accounts, NEW t \in Assets, d.balance[a][t] >= 0 PROVE e.balance[a][t] >= 0
    <3>1. out[a] \in Nat /\ d.balance[a][t] \in Int
      BY <1>a, <1>7
    <3>2. CASE t = Mia
      BY <1>3, <1>5, <3>2
    <3>3. CASE t = Backing
      BY <1>3, <1>5, <2>1, <3>1, <3>3
    <3>4. CASE t \notin {Mia, Backing}
      BY <1>3, <1>5, <2>1, <3>4
    <3> QED  BY <3>2, <3>3, <3>4
  <2> QED  BY <1>5, <2>1 DEF Solvent
<1>19. Keeps(d, e)
  BY <1>5, <1>6, <1>17, <1>18 DEF Keeps
<1> QED  BY <1>5, <1>14, <1>15, <1>16, <1>19

LEMMA SettleBalancesInv ==
  ASSUME MarketInv, SettleBalancesStep
  PROVE  MarketInv'
<1> DEFINE out == [a \in Accounts |-> Times(db.balance[a][Mia], Mia, task.price)]
           total == Total([a \in Accounts |-> db.balance[a][Mia]]) + db.fees[Mia]
           left == task.gathered - Total(out)
           balance == [a \in Accounts |-> [db.balance[a] EXCEPT ![Mia] = 0, ![Backing] = @ + out[a]]]
           fees == [db.fees EXCEPT ![Mia] = 0, ![Backing] = @ + left]
           e == [db EXCEPT !.balance = balance, !.fees = fees]
<1>1. At("settle_balances")
  BY DEF SettleBalancesStep
<1>2. /\ task.todo # <<>> /\ Head(task.todo) = "settle_balances" /\ DbType(db) /\ task \in Tasks
      /\ TaskInv(task, db) /\ StateInv(task, db) /\ DbInv(db) /\ Solvent(db) /\ SettlingNow(task)
      /\ ~db.aborted /\ task.undefined = FALSE
  <2>1. "settle_balances" \in SettlingLoops
    BY DEF SettlingLoops
  <2> HIDE DEF out, total, left, balance, fees, e
  <2> QED  BY <1>1, <2>1, AtFacts
<1>3. Throw \/ (total = task.supply /\ Step(e, Pop(task), {}))
  BY DEF SettleBalancesStep
<1>4. CASE Throw
  <2> HIDE DEF out, total, left, balance, fees, e
  <2> QED  BY <1>2, <1>4, ThrowInv
<1>5. CASE total = task.supply /\ Step(e, Pop(task), {})
  <2>0. Mia \in Assets /\ Backing \in Assets /\ Mia # Backing /\ IsFiniteSet(Accounts)
    BY MarketAssumption
  <2>1. out \in [Accounts -> Nat]
    <3>1. task.price \in Prices /\ MiaPrice(task.price) /\ task.price.b > 0
      BY <1>2 DEF TaskInv, Tasks
    <3>2. \A a \in Accounts : db.balance[a][Mia] \in Nat
      BY <1>2, <2>0 DEF Solvent, DbType, Dbs
    <3>3. \A a \in Accounts : Times(db.balance[a][Mia], Mia, task.price) \in Nat
      BY <3>1, <3>2, MiaTimes
    <3> QED  BY <3>3
  <2>2. total = Sum(BalanceIn(db, Mia), Accounts) + db.fees[Mia]
    BY DEF Total, Sum, BalanceIn
  <2>3. Total(out) = Sum(out, Accounts)
    BY DEF Total, Sum
  <2> HIDE DEF out, total
  <2>4. Sum(out, Accounts) \in Int /\ task.gathered \in Int /\ task.supply \in Int
    BY <1>2, <2>0, <2>1, SumType DEF Tasks
  <2>5. left \in Int /\ Sum(out, Accounts) + left = task.gathered
    BY <2>3, <2>4
  <2> HIDE DEF left
  <2>6. Exchanges(db, e, out, left)
    BY <1>2, <2>1, <2>5 DEF Exchanges
  <2> HIDE DEF e, balance, fees
  <2>7. /\ Keeps(db, e) /\ e.orders = db.orders /\ e.calls = db.calls /\ e.supply = db.supply
        /\ e.aborted = db.aborted
        /\ Surplus(e, Mia) = Surplus(db, Mia) - Sum(BalanceIn(db, Mia), Accounts) - db.fees[Mia]
        /\ Surplus(e, Backing) = Surplus(db, Backing) + Sum(out, Accounts) + left
        /\ \A t \in Assets \ {Mia, Backing} : Surplus(e, t) = Surplus(db, t)
    BY <2>6, ExchangeEffect
  <2>8. DbInv(e)
    BY <1>2, <2>7, KeepsInv
  <2>9. db.calls = {} /\ db.supply[Mia] = 0
    <3>1. db.calls = {}
      BY <1>2 DEF TaskInv
    <3>2. DebtSum(db) = 0
      BY <2>0, <3>1, SumRecursion DEF DebtSum
    <3>3. db.supply[Mia] - DebtSum(db) = 0 /\ db.supply[Mia] \in Int
      BY <1>2, <2>0 DEF DbInv, DebtGap, DbType, Dbs
    <3> QED  BY <3>1, <3>2, <3>3
  <2>10. Balanced(task, db) => \A t \in Assets : Surplus(e, t) = 0
    <3>1. SUFFICES ASSUME Balanced(task, db), NEW t \in Assets PROVE Surplus(e, t) = 0
      OBVIOUS
    <3>2. Surplus(db, t) + Missing(task, db, t) = 0 /\ Surplus(db, t) \in Int
      BY <1>2, <3>1, GapTypes DEF Balanced
    <3>3. CASE t = Mia
      <4>1. Missing(task, db, t) = db.supply[Mia] - task.supply
        BY <1>2, <2>0, <3>3 DEF Missing
      <4>2. Sum(BalanceIn(db, Mia), Accounts) \in Int /\ db.fees[Mia] \in Int
        BY <1>2, <2>0, SumsAre
      <4>3. Sum(BalanceIn(db, Mia), Accounts) + db.fees[Mia] = task.supply
        BY <1>5, <2>2
      <4>4. Surplus(e, t) = Surplus(db, t) - Sum(BalanceIn(db, Mia), Accounts) - db.fees[Mia]
        BY <2>7, <3>3
      <4> QED  BY <2>4, <2>9, <3>2, <4>1, <4>2, <4>3, <4>4
    <3>4. CASE t = Backing
      <4>1. Missing(task, db, t) = task.gathered
        BY <1>2, <3>4 DEF Missing
      <4>2. Surplus(e, t) = Surplus(db, t) + Sum(out, Accounts) + left
        BY <2>7, <3>4
      <4> QED  BY <2>4, <2>5, <3>2, <4>1, <4>2
    <3>5. CASE t \notin {Mia, Backing}
      <4>1. Missing(task, db, t) = 0
        BY <1>2, <3>5 DEF Missing
      <4> QED  BY <2>7, <3>2, <3>5, <4>1
    <3> QED  BY <3>3, <3>4, <3>5
  <2> DEFINE p == Pop(task)
  <2>11. /\ TaskInv(p, e) /\ p.undefined = task.undefined /\ p.order = task.order
         /\ ~SettlingNow(p)
         /\ \A l : Has(task, l) => l = "settle_balances" \/ Has(p, l)
    <3>1. "settle_balances" \notin GatheringLoops
      BY DEF GatheringLoops
    <3> QED  BY <1>2, <3>1, PopTask
  <2> HIDE DEF p
  <2>12. Balanced(task, db) => Balanced(p, e)
    <3>1. \A t \in Assets : Missing(p, e, t) = 0
      BY <2>11 DEF Missing
    <3> QED  BY <2>10, <3>1 DEF Balanced
  <2>13. Uncrossed(task, db) => Uncrossed(p, e)
    BY <2>7, <2>11, UncrossedKept DEF OrdersFrom
  <2>14. StateInv(p, e) /\ p.undefined \in BOOLEAN
    BY <1>2, <2>7, <2>8, <2>11, <2>12, <2>13 DEF StateInv
  <2>15. Step(e, p, {})
    BY <1>5 DEF p
  <2> QED  BY <1>2, <2>8, <2>14, <2>15, StepInv
<1> QED  BY <1>3, <1>4, <1>5
----------------------------------------------------------------------------
(* The operations.                                                         *)

\* The task of an operation that begins.
Begun(s, i, p, k) ==
  [todo |-> s, order |-> i, call |-> None, called |-> FALSE, fill_or_kill |-> k, price |-> p,
   gathered |-> 0, supply |-> 0, undefined |-> FALSE]

LEMMA BegunTask ==
  ASSUME NEW s, NEW i, NEW p, NEW k, NEW t
  PROVE  /\ t = [NoTask EXCEPT !.todo = s, !.order = i] => t = Begun(s, i, NullPrice, FALSE)
         /\ t = [NoTask EXCEPT !.todo = s, !.order = i, !.price = p, !.fill_or_kill = k]
              => t = Begun(s, i, p, k)
<1>1. ASSUME t = [NoTask EXCEPT !.todo = s, !.order = i] PROVE t = Begun(s, i, NullPrice, FALSE)
  BY <1>1 DEF NoTask, Begun
<1>2. ASSUME t = [NoTask EXCEPT !.todo = s, !.order = i, !.price = p, !.fill_or_kill = k]
      PROVE  t = Begun(s, i, p, k)
  BY <1>2 DEF NoTask, Begun
<1> QED  BY <1>1, <1>2

Begins(t, s, i, p, k) ==
  /\ s \in Seq(Loops) /\ TodoInv(s) /\ s # <<>> /\ Head(s) \notin SettlingLoops
  /\ ~(Within("settle", s) /\ Within("match", s))
  /\ i \in Nat /\ (i = None \/ ~Within("settle", s)) /\ p \in Prices /\ k \in BOOLEAN
  /\ t = Begun(s, i, p, k)

LEMMA NewTask ==
  ASSUME NEW s, NEW i, NEW p, NEW k, NEW t, Begins(t, s, i, p, k), NEW d
  PROVE  /\ TaskInv(t, d) /\ t.todo = s /\ t.order = i /\ t.undefined = FALSE /\ ~SettlingNow(t)
         /\ \A l : Has(t, l) <=> Within(l, s)
<1> USE DEF Begins
<1>1. t.todo = s /\ t.order = i /\ t.call = None
  BY DEF Begun
<1>2. t.undefined = FALSE
  BY DEF Begun
<1>3. t \in Tasks
  BY DEF Begun, Tasks, None
<1>4. (\A l : Has(t, l) <=> Within(l, s)) /\ ~SettlingNow(t)
  BY <1>1 DEF Has, SettlingNow
<1> QED  BY <1>1, <1>2, <1>3, <1>4 DEF TaskInv

LEMMA StillSettled ==
  ASSUME MarketInv, Idle, NEW e, DbInv(e), ~e.aborted, OrdersFrom(db, e),
         NoWithdrawals => \A s \in Assets : Surplus(e, s) = Surplus(db, s)
  PROVE  StateInv(NoTask, e)
<1>1. Settled(FALSE, db) /\ ~db.aborted
  BY IdleInv
<1>2. OffersInRange => Uncrossed(NoTask, e)
  <2>1. OffersInRange => Uncrossed(NoTask, db)
    BY <1>1 DEF Settled
  <2> QED  BY <2>1, UncrossedKept
<1>3. NoWithdrawals => \A s \in Assets : Surplus(e, s) = 0
  BY <1>1 DEF Settled
<1>4. Settled(FALSE, e)
  BY <1>2, <1>3 DEF Settled
<1> QED  BY <1>4, SettledInv, NoTaskIs

LEMMA RunInv ==
  ASSUME MarketInv, Idle, NEW d, StateInv(NoTask, d), ~d.aborted, NEW s \in Seq(Loops), TodoInv(s),
         s # <<>> => Head(s) \notin SettlingLoops, ~(Within("settle", s) /\ Within("match", s)),
         Run(d, s, None)
  PROVE  MarketInv'
<1>0. db' = d /\ feed' = feed /\ saved' \in {d, db}
  BY DEF Run
<1>1. CASE s = <<>>
  <2>1. task' = NoTask /\ NoTask.todo = <<>>
    BY <1>1, NullTask DEF Run
  <2> QED  BY <1>0, <2>1, BeginInv
<1>2. CASE s # <<>>
  <2> DEFINE t == task'
  <2>1. t = [NoTask EXCEPT !.todo = s, !.order = None] /\ saved' = db
    BY <1>2 DEF Run
  <2>2. t = Begun(s, None, NullPrice, FALSE)
    BY <2>1, BegunTask
  <2> HIDE DEF t
  <2>3. TaskInv(t, d) /\ t.undefined = FALSE /\ ~SettlingNow(t)
    <3>1. None \in Nat /\ NullPrice \in Prices /\ FALSE \in BOOLEAN /\ Head(s) \notin SettlingLoops
      BY <1>2, NullTask DEF None
    <3>2. Begins(t, s, None, NullPrice, FALSE)
      BY <1>2, <2>2, <3>1 DEF Begins
    <3> QED  BY <3>2, NewTask
  <2>4. NoWithdrawals => Balanced(t, d)
    <3>1. NoWithdrawals => Balanced(NoTask, d)
      BY DEF StateInv
    <3>2. \A a \in Assets : Missing(t, d, a) = 0 /\ Missing(NoTask, d, a) = 0
      BY <2>3, NullTask, NoTaskIs DEF Missing, SettlingNow
    <3> QED  BY <3>1, <3>2 DEF Balanced
  <2>5. OffersInRange => Uncrossed(t, d)
    <3>1. OffersInRange => Uncrossed(NoTask, d)
      BY NullTask DEF StateInv
    <3>2. ~Has(NoTask, "match")
      BY NullTask DEF Has, Within
    <3> QED  BY <3>1, <3>2 DEF Uncrossed
  <2>6. StateInv(t, d)
    BY <2>3, <2>4, <2>5 DEF StateInv
  <2> QED  BY <1>0, <2>1, <2>6, BeginInv DEF t
<1> QED  BY <1>1, <1>2

\* Loops of which none is a loop of a global settlement.
LEMMA PlainTodo ==
  ASSUME NEW s \in Seq(Loops \ SettlingLoops)
  PROVE  s \in Seq(Loops) /\ TodoInv(s) /\ (s # <<>> => Head(s) \notin SettlingLoops)
<1>1. s \in Seq(Loops) /\ DOMAIN s = 1..Len(s) /\ Len(s) \in Nat /\ \A i \in 1..Len(s) : s[i] \notin SettlingLoops
  OBVIOUS
<1>2. \A i \in DOMAIN s : s[i] \notin SettlingLoops /\ s[i] \notin GatheringLoops
  BY <1>1 DEF SettlingLoops
<1>3. TodoInv(s)
  BY <1>2 DEF TodoInv
<1>4. s # <<>> => Head(s) \notin SettlingLoops
  <2>1. s # <<>> => Head(s) \in Loops \ SettlingLoops
    OBVIOUS
  <2> QED  BY <2>1
<1> QED  BY <1>1, <1>3, <1>4

LEMMA CancelOpInv ==
  ASSUME MarketInv, NEW o \in db.orders, order_cancel(o)
  PROVE  MarketInv'
<1>1. Idle /\ Run(CancelOrder(db, o), Checks(o.price), None)
  BY DEF order_cancel
<1> DEFINE e == CancelOrder(db, o)
           s == Checks(o.price)
<1>2. DbType(db) /\ DbInv(db) /\ ~db.aborted
  BY <1>1, IdleInv
<1>3. /\ Keeps(db, e) /\ OrdersFrom(db, e) /\ e.aborted = db.aborted
      /\ \A a \in Assets : Surplus(e, a) = Surplus(db, a)
  BY <1>2, CancelKeeps
<1>4. s \in {<<"calls">>, <<>>}
  BY DEF Checks
<1>5. s \in Seq(Loops \ SettlingLoops) /\ ~Within("settle", s)
  <2>1. "calls" \in Loops \ SettlingLoops
    BY DEF Loops, SettlingLoops, GatheringLoops
  <2>2. s \in Seq(Loops \ SettlingLoops)
    <3> DEFINE L == Loops \ SettlingLoops
    <3> HIDE DEF L, s
    <3>1. \A l \in L : <<l>> \in Seq(L) /\ <<>> \in Seq(L)
      OBVIOUS
    <3>2. <<"calls">> \in Seq(L) /\ <<>> \in Seq(L)
      BY <2>1, <3>1 DEF L
    <3> QED  BY <1>4, <3>2 DEF L
  <2>3. ~Within("settle", s)
    BY <1>4 DEF Within
  <2> QED  BY <2>2, <2>3
<1> HIDE DEF e, s
<1>6. DbInv(e)
  BY <1>2, <1>3, KeepsInv
<1>7. StateInv(NoTask, e) /\ ~e.aborted
  BY <1>1, <1>2, <1>3, <1>6, StillSettled
<1>8. s \in Seq(Loops) /\ TodoInv(s) /\ (s # <<>> => Head(s) \notin SettlingLoops)
  BY <1>5, PlainTodo
<1>9. Run(e, s, None)
  BY <1>1 DEF e, s
<1> QED  BY <1>1, <1>5, <1>7, <1>8, <1>9, RunInv

LEMMA ExpirationsInv ==
  ASSUME MarketInv, clear_expired_orders
  PROVE  MarketInv'
<1> DEFINE s == <<"expire_limits", "expire_shorts", "settle">>
<1>1. Idle /\ Run(db, s, None)
  BY DEF clear_expired_orders
<1>2. s \in Seq(Loops \ SettlingLoops) /\ ~Within("match", s)
  BY DEF Loops, SettlingLoops, GatheringLoops, Within
<1> HIDE DEF s
<1>3. s \in Seq(Loops) /\ TodoInv(s) /\ (s # <<>> => Head(s) \notin SettlingLoops)
  BY <1>2, PlainTodo
<1>4. StateInv(NoTask, db) /\ ~db.aborted
  BY <1>1, IdleInv
<1> QED  BY <1>1, <1>2, <1>3, <1>4, RunInv

LEMMA NoLoops == <<>> \in Seq(Loops) /\ TodoInv(<<>>) /\ ~Within("settle", <<>>)
BY DEF TodoInv, Within

LEMMA MaintenanceInv ==
  ASSUME MarketInv, perform_chain_maintenance
  PROVE  MarketInv'
<1> DEFINE e == [db EXCEPT !.force_settled = 0]
<1>1. Idle /\ Run(e, <<>>, None)
  BY DEF perform_chain_maintenance
<1>2. DbType(db) /\ DbInv(db) /\ ~db.aborted
  BY <1>1, IdleInv
<1>3. /\ Keeps(db, e) /\ OrdersFrom(db, e) /\ e.aborted = db.aborted
      /\ \A a \in Assets : Surplus(e, a) = Surplus(db, a)
  BY <1>2, ForceSettledEffect
<1> HIDE DEF e
<1>4. DbInv(e)
  BY <1>2, <1>3, KeepsInv
<1>5. StateInv(NoTask, e) /\ ~e.aborted
  BY <1>1, <1>2, <1>3, <1>4, StillSettled
<1> QED  BY <1>1, <1>5, NoLoops, RunInv

LEMMA FeedInv ==
  ASSUME MarketInv, NEW f \in Feeds, asset_publish_feed(f)
  PROVE  MarketInv'
<1>1. feed' = f /\ db' = db /\ task' = task /\ saved' = saved
  BY DEF asset_publish_feed
<1>2. StateInv(task, db)' /\ StateInv(NoTask, saved)' = StateInv(NoTask, saved)
  BY <1>1 DEF MarketInv
<1> QED  BY <1>1, <1>2 DEF MarketInv

LEMMA GlobalSettleInv ==
  ASSUME MarketInv, NEW p \in SettlePrices, asset_global_settle(p)
  PROVE  MarketInv'
<1>1. /\ Idle /\ p.b > 0 /\ task' = SwanTask(p) /\ saved' = db /\ db' = db /\ feed' = feed
  BY DEF asset_global_settle
<1>2. p \in Prices /\ MiaPrice(p)
  BY PricesAssumption, MarketAssumption DEF Prices, MiaPrice
<1>3. ~db.aborted /\ task.undefined = FALSE /\ task.todo = <<>>
  <2>1. task.undefined \in BOOLEAN
    BY DEF MarketInv, StateInv, TaskInv, Tasks
  <2> QED  BY <1>1, <2>1 DEF Idle
<1>4. StateInv(SwanTask(p), db)
  BY <1>1, <1>2, <1>3, SwanState
<1> QED  BY <1>1, <1>4, BeginInv

LEMMA SettleOpInv ==
  ASSUME MarketInv, NEW a \in Accounts, NEW x \in Settles, asset_settle(a, x)
  PROVE  MarketInv'
<1> DEFINE d == Adjust(db, a, Mia, -x)
           s == [id |-> db.next_id, owner |-> a, balance |-> x]
           S == d.settlements \cup {s}
           n == d.next_id + 1
           e == [d EXCEPT !.settlements = S, !.next_id = n]
<1>1. Idle /\ db.balance[a][Mia] >= x
  BY DEF asset_settle
<1>2. d.next_id = db.next_id /\ d.settlements = db.settlements
  BY DEF Adjust
<1>3. Run(e, <<>>, None)
  <2>1. Run([d EXCEPT !.settlements = @ \cup {s}, !.next_id = @ + 1], <<>>, None)
    BY DEF asset_settle
  <2>2. [d EXCEPT !.settlements = @ \cup {s}, !.next_id = @ + 1] = e
    OBVIOUS
  <2> QED  BY <2>1, <2>2
<1>4. /\ DbType(db) /\ DbInv(db) /\ ~db.aborted /\ Solvent(db) /\ Mia \in Assets
      /\ x \in Nat /\ db.balance[a][Mia] \in Int
  <2>1. DbType(db) /\ DbInv(db) /\ ~db.aborted /\ Solvent(db)
    BY <1>1, IdleInv
  <2>2. db.balance \in [Accounts -> [Assets -> Int]]
    BY <2>1 DEF DbType, Dbs
  <2> QED  BY <2>1, <2>2, MarketAssumption, OperationsAssumption
<1>5. /\ DbType(d) /\ d.aborted = db.aborted /\ d.orders = db.orders
      /\ \A t \in Assets : Surplus(d, t) = Surplus(db, t) + At1(Mia, t, -x)
      /\ \A b \in Accounts : CoreGap(d, b) = CoreGap(db, b)
      /\ DebtGap(d) = DebtGap(db) /\ Solvent(d)
  <2>1. -x \in Int /\ db.balance[a][Mia] + (-x) >= 0
    BY <1>1, <1>4
  <2> HIDE DEF d
  <2>2. d = Adjust(db, a, Mia, -x)
    BY DEF d
  <2> QED  BY <1>4, <2>1, <2>2, AdjustEffect
<1> HIDE DEF d
<1>6. Resettles(d, e, S, n, x)
  <2>1. /\ d.settlements \subseteq Settlements /\ IsFiniteSet(d.settlements) /\ d.next_id \in Nat \ {0}
        /\ \A y \in d.settlements : SettlementInv(y) /\ y.id < d.next_id /\ y.id \in Nat
        /\ \A y, z \in d.settlements : y.id = z.id => y = z
    BY <1>5, SettlementFacts
  <2>2. s \in Settlements /\ SettlementInv(s) /\ s.id = d.next_id /\ s.balance = x
    BY <1>2, <1>4, <2>1 DEF Settlements, SettlementInv
  <2> HIDE DEF s
  <2>3. s \notin d.settlements
    BY <2>1, <2>2
  <2>4. IsFiniteSet(S) /\ Sum(BalanceOf, S) = Sum(BalanceOf, d.settlements) + x
    <3>1. \A y \in d.settlements : BalanceOf[y] \in Int
      BY <2>1, Terms
    <3>2. BalanceOf[s] = x /\ BalanceOf[s] \in Int
      BY <2>2, Terms
    <3> QED  BY <2>1, <2>3, <3>1, <3>2, SumInsert
  <2>5. Identified(S, n) /\ S \subseteq Settlements /\ \A y \in S : SettlementInv(y)
    BY <2>1, <2>2 DEF Identified
  <2> QED  BY <1>4, <1>5, <2>1, <2>4, <2>5 DEF Resettles
<1> HIDE DEF S, n
<1>7. /\ DbType(e) /\ e.orders = d.orders /\ e.aborted = d.aborted
      /\ \A t \in Assets : Surplus(e, t) = Surplus(d, t) + At1(Mia, t, x)
      /\ \A b \in Accounts : CoreGap(e, b) = CoreGap(d, b)
      /\ DebtGap(e) = DebtGap(d) /\ Solvent(e)
  <2> HIDE DEF e
  <2> QED  BY <1>5, <1>6, SettlementsEffect
<1> HIDE DEF e
<1>8. DbInv(e)
  BY <1>4, <1>5, <1>7 DEF DbInv
<1>9. \A t \in Assets : Surplus(e, t) = Surplus(db, t)
  <2>1. ASSUME NEW t \in Assets PROVE Surplus(e, t) = Surplus(db, t)
    <3>1. Surplus(db, t) \in Int /\ Surplus(d, t) = Surplus(db, t) + At1(Mia, t, -x)
          /\ Surplus(e, t) = Surplus(d, t) + At1(Mia, t, x)
      BY <1>4, <1>5, <1>7, GapTypes
    <3>2. CASE t = Mia
      BY <1>4, <3>1, <3>2 DEF At1
    <3>3. CASE t # Mia
      BY <1>4, <3>1, <3>3 DEF At1
    <3> QED  BY <3>2, <3>3
  <2> QED  BY <2>1
<1>10. OrdersFrom(db, e) /\ ~e.aborted
  BY <1>4, <1>5, <1>7 DEF OrdersFrom
<1>11. StateInv(NoTask, e)
  BY <1>1, <1>8, <1>9, <1>10, StillSettled
<1> QED  BY <1>1, <1>3, <1>10, <1>11, NoLoops, RunInv

\* An update of a call order: a's balance in Mia falls by cover, its balance in
\* the backing asset by y, and the call orders' debt and collateral change.
Updated(d, e, C, a, cover, x, y) ==
  /\ CallsChange(d, C, d.next_id, -cover, x, a) /\ cover \in Nat /\ y \in Int
  /\ d.balance[a][Mia] >= cover /\ d.balance[a][Backing] + y >= 0
  /\ \A c \in C : c.collateral >= 0
  /\ LET paid == [Adjust(d, a, Mia, -cover) EXCEPT !.supply[Mia] = @ - cover]
     IN  e = CoreInOrders(Adjust([paid EXCEPT !.calls = C], a, Backing, y), a, Backing, x)

LEMMA UpdatedEffect ==
  ASSUME NEW d, DbInv(d), ~d.aborted, NEW e, NEW C, NEW a, NEW cover, NEW x, NEW y, Updated(d, e, C, a, cover, x, y)
  PROVE  /\ DbInv(e) /\ e.orders = d.orders /\ ~e.aborted
         /\ x = -y => \A t \in Assets : Surplus(e, t) = Surplus(d, t)
<1> DEFINE d1 == Adjust(d, a, Mia, -cover)
           d2 == [[d1 EXCEPT !.supply[Mia] = @ - cover] EXCEPT !.calls = C]
           d3 == Adjust(d2, a, Backing, y)
<1>1. /\ DbType(d) /\ Solvent(d) /\ a \in Accounts /\ cover \in Nat /\ x \in Int /\ y \in Int
      /\ Mia \in Assets /\ Backing \in Assets /\ Mia # Backing
      /\ d.balance \in [Accounts -> [Assets -> Int]]
  BY MarketAssumption DEF DbInv, Updated, CallsChange, DbType, Dbs
<1>2. /\ DbType(d1) /\ Untouched(d, d1) /\ d1.aborted = d.aborted /\ d1.orders = d.orders
      /\ \A t \in Assets : Surplus(d1, t) = Surplus(d, t) + At1(Mia, t, -cover)
      /\ \A b \in Accounts : CoreGap(d1, b) = CoreGap(d, b)
      /\ DebtGap(d1) = DebtGap(d) /\ Solvent(d1)
  <2>1. -cover \in Int /\ d.balance[a][Mia] + (-cover) >= 0
    BY <1>1 DEF Updated
  <2> HIDE DEF d1
  <2>2. d1 = Adjust(d, a, Mia, -cover)
    BY DEF d1
  <2>3. a \in Accounts /\ Mia \in Assets /\ DbType(d)
    BY <1>1
  <2>4. /\ DbType(d1) /\ Untouched(d, d1) /\ d1.aborted = d.aborted /\ d1.orders = d.orders
        /\ \A t \in Assets : Surplus(d1, t) = Surplus(d, t) + At1(Mia, t, -cover)
        /\ \A b \in Accounts : CoreGap(d1, b) = CoreGap(d, b)
        /\ DebtGap(d1) = DebtGap(d)
        /\ Solvent(d) /\ (d.balance[a][Mia] + (-cover) >= 0) => Solvent(d1)
    BY <2>1, <2>2, <2>3, AdjustedEffect
  <2> QED  BY <1>1, <2>1, <2>4
<1>3. d1.balance[a][Backing] = d.balance[a][Backing]
  BY <1>1 DEF Adjust
<1>4. e = CoreInOrders(d3, a, Backing, x)
  BY DEF Updated
<1> HIDE DEF d1
<1>5. Recalls(d1, d2, -cover, x, 0, a)
  <2>1. /\ d1 \in Dbs /\ d1.supply \in [Assets -> Int] /\ d1.core_in_orders \in [Accounts -> Int]
        /\ d1.calls = d.calls /\ d1.next_id = d.next_id
    BY <1>2 DEF DbType, Dbs, Untouched
  <2>2. CallsChange(d1, C, d1.next_id, -cover, x, a) /\ C \subseteq Calls
    BY <2>1 DEF Updated, CallsChange, DebtSum
  <2>3. [d1.supply EXCEPT ![Mia] = @ - cover] = [d1.supply EXCEPT ![Mia] = @ + (-cover)]
    BY <1>1, <2>1
  <2>4. [d1.core_in_orders EXCEPT ![a] = @ + 0] = d1.core_in_orders
    BY <1>1, <2>1
  <2>5. [d1.supply EXCEPT ![Mia] = @ - cover] \in [Assets -> Int]
    BY <1>1, <2>1
  <2> DEFINE u == [d1.supply EXCEPT ![Mia] = @ - cover]
  <2>6. d2 = [d1 EXCEPT !.supply = u, !.calls = C]
    BY <2>1 DEF Dbs
  <2> HIDE DEF u, d2
  <2>7. /\ d2 \in Dbs /\ d2.supply = u /\ d2.calls = C /\ d2.next_id = d1.next_id
        /\ d2.core_in_orders = d1.core_in_orders /\ d2.balance = d1.balance /\ d2.fees = d1.fees
        /\ d2.orders = d1.orders /\ d2.settlements = d1.settlements
    BY <2>1, <2>2, <2>5, <2>6 DEF Dbs, u
  <2> QED  BY <1>2, <2>2, <2>3, <2>4, <2>7 DEF Recalls, u
<1>6. /\ d2.aborted = d1.aborted /\ d2.orders = d1.orders /\ d2.balance = d1.balance /\ d2.calls = C
  <2>1. d1 \in Dbs
    BY <1>2 DEF DbType
  <2> QED  BY <2>1 DEF Dbs
<1> HIDE DEF d2
<1>7. /\ DbType(d2)
      /\ \A t \in Assets : Surplus(d2, t) = Surplus(d1, t) + At1(Backing, t, x) - At1(Mia, t, -cover)
      /\ \A b \in Accounts : CoreGap(d2, b) = CoreGap(d1, b) + At1(a, b, 0 - At1(Core, Backing, x))
      /\ DebtGap(d2) = DebtGap(d1)
      /\ Solvent(d2)
  <2>1. \A c \in d2.calls : c.collateral >= 0
    BY <1>6 DEF Updated
  <2> QED  BY <1>2, <1>5, <2>1, CallsEffect
<1>8. /\ DbType(d3) /\ d3.aborted = d2.aborted /\ d3.orders = d2.orders
      /\ \A t \in Assets : Surplus(d3, t) = Surplus(d2, t) + At1(Backing, t, y)
      /\ \A b \in Accounts : CoreGap(d3, b) = CoreGap(d2, b)
      /\ DebtGap(d3) = DebtGap(d2) /\ Solvent(d3)
  <2>1. d2.balance[a][Backing] + y >= 0
    BY <1>3, <1>6 DEF Updated
  <2> HIDE DEF d3
  <2>2. d3 = Adjust(d2, a, Backing, y)
    BY DEF d3
  <2>3. a \in Accounts /\ Backing \in Assets /\ y \in Int /\ DbType(d2) /\ Solvent(d2)
    BY <1>1, <1>7
  <2> QED  BY <2>1, <2>2, <2>3, AdjustedEffect
<1> HIDE DEF d3
<1>9. /\ DbType(e) /\ e.aborted = d3.aborted /\ e.orders = d3.orders
      /\ \A t \in Assets : Surplus(e, t) = Surplus(d3, t)
      /\ \A b \in Accounts : CoreGap(e, b) = CoreGap(d3, b) + At1(a, b, At1(Core, Backing, x))
      /\ DebtGap(e) = DebtGap(d3) /\ Solvent(e)
  <2>1. a \in Accounts /\ Backing \in Assets /\ x \in Int /\ DbType(d3) /\ Solvent(d3)
    BY <1>1, <1>8
  <2> QED  BY <1>4, <2>1, CoreInOrdersEffect
<1>10. \A b \in Accounts : CoreGap(e, b) = CoreGap(d, b)
  <2>1. ASSUME NEW b \in Accounts PROVE CoreGap(e, b) = CoreGap(d, b)
    <3> DEFINE h == At1(Core, Backing, x)
    <3>1. h \in Int /\ CoreGap(d, b) \in Int
      BY <1>1, GapTypes DEF At1
    <3>2. /\ CoreGap(d1, b) = CoreGap(d, b) /\ CoreGap(d2, b) = CoreGap(d1, b) + At1(a, b, 0 - h)
          /\ CoreGap(d3, b) = CoreGap(d2, b) /\ CoreGap(e, b) = CoreGap(d3, b) + At1(a, b, h)
      BY <1>2, <1>7, <1>8, <1>9
    <3> HIDE DEF h
    <3>3. CASE a = b
      BY <3>1, <3>2, <3>3 DEF At1
    <3>4. CASE a # b
      BY <3>1, <3>2, <3>4 DEF At1
    <3> QED  BY <3>3, <3>4
  <2> QED  BY <2>1
<1>11. DbInv(e)
  BY <1>2, <1>7, <1>8, <1>9, <1>10 DEF DbInv
<1>12. ASSUME x = -y, NEW t \in Assets PROVE Surplus(e, t) = Surplus(d, t)
  <2>1. /\ Surplus(d, t) \in Int /\ Surplus(d1, t) = Surplus(d, t) + At1(Mia, t, -cover)
        /\ Surplus(d2, t) = Surplus(d1, t) + At1(Backing, t, x) - At1(Mia, t, -cover)
        /\ Surplus(d3, t) = Surplus(d2, t) + At1(Backing, t, y) /\ Surplus(e, t) = Surplus(d3, t)
    BY <1>1, <1>2, <1>7, <1>8, <1>9, GapTypes
  <2>2. At1(Mia, t, -cover) \in Int /\ At1(Backing, t, x) \in Int /\ At1(Backing, t, y) \in Int
    BY <1>1 DEF At1
  <2>3. At1(Backing, t, x) + At1(Backing, t, y) = 0
    BY <1>1, <1>12 DEF At1
  <2> QED  BY <2>1, <2>2, <2>3
<1> QED  BY <1>2, <1>6, <1>8, <1>9, <1>11, <1>12

LEMMA UpdateOpInv ==
  ASSUME MarketInv, NEW a \in Accounts, NEW add \in Int, NEW cover \in Int, call_order_update(a, add, cover),
         NoWithdrawals => add >= 0 \/ \A c \in db.calls : c.borrower = a => cover = c.debt
  PROVE  MarketInv'
<1>1. PICK c \in db.calls :
        LET closing == cover = c.debt
            rest == [c EXCEPT !.debt = @ - cover, !.collateral = @ + add,
                              !.call_price = CallPrice(c.debt - cover, c.collateral + add, c.mcr)]
            paid == [Adjust(db, a, Mia, -cover) EXCEPT !.supply[Mia] = @ - cover]
        IN  /\ c.borrower = a
            /\ Idle /\ cover >= 0 /\ db.balance[a][Mia] >= cover /\ db.balance[a][Backing] >= add
            /\ cover <= c.debt
            /\ closing => /\ add = -c.collateral
                          /\ Run(CoreInOrders(Adjust([paid EXCEPT !.calls = @ \ {c}], a, Backing, c.collateral),
                                              a, Backing, -c.collateral), <<>>, None)
            /\ ~closing => /\ rest.collateral >= 0
                           /\ Run(CoreInOrders(Adjust([paid EXCEPT !.calls = (@ \ {c}) \cup {rest}],
                                                      a, Backing, IF add > 0 THEN -add ELSE 0),
                                               a, Backing, add), <<>>, None)
  BY DEF call_order_update
<1> DEFINE paid == [Adjust(db, a, Mia, -cover) EXCEPT !.supply[Mia] = @ - cover]
           rest == [c EXCEPT !.debt = @ - cover, !.collateral = @ + add,
                             !.call_price = CallPrice(c.debt - cover, c.collateral + add, c.mcr)]
           C == IF cover = c.debt THEN db.calls \ {c} ELSE (db.calls \ {c}) \cup {rest}
           x == IF cover = c.debt THEN -c.collateral ELSE add
           y == IF cover = c.debt THEN c.collateral ELSE IF add > 0 THEN -add ELSE 0
           e == CoreInOrders(Adjust([paid EXCEPT !.calls = C], a, Backing, y), a, Backing, x)
<1>2. /\ Idle /\ c.borrower = a /\ cover \in Nat /\ cover <= c.debt
      /\ db.balance[a][Mia] >= cover /\ db.balance[a][Backing] >= add
  BY <1>1
<1>3. /\ DbType(db) /\ DbInv(db) /\ ~db.aborted /\ Solvent(db)
  BY <1>2, IdleInv
<1>4. paid.calls = db.calls
  BY DEF Adjust
<1>5. Run(e, <<>>, None)
  <2> HIDE DEF paid
  <2>1. CASE cover = c.debt
    <3>1. Run(CoreInOrders(Adjust([paid EXCEPT !.calls = paid.calls \ {c}], a, Backing, c.collateral),
                           a, Backing, -c.collateral), <<>>, None)
      BY <1>1, <2>1 DEF paid
    <3> QED  BY <1>4, <2>1, <3>1
  <2>2. CASE cover # c.debt
    <3>1. Run(CoreInOrders(Adjust([paid EXCEPT !.calls = (paid.calls \ {c}) \cup {rest}],
                                  a, Backing, IF add > 0 THEN -add ELSE 0),
                           a, Backing, add), <<>>, None)
      BY <1>1, <2>2 DEF paid
    <3> QED  BY <1>4, <2>2, <3>1
  <2> QED  BY <2>1, <2>2
<1>6. /\ c \in Calls /\ CallInv(c) /\ c.debt \in Nat \ {0} /\ c.collateral \in Int /\ c.mcr \in Int
      /\ c.collateral >= 0 /\ db.balance[a][Backing] >= 0 /\ db.balance[a][Backing] \in Int
  <2>1. db.balance \in [Accounts -> [Assets -> Int]] /\ Backing \in Assets
    BY <1>3, MarketAssumption DEF DbType, Dbs
  <2> QED  BY <1>2, <1>3, <2>1, CallFacts DEF Solvent
<1>7. Updated(db, e, C, a, cover, x, y)
  <2>1. x \in Int /\ y \in Int /\ db.balance[a][Backing] + y >= 0
    BY <1>2, <1>6
  <2>2. CallsChange(db, C, db.next_id, -cover, x, a) /\ \A k \in C : k.collateral >= 0
    <3>1. CASE cover = c.debt
      <4>1. C = db.calls \ {c} /\ x = -c.collateral /\ -cover = -c.debt
        BY <3>1
      <4> HIDE DEF C, x
      <4>2. CallsChange(db, C, db.next_id, -cover, x, a)
        BY <1>2, <1>3, <4>1, CallDrop
      <4> QED  BY <1>3, <4>1, <4>2 DEF Solvent
    <3>2. CASE cover # c.debt
      <4>1. C = (db.calls \ {c}) \cup {rest} /\ x = add
        BY <3>2
      <4>2. rest.collateral >= 0
        BY <1>1, <3>2
      <4>3. CallPrice(c.debt - cover, c.collateral + add, c.mcr) \in Prices
        <5>1. (c.collateral + add) * (c.mcr - 1000) \in Int
          BY <1>6, Regroup
        <5>2. ((c.collateral + add) * (c.mcr - 1000)) \div 1000 \in Int
          BY <5>1, Floor
        <5> QED  BY <1>2, <1>6, <5>2, MarketAssumption DEF CallPrice, Price, Prices
      <4> DEFINE q == CallPrice(c.debt - cover, c.collateral + add, c.mcr)
      <4>4. q.base = Backing /\ q.quote = Mia /\ q.q = c.debt - cover
        BY DEF CallPrice, Price
      <4> HIDE DEF q
      <4>5. /\ rest \in Calls /\ rest.id = c.id /\ rest.borrower = c.borrower /\ rest.mcr = c.mcr
            /\ rest.debt = c.debt - cover /\ rest.collateral = c.collateral + add /\ rest.call_price = q
        <5> DEFINE u == c.debt - cover
                   v == c.collateral + add
        <5>1. u \in Int /\ v \in Int /\ q \in Prices
          BY <1>2, <1>6, <4>3 DEF q
        <5>2. rest = [c EXCEPT !.debt = u, !.collateral = v, !.call_price = q]
          BY <1>6 DEF q, Calls
        <5> HIDE DEF u, v, rest
        <5>3. /\ rest \in Calls /\ rest.id = c.id /\ rest.borrower = c.borrower /\ rest.mcr = c.mcr
              /\ rest.debt = u /\ rest.collateral = v /\ rest.call_price = q
          BY <1>6, <5>1, <5>2 DEF Calls
        <5> QED  BY <5>3 DEF u, v
      <4> HIDE DEF rest, C, x
      <4>6. CallInv(rest)
        BY <1>2, <1>6, <3>2, <4>4, <4>5 DEF CallInv
      <4>7. rest.debt - c.debt = -cover /\ rest.collateral - c.collateral = add
        BY <1>2, <1>6, <4>5
      <4>8. CallsChange(db, C, db.next_id, -cover, x, a)
        <5>1. CallsChange(db, (db.calls \ {c}) \cup {rest}, db.next_id, rest.debt - c.debt,
                          rest.collateral - c.collateral, c.borrower)
          BY <1>3, <4>5, <4>6, CallSwap
        <5> QED  BY <1>2, <4>1, <4>7, <5>1
      <4> QED  BY <1>3, <4>1, <4>2, <4>8 DEF Solvent
    <3> QED  BY <3>1, <3>2
  <2>3. e = CoreInOrders(Adjust([paid EXCEPT !.calls = C], a, Backing, y), a, Backing, x)
    OBVIOUS
  <2> HIDE DEF e, C, x, y
  <2> QED  BY <1>2, <2>1, <2>2, <2>3 DEF Updated
<1>8. NoWithdrawals => x = -y
  <2>1. CASE cover = c.debt
    BY <1>6, <2>1
  <2>2. CASE cover # c.debt
    <3>1. NoWithdrawals => add >= 0
      BY <1>2, <2>2
    <3> QED  BY <2>2, <3>1
  <2> QED  BY <2>1, <2>2
<1> HIDE DEF e, C, x, y
<1>9. /\ DbInv(e) /\ e.orders = db.orders /\ ~e.aborted
      /\ x = -y => \A t \in Assets : Surplus(e, t) = Surplus(db, t)
  BY <1>3, <1>7, UpdatedEffect
<1>10. OrdersFrom(db, e)
  BY <1>9 DEF OrdersFrom
<1>11. StateInv(NoTask, e)
  BY <1>2, <1>8, <1>9, <1>10, StillSettled
<1> QED  BY <1>2, <1>5, <1>9, <1>11, NoLoops, RunInv

\* A new order o, which holds x of asset s.
Booked(d, e, o, s, x) ==
  /\ o \in Orders /\ OrderInv(o) /\ o.id = d.next_id /\ o.collateral >= 0
  /\ s = (IF IsLimit(o) THEN o.price.base ELSE o.price.quote)
  /\ x = (IF IsLimit(o) THEN o.for_sale ELSE o.collateral)
  /\ d.balance[o.seller][s] >= x
  /\ e = [CoreInOrders(Adjust(d, o.seller, s, -x), o.seller, s, x) EXCEPT
            !.orders = @ \cup {o}, !.next_id = @ + 1]

LEMMA BookedEffect ==
  ASSUME NEW d, DbInv(d), ~d.aborted, NEW e, NEW o, NEW s, NEW x, Booked(d, e, o, s, x)
  PROVE  /\ DbInv(e) /\ e.orders = d.orders \cup {o} /\ ~e.aborted
         /\ \A t \in Assets : Surplus(e, t) = Surplus(d, t)
<1> DEFINE a == o.seller
           d1 == Adjust(d, a, s, -x)
           d2 == CoreInOrders(d1, a, s, x)
           O == d2.orders \cup {o}
           n == d2.next_id + 1
           f == [t \in Assets |-> Locked(o, t)]
           g == [b \in Accounts |-> At1(a, b, Locked(o, Core))]
<1>1. /\ DbType(d) /\ Solvent(d) /\ o \in Orders /\ OrderInv(o) /\ o.id = d.next_id /\ a \in Accounts
      /\ d.balance \in [Accounts -> [Assets -> Int]]
  BY DEF DbInv, Booked, DbType, Dbs, Orders
<1>2. s \in Assets /\ x \in Int /\ \A t : At1(s, t, x) = Locked(o, t)
  <2>1. ~IsLimit(o) => o.price.quote = Backing
    BY <1>1 DEF OrderInv
  <2>2. /\ s = (IF IsLimit(o) THEN o.price.base ELSE o.price.quote)
        /\ x = (IF IsLimit(o) THEN o.for_sale ELSE o.collateral)
    BY DEF Booked
  <2> QED  BY <1>1, <2>1, <2>2, OrderAsset
<1>3. /\ DbType(d1) /\ Untouched(d, d1) /\ d1.aborted = d.aborted /\ d1.orders = d.orders
      /\ \A t \in Assets : Surplus(d1, t) = Surplus(d, t) + At1(s, t, -x)
      /\ \A b \in Accounts : CoreGap(d1, b) = CoreGap(d, b)
      /\ DebtGap(d1) = DebtGap(d) /\ Solvent(d1)
  <2>1. -x \in Int /\ d.balance[a][s] + (-x) >= 0
    BY <1>1, <1>2 DEF Booked
  <2> HIDE DEF d1
  <2>2. d1 = Adjust(d, a, s, -x)
    BY DEF d1
  <2> QED  BY <1>1, <1>2, <2>1, <2>2, AdjustEffect
<1> HIDE DEF d1
<1>4. /\ DbType(d2) /\ Untouched(d1, d2) /\ d2.aborted = d1.aborted /\ d2.orders = d1.orders
      /\ \A t \in Assets : Surplus(d2, t) = Surplus(d1, t)
      /\ \A b \in Accounts : CoreGap(d2, b) = CoreGap(d1, b) + At1(a, b, At1(Core, s, x))
      /\ DebtGap(d2) = DebtGap(d1) /\ Solvent(d2)
  <2> HIDE DEF d2
  <2>1. d2 = CoreInOrders(d1, a, s, x)
    BY DEF d2
  <2> QED  BY <1>1, <1>2, <1>3, <2>1, CoreInOrdersEffect
<1>5. e = [d2 EXCEPT !.orders = O, !.next_id = n]
  BY DEF Booked, d1
<1> HIDE DEF d2
<1>6. d2.next_id = d.next_id /\ d2.orders = d.orders
  BY <1>3, <1>4 DEF Untouched
<1>7. /\ O = d.orders \cup {o} /\ n \in Nat /\ n = d.next_id + 1 /\ O \subseteq Orders /\ IsFiniteSet(O)
      /\ Identified(O, n) /\ (\A y \in O : OrderInv(y)) /\ o \notin d.orders
  <2>1. /\ d.orders \subseteq Orders /\ IsFiniteSet(d.orders) /\ d.next_id \in Nat \ {0}
        /\ \A y \in d.orders : OrderInv(y) /\ y.id < d.next_id /\ y.id \in Nat
        /\ \A y, z \in d.orders : y.id = z.id => y = z
    BY <1>1, OrderFacts
  <2>2. O = d.orders \cup {o} /\ n = d.next_id + 1 /\ n \in Nat
    BY <1>6, <2>1
  <2> HIDE DEF O, n
  <2>3. o \notin d.orders
    BY <1>1, <2>1
  <2>4. Identified(O, n) /\ O \subseteq Orders /\ \A y \in O : OrderInv(y)
    BY <1>1, <2>1, <2>2 DEF Identified
  <2>5. IsFiniteSet(O)
    BY <2>1, <2>2, FS_AddElement
  <2> QED  BY <2>2, <2>3, <2>4, <2>5
<1>8. Rebooks(d2, e, O, n, f, g)
  <2>1. f \in [Assets -> Int] /\ g \in [Accounts -> Int]
    <3>1. \A t : Locked(o, t) \in Int
      BY <1>2 DEF At1
    <3> QED  BY <3>1 DEF At1
  <2>2. d.orders \subseteq Orders /\ IsFiniteSet(d.orders)
    BY <1>1, OrderFacts
  <2>3. ASSUME NEW t \in Assets PROVE Sum(LockedOf(t), O) = Sum(LockedOf(t), d2.orders) + f[t]
    <3>1. (\A y \in d.orders : LockedOf(t)[y] \in Int) /\ LockedOf(t)[o] \in Int /\ LockedOf(t)[o] = f[t]
      BY <1>1, <2>2, Terms
    <3> HIDE DEF O, f
    <3> QED  BY <1>6, <1>7, <2>2, <3>1, SumInsert
  <2>4. ASSUME NEW b \in Accounts PROVE Sum(OwnLocked(b), O) = Sum(OwnLocked(b), d2.orders) + g[b]
    <3>1. (\A y \in d.orders : OwnLocked(b)[y] \in Int) /\ OwnLocked(b)[o] \in Int
      BY <1>1, <2>2, Terms
    <3>2. OwnLocked(b)[o] = g[b]
      BY <1>1, Terms DEF At1
    <3> HIDE DEF O, g
    <3> QED  BY <1>6, <1>7, <2>2, <3>1, <3>2, SumInsert
  <2>5. n >= d2.next_id /\ d2.next_id \in Nat
    BY <1>4, OrderFacts
  <2> HIDE DEF O, n, f, g
  <2>6. \A t \in Assets : Sum(LockedOf(t), O) = Sum(LockedOf(t), d2.orders) + f[t]
    BY <2>3
  <2>7. \A b \in Accounts : Sum(OwnLocked(b), O) = Sum(OwnLocked(b), d2.orders) + g[b]
    BY <2>4
  <2> QED  BY <1>5, <1>7, <2>1, <2>5, <2>6, <2>7 DEF Rebooks
<1>9. \A y \in O : y.collateral >= 0
  BY <1>1, <1>7 DEF Booked, Solvent
<1>10. /\ \A t \in Assets : f[t] = At1(s, t, x)
       /\ \A b \in Accounts : g[b] = At1(a, b, At1(s, Core, x))
  BY <1>2
<1>11. e.aborted = d2.aborted
  <2>1. d2 \in Dbs
    BY <1>4 DEF DbType
  <2> HIDE DEF O, n
  <2> QED  BY <1>5, <2>1 DEF Dbs
<1> HIDE DEF O, n, f, g
<1>12. /\ DbType(e) /\ e.orders = O /\ DebtGap(e) = DebtGap(d2) /\ Solvent(e)
       /\ \A t \in Assets : Surplus(e, t) = Surplus(d2, t) + f[t]
       /\ \A b \in Accounts : CoreGap(e, b) = CoreGap(d2, b) - g[b]
  BY <1>4, <1>8, <1>9, OrdersEffect
<1>13. \A b \in Accounts : CoreGap(e, b) = CoreGap(d, b)
  <2>1. ASSUME NEW b \in Accounts PROVE CoreGap(e, b) = CoreGap(d, b)
    <3>1. /\ CoreGap(d, b) \in Int /\ CoreGap(d1, b) = CoreGap(d, b)
          /\ CoreGap(d2, b) = CoreGap(d1, b) + At1(a, b, At1(Core, s, x))
          /\ CoreGap(e, b) = CoreGap(d2, b) - At1(a, b, At1(s, Core, x))
      BY <1>1, <1>3, <1>4, <1>10, <1>12, GapTypes
    <3>2. At1(Core, s, x) = At1(s, Core, x) /\ At1(a, b, At1(Core, s, x)) \in Int
      BY <1>2 DEF At1
    <3> QED  BY <3>1, <3>2
  <2> QED  BY <2>1
<1>14. \A t \in Assets : Surplus(e, t) = Surplus(d, t)
  <2>1. ASSUME NEW t \in Assets PROVE Surplus(e, t) = Surplus(d, t)
    <3>1. /\ Surplus(d, t) \in Int /\ Surplus(d1, t) = Surplus(d, t) + At1(s, t, -x)
          /\ Surplus(d2, t) = Surplus(d1, t) /\ Surplus(e, t) = Surplus(d2, t) + At1(s, t, x)
      BY <1>1, <1>3, <1>4, <1>10, <1>12, GapTypes
    <3>2. At1(s, t, x) \in Int /\ At1(s, t, -x) = -At1(s, t, x)
      BY <1>2 DEF At1
    <3> QED  BY <3>1, <3>2
  <2> QED  BY <2>1
<1>15. DbInv(e)
  BY <1>3, <1>4, <1>12, <1>13 DEF DbInv
<1> QED  BY <1>3, <1>4, <1>7, <1>11, <1>12, <1>14, <1>15

LEMMA CreateInv ==
  ASSUME MarketInv, Idle, NEW e, NEW o, NEW s, NEW x, Booked(db, e, o, s, x),
         OffersInRange /\ IsLimit(o) => o.price.b <= MaxShare * o.price.q,
         NEW w \in Seq(Loops \ SettlingLoops), w # <<>>, Within("match", w), ~Within("settle", w),
         NEW p \in Prices, NEW k \in BOOLEAN,
         db' = e, task' = Begun(w, o.id, p, k), feed' = feed, saved' = db
  PROVE  MarketInv'
<1> DEFINE t == Begun(w, o.id, p, k)
<1>1. Settled(FALSE, db) /\ DbInv(db) /\ ~db.aborted
  BY IdleInv
<1>2. /\ DbInv(e) /\ e.orders = db.orders \cup {o} /\ ~e.aborted
      /\ \A a \in Assets : Surplus(e, a) = Surplus(db, a)
  BY <1>1, BookedEffect
<1>3. w \in Seq(Loops) /\ TodoInv(w) /\ Head(w) \notin SettlingLoops /\ o.id \in Nat
  BY PlainTodo DEF Booked, Orders
<1>4. /\ TaskInv(t, e) /\ t.order = o.id /\ t.undefined = FALSE /\ ~SettlingNow(t) /\ Has(t, "match")
  <2> HIDE DEF t
  <2> DEFINE i == o.id
  <2>1. t = Begun(w, i, p, k) /\ i \in Nat
    BY <1>3 DEF t
  <2>2. ~(Within("settle", w) /\ Within("match", w)) /\ (i = None \/ ~Within("settle", w))
    OBVIOUS
  <2> HIDE DEF i
  <2>3. /\ TaskInv(t, e) /\ t.order = i /\ t.undefined = FALSE /\ ~SettlingNow(t)
        /\ \A l : Has(t, l) <=> Within(l, w)
    <3>1. Begins(t, w, i, p, k)
      BY <1>3, <2>1, <2>2 DEF Begins
    <3> QED  BY <3>1, NewTask
  <2> QED  BY <2>3 DEF i
<1> HIDE DEF t
<1>5. NoWithdrawals => Balanced(t, e)
  <2>1. NoWithdrawals => \A a \in Assets : Surplus(db, a) = 0
    BY <1>1 DEF Settled
  <2>2. \A a \in Assets : Missing(t, e, a) = 0
    BY <1>4 DEF Missing
  <2>3. NoWithdrawals => \A a \in Assets : Surplus(e, a) = 0
    BY <1>2, <2>1
  <2> QED  BY <2>2, <2>3 DEF Balanced
<1>6. ASSUME OffersInRange PROVE Uncrossed(t, e)
  <2>1. Uncrossed(NoTask, db)
    BY <1>1, <1>6 DEF Settled
  <2>2. ~Has(NoTask, "match")
    BY NullTask DEF Has, Within
  <2>3. \A y, z \in db.orders : ~Takes(y, z)
    BY <2>1, <2>2 DEF Uncrossed
  <2>4. \A y \in e.orders : IsLimit(y) => y.price.b <= MaxShare * y.price.q
    BY <1>2, <1>6, <2>1 DEF Uncrossed
  <2>5. \A y, z \in e.orders : Takes(y, z) => t.order \in {y.id, z.id}
    BY <1>2, <1>4, <2>3
  <2> QED  BY <1>4, <2>4, <2>5 DEF Uncrossed
<1>7. StateInv(t, e)
  BY <1>2, <1>4, <1>5, <1>6 DEF StateInv
<1> QED  BY <1>7, BeginInv DEF t

LEMMA ConcatTodo ==
  ASSUME NEW L, NEW s \in Seq(L), NEW v \in Seq(L)
  PROVE  s \o v \in Seq(L) /\ \A k : Within(k, s \o v) <=> Within(k, s) \/ Within(k, v)
<1> DEFINE w == s \o v
<1>1. /\ w \in Seq(L) /\ Len(w) = Len(s) + Len(v) /\ Len(s) \in Nat /\ Len(v) \in Nat
      /\ DOMAIN w = 1..(Len(s) + Len(v)) /\ DOMAIN s = 1..Len(s) /\ DOMAIN v = 1..Len(v)
      /\ \A i \in 1..(Len(s) + Len(v)) : w[i] = IF i <= Len(s) THEN s[i] ELSE v[i - Len(s)]
  OBVIOUS
<1> HIDE DEF w
<1>2. ASSUME NEW k, Within(k, w) PROVE Within(k, s) \/ Within(k, v)
  <2>1. PICK i \in DOMAIN w : w[i] = k
    BY <1>2 DEF Within
  <2>2. CASE i <= Len(s)
    BY <1>1, <2>1, <2>2 DEF Within
  <2>3. CASE ~(i <= Len(s))
    <3>1. i - Len(s) \in DOMAIN v /\ v[i - Len(s)] = k
      BY <1>1, <2>1, <2>3
    <3> QED  BY <3>1 DEF Within
  <2> QED  BY <2>2, <2>3
<1>3. ASSUME NEW k, Within(k, s) PROVE Within(k, w)
  <2>1. PICK i \in DOMAIN s : s[i] = k
    BY <1>3 DEF Within
  <2>2. i \in DOMAIN w /\ w[i] = k
    BY <1>1, <2>1
  <2> QED  BY <2>2 DEF Within
<1>4. ASSUME NEW k, Within(k, v) PROVE Within(k, w)
  <2>1. PICK i \in DOMAIN v : v[i] = k
    BY <1>4 DEF Within
  <2>2. i + Len(s) \in DOMAIN w /\ w[i + Len(s)] = k
    BY <1>1, <2>1
  <2> QED  BY <2>2 DEF Within
<1> QED  BY <1>1, <1>2, <1>3, <1>4 DEF w

LEMMA Singles ==
  ASSUME NEW L, NEW l \in L, NEW m \in L
  PROVE  <<>> \in Seq(L) /\ <<l>> \in Seq(L) /\ <<l, m>> \in Seq(L)
OBVIOUS

LEMMA LimitTodo ==
  ASSUME NEW p, NEW w, w = Checks(p) \o <<"return_if_called", "match">> \o Checks(p) \o <<"kill">>
  PROVE  w \in Seq(Loops \ SettlingLoops) /\ w # <<>> /\ Within("match", w) /\ ~Within("settle", w)
<1> DEFINE L == Loops \ SettlingLoops
           c == Checks(p)
           r == <<"return_if_called", "match">>
           k == <<"kill">>
<1>1. "calls" \in L /\ "return_if_called" \in L /\ "match" \in L /\ "kill" \in L
  BY DEF Loops, SettlingLoops, GatheringLoops
<1>2. c \in {<<"calls">>, <<>>}
  BY DEF Checks
<1>3. /\ \A l : Within(l, r) <=> l \in {"return_if_called", "match"}
      /\ \A l : Within(l, k) <=> l = "kill"
  BY DEF Within
<1>4. \A l : Within(l, c) => l = "calls"
  BY <1>2 DEF Within
<1> HIDE DEF L
<1>5. c \in Seq(L) /\ r \in Seq(L) /\ k \in Seq(L)
  BY <1>1, <1>2, Singles
<1> DEFINE u == c \o r
           v == u \o c
<1>6. w = v \o k
  OBVIOUS
<1> HIDE DEF c, r, k
<1>7. u \in Seq(L) /\ \A l : Within(l, u) <=> Within(l, c) \/ Within(l, r)
  BY <1>5, ConcatTodo
<1> HIDE DEF u
<1>8. v \in Seq(L) /\ \A l : Within(l, v) <=> Within(l, u) \/ Within(l, c)
  BY <1>5, <1>7, ConcatTodo
<1> HIDE DEF v
<1>9. w \in Seq(L) /\ \A l : Within(l, w) <=> Within(l, v) \/ Within(l, k)
  <2>1. v \o k \in Seq(L) /\ \A l : Within(l, v \o k) <=> Within(l, v) \/ Within(l, k)
    BY <1>5, <1>8, ConcatTodo
  <2> QED  BY ONLY <1>6, <2>1, Zenon
<1>10. Within("match", w) /\ ~Within("settle", w)
  <2>1. Within("match", r) /\ ~Within("settle", r) /\ ~Within("settle", k) /\ ~Within("settle", c)
    BY <1>3, <1>4
  <2>2. \A l : Within(l, w) <=> Within(l, c) \/ Within(l, r) \/ Within(l, k)
    BY ONLY <1>7, <1>8, <1>9, Zenon
  <2> QED  BY ONLY <2>1, <2>2, Zenon
<1>11. w # <<>>
  BY <1>10 DEF Within
<1> QED  BY <1>9, <1>10, <1>11 DEF L

LEMMA LimitOpInv ==
  ASSUME MarketInv, NEW a \in Accounts, NEW r \in Offers, limit_order_create(a, r)
  PROVE  MarketInv'
<1> DEFINE p == Price(r.amount, r.sell, r.min, r.receive)
           o == Order("limit", a, r.amount, p, 0, 0)
           w == Checks(o.price) \o <<"return_if_called", "match">> \o Checks(o.price) \o <<"kill">>
           e == [CoreInOrders(Adjust(db, a, r.sell, -r.amount), a, r.sell, r.amount) EXCEPT
                  !.orders = @ \cup {o}, !.next_id = @ + 1]
<1>1. /\ Idle /\ r.sell # r.receive /\ r.amount > 0 /\ r.min > 0 /\ db.balance[a][r.sell] >= r.amount
      /\ db' = e /\ saved' = db /\ feed' = feed
      /\ task' = [NoTask EXCEPT !.todo = w, !.order = o.id, !.price = o.price, !.fill_or_kill = r.fill_or_kill]
  BY DEF limit_order_create
<1>2. r.sell \in Assets /\ r.receive \in Assets /\ r.amount \in Nat /\ r.min \in Nat /\ r.fill_or_kill \in BOOLEAN
  BY OperationsAssumption
<1>3. DbType(db) /\ db.next_id \in Nat \ {0}
  BY <1>1, IdleInv, OrderFacts
<1>4. p \in Prices /\ p.base = r.sell /\ p.quote = r.receive /\ p.b = r.amount /\ p.q = r.min
  BY <1>2 DEF Prices, Price
<1> HIDE DEF p
<1>5. /\ o \in Orders /\ o.id = db.next_id /\ o.kind = "limit" /\ o.seller = a /\ o.for_sale = r.amount
      /\ o.price = p /\ o.collateral = 0
  BY <1>2, <1>3, <1>4 DEF Order, Orders
<1>6. task' = Begun(w, o.id, o.price, r.fill_or_kill)
  <2> DEFINE t == task'
             i == o.id
             q == o.price
             k == r.fill_or_kill
  <2>1. t = [NoTask EXCEPT !.todo = w, !.order = i, !.price = q, !.fill_or_kill = k]
    BY <1>1
  <2> HIDE DEF t, i, q, k, w
  <2>2. t = Begun(w, i, q, k)
    BY ONLY <2>1 DEF NoTask, Begun
  <2> QED  BY <2>2 DEF t, i, q, k
<1>7. /\ w \in Seq(Loops \ SettlingLoops) /\ w # <<>> /\ Within("match", w) /\ ~Within("settle", w)
  BY LimitTodo
<1>8. e = [CoreInOrders(Adjust(db, o.seller, r.sell, -r.amount), o.seller, r.sell, r.amount) EXCEPT
                  !.orders = @ \cup {o}, !.next_id = @ + 1]
  BY <1>5
<1> HIDE DEF o, w, e
<1>9. OrderInv(o)
  <2>1. ForSale(o) = (r.amount * r.min) \div r.amount
    BY <1>4, <1>5 DEF ForSale, Times
  <2>2. r.min * r.amount <= r.amount * r.min /\ r.amount * r.min \in Int
    BY <1>2, Regroup
  <2>3. r.min <= (r.amount * r.min) \div r.amount /\ (r.amount * r.min) \div r.amount \in Int
    BY <1>1, <1>2, <2>2, FloorBounds, Floor
  <2>4. ForSale(o) > 0
    BY <1>1, <1>2, <2>1, <2>3
  <2> QED  BY <1>1, <1>2, <1>3, <1>4, <1>5, <2>4 DEF OrderInv, IsLimit
<1>10. Booked(db, e, o, r.sell, r.amount)
  BY <1>1, <1>4, <1>5, <1>8, <1>9 DEF Booked, IsLimit
<1>11. OffersInRange => o.price.b <= MaxShare * o.price.q
  BY <1>4, <1>5 DEF OffersInRange
<1> QED  BY <1>1, <1>2, <1>4, <1>5, <1>6, <1>7, <1>10, <1>11, CreateInv

LEMMA ShortOpInv ==
  ASSUME MarketInv, PricedShorts, NEW a \in Accounts, NEW r \in ShortOffers, short_order_create(a, r)
  PROVE  MarketInv'
<1> DEFINE p == Inv(CallPrice(r.amount, r.collateral, r.initial))
           o == Order("short", a, r.amount, p, r.collateral, r.maintenance)
           w == <<"calls", "return_if_gone", "match", "calls">>
           e == [CoreInOrders(Adjust(db, a, Backing, -r.collateral), a, Backing, r.collateral) EXCEPT
                  !.orders = @ \cup {o}, !.next_id = @ + 1]
<1>1. Idle /\ db.balance[a][Backing] >= r.collateral /\ Run(e, w, o.id)
  BY DEF short_order_create
<1>2. /\ r.amount \in Nat \ {0} /\ r.collateral \in Nat /\ r.initial \in Nat /\ r.maintenance \in Nat
      /\ r.initial >= 1000 /\ r.maintenance >= 1000
  BY OperationsAssumption DEF PricedShorts
<1>3. DbType(db) /\ db.next_id \in Nat \ {0}
  BY <1>1, IdleInv, OrderFacts
<1>4. p \in Prices /\ p.base = Mia /\ p.quote = Backing /\ p.b = r.amount /\ p.q >= 0
  <2> DEFINE m == r.collateral * (r.initial - 1000)
  <2>1. m \in Nat
    <3>1. m \in Int /\ 0 * (r.initial - 1000) <= m
      BY <1>2, Products
    <3> QED  BY <1>2, <3>1
  <2>2. p = [base |-> Mia, b |-> r.amount, quote |-> Backing, q |-> m \div 1000]
    BY DEF CallPrice, Inv, Price
  <2> HIDE DEF m, p
  <2>3. m \div 1000 \in Int /\ m \div 1000 >= 0
    BY <2>1, Floor
  <2> QED  BY <1>2, <2>2, <2>3, MarketAssumption DEF Prices
<1> HIDE DEF p
<1>5. /\ o \in Orders /\ o.id = db.next_id /\ o.kind = "short" /\ o.seller = a /\ o.for_sale = r.amount
      /\ o.price = p /\ o.collateral = r.collateral /\ o.mcr = r.maintenance
  BY <1>2, <1>3, <1>4 DEF Order, Orders
<1>6. /\ w \in Seq(Loops \ SettlingLoops) /\ w # <<>> /\ Within("match", w) /\ ~Within("settle", w)
  BY DEF Loops, SettlingLoops, GatheringLoops, Within
<1>7. e = [CoreInOrders(Adjust(db, o.seller, Backing, -r.collateral), o.seller, Backing, r.collateral) EXCEPT
                  !.orders = @ \cup {o}, !.next_id = @ + 1]
  BY <1>5
<1> HIDE DEF o, w, e
<1>8. db' = e /\ saved' = db /\ feed' = feed /\ task' = Begun(w, o.id, NullPrice, FALSE)
  BY <1>1, <1>6, BegunTask DEF Run
<1>9. OrderInv(o) /\ ~IsLimit(o)
  BY <1>2, <1>3, <1>4, <1>5 DEF OrderInv, IsLimit
<1>10. Booked(db, e, o, Backing, r.collateral)
  BY <1>1, <1>2, <1>4, <1>5, <1>7, <1>9 DEF Booked
<1>11. NullPrice \in Prices /\ FALSE \in BOOLEAN
  BY NullTask
<1> QED  BY <1>1, <1>6, <1>8, <1>9, <1>10, <1>11, CreateInv

----------------------------------------------------------------------------
(* Every state.                                                            *)

LEMMA SumZero ==
  ASSUME NEW f, NEW S, IsFiniteSet(S), \A x \in S : f[x] = 0
  PROVE  Sum(f, S) = 0
<1>1. (\A x \in S : f[x] \in Int /\ f[x] \in Int /\ f[x] = f[x] + f[x]) /\ \A x \in S : f[x] \in Int
  OBVIOUS
<1>2. Sum(f, S) = Sum(f, S) + Sum(f, S)
  BY <1>1, SumPlus
<1>3. Sum(f, S) \in Int
  BY <1>1, SumType
<1>4. \A i \in Int : i = i + i => i = 0
  OBVIOUS
<1> QED  BY ONLY <1>2, <1>3, <1>4, Zenon

LEMMA InitInv ==
  ASSUME Init
  PROVE  MarketInv
<1> DEFINE supply == [s \in Assets |-> Total([a \in Accounts |-> Deposits[a][s]])]
           core == [a \in Accounts |-> 0]
           fees == [s \in Assets |-> 0]
<1>0. /\ IsFiniteSet(Accounts) /\ Mia \in Assets /\ Backing \in Assets /\ Mia # Backing
      /\ Deposits \in [Accounts -> [Assets -> Nat]] /\ \A a \in Accounts : Deposits[a][Mia] = 0
  BY MarketAssumption
<1>1. /\ feed \in Feeds /\ task = NoTask
      /\ db = [balance |-> Deposits, core_in_orders |-> core, supply |-> supply, fees |-> fees,
               orders |-> {}, calls |-> {}, settlements |-> {}, force_settled |-> 0, next_id |-> 1,
               aborted |-> FALSE]
  BY DEF Init
<1>2. \A s \in Assets : /\ supply[s] = Sum(BalanceIn(db, s), Accounts) /\ supply[s] \in Int
                        /\ s = Mia => supply[s] = 0
  <2>1. ASSUME NEW s \in Assets
        PROVE  /\ supply[s] = Sum(BalanceIn(db, s), Accounts) /\ supply[s] \in Int
               /\ s = Mia => supply[s] = 0
    <3> DEFINE e == [a \in Accounts |-> Deposits[a][s]]
    <3>1. supply[s] = Total(e) /\ e = [a \in Accounts |-> e[a]] /\ \A a \in Accounts : e[a] \in Int
      BY <1>0
    <3>2. BalanceIn(db, s) = e
      BY <1>1 DEF BalanceIn
    <3>3. s = Mia => \A a \in Accounts : e[a] = 0
      BY <1>0
    <3> HIDE DEF e, supply
    <3>4. Total(e) = Sum(e, Accounts)
      BY <1>0, <3>1, TotalIs
    <3>5. Sum(e, Accounts) \in Int
      BY <1>0, <3>1, SumType
    <3>6. s = Mia => Sum(e, Accounts) = 0
      BY <1>0, <3>3, SumZero
    <3> QED  BY <3>1, <3>2, <3>4, <3>5, <3>6
  <2> QED  BY <2>1
<1>3. /\ supply \in [Assets -> Int] /\ core \in [Accounts -> Int] /\ fees \in [Assets -> Int]
      /\ Deposits \in [Accounts -> [Assets -> Int]]
      /\ \A s \in Assets : fees[s] = 0
      /\ \A a \in Accounts : core[a] = 0
  <2>1. supply \in [Assets -> Int]
    BY <1>2
  <2>2. Deposits \in [Accounts -> [Assets -> Int]]
    BY <1>0
  <2> QED  BY <2>1, <2>2
<1> HIDE DEF supply, core, fees
<1>4. /\ db \in Dbs /\ db.balance = Deposits /\ db.core_in_orders = core /\ db.supply = supply /\ db.fees = fees
      /\ db.orders = {} /\ db.calls = {} /\ db.settlements = {} /\ db.next_id = 1
  BY <1>1, <1>3 DEF Dbs
<1>5. IsFiniteSet({})
  BY FS_EmptySet
<1>6. DbType(db)
  BY <1>4, <1>5 DEF DbType, Identified
<1>7. \A f : Sum(f, {}) = 0
  BY SumRecursion, <1>5
<1>8. \A s \in Assets : Surplus(db, s) = 0
  <2>1. ASSUME NEW s \in Assets PROVE Surplus(db, s) = 0
    <3>1. /\ Sum(BalanceIn(db, s), Accounts) = db.supply[s] /\ db.supply[s] \in Int /\ db.fees[s] = 0
      BY <1>2, <1>3, <1>4
    <3>2. /\ Sum(LockedOf(s), db.orders) = 0 /\ CollateralIn(db, s) = 0 /\ SettledIn(db, s) = 0
      BY <1>4, <1>7 DEF CollateralIn, SettledIn
    <3> QED  BY <3>1, <3>2 DEF Surplus, HeldSum
  <2> QED  BY <2>1
<1>9. DebtGap(db) = 0
  <2>1. db.supply[Mia] = 0 /\ DebtSum(db) = 0
    BY <1>0, <1>2, <1>4, <1>7 DEF DebtSum
  <2> QED  BY <2>1 DEF DebtGap
<1>10. \A a \in Accounts : CoreGap(db, a) = 0
  <2>1. ASSUME NEW a \in Accounts PROVE CoreGap(db, a) = 0
    <3>1. db.core_in_orders[a] = 0
      BY <1>3, <1>4
    <3>2. Sum(OwnLocked(a), db.orders) = 0 /\ Sum(OwnCollateral(a), db.calls) = 0
      BY <1>4, <1>7
    <3> QED  BY <3>1, <3>2 DEF CoreGap, CoreSum
  <2> QED  BY <2>1
<1>11. Solvent(db)
  BY <1>0, <1>4 DEF Solvent
<1>12. DbInv(db)
  BY <1>6, <1>9, <1>10, <1>11 DEF DbInv
<1>13. Uncrossed(NoTask, db)
  BY <1>4 DEF Uncrossed
<1>14. Settled(FALSE, db)
  BY <1>8, <1>12, <1>13 DEF Settled
<1>15. StateInv(NoTask, db)
  BY <1>14, SettledInv, NoTaskIs
<1> QED  BY <1>1, <1>15, NullTask DEF MarketInv

LEMMA LoopInv ==
  ASSUME MarketInv, Loop
  PROVE  MarketInv'
BY CallStepInv, ReturnInv, MatchInv, KillInv, SettleCallsInv, CancelInv, SettleBalancesInv, ExpireInv,
   SettleNextInv, SettleInv DEF Loop

LEMMA NextInv ==
  ASSUME PricedShorts, MarketInv, [Next]_vars
  PROVE  MarketInv'
<1>1. ASSUME NEW a \in Accounts, NEW r \in Offers, limit_order_create(a, r) PROVE MarketInv'
  BY <1>1, LimitOpInv
<1>2. ASSUME NEW a \in Accounts, NEW r \in ShortOffers, short_order_create(a, r) PROVE MarketInv'
  BY <1>2, ShortOpInv
<1>3. ASSUME NEW o \in db.orders, order_cancel(o) PROVE MarketInv'
  BY <1>3, CancelOpInv
<1>4. ASSUME NEW a \in Accounts, NEW r \in Updates, call_order_update(a, r.add, r.cover) PROVE MarketInv'
  <2>1. r.add \in Int /\ r.cover \in Int /\ (NoWithdrawals => r.add >= 0)
    BY OperationsAssumption DEF NoWithdrawals
  <2> QED  BY <1>4, <2>1, UpdateOpInv
<1>5. ASSUME NEW c \in db.calls, call_order_update(c.borrower, -c.collateral, c.debt) PROVE MarketInv'
  <2>1. DbType(db)
    BY DEF MarketInv, StateInv, DbInv
  <2>2. c.borrower \in Accounts /\ -c.collateral \in Int /\ c.debt \in Int
        /\ \A k \in db.calls : k.borrower = c.borrower => c.debt = k.debt
    BY <2>1, CallFacts
  <2> QED  BY <1>5, <2>2, UpdateOpInv
<1>6. ASSUME NEW a \in Accounts, NEW x \in Settles, asset_settle(a, x) PROVE MarketInv'
  BY <1>6, SettleOpInv
<1>7. ASSUME NEW f \in Feeds, asset_publish_feed(f) PROVE MarketInv'
  BY <1>7, FeedInv
<1>8. ASSUME NEW p \in SettlePrices, asset_global_settle(p) PROVE MarketInv'
  BY <1>8, GlobalSettleInv
<1>9. CASE clear_expired_orders
  BY <1>9, ExpirationsInv
<1>10. CASE perform_chain_maintenance
  BY <1>10, MaintenanceInv
<1>11. CASE Loop
  BY <1>11, LoopInv
<1>12. CASE Terminated \/ UNCHANGED vars
  <2>1. feed' = feed /\ db' = db /\ task' = task /\ saved' = saved
    BY <1>12 DEF Terminated, vars
  <2>2. StateInv(task, db)' /\ StateInv(NoTask, saved)' = StateInv(NoTask, saved)
    BY <2>1 DEF MarketInv
  <2> QED  BY <2>1, <2>2 DEF MarketInv
<1> QED  BY <1>1, <1>2, <1>3, <1>4, <1>5, <1>6, <1>7, <1>8, <1>9, <1>10, <1>11, <1>12 DEF Next

\* The invariant holds in every state, whatever is traded, called and settled.
THEOREM MarketInvariant ==
  ASSUME PricedShorts
  PROVE  Spec => []MarketInv
<1>1. Init => MarketInv
  BY InitInv
<1>2. MarketInv /\ [Next]_vars => MarketInv'
  BY NextInv
<1> QED  BY <1>1, <1>2, PTL DEF Spec

\* Every unit of the market-issued asset in circulation is owed by a call order:
\* the supply that fill_order changes for shorts, calls and settlements, in
\* every order and through every refund, stays the sum of the debts, even in
\* the middle of a loop and when an update of a call order takes collateral.
THEOREM DebtBacked ==
  ASSUME PricedShorts
  PROVE  Spec => []DebtBacksSupply
<1>1. MarketInv => DebtBacksSupply
  <2> SUFFICES ASSUME MarketInv PROVE DebtBacksSupply
    OBVIOUS
  <2>1. DbType(db) /\ DebtGap(db) = 0
    BY DEF MarketInv, StateInv, DbInv
  <2>2. /\ Total([c \in db.calls |-> c.debt]) = DebtSum(db) /\ DebtSum(db) \in Int
        /\ db.supply[Mia] \in Int
    BY <2>1, SumsAre, MarketAssumption
  <2> QED  BY <2>1, <2>2 DEF DebtGap, DebtBacksSupply
<1> QED  BY <1>1, MarketInvariant, PTL

\* When the market-issued asset is backed by the core asset, total_core_in_orders
\* of every account, which adjust_core_in_orders and the fills change, is
\* the core in its orders and its call order.
THEOREM CoreInOrdersKept ==
  ASSUME PricedShorts, Backing = Core
  PROVE  Spec => []CoreAccounted
<1>1. MarketInv => CoreAccounted
  <2> SUFFICES ASSUME MarketInv, NEW a \in Accounts PROVE db.core_in_orders[a] = CoreOf(a, db)
    BY DEF CoreAccounted
  <2>1. DbType(db) /\ CoreGap(db, a) = 0
    BY DEF MarketInv, StateInv, DbInv
  <2>2. /\ CoreOf(a, db) = CoreSum(a, db) /\ db.core_in_orders[a] \in Int
        /\ Sum(OwnLocked(a), db.orders) \in Int /\ Sum(OwnCollateral(a), db.calls) \in Int
    BY <2>1, SumsAre
  <2> QED  BY <2>1, <2>2 DEF CoreGap, CoreSum
<1> QED  BY <1>1, MarketInvariant, PTL

\* No asset is created or lost, and no balance is negative, through every fill,
\* rounding, fee, refund, call, force settlement and global settlement, as long
\* as no update of a call order takes collateral out (which the code does not
\* pay out: MCMarketWithdraw).
THEOREM AssetsConserved ==
  ASSUME PricedShorts, NoWithdrawals
  PROVE  Spec => []Conserved
<1>1. MarketInv => Conserved
  <2> SUFFICES ASSUME MarketInv, ~db.aborted PROVE Conserved
    BY DEF Conserved
  <2>1. DbType(db) /\ Solvent(db) /\ Balanced(task, db) /\ task \in Tasks
    BY DEF MarketInv, StateInv, DbInv, TaskInv
  <2>2. Settling <=> SettlingNow(task)
    BY DEF Settling, SettlingNow, SettlingLoops, GatheringLoops
  <2>3. ASSUME NEW s \in Assets, ~(s = Mia /\ Settling) PROVE Held(db, s) + Gathered(s) = db.supply[s]
    <3>1. Held(db, s) = HeldSum(db, s) /\ HeldSum(db, s) \in Int /\ db.supply[s] \in Int
      BY <2>1, SumsAre, GapTypes
    <3>2. Missing(task, db, s) = Gathered(s) /\ Gathered(s) \in Int
      BY <2>1, <2>2, <2>3 DEF Missing, Gathered, Tasks
    <3>3. Surplus(db, s) + Missing(task, db, s) = 0
      BY <2>1 DEF Balanced
    <3> QED  BY <3>1, <3>2, <3>3 DEF Surplus
  <2> QED  BY <2>1, <2>3 DEF Conserved, Solvent
<1> QED  BY <1>1, MarketInvariant, PTL

\* Between operations no bid is left beside an ask that would take it: the loop
\* of a new order ends only when the book has no more orders for it, and no fill,
\* call, cancellation or expiration uncovers a pair.
THEOREM BookMatched ==
  ASSUME PricedShorts, OffersInRange
  PROVE  Spec => []Matched
<1>1. MarketInv => Matched
  <2> SUFFICES ASSUME MarketInv, Idle, NEW o \in db.orders, NEW y \in db.orders, IsLimit(o),
                      y \in InRange(db, Inv(o.price))
               PROVE  FALSE
    BY DEF Matched
  <2>1. Settled(FALSE, db) /\ ~db.aborted /\ DbType(db)
    BY IdleInv
  <2>2. Uncrossed(NoTask, db) /\ ~Has(NoTask, "match")
    BY <2>1, NullTask DEF Settled, Has, Within
  <2>3. o.price \in Prices
    BY <2>1, OrderFacts DEF Orders
  <2>4. Inv(o.price).base = o.price.quote /\ Inv(o.price).quote = o.price.base
    BY <2>3, InverseFacts
  <2>5. Takes(o, y)
    BY <2>4 DEF InRange, Takes
  <2> QED  BY <2>2, <2>5 DEF Uncrossed
<1> QED  BY <1>1, MarketInvariant, PTL

LEMMA FilledPrice ==
  ASSUME MarketInv, [Next]_vars, NEW f \in applied', NEW o \in db.orders, f.order = o.id
  PROVE  f.receives >= Times(f.pays, o.price.base, o.price) \/ vars' = vars
<1>1. CASE MatchStep
  <2> DEFINE x == Find(db.orders, task.order)
             p == IF OwnOrderGone THEN task.price ELSE x.price
             book == {y \in InRange(db, Inv(p)) : IsLimit(y) \/ p.quote = Mia}
             y == First(book, BookBefore)
             bid == IF IsLimit(x) THEN x ELSE y
             ask == IF IsLimit(x) THEN y ELSE x
             X == XPays(bid, ask, y.price)
             Y == YPays(bid, ask, y.price)
  <2>1. DbType(db)
    BY DEF MarketInv, StateInv, DbInv
  <2>2. book # {} /\ ~OwnOrderGone /\ applied' = {Fill(bid, X, Y), Fill(ask, Y, X)}
    BY <1>1 DEF MatchStep, Step
  <2>3. Pairs(x, book, y, bid, ask)
    BY <2>2 DEF Pairs
  <2> HIDE DEF book, x, y, bid, ask, X, Y, p
  <2>4. Meets(db, bid, ask, y.price) /\ bid \in db.orders /\ ask \in db.orders
    BY <2>1, <2>3, MatchMeets DEF Meets
  <2>5. Times(X, bid.price.base, bid.price) <= Y /\ Times(Y, ask.price.base, ask.price) <= X
        /\ X \in Nat /\ Y \in Nat
    BY <2>4, MatchPays DEF X, Y
  <2>6. \A w, z \in db.orders : w.id = z.id => w = z
    BY <2>1, OrderFacts
  <2>7. CASE f = Fill(bid, X, Y)
    <3>1. f.order = bid.id /\ f.pays = X /\ f.receives = Y
      BY <2>7 DEF Fill
    <3>2. o = bid
      BY <2>4, <2>6, <3>1
    <3> QED  BY <2>5, <3>1, <3>2
  <2>8. CASE f = Fill(ask, Y, X)
    <3>1. f.order = ask.id /\ f.pays = Y /\ f.receives = X
      BY <2>8 DEF Fill
    <3>2. o = ask
      BY <2>4, <2>6, <3>1
    <3> QED  BY <2>5, <3>1, <3>2
  <2> QED  BY <2>2, <2>7, <2>8
<1>2. CASE CallStep
  <2> DEFINE c == CurrentCall
             y == First(CallsRange, BookBefore)
             pays == Min({c.debt, y.for_sale})
             receives == Times(pays, Mia, y.price)
  <2>1. DbType(db) /\ At("calls")
    BY <1>2 DEF MarketInv, StateInv, DbInv, CallStep
  <2>2. ~NothingToCall /\ applied' = {Fill(y, pays, receives)}
    BY <1>2 DEF CallStep, Step, Throw
  <2>3. /\ c.debt \in Nat \ {0} /\ y \in db.orders /\ y.price \in Prices /\ MiaPrice(y.price)
        /\ y.price.b > 0 /\ y.for_sale \in Nat \ {0}
    BY <2>1, <2>2, CalledPair
  <2> HIDE DEF c, y
  <2>4. pays \in Nat
    <3> DEFINE u == c.debt
               v == y.for_sale
    <3>1. u \in Nat /\ v \in Nat
      BY <2>3
    <3> HIDE DEF u, v
    <3>2. Min({u, v}) \in {u, v}
      BY <3>1, Least2
    <3> QED  BY <3>1, <3>2 DEF u, v
  <2> HIDE DEF pays
  <2>5. receives \in Nat
    BY <2>3, <2>4, MiaTimes
  <2>6. f.order = y.id /\ f.pays = pays /\ f.receives = receives
    BY <2>2 DEF Fill
  <2>7. o = y
    BY <2>1, <2>3, <2>6, OrderFacts
  <2>8. Times(f.pays, o.price.base, o.price) = receives
    BY <2>3, <2>6, <2>7 DEF MiaPrice
  <2> HIDE DEF receives
  <2> QED  BY <2>5, <2>6, <2>8
<1>3. ASSUME ~MatchStep, ~CallStep, ~(UNCHANGED vars) PROVE applied' = {}
  <2>1. CASE Loop
    <3>1. (\A d, t : Step(d, t, {}) => applied' = {}) /\ (Throw => applied' = {})
      BY DEF Step, Throw
    <3>2. CASE ReturnStep \/ KillStep \/ ExpireStep
      BY <3>1, <3>2 DEF ReturnStep, KillStep, ExpireStep
    <3>3. CASE SettleCallsStep \/ CancelStep \/ CancelAgainStep \/ SettleBalancesStep
      BY <3>1, <3>3 DEF SettleCallsStep, CancelStep, CancelAgainStep, SettleBalancesStep
    <3>4. CASE SettleNextStep
      BY <3>1, <3>4 DEF SettleNextStep
    <3>5. CASE SettleStep
      BY <3>1, <3>5 DEF SettleStep
    <3> QED  BY <1>3, <2>1, <3>2, <3>3, <3>4, <3>5 DEF Loop
  <2>2. CASE ~Loop
    <3>1. \A d, s, i : Run(d, s, i) => applied' = {}
      BY DEF Run
    <3>2. \A a, r : limit_order_create(a, r) => applied' = {}
      BY DEF limit_order_create
    <3>3. \A a, r : short_order_create(a, r) => applied' = {}
      BY <3>1 DEF short_order_create
    <3>4. \A o1 : order_cancel(o1) => applied' = {}
      BY <3>1 DEF order_cancel
    <3>5. \A a, x, y : call_order_update(a, x, y) => applied' = {}
      <4>1. SUFFICES ASSUME NEW a, NEW x, NEW y, call_order_update(a, x, y) PROVE \E d, s, i : Run(d, s, i)
        BY <3>1
      <4> QED  BY <4>1 DEF call_order_update
    <3>6. \A a, x : asset_settle(a, x) => applied' = {}
      BY <3>1 DEF asset_settle
    <3>7. (\A g : asset_publish_feed(g) => applied' = {}) /\ (\A p : asset_global_settle(p) => applied' = {})
      BY DEF asset_publish_feed, asset_global_settle
    <3>8. clear_expired_orders \/ perform_chain_maintenance => applied' = {}
      BY <3>1 DEF clear_expired_orders, perform_chain_maintenance
    <3> QED  BY <1>3, <2>2, <3>2, <3>3, <3>4, <3>5, <3>6, <3>7, <3>8 DEF Next, Terminated
  <2> QED  BY <2>1, <2>2
<1> QED  BY <1>1, <1>2, <1>3

\* A fill never gives an order less than its own price asks for what it pays:
\* a match is made at the older order's price, which is no worse for the newer
\* one, and a call pays what the order of the book asks.
THEOREM PricesHonoured ==
  ASSUME PricedShorts
  PROVE  Spec => PriceHonoured
<1>1. MarketInv /\ [Next]_vars =>
        [\A f \in applied' : \A o \in db.orders : f.order = o.id =>
           f.receives >= Times(f.pays, o.price.base, o.price)]_vars
  <2> SUFFICES ASSUME MarketInv, [Next]_vars, vars' # vars,
                      NEW f \in applied', NEW o \in db.orders, f.order = o.id
               PROVE  f.receives >= Times(f.pays, o.price.base, o.price)
    OBVIOUS
  <2> QED  BY FilledPrice
<1> QED  BY <1>1, MarketInvariant, PTL DEF Spec, PriceHonoured
=============================================================================
