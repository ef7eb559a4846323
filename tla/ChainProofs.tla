---------------------------- MODULE ChainProofs ----------------------------
(***************************************************************************)
(* What is proved of the chain database for every tree of blocks.          *)
(***************************************************************************)
EXTENDS ChainProperties, ProofLibrary

----------------------------------------------------------------------------
(* Recursion along the previous blocks.                                    *)

\* f[b] is base at the genesis and step at the value of the previous block
\* elsewhere, on a set of blocks that goes back to the genesis.
Back(S) == Genesis \in S /\ S \subseteq Ids /\ \A b \in S \ {Genesis} : Prev[b] \in S
Follows(f, S, base, step) ==
  /\ Back(S) /\ f[Genesis] = base
  /\ \A b \in S \ {Genesis} : f[b] = step[<<b, f[Prev[b]]>>]
Solves(f, base, step) == f = [b \in Ids |-> f[b]] /\ Follows(f, Ids, base, step)

\* Induction along the previous blocks.
LEMMA BlockInduction ==
  ASSUME NEW G, Genesis \in G, \A b \in Blocks : Prev[b] \in G => b \in G
  PROVE  \A b \in Ids : b \in G
  <1> DEFINE S == Blocks \ G
  <1>1. SUFFICES ASSUME S # {}
                 PROVE  FALSE
    BY DEF Ids
  <1>2. PICK b \in S : Prev[b] \notin S
    BY <1>1, ConstantsAssumption
  <1>3. Prev[b] \in Ids
    BY <1>2, ConstantsAssumption
  <1>4. QED
    BY <1>2, <1>3 DEF Ids

\* Two solutions agree where both are defined.
LEMMA FollowsAgree ==
  ASSUME NEW f, NEW S, NEW g, NEW T, NEW base, NEW step,
         Follows(f, S, base, step), Follows(g, T, base, step)
  PROVE  \A b \in S \cap T : f[b] = g[b]
  <1> DEFINE G == {b \in Ids : b \in S \cap T => f[b] = g[b]}
  <1>1. Genesis \in G
    BY DEF Follows, Ids
  <1>2. ASSUME NEW b \in Blocks, Prev[b] \in G
        PROVE  b \in G
    <2>1. b # Genesis
      BY ConstantsAssumption
    <2>2. QED
      BY <1>2, <2>1 DEF Follows, Back, Ids
  <1> HIDE DEF G
  <1>3. \A b \in Ids : b \in G
    BY <1>1, <1>2, BlockInduction
  <1>4. QED
    BY <1>3 DEF G, Follows, Back

\* There is a solution up to every block.
LEMMA FollowsExists ==
  ASSUME NEW base, NEW step
  PROVE  \A b \in Ids : \E f, S : b \in S /\ Follows(f, S, base, step)
  <1> DEFINE G == {b \in Ids : \E f, S : b \in S /\ Follows(f, S, base, step)}
  <1>1. Genesis \in G
    <2> DEFINE f == [b \in {Genesis} |-> base]
    <2>1. Follows(f, {Genesis}, base, step)
      BY DEF Follows, Back, Ids
    <2>2. QED
      BY <2>1 DEF Ids
  <1>2. ASSUME NEW b \in Blocks, Prev[b] \in G
        PROVE  b \in G
    <2>1. PICK f, S : Prev[b] \in S /\ Follows(f, S, base, step)
      BY <1>2
    <2> DEFINE T == S \cup {b}
               g == [c \in T |-> IF c \in S THEN f[c] ELSE step[<<b, f[Prev[b]]>>]]
    <2>2. Back(T)
      BY <2>1 DEF Follows, Back, Ids
    <2>3. b # Genesis /\ Genesis \in S
      BY <2>1, ConstantsAssumption DEF Follows, Back
    <2>4. ASSUME NEW c \in T \ {Genesis}
          PROVE  g[c] = step[<<c, g[Prev[c]]>>]
      <3>1. CASE c \in S
        <4>1. Prev[c] \in S /\ f[c] = step[<<c, f[Prev[c]]>>]
          BY <2>1, <2>4, <3>1 DEF Follows, Back
        <4>2. QED
          BY <3>1, <4>1
      <3>2. CASE c \notin S
        <4>1. c = b /\ Prev[c] \in S
          BY <2>1, <3>2
        <4>2. QED
          BY <3>2, <4>1
      <3>3. QED
        BY <3>1, <3>2
    <2>5. Follows(g, T, base, step)
      BY <2>1, <2>2, <2>3, <2>4 DEF Follows
    <2>6. QED
      BY <2>5 DEF Ids
  <1> HIDE DEF G
  <1>3. \A b \in Ids : b \in G
    BY <1>1, <1>2, BlockInduction
  <1>4. QED
    BY <1>3 DEF G

\* A recursive function on the blocks is well defined.
LEMMA BlockRecursion ==
  ASSUME NEW base, NEW step
  PROVE  \E F : Solves(F, base, step)
  <1> DEFINE Value(b, v) == \E f, S : b \in S /\ Follows(f, S, base, step) /\ v = f[b]
             F == [b \in Ids |-> CHOOSE v : Value(b, v)]
  <1>1. ASSUME NEW f, NEW S, Follows(f, S, base, step), NEW b \in S
        PROVE  F[b] = f[b]
    <2>1. b \in Ids
      BY <1>1 DEF Follows, Back
    <2>2. Value(b, f[b])
      BY <1>1
    <2>3. \A v : Value(b, v) => v = f[b]
      BY <1>1, FollowsAgree
    <2> HIDE DEF Value
    <2>4. QED
      BY <2>1, <2>2, <2>3
  <1> HIDE DEF F
  <1>2. ASSUME NEW b \in Ids
        PROVE  /\ b = Genesis => F[b] = base
               /\ b # Genesis => F[b] = step[<<b, F[Prev[b]]>>]
    <2>1. PICK f, S : b \in S /\ Follows(f, S, base, step)
      BY FollowsExists
    <2>2. F[b] = f[b]
      BY <1>1, <2>1
    <2>3. CASE b = Genesis
      BY <2>1, <2>2, <2>3 DEF Follows
    <2>4. CASE b # Genesis
      <3>1. Prev[b] \in S /\ f[b] = step[<<b, f[Prev[b]]>>]
        BY <2>1, <2>4 DEF Follows, Back
      <3>2. F[Prev[b]] = f[Prev[b]]
        BY <1>1, <2>1, <3>1
      <3>3. QED
        BY <2>2, <2>4, <3>1, <3>2
    <2>5. QED
      BY <2>3, <2>4
  <1>3. F = [b \in Ids |-> F[b]]
    BY DEF F
  <1>4. Solves(F, base, step)
    BY <1>2, <1>3, ConstantsAssumption DEF Solves, Follows, Back, Ids
  <1>5. QED
    BY <1>4

\* Its values are of the type that its step keeps.
LEMMA TypedRecursion ==
  ASSUME NEW V, NEW base \in V, NEW step, \A b \in Blocks, v \in V : step[<<b, v>>] \in V
  PROVE  \E F \in [Ids -> V] : Solves(F, base, step)
  <1>1. PICK F : Solves(F, base, step)
    BY BlockRecursion
  <1> DEFINE G == {b \in Ids : F[b] \in V}
  <1>2. Genesis \in G
    BY <1>1 DEF Ids, Solves, Follows
  <1>3. ASSUME NEW b \in Blocks, Prev[b] \in G
        PROVE  b \in G
    <2>1. b # Genesis /\ b \in Ids
      BY ConstantsAssumption DEF Ids
    <2>2. F[b] = step[<<b, F[Prev[b]]>>]
      BY <1>1, <2>1 DEF Solves, Follows
    <2>3. QED
      BY <1>3, <2>1, <2>2
  <1> HIDE DEF G
  <1>4. \A b \in Ids : b \in G
    BY <1>2, <1>3, BlockInduction
  <1>5. F \in [Ids -> V]
    BY <1>1, <1>4 DEF G, Solves
  <1>6. QED
    BY <1>1, <1>5

\* The height of a block is one more than that of its previous block.
LEMMA NumRecursion ==
  /\ Num \in [Ids -> Nat] /\ Num[Genesis] = 0
  /\ \A b \in Blocks : Prev[b] \in Ids /\ Num[b] = Num[Prev[b]] + 1
  <1> DEFINE step == [x \in Blocks \X Nat |-> x[2] + 1]
  <1>1. \A b \in Blocks, v \in Nat : step[<<b, v>>] = v + 1
    OBVIOUS
  <1> HIDE DEF step
  <1>2. PICK F \in [Ids -> Nat] : Solves(F, 0, step)
    <2>1. ASSUME NEW b \in Blocks, NEW v \in Nat
          PROVE  step[<<b, v>>] \in Nat
      <3>1. step[<<b, v>>] = v + 1 /\ v + 1 \in Nat
        BY <1>1
      <3>2. QED
        BY <3>1
    <2>2. QED
      BY <2>1, 0 \in Nat, TypedRecursion
  <1>3. \A b \in Ids \ {Genesis} : step[<<b, F[Prev[b]]>>] = F[Prev[b]] + 1
    BY <1>1, <1>2, ConstantsAssumption DEF Ids
  <1>4. F = [b \in Ids |-> IF b = Genesis THEN 0 ELSE F[Prev[b]] + 1]
    BY <1>2, <1>3 DEF Solves, Follows
  <1>5. Num = [b \in Ids |-> IF b = Genesis THEN 0 ELSE Num[Prev[b]] + 1]
    BY <1>4 DEF Num
  <1>6. \A b \in Blocks : Prev[b] \in Ids /\ b # Genesis /\ b \in Ids
    BY ConstantsAssumption DEF Ids
  <1> DEFINE G == {b \in Ids : Num[b] \in Nat}
  <1>7. Genesis \in G /\ Num[Genesis] = 0
    BY <1>5 DEF Ids
  <1>8. \A b \in Blocks : Num[b] = Num[Prev[b]] + 1
    BY <1>5, <1>6
  <1>9. \A b \in Blocks : Prev[b] \in G => b \in G
    BY <1>6, <1>8
  <1> HIDE DEF G
  <1>10. \A b \in Ids : b \in G
    BY <1>7, <1>9, BlockInduction
  <1>11. Num \in [Ids -> Nat]
    BY <1>5, <1>10 DEF G
  <1>12. QED
    BY <1>6, <1>7, <1>8, <1>11

\* A block builds on itself and on what its previous block builds on.
LEMMA PathRecursion ==
  /\ Path \in [Ids -> SUBSET Blocks] /\ Path[Genesis] = {}
  /\ \A b \in Blocks : Path[b] = {b} \cup Path[Prev[b]]
  <1> DEFINE step == [x \in Blocks \X SUBSET Blocks |-> {x[1]} \cup x[2]]
  <1>1. \A b \in Blocks, v \in SUBSET Blocks : step[<<b, v>>] = {b} \cup v
    OBVIOUS
  <1> HIDE DEF step
  <1>2. PICK F \in [Ids -> SUBSET Blocks] : Solves(F, {}, step)
    <2>1. \A b \in Blocks, v \in SUBSET Blocks : step[<<b, v>>] \in SUBSET Blocks
      BY <1>1
    <2>2. {} \in SUBSET Blocks
      OBVIOUS
    <2>3. QED
      BY <2>1, <2>2, TypedRecursion
  <1>3. \A b \in Ids \ {Genesis} : step[<<b, F[Prev[b]]>>] = {b} \cup F[Prev[b]]
    BY <1>1, <1>2, ConstantsAssumption DEF Ids
  <1>4. F = [b \in Ids |-> IF b = Genesis THEN {} ELSE {b} \cup F[Prev[b]]]
    BY <1>2, <1>3 DEF Solves, Follows
  <1>5. Path = [b \in Ids |-> IF b = Genesis THEN {} ELSE {b} \cup Path[Prev[b]]]
    BY <1>4 DEF Path
  <1>6. \A b \in Blocks : Prev[b] \in Ids /\ b # Genesis /\ b \in Ids
    BY ConstantsAssumption DEF Ids
  <1> DEFINE G == {b \in Ids : Path[b] \in SUBSET Blocks}
  <1>7. Genesis \in G /\ Path[Genesis] = {}
    BY <1>5 DEF Ids
  <1>8. \A b \in Blocks : Path[b] = {b} \cup Path[Prev[b]]
    BY <1>5, <1>6
  <1>9. \A b \in Blocks : Prev[b] \in G => b \in G
    BY <1>6, <1>8
  <1> HIDE DEF G
  <1>10. \A b \in Ids : b \in G
    BY <1>7, <1>9, BlockInduction
  <1>11. Path \in [Ids -> SUBSET Blocks]
    BY <1>5, <1>10 DEF G
  <1>12. QED
    BY <1>7, <1>8, <1>11

\* The transactions up to a block are those up to its previous block and its own.
LEMMA ChainTrxsRecursion ==
  /\ \A b \in Ids : IsSeq(ChainTrxs[b])
  /\ ChainTrxs[Genesis] = <<>>
  /\ \A b \in Blocks : ChainTrxs[b] = ChainTrxs[Prev[b]] \o Trxs[b]
  <1> DEFINE E == UNION {ToSet(Trxs[b]) : b \in Blocks}
             step == [x \in Blocks \X Seq(E) |-> x[2] \o Trxs[x[1]]]
  <1>1. \A b \in Blocks : Trxs[b] \in Seq(E)
    <2> TAKE b \in Blocks
    <2>1. Trxs[b] \in Seq(ToSet(Trxs[b])) /\ ToSet(Trxs[b]) \subseteq E
      BY ConstantsAssumption
    <2> HIDE DEF E
    <2>2. QED
      BY <2>1
  <1> HIDE DEF E
  <1>2. \A b \in Blocks, v \in Seq(E) : step[<<b, v>>] = v \o Trxs[b] /\ step[<<b, v>>] \in Seq(E)
    <2> TAKE b \in Blocks, v \in Seq(E)
    <2>1. v \o Trxs[b] \in Seq(E)
      BY <1>1, ConcatProperties
    <2>2. QED
      BY <2>1
  <1> HIDE DEF step
  <1>3. PICK F \in [Ids -> Seq(E)] : Solves(F, <<>>, step)
    <2>1. <<>> \in Seq(E)
      OBVIOUS
    <2>2. QED
      BY <1>2, <2>1, TypedRecursion
  <1>4. \A b \in Ids \ {Genesis} : step[<<b, F[Prev[b]]>>] = F[Prev[b]] \o Trxs[b]
    BY <1>2, <1>3, ConstantsAssumption DEF Ids
  <1>5. F = [b \in Ids |-> IF b = Genesis THEN <<>> ELSE F[Prev[b]] \o Trxs[b]]
    BY <1>3, <1>4 DEF Solves, Follows
  <1>6. ChainTrxs = [b \in Ids |-> IF b = Genesis THEN <<>> ELSE ChainTrxs[Prev[b]] \o Trxs[b]]
    BY <1>5 DEF ChainTrxs
  <1>7. \A b \in Blocks : Prev[b] \in Ids /\ b # Genesis /\ b \in Ids
    BY ConstantsAssumption DEF Ids
  <1> DEFINE G == {b \in Ids : ChainTrxs[b] \in Seq(E)}
  <1>8. Genesis \in G /\ ChainTrxs[Genesis] = <<>>
    BY <1>6 DEF Ids
  <1>9. \A b \in Blocks : ChainTrxs[b] = ChainTrxs[Prev[b]] \o Trxs[b]
    BY <1>6, <1>7
  <1>10. ASSUME NEW b \in Blocks, Prev[b] \in G
         PROVE  b \in G
    <2>1. ChainTrxs[Prev[b]] \o Trxs[b] \in Seq(E)
      BY <1>1, <1>10, ConcatProperties
    <2>2. QED
      BY <1>7, <1>9, <2>1
  <1> HIDE DEF G
  <1>11. \A b \in Ids : b \in G
    BY <1>8, <1>10, BlockInduction
  <1>12. \A b \in Ids : IsSeq(ChainTrxs[b])
    BY <1>11, SeqOfItself DEF G
  <1>13. QED
    BY <1>8, <1>9, <1>12

----------------------------------------------------------------------------
(* The tree of blocks.                                                     *)

\* A block builds on the other.
Anc(a, b) == a \in Path[b] \cup {Genesis}

\* What a block builds on is lower, and brings what that builds on with it.
LEMMA PathFacts ==
  ASSUME NEW b \in Ids
  PROVE  /\ IsFiniteSet(Path[b]) /\ Path[b] \subseteq Blocks
         /\ b \in Blocks => b \in Path[b]
         /\ \A x \in Path[b] : /\ Path[x] \subseteq Path[b] /\ Num[x] <= Num[b]
                               /\ Num[x] = Num[b] => x = b
                               /\ Prev[x] \in Path[b] \cup {Genesis}
  <1> DEFINE Facts(c) ==
        /\ IsFiniteSet(Path[c])
        /\ \A x \in Path[c] : /\ Path[x] \subseteq Path[c] /\ Num[x] <= Num[c]
                              /\ Num[x] = Num[c] => x = c
                              /\ Prev[x] \in Path[c] \cup {Genesis}
      G == {c \in Ids : Facts(c)}
  <1>1. Genesis \in G
    <2>1. Path[Genesis] = {} /\ IsFiniteSet({})
      BY PathRecursion, FS_EmptySet
    <2>2. QED
      BY <2>1 DEF Ids
  <1>2. ASSUME NEW c \in Blocks, Prev[c] \in G
        PROVE  c \in G
    <2>1. /\ Path[c] = {c} \cup Path[Prev[c]] /\ Prev[c] \in Ids /\ c \in Ids
          /\ Num[c] = Num[Prev[c]] + 1 /\ Num[Prev[c]] \in Nat
          /\ Path[Prev[c]] \subseteq Blocks
      BY PathRecursion, NumRecursion DEF Ids
    <2>2. IsFiniteSet(Path[c])
      BY <1>2, <2>1, FS_AddElement
    <2>3. Prev[c] \in Path[c] \cup {Genesis}
      <3>1. Prev[c] \in Blocks => Path[Prev[c]] = {Prev[c]} \cup Path[Prev[Prev[c]]]
        BY PathRecursion
      <3>2. QED
        BY <2>1, <3>1 DEF Ids
    <2>4. ASSUME NEW x \in Path[Prev[c]]
          PROVE  /\ Path[x] \subseteq Path[c] /\ Num[x] < Num[c]
                 /\ Prev[x] \in Path[c] \cup {Genesis}
      <3>1. Num[x] <= Num[Prev[c]] /\ Num[x] \in Nat
        BY <1>2, <2>1, NumRecursion DEF Ids
      <3>2. QED
        BY <1>2, <2>1, <3>1
    <2>5. ASSUME NEW x \in Path[c]
          PROVE  /\ Path[x] \subseteq Path[c] /\ Num[x] <= Num[c]
                 /\ Num[x] = Num[c] => x = c
                 /\ Prev[x] \in Path[c] \cup {Genesis}
      <3>1. CASE x = c
        BY <2>1, <2>3, <3>1
      <3>2. CASE x \in Path[Prev[c]]
        <4>1. Num[x] < Num[c] /\ Num[x] \in Nat /\ Num[c] \in Nat
          BY <2>1, <2>4, <3>2, NumRecursion DEF Ids
        <4>2. QED
          BY <2>4, <3>2, <4>1
      <3>3. QED
        BY <2>1, <3>1, <3>2
    <2>6. Facts(c)
      BY <2>2, <2>5
    <2> HIDE DEF Facts
    <2>7. QED
      BY <2>1, <2>6
  <1> HIDE DEF G
  <1>3. b \in G
    BY <1>1, <1>2, BlockInduction
  <1>4. Facts(b)
    BY <1>3 DEF G
  <1>5. Path[b] \subseteq Blocks /\ (b \in Blocks => b \in Path[b])
    BY PathRecursion
  <1>6. QED
    BY <1>4, <1>5

\* The blocks that one block builds on are on one line.
LEMMA PathLinear ==
  ASSUME NEW h \in Ids, NEW x \in Path[h], NEW y \in Path[h], Num[x] <= Num[y]
  PROVE  x \in Path[y]
  <1> DEFINE Line(c) == \A u, v \in Path[c] : Num[u] <= Num[v] => u \in Path[v]
             G == {c \in Ids : Line(c)}
  <1>1. Genesis \in G
    <2>1. Path[Genesis] = {}
      BY PathRecursion
    <2>2. QED
      BY <2>1 DEF Ids
  <1>2. ASSUME NEW c \in Blocks, Prev[c] \in G
        PROVE  c \in G
    <2>1. /\ Path[c] = {c} \cup Path[Prev[c]] /\ Prev[c] \in Ids /\ c \in Ids
          /\ Num[c] = Num[Prev[c]] + 1
      BY PathRecursion, NumRecursion DEF Ids
    <2>2. ASSUME NEW u \in Path[c], NEW v \in Path[c], Num[u] <= Num[v]
          PROVE  u \in Path[v]
      <3>1. CASE v = c
        BY <2>1, <3>1
      <3>2. CASE v \in Path[Prev[c]]
        <4>1. Num[v] <= Num[Prev[c]]
          BY <2>1, <3>2, PathFacts
        <4>2. v \in Ids /\ u \in Ids
          BY <2>1, PathFacts DEF Ids
        <4>3. Num[v] \in Nat /\ Num[u] \in Nat /\ Num[Prev[c]] \in Nat
          BY <2>1, <4>2, NumRecursion
        <4>4. u # c
          BY <2>1, <2>2, <4>1, <4>3
        <4>5. QED
          BY <1>2, <2>1, <2>2, <3>2, <4>4
      <3>3. QED
        BY <2>1, <3>1, <3>2
    <2>3. QED
      BY <2>1, <2>2
  <1> HIDE DEF G
  <1>3. h \in G
    BY <1>1, <1>2, BlockInduction
  <1>4. QED
    BY <1>3 DEF G

\* Building on a block is an order, and a block holds what it builds on applied.
LEMMA AncFacts ==
  /\ \A a \in Ids : Anc(a, a) /\ Anc(Genesis, a)
  /\ \A a, b \in Ids : Anc(a, b) => Num[a] <= Num[b] /\ (Num[a] = Num[b] => a = b)
  /\ \A a, b, c \in Ids : Anc(a, b) /\ Anc(b, c) => Anc(a, c)
  /\ \A b \in Blocks : Anc(Prev[b], b)
  <1>1. \A a \in Ids : Anc(a, a) /\ Anc(Genesis, a)
    BY PathFacts DEF Anc, Ids
  <1>2. ASSUME NEW a \in Ids, NEW b \in Ids, Anc(a, b)
        PROVE  Num[a] <= Num[b] /\ (Num[a] = Num[b] => a = b)
    <2>1. CASE a = Genesis
      <3>1. Num[a] = 0 /\ Num[b] \in Nat
        BY <2>1, NumRecursion
      <3>2. b # Genesis => Num[b] > 0
        <4>1. b # Genesis => b \in Blocks
          BY DEF Ids
        <4>2. \A d \in Blocks : Num[d] = Num[Prev[d]] + 1 /\ Num[Prev[d]] \in Nat
          BY NumRecursion
        <4>3. QED
          BY <4>1, <4>2
      <3>3. QED
        BY <2>1, <3>1, <3>2
    <2>2. CASE a \in Path[b]
      BY <2>2, PathFacts
    <2>3. QED
      BY <1>2, <2>1, <2>2 DEF Anc
  <1>3. ASSUME NEW a \in Ids, NEW b \in Ids, NEW c \in Ids, Anc(a, b), Anc(b, c)
        PROVE  Anc(a, c)
    <2>1. CASE b = Genesis
      BY <1>3, <2>1, PathRecursion DEF Anc
    <2>2. CASE b \in Path[c]
      BY <1>3, <2>2, PathFacts DEF Anc
    <2>3. QED
      BY <1>3, <2>1, <2>2 DEF Anc
  <1>4. ASSUME NEW b \in Blocks
        PROVE  Anc(Prev[b], b)
    BY PathFacts DEF Anc, Ids
  <1>5. QED
    BY <1>1, <1>2, <1>3, <1>4

\* What a sequence and another one behind it hold.
LEMMA ConcatSet ==
  ASSUME NEW s, NEW t, IsSeq(s), IsSeq(t)
  PROVE  /\ IsSeq(s \o t) /\ ToSet(s \o t) = ToSet(s) \cup ToSet(t)
         /\ Len(s \o t) = Len(s) + Len(t) /\ Len(s) \in Nat /\ Len(t) \in Nat
         /\ DOMAIN (s \o t) = 1 .. Len(s) + Len(t)
         /\ \A i \in 1 .. Len(s) : (s \o t)[i] = s[i]
         /\ \A i \in 1 .. Len(t) : (s \o t)[Len(s) + i] = t[i]
  <1> DEFINE S == ToSet(s) \cup ToSet(t)
             u == s \o t
  <1>1. s \in Seq(S) /\ t \in Seq(S) /\ Len(s) \in Nat /\ Len(t) \in Nat
    BY DEF IsSeq
  <1>2. DOMAIN s = 1 .. Len(s) /\ DOMAIN t = 1 .. Len(t)
    BY <1>1
  <1>3. /\ u \in Seq(S) /\ Len(u) = Len(s) + Len(t)
        /\ \A i \in 1 .. Len(s) + Len(t) : u[i] = IF i <= Len(s) THEN s[i] ELSE t[i - Len(s)]
    BY <1>1, ConcatProperties
  <1> HIDE DEF S, u
  <1>4. DOMAIN u = 1 .. Len(s) + Len(t) /\ IsSeq(u)
    BY <1>1, <1>3, SeqOfItself
  <1>5. \A i \in 1 .. Len(s) : u[i] = s[i]
    BY <1>1, <1>3
  <1>6. \A i \in 1 .. Len(t) : u[Len(s) + i] = t[i]
    BY <1>1, <1>3
  <1>7. ToSet(u) \subseteq ToSet(s) \cup ToSet(t)
    <2> SUFFICES ASSUME NEW i \in DOMAIN u
                 PROVE  u[i] \in ToSet(s) \cup ToSet(t)
      BY DEF ToSet
    <2>1. CASE i <= Len(s)
      BY <1>1, <1>2, <1>4, <1>5, <2>1 DEF ToSet
    <2>2. CASE i > Len(s)
      <3>1. i - Len(s) \in 1 .. Len(t) /\ u[i] = t[i - Len(s)]
        BY <1>1, <1>3, <1>4, <2>2
      <3>2. QED
        BY <1>2, <3>1 DEF ToSet
    <2>3. QED
      BY <1>1, <1>4, <2>1, <2>2
  <1>8. ToSet(s) \subseteq ToSet(u)
    <2>1. \A i \in 1 .. Len(s) : i \in DOMAIN u
      BY <1>1, <1>4
    <2>2. QED
      BY <1>2, <1>5, <2>1 DEF ToSet
  <1>9. ToSet(t) \subseteq ToSet(u)
    <2>1. \A i \in 1 .. Len(t) : Len(s) + i \in DOMAIN u
      BY <1>1, <1>4
    <2>2. QED
      BY <1>2, <1>6, <2>1 DEF ToSet
  <1>10. QED
    BY <1>1, <1>3, <1>4, <1>5, <1>6, <1>7, <1>8, <1>9 DEF u

\* The transactions of a chain grow with it.
LEMMA ChainTrxsGrow ==
  ASSUME NEW a \in Ids, NEW b \in Ids, Anc(a, b)
  PROVE  ToSet(ChainTrxs[a]) \subseteq ToSet(ChainTrxs[b])
  <1> DEFINE G == {c \in Ids : \A d \in Ids : Anc(d, c) => ToSet(ChainTrxs[d]) \subseteq ToSet(ChainTrxs[c])}
  <1>1. Genesis \in G
    BY PathRecursion DEF Anc, Ids
  <1>2. ASSUME NEW c \in Blocks, Prev[c] \in G
        PROVE  c \in G
    <2>1. /\ ChainTrxs[c] = ChainTrxs[Prev[c]] \o Trxs[c] /\ IsSeq(ChainTrxs[Prev[c]])
          /\ IsSeq(Trxs[c]) /\ Prev[c] \in Ids /\ c \in Ids
      BY ChainTrxsRecursion, ConstantsAssumption DEF IsSeq, Ids
    <2>2. ToSet(ChainTrxs[Prev[c]]) \subseteq ToSet(ChainTrxs[c])
      BY <2>1, ConcatSet
    <2>3. ASSUME NEW d \in Ids, Anc(d, c)
          PROVE  ToSet(ChainTrxs[d]) \subseteq ToSet(ChainTrxs[c])
      <3>1. d = c \/ Anc(d, Prev[c])
        BY <2>3, PathRecursion DEF Anc
      <3>2. QED
        BY <1>2, <2>2, <3>1
    <2>4. QED
      BY <2>1, <2>3
  <1> HIDE DEF G
  <1>3. b \in G
    BY <1>1, <1>2, BlockInduction
  <1>4. QED
    BY <1>3 DEF G

\* How many blocks of T are no higher than b.
Rank(T, b) == Cardinality({c \in T : Num[c] <= Num[b]})

\* A set of blocks of one line has a highest block.
LEMMA Highest ==
  ASSUME NEW h \in Ids, NEW T \in SUBSET Path[h], T # {}
  PROVE  \E m \in T : \A c \in T : Num[c] <= Num[m] /\ (Num[c] = Num[m] => c = m)
  <1>1. \A c \in T : c \in Ids /\ Num[c] \in 0 .. Num[h] /\ Num[h] \in Nat
    BY PathFacts, NumRecursion DEF Ids
  <1> DEFINE N == {Num[c] : c \in T}
  <1>2. N \subseteq 0 .. Num[h] /\ N # {} /\ Num[h] \in Nat
    BY <1>1
  <1>3. Max(N) \in N /\ \A n \in N : Max(N) >= n
    <2> HIDE DEF N
    <2> QED
      BY <1>2, MaxIn
  <1>4. PICK m \in T : Num[m] = Max(N)
    BY <1>3
  <1>5. ASSUME NEW c \in T
        PROVE  Num[c] <= Num[m] /\ (Num[c] = Num[m] => c = m)
    <2>1. Num[c] \in Nat /\ Num[m] \in Nat /\ Num[m] >= Num[c]
      BY <1>1, <1>3, <1>4
    <2>2. Num[c] = Num[m] => c \in Path[m]
      BY <2>1, PathLinear
    <2>3. Num[c] = Num[m] => c = m
      BY <1>1, <2>2, PathFacts
    <2>4. QED
      BY <2>1, <2>3
  <1>6. QED
    BY <1>5

\* Every rank up to their number is taken.
LEMMA RankTaken ==
  ASSUME NEW h \in Ids, NEW S \in SUBSET Path[h]
  PROVE  \A i \in 1 .. Cardinality(S) : \E b \in S : Rank(S, b) = i
  <1> DEFINE G == {T \in SUBSET S : \A i \in 1 .. Cardinality(T) : \E b \in T : Rank(T, b) = i}
  <1>1. IsFiniteSet(S)
    BY PathFacts, FS_Subset
  <1>2. ASSUME NEW T \in SUBSET S, \A x \in T : T \ {x} \in G
        PROVE  T \in G
    <2> SUFFICES ASSUME NEW i \in 1 .. Cardinality(T)
                 PROVE  \E b \in T : Rank(T, b) = i
      OBVIOUS
    <2>1. IsFiniteSet(T) /\ Cardinality(T) \in Nat
      BY <1>1, FS_Subset, FS_CardinalityType
    <2>2. T # {}
      BY <2>1, FS_EmptySet
    <2>3. PICK m \in T : \A c \in T : Num[c] <= Num[m] /\ (Num[c] = Num[m] => c = m)
      BY <2>2, Highest
    <2>4. CASE i = Cardinality(T)
      <3>1. {c \in T : Num[c] <= Num[m]} = T
        BY <2>3
      <3>2. QED
        BY <2>4, <3>1 DEF Rank
    <2>5. CASE i # Cardinality(T)
      <3>1. Cardinality(T \ {m}) = Cardinality(T) - 1
        BY <2>1, FS_RemoveElement
      <3>2. i \in 1 .. Cardinality(T \ {m})
        BY <2>1, <2>5, <3>1
      <3>3. PICK b \in T \ {m} : Rank(T \ {m}, b) = i
        BY <1>2, <3>2
      <3>4. {c \in T : Num[c] <= Num[b]} = {c \in T \ {m} : Num[c] <= Num[b]}
        <4>1. Num[b] <= Num[m] /\ Num[b] # Num[m] /\ b \in Ids /\ m \in Ids
          BY <2>3, PathFacts DEF Ids
        <4>2. ~ (Num[m] <= Num[b])
          BY <4>1, NumRecursion
        <4>3. QED
          BY <4>2
      <3>5. QED
        BY <3>3, <3>4 DEF Rank
    <2>6. QED
      BY <2>4, <2>5
  <1> HIDE DEF G
  <1>3. \A T \in SUBSET S : T \in G
    BY <1>1, <1>2, SubsetInduction
  <1>4. QED
    BY <1>3 DEF G

\* Ascending lists the blocks of one line from the lowest to the highest.
LEMMA AscendingFacts ==
  ASSUME NEW h \in Ids, NEW S \in SUBSET Path[h], S # {}
  PROVE  /\ Ascending(S) \in Seq(Blocks) /\ Ascending(S) # <<>>
         /\ \A i \in DOMAIN Ascending(S) : Ascending(S)[i] \in S
         /\ \A c \in S : Num[Ascending(S)[1]] <= Num[c] /\ Num[c] <= Num[Last(Ascending(S))]
  <1> DEFINE q == Ascending(S)
             n == Cardinality(S)
  <1>1. IsFiniteSet(S) /\ n \in Nat /\ n # 0
    BY PathFacts, FS_Subset, FS_CardinalityType, FS_EmptySet
  <1>2. \A c \in S : c \in Ids /\ c \in Blocks /\ Num[c] \in Nat
    BY PathFacts, NumRecursion DEF Ids
  <1>3. q = [i \in 1 .. n |-> CHOOSE b \in S : Rank(S, b) = i]
    BY DEF Ascending, Rank
  <1> HIDE DEF q, n
  <1>4. \A i \in 1 .. n : q[i] \in S /\ Rank(S, q[i]) = i
    <2> TAKE i \in 1 .. n
    <2>1. \E b \in S : Rank(S, b) = i
      BY RankTaken DEF n
    <2>2. QED
      BY <1>3, <2>1
  <1>5. q \in Seq(Blocks) /\ Len(q) = n /\ DOMAIN q = 1 .. n
    <2>1. q \in [1 .. n -> Blocks]
      BY <1>2, <1>3, <1>4
    <2>2. QED
      BY <1>1, <2>1
  <1>6. q # <<>>
    BY <1>1, <1>5
  <1>7. ASSUME NEW c \in S
        PROVE  Num[q[1]] <= Num[c]
    <2> SUFFICES ASSUME ~ (Num[q[1]] <= Num[c])
                 PROVE  FALSE
      OBVIOUS
    <2> DEFINE D == {d \in S : Num[d] <= Num[q[1]]}
    <2>1. q[1] \in S /\ Cardinality(D) = 1 /\ IsFiniteSet(D)
      BY <1>1, <1>4, FS_Subset DEF Rank
    <2>2. q[1] \in D /\ c \in D /\ c # q[1]
      BY <1>2, <2>1
    <2> HIDE DEF D
    <2>3. QED
      BY <2>1, <2>2, FS_Singleton
  <1>8. ASSUME NEW c \in S
        PROVE  Num[c] <= Num[Last(q)]
    <2> DEFINE D == {d \in S : Num[d] <= Num[q[n]]}
    <2>1. Cardinality(D) = n
      BY <1>1, <1>4 DEF Rank
    <2>2. D = S
      <3>1. D \in SUBSET S
        OBVIOUS
      <3> HIDE DEF D
      <3>2. QED
        BY <1>1, <2>1, <3>1, FS_Subset DEF n
    <2>3. QED
      BY <1>5, <2>2 DEF Last
  <1>9. QED
    BY <1>4, <1>5, <1>6, <1>7, <1>8 DEF q

\* The two branches of a fork leave the same block, each upwards, and the first
\* one leads to its end.
LEMMA BranchFacts ==
  ASSUME NEW h \in Blocks, NEW p \in Blocks, h \in Path[p] => h = p
  PROVE  LET first == Ascending(first_branch(h, p))
             second == Ascending(second_branch(h, p))
         IN  /\ first \in Seq(Blocks) /\ first # <<>>
             /\ second \in Seq(Blocks) /\ second # <<>>
             /\ Prev[first[1]] = Prev[second[1]]
             /\ \A i \in DOMAIN first : Num[first[i]] > Num[Prev[first[1]]]
             /\ \A i \in DOMAIN second : Num[second[i]] > Num[Prev[second[1]]]
             /\ second[1] \in Path[p]
             /\ Num[h] <= Num[Last(first)]
  <1> DEFINE A == first_branch(h, p)
             B == second_branch(h, p)
             a == Ascending(A)[1]
             c == Ascending(B)[1]
  <1>0. h \in Ids /\ p \in Ids /\ h \in Path[h] /\ p \in Path[p]
    BY PathFacts DEF Ids
  <1>1. A \in SUBSET Path[h] /\ h \in A
    BY <1>0 DEF first_branch
  <1>2. B \in SUBSET Path[p] /\ p \in B
    BY <1>0 DEF second_branch
  <1>3. /\ Ascending(A) \in Seq(Blocks) /\ Ascending(A) # <<>>
        /\ \A i \in DOMAIN Ascending(A) : Ascending(A)[i] \in A
        /\ \A x \in A : Num[a] <= Num[x] /\ Num[x] <= Num[Last(Ascending(A))]
    <2> HIDE DEF A
    <2> QED
      BY <1>0, <1>1, AscendingFacts
  <1>4. /\ Ascending(B) \in Seq(Blocks) /\ Ascending(B) # <<>>
        /\ \A i \in DOMAIN Ascending(B) : Ascending(B)[i] \in B
        /\ \A x \in B : Num[c] <= Num[x]
    <2> HIDE DEF B
    <2> QED
      BY <1>0, <1>2, AscendingFacts
  <1>5. a \in A /\ c \in B
    BY <1>3, <1>4
  <1> HIDE DEF a, c
  <1>6. a \in Blocks /\ c \in Blocks /\ a \in Path[h] /\ c \in Path[p]
    BY <1>0, <1>1, <1>2, <1>5, PathFacts
  <1>7. /\ Prev[a] \in Ids /\ Prev[c] \in Ids /\ Num[a] = Num[Prev[a]] + 1 /\ Num[c] = Num[Prev[c]] + 1
        /\ Num[Prev[a]] \in Nat /\ Num[Prev[c]] \in Nat
    BY <1>6, NumRecursion
  <1>8. Prev[a] = Prev[c]
    <2>1. CASE p \in Path[h]
      <3>1. B = {p}
        BY <1>0, <2>1, PathFacts DEF second_branch
      <3>2. c = p
        BY <1>5, <3>1
      <3>3. p \in A
        BY <2>1 DEF first_branch
      <3>4. Num[a] <= Num[p]
        BY <1>3, <3>3
      <3>5. a \in Path[p]
        BY <1>0, <1>6, <2>1, <3>4, PathLinear
      <3>6. a = p
        BY <1>5, <3>5 DEF first_branch
      <3>7. QED
        BY <3>2, <3>6
    <2>2. CASE p \notin Path[h]
      <3>1. A = Path[h] \ Path[p] /\ B = Path[p] \ Path[h]
        BY <2>2 DEF first_branch, second_branch
      <3>2. Prev[a] \in (Path[h] \cap Path[p]) \cup {Genesis}
        <4>1. Prev[a] \in Path[h] \cup {Genesis}
          BY <1>0, <1>6, PathFacts
        <4>2. Prev[a] \notin A
          <5>1. ~ (Num[a] <= Num[Prev[a]])
            BY <1>7
          <5>2. QED
            BY <1>3, <5>1
        <4>3. QED
          BY <3>1, <4>1, <4>2
      <3>3. Prev[c] \in (Path[h] \cap Path[p]) \cup {Genesis}
        <4>1. Prev[c] \in Path[p] \cup {Genesis}
          BY <1>0, <1>6, PathFacts
        <4>2. Prev[c] \notin B
          <5>1. ~ (Num[c] <= Num[Prev[c]])
            BY <1>7
          <5>2. QED
            BY <1>4, <5>1
        <4>3. QED
          BY <3>1, <4>1, <4>2
      <3>4. ~ (Num[Prev[a]] < Num[Prev[c]])
        <4> SUFFICES ASSUME Num[Prev[a]] < Num[Prev[c]]
                     PROVE  FALSE
          OBVIOUS
        <4>1. Prev[c] # Genesis
          BY <1>7, NumRecursion
        <4>2. Prev[c] \in Path[h] /\ Prev[c] \in Path[p]
          BY <3>3, <4>1
        <4>3. Num[a] <= Num[Prev[c]]
          BY <1>7
        <4>4. a \in Path[Prev[c]]
          BY <1>0, <1>6, <4>2, <4>3, PathLinear
        <4>5. a \in Path[p]
          BY <1>0, <4>2, <4>4, PathFacts
        <4>6. QED
          BY <1>5, <3>1, <4>5
      <3>5. ~ (Num[Prev[c]] < Num[Prev[a]])
        <4> SUFFICES ASSUME Num[Prev[c]] < Num[Prev[a]]
                     PROVE  FALSE
          OBVIOUS
        <4>1. Prev[a] # Genesis
          BY <1>7, NumRecursion
        <4>2. Prev[a] \in Path[h] /\ Prev[a] \in Path[p]
          BY <3>2, <4>1
        <4>3. Num[c] <= Num[Prev[a]]
          BY <1>7
        <4>4. c \in Path[Prev[a]]
          BY <1>0, <1>6, <4>2, <4>3, PathLinear
        <4>5. c \in Path[h]
          BY <1>0, <4>2, <4>4, PathFacts
        <4>6. QED
          BY <1>5, <3>1, <4>5
      <3>6. Num[Prev[a]] = Num[Prev[c]]
        BY <1>7, <3>4, <3>5
      <3>7. Anc(Prev[a], Prev[c])
        <4>1. CASE Prev[a] = Genesis
          BY <4>1 DEF Anc
        <4>2. CASE Prev[a] # Genesis
          <5>1. Prev[c] # Genesis
            <6>1. Num[Prev[a]] # 0
              <7>1. Prev[a] \in Blocks
                BY <1>7, <4>2 DEF Ids
              <7>2. QED
                BY <1>7, <7>1, NumRecursion
            <6>2. QED
              BY <3>6, <6>1, NumRecursion
          <5>2. Prev[a] \in Path[h] /\ Prev[c] \in Path[h] /\ Num[Prev[a]] <= Num[Prev[c]]
            BY <1>7, <3>2, <3>3, <3>6, <4>2, <5>1
          <5>3. QED
            BY <1>0, <5>2, PathLinear DEF Anc
        <4>3. QED
          BY <4>1, <4>2
      <3>8. QED
        BY <1>7, <3>6, <3>7, AncFacts
    <2>3. QED
      BY <2>1, <2>2
  <1>9. ASSUME NEW i \in DOMAIN Ascending(A)
        PROVE  Num[Ascending(A)[i]] > Num[Prev[a]]
    <2>1. Ascending(A)[i] \in A /\ Ascending(A)[i] \in Ids
      BY <1>1, <1>0, <1>3, PathFacts DEF Ids
    <2>2. Num[a] <= Num[Ascending(A)[i]] /\ Num[Ascending(A)[i]] \in Nat
      BY <1>3, <2>1, NumRecursion
    <2>3. QED
      BY <1>7, <2>2
  <1>10. ASSUME NEW i \in DOMAIN Ascending(B)
         PROVE  Num[Ascending(B)[i]] > Num[Prev[c]]
    <2>1. Ascending(B)[i] \in B /\ Ascending(B)[i] \in Ids
      BY <1>2, <1>0, <1>4, PathFacts DEF Ids
    <2>2. Num[c] <= Num[Ascending(B)[i]] /\ Num[Ascending(B)[i]] \in Nat
      BY <1>4, <2>1, NumRecursion
    <2>3. QED
      BY <1>7, <2>2
  <1>11. Num[h] <= Num[Last(Ascending(A))]
    BY <1>1, <1>3
  <1> HIDE DEF A, B
  <1>12. QED
    BY <1>3, <1>4, <1>6, <1>8, <1>9, <1>10, <1>11 DEF A, B, a, c

----------------------------------------------------------------------------
(* Sessions.                                                               *)

\* The fields of the two records that the steps update.
Shaped ==
  /\ DOMAIN task = {"phase", "mode", "new", "todo", "second", "old_trx", "keys"}
  /\ DOMAIN outcome = {"result", "queue", "from", "previous"}

\* The pending session is alive when it is set, the session of a block from the
\* moment the block is applied to the moment it is stored.
SessionInv ==
  /\ Shaped /\ pending_session \in BOOLEAN
  /\ task.phase \in {"idle", "pop", "unwind", "apply", "repush", "replay", "down"}
  /\ active_sessions = (IF pending_session THEN 1 ELSE 0) + (IF task.phase = "repush" THEN 1 ELSE 0)
  /\ task.phase \in {"replay", "down"} => ~ pending_session

\* What an exception of apply_block leaves of the two records.
LEMMA FailedShape ==
  ASSUME Shaped, block_failed
  PROVE  /\ Shaped' /\ task'.phase \in {"unwind", "idle"}
         /\ \A x \in DOMAIN outcome \ {"result"} : outcome'[x] = outcome[x]
  <1>1. CASE Ended("threw")
    BY <1>1 DEF Shaped, Ended, Idle
  <1>2. CASE task' = [task EXCEPT !.phase = "unwind", !.todo = <<>>] /\ UNCHANGED outcome
    BY <1>2 DEF Shaped
  <1>3. QED
    BY <1>1, <1>2 DEF block_failed

\* Without the pending session no session is alive outside apply_block.
LEMMA NoneAlive ==
  ASSUME SessionInv, task.phase # "repush"
  PROVE  reset_active = 0
  <1>1. CASE pending_session
    BY <1>1 DEF SessionInv, reset_active
  <1>2. CASE ~ pending_session
    BY <1>2 DEF SessionInv, reset_active
  <1>3. QED
    BY <1>1, <1>2

\* A new process.
LEMMA SessionInit == Init => SessionInv
  <1> SUFFICES ASSUME Init
               PROVE  SessionInv
    OBVIOUS
  <1>1. Shaped /\ task.phase = "idle"
    BY DEF Init, Idle, Shaped
  <1>2. ~ pending_session /\ pending_session \in BOOLEAN /\ active_sessions = 0
    BY DEF Init
  <1>3. QED
    BY <1>1, <1>2 DEF SessionInv

\* Every step settles the sessions it opens.
LEMMA SessionStep == SessionInv /\ [Next]_vars => SessionInv'
  <1> SUFFICES ASSUME SessionInv, [Next]_vars
               PROVE  SessionInv'
    OBVIOUS
  <1>0. /\ Shaped /\ pending_session \in BOOLEAN
        /\ active_sessions = (IF pending_session THEN 1 ELSE 0) + (IF task.phase = "repush" THEN 1 ELSE 0)
    BY DEF SessionInv
  <1> USE DEF SessionInv, Shaped, Idle
  <1>1. ASSUME NEW t \in Txs, NEW skip_size \in BOOLEAN, push_transaction(t, skip_size)
        PROVE  SessionInv'
    BY <1>1 DEF push_transaction, push_transaction_vars
  <1>2. ASSUME NEW b, NEW queue, push_block(b, queue)
        PROVE  SessionInv'
    <2>1. CASE push_block_refused(b, queue)
      BY <2>1 DEF push_block_refused, Returned, undo_vars
    <2>2. CASE push_block_linear(b)
      <3>1. Shaped' /\ task'.phase = "apply" /\ task.phase = "idle"
        BY <2>2 DEF push_block_linear, Started, Returned
      <3>2. ~ pending_session' /\ pending_session' \in BOOLEAN /\ active_sessions' = reset_active
        BY <2>2 DEF push_block_linear
      <3>3. QED
        BY NoneAlive, <3>1, <3>2
    <2>3. CASE push_block_stale(b, queue)
      BY <2>3 DEF push_block_stale, Returned, undo_vars
    <2>4. CASE push_block_switch(b, queue)
      BY <2>4 DEF push_block_switch, Started, Returned, undo_vars
    <2>5. QED
      BY <1>2, <2>1, <2>2, <2>3, <2>4 DEF push_block
  <1>3. CASE pop_block
    <2>1. Shaped' /\ task.phase \in {"pop", "unwind"} /\ task'.phase \in {"pop", "unwind", "idle"}
      BY <1>3 DEF pop_block, Ended
    <2>2. ~ pending_session' /\ pending_session' \in BOOLEAN /\ active_sessions' = reset_active
      BY <1>3 DEF pop_block
    <2>3. QED
      BY NoneAlive, <2>1, <2>2
  <1>4. CASE pops_done
    BY <1>4 DEF pops_done, undo_vars
  <1>5. CASE apply_block
    <2>1. /\ Shaped' /\ task.phase = "apply" /\ UNCHANGED pending_session
          /\ \/ task'.phase = "repush" /\ active_sessions' = active_sessions + 1
             \/ task'.phase \in {"unwind", "idle"} /\ UNCHANGED active_sessions
      <3>1. CASE block_applies(task.todo[1], FALSE)
        BY <1>5, <3>1 DEF apply_block
      <3>2. CASE ~ block_applies(task.todo[1], FALSE)
        BY <1>5, <3>2, FailedShape DEF apply_block
      <3>3. QED
        BY <3>1, <3>2
    <2>2. QED
      BY <1>0, <2>1
  <1>6. CASE update_pending_block
    <2>1. CASE push_transaction_throws(task.old_trx[1], transactions)
      <3>1. Shaped' /\ task.phase = "repush" /\ task'.phase \in {"unwind", "idle"}
        BY <1>6, <2>1, FailedShape DEF update_pending_block
      <3>2. /\ pending_session' /\ pending_session' \in BOOLEAN
            /\ pending_session => active_sessions' = active_sessions - 1
            /\ ~ pending_session => active_sessions' = active_sessions
        BY <1>6, <2>1 DEF update_pending_block
      <3>3. active_sessions' = 1
        <4>1. CASE pending_session
          BY <1>0, <3>1, <3>2, <4>1
        <4>2. CASE ~ pending_session
          BY <1>0, <3>1, <3>2, <4>2
        <4>3. QED
          BY <4>1, <4>2
      <3>4. QED
        BY <3>1, <3>2, <3>3
    <2>2. CASE ~ push_transaction_throws(task.old_trx[1], transactions)
      BY <1>6, <2>2 DEF update_pending_block, push_transaction_vars
    <2>3. QED
      BY <2>1, <2>2
  <1>7. CASE store_block
    BY <1>7 DEF store_block
  <1>8. CASE push_block_done
    BY <1>8 DEF push_block_done, Ended, undo_vars
  <1>9. CASE reindex_block
    BY <1>9 DEF reindex_block, Down
  <1>10. CASE reindex_done
    BY <1>10 DEF reindex_done, undo_vars
  <1>11. CASE startup_open
    <2>1. Shaped' /\ task'.phase = "idle"
      BY <1>11 DEF startup_open, Loaded
    <2>2. ~ pending_session' /\ pending_session' \in BOOLEAN /\ active_sessions' = 0
      BY <1>11 DEF startup_open, Loaded
    <2>3. QED
      BY <2>1, <2>2
  <1>12. CASE startup_reindex
    <2>1. Shaped' /\ task'.phase = "replay"
      BY <1>12 DEF startup_reindex, Loaded
    <2>2. ~ pending_session' /\ pending_session' \in BOOLEAN /\ active_sessions' = 0
      BY <1>12 DEF startup_reindex, Loaded
    <2>3. QED
      BY <2>1, <2>2
  <1>13. CASE wipe
    BY <1>13 DEF wipe, undo_vars
  <1>14. CASE close \/ crash
    <2>1. Shaped' /\ task'.phase = "down"
      BY <1>14 DEF close, crash, Stopped, Loaded, Down
    <2>2. ~ pending_session' /\ pending_session' \in BOOLEAN /\ active_sessions' = 0
      BY <1>14 DEF close, crash, Stopped, Loaded
    <2>3. QED
      BY <2>1, <2>2
  <1>15. CASE UNCHANGED vars
    BY <1>15 DEF vars, undo_vars
  <1>16. QED
    BY <1>1, <1>2, <1>3, <1>4, <1>5, <1>6, <1>7, <1>8, <1>9, <1>10, <1>11, <1>12, <1>13,
       <1>14, <1>15 DEF Next, Step, handle_block, generate_block

\* Between calls the only session alive is the pending one, whatever is pushed,
\* fails, is undone or is replayed, and however often the process is restarted:
\* pop_commit finds no other session when the next fork switch needs it.
THEOREM SessionsAreSettled == Spec => []SessionsSettled
  <1>1. SessionInv => SessionsSettled
    BY DEF SessionInv, SessionsSettled
  <1>2. QED
    BY SessionInit, SessionStep, <1>1, PTL DEF Spec

----------------------------------------------------------------------------
(* Transactions and the states they lead to.                               *)

\* A transaction applies where the transactions of D have been applied, and the
\* transactions of a queue apply one after the other.
Fits(t, D) == t \notin D /\ \A u \in D : <<u, t>> \notin Conflicts
Suits(q, D) == IsSeq(q) /\ \A i \in DOMAIN q : Fits(q[i], D \cup {q[j] : j \in 1 .. i - 1})

\* A block that applies to what its previous blocks produce, and the state the
\* blocks up to b produce.
Sound(b) == b \notin Unsound /\ Suits(Trxs[b], ToSet(ChainTrxs[Prev[b]]))
Replay(b) == [head |-> b, applied |-> ChainTrxs[b], recent |-> ToSet(ChainTrxs[b])]

\* A state in which every applied transaction would be recognised; a state that
\* sound blocks and nothing else produce.
IsDb(d) ==
  /\ d.head \in Ids /\ IsSeq(d.applied)
  /\ d = [head |-> d.head, applied |-> d.applied, recent |-> ToSet(d.applied)]
IsClean(d) == d.head \in Ids /\ d = Replay(d.head) /\ \A b \in Path[d.head] : Sound(b)

\* What suits a state suits the states before it.
LEMMA SuitsBefore ==
  ASSUME NEW q, NEW D, NEW E, Suits(q, D), E \subseteq D
  PROVE  Suits(q, E)
  BY DEF Suits, Fits

\* The empty queue suits every state.
LEMMA SuitsEmpty ==
  ASSUME NEW D
  PROVE  Suits(<<>>, D) /\ IsSeq(<<>>) /\ ToSet(<<>>) = {} /\ Len(<<>>) = 0
  BY DEF Suits, IsSeq, ToSet

\* What an appended sequence holds.
LEMMA AppendSet ==
  ASSUME NEW s, IsSeq(s), NEW x
  PROVE  ToSet(Append(s, x)) = ToSet(s) \cup {x}
  <1> DEFINE t == Append(s, x)
  <1>1. /\ Len(s) \in Nat /\ DOMAIN s = 1 .. Len(s) /\ DOMAIN t = 1 .. Len(s) + 1
        /\ \A i \in 1 .. Len(s) : t[i] = s[i]
        /\ t[Len(s) + 1] = x
    BY AppendSeq
  <1> HIDE DEF t
  <1>2. ToSet(s) = {s[i] : i \in 1 .. Len(s)} /\ ToSet(t) = {t[i] : i \in 1 .. Len(s) + 1}
    BY <1>1 DEF ToSet
  <1>3. ASSUME NEW i \in 1 .. Len(s) + 1
        PROVE  t[i] \in ToSet(s) \cup {x}
    <2>1. CASE i = Len(s) + 1
      BY <1>1, <2>1
    <2>2. CASE i # Len(s) + 1
      <3>1. i \in 1 .. Len(s)
        BY <1>1, <2>2
      <3>2. QED
        BY <1>1, <1>2, <3>1
    <2>3. QED
      BY <2>1, <2>2
  <1>4. \A i \in 1 .. Len(s) : i \in 1 .. Len(s) + 1 /\ Len(s) + 1 \in 1 .. Len(s) + 1
    BY <1>1
  <1>5. ToSet(s) \subseteq ToSet(t)
    BY <1>1, <1>2, <1>4
  <1>6. x \in ToSet(t)
    <2>1. Len(s) + 1 \in 1 .. Len(s) + 1
      BY <1>1
    <2>2. QED
      BY <1>1, <1>2, <2>1
  <1>7. QED
    BY <1>2, <1>3, <1>5, <1>6 DEF t

\* A transaction that suits the state behind the queue can join it.
LEMMA SuitsAppend ==
  ASSUME NEW q, NEW D, NEW E, NEW t, Suits(q, D), D \cup ToSet(q) \subseteq E, Fits(t, E)
  PROVE  Suits(Append(q, t), D)
  <1> DEFINE r == Append(q, t)
  <1>1. /\ IsSeq(r) /\ Len(q) \in Nat /\ DOMAIN q = 1 .. Len(q) /\ DOMAIN r = 1 .. Len(q) + 1
        /\ \A i \in 1 .. Len(q) : r[i] = q[i]
        /\ r[Len(q) + 1] = t
    BY AppendSeq DEF Suits
  <1> HIDE DEF r
  <1>2. ASSUME NEW i \in 1 .. Len(q) + 1
        PROVE  Fits(r[i], D \cup {r[j] : j \in 1 .. i - 1})
    <2>1. \A j \in 1 .. i - 1 : j \in 1 .. Len(q)
      BY <1>1
    <2>2. {r[j] : j \in 1 .. i - 1} = {q[j] : j \in 1 .. i - 1}
      BY <1>1, <2>1
    <2>3. CASE i = Len(q) + 1
      <3>1. {q[j] : j \in 1 .. i - 1} \subseteq ToSet(q)
        BY <1>1, <2>1 DEF ToSet
      <3>2. QED
        BY <1>1, <2>2, <2>3, <3>1 DEF Fits
    <2>4. CASE i # Len(q) + 1
      <3>1. i \in DOMAIN q
        BY <1>1, <2>4
      <3>2. r[i] = q[i]
        BY <1>1, <3>1
      <3>3. Fits(q[i], D \cup {q[j] : j \in 1 .. i - 1})
        BY <3>1 DEF Suits
      <3>4. QED
        BY <2>2, <3>2, <3>3
    <2>5. QED
      BY <2>3, <2>4
  <1>3. QED
    BY <1>1, <1>2 DEF Suits, r

\* The first transactions of a queue.
LEMMA SuitsPrefix ==
  ASSUME NEW q, NEW r, NEW D, IsSeq(q), IsSeq(r), Suits(q \o r, D)
  PROVE  Suits(q, D)
  <1> DEFINE s == q \o r
  <1>1. /\ Len(q) \in Nat /\ Len(r) \in Nat /\ DOMAIN s = 1 .. Len(q) + Len(r)
        /\ \A i \in 1 .. Len(q) : s[i] = q[i]
    BY ConcatSet
  <1>2. DOMAIN q = 1 .. Len(q)
    BY DEF IsSeq
  <1> HIDE DEF s
  <1>3. ASSUME NEW i \in 1 .. Len(q)
        PROVE  Fits(q[i], D \cup {q[j] : j \in 1 .. i - 1})
    <2>1. \A j \in 1 .. i - 1 : j \in 1 .. Len(q)
      BY <1>1
    <2>2. {s[j] : j \in 1 .. i - 1} = {q[j] : j \in 1 .. i - 1}
      BY <1>1, <2>1
    <2>3. i \in DOMAIN s
      BY <1>1
    <2>4. QED
      BY <1>1, <2>2, <2>3 DEF Suits, s
  <1>4. QED
    BY <1>2, <1>3 DEF Suits

\* The first transaction of a queue, and the others behind it.
LEMMA SuitsTail ==
  ASSUME NEW q, NEW D, Suits(q, D), q # <<>>
  PROVE  Fits(q[1], D) /\ Suits(Tail(q), D \cup {q[1]})
  <1> DEFINE r == Tail(q)
  <1>1. /\ IsSeq(r) /\ Len(q) \in Nat \ {0} /\ DOMAIN q = 1 .. Len(q)
        /\ DOMAIN r = 1 .. Len(q) - 1
        /\ \A i \in 1 .. Len(q) - 1 : r[i] = q[i + 1]
    BY TailSeq DEF Suits
  <1> HIDE DEF r
  <1>2. Fits(q[1], D)
    <2>1. 1 \in DOMAIN q
      BY <1>1
    <2>2. QED
      BY <2>1 DEF Suits, Fits
  <1>3. ASSUME NEW i \in 1 .. Len(q) - 1
        PROVE  Fits(r[i], (D \cup {q[1]}) \cup {r[j] : j \in 1 .. i - 1})
    <2>1. i + 1 \in DOMAIN q /\ i + 1 - 1 = i /\ 1 \in 1 .. i
      BY <1>1
    <2>2. Fits(q[i + 1], D \cup {q[j] : j \in 1 .. i})
      BY <2>1 DEF Suits
    <2>3. {r[j] : j \in 1 .. i - 1} \subseteq {q[j] : j \in 1 .. i}
      <3>1. \A j \in 1 .. i - 1 : j + 1 \in 1 .. i /\ j \in 1 .. Len(q) - 1
        BY <1>1
      <3>2. QED
        BY <1>1, <3>1
    <2>4. r[i] = q[i + 1]
      BY <1>1
    <2>5. q[1] \in {q[j] : j \in 1 .. i}
      BY <2>1
    <2>6. QED
      BY <2>2, <2>3, <2>4, <2>5 DEF Fits
  <1>4. QED
    BY <1>1, <1>2, <1>3 DEF Suits, r

\* A clean state is a state, and what its head builds on lies below it.
LEMMA CleanFacts ==
  ASSUME NEW d, IsClean(d)
  PROVE  /\ IsDb(d) /\ d.head \in Ids /\ d.applied = ChainTrxs[d.head]
         /\ d.recent = ToSet(ChainTrxs[d.head])
  <1>1. /\ d.head \in Ids /\ d = [head |-> d.head, applied |-> ChainTrxs[d.head],
                                  recent |-> ToSet(ChainTrxs[d.head])]
    BY DEF IsClean, Replay
  <1>2. d.applied = ChainTrxs[d.head] /\ d.recent = ToSet(ChainTrxs[d.head])
    BY <1>1
  <1>3. IsSeq(d.applied)
    BY <1>1, <1>2, ChainTrxsRecursion
  <1>4. IsDb(d)
    BY <1>1, <1>2, <1>3 DEF IsDb
  <1>5. QED
    BY <1>1, <1>2, <1>4

\* The empty chain.
LEMMA GenesisClean == IsClean(GenesisState)
  <1>1. Path[Genesis] = {} /\ ChainTrxs[Genesis] = <<>> /\ Genesis \in Ids /\ ToSet(<<>>) = {}
    BY PathRecursion, ChainTrxsRecursion, SuitsEmpty DEF Ids
  <1>2. GenesisState.head = Genesis /\ GenesisState = Replay(Genesis)
    BY <1>1 DEF GenesisState, Replay
  <1>3. QED
    BY <1>1, <1>2 DEF IsClean

\* The duplicate check and the conflicts look at the same transactions.
LEMMA AppliesFits ==
  ASSUME NEW t, NEW d, IsDb(d)
  PROVE  applies(t, d, FALSE) <=> Fits(t, d.recent)
  <1>1. d.recent = ToSet(d.applied)
    BY DEF IsDb
  <1>2. QED
    BY <1>1 DEF applies, Fits

\* Applied transactions are recorded.
LEMMA WithTrxs ==
  ASSUME NEW d, IsDb(d), NEW q, IsSeq(q)
  PROVE  LET e == with_trxs(d, q, FALSE)
         IN  /\ IsDb(e) /\ e.head = d.head /\ e.applied = d.applied \o q
             /\ e.recent = d.recent \cup ToSet(q)
  <1>1. d.head \in Ids /\ IsSeq(d.applied) /\ d.recent = ToSet(d.applied)
        /\ d = [head |-> d.head, applied |-> d.applied, recent |-> ToSet(d.applied)]
    BY DEF IsDb
  <1>2. IsSeq(d.applied \o q) /\ ToSet(d.applied \o q) = ToSet(d.applied) \cup ToSet(q)
    BY <1>1, ConcatSet
  <1> DEFINE e == with_trxs(d, q, FALSE)
  <1>3. e = [head |-> d.head, applied |-> d.applied \o q, recent |-> d.recent \cup ToSet(q)]
    <2>1. e = [d EXCEPT !.applied = d.applied \o q, !.recent = d.recent \cup ToSet(q)]
      BY DEF with_trxs
    <2> HIDE DEF e
    <2>2. QED
      BY <1>1, <2>1
  <1> HIDE DEF e
  <1>4. e.head = d.head /\ e.applied = d.applied \o q /\ e.recent = d.recent \cup ToSet(q)
    BY <1>3
  <1>5. IsDb(e)
    BY <1>1, <1>2, <1>3, <1>4 DEF IsDb
  <1>6. QED
    BY <1>4, <1>5 DEF e

\* One transaction more.
LEMMA WithTrx ==
  ASSUME NEW d, IsDb(d), NEW t
  PROVE  LET e == with_trxs(d, <<t>>, FALSE)
         IN  IsDb(e) /\ e.head = d.head /\ e.recent = d.recent \cup {t}
  <1>1. IsSeq(<<t>>) /\ ToSet(<<t>>) = {t}
    BY DEF IsSeq, ToSet
  <1>2. QED
    BY <1>1, WithTrxs

\* A block applies when it builds on the pending block's previous block, is
\* valid and its transactions suit the state.
LEMMA BlockApplies ==
  ASSUME IsDb(db), NEW b \in Blocks
  PROVE  block_applies(b, FALSE) <=>
           previous = Prev[b] /\ b \notin Unsound /\ Suits(Trxs[b], db.recent)
  <1> DEFINE q == Trxs[b]
  <1>1. IsSeq(q) /\ Len(q) \in Nat /\ DOMAIN q = 1 .. Len(q)
    BY ConstantsAssumption DEF IsSeq
  <1> HIDE DEF q
  <1>2. ASSUME NEW i \in 1 .. Len(q)
        PROVE  applies(q[i], with_trxs(db, SubSeq(q, 1, i - 1), FALSE), FALSE)
                 <=> Fits(q[i], db.recent \cup {q[j] : j \in 1 .. i - 1})
    <2> DEFINE s == SubSeq(q, 1, i - 1)
    <2>1. s \in Seq(ToSet(q)) /\ Len(s) = i - 1 /\ \A j \in 1 .. i - 1 : s[j] = q[j]
      <3>1. q \in Seq(ToSet(q)) /\ i - 1 <= Len(q) /\ i - 1 \in Nat
        BY <1>1 DEF IsSeq
      <3>2. ASSUME NEW Q, NEW p \in Seq(Q), NEW n \in Nat, n <= Len(p)
            PROVE  /\ SubSeq(p, 1, n) \in Seq(Q) /\ Len(SubSeq(p, 1, n)) = n
                   /\ \A j \in 1 .. n : SubSeq(p, 1, n)[j] = p[j]
        BY <3>2, SubSeqProperties
      <3>3. QED
        BY <3>1, <3>2
    <2> HIDE DEF s
    <2>2. IsSeq(s) /\ DOMAIN s = 1 .. i - 1
      BY <2>1, SeqOfItself
    <2>3. ToSet(s) = {q[j] : j \in 1 .. i - 1}
      BY <2>1, <2>2 DEF ToSet
    <2> DEFINE e == with_trxs(db, s, FALSE)
    <2>4. IsDb(e) /\ e.recent = db.recent \cup ToSet(s)
      BY <2>2, WithTrxs
    <2> HIDE DEF e
    <2>5. applies(q[i], e, FALSE) <=> Fits(q[i], e.recent)
      BY <2>4, AppliesFits
    <2>6. QED
      BY <2>3, <2>4, <2>5 DEF e, s
  <1>3. QED
    BY <1>1, <1>2 DEF block_applies, Suits, q

\* A block that was applied: the state records its transactions, and is clean if
\* it was clean and the block builds on it.
LEMMA BlockApplied ==
  ASSUME IsDb(db), NEW b \in Blocks
  PROVE  LET e == block_applied(b, FALSE)
         IN  /\ IsDb(e) /\ e.head = b /\ db.recent \subseteq e.recent
             /\ IsClean(db) /\ previous = db.head /\ block_applies(b, FALSE) => IsClean(e)
  <1> DEFINE e == block_applied(b, FALSE)
             d == with_trxs(db, Trxs[b], FALSE)
  <1>1. IsSeq(Trxs[b]) /\ b \in Ids
    BY ConstantsAssumption DEF IsSeq, Ids
  <1>2. /\ IsDb(d) /\ d.head = db.head /\ d.applied = db.applied \o Trxs[b]
        /\ d.recent = db.recent \cup ToSet(Trxs[b])
    BY <1>1, WithTrxs
  <1>3. e = [d EXCEPT !.head = b]
    BY DEF block_applied
  <1> HIDE DEF e, d
  <1>4. d = [head |-> d.head, applied |-> d.applied, recent |-> ToSet(d.applied)] /\ IsSeq(d.applied)
    BY <1>2 DEF IsDb
  <1>5. e = [head |-> b, applied |-> d.applied, recent |-> ToSet(d.applied)]
    BY <1>3, <1>4
  <1>6. e.head = b /\ e.applied = d.applied /\ e.recent = ToSet(d.applied) /\ d.recent = ToSet(d.applied)
    BY <1>4, <1>5
  <1>7. IsDb(e)
    BY <1>1, <1>4, <1>5, <1>6 DEF IsDb
  <1>8. ASSUME IsClean(db), previous = db.head, block_applies(b, FALSE)
        PROVE  IsClean(e)
    <2>1. db.head = Prev[b] /\ b \notin Unsound /\ Suits(Trxs[b], db.recent)
      BY <1>8, BlockApplies
    <2>2. db.applied = ChainTrxs[Prev[b]] /\ db.recent = ToSet(ChainTrxs[Prev[b]])
      BY <1>8, <2>1, CleanFacts
    <2>3. ChainTrxs[b] = ChainTrxs[Prev[b]] \o Trxs[b]
      BY ChainTrxsRecursion
    <2>4. e = Replay(b)
      BY <1>2, <1>5, <2>2, <2>3 DEF Replay
    <2>5. Sound(b)
      BY <2>1, <2>2 DEF Sound
    <2>6. \A c \in Path[b] : Sound(c)
      BY <1>8, <2>1, <2>5, PathRecursion DEF IsClean
    <2>7. QED
      BY <1>1, <1>6, <2>4, <2>6 DEF IsClean
  <1>9. QED
    BY <1>2, <1>6, <1>7, <1>8 DEF e

----------------------------------------------------------------------------
(* Undo levels.                                                            *)

\* Every level is a clean state, each on the line of the next and of the top.
Stack(l, top) ==
  /\ IsSeq(l)
  /\ \A i \in DOMAIN l : IsClean(l[i]) /\ Anc(l[i].head, top)
  /\ \A i, j \in DOMAIN l : i < j => Anc(l[i].head, l[j].head)

\* A state on its levels.  With the pending session its top level is the state
\* without the pending transactions; without it the state itself is clean.
Base(l, d, pend) ==
  /\ IsDb(d) /\ Stack(l, d.head)
  /\ IF pend THEN l # <<>> /\ Last(l).recent \subseteq d.recent ELSE IsClean(d)

\* The oldest level goes when there are MaxUndo of them.
Trimmed(l) == IF Len(l) = MaxUndo THEN Tail(l) ELSE l

\* The last element of a sequence.
LEMMA LastSeq ==
  ASSUME NEW s, IsSeq(s), s # <<>>
  PROVE  Len(s) \in DOMAIN s /\ Last(s) = s[Len(s)] /\ Len(s) \in Nat \ {0} /\ DOMAIN s = 1 .. Len(s)
  <1>1. Len(s) \in Nat \ {0} /\ DOMAIN s = 1 .. Len(s)
    BY FrontSeq
  <1>2. QED
    BY <1>1 DEF Last

\* Opening a level puts it on top.
LEMMA OpenedTop ==
  ASSUME NEW s, IsSeq(s), NEW x
  PROVE  Front(Append(s, x)) = s /\ Last(Append(s, x)) = x
  <1> DEFINE t == Append(s, x)
             f == Front(t)
  <1>1. /\ IsSeq(t) /\ t # <<>> /\ Len(s) \in Nat /\ DOMAIN s = 1 .. Len(s)
        /\ Len(t) = Len(s) + 1 /\ \A i \in 1 .. Len(s) : t[i] = s[i]
        /\ t[Len(s) + 1] = x
    BY AppendSeq
  <1> HIDE DEF t
  <1>2. Last(t) = x
    BY <1>1, LastSeq
  <1>3. /\ IsSeq(f) /\ DOMAIN f = 1 .. Len(t) - 1
        /\ \A i \in 1 .. Len(t) - 1 : f[i] = t[i] /\ Len(f) = Len(t) - 1
    BY <1>1, FrontSeq
  <1>4. Len(f) = Len(t) - 1
    BY <1>1, FrontSeq
  <1> HIDE DEF f
  <1>5. Len(f) = Len(s) /\ \A i \in 1 .. Len(s) : f[i] = s[i]
    BY <1>1, <1>3, <1>4
  <1>6. f = s
    <2> DEFINE E == ToSet(f) \cup ToSet(s)
    <2>1. f \in Seq(E) /\ s \in Seq(E)
      BY <1>3 DEF IsSeq
    <2> HIDE DEF E
    <2>2. QED
      BY <1>5, <2>1, SeqEqual
  <1>7. QED
    BY <1>2, <1>6 DEF t, f

\* What is left when the oldest level goes.
LEMMA TrimFacts ==
  ASSUME NEW l, IsSeq(l)
  PROVE  /\ IsSeq(Trimmed(l)) /\ ToSet(Trimmed(l)) \subseteq ToSet(l)
         /\ l # <<>> => Trimmed(l) # <<>> /\ Last(Trimmed(l)) = Last(l)
         /\ l # <<>> /\ Front(l) # <<>> =>
              /\ Front(Trimmed(l)) # <<>> /\ Len(Trimmed(l)) # 1
              /\ Last(Front(Trimmed(l))) = Last(Front(l))
  <1>1. CASE Len(l) # MaxUndo
    <2>1. Trimmed(l) = l
      BY <1>1 DEF Trimmed
    <2>2. ASSUME l # <<>>, Front(l) # <<>>
          PROVE  Len(l) # 1
      <3>1. IsSeq(Front(l)) /\ Len(Front(l)) = Len(l) - 1 /\ Len(l) \in Nat
        BY <2>2, FrontSeq
      <3>2. Len(Front(l)) \in Nat \ {0}
        BY <2>2, <3>1, FrontSeq
      <3>3. QED
        BY <3>1, <3>2
    <2>3. QED
      BY <2>1, <2>2
  <1>2. CASE Len(l) = MaxUndo
    <2> DEFINE t == Tail(l)
    <2>1. MaxUndo \in Nat /\ MaxUndo >= 3 /\ l # <<>>
      <3>1. MaxUndo \in Nat \ {0, 1, 2}
        BY ConstantsAssumption
      <3>2. Len(<<>>) = 0
        OBVIOUS
      <3>3. QED
        BY <1>2, <3>1, <3>2
    <2>2. /\ IsSeq(t) /\ DOMAIN l = 1 .. Len(l) /\ DOMAIN t = 1 .. Len(l) - 1
          /\ \A i \in 1 .. Len(l) - 1 : t[i] = l[i + 1]
      BY <2>1, TailSeq
    <2>3. Trimmed(l) = t
      BY <1>2 DEF Trimmed
    <2> HIDE DEF t
    <2>4. Len(t) = Len(l) - 1 /\ t # <<>>
      <3>1. 1 \in DOMAIN t
        BY <1>2, <2>1, <2>2
      <3>2. t # <<>>
        BY <3>1
      <3>3. Len(t) \in Nat /\ DOMAIN t = 1 .. Len(t)
        BY <2>2, <3>2, LastSeq
      <3>4. Len(t) = Len(l) - 1
        BY <1>2, <2>1, <2>2, <3>3
      <3>5. QED
        BY <3>2, <3>4
    <2>5. ToSet(t) \subseteq ToSet(l)
      <3>1. \A i \in 1 .. Len(l) - 1 : i + 1 \in 1 .. Len(l)
        BY <1>2, <2>1
      <3>2. QED
        BY <2>2, <3>1 DEF ToSet
    <2>6. Last(t) = Last(l)
      <3>1. Last(t) = t[Len(l) - 1] /\ Last(l) = l[Len(l)]
        BY <2>1, <2>2, <2>4, LastSeq
      <3>2. Len(l) - 1 \in 1 .. Len(l) - 1 /\ Len(l) - 1 + 1 = Len(l)
        BY <1>2, <2>1
      <3>3. QED
        BY <2>2, <3>1, <3>2
    <2> DEFINE f == Front(t)
               g == Front(l)
    <2>7. /\ IsSeq(f) /\ Len(f) = Len(l) - 2 /\ \A i \in 1 .. Len(l) - 2 : f[i] = l[i + 1]
          /\ IsSeq(g) /\ Len(g) = Len(l) - 1 /\ \A i \in 1 .. Len(l) - 1 : g[i] = l[i]
      <3>1. /\ IsSeq(f) /\ Len(f) = Len(t) - 1 /\ \A i \in 1 .. Len(t) - 1 : f[i] = t[i]
        BY <2>2, <2>4, FrontSeq
      <3>2. IsSeq(g) /\ Len(g) = Len(l) - 1 /\ \A i \in 1 .. Len(l) - 1 : g[i] = l[i]
        BY <2>1, FrontSeq
      <3> HIDE DEF f, g
      <3>3. Len(t) - 1 = Len(l) - 2 /\ \A i \in 1 .. Len(l) - 2 : i \in 1 .. Len(l) - 1
        BY <1>2, <2>1, <2>4
      <3>4. QED
        BY <2>2, <3>1, <3>2, <3>3
    <2> HIDE DEF f, g
    <2>8. f # <<>> /\ g # <<>>
      <3>1. Len(<<>>) = 0
        OBVIOUS
      <3>2. QED
        BY <1>2, <2>1, <2>7, <3>1
    <2>9. Last(f) = Last(g)
      <3>1. Last(f) = f[Len(l) - 2] /\ Last(g) = g[Len(l) - 1]
        BY <2>7, <2>8, LastSeq
      <3>2. /\ Len(l) - 2 \in 1 .. Len(l) - 2 /\ Len(l) - 2 + 1 = Len(l) - 1
            /\ Len(l) - 1 \in 1 .. Len(l) - 1
        BY <1>2, <2>1
      <3>3. QED
        BY <2>7, <3>1, <3>2
    <2>10. Len(t) # 1
      BY <1>2, <2>1, <2>4
    <2>11. QED
      BY <2>2, <2>3, <2>4, <2>5, <2>6, <2>8, <2>9, <2>10 DEF f, g
  <1>3. QED
    BY <1>1, <1>2

\* What start_undo_session() and undo() make of the levels.
LEMMA OpenFacts ==
  ASSUME NEW l, IsSeq(l), NEW d
  PROVE  LET o == start_undo_session(l, d)
         IN  /\ o = Append(Trimmed(l), d) /\ IsSeq(o) /\ o # <<>>
             /\ Front(o) = Trimmed(l) /\ Last(o) = d
             /\ ToSet(o) \subseteq ToSet(l) \cup {d}
             /\ undone(o) = IF l = <<>> THEN <<d>> ELSE Trimmed(l)
  <1> DEFINE o == start_undo_session(l, d)
  <1>1. o = Append(Trimmed(l), d)
    BY DEF start_undo_session, Trimmed
  <1>2. IsSeq(Trimmed(l)) /\ ToSet(Trimmed(l)) \subseteq ToSet(l)
    BY TrimFacts
  <1> HIDE DEF o
  <1>3. /\ IsSeq(o) /\ o # <<>> /\ Len(Trimmed(l)) \in Nat /\ Len(o) = Len(Trimmed(l)) + 1
        /\ DOMAIN Trimmed(l) = 1 .. Len(Trimmed(l))
    BY <1>1, <1>2, AppendSeq
  <1>4. Front(o) = Trimmed(l) /\ Last(o) = d
    BY <1>1, <1>2, OpenedTop
  <1>5. ToSet(o) \subseteq ToSet(l) \cup {d}
    BY <1>1, <1>2, AppendSet
  <1>6. CASE l = <<>>
    <2>1. Len(l) = 0 /\ MaxUndo # 0
      BY <1>6, ConstantsAssumption
    <2>2. Trimmed(l) = <<>>
      BY <1>6, <2>1 DEF Trimmed
    <2>3. o = <<d>>
      BY <1>1, <2>2
    <2>4. undone(o) = <<d>>
      BY <2>3 DEF undone
    <2>5. QED
      BY <1>1, <1>3, <1>4, <1>5, <1>6, <2>4 DEF o
  <1>7. CASE l # <<>>
    <2>1. Trimmed(l) # <<>>
      BY <1>7, TrimFacts
    <2>2. Len(Trimmed(l)) # 0
      BY <1>2, <2>1, LastSeq
    <2>3. undone(o) = Front(o)
      BY <1>3, <2>2 DEF undone
    <2>4. QED
      BY <1>1, <1>3, <1>4, <1>5, <1>7, <2>3 DEF o
  <1>8. QED
    BY <1>6, <1>7

\* The levels without the top one.
LEMMA StackFront ==
  ASSUME NEW l, NEW top, Stack(l, top), l # <<>>
  PROVE  /\ IsClean(Last(l)) /\ Anc(Last(l).head, top)
         /\ Stack(Front(l), Last(l).head) /\ Stack(Front(l), top)
         /\ ToSet(Front(l)) \subseteq ToSet(l)
  <1> DEFINE f == Front(l)
             n == Len(l)
  <1>1. /\ IsSeq(f) /\ n \in Nat \ {0} /\ DOMAIN l = 1 .. n /\ DOMAIN f = 1 .. n - 1
        /\ \A i \in 1 .. n - 1 : f[i] = l[i]
    BY FrontSeq DEF Stack
  <1>2. Last(l) = l[n] /\ n \in DOMAIN l
    BY LastSeq DEF Stack
  <1> HIDE DEF f, n
  <1>3. \A i \in DOMAIN f : i \in DOMAIN l /\ i < n /\ f[i] = l[i]
    BY <1>1
  <1>4. IsClean(Last(l)) /\ Anc(Last(l).head, top)
    BY <1>2 DEF Stack
  <1>5. \A i \in DOMAIN f : IsClean(f[i]) /\ Anc(f[i].head, top) /\ Anc(f[i].head, Last(l).head)
    BY <1>2, <1>3 DEF Stack
  <1>6. \A i, j \in DOMAIN f : i < j => Anc(f[i].head, f[j].head)
    BY <1>3 DEF Stack
  <1>7. ToSet(f) \subseteq ToSet(l)
    BY <1>3 DEF ToSet
  <1>8. QED
    BY <1>1, <1>4, <1>5, <1>6, <1>7 DEF Stack, f

\* The levels without the oldest one.
LEMMA StackTrim ==
  ASSUME NEW l, NEW top, Stack(l, top)
  PROVE  Stack(Trimmed(l), top)
  <1>1. CASE Len(l) # MaxUndo
    BY <1>1 DEF Trimmed
  <1>2. CASE Len(l) = MaxUndo
    <2> DEFINE t == Tail(l)
               n == Len(l)
    <2>1. Trimmed(l) = t
      BY <1>2 DEF Trimmed
    <2>2. l # <<>>
      <3>1. Len(<<>>) = 0 /\ MaxUndo # 0
        BY ConstantsAssumption
      <3>2. QED
        BY <1>2, <3>1
    <2>3. /\ IsSeq(t) /\ n \in Nat \ {0} /\ DOMAIN l = 1 .. n /\ DOMAIN t = 1 .. n - 1
          /\ \A i \in 1 .. n - 1 : t[i] = l[i + 1]
      BY <2>2, TailSeq DEF Stack
    <2> HIDE DEF t, n
    <2>4. \A i \in DOMAIN t : i \in Int /\ i + 1 \in DOMAIN l /\ t[i] = l[i + 1]
      BY <2>3
    <2>5. \A i \in DOMAIN t : IsClean(t[i]) /\ Anc(t[i].head, top)
      BY <2>4 DEF Stack
    <2>6. ASSUME NEW i \in DOMAIN t, NEW j \in DOMAIN t, i < j
          PROVE  Anc(t[i].head, t[j].head)
      <3>1. i + 1 \in DOMAIN l /\ j + 1 \in DOMAIN l /\ i + 1 < j + 1
        BY <2>4, <2>6
      <3>2. QED
        BY <2>4, <3>1 DEF Stack
    <2>7. QED
      BY <2>1, <2>3, <2>5, <2>6 DEF Stack
  <1>3. QED
    BY <1>1, <1>2

\* A clean state on top of its levels is one level more, and what builds on the
\* top is a top of the same levels.
LEMMA StackAppend ==
  ASSUME NEW l, NEW d, Stack(l, d.head), IsClean(d)
  PROVE  Stack(Append(l, d), d.head)
  <1> DEFINE o == Append(l, d)
             n == Len(l)
  <1>1. /\ IsSeq(o) /\ n \in Nat /\ DOMAIN l = 1 .. n /\ DOMAIN o = 1 .. n + 1
        /\ \A i \in 1 .. n : o[i] = l[i]
        /\ o[n + 1] = d
    BY AppendSeq DEF Stack
  <1> HIDE DEF o, n
  <1>2. \A i \in DOMAIN o : (i \in DOMAIN l /\ o[i] = l[i]) \/ (i = n + 1 /\ o[i] = d)
    BY <1>1
  <1>3. Anc(d.head, d.head)
    BY AncFacts DEF IsClean
  <1>4. \A i \in DOMAIN o : IsClean(o[i]) /\ Anc(o[i].head, d.head)
    BY <1>2, <1>3 DEF Stack
  <1>5. ASSUME NEW i \in DOMAIN o, NEW j \in DOMAIN o, i < j
        PROVE  Anc(o[i].head, o[j].head)
    <2>1. i \in 1 .. n
      BY <1>1, <1>5
    <2>2. CASE j = n + 1
      BY <1>1, <1>4, <2>2
    <2>3. CASE j # n + 1
      BY <1>1, <1>2, <1>5, <2>1, <2>3 DEF Stack
    <2>4. QED
      BY <2>2, <2>3
  <1>6. QED
    BY <1>1, <1>4, <1>5 DEF Stack, o

\* The levels below a block are below its descendants.
LEMMA StackTop ==
  ASSUME NEW l, NEW a \in Ids, NEW b \in Ids, Stack(l, a), Anc(a, b)
  PROVE  Stack(l, b)
  <1>1. ASSUME NEW i \in DOMAIN l
        PROVE  Anc(l[i].head, b)
    <2>1. l[i].head \in Ids /\ Anc(l[i].head, a)
      BY DEF Stack, IsClean
    <2>2. QED
      BY <2>1, AncFacts
  <1>2. QED
    BY <1>1 DEF Stack

\* Dropping the oldest level.
LEMMA BaseTrim ==
  ASSUME NEW l, NEW d, NEW pend \in BOOLEAN, Base(l, d, pend)
  PROVE  Base(Trimmed(l), d, pend)
  <1>1. IsDb(d) /\ Stack(Trimmed(l), d.head) /\ IsSeq(l)
    BY StackTrim DEF Base, Stack
  <1>2. l # <<>> => Trimmed(l) # <<>> /\ Last(Trimmed(l)) = Last(l)
    BY <1>1, TrimFacts
  <1>3. QED
    BY <1>1, <1>2 DEF Base

\* A level opened and undone again costs at most the oldest one.
LEMMA BaseKept ==
  ASSUME NEW l, NEW d, NEW pend \in BOOLEAN, Base(l, d, pend)
  PROVE  LET k == undone(start_undo_session(l, d))
         IN  Base(k, d, pend) /\ ToSet(k) \subseteq ToSet(l) \cup {d} /\ (pend => Last(k) = Last(l))
  <1>1. IsSeq(l) /\ IsDb(d)
    BY DEF Base, Stack
  <1>2. undone(start_undo_session(l, d)) = IF l = <<>> THEN <<d>> ELSE Trimmed(l)
    BY <1>1, OpenFacts
  <1>3. CASE l # <<>>
    BY <1>1, <1>2, <1>3, BaseTrim, TrimFacts
  <1>4. CASE l = <<>>
    <2>1. ~ pend /\ IsClean(d)
      BY <1>4 DEF Base
    <2>2. Stack(<<>>, d.head) /\ Append(<<>>, d) = <<d>>
      BY <1>4 DEF Base
    <2>3. Stack(<<d>>, d.head)
      BY <2>1, <2>2, StackAppend
    <2>4. ToSet(<<d>>) = {d}
      BY DEF ToSet
    <2>5. QED
      BY <1>1, <1>2, <1>4, <2>1, <2>3, <2>4 DEF Base
  <1>5. QED
    BY <1>3, <1>4

\* Undoing the pending session.
LEMMA BaseReset ==
  ASSUME NEW l, NEW d, Base(l, d, TRUE)
  PROVE  /\ Base(undone(l), Last(l), FALSE) /\ Anc(Last(l).head, d.head)
         /\ ToSet(undone(l)) \subseteq ToSet(l) /\ (undone(l) # <<>>)
  <1>1. Stack(l, d.head) /\ IsSeq(l) /\ l # <<>>
    BY DEF Base, Stack
  <1>2. /\ IsClean(Last(l)) /\ Anc(Last(l).head, d.head) /\ Stack(Front(l), Last(l).head)
        /\ ToSet(Front(l)) \subseteq ToSet(l)
    BY <1>1, StackFront
  <1>3. IsDb(Last(l))
    BY <1>2, CleanFacts
  <1>4. CASE Len(l) # 1
    <2>1. undone(l) = Front(l)
      BY <1>4 DEF undone
    <2>2. Front(l) # <<>>
      <3>1. Len(Front(l)) = Len(l) - 1 /\ Len(l) \in Nat \ {0} /\ Len(<<>>) = 0
        BY <1>1, FrontSeq
      <3>2. QED
        BY <1>4, <3>1
    <2>3. QED
      BY <1>2, <1>3, <2>1, <2>2 DEF Base
  <1>5. CASE Len(l) = 1
    <2>1. undone(l) = l
      BY <1>5 DEF undone
    <2>2. Last(l) = l[1] /\ DOMAIN l = 1 .. 1
      BY <1>1, <1>5, LastSeq
    <2>3. Anc(l[1].head, l[1].head)
      BY <1>2, <2>2, AncFacts DEF IsClean
    <2>4. Stack(l, Last(l).head)
      BY <1>1, <2>2, <2>3 DEF Stack
    <2>5. QED
      BY <1>1, <1>2, <1>3, <2>1, <2>4 DEF Base
  <1>6. QED
    BY <1>4, <1>5

\* Undoing the level of a block.
LEMMA BasePop ==
  ASSUME NEW l, NEW d, Base(l, d, FALSE), l # <<>>
  PROVE  Base(Front(l), Last(l), FALSE)
  <1>1. Stack(l, d.head)
    BY DEF Base
  <1>2. IsClean(Last(l)) /\ Stack(Front(l), Last(l).head)
    BY <1>1, StackFront
  <1>3. QED
    BY <1>2, CleanFacts DEF Base

\* A level opened at a clean state, below a state that builds on it.
LEMMA BaseOpen ==
  ASSUME NEW l, NEW d, NEW e, Base(l, d, FALSE), IsDb(e), Anc(d.head, e.head), d.recent \subseteq e.recent
  PROVE  LET o == start_undo_session(l, d)
         IN  Base(o, e, TRUE) /\ (IsClean(e) => Base(o, e, FALSE))
  <1> DEFINE o == start_undo_session(l, d)
  <1>1. Stack(l, d.head) /\ IsClean(d) /\ IsSeq(l) /\ d.head \in Ids /\ e.head \in Ids
    BY DEF Base, Stack, IsDb
  <1>2. o = Append(Trimmed(l), d) /\ o # <<>> /\ Last(o) = d
    BY <1>1, OpenFacts
  <1> HIDE DEF o
  <1>3. Stack(o, d.head)
    BY <1>1, <1>2, StackTrim, StackAppend
  <1>4. Stack(o, e.head)
    BY <1>1, <1>3, StackTop
  <1>5. QED
    BY <1>2, <1>4 DEF Base, o

\* A state with more transactions on the same levels.
LEMMA BaseGrow ==
  ASSUME NEW l, NEW d, NEW e, Base(l, d, TRUE), IsDb(e), e.head = d.head, d.recent \subseteq e.recent
  PROVE  Base(l, e, TRUE)
  BY DEF Base

----------------------------------------------------------------------------
(* Between two calls.                                                      *)

\* The state and the levels without the pending session.
Unpended(l, d, pend) == IF pend THEN Last(l) ELSE d
Remaining(l, pend) == IF pend THEN undone(l) ELSE l

\* The block that the pending block builds on was undone without pop_block(): no
\* block applies until pop_block() or a block of another branch resets it.
Lost(p, d) == p \in Blocks /\ Prev[p] = d.head

\* No level leads back to an earlier block.
Stuck(l, d) == \A i \in DOMAIN l : l[i].head = d.head

\* The pending transactions are applied, and would apply again.
Full(l, d, pend, q) == Suits(q, Unpended(l, d, pend).recent) /\ ToSet(q) \subseteq d.recent

\* What a call finds: p is the pending block's previous block, q its transactions.
Rests(l, d, pend, p, q) ==
  /\ Base(l, d, pend) /\ Unpended(l, d, pend).head = d.head
  /\ p = d.head \/ Lost(p, d)
  /\ Full(l, d, pend, q) \/ Stuck(l, d)

\* The state without the pending session.
LEMMA UnpendedFacts ==
  ASSUME NEW l, NEW d, NEW pend \in BOOLEAN, Base(l, d, pend)
  PROVE  LET r == Unpended(l, d, pend)
         IN  /\ IsClean(r) /\ IsDb(r) /\ r.recent \subseteq d.recent /\ Anc(r.head, d.head)
             /\ Base(Remaining(l, pend), r, FALSE)
  <1>1. CASE pend
    <2>1. /\ Base(undone(l), Last(l), FALSE) /\ Anc(Last(l).head, d.head)
          /\ ToSet(undone(l)) \subseteq ToSet(l)
      BY <1>1, BaseReset
    <2>2. Last(l).recent \subseteq d.recent
      BY <1>1 DEF Base
    <2>3. QED
      BY <1>1, <2>1, <2>2 DEF Base, Unpended, Remaining
  <1>2. CASE ~ pend
    <2>1. Base(l, d, FALSE) /\ IsDb(d) /\ IsClean(d)
      BY <1>2 DEF Base
    <2>2. Anc(d.head, d.head)
      BY <2>1, AncFacts DEF IsDb
    <2>3. QED
      BY <1>2, <2>1, <2>2 DEF Unpended, Remaining
  <1>3. QED
    BY <1>1, <1>2

\* Levels taken from a stuck stack are stuck.
LEMMA StuckSub ==
  ASSUME NEW l, NEW k, NEW d, ToSet(k) \subseteq ToSet(l) \cup {d}, Stuck(l, d)
  PROVE  Stuck(k, d)
  <1>1. \A x \in ToSet(l) \cup {d} : x.head = d.head
    BY DEF Stuck, ToSet
  <1>2. \A i \in DOMAIN k : k[i] \in ToSet(k)
    BY DEF ToSet
  <1>3. QED
    BY <1>1, <1>2 DEF Stuck

\* A level opened and undone again changes nothing between calls.
LEMMA RestsKept ==
  ASSUME NEW l, NEW d, NEW pend \in BOOLEAN, NEW p, NEW q, Rests(l, d, pend, p, q)
  PROVE  Rests(undone(start_undo_session(l, d)), d, pend, p, q)
  <1> DEFINE k == undone(start_undo_session(l, d))
  <1>1. Base(k, d, pend) /\ ToSet(k) \subseteq ToSet(l) \cup {d} /\ (pend => Last(k) = Last(l))
    BY BaseKept DEF Rests
  <1> HIDE DEF k
  <1>2. Unpended(k, d, pend) = Unpended(l, d, pend)
    BY <1>1 DEF Unpended
  <1>3. Stuck(l, d) => Stuck(k, d)
    BY <1>1, StuckSub
  <1>4. Full(l, d, pend, q) => Full(k, d, pend, q)
    BY <1>2 DEF Full
  <1>5. QED
    BY <1>1, <1>2, <1>3, <1>4 DEF Rests, k

\* A pending block without transactions.
LEMMA RestsEmpty ==
  ASSUME NEW l, NEW d, NEW pend, NEW p, Base(l, d, pend), Unpended(l, d, pend).head = d.head,
         p = d.head \/ Lost(p, d)
  PROVE  Rests(l, d, pend, p, <<>>)
  BY SuitsEmpty DEF Rests, Full

\* Undoing the pending session and dropping its transactions.
LEMMA RestsReset ==
  ASSUME NEW l, NEW d, NEW pend \in BOOLEAN, NEW p, NEW q, Rests(l, d, pend, p, q)
  PROVE  LET r == Unpended(l, d, pend)
         IN  Base(Remaining(l, pend), r, FALSE) /\ (p = r.head \/ Lost(p, r))
  BY UnpendedFacts DEF Rests, Lost

----------------------------------------------------------------------------
(* One pending transaction.                                                *)

\* The levels that push_transaction() leaves.
Settled(l, d, pend) ==
  Front(start_undo_session(IF pend THEN l ELSE start_undo_session(l, d), d))

\* push_transaction() leaves the state without the pending session on top.
LEMMA SettledFacts ==
  ASSUME NEW l, NEW d, NEW pend \in BOOLEAN, Base(l, d, pend)
  PROVE  LET k == Settled(l, d, pend)
         IN  /\ Base(k, d, TRUE) /\ Last(k) = Unpended(l, d, pend)
             /\ ToSet(k) \subseteq ToSet(l) \cup {d}
  <1> DEFINE o == start_undo_session(l, d)
             k == Settled(l, d, pend)
  <1>1. IsSeq(l) /\ IsDb(d)
    BY DEF Base, Stack
  <1>2. CASE pend
    <2>1. k = Trimmed(l)
      BY <1>1, <1>2, OpenFacts DEF Settled
    <2>2. Base(Trimmed(l), d, TRUE) /\ l # <<>>
      BY <1>2, BaseTrim DEF Base
    <2>3. Last(Trimmed(l)) = Last(l) /\ ToSet(Trimmed(l)) \subseteq ToSet(l)
      BY <1>1, <2>2, TrimFacts
    <2> HIDE DEF k
    <2>4. QED
      BY <1>2, <2>1, <2>2, <2>3 DEF Unpended, k
  <1>3. CASE ~ pend
    <2>1. IsSeq(o) /\ Last(o) = d /\ ToSet(o) \subseteq ToSet(l) \cup {d} /\ o # <<>>
      BY <1>1, OpenFacts
    <2>2. Base(l, d, FALSE) /\ Anc(d.head, d.head)
      BY <1>1, <1>3, AncFacts DEF Base, IsDb
    <2>3. Base(o, d, TRUE)
      BY <1>1, <2>2, BaseOpen
    <2>4. k = Front(start_undo_session(o, d))
      BY <1>3 DEF Settled
    <2> HIDE DEF o, k
    <2>5. k = Trimmed(o)
      BY <2>1, <2>4, OpenFacts
    <2>6. Base(Trimmed(o), d, TRUE)
      BY <2>3, BaseTrim
    <2>7. Last(Trimmed(o)) = Last(o) /\ ToSet(Trimmed(o)) \subseteq ToSet(o)
      BY <2>1, TrimFacts
    <2>8. QED
      BY <1>3, <2>1, <2>5, <2>6, <2>7 DEF Unpended, k
  <1>4. QED
    BY <1>2, <1>3

\* A transaction that joins the pending ones.
LEMMA FullGrows ==
  ASSUME NEW l, NEW d, NEW pend \in BOOLEAN, NEW q, NEW t, NEW k, Base(l, d, pend),
         Full(l, d, pend, q), Fits(t, d.recent), Last(k) = Unpended(l, d, pend)
  PROVE  Full(k, with_trxs(d, <<t>>, FALSE), TRUE, Append(q, t))
  <1> DEFINE r == Unpended(l, d, pend)
             e == with_trxs(d, <<t>>, FALSE)
  <1>1. r.recent \subseteq d.recent /\ IsDb(d) /\ Suits(q, r.recent) /\ ToSet(q) \subseteq d.recent
    BY UnpendedFacts DEF Base, Full
  <1>2. e.recent = d.recent \cup {t}
    BY <1>1, WithTrx
  <1> HIDE DEF r, e
  <1>3. Suits(Append(q, t), r.recent)
    BY <1>1, SuitsAppend
  <1>4. ToSet(Append(q, t)) \subseteq e.recent
    BY <1>1, <1>2, AppendSet DEF Suits
  <1>5. Unpended(k, e, TRUE) = r
    BY DEF Unpended, r
  <1>6. QED
    BY <1>3, <1>4, <1>5 DEF Full, e

----------------------------------------------------------------------------
(* The inductive invariant.                                                *)

\* One life of the process, with pending transactions that fit into a block.
OneLife == MaxRestarts = 0 /\ MaxQueue <= MaxTrxs

Rested == Rests(levels, db, pending_session, previous, transactions)
Based ==
  /\ Base(levels, db, pending_session)
  /\ Unpended(levels, db, pending_session).head = db.head

\* The block that both branches of a switch leave.
ForkPoint(t) == Prev[t.second[1]]

\* The branches lead upwards from it; the call began at the state from.
Branches(t, from) ==
  /\ t.second \in Seq(Blocks) /\ t.second # <<>> /\ t.todo \in Seq(Blocks)
  /\ \A i \in DOMAIN t.todo : Num[t.todo[i]] > Num[ForkPoint(t)]
  /\ \A i \in DOMAIN t.second : Num[t.second[i]] > Num[ForkPoint(t)]
  /\ IsClean(from)

\* The first block of the old branch was applied before, and the pending
\* transactions with it.
Returnable(t, from, q) == t.second[1] \in Path[from.head] /\ Suits(q, from.recent)

\* At the fork point, with a pending block that builds on another block: every
\* block of the switch fails.
Stranded == Rested /\ Lost(previous, db) /\ db.head = ForkPoint(task)

PopInv ==
  /\ task.mode = "switch" /\ Branches(task, outcome.from) /\ Based
  /\ task.todo # <<>> /\ Prev[task.todo[1]] = ForkPoint(task)
  /\ \/ Stranded
     \/ /\ previous = db.head \/ (Lost(previous, db) /\ db.head # ForkPoint(task))
        /\ pending_session => db.head # ForkPoint(task)
        /\ \/ Returnable(task, outcome.from, transactions)
           \/ Stuck(levels, db) /\ db.head # ForkPoint(task)

UnwindInv ==
  /\ task.mode = "switch" /\ Branches(task, outcome.from)
  /\ Base(levels, db, pending_session)
  /\ \/ Stranded
     \/ /\ previous = db.head \/ (Lost(previous, db) /\ pending_session)
        /\ pending_session => db.head # ForkPoint(task)
        /\ Returnable(task, outcome.from, transactions)

\* A block on top of the head.
Linear ==
  /\ task.mode = "linear" /\ task.new \in Blocks
  /\ task.todo = <<>> \/ task.todo = <<task.new>>
  /\ ~ pending_session /\ transactions = <<>> /\ Base(levels, db, FALSE)

\* The next block of a branch: on the fork point, on a block of the branch, or
\* nowhere.
Climbing ==
  /\ task.mode \in {"switch", "restore"} /\ Branches(task, outcome.from)
  /\ \/ Stranded /\ Prev[task.todo[1]] = ForkPoint(task)
     \/ /\ previous = db.head /\ Returnable(task, outcome.from, transactions)
        /\ \/ /\ ~ pending_session /\ db.head = ForkPoint(task)
              /\ task.mode = "restore" => task.todo[1] = task.second[1]
           \/ /\ db.head # ForkPoint(task)
              /\ Full(levels, db, pending_session, transactions)
              /\ pending_session <=> transactions # <<>>

ApplyInv ==
  /\ Based
  /\ IF task.todo = <<>>
       THEN /\ previous = db.head /\ task.mode \in {"linear", "switch", "restore"}
            /\ Full(levels, db, pending_session, transactions)
       ELSE \/ Linear /\ (previous = db.head \/ (Lost(previous, db) /\ Prev[task.new] # previous))
            \/ Climbing

\* Pending transactions pushed again behind a block that was applied to a clean
\* state: the pending session is on top of the session of the block.
Orderly ==
  /\ pending_session <=> transactions # <<>>
  /\ Based /\ Full(levels, db, pending_session, transactions)
  /\ Base(IF pending_session THEN Front(levels) ELSE levels,
          Unpended(levels, db, pending_session), TRUE)
  /\ task.mode = "restore" => Suits(task.old_trx, db.recent)

\* Pushed again behind a block that was applied on top of the pending session:
\* the session of the block is on top, and the first of them is a duplicate.
Dirty ==
  /\ pending_session /\ transactions = <<>>
  /\ task.old_trx # <<>> /\ task.old_trx[1] \in db.recent
  /\ IsDb(db) /\ IsSeq(levels) /\ levels # <<>>
  /\ Base(Front(levels), Last(levels), TRUE)
  /\ Last(levels).head = Prev[db.head] /\ Last(Front(levels)).head = Prev[db.head]

RepushInv ==
  /\ task.todo # <<>> /\ previous = db.head /\ db.head = task.todo[1]
  /\ \/ Linear /\ task.old_trx = <<>>
     \/ /\ task.mode \in {"switch", "restore"} /\ Branches(task, outcome.from)
        /\ IsSeq(task.old_trx) /\ Len(transactions) + Len(task.old_trx) <= MaxQueue
        /\ Returnable(task, outcome.from, transactions \o task.old_trx)
        /\ Orderly \/ Dirty

\* What every step keeps, whatever the phase.
Framed ==
  /\ restarts = 0 /\ previous \in Ids
  /\ fork_head \in Blocks \cup {None} /\ fork_index \subseteq Blocks
  /\ \A b \in linked : b \in Blocks /\ Prev[b] # Genesis
  /\ IsSeq(transactions) /\ Len(transactions) <= MaxQueue

Phased ==
  /\ task.phase \notin {"replay", "down"}
  /\ task.phase = "idle" => Rested
  /\ task.phase = "pop" => PopInv
  /\ task.phase = "unwind" => UnwindInv
  /\ task.phase = "apply" => ApplyInv
  /\ task.phase = "repush" => RepushInv

ChainInv == SessionInv /\ Framed /\ Phased

\* A new process.
LEMMA ChainInit == Init => ChainInv
  <1> SUFFICES ASSUME Init
               PROVE  ChainInv
    OBVIOUS
  <1>1. SessionInv
    BY SessionInit
  <1>2. Framed
    <2>1. IsSeq(<<>>) /\ Len(<<>>) = 0 /\ 0 <= MaxQueue
      BY SuitsEmpty, ConstantsAssumption
    <2>2. QED
      BY <2>1 DEF Init, Framed, Ids
  <1>3. Rests(<<>>, GenesisState, FALSE, Genesis, <<>>)
    <2>1. IsDb(GenesisState) /\ IsClean(GenesisState) /\ GenesisState.head = Genesis
      BY GenesisClean, CleanFacts DEF GenesisState
    <2>2. Stack(<<>>, Genesis)
      BY SuitsEmpty DEF Stack
    <2>3. QED
      BY <2>1, <2>2, RestsEmpty DEF Base, Unpended
  <1>4. Rested
    BY <1>3 DEF Init, Rested
  <1>5. task.phase = "idle"
    BY DEF Init, Idle
  <1>6. QED
    BY <1>1, <1>2, <1>4, <1>5 DEF ChainInv, Phased

\* What push_transaction() makes of a state at rest.
LEMMA RestsPushed ==
  ASSUME NEW l, NEW d, NEW pend \in BOOLEAN, NEW p, NEW q, NEW t, Rests(l, d, pend, p, q)
  PROVE  LET k == Settled(l, d, pend)
         IN  /\ Rests(k, d, TRUE, p, q)
             /\ Fits(t, d.recent) => Rests(k, with_trxs(d, <<t>>, FALSE), TRUE, p, Append(q, t))
  <1> DEFINE k == Settled(l, d, pend)
             e == with_trxs(d, <<t>>, FALSE)
  <1>0. Base(l, d, pend) /\ IsDb(d)
    BY DEF Rests, Base
  <1>1. Base(k, d, TRUE) /\ Last(k) = Unpended(l, d, pend) /\ ToSet(k) \subseteq ToSet(l) \cup {d}
    BY <1>0, SettledFacts
  <1>2. IsDb(e) /\ e.head = d.head /\ e.recent = d.recent \cup {t}
    BY <1>0, WithTrx
  <1>3. Full(l, d, pend, q) /\ Fits(t, d.recent) => Full(k, e, TRUE, Append(q, t))
    <2> HIDE DEF k
    <2> QED
      BY <1>0, <1>1, FullGrows
  <1> HIDE DEF k, e
  <1>4. Base(k, e, TRUE)
    BY <1>1, <1>2, BaseGrow
  <1>5. Unpended(k, d, TRUE) = Unpended(l, d, pend) /\ Unpended(k, e, TRUE) = Unpended(l, d, pend)
    BY <1>1 DEF Unpended
  <1>6. Stuck(l, d) => Stuck(k, d) /\ Stuck(k, e)
    <2>1. Stuck(l, d) => Stuck(k, d)
      BY <1>1, StuckSub
    <2>2. QED
      BY <1>2, <2>1 DEF Stuck
  <1>7. Full(l, d, pend, q) => Full(k, d, TRUE, q)
    BY <1>5 DEF Full
  <1>8. Rests(k, d, TRUE, p, q)
    <2>1. Unpended(k, d, TRUE).head = d.head /\ (p = d.head \/ Lost(p, d))
      BY <1>5 DEF Rests
    <2>2. Full(k, d, TRUE, q) \/ Stuck(k, d)
      BY <1>6, <1>7 DEF Rests
    <2>3. QED
      BY <1>1, <2>1, <2>2 DEF Rests
  <1>9. ASSUME Fits(t, d.recent)
        PROVE  Rests(k, e, TRUE, p, Append(q, t))
    <2>1. Unpended(k, e, TRUE).head = e.head /\ (p = e.head \/ Lost(p, e))
      BY <1>2, <1>5 DEF Rests, Lost
    <2>2. Full(k, e, TRUE, Append(q, t)) \/ Stuck(k, e)
      BY <1>3, <1>6, <1>9 DEF Rests
    <2>3. QED
      BY <1>4, <2>1, <2>2 DEF Rests
  <1>10. QED
    BY <1>8, <1>9 DEF k, e

\* push_transaction() between two calls.
LEMMA PushTransactionKeeps ==
  ASSUME OneLife, ChainInv, NEW t, NEW skip_size \in BOOLEAN, push_transaction(t, skip_size)
  PROVE  Framed' /\ Phased'
  <1> DEFINE k == Settled(levels, db, pending_session)
             e == with_trxs(db, <<t>>, FALSE)
  <1>0. /\ task.phase = "idle" /\ task' = task /\ pending_session \in BOOLEAN
        /\ Rests(levels, db, pending_session, previous, transactions)
        /\ IsSeq(transactions) /\ Len(transactions) < MaxQueue /\ Len(transactions) \in Nat
    <2>1. task.phase = "idle" /\ task' = task /\ Len(transactions) < MaxQueue
      BY DEF push_transaction
    <2>2. IsSeq(transactions) /\ pending_session \in BOOLEAN /\ Rested
      BY <2>1 DEF ChainInv, SessionInv, Framed, Phased
    <2>3. Len(transactions) \in Nat
      BY <2>2 DEF IsSeq
    <2>4. QED
      BY <2>1, <2>2, <2>3 DEF Rested
  <1>1. applies(t, db, FALSE) <=> Fits(t, db.recent)
    BY <1>0, AppliesFits DEF Rests, Base
  <1>2. Len(transactions) < MaxTrxs
    BY <1>0, ConstantsAssumption DEF OneLife
  <1>3. /\ levels' = k /\ pending_session' = TRUE /\ previous' = previous
        /\ Fits(t, db.recent) => transactions' = Append(transactions, t) /\ db' = e
        /\ ~ Fits(t, db.recent) => transactions' = transactions /\ db' = db
    BY <1>1, <1>2 DEF push_transaction, push_transaction_vars, Settled
  <1>4. /\ Rests(k, db, TRUE, previous, transactions)
        /\ Fits(t, db.recent) => Rests(k, e, TRUE, previous, Append(transactions, t))
    BY <1>0, RestsPushed
  <1>5. IsSeq(Append(transactions, t)) /\ Len(Append(transactions, t)) = Len(transactions) + 1
    BY <1>0, AppendSeq
  <1> HIDE DEF k, e
  <1>6. Rested'
    <2>1. CASE Fits(t, db.recent)
      BY <1>3, <1>4, <2>1 DEF Rested
    <2>2. CASE ~ Fits(t, db.recent)
      BY <1>3, <1>4, <2>2 DEF Rested
    <2>3. QED
      BY <2>1, <2>2
  <1>7. IsSeq(transactions') /\ Len(transactions') <= MaxQueue
    <2>1. transactions' \in {transactions, Append(transactions, t)}
      BY <1>3
    <2>2. \A n \in Nat : n < MaxQueue => n <= MaxQueue /\ n + 1 <= MaxQueue
      BY ConstantsAssumption
    <2>3. QED
      BY <1>0, <1>5, <2>1, <2>2
  <1>8. Framed'
    BY <1>3, <1>7 DEF push_transaction, ChainInv, Framed, fork_vars, disk_vars
  <1>9. QED
    BY <1>0, <1>6, <1>8 DEF Phased

\* A caller may have emptied the pending block.
LEMMA RestsQueue ==
  ASSUME NEW l, NEW d, NEW pend \in BOOLEAN, NEW p, NEW q, NEW r \in {q, <<>>}, Rests(l, d, pend, p, q)
  PROVE  Rests(l, d, pend, p, r)
  <1>1. CASE r = q
    BY <1>1
  <1>2. CASE r = <<>>
    BY <1>2, RestsEmpty DEF Rests
  <1>3. QED
    BY <1>1, <1>2

\* What fork_database::push_block leaves.
LEMMA ForkPushed ==
  ASSUME Framed, NEW b \in Blocks
  PROVE  /\ pushed_head(b) \in Blocks /\ pushed_index(b) \subseteq Blocks
         /\ \A c \in pushed_linked(b) : c \in Blocks /\ Prev[c] # Genesis
  BY DEF Framed, pushed_head, pushed_index, pushed_linked, fork_links, fork_raises

\* The heights of a block and its previous block.
LEMMA Above ==
  ASSUME NEW b \in Blocks
  PROVE  /\ b \in Ids /\ Prev[b] \in Ids /\ Num[b] \in Nat /\ Num[Prev[b]] \in Nat
         /\ Num[b] = Num[Prev[b]] + 1 /\ Prev[b] # b
  BY NumRecursion DEF Ids

\* push_block(): refused, linear, stale or a switch.
LEMMA PushBlockKeeps ==
  ASSUME ChainInv, NEW b \in Blocks, NEW queue \in {transactions, <<>>}, push_block(b, queue)
  PROVE  Framed' /\ Phased'
  <1>0. /\ task.phase = "idle" /\ pending_session \in BOOLEAN /\ Framed
        /\ Rests(levels, db, pending_session, previous, transactions)
    <2>1. task.phase = "idle"
      BY DEF push_block, push_block_refused, push_block_linear, push_block_stale, push_block_switch
    <2>2. QED
      BY <2>1 DEF ChainInv, SessionInv, Phased, Rested
  <1>1. Rests(levels, db, pending_session, previous, queue)
    BY <1>0, RestsQueue
  <1>2. IsSeq(queue) /\ Len(queue) <= MaxQueue
    <2>1. IsSeq(<<>>) /\ Len(<<>>) = 0 /\ 0 <= MaxQueue
      BY SuitsEmpty, ConstantsAssumption
    <2>2. QED
      BY <1>0, <2>1 DEF Framed
  <1> DEFINE r == Unpended(levels, db, pending_session)
             h == pushed_head(b)
  <1>3. r = reset_db /\ r.head = db.head /\ IsClean(r) /\ db.head \in Ids /\ Num[db.head] \in Nat
    <2>1. r.head = db.head /\ IsClean(r) /\ db.head \in Ids
      BY <1>0, UnpendedFacts DEF Rests, Base, IsDb
    <2>2. r = reset_db
      BY DEF Unpended, reset_db
    <2>3. QED
      BY <2>1, <2>2, NumRecursion
  <1>4. h \in Blocks
    BY <1>0, ForkPushed
  <1>5. (fork_push(b) \/ UNCHANGED fork_vars) => (fork_index' \subseteq Blocks /\ fork_head' \in Blocks \cup {None}
          /\ \A c \in linked' : c \in Blocks /\ Prev[c] # Genesis)
    BY <1>0, ForkPushed DEF fork_push, fork_vars, Framed
  <1> HIDE DEF r, h
  <1>6. CASE push_block_refused(b, queue)
    <2>1. Framed'
      BY <1>0, <1>2, <1>5, <1>6 DEF push_block_refused, Framed, disk_vars
    <2>2. Rested' /\ task' = task
      BY <1>1, <1>6 DEF push_block_refused, Rested, undo_vars
    <2>3. QED
      BY <1>0, <2>1, <2>2 DEF Phased
  <1>7. CASE push_block_stale(b, queue)
    <2>1. Framed'
      BY <1>0, <1>2, <1>5, <1>7 DEF push_block_stale, Framed, disk_vars
    <2>2. Rested' /\ task' = task
      BY <1>1, <1>7 DEF push_block_stale, Rested, undo_vars
    <2>3. QED
      BY <1>0, <2>1, <2>2 DEF Phased
  <1>8. CASE push_block_linear(b)
    <2> DEFINE k == Remaining(levels, pending_session)
    <2>1. Base(k, r, FALSE) /\ (previous = r.head \/ Lost(previous, r))
      BY <1>0, RestsReset DEF r
    <2>2. /\ db' = r /\ levels' = k /\ ~ pending_session' /\ transactions' = <<>>
          /\ previous' = previous /\ restarts' = restarts /\ fork_push(b) /\ Prev[h] = db.head
      BY <1>3, <1>8 DEF push_block_linear, reset_levels, Remaining, disk_vars, h
    <2> HIDE DEF k
    <2>3. /\ task'.phase = "apply" /\ task'.mode = "linear" /\ task'.new = b /\ task'.todo = <<b>>
      BY <1>8 DEF push_block_linear, Idle
    <2>4. ASSUME Lost(previous, r)
          PROVE  Prev[b] # previous
      <3> SUFFICES ASSUME Prev[b] = previous
                   PROVE  FALSE
        OBVIOUS
      <3>1. previous \in Blocks /\ Prev[previous] = db.head
        BY <1>3, <2>4 DEF Lost
      <3>2. Num[previous] = Num[db.head] + 1 /\ Num[b] = Num[previous] + 1 /\ Num[previous] \in Nat
        BY <3>1, Above
      <3>3. Num[h] = Num[db.head] + 1 /\ Num[h] \in Nat
        BY <1>4, <2>2, Above
      <3>4. h # b
        BY <1>3, <3>2, <3>3
      <3>5. h = fork_head /\ ~ (Num[b] > Num[h])
        BY <3>4 DEF h, pushed_head, fork_raises
      <3>6. QED
        BY <1>3, <3>2, <3>3, <3>5
    <2>5. Linear'
      BY <2>1, <2>2, <2>3 DEF Linear
    <2>6. Based'
      <3>1. Base(levels', db', FALSE) /\ Unpended(levels', db', FALSE) = db'
        BY <2>1, <2>2 DEF Unpended
      <3>2. pending_session' = FALSE
        BY <1>8 DEF push_block_linear
      <3>3. QED
        BY <3>1, <3>2 DEF Based
    <2>7. previous' = db'.head \/ (Lost(previous', db') /\ Prev[task'.new] # previous')
      BY <2>1, <2>2, <2>3, <2>4
    <2>8. task'.todo # <<>>
      BY <2>3
    <2>9. ApplyInv'
      BY <2>5, <2>6, <2>7, <2>8 DEF ApplyInv
    <2>10. Framed'
      <3>1. IsSeq(<<>>) /\ Len(<<>>) = 0 /\ 0 <= MaxQueue
        BY SuitsEmpty, ConstantsAssumption
      <3>2. QED
        BY <1>0, <1>5, <2>2, <3>1 DEF Framed
    <2>11. QED
      BY <2>3, <2>9, <2>10 DEF Phased
  <1>9. CASE push_block_switch(b, queue)
    <2>1. Framed'
      BY <1>0, <1>2, <1>5, <1>9 DEF push_block_switch, Framed, disk_vars
    <2>2. /\ Rested' /\ UNCHANGED <<undo_vars, previous>> /\ transactions' = queue
          /\ Prev[h] # db.head /\ Num[h] > Num[db.head]
      BY <1>1, <1>9 DEF push_block_switch, Rested, undo_vars, h
    <2>3. CASE ~ branches_found(h, previous, pushed_index(b), pushed_linked(b))
      <3>1. task' = task
        BY <1>9, <2>3 DEF push_block_switch, h
      <3>2. QED
        BY <1>0, <2>1, <2>2, <3>1 DEF Phased
    <2>4. CASE branches_found(h, previous, pushed_index(b), pushed_linked(b))
      <3> DEFINE first == Ascending(first_branch(h, previous))
                 second == Ascending(second_branch(h, previous))
      <3>1. /\ task'.phase = "pop" /\ task'.mode = "switch" /\ task'.todo = first /\ task'.second = second
            /\ outcome' = Started(queue)
        BY <1>9, <2>4 DEF push_block_switch, h, Idle
      <3>2. outcome'.from = r
        BY <1>3, <3>1 DEF Started, Returned
      <3>3. previous \in Blocks
        BY <1>0, <2>4, ForkPushed DEF branches_found
      <3>4. Num[previous] <= Num[h] /\ Num[h] \in Nat /\ Num[previous] \in Nat
        <4>1. previous # db.head => Num[previous] = Num[db.head] + 1
          BY <1>1, Above DEF Rests, Lost
        <4>2. Num[h] \in Nat
          BY <1>4, Above
        <4>3. QED
          BY <1>3, <2>2, <4>1, <4>2
      <3>5. h \in Path[previous] => h = previous
        <4>1. previous \in Ids
          BY <3>3 DEF Ids
        <4>2. h \in Path[previous] => Num[h] <= Num[previous] /\ (Num[h] = Num[previous] => h = previous)
          BY <4>1, PathFacts
        <4>3. QED
          BY <3>4, <4>2
      <3>6. /\ first \in Seq(Blocks) /\ first # <<>>
            /\ second \in Seq(Blocks) /\ second # <<>>
            /\ Prev[first[1]] = Prev[second[1]]
            /\ \A i \in DOMAIN first : Num[first[i]] > Num[Prev[first[1]]]
            /\ \A i \in DOMAIN second : Num[second[i]] > Num[Prev[second[1]]]
            /\ second[1] \in Path[previous]
        BY <1>4, <3>3, <3>5, BranchFacts
      <3> HIDE DEF first, second
      <3>7. Branches(task', outcome'.from)
        BY <1>3, <3>1, <3>2, <3>6 DEF Branches, ForkPoint
      <3>8. Based'
        BY <2>2 DEF Rested, Rests, Based
      <3> DEFINE f == Prev[second[1]]
      <3>9. ForkPoint(task') = f /\ second[1] \in Blocks
        <4>1. second[1] \in Blocks
          BY <3>6
        <4>2. QED
          BY <3>1, <4>1 DEF ForkPoint
      <3>10. second[1] \in Path[db.head] => db.head # f
        <4>1. second[1] \in Path[db.head] => Num[second[1]] <= Num[db.head]
          BY <1>3, PathFacts
        <4>2. Num[second[1]] = Num[f] + 1 /\ Num[f] \in Nat
          BY <3>9, Above
        <4>3. QED
          BY <1>3, <4>1, <4>2
      <3>11. CASE second[1] \notin Path[db.head]
        <4>1. previous # db.head /\ Lost(previous, db) /\ Prev[previous] = db.head
          BY <1>1, <3>6, <3>11 DEF Rests, Lost
        <4>2. second[1] = previous
          BY <3>3, <3>6, <3>11, <4>1, PathRecursion
        <4>3. db.head = f
          BY <4>1, <4>2
        <4>4. Stranded'
          BY <2>2, <3>9, <4>1, <4>3 DEF Stranded, Lost, undo_vars
        <4>5. PopInv'
          BY <3>1, <3>6, <3>7, <3>8, <3>9, <4>4 DEF PopInv
        <4>6. QED
          BY <2>1, <3>1, <4>5 DEF Phased
      <3>12. CASE second[1] \in Path[db.head]
        <4>1. previous' = db'.head \/ (Lost(previous', db') /\ db'.head # ForkPoint(task'))
          BY <1>1, <2>2, <3>9, <3>10, <3>12 DEF Rests, undo_vars
        <4>2. db'.head # ForkPoint(task')
          BY <2>2, <3>9, <3>10, <3>12 DEF undo_vars
        <4>3. Returnable(task', outcome'.from, transactions') \/ Stuck(levels', db')
          <5>1. CASE Stuck(levels, db)
            BY <2>2, <5>1 DEF undo_vars
          <5>2. CASE Full(levels, db, pending_session, queue)
            BY <1>3, <2>2, <3>1, <3>2, <3>12, <5>2 DEF Full, Returnable, r
          <5>3. QED
            BY <1>1, <5>1, <5>2 DEF Rests
        <4>4. PopInv'
          BY <3>1, <3>6, <3>7, <3>8, <3>9, <4>1, <4>2, <4>3 DEF PopInv
        <4>5. QED
          BY <2>1, <3>1, <4>4 DEF Phased
      <3>13. QED
        BY <3>11, <3>12
    <2>5. QED
      BY <2>3, <2>4
  <1>10. QED
    BY <1>6, <1>7, <1>8, <1>9 DEF push_block

\* pop_block(), leaving a branch or unwinding one that failed.
LEMMA PopBlockKeeps ==
  ASSUME ChainInv, pop_block
  PROVE  Framed' /\ Phased'
  <1> DEFINE r == Unpended(levels, db, pending_session)
             k == Remaining(levels, pending_session)
             f == ForkPoint(task)
  <1>0. /\ task.phase \in {"pop", "unwind"} /\ pending_session \in BOOLEAN /\ Framed /\ SessionInv
        /\ db.head # f
    BY DEF pop_block, ChainInv, SessionInv, ForkPoint
  <1>1. /\ Base(levels, db, pending_session) /\ Branches(task, outcome.from)
        /\ task.phase = "pop" => PopInv
        /\ task.phase = "unwind" => UnwindInv
        /\ ~ Stranded
    BY <1>0 DEF ChainInv, Phased, PopInv, UnwindInv, Based, Stranded
  <1>2. /\ reset_active = 0 /\ reset_db = r /\ reset_levels = k
    BY <1>0, NoneAlive DEF reset_db, reset_levels, Unpended, Remaining
  <1>3. Base(k, r, FALSE) /\ ToSet(k) \subseteq ToSet(levels)
    <2>1. pending_session \in BOOLEAN /\ Base(levels, db, pending_session)
      BY <1>0, <1>1
    <2>2. Base(k, r, FALSE)
      BY <2>1, UnpendedFacts
    <2>3. ToSet(k) \subseteq ToSet(levels)
      <3>1. CASE pending_session
        BY <2>1, <3>1, BaseReset DEF Remaining
      <3>2. CASE ~ pending_session
        BY <3>2 DEF Remaining
      <3>3. QED
        BY <3>1, <3>2
    <2>4. QED
      BY <2>2, <2>3
  <1>4. pending_session => k # <<>>
    BY <1>1, BaseReset DEF Remaining
  <1>5. /\ pending_session' = FALSE /\ transactions' = transactions /\ restarts' = restarts
        /\ fork_index' = fork_index /\ linked' = linked
    BY DEF pop_block
  <1> HIDE DEF r, k, f
  <1>6. CASE k # <<>>
    <2>1. /\ db' = Last(k) /\ levels' = Front(k) /\ previous' = Last(k).head
          /\ fork_head' = popped_head /\ task' = task /\ outcome' = outcome
      BY <1>2, <1>6 DEF pop_block
    <2>2. Base(levels', db', FALSE) /\ db'.head \in Ids
      BY <1>3, <1>6, <2>1, BasePop DEF Base, IsDb
    <2>3. Unpended(levels', db', FALSE) = db'
      BY DEF Unpended
    <2>4. Based'
      BY <1>5, <2>2, <2>3 DEF Based
    <2>5. Framed'
      <3>1. popped_head \in Blocks \cup {None}
        <4>1. fork_head \in linked => fork_head \in Blocks /\ Prev[fork_head] \in Ids /\ Prev[fork_head] # Genesis
          BY <1>0, Above DEF Framed
        <4>2. QED
          BY <4>1 DEF popped_head, Ids
      <3>2. QED
        BY <1>0, <1>5, <2>1, <2>2, <3>1 DEF Framed
    <2>6. CASE task.phase = "pop"
      <3>1. /\ task.mode = "switch" /\ task.todo # <<>> /\ Prev[task.todo[1]] = ForkPoint(task)
            /\ \/ Returnable(task, outcome.from, transactions)
               \/ Stuck(levels, db)
        BY <1>1, <2>6 DEF PopInv
      <3>2. Stuck(levels, db) => Stuck(levels', db') /\ db'.head = db.head
        <4> SUFFICES ASSUME Stuck(levels, db)
                     PROVE  Stuck(levels', db') /\ db'.head = db.head
          OBVIOUS
        <4>1. IsSeq(k) /\ \A x \in ToSet(k) : x.head = db.head
          BY <1>3 DEF Stuck, ToSet, Base, Stack
        <4>2. Last(k) \in ToSet(k)
          BY <1>6, <4>1, LastSeq DEF ToSet
        <4>3. ToSet(Front(k)) \subseteq ToSet(k)
          BY <1>3, <1>6, StackFront DEF Base
        <4>4. \A i \in DOMAIN Front(k) : Front(k)[i] \in ToSet(Front(k))
          BY DEF ToSet
        <4>5. QED
          BY <2>1, <4>1, <4>2, <4>3, <4>4 DEF Stuck
      <3>3. PopInv'
        BY <1>0, <1>1, <1>5, <2>1, <2>4, <3>1, <3>2 DEF PopInv, f
      <3>4. QED
        BY <2>1, <2>5, <2>6, <3>3 DEF Phased
    <2>7. CASE task.phase = "unwind"
      <3>1. task.mode = "switch" /\ Returnable(task, outcome.from, transactions)
        BY <1>1, <2>7 DEF UnwindInv
      <3>2. UnwindInv'
        BY <1>1, <1>5, <2>1, <2>4, <3>1 DEF UnwindInv, Based
      <3>3. QED
        BY <2>1, <2>5, <2>7, <3>2 DEF Phased
    <2>8. QED
      BY <1>0, <2>6, <2>7
  <1>7. CASE k = <<>>
    <2>1. /\ db' = r /\ levels' = k /\ previous' = previous /\ fork_head' = fork_head
          /\ task'.phase = "idle"
      BY <1>2, <1>7 DEF pop_block, Ended, Idle
    <2>2. ~ pending_session /\ r = db
      BY <1>4, <1>7 DEF r, Unpended
    <2>3. previous = db.head \/ Lost(previous, db)
      BY <1>0, <1>1, <2>2 DEF PopInv, UnwindInv
    <2>4. Rests(k, r, FALSE, previous, transactions)
      <3>1. Stuck(k, r)
        BY <1>7 DEF Stuck
      <3>2. QED
        BY <1>3, <2>2, <2>3, <3>1 DEF Rests, Unpended
    <2>5. Rested'
      BY <1>5, <2>1, <2>4 DEF Rested
    <2>6. Framed'
      BY <1>0, <1>5, <2>1 DEF Framed
    <2>7. QED
      BY <2>1, <2>5, <2>6 DEF Phased
  <1>8. QED
    BY <1>6, <1>7

\* The loop of pop_block() ends at the fork point.
LEMMA PopsDoneKeeps ==
  ASSUME ChainInv, pops_done
  PROVE  Framed' /\ Phased'
  <1> DEFINE f == ForkPoint(task)
  <1>0. /\ task.phase \in {"pop", "unwind"} /\ pending_session \in BOOLEAN /\ Framed /\ Shaped
        /\ db.head = f
    BY DEF pops_done, ChainInv, SessionInv, ForkPoint
  <1>1. /\ UNCHANGED <<db, levels, active_sessions, pending_session, previous, transactions>>
        /\ UNCHANGED <<fork_index, linked, fork_head, restarts, outcome>>
    BY DEF pops_done, undo_vars, pending_vars, fork_vars, disk_vars
  <1>2. Framed'
    BY <1>0, <1>1 DEF Framed
  <1>3. CASE task.phase = "pop"
    <2>1. PopInv
      BY <1>3 DEF ChainInv, Phased
    <2>2. task' = [task EXCEPT !.phase = "apply"]
      BY <1>3 DEF pops_done
    <2>3. /\ task'.phase = "apply" /\ task'.mode = task.mode /\ task'.todo = task.todo
          /\ task'.second = task.second /\ ForkPoint(task') = f
      BY <1>0, <2>2 DEF Shaped, ForkPoint
    <2> HIDE DEF f
    <2>5. Branches(task', outcome'.from)
      BY <1>1, <2>1, <2>3 DEF PopInv, Branches, f
    <2>6. CASE Stranded
      <3>1. Stranded'
        BY <1>1, <2>3, <2>6 DEF Stranded, Rested, f
      <3>2. Climbing'
        BY <2>1, <2>3, <2>5, <3>1 DEF Climbing, PopInv, f
      <3>3. ApplyInv'
        BY <1>1, <2>1, <2>3, <3>2 DEF ApplyInv, PopInv, Based
      <3>4. QED
        BY <1>2, <2>3, <3>3 DEF Phased
    <2>7. CASE ~ Stranded
      <3>1. previous = db.head /\ ~ pending_session /\ Returnable(task, outcome.from, transactions)
        BY <1>0, <2>1, <2>7 DEF PopInv, f
      <3>2. Returnable(task', outcome'.from, transactions')
        BY <1>1, <2>3, <3>1 DEF Returnable
      <3>3. Climbing'
        BY <1>0, <1>1, <2>1, <2>3, <2>5, <3>1, <3>2 DEF Climbing, PopInv
      <3>4. ApplyInv'
        BY <1>1, <2>1, <2>3, <3>3 DEF ApplyInv, PopInv, Based
      <3>5. QED
        BY <1>2, <2>3, <3>4 DEF Phased
    <2>8. QED
      BY <2>6, <2>7
  <1>4. CASE task.phase = "unwind"
    <2>1. UnwindInv
      BY <1>4 DEF ChainInv, Phased
    <2>2. task' = [task EXCEPT !.phase = "apply", !.mode = "restore", !.todo = task.second]
      BY <1>4 DEF pops_done
    <2>3. /\ task'.phase = "apply" /\ task'.mode = "restore" /\ task'.todo = task.second
          /\ task'.second = task.second /\ ForkPoint(task') = f
      BY <1>0, <2>2 DEF Shaped, ForkPoint
    <2> HIDE DEF f
    <2>4. Branches(task', outcome'.from) /\ task.second # <<>>
      BY <1>1, <2>1, <2>3 DEF UnwindInv, Branches, f
    <2>5. CASE Stranded
      <3>1. Stranded'
        BY <1>1, <2>3, <2>5 DEF Stranded, Rested, f
      <3>2. Climbing'
        BY <2>1, <2>3, <2>4, <3>1 DEF Climbing, ForkPoint
      <3>3. Based'
        BY <1>1, <2>5 DEF Stranded, Rested, Rests, Based
      <3>4. ApplyInv'
        BY <2>3, <2>4, <3>2, <3>3 DEF ApplyInv
      <3>5. QED
        BY <1>2, <2>3, <3>4 DEF Phased
    <2>6. CASE ~ Stranded
      <3>1. previous = db.head /\ ~ pending_session /\ Returnable(task, outcome.from, transactions)
        BY <1>0, <2>1, <2>6 DEF UnwindInv, f
      <3>2. Returnable(task', outcome'.from, transactions')
        BY <1>1, <2>3, <3>1 DEF Returnable
      <3>3. Climbing'
        BY <1>0, <1>1, <2>1, <2>3, <2>4, <3>1, <3>2 DEF Climbing
      <3>4. Based'
        BY <1>1, <2>1, <3>1 DEF UnwindInv, Based, Unpended
      <3>5. ApplyInv'
        BY <2>3, <2>4, <3>3, <3>4 DEF ApplyInv
      <3>6. QED
        BY <1>2, <2>3, <3>5 DEF Phased
    <2>7. QED
      BY <2>5, <2>6
  <1>5. QED
    BY <1>0, <1>3, <1>4

\* Where an exception of apply_block leads.
LEMMA FailedFacts ==
  ASSUME Shaped, block_failed, Framed
  PROVE  /\ task.mode \in {"linear", "restore"} =>
              task'.phase = "idle" /\ fork_index' \subseteq Blocks /\ fork_head' = fork_head /\ linked' \subseteq linked
         /\ task.mode = "switch" /\ Branches(task, outcome.from) =>
              /\ task'.phase = "unwind" /\ task'.mode = "switch" /\ task'.second = task.second
              /\ Branches(task', outcome'.from) /\ ForkPoint(task') = ForkPoint(task)
              /\ outcome' = outcome
              /\ fork_index' \subseteq Blocks /\ fork_head' \in Blocks /\ linked' \subseteq linked
  <1>1. CASE task.mode \in {"linear", "restore"}
    BY <1>1 DEF block_failed, Ended, Idle, fork_remove, fork_vars, Framed
  <1>2. ASSUME task.mode = "switch", Branches(task, outcome.from)
        PROVE  /\ task'.phase = "unwind" /\ task'.mode = "switch" /\ task'.second = task.second
               /\ Branches(task', outcome'.from) /\ ForkPoint(task') = ForkPoint(task)
               /\ outcome' = outcome
               /\ fork_index' \subseteq Blocks /\ fork_head' \in Blocks /\ linked' \subseteq linked
    <2>1. /\ task' = [task EXCEPT !.phase = "unwind", !.todo = <<>>] /\ outcome' = outcome
          /\ fork_remove(ToSet(task.todo)) /\ fork_head' = Last(task.second)
      BY <1>2 DEF block_failed
    <2>2. /\ task'.phase = "unwind" /\ task'.mode = "switch" /\ task'.second = task.second
          /\ task'.todo = <<>>
      BY <1>2, <2>1 DEF Shaped
    <2>3. Branches(task', outcome'.from) /\ ForkPoint(task') = ForkPoint(task)
      BY <1>2, <2>1, <2>2 DEF Branches, ForkPoint
    <2>4. Last(task.second) \in Blocks
      <3>1. task.second \in Seq(Blocks) /\ IsSeq(task.second) /\ task.second # <<>>
        BY <1>2, SeqOfItself DEF Branches
      <3>2. QED
        BY <3>1, LastSeq
    <2>5. QED
      BY <2>1, <2>2, <2>3, <2>4 DEF fork_remove, Framed
  <1>3. QED
    BY <1>1, <1>2

\* A block that does not apply.
LEMMA ApplyFailedKeeps ==
  ASSUME ChainInv, apply_block, ~ block_applies(task.todo[1], FALSE)
  PROVE  Framed' /\ Phased'
  <1> DEFINE k == undone(start_undo_session(levels, db))
             f == ForkPoint(task)
             b == task.todo[1]
  <1>0. /\ task.phase = "apply" /\ pending_session \in BOOLEAN /\ Framed /\ Shaped
        /\ task.todo # <<>> /\ ApplyInv /\ Based
    BY DEF apply_block, ChainInv, SessionInv, Phased, ApplyInv
  <1>1. /\ levels' = k /\ block_failed
        /\ UNCHANGED <<db, active_sessions, pending_session, previous, transactions, restarts>>
    BY DEF apply_block, disk_vars
  <1>2. Base(k, db, pending_session) /\ (pending_session => Last(k) = Last(levels))
    BY <1>0, BaseKept DEF Based
  <1>3. Unpended(k, db, pending_session) = Unpended(levels, db, pending_session)
    BY <1>2 DEF Unpended
  <1>4. \A p, q : Rests(levels, db, pending_session, p, q) => Rests(k, db, pending_session, p, q)
    BY <1>0, RestsKept
  <1> HIDE DEF k, f
  <1>5. CASE Linear /\ (previous = db.head \/ (Lost(previous, db) /\ Prev[task.new] # previous))
    <2>1. /\ task'.phase = "idle" /\ fork_index' \subseteq Blocks /\ fork_head' = fork_head
          /\ linked' \subseteq linked
      BY <1>0, <1>1, <1>5, FailedFacts DEF Linear
    <2>2. Rests(k, db, pending_session, previous, transactions)
      <3>1. transactions = <<>> /\ (previous = db.head \/ Lost(previous, db))
        BY <1>5 DEF Linear
      <3>2. Unpended(k, db, pending_session).head = db.head
        BY <1>0, <1>3 DEF Based
      <3>3. QED
        BY <1>2, <3>1, <3>2, RestsEmpty
    <2>3. Rested'
      BY <1>1, <2>2 DEF Rested
    <2>4. Framed'
      BY <1>0, <1>1, <2>1 DEF Framed
    <2>5. QED
      BY <2>1, <2>3, <2>4 DEF Phased
  <1>6. CASE Climbing
    <2>1. task.mode \in {"switch", "restore"} /\ Branches(task, outcome.from)
      BY <1>6 DEF Climbing
    <2>2. Framed'
      BY <1>0, <1>1, <2>1, FailedFacts DEF Framed
    <2>3. CASE task.mode = "switch"
      <3>1. /\ task'.phase = "unwind" /\ task'.mode = "switch" /\ task'.second = task.second
            /\ Branches(task', outcome'.from) /\ ForkPoint(task') = f /\ outcome' = outcome
        BY <1>0, <1>1, <2>1, <2>3, FailedFacts DEF f
      <3>2. CASE Stranded
        <4>1. Stranded'
          BY <1>1, <1>4, <3>1, <3>2 DEF Stranded, Rested, f
        <4>2. UnwindInv'
          BY <1>1, <1>2, <3>1, <4>1 DEF UnwindInv
        <4>3. QED
          BY <2>2, <3>1, <4>2 DEF Phased
      <3>3. CASE ~ Stranded
        <4>1. previous = db.head /\ Returnable(task, outcome.from, transactions)
          BY <1>6, <3>3 DEF Climbing
        <4>2. pending_session => db.head # f
          BY <1>6, <3>3 DEF Climbing, f
        <4>3. Returnable(task', outcome'.from, transactions')
          BY <1>1, <3>1, <4>1 DEF Returnable
        <4>4. UnwindInv'
          BY <1>1, <1>2, <3>1, <4>1, <4>2, <4>3 DEF UnwindInv
        <4>5. QED
          BY <2>2, <3>1, <4>4 DEF Phased
      <3>4. QED
        BY <3>2, <3>3
    <2>4. CASE task.mode = "restore"
      <3>1. task'.phase = "idle"
        BY <1>0, <1>1, <2>4, FailedFacts
      <3>2. Rests(levels, db, pending_session, previous, transactions)
        <4>1. CASE Stranded
          BY <4>1 DEF Stranded, Rested
        <4>2. CASE /\ previous = db.head
                   /\ Full(levels, db, pending_session, transactions)
          BY <1>0, <4>2 DEF Rests, Based
        <4>3. CASE /\ previous = db.head /\ Returnable(task, outcome.from, transactions)
                   /\ ~ pending_session /\ db.head = f /\ b = task.second[1]
          <5>1. b \in Path[outcome.from.head] /\ IsClean(outcome.from) /\ b \in Blocks
            BY <2>1, <4>3 DEF Returnable, Branches
          <5>2. Sound(b) /\ Prev[b] = db.head
            BY <4>3, <5>1 DEF IsClean, f, ForkPoint
          <5>3. IsDb(db) /\ IsClean(db)
            BY <1>0, <4>3 DEF Based, Base
          <5>4. db.recent = ToSet(ChainTrxs[Prev[b]])
            BY <5>2, <5>3, CleanFacts
          <5>5. block_applies(b, FALSE)
            BY <4>3, <5>1, <5>2, <5>3, <5>4, BlockApplies DEF Sound
          <5>6. QED
            BY <5>5
        <4>4. QED
          BY <1>6, <2>4, <4>1, <4>2, <4>3 DEF Climbing, f
      <3>3. Rested'
        BY <1>1, <1>4, <3>2 DEF Rested
      <3>4. QED
        BY <2>2, <3>1, <3>3 DEF Phased
    <2>5. QED
      BY <2>1, <2>3, <2>4
  <1>7. QED
    BY <1>0, <1>5, <1>6 DEF ApplyInv

\* A block that applies.
LEMMA AppliedKeeps ==
  ASSUME ChainInv, apply_block, block_applies(task.todo[1], FALSE)
  PROVE  Framed' /\ Phased'
  <1> DEFINE o == start_undo_session(levels, db)
             f == ForkPoint(task)
             b == task.todo[1]
             e == block_applied(b, FALSE)
  <1>0. /\ task.phase = "apply" /\ pending_session \in BOOLEAN /\ Framed /\ Shaped
        /\ task.todo # <<>> /\ ApplyInv /\ Based
    BY DEF apply_block, ChainInv, SessionInv, Phased, ApplyInv
  <1>1. /\ levels' = o /\ db' = e /\ previous' = b /\ transactions' = <<>>
        /\ task' = [task EXCEPT !.phase = "repush", !.old_trx = transactions]
        /\ UNCHANGED <<pending_session, fork_index, linked, fork_head, restarts, outcome>>
    BY DEF apply_block, disk_vars, fork_vars
  <1>2. /\ task'.phase = "repush" /\ task'.old_trx = transactions /\ task'.todo = task.todo
        /\ task'.mode = task.mode /\ task'.second = task.second /\ task'.new = task.new
    BY <1>0, <1>1 DEF Shaped
  <1>3. b \in Blocks /\ IsDb(db) /\ IsSeq(levels) /\ IsSeq(transactions)
    <2>1. b \in Blocks
      <3>1. Linear => b \in Blocks
        BY <1>0 DEF Linear
      <3>2. Climbing => b \in Blocks
        BY <1>0 DEF Climbing, Branches
      <3>3. QED
        BY <1>0, <3>1, <3>2 DEF ApplyInv
    <2>2. QED
      BY <1>0, <2>1 DEF Based, Base, Stack, Framed
  <1>4. previous = Prev[b]
    BY <1>3, BlockApplies
  <1>5. /\ IsDb(e) /\ e.head = b /\ db.recent \subseteq e.recent
        /\ IsClean(db) /\ previous = db.head => IsClean(e)
    BY <1>3, BlockApplied
  <1> HIDE DEF o, f, b, e
  <1>6. Framed'
    <2>1. IsSeq(<<>>) /\ Len(<<>>) = 0 /\ 0 <= MaxQueue
      BY SuitsEmpty, ConstantsAssumption
    <2>2. QED
      BY <1>0, <1>1, <1>3, <2>1 DEF Framed, Ids
  <1>7. ASSUME ~ pending_session, previous = db.head
        PROVE  Base(o, e, FALSE) /\ Base(o, e, TRUE)
    <2>1. Base(levels, db, FALSE) /\ IsClean(db)
      BY <1>0, <1>7 DEF Based, Base
    <2>2. Anc(db.head, e.head)
      BY <1>3, <1>4, <1>5, <1>7, AncFacts
    <2>3. QED
      BY <1>5, <1>7, <2>1, <2>2, BaseOpen DEF o
  <1>8. CASE Linear /\ (previous = db.head \/ (Lost(previous, db) /\ Prev[task.new] # previous))
    <2>1. ~ pending_session /\ task.todo = <<task.new>> /\ b = task.new /\ transactions = <<>>
      BY <1>0, <1>8 DEF Linear, b
    <2>2. previous = db.head
      BY <1>4, <1>8, <2>1
    <2>3. Linear'
      BY <1>1, <1>2, <1>7, <1>8, <2>1, <2>2 DEF Linear
    <2>4. RepushInv'
      BY <1>0, <1>1, <1>2, <1>5, <2>1, <2>3 DEF RepushInv, b
    <2>5. QED
      BY <1>2, <1>6, <2>4 DEF Phased
  <1>9. CASE Climbing
    <2>1. task.mode \in {"switch", "restore"} /\ Branches(task, outcome.from)
      BY <1>9 DEF Climbing
    <2>2. ~ (Stranded /\ Prev[task.todo[1]] = f)
      <3>1. Stranded => previous # db.head
        BY Above DEF Stranded, Lost
      <3>2. Stranded => db.head = f
        BY DEF Stranded, f
      <3>3. QED
        BY <1>4, <3>1, <3>2 DEF b
    <2>3. previous = db.head /\ Returnable(task, outcome.from, transactions)
      BY <1>9, <2>2 DEF Climbing, f
    <2>4. Branches(task', outcome'.from)
      BY <1>1, <1>2, <2>1 DEF Branches, ForkPoint
    <2>5. Returnable(task', outcome'.from, transactions' \o task'.old_trx)
      <3>1. <<>> \o transactions = transactions
        BY <1>3 DEF IsSeq
      <3>2. QED
        BY <1>1, <1>2, <2>3, <3>1 DEF Returnable
    <2>6. IsSeq(task'.old_trx) /\ Len(transactions') + Len(task'.old_trx) <= MaxQueue
      <3>1. Len(<<>>) = 0 /\ Len(transactions) \in Nat /\ Len(transactions) <= MaxQueue
        BY <1>0, <1>3 DEF Framed, IsSeq
      <3>2. 0 + Len(transactions) <= MaxQueue
        BY <3>1
      <3>3. QED
        BY <1>1, <1>2, <1>3, <3>1, <3>2
    <2>7. Orderly' \/ Dirty'
      <3>1. CASE ~ pending_session
        <4>1. /\ task.mode = "restore" => Suits(transactions, e.recent)
          <5>1. CASE db.head = f
            <6> SUFFICES ASSUME task.mode = "restore"
                         PROVE  Suits(transactions, e.recent)
              OBVIOUS
            <6>1. b = task.second[1]
              BY <1>9, <2>2, <3>1, <5>1 DEF Climbing, f, b
            <6>2. b \in Path[outcome.from.head] /\ IsClean(outcome.from) /\ Suits(transactions, outcome.from.recent)
              BY <2>1, <2>3, <6>1 DEF Returnable, Branches
            <6>3. IsClean(e)
              BY <1>7, <2>3, <3>1 DEF Base
            <6>4. e.recent = ToSet(ChainTrxs[b]) /\ outcome.from.recent = ToSet(ChainTrxs[outcome.from.head])
                  /\ outcome.from.head \in Ids /\ b \in Ids
              BY <1>5, <6>2, <6>3, CleanFacts
            <6>5. e.recent \subseteq outcome.from.recent
              BY <6>2, <6>4, ChainTrxsGrow DEF Anc
            <6>6. QED
              BY <6>2, <6>5, SuitsBefore
          <5>2. CASE db.head # f
            <6>1. transactions = <<>>
              BY <1>9, <2>2, <3>1, <5>2 DEF Climbing, f, Stranded
            <6>2. QED
              BY <6>1, SuitsEmpty
          <5>3. QED
            BY <5>1, <5>2
        <4>2. Unpended(o, e, FALSE) = e /\ pending_session = FALSE
          BY <1>0, <3>1 DEF Unpended
        <4>3. Full(o, e, FALSE, <<>>)
          BY SuitsEmpty DEF Full
        <4>4. Base(o, e, FALSE) /\ Base(o, e, TRUE)
          BY <1>7, <2>3, <3>1
        <4>5. pending_session' = FALSE
          BY <1>1, <4>2
        <4>6. Based'
          BY <1>1, <4>2, <4>4, <4>5 DEF Based
        <4>7. Orderly'
          BY <1>1, <1>2, <4>1, <4>2, <4>3, <4>4, <4>5, <4>6 DEF Orderly
        <4>8. QED
          BY <4>7
      <3>2. CASE pending_session
        <4>1. transactions # <<>> /\ Full(levels, db, pending_session, transactions)
          BY <1>9, <2>2, <3>2 DEF Climbing, f
        <4>2. transactions[1] \in e.recent
          <5>1. transactions[1] \in ToSet(transactions)
            BY <1>3, <4>1, LastSeq DEF ToSet
          <5>2. QED
            BY <1>5, <4>1, <5>1 DEF Full
        <4>3. IsSeq(o) /\ o # <<>> /\ Front(o) = Trimmed(levels) /\ Last(o) = db
          BY <1>3, OpenFacts DEF o
        <4>4. Base(levels, db, TRUE) /\ Last(levels).head = db.head /\ levels # <<>>
          BY <1>0, <3>2 DEF Based, Base, Unpended
        <4>5. Base(Trimmed(levels), db, TRUE)
          BY <4>4, BaseTrim
        <4>6. Last(Trimmed(levels)) = Last(levels)
          BY <1>3, <4>4, TrimFacts
        <4>7. Dirty'
          BY <1>1, <1>2, <1>4, <1>5, <2>3, <3>2, <4>1, <4>2, <4>3, <4>4, <4>5, <4>6 DEF Dirty
        <4>8. QED
          BY <4>7
      <3>3. QED
        BY <3>1, <3>2
    <2>8. RepushInv'
      BY <1>0, <1>1, <1>2, <1>5, <2>1, <2>4, <2>5, <2>6, <2>7 DEF RepushInv, b
    <2>9. QED
      BY <1>2, <1>6, <2>8 DEF Phased
  <1>10. QED
    BY <1>0, <1>8, <1>9 DEF ApplyInv

\* Where the pending transactions of a switch or a restore stand.
LEMMA RepushFacts ==
  ASSUME OneLife, ChainInv, update_pending_block
  PROVE  /\ task.phase = "repush" /\ pending_session \in BOOLEAN /\ Framed /\ Shaped
         /\ task.old_trx # <<>> /\ task.todo # <<>> /\ previous = db.head /\ db.head = task.todo[1]
         /\ task.mode \in {"switch", "restore"} /\ Branches(task, outcome.from)
         /\ IsSeq(task.old_trx) /\ Len(transactions) + Len(task.old_trx) <= MaxQueue
         /\ Returnable(task, outcome.from, transactions \o task.old_trx)
         /\ Orderly \/ Dirty
         /\ IsDb(db) /\ db.head \in Blocks /\ db.head # ForkPoint(task)
         /\ push_transaction_throws(task.old_trx[1], transactions) <=> ~ Fits(task.old_trx[1], db.recent)
         /\ applies(task.old_trx[1], db, FALSE) <=> Fits(task.old_trx[1], db.recent)
  <1>1. task.phase = "repush" /\ task.old_trx # <<>>
    BY DEF update_pending_block
  <1>2. RepushInv /\ pending_session \in BOOLEAN /\ Framed /\ Shaped
    BY <1>1 DEF ChainInv, SessionInv, Phased
  <1>3. /\ task.todo # <<>> /\ previous = db.head /\ db.head = task.todo[1]
        /\ task.mode \in {"switch", "restore"} /\ Branches(task, outcome.from)
        /\ IsSeq(task.old_trx) /\ Len(transactions) + Len(task.old_trx) <= MaxQueue
        /\ Returnable(task, outcome.from, transactions \o task.old_trx)
        /\ Orderly \/ Dirty
    BY <1>1, <1>2 DEF RepushInv
  <1>4. IsDb(db)
    BY <1>3 DEF Orderly, Dirty, Based, Base
  <1>5. db.head \in Blocks /\ db.head # ForkPoint(task)
    <2>1. 1 \in DOMAIN task.todo /\ task.todo[1] \in Blocks
      BY <1>3 DEF Branches
    <2>2. Num[task.todo[1]] > Num[ForkPoint(task)] /\ Num[task.todo[1]] \in Nat
      BY <1>3, <2>1, Above DEF Branches
    <2>3. QED
      BY <1>3, <2>1, <2>2
  <1>6. Len(transactions) < MaxTrxs
    <2>1. Len(task.old_trx) \in Nat \ {0} /\ Len(transactions) \in Nat
      BY <1>1, <1>2, <1>3, LastSeq DEF Framed, IsSeq
    <2>2. QED
      BY <1>3, <2>1, ConstantsAssumption DEF OneLife
  <1>7. applies(task.old_trx[1], db, FALSE) <=> Fits(task.old_trx[1], db.recent)
    BY <1>4, AppliesFits
  <1>8. QED
    BY <1>1, <1>2, <1>3, <1>4, <1>5, <1>6, <1>7 DEF push_transaction_throws

\* What a throw in update_pending_block leaves, with the pending session above
\* the session of the block and below it.
LEMMA UndoneTop ==
  ASSUME NEW l, NEW d, IsSeq(l), l # <<>>, Base(Front(l), d, TRUE)
  PROVE  /\ Base(undone(Trimmed(l)), d, TRUE)
         /\ Last(undone(Trimmed(l))) = Last(Front(l))
         /\ Base(Front(Trimmed(l)), d, TRUE)
  <1> DEFINE k == Trimmed(l)
  <1>1. Front(l) # <<>>
    BY DEF Base
  <1>2. /\ IsSeq(k) /\ k # <<>> /\ Front(k) # <<>> /\ Len(k) # 1
        /\ Last(Front(k)) = Last(Front(l))
    BY <1>1, TrimFacts
  <1>3. undone(k) = Front(k)
    BY <1>2 DEF undone
  <1>4. Stack(Front(l), d.head)
    BY DEF Base
  <1>5. Stack(Front(k), d.head)
    <2>1. CASE Len(l) # MaxUndo
      BY <1>4, <2>1 DEF Trimmed
    <2>2. CASE Len(l) = MaxUndo
      <3> DEFINE g == Front(l)
                 t == Front(Tail(l))
      <3>1. Front(k) = t
        BY <2>2 DEF Trimmed
      <3>2. /\ Len(l) \in Nat \ {0} /\ DOMAIN g = 1 .. Len(l) - 1
            /\ \A i \in 1 .. Len(l) - 1 : g[i] = l[i]
        BY FrontSeq
      <3>3. /\ IsSeq(Tail(l)) /\ DOMAIN Tail(l) = 1 .. Len(l) - 1
            /\ \A i \in 1 .. Len(l) - 1 : Tail(l)[i] = l[i + 1]
        BY TailSeq
      <3>4. Tail(l) # <<>> /\ k = Tail(l)
        BY <1>2, <2>2 DEF Trimmed
      <3>5. Len(Tail(l)) = Len(l) - 1
        <4>1. Len(Tail(l)) \in Nat /\ DOMAIN Tail(l) = 1 .. Len(Tail(l))
          BY <3>3, <3>4, LastSeq
        <4>2. QED
          BY <3>2, <3>3, <4>1
      <3>6. /\ IsSeq(t) /\ DOMAIN t = 1 .. Len(l) - 2
            /\ \A i \in 1 .. Len(l) - 2 : t[i] = Tail(l)[i]
        <4>1. /\ IsSeq(t) /\ DOMAIN t = 1 .. Len(Tail(l)) - 1
              /\ \A i \in 1 .. Len(Tail(l)) - 1 : t[i] = Tail(l)[i]
          BY <3>3, <3>4, FrontSeq
        <4>2. Len(Tail(l)) - 1 = Len(l) - 2
          BY <3>2, <3>5
        <4>3. QED
          BY <4>1, <4>2
      <3> HIDE DEF g, t, k
      <3>7. \A i \in DOMAIN t : i \in Int /\ i + 1 \in DOMAIN g /\ t[i] = g[i + 1]
        <4> TAKE i \in DOMAIN t
        <4>1. i \in Int /\ i \in 1 .. Len(l) - 1 /\ i + 1 \in 1 .. Len(l) - 1 /\ i \in 1 .. Len(l) - 2
          BY <3>2, <3>6
        <4>2. t[i] = l[i + 1] /\ g[i + 1] = l[i + 1]
          BY <3>2, <3>3, <3>6, <4>1
        <4>3. QED
          BY <3>2, <4>1, <4>2
      <3>8. Stack(g, d.head)
        BY <1>4 DEF g
      <3>9. \A i \in DOMAIN t : IsClean(t[i]) /\ Anc(t[i].head, d.head)
        BY <3>7, <3>8 DEF Stack
      <3>10. ASSUME NEW i \in DOMAIN t, NEW j \in DOMAIN t, i < j
             PROVE  Anc(t[i].head, t[j].head)
        <4>1. i + 1 \in DOMAIN g /\ j + 1 \in DOMAIN g /\ i + 1 < j + 1
          BY <3>7, <3>10
        <4>2. QED
          BY <3>7, <3>8, <4>1 DEF Stack
      <3>11. QED
        BY <3>1, <3>6, <3>9, <3>10 DEF Stack
    <2>3. QED
      BY <2>1, <2>2
  <1> HIDE DEF k
  <1>6. Base(Front(k), d, TRUE)
    BY <1>2, <1>5 DEF Base
  <1>7. QED
    BY <1>2, <1>3, <1>6 DEF k

\* The levels below the pending session when it is on top of a block's session.
LEMMA SettledUnder ==
  ASSUME NEW l, NEW d, NEW pend \in BOOLEAN, Base(l, d, pend),
         Base(IF pend THEN Front(l) ELSE l, Unpended(l, d, pend), TRUE)
  PROVE  LET k == Settled(l, d, pend)
         IN  Base(undone(k), Unpended(l, d, pend), TRUE) /\ Base(Front(k), Unpended(l, d, pend), TRUE)
  <1> DEFINE r == Unpended(l, d, pend)
             k == Settled(l, d, pend)
  <1>0. IsSeq(l)
    BY DEF Base, Stack
  <1>1. CASE pend
    <2>1. l # <<>> /\ Base(Front(l), r, TRUE)
      BY <1>1 DEF Base
    <2>2. k = Trimmed(l)
      BY <1>0, <1>1, OpenFacts DEF Settled
    <2> HIDE DEF r, k
    <2>3. QED
      BY <1>0, <2>1, <2>2, UndoneTop DEF r, k
  <1>2. CASE ~ pend
    <2> DEFINE o == start_undo_session(l, d)
    <2>1. Base(l, d, TRUE) /\ r = d
      BY <1>2 DEF Unpended
    <2>2. IsSeq(o) /\ o # <<>> /\ Front(o) = Trimmed(l)
      BY <1>0, OpenFacts
    <2>3. k = Front(start_undo_session(o, d))
      BY <1>2 DEF Settled
    <2> HIDE DEF o, k, r
    <2>4. k = Trimmed(o)
      BY <2>2, <2>3, OpenFacts
    <2>5. Base(Front(o), d, TRUE)
      BY <2>1, <2>2, BaseTrim
    <2>6. QED
      BY <2>1, <2>2, <2>4, <2>5, UndoneTop DEF k, r
  <1>3. QED
    BY <1>1, <1>2

\* A pending transaction that cannot be pushed again.
LEMMA RepushFailedKeeps ==
  ASSUME OneLife, ChainInv, update_pending_block, ~ Fits(task.old_trx[1], db.recent)
  PROVE  Framed' /\ Phased'
  <1> DEFINE k == Settled(levels, db, pending_session)
             f == ForkPoint(task)
  <1>0. /\ task.phase = "repush" /\ pending_session \in BOOLEAN /\ Framed /\ Shaped
        /\ previous = db.head /\ IsSeq(task.old_trx)
        /\ task.mode \in {"switch", "restore"} /\ Branches(task, outcome.from)
        /\ Returnable(task, outcome.from, transactions \o task.old_trx)
        /\ Orderly \/ Dirty
        /\ db.head \in Blocks /\ db.head # f /\ task.old_trx # <<>>
    BY RepushFacts
  <1>1. /\ levels' = undone(k) /\ db' = Last(k) /\ pending_session' = TRUE
        /\ transactions' = transactions /\ previous' = previous /\ restarts' = restarts
        /\ block_failed
    <2>1. /\ push_transaction_throws(task.old_trx[1], transactions)
          /\ ~ applies(task.old_trx[1], db, FALSE)
      BY RepushFacts
    <2>2. QED
      BY <2>1 DEF update_pending_block, Settled, disk_vars
  <1>2. Framed'
    BY <1>0, <1>1, FailedFacts DEF Framed
  <1>3. Returnable(task, outcome.from, transactions)
    BY <1>0, SuitsPrefix DEF Returnable, Framed
  <1>4. task.mode = "switch" =>
          /\ task'.phase = "unwind" /\ task'.mode = "switch"
          /\ Branches(task', outcome'.from) /\ ForkPoint(task') = f
          /\ Returnable(task', outcome'.from, transactions')
    <2> SUFFICES ASSUME task.mode = "switch"
                 PROVE  /\ task'.phase = "unwind" /\ task'.mode = "switch"
                        /\ Branches(task', outcome'.from) /\ ForkPoint(task') = f
                        /\ Returnable(task', outcome'.from, transactions')
      OBVIOUS
    <2>1. /\ task'.phase = "unwind" /\ task'.mode = "switch" /\ task'.second = task.second
          /\ Branches(task', outcome'.from) /\ ForkPoint(task') = f
          /\ outcome' = outcome
      BY <1>0, <1>1, FailedFacts
    <2>2. QED
      BY <1>1, <1>3, <2>1 DEF Returnable
  <1>5. task.mode = "restore" => task'.phase = "idle"
    BY <1>0, <1>1, FailedFacts
  <1> HIDE DEF k, f
  <1>6. CASE Orderly
    <2> DEFINE r == Unpended(levels, db, pending_session)
    <2>1. /\ Base(levels, db, pending_session) /\ r.head = db.head
          /\ Base(IF pending_session THEN Front(levels) ELSE levels, r, TRUE)
      BY <1>6 DEF Orderly, Based
    <2>2. task.mode = "switch"
      <3>1. task.mode = "restore" => Fits(task.old_trx[1], db.recent)
        BY <1>0, <1>6, SuitsTail DEF Orderly
      <3>2. QED
        BY <1>0, <3>1
    <2>3. Base(undone(k), r, TRUE) /\ Last(k) = r
      BY <1>0, <2>1, SettledUnder, SettledFacts DEF k
    <2> HIDE DEF r
    <2>4. Base(levels', db', pending_session')
      BY <1>1, <2>3
    <2>5. previous' = db'.head /\ db'.head # ForkPoint(task')
      BY <1>0, <1>1, <1>4, <2>1, <2>2, <2>3
    <2>6. UnwindInv'
      BY <1>4, <2>2, <2>4, <2>5 DEF UnwindInv
    <2>7. QED
      BY <1>2, <1>4, <2>2, <2>6 DEF Phased
  <1>7. CASE Dirty
    <2>1. /\ pending_session /\ transactions = <<>> /\ IsSeq(levels) /\ levels # <<>>
          /\ Base(Front(levels), Last(levels), TRUE)
          /\ Last(levels).head = Prev[db.head] /\ Last(Front(levels)).head = Prev[db.head]
      BY <1>7 DEF Dirty
    <2>2. k = Trimmed(levels)
      BY <2>1, OpenFacts DEF Settled, k
    <2>3. /\ Base(undone(k), Last(levels), TRUE) /\ Last(undone(k)) = Last(Front(levels))
          /\ Last(k) = Last(levels)
      BY <2>1, <2>2, UndoneTop, TrimFacts
    <2>4. /\ Base(levels', db', TRUE) /\ db'.head = Prev[previous] /\ Last(levels').head = db'.head
          /\ Lost(previous', db')
      BY <1>0, <1>1, <2>1, <2>3 DEF Lost
    <2>5. Rests(levels', db', TRUE, previous', <<>>)
      BY <2>4, RestsEmpty DEF Unpended
    <2>6. Rested'
      BY <1>1, <2>1, <2>5 DEF Rested
    <2>7. CASE task.mode = "restore"
      BY <1>2, <1>5, <2>6, <2>7 DEF Phased
    <2>8. CASE task.mode = "switch"
      <3>1. Base(levels', db', pending_session') /\ pending_session'
        BY <1>1, <2>4
      <3>2. CASE db'.head = ForkPoint(task')
        <4>1. Stranded'
          BY <2>4, <2>6, <3>2 DEF Stranded
        <4>2. UnwindInv'
          BY <1>4, <2>8, <3>1, <4>1 DEF UnwindInv
        <4>3. QED
          BY <1>2, <1>4, <2>8, <4>2 DEF Phased
      <3>3. CASE db'.head # ForkPoint(task')
        <4>1. UnwindInv'
          BY <1>4, <2>4, <2>8, <3>1, <3>3 DEF UnwindInv
        <4>2. QED
          BY <1>2, <1>4, <2>8, <4>1 DEF Phased
      <3>4. QED
        BY <3>2, <3>3
    <2>9. QED
      BY <1>0, <2>7, <2>8
  <1>8. QED
    BY <1>0, <1>6, <1>7

\* The first transaction of one queue moved to the end of another.
LEMMA QueueMoved ==
  ASSUME NEW q, NEW r, IsSeq(q), IsSeq(r), r # <<>>
  PROVE  /\ Append(q, r[1]) \o Tail(r) = q \o r
         /\ IsSeq(Tail(r)) /\ Len(Append(q, r[1])) + Len(Tail(r)) = Len(q) + Len(r)
  <1> DEFINE E == ToSet(q) \cup ToSet(r)
             t == Tail(r)
             a == Append(q, r[1])
  <1>1. q \in Seq(E) /\ r \in Seq(E) /\ Len(q) \in Nat /\ Len(r) \in Nat
    BY DEF IsSeq
  <1>2. /\ IsSeq(t) /\ Len(r) \in Nat \ {0} /\ DOMAIN t = 1 .. Len(r) - 1
        /\ \A i \in 1 .. Len(r) - 1 : t[i] = r[i + 1]
    BY TailSeq
  <1>3. Len(t) = Len(r) - 1
    <2>1. Len(t) \in Nat /\ DOMAIN t = 1 .. Len(t)
      BY <1>2 DEF IsSeq
    <2>2. QED
      BY <1>2, <2>1
  <1>4. /\ IsSeq(a) /\ Len(a) = Len(q) + 1 /\ \A i \in 1 .. Len(q) : a[i] = q[i]
        /\ a[Len(q) + 1] = r[1]
    BY AppendSeq
  <1> HIDE DEF E, t, a
  <1> DEFINE u == a \o t
             v == q \o r
  <1>5. /\ IsSeq(u) /\ Len(u) = Len(q) + Len(r)
        /\ \A i \in 1 .. Len(a) : u[i] = a[i]
        /\ \A i \in 1 .. Len(t) : u[Len(a) + i] = t[i]
    <2>1. IsSeq(a) /\ IsSeq(t)
      BY <1>2, <1>4
    <2>2. /\ IsSeq(u) /\ Len(u) = Len(a) + Len(t)
          /\ \A i \in 1 .. Len(a) : u[i] = a[i]
          /\ \A i \in 1 .. Len(t) : u[Len(a) + i] = t[i]
      BY <2>1, ConcatSet
    <2>3. Len(a) + Len(t) = Len(q) + Len(r)
      BY <1>1, <1>3, <1>4
    <2>4. QED
      BY <2>2, <2>3
  <1>6. /\ IsSeq(v) /\ Len(v) = Len(q) + Len(r)
        /\ \A i \in 1 .. Len(q) : v[i] = q[i]
        /\ \A i \in 1 .. Len(r) : v[Len(q) + i] = r[i]
    BY ConcatSet
  <1> HIDE DEF u, v
  <1>7. ASSUME NEW i \in 1 .. Len(q) + Len(r)
        PROVE  u[i] = v[i]
    <2>1. CASE i <= Len(q)
      <3>1. i \in 1 .. Len(q) /\ i \in 1 .. Len(a)
        BY <1>1, <1>4, <2>1
      <3>2. QED
        BY <1>4, <1>5, <1>6, <3>1
    <2>2. CASE i = Len(q) + 1
      <3>1. i \in 1 .. Len(a) /\ 1 \in 1 .. Len(r)
        BY <1>1, <1>2, <1>4, <2>2
      <3>2. u[i] = r[1]
        BY <1>4, <1>5, <2>2, <3>1
      <3>3. v[i] = r[1]
        BY <1>6, <2>2, <3>1
      <3>4. QED
        BY <3>2, <3>3
    <2>3. CASE i > Len(q) + 1
      <3> DEFINE j == i - Len(q) - 1
      <3>1. /\ j \in 1 .. Len(r) - 1 /\ j \in 1 .. Len(t) /\ j + 1 \in 1 .. Len(r)
            /\ i = Len(a) + j /\ i = Len(q) + (j + 1)
        BY <1>1, <1>2, <1>3, <1>4, <2>3
      <3> HIDE DEF j
      <3>2. u[i] = t[j] /\ v[i] = r[j + 1] /\ t[j] = r[j + 1]
        BY <1>2, <1>5, <1>6, <3>1
      <3>3. QED
        BY <3>2
    <2>4. QED
      BY <1>1, <2>1, <2>2, <2>3
  <1>8. u = v
    <2> DEFINE F == ToSet(u) \cup ToSet(v)
    <2>1. u \in Seq(F) /\ v \in Seq(F) /\ Len(u) = Len(v)
      BY <1>5, <1>6 DEF IsSeq
    <2> HIDE DEF F
    <2>2. QED
      BY <1>5, <1>7, <2>1, SeqEqual
  <1>9. Len(a) + Len(t) = Len(q) + Len(r)
    BY <1>1, <1>3, <1>4
  <1>10. QED
    BY <1>2, <1>8, <1>9 DEF u, v, a, t

\* A pending transaction pushed again.
LEMMA RepushedKeeps ==
  ASSUME OneLife, ChainInv, update_pending_block, Fits(task.old_trx[1], db.recent)
  PROVE  Framed' /\ Phased'
  <1> DEFINE k == Settled(levels, db, pending_session)
             r == Unpended(levels, db, pending_session)
             t == task.old_trx[1]
             e == with_trxs(db, <<t>>, FALSE)
             q == Append(transactions, t)
  <1>0. /\ task.phase = "repush" /\ pending_session \in BOOLEAN /\ Framed /\ Shaped
        /\ task.todo # <<>> /\ previous = db.head /\ db.head = task.todo[1] /\ IsSeq(task.old_trx)
        /\ task.mode \in {"switch", "restore"} /\ Branches(task, outcome.from)
        /\ Len(transactions) + Len(task.old_trx) <= MaxQueue
        /\ Returnable(task, outcome.from, transactions \o task.old_trx)
        /\ Orderly \/ Dirty
        /\ task.old_trx # <<>> /\ IsDb(db) /\ IsSeq(transactions)
    BY RepushFacts DEF Framed
  <1>1. Orderly
    BY <1>0 DEF Dirty, Fits
  <1>2. /\ levels' = k /\ db' = e /\ pending_session' = TRUE
        /\ transactions' = q /\ previous' = previous /\ restarts' = restarts
        /\ task' = [task EXCEPT !.old_trx = Tail(task.old_trx)]
        /\ UNCHANGED <<fork_index, linked, fork_head, outcome>>
    <2>1. /\ ~ push_transaction_throws(task.old_trx[1], transactions)
          /\ applies(task.old_trx[1], db, FALSE)
      BY RepushFacts
    <2>2. Len(transactions) < MaxTrxs
      BY <2>1 DEF push_transaction_throws
    <2>3. QED
      BY <2>1, <2>2 DEF update_pending_block, push_transaction_vars, Settled, disk_vars, fork_vars
  <1>3. /\ task'.phase = "repush" /\ task'.old_trx = Tail(task.old_trx) /\ task'.todo = task.todo
        /\ task'.mode = task.mode /\ task'.second = task.second
    BY <1>0, <1>2 DEF Shaped
  <1>4. /\ q \o Tail(task.old_trx) = transactions \o task.old_trx
        /\ IsSeq(Tail(task.old_trx)) /\ Len(q) + Len(Tail(task.old_trx)) = Len(transactions) + Len(task.old_trx)
    BY <1>0, QueueMoved
  <1>5. IsSeq(q) /\ q # <<>> /\ Len(q) \in Nat /\ Len(q) <= MaxQueue
    <2>1. IsSeq(q) /\ q # <<>>
      BY <1>0, AppendSeq
    <2>2. Len(q) \in Nat /\ Len(Tail(task.old_trx)) \in Nat
      BY <1>4, <2>1 DEF IsSeq
    <2> HIDE DEF q
    <2>3. QED
      BY <1>0, <1>4, <2>1, <2>2, ConstantsAssumption
  <1>6. Framed'
    <2> HIDE DEF q
    <2> QED
      BY <1>0, <1>2, <1>5 DEF Framed
  <1>7. IsDb(e) /\ e.head = db.head /\ e.recent = db.recent \cup {t}
    BY <1>0, WithTrx
  <1>8. /\ Base(levels, db, pending_session) /\ r.head = db.head
        /\ Full(levels, db, pending_session, transactions)
        /\ Base(IF pending_session THEN Front(levels) ELSE levels, r, TRUE)
        /\ task.mode = "restore" => Suits(task.old_trx, db.recent)
    BY <1>1 DEF Orderly, Based
  <1>9. Base(k, db, TRUE) /\ Last(k) = r
    BY <1>0, <1>8, SettledFacts
  <1>10. Base(Front(k), r, TRUE)
    BY <1>0, <1>8, SettledUnder
  <1>11. Full(k, e, TRUE, q)
    <2> HIDE DEF k
    <2> QED
      BY <1>0, <1>8, <1>9, FullGrows
  <1> HIDE DEF k, r, t, e, q
  <1>12. Base(k, e, TRUE) /\ Unpended(k, e, TRUE) = r
    BY <1>7, <1>9, BaseGrow DEF Unpended
  <1>13. task.mode = "restore" => Suits(Tail(task.old_trx), e.recent)
    BY <1>0, <1>7, <1>8, SuitsTail DEF t
  <1>14. Based'
    BY <1>2, <1>7, <1>8, <1>12 DEF Based
  <1>15. Orderly'
    <2>1. Base(IF pending_session' THEN Front(levels') ELSE levels',
               Unpended(levels', db', pending_session'), TRUE)
      BY <1>2, <1>10, <1>12
    <2>2. pending_session' <=> transactions' # <<>>
      BY <1>2, <1>5
    <2>3. Full(levels', db', pending_session', transactions')
      BY <1>2, <1>11
    <2>4. task'.mode = "restore" => Suits(task'.old_trx, db'.recent)
      BY <1>2, <1>3, <1>13
    <2>5. QED
      BY <1>14, <2>1, <2>2, <2>3, <2>4 DEF Orderly
  <1>16. Branches(task', outcome'.from)
    BY <1>0, <1>2, <1>3 DEF Branches, ForkPoint
  <1>17. Returnable(task', outcome'.from, transactions' \o task'.old_trx)
    BY <1>0, <1>2, <1>3, <1>4 DEF Returnable
  <1>18. IsSeq(task'.old_trx) /\ Len(transactions') + Len(task'.old_trx) <= MaxQueue
    BY <1>0, <1>2, <1>3, <1>4
  <1>19. previous' = db'.head /\ db'.head = task'.todo[1] /\ task'.todo # <<>>
    BY <1>0, <1>2, <1>3, <1>7
  <1>20. RepushInv'
    BY <1>0, <1>3, <1>15, <1>16, <1>17, <1>18, <1>19 DEF RepushInv
  <1>21. QED
    BY <1>3, <1>6, <1>20 DEF Phased

\* A sequence of one element.
LEMMA OneElement ==
  ASSUME NEW x
  PROVE  Tail(<<x>>) = <<>> /\ Last(<<x>>) = x /\ <<x>> # <<>>
  BY DEF Last

\* The block is stored and its session committed.
LEMMA StoreBlockKeeps ==
  ASSUME ChainInv, store_block
  PROVE  Framed' /\ Phased'
  <1>0. /\ task.phase = "repush" /\ task.old_trx = <<>> /\ pending_session \in BOOLEAN
        /\ Framed /\ Shaped /\ RepushInv
    BY DEF store_block, ChainInv, SessionInv, Phased
  <1>1. /\ UNCHANGED <<db, levels, pending_session, previous, transactions>>
        /\ UNCHANGED <<fork_index, linked, fork_head, restarts, outcome>>
        /\ task' = [task EXCEPT !.phase = "apply", !.todo = Tail(task.todo)]
    BY DEF store_block, pending_vars, fork_vars
  <1>2. /\ task'.phase = "apply" /\ task'.todo = Tail(task.todo) /\ task'.mode = task.mode
        /\ task'.second = task.second /\ task'.new = task.new /\ ForkPoint(task') = ForkPoint(task)
    BY <1>0, <1>1 DEF Shaped, ForkPoint
  <1>3. Framed'
    BY <1>0, <1>1 DEF Framed
  <1>4. CASE Linear
    <2>0. task.todo = <<task.new>>
      BY <1>0, <1>4 DEF Linear, RepushInv
    <2>1. Tail(task.todo) = <<>>
      BY <2>0, OneElement
    <2>2. /\ Base(levels, db, FALSE) /\ ~ pending_session /\ transactions = <<>>
          /\ previous = db.head /\ task.mode = "linear"
      BY <1>0, <1>4 DEF Linear, RepushInv
    <2>3. Based /\ Full(levels, db, pending_session, transactions)
      BY <1>0, <2>2, SuitsEmpty DEF Based, Unpended, Full
    <2>4. ApplyInv'
      BY <1>1, <1>2, <2>1, <2>2, <2>3 DEF ApplyInv, Based
    <2>5. QED
      BY <1>2, <1>3, <2>4 DEF Phased
  <1>5. CASE ~ Linear
    <2>1. /\ task.todo # <<>> /\ previous = db.head /\ db.head = task.todo[1]
          /\ task.mode \in {"switch", "restore"} /\ Branches(task, outcome.from)
          /\ Returnable(task, outcome.from, transactions \o task.old_trx)
          /\ Orderly
      BY <1>0, <1>5 DEF RepushInv, Dirty
    <2>2. Returnable(task, outcome.from, transactions)
      <3>1. IsSeq(transactions) /\ IsSeq(<<>>)
        BY <1>0, SuitsEmpty DEF Framed
      <3>2. QED
        BY <1>0, <2>1, <3>1, SuitsPrefix DEF Returnable
    <2>3. /\ Based /\ Full(levels, db, pending_session, transactions)
          /\ pending_session <=> transactions # <<>>
      BY <2>1 DEF Orderly
    <2> DEFINE t == Tail(task.todo)
    <2>4. /\ t \in Seq(Blocks)
          /\ \A i \in DOMAIN t : Num[t[i]] > Num[ForkPoint(task)]
      <3>1. task.todo \in Seq(Blocks) /\ IsSeq(task.todo)
            /\ \A i \in DOMAIN task.todo : Num[task.todo[i]] > Num[ForkPoint(task)]
        BY <2>1, SeqOfItself DEF Branches
      <3>2. t \in Seq(Blocks)
        BY <2>1, <3>1
      <3>3. /\ Len(task.todo) \in Nat \ {0} /\ DOMAIN task.todo = 1 .. Len(task.todo)
            /\ DOMAIN t = 1 .. Len(task.todo) - 1
            /\ \A i \in 1 .. Len(task.todo) - 1 : t[i] = task.todo[i + 1]
        BY <2>1, <3>1, TailSeq
      <3> HIDE DEF t
      <3>4. \A i \in DOMAIN t : i + 1 \in DOMAIN task.todo /\ t[i] = task.todo[i + 1]
        BY <3>3
      <3>5. QED
        BY <3>1, <3>2, <3>4
    <2>5. db.head # ForkPoint(task)
      <3>1. 1 \in DOMAIN task.todo /\ task.todo[1] \in Blocks
        BY <2>1 DEF Branches
      <3>2. Num[task.todo[1]] > Num[ForkPoint(task)] /\ Num[task.todo[1]] \in Nat
        BY <2>1, <3>1, Above DEF Branches
      <3>3. QED
        BY <2>1, <3>1, <3>2
    <2> HIDE DEF t
    <2>6. Branches(task', outcome'.from)
      BY <1>1, <1>2, <2>1, <2>4 DEF Branches, t
    <2>7. Returnable(task', outcome'.from, transactions')
      BY <1>1, <1>2, <2>2 DEF Returnable
    <2>8. Based' /\ Full(levels', db', pending_session', transactions')
      BY <1>1, <2>3 DEF Based
    <2>9. Climbing'
      BY <1>1, <1>2, <2>1, <2>3, <2>5, <2>6, <2>7, <2>8 DEF Climbing
    <2>10. ApplyInv'
      BY <1>1, <1>2, <2>1, <2>8, <2>9 DEF ApplyInv
    <2>11. QED
      BY <1>2, <1>3, <2>10 DEF Phased
  <1>6. QED
    BY <1>4, <1>5

\* push_block() returns or throws.
LEMMA PushBlockDoneKeeps ==
  ASSUME ChainInv, push_block_done
  PROVE  Framed' /\ Phased'
  <1>0. /\ task.phase = "apply" /\ task.todo = <<>> /\ Framed /\ ApplyInv
    BY DEF push_block_done, ChainInv, Phased
  <1>1. /\ UNCHANGED <<db, levels, pending_session, previous, transactions>>
        /\ UNCHANGED <<fork_index, linked, fork_head, restarts>>
        /\ task'.phase = "idle"
    BY DEF push_block_done, undo_vars, pending_vars, fork_vars, disk_vars, Ended, Idle
  <1>2. Rested
    BY <1>0 DEF ApplyInv, Based, Rested, Rests
  <1>3. Rested'
    BY <1>1, <1>2 DEF Rested
  <1>4. Framed'
    BY <1>0, <1>1 DEF Framed
  <1>5. QED
    BY <1>1, <1>3, <1>4 DEF Phased

\* Every step keeps the invariant.
LEMMA ChainStep == OneLife /\ ChainInv /\ [Next]_vars => ChainInv'
  <1> SUFFICES ASSUME OneLife, ChainInv, [Next]_vars
               PROVE  ChainInv'
    OBVIOUS
  <1>0. SessionInv'
    BY SessionStep DEF ChainInv
  <1>00. task.phase \notin {"replay", "down"} /\ ~ (restarts < MaxRestarts)
    BY DEF ChainInv, Phased, Framed, OneLife
  <1> SUFFICES Framed' /\ Phased'
    BY <1>0 DEF ChainInv
  <1>1. ASSUME NEW t \in Txs, NEW skip_size \in BOOLEAN, push_transaction(t, skip_size)
        PROVE  Framed' /\ Phased'
    BY <1>1, PushTransactionKeeps
  <1>2. ASSUME NEW b \in Blocks, handle_block(b)
        PROVE  Framed' /\ Phased'
    BY <1>2, PushBlockKeeps DEF handle_block
  <1>3. ASSUME NEW b \in Blocks, generate_block(b)
        PROVE  Framed' /\ Phased'
    BY <1>3, PushBlockKeeps DEF generate_block
  <1>4. CASE pop_block
    BY <1>4, PopBlockKeeps
  <1>5. CASE pops_done
    BY <1>5, PopsDoneKeeps
  <1>6. CASE apply_block
    BY <1>6, AppliedKeeps, ApplyFailedKeeps
  <1>7. CASE update_pending_block
    BY <1>7, RepushedKeeps, RepushFailedKeeps
  <1>8. CASE store_block
    BY <1>8, StoreBlockKeeps
  <1>9. CASE push_block_done
    BY <1>9, PushBlockDoneKeeps
  <1>10. CASE reindex_block \/ reindex_done \/ startup_open \/ startup_reindex \/ wipe
    BY <1>00, <1>10 DEF reindex_block, reindex_done, startup_open, startup_reindex, wipe
  <1>11. CASE close \/ crash
    BY <1>00, <1>11 DEF close, crash, Stopped
  <1>12. CASE UNCHANGED vars
    <2>1. /\ UNCHANGED <<db, levels, pending_session, previous, transactions>>
          /\ UNCHANGED <<fork_index, linked, fork_head, restarts, task, outcome>>
      BY <1>12 DEF vars, undo_vars, pending_vars, fork_vars, disk_vars
    <2>2. Framed'
      BY <2>1 DEF ChainInv, Framed
    <2>3. (Rested => Rested') /\ (PopInv => PopInv') /\ (UnwindInv => UnwindInv')
      BY <2>1 DEF Rested, PopInv, UnwindInv, Stranded, Based
    <2>4. (ApplyInv => ApplyInv') /\ (RepushInv => RepushInv')
      BY <2>1 DEF ApplyInv, RepushInv, Linear, Climbing, Orderly, Dirty, Stranded, Rested, Based
    <2>5. QED
      BY <2>1, <2>2, <2>3, <2>4 DEF ChainInv, Phased
  <1>13. QED
    BY <1>1, <1>2, <1>3, <1>4, <1>5, <1>6, <1>7, <1>8, <1>9, <1>10, <1>11, <1>12 DEF Next, Step


\* In one life of the process the invariant holds in every state.
THEOREM ChainInvariant ==
  ASSUME OneLife
  PROVE  Spec => []ChainInv
  <1>1. OneLife
    OBVIOUS
  <1>2. ChainInv /\ [Next]_vars => ChainInv'
    BY <1>1, ChainStep
  <1>3. QED
    BY <1>2, ChainInit, PTL DEF Spec

\* Between calls the invariant makes the state a replay of the chain.
LEMMA RestIsReplay == ChainInv => StateIsReplay /\ DuplicatesDetected
  <1> SUFFICES ASSUME ChainInv, task.phase = "idle"
               PROVE  StateIsReplay /\ DuplicatesDetected
    BY DEF StateIsReplay, DuplicatesDetected
  <1>1. pending_session \in BOOLEAN /\ Base(levels, db, pending_session)
    BY DEF ChainInv, SessionInv, Phased, Rested, Rests
  <1>2. reset_db = Unpended(levels, db, pending_session)
    BY DEF reset_db, Unpended
  <1>3. IsClean(reset_db)
    BY <1>1, <1>2, UnpendedFacts
  <1>4. IsReplay(reset_db) /\ reset_db.recent = ToSet(ChainTrxs[reset_db.head])
    BY <1>3, CleanFacts DEF IsReplay
  <1>5. Stack(levels, db.head) /\ IsSeq(levels)
    BY <1>1 DEF Base, Stack
  <1>6. ASSUME NEW k \in 1 .. Len(levels)
        PROVE  levels[k].head \in Path[db.head] \cup {Genesis} /\ IsReplay(levels[k])
    <2>1. k \in DOMAIN levels
      BY <1>5, <1>6 DEF IsSeq
    <2>2. IsClean(levels[k]) /\ Anc(levels[k].head, db.head)
      BY <1>5, <2>1 DEF Stack
    <2>3. QED
      BY <2>2, CleanFacts DEF Anc, IsReplay
  <1>7. QED
    BY <1>4, <1>6 DEF StateIsReplay, DuplicatesDetected

\* push_block(), pop_block() and their failures leave no trace of abandoned
\* blocks: in one life of the process, with pending transactions that fit into a
\* block, the object database between two calls is a replay of its chain and
\* every undo level is a replay of the chain up to an ancestor.
THEOREM ReplaysItsChain ==
  ASSUME OneLife
  PROVE  Spec => []StateIsReplay
  <1>1. Spec => []ChainInv
    BY ChainInvariant
  <1>2. ChainInv => StateIsReplay
    BY RestIsReplay
  <1>3. QED
    BY <1>1, <1>2, PTL

\* The transaction index holds every transaction of the chain and no other.
THEOREM DuplicatesAreDetected ==
  ASSUME OneLife
  PROVE  Spec => []DuplicatesDetected
  <1>1. Spec => []ChainInv
    BY ChainInvariant
  <1>2. ChainInv => DuplicatesDetected
    BY RestIsReplay
  <1>3. QED
    BY <1>1, <1>2, PTL


----------------------------------------------------------------------------
(* The height of the head.                                                 *)

\* Where a branch that is being applied will end.
Goal(t, d) == IF t.todo = <<>> THEN d.head ELSE Last(t.todo)

\* A block put on the head does not lower it; a branch is switched to because
\* it ends above the state that the call began at.
Rising(t, d, from) ==
  /\ t.mode = "linear" => Num[d.head] >= Num[from.head]
  /\ t.mode = "switch" /\ t.phase # "unwind" => Num[Goal(t, d)] > Num[from.head]

HeightInv ==
  /\ outcome.from.head \in Ids /\ NeverShorter
  /\ task.phase # "idle" => Rising(task, db, outcome.from)

\* What a call that begins records of the state.
LEMMA StartedFrom ==
  ASSUME ChainInv, task.phase = "idle", NEW queue, NEW r
  PROVE  LET o == Returned(queue, r)
         IN  /\ o.result = r /\ o.from = reset_db /\ o.from.head = db.head
             /\ db.head \in Ids /\ Num[db.head] \in Nat
  <1>1. pending_session \in BOOLEAN /\ Rested
    BY DEF ChainInv, SessionInv, Phased
  <1>2. reset_db = Unpended(levels, db, pending_session)
    BY DEF reset_db, Unpended
  <1>3. reset_db.head = db.head /\ IsClean(reset_db)
    BY <1>1, <1>2, UnpendedFacts DEF Rested, Rests
  <1>4. db.head \in Ids
    BY <1>3, CleanFacts
  <1>5. Num[db.head] \in Nat
    BY <1>4, NumRecursion
  <1>6. QED
    BY <1>3, <1>4, <1>5 DEF Returned

\* push_block() when it begins.
LEMMA PushBlockRises ==
  ASSUME ChainInv, ChainInv', HeightInv, NEW b \in Blocks, NEW queue, push_block(b, queue)
  PROVE  HeightInv'
  <1>0. task.phase = "idle" /\ db.head \in Ids /\ Num[db.head] \in Nat /\ Framed /\ Rested
    BY StartedFrom DEF push_block, push_block_refused, push_block_linear, push_block_stale,
       push_block_switch, ChainInv, Phased
  <1>1. CASE task'.phase = "idle" /\ db' = db /\ \E r \in {"threw", "false"} : outcome' = Returned(queue, r)
    <2>1. PICK r \in {"threw", "false"} : outcome' = Returned(queue, r)
      BY <1>1
    <2>2. outcome'.from.head = db.head /\ outcome'.result # "true"
      BY <1>0, <2>1, StartedFrom
    <2>3. NeverShorter'
      BY <1>0, <1>1, <2>2 DEF NeverShorter
    <2>4. QED
      BY <1>0, <1>1, <2>2, <2>3 DEF HeightInv
  <1>2. CASE push_block_linear(b)
    <2>1. outcome' = Returned(<<>>, "running") /\ db' = reset_db
      BY <1>2 DEF push_block_linear, Started
    <2>2. task'.phase = "apply" /\ task'.mode = "linear"
      BY <1>2 DEF push_block_linear, Idle
    <2>3. outcome'.from.head = db.head /\ outcome'.from = reset_db
      BY <1>0, <2>1, StartedFrom
    <2>4. Rising(task', db', outcome'.from)
      BY <1>0, <2>1, <2>2, <2>3 DEF Rising
    <2>5. QED
      BY <1>0, <2>2, <2>3, <2>4 DEF HeightInv, NeverShorter
  <1>3. CASE push_block_switch(b, queue) /\ ~ (task'.phase = "idle")
    <2> DEFINE h == pushed_head(b)
               first == Ascending(first_branch(h, previous))
    <2>1. /\ Prev[h] # db.head /\ Num[h] > Num[db.head]
          /\ branches_found(h, previous, pushed_index(b), pushed_linked(b))
          /\ task'.phase = "pop" /\ task'.mode = "switch" /\ task'.todo = first
          /\ outcome' = Returned(queue, "running")
      BY <1>0, <1>3 DEF push_block_switch, Started, Idle
    <2>2. outcome'.from.head = db.head
      BY <1>0, <2>1, StartedFrom
    <2>3. h \in Blocks /\ h \in Ids /\ previous \in Blocks /\ previous \in Ids
      BY <1>0, <2>1, ForkPushed DEF branches_found, Ids
    <2>4. h \in Path[previous] => h = previous
      <3>1. previous = db.head \/ Lost(previous, db)
        BY <1>0 DEF Rested, Rests
      <3>2. Num[previous] <= Num[db.head] + 1 /\ Num[previous] \in Nat /\ Num[h] \in Nat
        BY <1>0, <2>3, <3>1, Above DEF Lost
      <3>3. h \in Path[previous] => Num[h] <= Num[previous] /\ (Num[h] = Num[previous] => h = previous)
        BY <2>3, PathFacts
      <3>4. QED
        BY <1>0, <2>1, <3>2, <3>3
    <2>5. Num[h] \in Nat
      BY <2>3, NumRecursion
    <2> HIDE DEF h
    <2>6. first \in Seq(Blocks) /\ first # <<>> /\ Num[h] <= Num[Last(first)]
      BY <2>3, <2>4, BranchFacts
    <2> HIDE DEF first
    <2>7. Num[Last(first)] \in Nat
      <3>1. Last(first) \in Blocks
        BY <2>6 DEF Last
      <3>2. QED
        BY <3>1, Above
    <2>8. Goal(task', db') = Last(first)
      BY <2>1, <2>6 DEF Goal
    <2>9. Num[Goal(task', db')] > Num[outcome'.from.head]
      BY <1>0, <2>1, <2>2, <2>5, <2>6, <2>7, <2>8
    <2>10. QED
      BY <1>0, <2>1, <2>2, <2>9 DEF HeightInv, NeverShorter, Rising
  <1>4. CASE push_block_refused(b, queue)
    BY <1>0, <1>1, <1>4 DEF push_block_refused, undo_vars
  <1>5. CASE push_block_stale(b, queue)
    BY <1>0, <1>1, <1>5 DEF push_block_stale, undo_vars
  <1>6. CASE push_block_switch(b, queue) /\ task'.phase = "idle"
    BY <1>0, <1>1, <1>6 DEF push_block_switch, undo_vars, Idle
  <1>7. QED
    BY <1>2, <1>3, <1>4, <1>5, <1>6 DEF push_block

\* An exception of apply_block is reported or unwound.
LEMMA FailureRises ==
  ASSUME ChainInv, HeightInv, block_failed
  PROVE  HeightInv'
  <1>1. CASE Ended("threw")
    <2>1. task'.phase = "idle" /\ outcome'.result = "threw" /\ outcome'.from = outcome.from
      BY <1>1 DEF Ended, Idle, ChainInv, SessionInv, Shaped
    <2>2. QED
      BY <2>1 DEF HeightInv, NeverShorter
  <1>2. CASE /\ task.mode = "switch" /\ UNCHANGED outcome
             /\ task' = [task EXCEPT !.phase = "unwind", !.todo = <<>>]
    <2>1. task'.phase = "unwind" /\ task'.mode = "switch"
      BY <1>2 DEF ChainInv, SessionInv, Shaped
    <2>2. QED
      BY <1>2, <2>1 DEF HeightInv, NeverShorter, Rising
  <1>3. QED
    BY <1>1, <1>2 DEF block_failed


\* A block is applied to the block it builds on.
LEMMA ApplyRises ==
  ASSUME ChainInv, ChainInv', HeightInv, apply_block
  PROVE  HeightInv'
  <1> DEFINE b == task.todo[1]
  <1>0. task.phase = "apply" /\ task.todo # <<>> /\ ApplyInv /\ Shaped
    BY DEF apply_block, ChainInv, Phased, SessionInv
  <1>1. CASE ~ block_applies(b, FALSE)
    BY <1>1, FailureRises DEF apply_block
  <1>2. CASE block_applies(b, FALSE)
    <2>1. db' = block_applied(b, FALSE) /\ outcome' = outcome
          /\ task' = [task EXCEPT !.phase = "repush", !.old_trx = transactions]
      BY <1>2 DEF apply_block
    <2>2. task'.phase = "repush" /\ task'.mode = task.mode /\ task'.todo = task.todo
      BY <1>0, <2>1 DEF Shaped
    <2>3. db'.head = b
      BY <2>2 DEF ChainInv, Phased, RepushInv
    <2>4. Rising(task, db, outcome.from) /\ outcome.from.head \in Ids
      BY <1>0 DEF HeightInv
    <2>5. ASSUME task.mode = "linear"
          PROVE  Num[db'.head] >= Num[outcome.from.head]
      <3>1. Linear /\ (previous = db.head \/ (Lost(previous, db) /\ Prev[task.new] # previous))
        BY <1>0, <2>5 DEF ApplyInv, Climbing
      <3>2. task.todo = <<task.new>> /\ task.new \in Blocks
        BY <1>0, <3>1 DEF Linear
      <3>3. b = task.new
        BY <3>2
      <3>4. previous = Prev[b]
        BY <1>2 DEF block_applies
      <3>5. db.head = Prev[b] /\ b \in Blocks
        BY <3>1, <3>2, <3>3, <3>4
      <3> HIDE DEF b
      <3>6. Num[b] = Num[db.head] + 1 /\ Num[db.head] \in Nat
        BY <3>5, Above
      <3>7. Num[outcome.from.head] \in Nat /\ Num[db.head] >= Num[outcome.from.head]
        BY <2>4, <2>5, NumRecursion DEF Rising
      <3>8. QED
        BY <2>3, <3>6, <3>7
    <2>6. Goal(task', db') = Goal(task, db)
      BY <1>0, <2>2 DEF Goal
    <2>7. Rising(task', db', outcome'.from)
      BY <1>0, <2>1, <2>2, <2>4, <2>5, <2>6 DEF Rising
    <2>8. QED
      BY <2>1, <2>2, <2>4, <2>7 DEF HeightInv, NeverShorter
  <1>3. QED
    BY <1>1, <1>2

\* A sequence and its tail end with the same element.
LEMMA TailLast ==
  ASSUME NEW s, IsSeq(s), s # <<>>
  PROVE  IF Tail(s) = <<>> THEN Last(s) = s[1] ELSE Last(Tail(s)) = Last(s)
  <1> DEFINE t == Tail(s)
  <1>1. /\ IsSeq(t) /\ Len(s) \in Nat \ {0} /\ DOMAIN t = 1 .. Len(s) - 1
        /\ \A i \in 1 .. Len(s) - 1 : t[i] = s[i + 1]
    BY TailSeq
  <1> HIDE DEF t
  <1>2. Last(s) = s[Len(s)]
    BY LastSeq
  <1>3. CASE t = <<>>
    <2>1. DOMAIN t = {}
      BY <1>3
    <2>2. Len(s) = 1
      <3>1. 1 \notin 1 .. Len(s) - 1
        BY <1>1, <2>1
      <3>2. Len(s) \in Nat \ {0}
        BY <1>1
      <3>3. ~ (1 <= Len(s) - 1)
        BY <3>1, <3>2
      <3>4. \A n \in Nat \ {0} : ~ (1 <= n - 1) => n = 1
        OBVIOUS
      <3>5. QED
        BY <3>2, <3>3, <3>4
    <2>3. QED
      BY <1>2, <1>3, <2>2 DEF t
  <1>4. CASE t # <<>>
    <2>1. Last(t) = t[Len(t)] /\ Len(t) \in Nat \ {0} /\ DOMAIN t = 1 .. Len(t)
      BY <1>1, <1>4, LastSeq
    <2>2. Len(t) = Len(s) - 1
      BY <1>1, <2>1
    <2>3. t[Len(t)] = s[Len(s)]
      BY <1>1, <2>1, <2>2
    <2>4. QED
      BY <1>2, <1>4, <2>1, <2>3 DEF t
  <1>5. QED
    BY <1>3, <1>4 DEF t

\* The head is the block just stored, and the last one of a branch at its end.
LEMMA StoreRises ==
  ASSUME ChainInv, HeightInv, store_block
  PROVE  HeightInv'
  <1>0. task.phase = "repush" /\ RepushInv /\ Shaped
    BY DEF store_block, ChainInv, Phased, SessionInv
  <1>1. /\ db' = db /\ outcome' = outcome
        /\ task' = [task EXCEPT !.phase = "apply", !.todo = Tail(@)]
    BY DEF store_block
  <1>2. task'.phase = "apply" /\ task'.mode = task.mode /\ task'.todo = Tail(task.todo)
    BY <1>0, <1>1 DEF Shaped
  <1>3. Rising(task, db, outcome.from) /\ outcome.from.head \in Ids
    BY <1>0 DEF HeightInv
  <1>4. task.todo # <<>> /\ db.head = task.todo[1]
    BY <1>0 DEF RepushInv
  <1>5. ASSUME task.mode = "switch"
        PROVE  Goal(task', db') = Goal(task, db)
    <2>1. task.todo \in Seq(Blocks)
      BY <1>0, <1>5 DEF RepushInv, Linear, Branches
    <2>2. IsSeq(task.todo)
      BY <2>1, SeqOfItself
    <2>3. IF Tail(task.todo) = <<>> THEN Last(task.todo) = task.todo[1]
          ELSE Last(Tail(task.todo)) = Last(task.todo)
      BY <1>4, <2>2, TailLast
    <2>4. QED
      BY <1>1, <1>2, <1>4, <2>3 DEF Goal
  <1>6. Rising(task', db', outcome'.from)
    BY <1>0, <1>1, <1>2, <1>3, <1>5 DEF Rising
  <1>7. QED
    BY <1>1, <1>2, <1>3, <1>6 DEF HeightInv, NeverShorter

\* Steps that leave the records of the call.
LEMMA SameRises ==
  ASSUME HeightInv, db'.head = db.head, outcome' = outcome, task'.phase = task.phase,
         task'.mode = task.mode, task'.todo = task.todo
  PROVE  HeightInv'
  <1>1. Goal(task', db') = Goal(task, db)
    BY DEF Goal
  <1>2. Rising(task, db, outcome.from) => Rising(task', db', outcome'.from)
    BY <1>1 DEF Rising
  <1>3. QED
    BY <1>2 DEF HeightInv, NeverShorter

\* A block is taken off: the branch to climb stays the same.
LEMMA PopRises ==
  ASSUME ChainInv, HeightInv, pop_block
  PROVE  HeightInv'
  <1>0. task.phase \in {"pop", "unwind"} /\ Shaped /\ task.mode = "switch"
        /\ (task.phase = "pop" => task.todo # <<>>)
    BY DEF pop_block, ChainInv, Phased, SessionInv, PopInv, UnwindInv
  <1>1. CASE Ended("threw")
    <2>1. task'.phase = "idle" /\ outcome'.result = "threw" /\ outcome'.from = outcome.from
      BY <1>0, <1>1 DEF Ended, Idle, Shaped
    <2>2. QED
      BY <2>1 DEF HeightInv, NeverShorter
  <1>2. CASE UNCHANGED <<task, outcome>>
    <2>1. task.phase = "pop" => Goal(task', db') = Goal(task, db)
      BY <1>0, <1>2 DEF Goal
    <2>2. QED
      BY <1>0, <1>2, <2>1 DEF HeightInv, NeverShorter, Rising
  <1>3. QED
    BY <1>1, <1>2 DEF pop_block

\* Every step keeps the heights.
LEMMA HeightStep == OneLife /\ ChainInv /\ ChainInv' /\ HeightInv /\ [Next]_vars => HeightInv'
  <1> SUFFICES ASSUME OneLife, ChainInv, ChainInv', HeightInv, [Next]_vars
               PROVE  HeightInv'
    OBVIOUS
  <1>00. task.phase \notin {"replay", "down"} /\ ~ (restarts < MaxRestarts) /\ Shaped
    BY DEF ChainInv, Phased, Framed, OneLife, SessionInv
  <1>1. ASSUME NEW t \in Txs, NEW skip_size \in BOOLEAN, push_transaction(t, skip_size)
        PROVE  HeightInv'
    <2>1. task' = task /\ outcome' = outcome
      BY <1>1 DEF push_transaction
    <2>2. db' = db \/ db' = with_trxs(db, <<t>>, FALSE)
      BY <1>1 DEF push_transaction, push_transaction_vars
    <2>3. task.phase = "idle"
      BY <1>1 DEF push_transaction
    <2>4. IsDb(db)
      BY <2>3 DEF ChainInv, Phased, Rested, Rests, Base
    <2>5. db'.head = db.head
      BY <2>2, <2>4, WithTrx
    <2>6. QED
      BY <2>1, <2>5, SameRises
  <1>2. ASSUME NEW b \in Blocks, handle_block(b)
        PROVE  HeightInv'
    BY <1>2, PushBlockRises DEF handle_block
  <1>3. ASSUME NEW b \in Blocks, generate_block(b)
        PROVE  HeightInv'
    BY <1>3, PushBlockRises DEF generate_block
  <1>4. CASE pop_block
    BY <1>4, PopRises
  <1>5. CASE pops_done
    <2>1. db' = db /\ outcome' = outcome /\ task.phase \in {"pop", "unwind"}
      BY <1>5 DEF pops_done, undo_vars
    <2>2. CASE task.phase = "pop"
      <3>1. task'.phase = "apply" /\ task'.mode = task.mode /\ task'.todo = task.todo
        BY <1>00, <1>5, <2>2 DEF pops_done, Shaped
      <3>2. Goal(task', db') = Goal(task, db)
        BY <2>1, <3>1 DEF Goal
      <3>3. QED
        BY <2>1, <2>2, <3>1, <3>2 DEF HeightInv, NeverShorter, Rising
    <2>3. CASE task.phase = "unwind"
      <3>1. task'.phase = "apply" /\ task'.mode = "restore"
        BY <1>00, <1>5, <2>3 DEF pops_done, Shaped
      <3>2. QED
        BY <2>1, <3>1 DEF HeightInv, NeverShorter, Rising
    <2>4. QED
      BY <2>1, <2>2, <2>3
  <1>6. CASE apply_block
    BY <1>6, ApplyRises
  <1>7. CASE update_pending_block
    <2>1. CASE push_transaction_throws(task.old_trx[1], transactions)
      BY <1>7, <2>1, FailureRises DEF update_pending_block
    <2>2. CASE ~ push_transaction_throws(task.old_trx[1], transactions)
      <3> DEFINE t == task.old_trx[1]
      <3>1. outcome' = outcome /\ task' = [task EXCEPT !.old_trx = Tail(@)]
        BY <1>7, <2>2 DEF update_pending_block
      <3>2. task'.phase = task.phase /\ task'.mode = task.mode /\ task'.todo = task.todo
        BY <1>00, <3>1 DEF Shaped
      <3>3. db' = db \/ db' = with_trxs(db, <<t>>, FALSE)
        BY <1>7, <2>2 DEF update_pending_block, push_transaction_vars
      <3>4. IsDb(db)
        BY <1>7, RepushFacts
      <3> HIDE DEF t
      <3>5. db'.head = db.head
        BY <3>3, <3>4, WithTrx
      <3>6. QED
        BY <3>1, <3>2, <3>5, SameRises
    <2>3. QED
      BY <2>1, <2>2
  <1>8. CASE store_block
    BY <1>8, StoreRises
  <1>9. CASE push_block_done
    <2>0. db' = db /\ task.phase = "apply" /\ task.todo = <<>>
      BY <1>9 DEF push_block_done, undo_vars
    <2>1. task.mode \in {"linear", "switch", "restore"} /\ Goal(task, db) = db.head
      BY <2>0 DEF ChainInv, Phased, ApplyInv, Goal
    <2>2. /\ task'.phase = "idle" /\ outcome'.from = outcome.from
          /\ outcome'.result = CASE task.mode = "linear" -> "false"
                                 [] task.mode = "switch" -> "true"
                                 [] task.mode = "restore" -> "threw"
      BY <1>00, <1>9 DEF push_block_done, Ended, Idle, Shaped
    <2>3. Num[db.head] \in Nat /\ Num[outcome.from.head] \in Nat
      <3>1. db.head \in Ids
        BY <2>0 DEF ChainInv, Phased, ApplyInv, Based, Base, IsDb
      <3>2. QED
        BY <3>1, NumRecursion DEF HeightInv
    <2>4. Rising(task, db, outcome.from)
      BY <2>0 DEF HeightInv
    <2>5. NeverShorter'
      BY <2>0, <2>1, <2>2, <2>3, <2>4 DEF NeverShorter, Rising
    <2>6. QED
      BY <2>2, <2>5 DEF HeightInv
  <1>10. CASE reindex_block \/ reindex_done \/ startup_open \/ startup_reindex \/ wipe
    BY <1>00, <1>10 DEF reindex_block, reindex_done, startup_open, startup_reindex, wipe
  <1>11. CASE close \/ crash
    BY <1>00, <1>11 DEF close, crash, Stopped
  <1>12. CASE UNCHANGED vars
    BY <1>12, SameRises DEF vars, undo_vars
  <1>13. QED
    BY <1>1, <1>2, <1>3, <1>4, <1>5, <1>6, <1>7, <1>8, <1>9, <1>10, <1>11, <1>12 DEF Next, Step

\* push_block() never leaves the node on a shorter chain, in one life of the
\* process, and reports a switch only to a higher one.
THEOREM HeadNeverShorter ==
  ASSUME OneLife
  PROVE  Spec => []NeverShorter
  <1>1. OneLife
    OBVIOUS
  <1>2. Spec => []ChainInv
    BY ChainInvariant
  <1>3. Init => HeightInv
    BY DEF Init, HeightInv, NeverShorter, Idle, GenesisState, Ids
  <1>4. ChainInv /\ ChainInv' /\ HeightInv /\ [Next]_vars => HeightInv'
    BY <1>1, HeightStep
  <1>5. HeightInv => NeverShorter
    BY DEF HeightInv
  <1>6. QED
    BY <1>2, <1>3, <1>4, <1>5, PTL DEF Spec
=============================================================================
