---------------------------- MODULE ProofLibrary ----------------------------
(***************************************************************************)
(* Facts that the proofs about the models share: induction over natural    *)
(* numbers and finite sets, sequences of anything, and sums.               *)
(*                                                                         *)
(* The induction principles speak of the set of the instances that hold    *)
(* in place of a predicate.                                                *)
(***************************************************************************)
EXTENDS Integers, FiniteSetsExt, SequencesExt,
        FiniteSetTheorems, SequenceTheorems, WellFoundedInduction, TLAPS

\* A sequence, of whatever elements.
IsSeq(s) == s \in Seq(ToSet(s))

----------------------------------------------------------------------------
(* Induction.                                                              *)

\* A set of natural numbers has a least element.
LEMMA LeastNat ==
  ASSUME NEW T, T \subseteq Nat, T # {}
  PROVE  \E x \in T : \A y \in T : x <= y
  <1> DEFINE R == OpToRel(<, Nat)
  <1>1. IsWellFoundedOn(R, Nat)
    BY NatLessThanWellFounded
  <1>2. \A x, y \in Nat : <<y, x>> \in R <=> y < x
    BY DEF OpToRel
  <1> HIDE DEF R
  <1>3. PICK x \in T : \A y \in T : ~ (<<y, x>> \in R)
    BY <1>1, WFMin
  <1>4. ASSUME NEW y \in T
        PROVE  x <= y
    <2>1. x \in Nat /\ y \in Nat /\ ~ (y < x)
      BY <1>2, <1>3
    <2>2. QED
      BY <2>1
  <1>5. QED
    BY <1>4

\* Induction over the natural numbers.
LEMMA NatSetInduction ==
  ASSUME NEW G, 0 \in G, \A n \in Nat : n \in G => n + 1 \in G
  PROVE  Nat \subseteq G
  <1> SUFFICES ASSUME Nat \ G # {}
               PROVE  FALSE
    OBVIOUS
  <1> DEFINE B == Nat \ G
  <1>1. PICK x \in B : \A y \in B : x <= y
    <2> HIDE DEF B
    <2> QED
      BY LeastNat, B # {}, B \subseteq Nat DEF B
  <1>2. x \in Nat /\ x # 0 /\ x - 1 \in Nat
    BY <1>1
  <1>3. x - 1 \in G
    BY <1>1, <1>2
  <1>4. x - 1 + 1 = x
    BY <1>2
  <1>5. QED
    BY <1>1, <1>2, <1>3, <1>4

\* Induction over the subsets of a finite set.
LEMMA SubsetInduction ==
  ASSUME NEW S, IsFiniteSet(S), NEW G,
         \A T \in SUBSET S : (\A x \in T : T \ {x} \in G) => T \in G
  PROVE  \A T \in SUBSET S : T \in G
  <1> DEFINE N == {n \in Nat : \A T \in SUBSET S : Cardinality(T) = n => T \in G}
  <1>1. \A T \in SUBSET S : IsFiniteSet(T) /\ Cardinality(T) \in Nat
    BY FS_Subset, FS_CardinalityType
  <1>2. 0 \in N
    <2>1. ASSUME NEW T \in SUBSET S, Cardinality(T) = 0
          PROVE  T \in G
      <3>1. T = {}
        BY <1>1, <2>1, FS_EmptySet
      <3>2. QED
        BY <3>1
    <2>2. QED
      BY <2>1
  <1>3. ASSUME NEW n \in Nat, n \in N
        PROVE  n + 1 \in N
    <2>1. ASSUME NEW T \in SUBSET S, Cardinality(T) = n + 1
          PROVE  T \in G
      <3>1. ASSUME NEW x \in T
            PROVE  T \ {x} \in G
        <4>1. T \ {x} \in SUBSET S /\ Cardinality(T \ {x}) = Cardinality(T) - 1
          BY <1>1, FS_RemoveElement
        <4>2. Cardinality(T \ {x}) = n
          BY <2>1, <4>1
        <4>3. QED
          BY <1>3, <4>1, <4>2
      <3>2. QED
        BY <3>1
    <2>2. QED
      BY <2>1
  <1> HIDE DEF N
  <1>4. Nat \subseteq N
    BY <1>2, <1>3, NatSetInduction
  <1>5. QED
    BY <1>1, <1>4 DEF N

----------------------------------------------------------------------------
(* Sequences.                                                              *)

\* A sequence of anything is a sequence of its own elements.
LEMMA SeqOfItself ==
  ASSUME NEW S, NEW s \in Seq(S)
  PROVE  IsSeq(s)
  BY DEF IsSeq, ToSet

\* Append adds one element and keeps the others.
LEMMA AppendSeq ==
  ASSUME NEW s, IsSeq(s), NEW x
  PROVE  /\ IsSeq(Append(s, x)) /\ Append(s, x) # <<>>
         /\ Len(s) \in Nat /\ DOMAIN s = 1 .. Len(s)
         /\ Len(Append(s, x)) = Len(s) + 1 /\ DOMAIN Append(s, x) = 1 .. Len(s) + 1
         /\ \A i \in 1 .. Len(s) : Append(s, x)[i] = s[i]
         /\ Append(s, x)[Len(s) + 1] = x
  <1> DEFINE S == ToSet(s) \cup {x}
             t == Append(s, x)
  <1>1. s \in Seq(S) /\ x \in S
    BY DEF IsSeq
  <1>2. /\ t \in Seq(S) /\ Len(t) = Len(s) + 1 /\ Len(s) \in Nat
        /\ DOMAIN s = 1 .. Len(s) /\ DOMAIN t = 1 .. Len(s) + 1
        /\ \A i \in 1 .. Len(s) : t[i] = s[i]
        /\ t[Len(s) + 1] = x
    BY <1>1, AppendProperties
  <1> HIDE DEF S, t
  <1>3. IsSeq(t) /\ t # <<>>
    BY <1>2, SeqOfItself
  <1>4. QED
    BY <1>2, <1>3 DEF t

\* Front drops the last element.
LEMMA FrontSeq ==
  ASSUME NEW s, IsSeq(s), s # <<>>
  PROVE  /\ IsSeq(Front(s)) /\ Len(s) \in Nat \ {0} /\ DOMAIN s = 1 .. Len(s)
         /\ Len(Front(s)) = Len(s) - 1 /\ DOMAIN Front(s) = 1 .. Len(s) - 1
         /\ \A i \in 1 .. Len(s) - 1 : Front(s)[i] = s[i]
  <1> DEFINE S == ToSet(s)
             t == Front(s)
  <1>1. s \in Seq(S) /\ Len(s) \in Nat \ {0} /\ DOMAIN s = 1 .. Len(s)
    BY EmptySeq DEF IsSeq
  <1>2. /\ t \in Seq(S) /\ Len(t) = Len(s) - 1
        /\ \A i \in 1 .. Len(s) - 1 : t[i] = s[i]
    BY <1>1, SubSeqProperties DEF Front
  <1>3. DOMAIN t = 1 .. Len(s) - 1
    BY <1>1, <1>2
  <1> HIDE DEF S, t
  <1>4. IsSeq(t)
    BY <1>2, SeqOfItself
  <1>5. QED
    BY <1>1, <1>2, <1>3, <1>4 DEF t

\* Tail drops the first element.
LEMMA TailSeq ==
  ASSUME NEW s, IsSeq(s), s # <<>>
  PROVE  /\ IsSeq(Tail(s)) /\ Len(s) \in Nat \ {0} /\ DOMAIN s = 1 .. Len(s)
         /\ DOMAIN Tail(s) = 1 .. Len(s) - 1 /\ Head(s) = s[1]
         /\ \A i \in 1 .. Len(s) - 1 : Tail(s)[i] = s[i + 1]
  <1> DEFINE S == ToSet(s)
             t == Tail(s)
  <1>1. s \in Seq(S) /\ Len(s) \in Nat \ {0} /\ DOMAIN s = 1 .. Len(s)
    BY EmptySeq DEF IsSeq
  <1>2. /\ t \in Seq(S) /\ Len(t) = Len(s) - 1 /\ Head(s) = s[1]
        /\ \A i \in 1 .. Len(s) - 1 : t[i] = s[i + 1]
    BY <1>1, HeadTailProperties
  <1>3. DOMAIN t = 1 .. Len(s) - 1
    BY <1>1, <1>2
  <1> HIDE DEF S, t
  <1>4. IsSeq(t)
    BY <1>2, SeqOfItself
  <1>5. QED
    BY <1>1, <1>2, <1>3, <1>4 DEF t

\* A sequence has finitely many indices.
LEMMA FiniteDomain ==
  ASSUME NEW x, IsSeq(x)
  PROVE  IsFiniteSet(DOMAIN x) /\ Len(x) \in Nat /\ DOMAIN x = 1 .. Len(x)
  <1>1. Len(x) \in Nat /\ DOMAIN x = 1 .. Len(x)
    BY DEF IsSeq
  <1>2. QED
    BY <1>1, FS_Interval

\* A set of at most one element as a sequence.
LEMMA SetToSeqSmall ==
  ASSUME NEW x
  PROVE  SetToSeq({}) = <<>> /\ SetToSeq({x}) = <<x>>
  <1>1. Cardinality({}) = 0 /\ Cardinality({x}) = 1
    BY FS_EmptySet, FS_Singleton
  <1>2. SetToSeq({}) = <<>>
    BY <1>1 DEF SetToSeq, IsInjective
  <1>3. SetToSeq({x}) = <<x>>
    <2>1. \A f \in [1 .. 1 -> {x}] : f = <<x>>
      OBVIOUS
    <2>2. <<x>> \in [1 .. 1 -> {x}] /\ IsInjective(<<x>>)
      BY DEF IsInjective
    <2>3. QED
      BY <1>1, <2>1, <2>2 DEF SetToSeq
  <1>4. QED
    BY <1>2, <1>3

----------------------------------------------------------------------------
(* Sums.                                                                   *)

\* The sum of the values of f over S.
Sum(f, S) == MapThenSumSet(LAMBDA x : f[x], S)

\* One step of its recursion, over the partial sums g.
SumStep(f, g, T) == IF T = {} THEN 0 ELSE LET x == CHOOSE x \in T : TRUE IN f[x] + g[T \ {x}]

\* g holds the partial sums of the subsets of S.
PartialSums(f, S, g) == g = [T \in SUBSET S |-> SumStep(f, g, T)]

\* A sum is a partial sum of the set itself.
LEMMA SumUnfold ==
  ASSUME NEW f, NEW S
  PROVE  Sum(f, S) = (CHOOSE g : PartialSums(f, S, g))[S]
  BY DEF Sum, MapThenSumSet, MapThenFoldSet, PartialSums, SumStep

\* The recursion of a sum over a finite set has a solution.
LEMMA PartialSumsExist ==
  ASSUME NEW f, NEW S, IsFiniteSet(S)
  PROVE  \E g : PartialSums(f, S, g)
  <1> DEFINE Solves(g, n) == \A T \in SUBSET S : Cardinality(T) <= n => g[T] = SumStep(f, g, T)
             N == {n \in Nat : \E g : Solves(g, n)}
  <1>1. \A T \in SUBSET S : Cardinality(T) \in Nat /\ (T # {} => Cardinality(T) > 0)
        /\ \A x \in T : T \ {x} \in SUBSET S /\ Cardinality(T \ {x}) = Cardinality(T) - 1
    <2> TAKE T \in SUBSET S
    <2>1. IsFiniteSet(T) /\ Cardinality(T) \in Nat
      BY FS_Subset, FS_CardinalityType
    <2>2. T # {} => Cardinality(T) # 0
      BY <2>1, FS_EmptySet
    <2>3. \A x \in T : Cardinality(T \ {x}) = Cardinality(T) - 1
      BY <2>1, FS_RemoveElement
    <2>4. QED
      BY <2>1, <2>2, <2>3
  <1>2. 0 \in N
    <2> DEFINE g == [T \in SUBSET S |-> 0]
    <2>1. Solves(g, 0)
      BY <1>1 DEF SumStep
    <2>2. QED
      BY <2>1
  <1>3. ASSUME NEW n \in Nat, n \in N
        PROVE  n + 1 \in N
    <2>1. PICK g : Solves(g, n)
      BY <1>3
    <2> DEFINE h == [T \in SUBSET S |-> IF Cardinality(T) = n + 1 THEN SumStep(f, g, T) ELSE g[T]]
    <2>2. ASSUME NEW T \in SUBSET S, Cardinality(T) <= n + 1
          PROVE  h[T] = SumStep(f, h, T) /\ SumStep(f, h, T) = SumStep(f, g, T)
      <3>1. SumStep(f, h, T) = SumStep(f, g, T)
        <4>1. CASE T = {}
          BY <4>1 DEF SumStep
        <4>2. CASE T # {}
          <5> DEFINE x == CHOOSE x \in T : TRUE
          <5>1. x \in T
            BY <4>2
          <5> HIDE DEF x
          <5>2. T \ {x} \in SUBSET S /\ Cardinality(T \ {x}) # n + 1
            BY <1>1, <2>2, <5>1
          <5>3. h[T \ {x}] = g[T \ {x}]
            BY <5>2
          <5> HIDE DEF h
          <5>4. QED
            BY <4>2, <5>3 DEF SumStep, x
        <4>3. QED
          BY <4>1, <4>2
      <3>2. Cardinality(T) # n + 1 => h[T] = g[T] /\ g[T] = SumStep(f, g, T)
        BY <1>1, <2>1, <2>2
      <3>3. Cardinality(T) = n + 1 => h[T] = SumStep(f, g, T)
        OBVIOUS
      <3>4. QED
        BY <3>1, <3>2, <3>3
    <2> HIDE DEF h
    <2>3. QED
      BY <2>2
  <1> HIDE DEF N
  <1>4. Nat \subseteq N /\ Cardinality(S) \in Nat
    BY <1>2, <1>3, NatSetInduction, FS_CardinalityType
  <1>5. PICK g : Solves(g, Cardinality(S))
    BY <1>4 DEF N
  <1> DEFINE h == [T \in SUBSET S |-> g[T]]
  <1>6. ASSUME NEW T \in SUBSET S
        PROVE  h[T] = SumStep(f, h, T)
    <2>1. Cardinality(T) <= Cardinality(S)
      BY FS_Subset
    <2>2. g[T] = SumStep(f, g, T)
      BY <1>5, <2>1
    <2>3. SumStep(f, h, T) = SumStep(f, g, T)
      BY DEF SumStep
    <2>4. QED
      BY <2>2, <2>3
  <1>7. PartialSums(f, S, h)
    BY <1>6 DEF PartialSums
  <1>8. QED
    BY <1>7

\* Partial sums are the same whatever set they were made for, and of whatever
\* function that has the same values.
LEMMA PartialSumsAgree ==
  ASSUME NEW f, NEW e, NEW S, NEW R, NEW g, NEW h, IsFiniteSet(S), S \subseteq R,
         PartialSums(f, S, g), PartialSums(e, R, h), \A x \in S : f[x] = e[x]
  PROVE  g[S] = h[S]
  <1> DEFINE G == {T \in SUBSET S : g[T] = h[T]}
  <1>1. \A T \in SUBSET S : g[T] = SumStep(f, g, T) /\ h[T] = SumStep(e, h, T)
    BY DEF PartialSums
  <1>2. ASSUME NEW T \in SUBSET S, \A x \in T : T \ {x} \in G
        PROVE  T \in G
    <2>1. CASE T = {}
      BY <1>1, <2>1 DEF SumStep
    <2>2. CASE T # {}
      <3> DEFINE x == CHOOSE x \in T : TRUE
      <3>1. x \in T
        BY <2>2
      <3>2. SumStep(f, g, T) = f[x] + g[T \ {x}] /\ SumStep(e, h, T) = e[x] + h[T \ {x}]
        BY <2>2 DEF SumStep
      <3> HIDE DEF x
      <3>3. g[T \ {x}] = h[T \ {x}] /\ f[x] = e[x]
        BY <1>2, <3>1
      <3>4. QED
        BY <1>1, <3>2, <3>3
    <2>3. QED
      BY <2>1, <2>2
  <1> HIDE DEF G
  <1>3. \A T \in SUBSET S : T \in G
    BY <1>2, SubsetInduction
  <1>4. QED
    BY <1>3 DEF G

\* Functions with the same values have the same sum.
LEMMA SumSame ==
  ASSUME NEW f, NEW e, NEW S, IsFiniteSet(S), \A x \in S : f[x] = e[x]
  PROVE  Sum(f, S) = Sum(e, S)
  <1> DEFINE g == CHOOSE g : PartialSums(f, S, g)
             h == CHOOSE h : PartialSums(e, S, h)
  <1>1. PartialSums(f, S, g) /\ PartialSums(e, S, h)
    BY PartialSumsExist
  <1>2. Sum(f, S) = g[S] /\ Sum(e, S) = h[S]
    BY SumUnfold
  <1> HIDE DEF g, h
  <1>3. QED
    BY <1>1, <1>2, PartialSumsAgree

\* The recursion of a sum.
LEMMA SumRecursion ==
  ASSUME NEW f, NEW S, IsFiniteSet(S)
  PROVE  /\ Sum(f, {}) = 0
         /\ S # {} => LET x == CHOOSE x \in S : TRUE
                      IN  x \in S /\ Sum(f, S) = f[x] + Sum(f, S \ {x})
  <1>1. ASSUME NEW T, IsFiniteSet(T)
        PROVE  \E g : PartialSums(f, T, g) /\ Sum(f, T) = g[T]
    <2> DEFINE g == CHOOSE g : PartialSums(f, T, g)
    <2>1. PartialSums(f, T, g)
      BY <1>1, PartialSumsExist
    <2>2. Sum(f, T) = g[T]
      BY SumUnfold
    <2>3. QED
      BY <2>1, <2>2
  <1>2. Sum(f, {}) = 0
    <2>1. PICK g : PartialSums(f, {}, g) /\ Sum(f, {}) = g[{}]
      BY <1>1, FS_EmptySet
    <2>2. g[{}] = SumStep(f, g, {})
      BY <2>1 DEF PartialSums
    <2>3. QED
      BY <2>1, <2>2 DEF SumStep
  <1>3. ASSUME S # {}
        PROVE  LET x == CHOOSE x \in S : TRUE IN x \in S /\ Sum(f, S) = f[x] + Sum(f, S \ {x})
    <2> DEFINE x == CHOOSE x \in S : TRUE
    <2>1. x \in S
      BY <1>3
    <2>2. PICK g : PartialSums(f, S, g) /\ Sum(f, S) = g[S]
      BY <1>1
    <2>3. g[S] = f[x] + g[S \ {x}]
      <3>1. g[S] = SumStep(f, g, S)
        BY <2>2 DEF PartialSums
      <3>2. QED
        BY <1>3, <3>1 DEF SumStep
    <2> HIDE DEF x
    <2>4. IsFiniteSet(S \ {x}) /\ S \ {x} \subseteq S
      BY FS_RemoveElement
    <2>5. PICK h : PartialSums(f, S \ {x}, h) /\ Sum(f, S \ {x}) = h[S \ {x}]
      BY <1>1, <2>4
    <2>6. g[S \ {x}] = h[S \ {x}]
      BY <2>2, <2>4, <2>5, PartialSumsAgree
    <2>7. QED
      BY <2>1, <2>2, <2>3, <2>5, <2>6 DEF x
  <1>4. QED
    BY <1>2, <1>3

\* A sum of integers is an integer.
LEMMA SumType ==
  ASSUME NEW f, NEW S, IsFiniteSet(S), \A x \in S : f[x] \in Int
  PROVE  Sum(f, S) \in Int
  <1> DEFINE G == {T \in SUBSET S : Sum(f, T) \in Int}
  <1>1. ASSUME NEW T \in SUBSET S, \A x \in T : T \ {x} \in G
        PROVE  T \in G
    <2>1. IsFiniteSet(T)
      BY FS_Subset
    <2>2. CASE T = {}
      <3>1. Sum(f, {}) = 0
        BY <2>1, SumRecursion
      <3>2. QED
        BY <2>2, <3>1
    <2>3. CASE T # {}
      <3>1. PICK x : x \in T /\ Sum(f, T) = f[x] + Sum(f, T \ {x})
        BY <2>1, <2>3, SumRecursion
      <3>2. f[x] \in Int /\ Sum(f, T \ {x}) \in Int
        BY <1>1, <3>1
      <3>3. QED
        BY <3>1, <3>2
    <2>4. QED
      BY <2>2, <2>3
  <1> HIDE DEF G
  <1>2. \A T \in SUBSET S : T \in G
    BY <1>1, SubsetInduction
  <1>3. QED
    BY <1>2 DEF G

\* Any element of the set may be added last.
LEMMA SumRemove ==
  ASSUME NEW f, NEW S, IsFiniteSet(S), \A x \in S : f[x] \in Int, NEW a \in S
  PROVE  Sum(f, S) = f[a] + Sum(f, S \ {a})
  <1> DEFINE G == {T \in SUBSET S : \A y \in T : Sum(f, T) = f[y] + Sum(f, T \ {y})}
  <1>1. ASSUME NEW T \in SUBSET S, \A x \in T : T \ {x} \in G
        PROVE  T \in G
    <2> SUFFICES ASSUME NEW y \in T
                 PROVE  Sum(f, T) = f[y] + Sum(f, T \ {y})
      OBVIOUS
    <2>1. IsFiniteSet(T)
      BY FS_Subset
    <2>2. PICK x : x \in T /\ Sum(f, T) = f[x] + Sum(f, T \ {x})
      BY <2>1, SumRecursion
    <2>3. CASE x # y
      <3> DEFINE Txy == (T \ {x}) \ {y}
      <3>1. Sum(f, T \ {x}) = f[y] + Sum(f, (T \ {x}) \ {y})
        BY <1>1, <2>2, <2>3
      <3>2. Sum(f, T \ {y}) = f[x] + Sum(f, (T \ {y}) \ {x})
        BY <1>1, <2>2, <2>3
      <3>3. (T \ {y}) \ {x} = Txy /\ Txy \in SUBSET S
        OBVIOUS
      <3>4. f[x] \in Int /\ f[y] \in Int /\ Sum(f, Txy) \in Int
        <4>1. IsFiniteSet(Txy) /\ \A z \in Txy : f[z] \in Int
          BY FS_Subset
        <4>2. QED
          BY <2>2, <4>1, SumType
      <3>5. Sum(f, T \ {x}) = f[y] + Sum(f, Txy) /\ Sum(f, T \ {y}) = f[x] + Sum(f, Txy)
        BY <3>1, <3>2, <3>3
      <3> HIDE DEF Txy
      <3>6. QED
        BY <2>2, <3>4, <3>5
    <2>4. CASE x = y
      BY <2>2, <2>4
    <2>5. QED
      BY <2>3, <2>4
  <1> HIDE DEF G
  <1>2. \A T \in SUBSET S : T \in G
    BY <1>1, SubsetInduction
  <1>3. QED
    BY <1>2 DEF G

\* A function changed at one element.
LEMMA SumChange ==
  ASSUME NEW f, NEW e, NEW S, IsFiniteSet(S), NEW a \in S,
         \A x \in S : f[x] \in Int, e[a] \in Int, \A x \in S \ {a} : e[x] = f[x]
  PROVE  Sum(e, S) = Sum(f, S) + e[a] - f[a]
  <1>1. \A x \in S : e[x] \in Int
    OBVIOUS
  <1>2. IsFiniteSet(S \ {a})
    BY FS_RemoveElement
  <1> DEFINE r == Sum(f, S \ {a})
  <1>3. Sum(e, S \ {a}) = r
    BY <1>2, SumSame
  <1>4. r \in Int
    BY <1>2, SumType
  <1>5. Sum(f, S) = f[a] + r /\ Sum(e, S) = e[a] + r
    BY <1>1, <1>3, SumRemove
  <1> HIDE DEF r
  <1>6. QED
    BY <1>4, <1>5

\* A set with one more element.
LEMMA SumAdd ==
  ASSUME NEW f, NEW e, NEW S, IsFiniteSet(S), NEW a, a \notin S,
         \A x \in S : f[x] \in Int, e[a] \in Int, \A x \in S : e[x] = f[x]
  PROVE  Sum(e, S \cup {a}) = Sum(f, S) + e[a]
  <1>1. IsFiniteSet(S \cup {a}) /\ \A x \in S \cup {a} : e[x] \in Int
    BY FS_AddElement
  <1>2. (S \cup {a}) \ {a} = S
    OBVIOUS
  <1>3. Sum(e, S \cup {a}) = e[a] + Sum(e, S)
    BY <1>1, <1>2, SumRemove
  <1>4. Sum(e, S) = Sum(f, S) /\ Sum(f, S) \in Int
    BY SumSame, SumType
  <1>5. QED
    BY <1>3, <1>4

----------------------------------------------------------------------------
(* Folds.                                                                  *)

\* A finite set of natural numbers has a greatest element.
LEMMA MaxIn ==
  ASSUME NEW T, NEW n \in Nat, T \subseteq 0 .. n, T # {}
  PROVE  Max(T) \in T /\ \A x \in T : Max(T) >= x
  <1> DEFINE D == {n - x : x \in T}
  <1>0. \A x \in T : x \in Int /\ n - x \in Nat
    <2> TAKE x \in T
    <2>1. x \in 0 .. n
      OBVIOUS
    <2>2. QED
      BY <2>1
  <1>1. D \subseteq Nat /\ D # {}
    BY <1>0
  <1>2. PICK d \in D : \A e \in D : d <= e
    <2> HIDE DEF D
    <2> QED
      BY <1>1, LeastNat
  <1>3. PICK m \in T : d = n - m
    BY <1>2
  <1>4. \A x \in T : m >= x
    <2> TAKE x \in T
    <2>1. d <= n - x
      BY <1>2
    <2>2. x \in Int /\ m \in Int
      BY <1>0
    <2>3. QED
      BY <1>3, <2>1, <2>2
  <1>5. QED
    BY <1>4 DEF Max

\* A finite set of natural numbers is bounded.
LEMMA MaxOfFinite ==
  ASSUME NEW S, IsFiniteSet(S), S \subseteq Nat
  PROVE  \A T \in SUBSET S : T # {} => Max(T) \in T
  <1> DEFINE G == {T \in SUBSET S : \E n \in Nat : T \subseteq 0 .. n}
  <1>1. ASSUME NEW T \in SUBSET S, \A x \in T : T \ {x} \in G
        PROVE  T \in G
    <2>1. CASE T = {}
      <3>1. T \subseteq 0 .. 0
        BY <2>1
      <3>2. QED
        BY <3>1
    <2>2. CASE T # {}
      <3>1. PICK x \in T : TRUE
        BY <2>2
      <3>2. PICK n \in Nat : T \ {x} \subseteq 0 .. n
        BY <1>1
      <3> DEFINE m == IF x > n THEN x ELSE n
      <3>3. x \in Nat
        BY <3>1
      <3>4. m \in Nat /\ x <= m /\ n <= m
        BY <3>3
      <3> HIDE DEF m
      <3>5. ASSUME NEW y \in T
            PROVE  y \in 0 .. m
        <4>1. CASE y = x
          BY <3>3, <3>4, <4>1
        <4>2. CASE y # x
          <5>1. y \in 0 .. n
            BY <3>2, <4>2
          <5>2. QED
            BY <3>4, <5>1
        <4>3. QED
          BY <4>1, <4>2
      <3>6. QED
        BY <3>4, <3>5
    <2>3. QED
      BY <2>1, <2>2
  <1> HIDE DEF G
  <1>2. \A T \in SUBSET S : T \in G
    BY <1>1, SubsetInduction
  <1>3. QED
    BY <1>2, MaxIn DEF G

\* A fold over a finite set of natural numbers takes the least first: one step of
\* its recursion, where st[x] says what element x does to the result, over the
\* results g for the subsets.
FoldStep(st, base, g, T) == IF T = {} THEN base ELSE st[Max(T)][g[T \ {Max(T)}]]
Folded(st, base, S, g) == \A T \in SUBSET S : g[T] = FoldStep(st, base, g, T)

\* The recursion has a solution, within the values that the steps are defined on.
LEMMA FoldsExist ==
  ASSUME NEW S, IsFiniteSet(S), S \subseteq Nat, NEW A, NEW base \in A, NEW st \in [S -> [A -> A]]
  PROVE  \E g : Folded(st, base, S, g) /\ g = [T \in SUBSET S |-> g[T]] /\ \A T \in SUBSET S : g[T] \in A
  <1> DEFINE Solves(g, n) == \A T \in SUBSET S : Cardinality(T) <= n => g[T] = FoldStep(st, base, g, T)
             N == {n \in Nat : \E g : Solves(g, n)}
  <1>1. ASSUME NEW T \in SUBSET S
        PROVE  /\ Cardinality(T) \in Nat
               /\ T # {} => /\ Cardinality(T) > 0 /\ Max(T) \in T
                            /\ T \ {Max(T)} \in SUBSET S /\ Cardinality(T \ {Max(T)}) = Cardinality(T) - 1
    <2>1. IsFiniteSet(T) /\ Cardinality(T) \in Nat
      BY FS_Subset, FS_CardinalityType
    <2>2. T # {} => Cardinality(T) # 0
      BY <2>1, FS_EmptySet
    <2>3. T # {} => Max(T) \in T
      BY MaxOfFinite
    <2>4. \A x \in T : Cardinality(T \ {x}) = Cardinality(T) - 1
      BY <2>1, FS_RemoveElement
    <2>5. T # {} => Cardinality(T) > 0
      BY <2>1, <2>2
    <2>6. T # {} => T \ {Max(T)} \in SUBSET S /\ Cardinality(T \ {Max(T)}) = Cardinality(T) - 1
      BY <2>3, <2>4
    <2>7. QED
      BY <2>1, <2>3, <2>5, <2>6
  <1>2. 0 \in N
    <2> DEFINE g == [T \in SUBSET S |-> base]
    <2>1. ASSUME NEW T \in SUBSET S, Cardinality(T) <= 0
          PROVE  g[T] = FoldStep(st, base, g, T)
      <3>1. T = {}
        <4>1. Cardinality(T) \in Nat
          BY <1>1
        <4>2. T # {} => Cardinality(T) > 0
          BY <1>1
        <4>3. QED
          BY <2>1, <4>1, <4>2
      <3>2. QED
        BY <3>1 DEF FoldStep
    <2>2. QED
      BY <2>1
  <1>3. ASSUME NEW n \in Nat, n \in N
        PROVE  n + 1 \in N
    <2>1. PICK g : Solves(g, n)
      BY <1>3
    <2> DEFINE h == [T \in SUBSET S |-> IF Cardinality(T) = n + 1 THEN FoldStep(st, base, g, T) ELSE g[T]]
    <2>2. ASSUME NEW T \in SUBSET S, Cardinality(T) <= n + 1
          PROVE  h[T] = FoldStep(st, base, h, T)
      <3>1. FoldStep(st, base, h, T) = FoldStep(st, base, g, T)
        <4>1. CASE T = {}
          BY <4>1 DEF FoldStep
        <4>2. CASE T # {}
          <5> DEFINE x == Max(T)
          <5>1. T \ {x} \in SUBSET S /\ Cardinality(T \ {x}) # n + 1
            BY <1>1, <2>2, <4>2
          <5> HIDE DEF x
          <5>2. h[T \ {x}] = g[T \ {x}]
            BY <5>1
          <5> HIDE DEF h
          <5>3. QED
            BY <4>2, <5>2 DEF FoldStep, x
        <4>3. QED
          BY <4>1, <4>2
      <3>2. Cardinality(T) # n + 1 => h[T] = g[T] /\ g[T] = FoldStep(st, base, g, T)
        <4>1. Cardinality(T) \in Nat
          BY <1>1
        <4>2. QED
          BY <2>1, <2>2, <4>1
      <3>3. Cardinality(T) = n + 1 => h[T] = FoldStep(st, base, g, T)
        OBVIOUS
      <3>4. QED
        BY <3>1, <3>2, <3>3
    <2> HIDE DEF h
    <2>3. QED
      BY <2>2
  <1> HIDE DEF N
  <1>4. Nat \subseteq N /\ Cardinality(S) \in Nat
    BY <1>2, <1>3, NatSetInduction, FS_CardinalityType
  <1>5. PICK g : Solves(g, Cardinality(S))
    BY <1>4 DEF N
  <1> DEFINE h == [T \in SUBSET S |-> g[T]]
  <1>6. ASSUME NEW T \in SUBSET S
        PROVE  h[T] = FoldStep(st, base, h, T)
    <2>1. Cardinality(T) <= Cardinality(S)
      BY FS_Subset
    <2>2. g[T] = FoldStep(st, base, g, T)
      BY <1>5, <2>1
    <2>3. FoldStep(st, base, h, T) = FoldStep(st, base, g, T)
      BY DEF FoldStep
    <2>4. QED
      BY <2>2, <2>3
  <1>7. Folded(st, base, S, h) /\ h = [T \in SUBSET S |-> h[T]]
    BY <1>6 DEF Folded
  <1> HIDE DEF h
  <1> DEFINE G == {T \in SUBSET S : h[T] \in A}
  <1>8. ASSUME NEW T \in SUBSET S, \A x \in T : T \ {x} \in G
        PROVE  T \in G
    <2>1. h[T] = FoldStep(st, base, h, T)
      BY <1>6
    <2>2. CASE T = {}
      BY <2>1, <2>2 DEF FoldStep
    <2>3. CASE T # {}
      <3>1. Max(T) \in T
        BY <1>1, <2>3
      <3>2. h[T \ {Max(T)}] \in A /\ st[Max(T)] \in [A -> A]
        BY <1>8, <3>1
      <3>3. QED
        BY <2>1, <2>3, <3>2 DEF FoldStep
    <2>4. QED
      BY <2>2, <2>3
  <1>9. \A T \in SUBSET S : T \in G
    <2> HIDE DEF G
    <2> QED
      BY <1>8, SubsetInduction
  <1>10. QED
    BY <1>7, <1>9

\* The sum of a part is no more than the sum of the whole.
LEMMA SumOfPart ==
  ASSUME NEW f, NEW S, IsFiniteSet(S), \A x \in S : f[x] \in Nat, NEW R \in SUBSET S
  PROVE  Sum(f, R) <= Sum(f, S)
  <1> DEFINE G == {T \in SUBSET S : R \subseteq T => Sum(f, R) <= Sum(f, T)}
  <1>1. ASSUME NEW T \in SUBSET S, \A x \in T : T \ {x} \in G
        PROVE  T \in G
    <2> SUFFICES ASSUME R \subseteq T
                 PROVE  Sum(f, R) <= Sum(f, T)
      OBVIOUS
    <2>1. IsFiniteSet(T) /\ IsFiniteSet(R)
      BY FS_Subset
    <2>2. Sum(f, R) \in Int
      BY <2>1, SumType
    <2>3. CASE R = T
      BY <2>2, <2>3
    <2>4. CASE R # T
      <3>1. PICK x \in T : x \notin R
        BY <2>4
      <3>2. Sum(f, T) = f[x] + Sum(f, T \ {x})
        BY <2>1, SumRemove
      <3>3. Sum(f, R) <= Sum(f, T \ {x})
        BY <1>1, <3>1
      <3>4. IsFiniteSet(T \ {x})
        BY <2>1, FS_RemoveElement
      <3>5. f[x] \in Nat /\ Sum(f, T \ {x}) \in Int
        BY <3>4, SumType
      <3>6. QED
        BY <2>2, <3>2, <3>3, <3>5
    <2>5. QED
      BY <2>3, <2>4
  <1>2. S \in G
    <2> HIDE DEF G
    <2>1. \A T \in SUBSET S : T \in G
      BY <1>1, SubsetInduction
    <2>2. QED
      BY <2>1
  <1>3. QED
    BY <1>2

\* A finite union of finite sets is finite.
LEMMA FiniteUnion ==
  ASSUME NEW S, IsFiniteSet(S), NEW f, \A i \in S : IsFiniteSet(f[i])
  PROVE  IsFiniteSet(UNION {f[i] : i \in S})
  <1> DEFINE G == {T \in SUBSET S : IsFiniteSet(UNION {f[i] : i \in T})}
  <1>1. ASSUME NEW T \in SUBSET S, \A x \in T : T \ {x} \in G
        PROVE  T \in G
    <2>1. CASE T = {}
      <3>1. UNION {f[i] : i \in T} = {}
        BY <2>1
      <3>2. QED
        BY <3>1, FS_EmptySet
    <2>2. CASE T # {}
      <3>1. PICK x \in T : TRUE
        BY <2>2
      <3> DEFINE R == UNION {f[i] : i \in T \ {x}}
      <3>2. UNION {f[i] : i \in T} = R \cup f[x]
        BY <3>1
      <3>3. IsFiniteSet(R) /\ IsFiniteSet(f[x])
        BY <1>1, <3>1
      <3> HIDE DEF R
      <3>4. IsFiniteSet(R \cup f[x])
        BY <3>3, FS_Union
      <3>5. QED
        BY <3>2, <3>4
    <2>3. QED
      BY <2>1, <2>2
  <1>2. S \in G
    <2> HIDE DEF G
    <2>1. \A T \in SUBSET S : T \in G
      BY <1>1, SubsetInduction
    <2>2. QED
      BY <2>1
  <1>3. QED
    BY <1>2
=============================================================================
