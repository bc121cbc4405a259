----------------------------- MODULE FoldLemmas -----------------------------
(***************************************************************************)
(* Lemmas about folds that the proofs of Workflow (the sum of the tokens a *)
(* set of nodes has used) and of FileTransaction (the checkpoints undone   *)
(* one after the other) need.                                              *)
(*                                                                         *)
(* Induction is stated over a set of the values a fact holds of, which is  *)
(* an ordinary constant, and comes from WFMin: a set that is not all of    *)
(* Nat, or of the subsets of S, has a least value outside it.              *)
(***************************************************************************)
EXTENDS FiniteSetsExt, Integers, FiniteSetTheorems, WellFoundedInduction, TLAPS

-----------------------------------------------------------------------------
(* Induction                                                                *)

\* A set of naturals with 0 and with the successor of each member is Nat.
LEMMA NatStep ==
  ASSUME NEW A \in SUBSET Nat, 0 \in A, \A n \in A : n + 1 \in A
  PROVE  A = Nat
<1>1. SUFFICES ASSUME Nat \ A # {} PROVE FALSE
  OBVIOUS
<1>2. PICK n \in Nat \ A : \A m \in Nat \ A : ~ (<<m, n>> \in OpToRel(<, Nat))
  BY <1>1, WFMin, NatLessThanWellFounded
<1>3. n # 0 /\ n - 1 \in Nat /\ n - 1 + 1 = n
  BY 0 \in A, n \in Nat, n \notin A
<1>4. <<n - 1, n>> \in OpToRel(<, Nat)
  BY <1>3, n \in Nat, n - 1 < n DEF OpToRel
<1>. QED  BY <1>2, <1>3, <1>4

\* A set with every subset of S whose proper subsets it has all, has them all.
LEMMA SubsetInduction ==
  ASSUME NEW S, IsFiniteSet(S), NEW A,
         \A T \in SUBSET S : (\A U \in SUBSET T : U # T => U \in A) => T \in A
  PROVE  \A T \in SUBSET S : T \in A
<1>. DEFINE Out == (SUBSET S) \ A
<1>1. SUFFICES ASSUME Out # {} PROVE FALSE
  OBVIOUS
<1>2. IsWellFoundedOn(StrictSubsetOrdering(S), SUBSET S)
  BY FS_StrictSubsetOrderingWellFounded, FS_FiniteSubsetsOfFinite
<1>3. PICK T \in Out : \A U \in Out : ~ (<<U, T>> \in StrictSubsetOrdering(S))
  <2>. Out \subseteq SUBSET S
    OBVIOUS
  <2>. HIDE DEF Out
  <2>. QED  BY <1>1, <1>2, WFMin
<1>4. \A U \in SUBSET T : U # T => U \in A
  BY <1>3 DEF StrictSubsetOrdering
<1>. QED  BY <1>3, <1>4

\* Min of naturals is their least.
LEMMA MinIsLeast ==
  ASSUME NEW s \in SUBSET Nat, s # {}
  PROVE  Min(s) \in s /\ \A y \in s : Min(s) <= y
<1>1. PICK x \in s : \A y \in s : ~ (<<y, x>> \in OpToRel(<, Nat))
  BY WFMin, NatLessThanWellFounded
<1>2. ASSUME NEW y \in s
      PROVE  x <= y
  <2>1. x \in Nat /\ y \in Nat
    OBVIOUS
  <2>2. ~(y < x)
    BY <1>1, <2>1 DEF OpToRel
  <2>. QED  BY <2>1, <2>2
<1>. QED  BY <1>2 DEF Min

-----------------------------------------------------------------------------
(* Functions defined by recursion on the subsets of a finite set            *)

\* g folds op over the subsets of S, taking out the element choose names.
FoldEquation(g, S, choose, op, base) ==
  \A s \in SUBSET S : g[s] = IF s = {} THEN base ELSE op[choose[s], g[s \ {choose[s]}]]

\* Such a function exists, whatever the choice: the CHOOSE behind a fold is of
\* something.
LEMMA FoldDefined ==
  ASSUME NEW S, IsFiniteSet(S), NEW V, NEW base \in V, NEW op \in [S \X V -> V],
         NEW choose, \A s \in SUBSET S : s # {} => choose[s] \in s
  PROVE  \E g \in [SUBSET S -> V] : FoldEquation(g, S, choose, op, base)
<1>. DEFINE Upto(n) == {s \in SUBSET S : Cardinality(s) <= n}
            Fits(g, n) == \A s \in Upto(n) :
                 g[s] = IF s = {} THEN base ELSE op[choose[s], g[s \ {choose[s]}]]
            A == {n \in Nat : \E g \in [Upto(n) -> V] : Fits(g, n)}
<1>1. \A s \in SUBSET S : /\ IsFiniteSet(s) /\ Cardinality(s) \in Nat
                          /\ Cardinality(s) <= Cardinality(S)
                          /\ Cardinality(s) = 0 <=> s = {}
  BY FS_Subset, FS_CardinalityType, FS_EmptySet
<1>2. \A n \in Nat : \A s \in Upto(n + 1) : s # {} =>
        choose[s] \in S /\ s \ {choose[s]} \in Upto(n)
  <2>. SUFFICES ASSUME NEW n \in Nat, NEW s \in Upto(n + 1), s # {}
                PROVE  choose[s] \in S /\ s \ {choose[s]} \in Upto(n)
    OBVIOUS
  <2>1. choose[s] \in s /\ IsFiniteSet(s) /\ Cardinality(s) \in Nat
    BY <1>1
  <2>2. Cardinality(s \ {choose[s]}) = Cardinality(s) - 1
    BY <2>1, FS_RemoveElement
  <2>. QED  BY <2>1, <2>2
<1>3. 0 \in A
  <2>1. Upto(0) = {{}}
    BY <1>1
  <2>2. [s \in Upto(0) |-> base] \in [Upto(0) -> V] /\ Fits([s \in Upto(0) |-> base], 0)
    BY <2>1
  <2>. QED  BY <2>2
<1>4. \A n \in A : n + 1 \in A
  <2>. SUFFICES ASSUME NEW n \in Nat, NEW g \in [Upto(n) -> V], Fits(g, n)
                PROVE  n + 1 \in A
    OBVIOUS
  <2>. DEFINE h == [s \in Upto(n + 1) |->
                      IF s = {} THEN base ELSE op[choose[s], g[s \ {choose[s]}]]]
  <2>1. \A s \in Upto(n) : s \in Upto(n + 1) /\ h[s] = g[s]
    <3>. SUFFICES ASSUME NEW s \in Upto(n) PROVE s \in Upto(n + 1) /\ h[s] = g[s]
      OBVIOUS
    <3>1. s \in SUBSET S /\ Cardinality(s) \in Nat /\ Cardinality(s) <= n
      BY <1>1
    <3>. HIDE DEF h, Fits
    <3>2. \A k \in Nat : k <= n => k <= n + 1
      OBVIOUS
    <3>3. s \in Upto(n + 1)
      BY <3>1, <3>2 DEF Upto
    <3>. DEFINE val == IF s = {} THEN base ELSE op[choose[s], g[s \ {choose[s]}]]
    <3>4. h[s] = val
      BY <3>3 DEF h
    <3>5. g[s] = val
      BY DEF Fits
    <3>. HIDE DEF Upto, val
    <3>6. h[s] = g[s]
      BY <3>4, <3>5
    <3>. QED  BY <3>3, <3>6
  <2>2. h \in [Upto(n + 1) -> V]
    <3>. SUFFICES ASSUME NEW s \in Upto(n + 1), s # {}
                  PROVE  op[choose[s], g[s \ {choose[s]}]] \in V
      OBVIOUS
    <3>. HIDE DEF Upto
    <3>1. choose[s] \in S /\ g[s \ {choose[s]}] \in V
      BY <1>2
    <3>. QED  BY <3>1
  <2>3. Fits(h, n + 1)
    <3>. SUFFICES ASSUME NEW s \in Upto(n + 1)
                  PROVE  h[s] = IF s = {} THEN base ELSE op[choose[s], h[s \ {choose[s]}]]
      OBVIOUS
    <3>1. CASE s = {}
      BY <3>1
    <3>2. CASE s # {}
      <4>1. h[s \ {choose[s]}] = g[s \ {choose[s]}]
        BY <1>2, <2>1, <3>2
      <4>. QED  BY <4>1, <3>2
    <3>. QED  BY <3>1, <3>2
  <2>. HIDE DEF h, Fits, Upto
  <2>. QED  BY <2>2, <2>3
<1>5. Cardinality(S) \in A
  <2>. HIDE DEF Fits, Upto
  <2>1. A = Nat
    <3>1. A \in SUBSET Nat
      OBVIOUS
    <3>. HIDE DEF A
    <3>. QED  BY <1>3, <1>4, <3>1, NatStep
  <2>. QED  BY <2>1, FS_CardinalityType
<1>6. Upto(Cardinality(S)) = SUBSET S
  BY <1>1
<1>. QED  BY <1>5, <1>6 DEF FoldEquation

-----------------------------------------------------------------------------
(* Sums                                                                     *)

\* Sum(T, u) is the sum of u over T as MapThenSumSet computes it.
Some(s) == CHOOSE y \in s : TRUE
Sums(S, u) == CHOOSE g : g = [s \in SUBSET S |->
    IF s = {} THEN 0 ELSE g[s \ {Some(s)}] + u[Some(s)]]
Sum(T, u) == Sums(T, u)[T]

\* g is that sum for every subset of S.
SumsUp(g, S, u) ==
  /\ g \in [SUBSET S -> Nat]
  /\ g[{}] = 0
  /\ \A s \in SUBSET S : s # {} => g[s] = g[s \ {Some(s)}] + u[Some(s)]

\* The element a sum takes out next is one of the set.
LEMMA SomeIsIn ==
  ASSUME NEW s, s # {}
  PROVE  Some(s) \in s
BY DEF Some

\* The recursive definition of the sums over a finite set has the solution it
\* describes.
LEMMA SumsDefined ==
  ASSUME NEW S, IsFiniteSet(S), NEW D, S \subseteq D, NEW u \in [D -> Nat]
  PROVE  SumsUp(Sums(S, u), S, u)
<1>. DEFINE choose == [s \in SUBSET S |-> Some(s)]
            op == [p \in S \X Nat |-> p[2] + u[p[1]]]
            Rhs(g) == [s \in SUBSET S |->
               IF s = {} THEN 0 ELSE g[s \ {Some(s)}] + u[Some(s)]]
<1>1. \A s \in SUBSET S : s # {} => Some(s) \in s /\ Some(s) \in S
  BY SomeIsIn
<1>2. \A x \in S, a \in Nat : op[x, a] = a + u[x]
  OBVIOUS
<1>3. PICK g \in [SUBSET S -> Nat] : FoldEquation(g, S, choose, op, 0)
  <2>1. op \in [S \X Nat -> Nat]
    OBVIOUS
  <2>2. \A s \in SUBSET S : s # {} => choose[s] \in s
    BY <1>1
  <2>. HIDE DEF op, choose
  <2>. QED  BY <2>1, <2>2, FoldDefined
<1>. HIDE DEF op
<1>4. \A s \in SUBSET S : s # {} => g[s] = g[s \ {Some(s)}] + u[Some(s)]
  <2>. SUFFICES ASSUME NEW s \in SUBSET S, s # {}
                PROVE  g[s] = g[s \ {Some(s)}] + u[Some(s)]
    OBVIOUS
  <2>1. g[s] = op[Some(s), g[s \ {Some(s)}]]
    BY <1>3 DEF FoldEquation
  <2>2. g[s \ {Some(s)}] \in Nat
    OBVIOUS
  <2>. QED  BY <1>1, <1>2, <2>1, <2>2
<1>5. g[{}] = 0
  BY <1>3 DEF FoldEquation
<1>6. g = Rhs(g)
  BY <1>4, <1>5
<1>7. Sums(S, u) = Rhs(Sums(S, u))
  BY <1>6 DEF Sums
<1>. HIDE DEF choose
<1>8. \A s \in SUBSET S : Sums(S, u)[s] = Rhs(Sums(S, u))[s]
  BY <1>7
<1>9. \A s \in SUBSET S : Sums(S, u)[s] = g[s]
  <2>. DEFINE A == {s \in SUBSET S : Sums(S, u)[s] = g[s]}
  <2>1. \A T \in SUBSET S : (\A U \in SUBSET T : U # T => U \in A) => T \in A
    <3>. SUFFICES ASSUME NEW T \in SUBSET S, \A U \in SUBSET T : U # T => U \in A
                  PROVE  Sums(S, u)[T] = g[T]
      OBVIOUS
    <3>1. CASE T = {}
      BY <1>5, <1>8, <3>1
    <3>2. CASE T # {}
      <4>1. T \ {Some(T)} \in A
        BY <1>1, <3>2
      <4>. QED  BY <1>4, <1>8, <3>2, <4>1
    <3>. QED  BY <3>1, <3>2
  <2>. HIDE DEF A
  <2>2. \A T \in SUBSET S : T \in A
    BY <2>1, SubsetInduction
  <2>. QED  BY <2>2 DEF A
<1>10. Sums(S, u) = g
  <2>1. Sums(S, u) = [s \in SUBSET S |-> Sums(S, u)[s]]
    BY <1>7
  <2>. QED  BY <2>1, <1>9
<1>. QED  BY <1>4, <1>5, <1>10 DEF SumsUp

\* The sum over T does not depend on the set whose subsets were folded.
LEMMA SumsAgree ==
  ASSUME NEW S, IsFiniteSet(S), NEW D, S \subseteq D, NEW u \in [D -> Nat],
         NEW T \in SUBSET S
  PROVE  Sums(S, u)[T] = Sum(T, u)
<1>. DEFINE A == {s \in SUBSET T : Sums(S, u)[s] = Sums(T, u)[s]}
<1>1. IsFiniteSet(T) /\ T \subseteq D
  BY FS_Subset
<1>2. SumsUp(Sums(S, u), S, u) /\ SumsUp(Sums(T, u), T, u)
  BY <1>1, SumsDefined
<1>3. \A W \in SUBSET T : (\A U \in SUBSET W : U # W => U \in A) => W \in A
  <2>. SUFFICES ASSUME NEW W \in SUBSET T, \A U \in SUBSET W : U # W => U \in A
                PROVE  Sums(S, u)[W] = Sums(T, u)[W]
    OBVIOUS
  <2>1. W \in SUBSET S
    OBVIOUS
  <2>2. CASE W = {}
    BY <1>2, <2>2 DEF SumsUp
  <2>3. CASE W # {}
    <3>1. /\ Sums(S, u)[W] = Sums(S, u)[W \ {Some(W)}] + u[Some(W)]
          /\ Sums(T, u)[W] = Sums(T, u)[W \ {Some(W)}] + u[Some(W)]
      BY <1>2, <2>1, <2>3 DEF SumsUp
    <3>2. W \ {Some(W)} \in A
      BY <2>3, SomeIsIn
    <3>. QED  BY <3>1, <3>2
  <2>. QED  BY <2>2, <2>3
<1>. HIDE DEF A
<1>4. T \in A
  BY <1>1, <1>3, SubsetInduction
<1>. QED  BY <1>4 DEF A, Sum

\* The order in which elements are taken out does not matter.
LEMMA SumsTakeOut ==
  ASSUME NEW S, IsFiniteSet(S), NEW u \in [S -> Nat]
  PROVE  \A T \in SUBSET S : \A x \in T : Sums(S, u)[T] = Sums(S, u)[T \ {x}] + u[x]
<1>. DEFINE g == Sums(S, u)
            A == {T \in SUBSET S : \A x \in T : g[T] = g[T \ {x}] + u[x]}
<1>1. SumsUp(g, S, u)
  BY SumsDefined
<1>2. \A T \in SUBSET S : T # {} => \E c \in T : g[T] = g[T \ {c}] + u[c]
  <2>. SUFFICES ASSUME NEW T \in SUBSET S, T # {}
                PROVE  \E c \in T : g[T] = g[T \ {c}] + u[c]
    OBVIOUS
  <2>1. Some(T) \in T
    BY SomeIsIn
  <2>2. Sums(S, u)[T] = Sums(S, u)[T \ {Some(T)}] + u[Some(T)]
    BY <1>1 DEF SumsUp
  <2>. QED  BY <2>1, <2>2
<1>3. g \in [SUBSET S -> Nat]
  BY <1>1 DEF SumsUp
<1>. HIDE DEF g
<1>4. \A T \in SUBSET S : (\A U \in SUBSET T : U # T => U \in A) => T \in A
  <2>. SUFFICES ASSUME NEW T \in SUBSET S, \A U \in SUBSET T : U # T => U \in A,
                       NEW x \in T
                PROVE  g[T] = g[T \ {x}] + u[x]
    OBVIOUS
  <2>1. PICK c \in T : g[T] = g[T \ {c}] + u[c]
    BY <1>2
  <2>2. CASE c = x
    BY <2>1, <2>2
  <2>3. CASE c # x
    <3>1. T \ {c} \in A /\ T \ {x} \in A /\ x \in T \ {c} /\ c \in T \ {x}
      BY <2>3
    <3>2. (T \ {c}) \ {x} = (T \ {x}) \ {c}
      OBVIOUS
    <3>. DEFINE rest == (T \ {x}) \ {c}
    <3>3. g[T \ {c}] = g[rest] + u[x] /\ g[T \ {x}] = g[rest] + u[c]
      BY <3>1, <3>2
    <3>4. rest \in SUBSET S /\ x \in S /\ c \in S
      OBVIOUS
    <3>5. g[rest] \in Nat /\ u[x] \in Nat /\ u[c] \in Nat
      BY <1>3, <3>4
    <3>. HIDE DEF rest
    <3>. QED  BY <2>1, <3>3, <3>5
  <2>. QED  BY <2>2, <2>3
<1>. HIDE DEF A
<1>5. \A T \in SUBSET S : T \in A
  BY <1>4, SubsetInduction
<1>. QED  BY <1>5 DEF A, g

\* The sum over no element.
LEMMA SumOfNone ==
  ASSUME NEW D, NEW u \in [D -> Nat]
  PROVE  Sum({}, u) = 0
<1>1. IsFiniteSet({})
  BY FS_EmptySet
<1>2. SumsUp(Sums({}, u), {}, u)
  BY <1>1, SumsDefined
<1>. QED  BY <1>2 DEF Sum, SumsUp

\* The sum over S, by any one of its elements.
LEMMA SumTakeOut ==
  ASSUME NEW S, IsFiniteSet(S), NEW u \in [S -> Nat], NEW x \in S
  PROVE  Sum(S, u) = Sum(S \ {x}, u) + u[x]
<1>1. Sums(S, u)[S \ {x}] = Sum(S \ {x}, u)
  BY SumsAgree
<1>2. Sums(S, u)[S] = Sums(S, u)[S \ {x}] + u[x]
  BY SumsTakeOut
<1>. QED  BY <1>1, <1>2 DEF Sum

\* Fewer elements and smaller terms have no greater sum.
LEMMA SumMonotone ==
  ASSUME NEW S, IsFiniteSet(S), NEW u \in [S -> Nat], NEW v \in [S -> Nat],
         NEW B \in SUBSET S, NEW C \in SUBSET B, \A x \in C : u[x] <= v[x]
  PROVE  /\ Sum(C, u) \in Nat /\ Sum(B, v) \in Nat
         /\ Sum(C, u) <= Sum(B, v)
<1>. DEFINE g == Sums(S, u)
            h == Sums(S, v)
            A == {W \in SUBSET B : g[W \cap C] <= h[W]}
<1>1. g \in [SUBSET S -> Nat] /\ h \in [SUBSET S -> Nat] /\ g[{}] = 0
  BY SumsDefined DEF SumsUp
<1>2. /\ \A T \in SUBSET S : \A x \in T : g[T] = g[T \ {x}] + u[x]
      /\ \A T \in SUBSET S : \A x \in T : h[T] = h[T \ {x}] + v[x]
  BY SumsTakeOut
<1>3. Sum(C, u) = g[C] /\ Sum(B, v) = h[B]
  BY SumsAgree
<1>. HIDE DEF g, h
<1>4. \A W \in SUBSET B : (\A U \in SUBSET W : U # W => U \in A) => W \in A
  <2>. SUFFICES ASSUME NEW W \in SUBSET B, \A U \in SUBSET W : U # W => U \in A
                PROVE  g[W \cap C] <= h[W]
    OBVIOUS
  <2>1. CASE W = {}
    <3>1. W \cap C = {} /\ h[W] \in Nat
      BY <1>1, <2>1
    <3>. HIDE DEF A
    <3>2. g[W \cap C] = 0
      BY <1>1, <3>1
    <3>. QED  BY <3>1, <3>2
  <2>2. CASE W # {}
    <3>1. PICK x \in W : TRUE
      BY <2>2
    <3>. DEFINE rest == W \ {x}
    <3>2. rest \in A /\ rest \in SUBSET S /\ x \in S
      OBVIOUS
    <3>3. g[rest \cap C] <= h[rest] /\ h[W] = h[rest] + v[x]
      BY <1>2, <3>2
    <3>4. /\ g[rest \cap C] \in Nat /\ h[rest] \in Nat
          /\ u[x] \in Nat /\ v[x] \in Nat
      BY <1>1, <3>2
    <3>5. CASE x \in C
      <4>1. (W \cap C) \ {x} = rest \cap C /\ x \in W \cap C /\ W \cap C \in SUBSET S
        BY <3>5
      <4>2. g[W \cap C] = g[rest \cap C] + u[x]
        BY <1>2, <4>1
      <4>3. u[x] <= v[x]
        BY <3>5
      <4>. HIDE DEF rest
      <4>. QED  BY <3>3, <3>4, <4>2, <4>3
    <3>6. CASE x \notin C
      <4>1. W \cap C = rest \cap C
        BY <3>6
      <4>2. g[W \cap C] = g[rest \cap C]
        BY <4>1
      <4>. HIDE DEF rest
      <4>. QED  BY <3>3, <3>4, <4>2
    <3>. QED  BY <3>5, <3>6
  <2>. QED  BY <2>1, <2>2
<1>5. B \in A
  <2>. HIDE DEF A
  <2>1. IsFiniteSet(B)
    BY FS_Subset
  <2>. QED  BY <1>4, <2>1, SubsetInduction
<1>6. B \cap C = C
  OBVIOUS
<1>. QED  BY <1>1, <1>3, <1>5, <1>6
=============================================================================
