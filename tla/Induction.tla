----------------------------- MODULE Induction -----------------------------
(***************************************************************************)
(* Induction over the natural numbers, in a form that names a set instead  *)
(* of a predicate, and what it says of functions that are defined by       *)
(* recursion: the crawl's clicks, and the sums of the scores.              *)
(***************************************************************************)
EXTENDS Integers, WellFoundedInduction, TLAPS

\* A set of natural numbers that has 0, and with a number the next one, has
\* all of them: what is not in it would have a least element.
LEMMA SetInduction ==
  ASSUME NEW T \in SUBSET Nat, 0 \in T, \A n \in T : n + 1 \in T
  PROVE  Nat = T
<1> DEFINE U == Nat \ T
           R == OpToRel(<, Nat)
<1>1. SUFFICES ASSUME U # {} PROVE FALSE
  OBVIOUS
<1>2. PICK x \in U : \A y \in U : ~(<<y, x>> \in R)
  <2>1. IsWellFoundedOn(R, Nat) BY NatLessThanWellFounded
  <2>2. U \subseteq Nat OBVIOUS
  <2> HIDE DEF R, U
  <2> QED BY <1>1, <2>1, <2>2, WFMin
<1>3. x \in Nat /\ x # 0 OBVIOUS
<1>4. x - 1 \in Nat /\ x - 1 < x BY <1>3
<1>5. x - 1 \in T
  <2>1. x - 1 \notin U => x - 1 \in T BY <1>4
  <2>2. <<x - 1, x>> \in R BY <1>3, <1>4 DEF OpToRel
  <2> QED BY <2>1, <2>2, <1>2, <1>4
<1> QED BY <1>3, <1>4, <1>5

\* The same up to a bound.
LEMMA IntervalInduction ==
  ASSUME NEW bound \in Nat, NEW T, 0 \in T,
         \A n \in 1..bound : n - 1 \in T => n \in T
  PROVE  \A n \in 0..bound : n \in T
<1> DEFINE U == {n \in Nat : n <= bound => n \in T}
<1>1. 0 \in U OBVIOUS
<1>2. ASSUME NEW n \in U PROVE n + 1 \in U
  <2> SUFFICES ASSUME n + 1 <= bound PROVE n + 1 \in T
    OBVIOUS
  <2>1. n \in T /\ n + 1 \in 1..bound /\ (n + 1) - 1 = n OBVIOUS
  <2>2. QED BY <2>1
<1>3. Nat = U
  <2>1. U \in SUBSET Nat OBVIOUS
  <2> HIDE DEF U
  <2>2. QED BY <1>1, <1>2, <2>1, SetInduction
<1>4. QED BY <1>3

\* Steps that keep to S, each given the number of the step.
Iterable(bound, S, start, step) ==
    /\ bound \in Nat
    /\ start \in S
    /\ step \in [1..bound -> [S -> S]]

\* The function with the n-th iterate for each n up to a bound.
Iterates(f, bound, S, start, step) ==
    /\ f \in [0..bound -> S]
    /\ f[0] = start
    /\ \A n \in 1..bound : f[n] = step[n][f[n - 1]]

\* Steps that keep to a set can be iterated: a recursive definition over an
\* interval of numbers defines a function.
LEMMA Iteration ==
  ASSUME NEW bound, NEW S, NEW start, NEW step, Iterable(bound, S, start, step)
  PROVE  \E f : Iterates(f, bound, S, start, step)
<1> DEFINE Upto(m) == \E f \in [0..m -> S] :
                        f[0] = start /\ \A n \in 1..m : f[n] = step[n][f[n - 1]]
           T == {m \in Nat : m <= bound => Upto(m)}
<1>0. bound \in Nat /\ start \in S /\ step \in [1..bound -> [S -> S]] BY DEF Iterable
<1>1. 0 \in T
  <2> DEFINE f == [n \in 0..0 |-> start]
  <2>1. f \in [0..0 -> S] /\ f[0] = start BY <1>0
  <2>2. 1..0 = {} OBVIOUS
  <2>3. Upto(0)
    <3> HIDE DEF f
    <3> QED BY <1>0, <2>1, <2>2
  <2>4. QED BY <2>3
<1>2. ASSUME NEW m \in T PROVE m + 1 \in T
  <2> SUFFICES ASSUME m + 1 <= bound PROVE Upto(m + 1)
    OBVIOUS
  <2>1. m \in Nat /\ m <= bound BY <1>0
  <2>2. PICK f \in [0..m -> S] :
          f[0] = start /\ \A n \in 1..m : f[n] = step[n][f[n - 1]]
    BY <2>1
  <2> DEFINE g == [n \in 0..(m + 1) |-> IF n <= m THEN f[n] ELSE step[m + 1][f[m]]]
  <2>3. step[m + 1][f[m]] \in S
    <3>1. m + 1 \in 1..bound /\ m \in 0..m BY <1>0, <2>1
    <3>2. step[m + 1] \in [S -> S] BY <1>0, <3>1
    <3>3. QED BY <3>1, <3>2
  <2>4. g \in [0..(m + 1) -> S] BY <2>1, <2>3
  <2>5. g[0] = start BY <2>1, <2>2
  <2>6. ASSUME NEW n \in 1..(m + 1) PROVE g[n] = step[n][g[n - 1]]
    <3>1. n \in Nat /\ n - 1 \in 0..m /\ g[n - 1] = f[n - 1] BY <2>1
    <3>2. CASE n <= m BY <2>1, <2>2, <3>1, <3>2
    <3>3. CASE n = m + 1 BY <2>1, <3>1, <3>3
    <3>4. QED BY <2>1, <3>2, <3>3
  <2>7. QED BY <2>4, <2>5, <2>6
<1>3. Nat = T
  <2>1. T \in SUBSET Nat OBVIOUS
  <2> HIDE DEF T
  <2>2. QED BY <1>1, <1>2, <2>1, SetInduction
<1>4. Upto(bound)
  <2>1. bound \in T BY <1>0, <1>3
  <2>2. bound <= bound BY <1>0
  <2> HIDE DEF Upto
  <2>3. QED BY <2>1, <2>2
<1>5. QED BY <1>4 DEF Iterates
=============================================================================
