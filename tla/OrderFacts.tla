------------------------------ MODULE OrderFacts ------------------------------
(***************************************************************************)
(* What the proofs need of orders, induction and recursion.  Induction is  *)
(* over a set of numbers and recursion over a function of steps, so that   *)
(* every fact can be cited: no fact has an operator for a parameter.       *)
(***************************************************************************)
EXTENDS Integers, FiniteSetsExt, FiniteSetTheorems, WellFoundedInduction, TLAPS

(* A finite set has a minimum under every strict order: the elements below *)
(* x are a finite set, and fewer below y than below x if y is below x.     *)
LEMMA FiniteOrderHasMinimum ==
    ASSUME NEW S, IsFiniteSet(S), S # {}, NEW R,
           \A x, y, z \in S : <<x, y>> \in R /\ <<y, z>> \in R => <<x, z>> \in R,
           \A x \in S : <<x, x>> \notin R
    PROVE  \E x \in S : \A y \in S : <<y, x>> \notin R
  <1> DEFINE below(x) == {y \in S : <<y, x>> \in R}
             T == {below(x) : x \in S}
             F == FiniteSubsetsOf(S)
             Q == StrictSubsetOrdering(S)
  <1>1. \A x \in S : below(x) \in F
    BY FS_Subset DEF FiniteSubsetsOf
  <1>2. T \subseteq F /\ T # {}
    <2> HIDE DEF below, F
    <2> QED BY <1>1, S # {}
  <1>3. IsWellFoundedOn(Q, F)
    BY FS_StrictSubsetOrderingWellFounded
  <1>4. \E x \in T : \A y \in T : ~(<<y, x>> \in Q)
    <2> HIDE DEF T, F, Q
    <2> QED BY <1>2, <1>3, WFMin
  <1>5. PICK x \in S : \A y \in S : <<below(y), below(x)>> \notin Q
    <2> HIDE DEF below, Q
    <2> QED BY <1>4
  <1>6. ASSUME NEW y \in S, <<y, x>> \in R
        PROVE  FALSE
    <2>1. below(y) \subseteq below(x) /\ y \in below(x) /\ y \notin below(y)
      BY <1>6
    <2>2. <<below(y), below(x)>> \in Q
      BY <2>1 DEF StrictSubsetOrdering
    <2> QED BY <1>5, <2>2
  <1> QED BY <1>6

(* And so has every set of numbers: of finitely many below one of it.      *)
LEMMA LeastNatural ==
    ASSUME NEW S \in SUBSET Nat, S # {}
    PROVE  Min(S) \in S /\ \A x \in S : Min(S) <= x
  <1>1. PICK n \in S : TRUE
    OBVIOUS
  <1> DEFINE T == S \cap (0..n)
             R == {p \in T \X T : p[1] < p[2]}
  <1>2. T \subseteq Nat /\ IsFiniteSet(T) /\ n \in T
    <2>1. IsFiniteSet(0..n) /\ n \in 0..n
      BY FS_Interval
    <2> QED BY <2>1, FS_Subset
  <1>3. \E x \in T : \A y \in T : <<y, x>> \notin R
    <2>1. /\ \A x, y, z \in T : <<x, y>> \in R /\ <<y, z>> \in R => <<x, z>> \in R
          /\ \A x \in T : <<x, x>> \notin R
      BY <1>2
    <2> HIDE DEF R, T
    <2> QED BY <1>2, <2>1, FiniteOrderHasMinimum
  <1>4. PICK x \in T : \A y \in T : ~(y < x)
    BY <1>3
  <1>5. \A y \in S : x <= y
    BY <1>2, <1>4
  <1> QED BY <1>5 DEF Min

(* A bounded set of numbers has a greatest one, at the least distance.     *)
LEMMA GreatestNatural ==
    ASSUME NEW S \in SUBSET Nat, S # {}, NEW b \in Nat, \A x \in S : x <= b
    PROVE  Max(S) \in S /\ \A x \in S : x <= Max(S)
  <1> DEFINE D == {b - x : x \in S}
  <1>1. D \in SUBSET Nat /\ D # {}
    <2>1. \A x \in S : b - x \in Nat
      OBVIOUS
    <2> QED BY <2>1
  <1>2. Min(D) \in D /\ \A d \in D : Min(D) <= d
    <2> HIDE DEF D
    <2> QED BY <1>1, LeastNatural
  <1>3. PICK x \in S : \A y \in S : b - x <= b - y
    <2> HIDE DEF Min
    <2> QED BY <1>2
  <1>4. \A y \in S : x >= y
    BY <1>3
  <1> QED BY <1>4 DEF Max

(* Of finitely many numbered things one has the greatest number.           *)
LEMMA GreatestImage ==
    ASSUME NEW S, IsFiniteSet(S), S # {}, NEW f, \A x \in S : f[x] \in Int
    PROVE  \E m \in S : \A x \in S : f[x] <= f[m]
  <1> DEFINE R == {p \in S \X S : f[p[1]] > f[p[2]]}
  <1>1. \E x \in S : \A y \in S : <<y, x>> \notin R
    <2>1. /\ \A x, y, z \in S : <<x, y>> \in R /\ <<y, z>> \in R => <<x, z>> \in R
          /\ \A x \in S : <<x, x>> \notin R
      OBVIOUS
    <2> HIDE DEF R
    <2> QED BY <2>1, FiniteOrderHasMinimum
  <1>2. PICK x \in S : \A y \in S : ~(f[y] > f[x])
    BY <1>1
  <1> QED BY <1>2

LEMMA MaxIsGreatest ==
    ASSUME NEW S \in SUBSET Int, NEW m \in S, \A x \in S : x <= m
    PROVE  Max(S) = m
  <1>1. m \in S /\ \A y \in S : m >= y
    OBVIOUS
  <1>2. Max(S) \in S /\ \A y \in S : Max(S) >= y
    BY <1>1 DEF Max
  <1>3. m \in Int /\ Max(S) \in Int /\ Max(S) >= m /\ m >= Max(S)
    BY <1>1, <1>2
  <1> QED BY <1>3

LEMMA MaxOfTwo ==
    ASSUME NEW a \in Int, NEW b \in Int
    PROVE  Max({a, b}) = IF a >= b THEN a ELSE b
  <1>1. CASE a >= b
    BY <1>1, MaxIsGreatest
  <1>2. CASE ~(a >= b)
    BY <1>2, MaxIsGreatest
  <1> QED BY <1>1, <1>2

LEMMA MinOfTwo ==
    ASSUME NEW a \in Int, NEW b \in Int
    PROVE  Min({a, b}) = IF a <= b THEN a ELSE b
  <1> DEFINE m == IF a <= b THEN a ELSE b
  <1>1. m \in {a, b} /\ \A x \in {a, b} : m <= x
    OBVIOUS
  <1>2. Min({a, b}) \in {a, b} /\ \A x \in {a, b} : Min({a, b}) <= x
    BY <1>1 DEF Min
  <1>3. Min({a, b}) \in Int
    BY <1>2
  <1> HIDE DEF Min
  <1> QED BY <1>2, <1>3

(* What holds of 0, and of a number if it holds of the one before it.      *)
LEMMA Induction ==
    ASSUME NEW N \in Nat, NEW G, 0 \in G, \A n \in 1..N : n - 1 \in G => n \in G
    PROVE  \A n \in 0..N : n \in G
  <1> DEFINE bad == {n \in 0..N : n \notin G}
  <1> SUFFICES ASSUME bad # {} PROVE FALSE
    OBVIOUS
  <1>1. bad \in SUBSET Nat
    OBVIOUS
  <1>2. PICK n \in bad : \A x \in bad : n <= x
    <2> HIDE DEF bad
    <2> QED BY <1>1, LeastNatural
  <1>3. n \in 1..N /\ n - 1 \in 0..N /\ n - 1 \notin bad
    BY <1>2
  <1> QED BY <1>2, <1>3

(* A value for every position, each made of the one before it.             *)
StaysIn(S, step, N) == \A n \in 1..N, x \in S : step[n][x] \in S

Iterates(f, base, step, N) ==
    f[0] = base /\ \A n \in 1..N : f[n] = step[n][f[n - 1]]

LEMMA RecursionExists ==
    ASSUME NEW N \in Nat, NEW S, NEW base \in S, NEW step, StaysIn(S, step, N)
    PROVE  \E f \in [0..N -> S] : Iterates(f, base, step, N)
  <1> DEFINE Goes(f, n) == /\ f[0] = base
                           /\ \A k \in 1..n : f[k] = step[k][f[k - 1]]
             G == {n \in 0..N : \E f \in [0..n -> S] : Goes(f, n)}
  <1>1. 0 \in G
    <2>1. [k \in 0..0 |-> base] \in [0..0 -> S] /\ Goes([k \in 0..0 |-> base], 0)
      OBVIOUS
    <2> HIDE DEF Goes
    <2> QED BY <2>1
  <1>2. ASSUME NEW n \in 1..N, n - 1 \in G
        PROVE  n \in G
    <2>1. PICK f \in [0..(n - 1) -> S] : Goes(f, n - 1)
      BY <1>2
    <2> DEFINE g == [k \in 0..n |-> IF k = n THEN step[n][f[n - 1]] ELSE f[k]]
    <2>2. g \in [0..n -> S]
      <3>1. step[n][f[n - 1]] \in S
        BY <2>1 DEF StaysIn
      <3>2. \A k \in 0..n : k # n => f[k] \in S
        BY <2>1
      <3> QED BY <3>1, <3>2
    <2>3. g[0] = base /\ \A k \in 1..n : g[k] = step[k][g[k - 1]]
      BY <2>1
    <2>4. Goes(g, n)
      BY <2>3
    <2> HIDE DEF g, Goes
    <2> QED BY <2>2, <2>4
  <1>3. \A n \in 0..N : n \in G
    <2> HIDE DEF G
    <2> QED BY <1>1, <1>2, Induction
  <1> QED BY <1>3 DEF Iterates
===============================================================================
