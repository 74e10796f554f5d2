----------------------------- MODULE Induction ------------------------------
(***************************************************************************)
(* Induction over the natural numbers in a form that speaks of sets and of  *)
(* functions, and what it says of functions that are defined by recursion.  *)
(***************************************************************************)
EXTENDS Integers, WellFoundedInduction, TLAPS

Below == {ss \in Nat \X Nat : ss[1] < ss[2]}

LEMMA BelowWellFounded == IsWellFoundedOn(Below, Nat)
<1>1. OpToRel(<, Nat) = Below
  BY Zenon DEF OpToRel, Below
<1> QED BY <1>1, NatLessThanWellFounded

(* A set of natural numbers that is not empty has a least element.           *)
LEMMA LeastNumber ==
    ASSUME NEW T \in SUBSET Nat, T # {}
    PROVE  \E m \in T : \A k \in T : m <= k
<1>1. PICK m \in T : \A k \in T : ~(<<k, m>> \in Below)
  BY BelowWellFounded, WFMin
<1>2. ASSUME NEW k \in T
      PROVE  m <= k
  <2>1. k \in Nat /\ m \in Nat
    OBVIOUS
  <2>2. ~(<<k, m>> \in Below)
    BY <1>1
  <2>3. ~(k < m)
    BY <2>1, <2>2 DEF Below
  <2> QED BY <2>1, <2>3
<1> QED BY <1>2

(* A set of natural numbers that holds 0, and with each of its elements the  *)
(* next number, holds them all.                                              *)
LEMMA Induction ==
    ASSUME NEW S \in SUBSET Nat, 0 \in S, \A n \in S : n + 1 \in S
    PROVE  S = Nat
<1> SUFFICES ASSUME S # Nat PROVE FALSE
  OBVIOUS
<1>1. PICK m \in Nat \ S : \A k \in Nat \ S : m <= k
  <2>1. Nat \ S # {} /\ Nat \ S \in SUBSET Nat
    OBVIOUS
  <2> QED BY <2>1, LeastNumber
<1>2. m # 0 /\ m - 1 \in Nat
  BY <1>1
<1>3. m - 1 \in S
  BY <1>1, <1>2
<1> QED BY <1>1, <1>2, <1>3

(* A set of natural numbers that has a bound has a greatest element.         *)
LEMMA GreatestNumber ==
    ASSUME NEW S \in SUBSET Nat, S # {}, NEW b \in Nat, \A x \in S : x <= b
    PROVE  \E m \in S : \A x \in S : m >= x
<1> DEFINE T == {n \in Nat : \A x \in S : x <= n}
<1>1. T \in SUBSET Nat /\ b \in T
  OBVIOUS
<1>2. PICK m \in T : \A n \in T : m <= n
  BY <1>1, LeastNumber
<1>3. m \in S
  <2> SUFFICES ASSUME m \notin S PROVE FALSE
    OBVIOUS
  <2>1. \A x \in S : x \in Nat /\ x < m
    BY <1>2
  <2>2. m \in Nat /\ m # 0
    <3>1. PICK x \in S : TRUE
      OBVIOUS
    <3> QED BY <1>2, <2>1, <3>1
  <2>3. \A x \in S : x <= m - 1
    BY <2>1, <2>2
  <2>4. m - 1 \in T
    BY <2>2, <2>3
  <2> QED BY <1>2, <2>2, <2>4
<1> QED BY <1>2, <1>3

(* The same up to a bound. *)
LEMMA InductionUpTo ==
    ASSUME NEW N \in Nat, NEW S \in SUBSET Nat, 0 \in S,
           \A n \in S : n < N => n + 1 \in S
    PROVE  0 .. N \subseteq S
<1> DEFINE T == {n \in Nat : n <= N => n \in S}
<1>1. T \in SUBSET Nat /\ 0 \in T
  OBVIOUS
<1>2. ASSUME NEW n \in T PROVE n + 1 \in T
  <2>1. n \in Nat /\ (n <= N => n \in S)
    OBVIOUS
  <2>2. n + 1 \in Nat /\ (n + 1 <= N => n < N /\ n <= N)
    BY <2>1
  <2> QED BY <2>1, <2>2
<1> HIDE DEF T
<1>3. T = Nat
  BY <1>1, <1>2, Induction
<1> QED BY <1>3 DEF T

-----------------------------------------------------------------------------
(* f begins like the recursion that starts with a and goes on by g.          *)
Begins(f, n, V, a, g) ==
    /\ f \in [0 .. n -> V]
    /\ f[0] = a
    /\ \A k \in 0 .. n : k < n => f[k + 1] = g[<<k, f[k]>>]

LEMMA OneBeginning ==
    ASSUME NEW V, NEW a \in V, NEW g \in [Nat \X V -> V], NEW m \in Nat, NEW n \in Nat,
           NEW e, NEW f, Begins(e, m, V, a, g), Begins(f, n, V, a, g), m <= n
    PROVE  \A k \in 0 .. m : e[k] = f[k]
<1> DEFINE S == {k \in Nat : k <= m => e[k] = f[k]}
<1>1. S \in SUBSET Nat /\ 0 \in S
  BY DEF Begins
<1>2. ASSUME NEW k \in S PROVE k + 1 \in S
  <2>1. k \in Nat /\ (k <= m => e[k] = f[k]) /\ k + 1 \in Nat
    OBVIOUS
  <2>2. SUFFICES ASSUME k + 1 <= m PROVE e[k + 1] = f[k + 1]
    BY <2>1
  <2>3. k \in 0 .. m /\ k < m /\ k \in 0 .. n /\ k < n
    BY <2>1, <2>2
  <2>4. e[k + 1] = g[<<k, e[k]>>] /\ f[k + 1] = g[<<k, f[k]>>]
    BY <2>3 DEF Begins
  <2> QED BY <2>1, <2>3, <2>4
<1> HIDE DEF S
<1>3. S = Nat
  BY <1>1, <1>2, Induction
<1> QED BY <1>3 DEF S

LEMMA BeginningExists ==
    ASSUME NEW V, NEW a \in V, NEW g \in [Nat \X V -> V], NEW n \in Nat
    PROVE  \E f : Begins(f, n, V, a, g)
<1> DEFINE S == {k \in Nat : \E f : Begins(f, k, V, a, g)}
<1>1. S \in SUBSET Nat
  OBVIOUS
<1>2. 0 \in S
  <2>1. Begins([k \in 0 .. 0 |-> a], 0, V, a, g)
    BY DEF Begins
  <2> QED BY <2>1
<1>3. ASSUME NEW k \in S PROVE k + 1 \in S
  <2>1. k \in Nat /\ k + 1 \in Nat
    OBVIOUS
  <2>2. PICK f : Begins(f, k, V, a, g)
    OBVIOUS
  <2> DEFINE h == [j \in 0 .. k + 1 |-> IF j = k + 1 THEN g[<<k, f[k]>>] ELSE f[j]]
  <2>3. f[k] \in V /\ g[<<k, f[k]>>] \in V
    BY <2>1, <2>2 DEF Begins
  <2>4. h \in [0 .. k + 1 -> V]
    BY <2>1, <2>2, <2>3 DEF Begins
  <2>5. h[0] = a
    BY <2>1, <2>2 DEF Begins
  <2>6. ASSUME NEW j \in 0 .. k + 1, j < k + 1
        PROVE  h[j + 1] = g[<<j, h[j]>>]
    <3>1. j \in 0 .. k /\ h[j] = f[j]
      BY <2>1, <2>6
    <3>2. CASE j = k
      <4>1. h[j + 1] = g[<<k, f[k]>>]
        BY <2>1, <3>2
      <4> QED BY <3>1, <3>2, <4>1
    <3>3. CASE j < k
      <4>1. h[j + 1] = f[j + 1]
        BY <2>1, <3>1, <3>3
      <4>2. f[j + 1] = g[<<j, f[j]>>]
        BY <2>2, <3>1, <3>3 DEF Begins
      <4> QED BY <3>1, <4>1, <4>2
    <3> QED BY <2>1, <3>1, <3>2, <3>3
  <2> HIDE DEF h
  <2>7. Begins(h, k + 1, V, a, g)
    BY <2>4, <2>5, <2>6 DEF Begins
  <2> QED BY <2>1, <2>7
<1> HIDE DEF S
<1>4. S = Nat
  BY <1>1, <1>2, <1>3, Induction
<1> QED BY <1>4 DEF S

(* f is what recursion from a by g makes of all natural numbers.             *)
Recurses(f, V, a, g) ==
    /\ f \in [Nat -> V]
    /\ f[0] = a
    /\ \A n \in Nat : f[n + 1] = g[<<n, f[n]>>]

IsRule(g, V) == g \in [Nat \X V -> V]

(* Recursion over the natural numbers defines a function.                    *)
LEMMA Recursion ==
    ASSUME NEW V, NEW a \in V, NEW g, IsRule(g, V)
    PROVE  \E f : Recurses(f, V, a, g)
<1>r. g \in [Nat \X V -> V]
  BY DEF IsRule
<1> DEFINE b(n) == CHOOSE f : Begins(f, n, V, a, g)
           F == [n \in Nat |-> b(n)[n]]
<1>1. \A n \in Nat : Begins(b(n), n, V, a, g)
  BY <1>r, BeginningExists
<1> HIDE DEF b
<1>2. F \in [Nat -> V]
  BY <1>1 DEF Begins
<1>3. F[0] = a
  BY <1>1 DEF Begins
<1>4. ASSUME NEW n \in Nat PROVE F[n + 1] = g[<<n, F[n]>>]
  <2>1. n + 1 \in Nat /\ n \in 0 .. n /\ n \in 0 .. n + 1 /\ n <= n + 1 /\ n < n + 1
    OBVIOUS
  <2>2. Begins(b(n), n, V, a, g) /\ Begins(b(n + 1), n + 1, V, a, g)
    BY <1>1, <2>1
  <2>3. b(n)[n] = b(n + 1)[n]
    <3> DEFINE e == b(n)
               h == b(n + 1)
    <3>1. Begins(e, n, V, a, g) /\ Begins(h, n + 1, V, a, g)
      BY <2>2
    <3> HIDE DEF e, h
    <3>2. \A k \in 0 .. n : e[k] = h[k]
      BY <1>r, <2>1, <3>1, OneBeginning
    <3> QED BY <2>1, <3>2 DEF e, h
  <2>4. b(n + 1)[n + 1] = g[<<n, b(n + 1)[n]>>]
    BY <2>1, <2>2 DEF Begins
  <2> QED BY <2>1, <2>3, <2>4
<1> HIDE DEF F
<1> QED BY <1>2, <1>3, <1>4 DEF Recurses

(* The same up to a bound, in the form of a recursive definition.            *)
RecursesUpTo(f, N, V, a, g) ==
    /\ f \in [0 .. N -> V]
    /\ f = [n \in 0 .. N |-> IF n = 0 THEN a ELSE g[<<n - 1, f[n - 1]>>]]

LEMMA RecursionUpTo ==
    ASSUME NEW V, NEW a \in V, NEW g, IsRule(g, V), NEW N \in Nat
    PROVE  \E f : RecursesUpTo(f, N, V, a, g)
<1>1. PICK e : Recurses(e, V, a, g)
  BY Recursion
<1> DEFINE f == [n \in 0 .. N |-> e[n]]
<1>2. f \in [0 .. N -> V]
  BY <1>1 DEF Recurses
<1>3. ASSUME NEW n \in 0 .. N
      PROVE  f[n] = IF n = 0 THEN a ELSE g[<<n - 1, f[n - 1]>>]
  <2>1. CASE n = 0
    BY <1>1, <2>1 DEF Recurses
  <2>2. CASE n # 0
    <3>1. n - 1 \in Nat /\ n - 1 \in 0 .. N /\ (n - 1) + 1 = n
      BY <2>2
    <3>2. e[(n - 1) + 1] = g[<<n - 1, e[n - 1]>>]
      BY <1>1, <3>1 DEF Recurses
    <3> QED BY <2>2, <3>1, <3>2
  <2> QED BY <2>1, <2>2
<1>4. f = [n \in 0 .. N |-> IF n = 0 THEN a ELSE g[<<n - 1, f[n - 1]>>]]
  BY <1>3
<1> HIDE DEF f
<1> QED BY <1>2, <1>4 DEF RecursesUpTo
=============================================================================
