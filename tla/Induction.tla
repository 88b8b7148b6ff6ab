------------------------------ MODULE Induction ------------------------------
(***************************************************************************)
(* Induction for the proofs about recursive functions: the set of the      *)
(* counterexamples, if there are any, has a least element.                 *)
(***************************************************************************)
EXTENDS Integers, WellFoundedInduction, TLAPS

(* A set of natural numbers has a least element.                           *)
LEMMA Least ==
  ASSUME NEW T \in SUBSET Nat, T # {}
  PROVE  \E x \in T : \A y \in T : x <= y
<1> DEFINE R == OpToRel(<, Nat)
<1>1. IsWellFoundedOn(R, Nat)
  BY NatLessThanWellFounded
<1>2. PICK x \in T : \A y \in T : <<y, x>> \notin R
  <2> HIDE DEF R
  <2> QED BY <1>1, WFMin
<1>3. ASSUME NEW y \in T PROVE x <= y
  <2>1. <<y, x>> \notin {pair \in Nat \X Nat : pair[1] < pair[2]}
    BY <1>2 DEF OpToRel
  <2> QED BY <2>1
<1> QED BY <1>3

(* A bounded one has a greatest element too.                               *)
LEMMA Greatest ==
  ASSUME NEW T \in SUBSET Nat, T # {}, NEW n \in Nat, \A x \in T : x <= n
  PROVE  \E x \in T : \A y \in T : y <= x
<1> DEFINE D == {n - x : x \in T}
<1>1. D \in SUBSET Nat /\ D # {}
  <2>1. \A x \in T : n - x \in Nat
    OBVIOUS
  <2>2. PICK x \in T : TRUE
    OBVIOUS
  <2>3. n - x \in D
    OBVIOUS
  <2> QED BY <2>1, <2>3
<1>2. PICK d \in D : \A e \in D : d <= e
  <2> HIDE DEF D
  <2> QED BY <1>1, Least
<1>3. PICK x \in T : d = n - x
  BY <1>2
<1>4. ASSUME NEW y \in T PROVE y <= x
  <2>1. n - y \in D
    OBVIOUS
  <2>2. n - x <= n - y
    BY <1>2, <1>3, <2>1
  <2> QED BY <2>2
<1> QED BY <1>4

\* The set T has zero and, up to n, with a number the next one.
Climbs(T, n) == 0 \in T /\ \A i \in 1 .. n : i - 1 \in T => i \in T

(* Then it has all of them.                                                *)
LEMMA Upwards ==
  ASSUME NEW n \in Nat, NEW T, Climbs(T, n)
  PROVE  \A i \in 0 .. n : i \in T
<1> DEFINE D == {i \in 0 .. n : i \notin T}
<1> SUFFICES ASSUME D # {} PROVE FALSE
  OBVIOUS
<1>1. D \in SUBSET Nat
  OBVIOUS
<1>2. PICK d \in D : \A e \in D : d <= e
  <2> HIDE DEF D
  <2> QED BY <1>1, Least
<1>3. d \in 1 .. n
  BY DEF Climbs
<1>4. d - 1 \in 0 .. n /\ d - 1 \notin D
  <2> HIDE DEF D
  <2>1. d - 1 \in Int /\ ~(d <= d - 1)
    BY <1>3
  <2> QED BY <1>2, <1>3, <2>1
<1> QED BY <1>3, <1>4 DEF Climbs

\* The functions f and g start equal and stay so, n times.
StayEqual(f, g, n) == f[0] = g[0] /\ \A i \in 1 .. n : f[i - 1] = g[i - 1] => f[i] = g[i]

(* What starts equal and stays so is equal throughout.                     *)
LEMMA Agree ==
  ASSUME NEW n \in Nat, NEW f, NEW g, StayEqual(f, g, n)
  PROVE  \A i \in 0 .. n : f[i] = g[i]
<1> DEFINE T == {i \in 0 .. n : f[i] # g[i]}
<1> SUFFICES ASSUME T # {} PROVE FALSE
  OBVIOUS
<1>1. T \in SUBSET Nat
  OBVIOUS
<1>2. PICK d \in T : \A e \in T : d <= e
  <2> HIDE DEF T
  <2> QED BY <1>1, Least
<1>3. d \in 1 .. n
  BY DEF StayEqual
<1>4. d - 1 \in 0 .. n /\ d - 1 \notin T
  <2> HIDE DEF T
  <2>1. d - 1 \in Int /\ ~(d <= d - 1)
    BY <1>3
  <2> QED BY <1>2, <1>3, <2>1
<1>5. f[d - 1] = g[d - 1]
  BY <1>4
<1> QED BY <1>3, <1>5 DEF StayEqual

\* The function f starts at a and goes on, n times, by the step g.
Solves(f, n, S, a, g) ==
  f \in [0 .. n -> S] /\ f[0] = a /\ \A i \in 1 .. n : f[i] = g[<<i, f[i - 1]>>]

(* A step that is a function can be repeated: a recursion has a solution.  *)
LEMMA Recursion ==
  ASSUME NEW n \in Nat, NEW S, NEW a \in S, NEW g \in [(1 .. n) \X S -> S]
  PROVE  \E f : Solves(f, n, S, a, g)
<1> DEFINE Walk(f, k) == f \in [0 .. k -> S] /\ f[0] = a /\ \A i \in 1 .. k : f[i] = g[<<i, f[i - 1]>>]
           T == {k \in 0 .. n : ~\E f : Walk(f, k)}
<1>1. T = {}
  <2> SUFFICES ASSUME T # {} PROVE FALSE
    OBVIOUS
  <2>1. T \in SUBSET Nat
    OBVIOUS
  <2>2. PICK d \in T : \A e \in T : d <= e
    <3> HIDE DEF T
    <3> QED BY <2>1, Least
  <2>3. d # 0
    <3>1. Walk([i \in 0 .. 0 |-> a], 0)
      OBVIOUS
    <3> HIDE DEF Walk
    <3> QED BY <2>2, <3>1
  <2>4. d - 1 \in 0 .. n /\ d \in 1 .. n /\ d - 1 \notin T
    <3> HIDE DEF Walk
    <3> QED BY <2>2, <2>3
  <2>5. PICK f : Walk(f, d - 1)
    BY <2>4
  <2> DEFINE h == [i \in 0 .. d |-> IF i = d THEN g[<<d, f[d - 1]>>] ELSE f[i]]
  <2>6. f[d - 1] \in S /\ g[<<d, f[d - 1]>>] \in S
    BY <2>4, <2>5
  <2>7. h \in [0 .. d -> S] /\ h[0] = a
    BY <2>4, <2>5, <2>6
  <2>8. ASSUME NEW i \in 1 .. d PROVE h[i] = g[<<i, h[i - 1]>>]
    <3>1. i - 1 \in 0 .. d /\ i - 1 # d /\ h[i - 1] = f[i - 1]
      BY <2>4
    <3>2. CASE i = d
      BY <3>1, <3>2
    <3>3. CASE i # d
      <4>1. i \in 1 .. d - 1 /\ h[i] = f[i]
        BY <2>4, <3>3
      <4> QED BY <2>5, <3>1, <4>1
    <3> QED BY <3>2, <3>3
  <2>9. Walk(h, d)
    BY <2>7, <2>8
  <2> HIDE DEF Walk, h
  <2> QED BY <2>2, <2>9
<1>2. n \notin T
  <2> HIDE DEF T
  <2> QED BY <1>1
<1>3. PICK f : Walk(f, n)
  <2> HIDE DEF Walk
  <2>1. n \in 0 .. n
    OBVIOUS
  <2> QED BY <1>2, <2>1
<1> QED BY <1>3 DEF Solves
=============================================================================
