-------------------------- MODULE RecursionLemmas --------------------------
(***************************************************************************)
(* Functions defined by recursion over a range of numbers: that they       *)
(* exist, and what their steps lead to.  A model writes a loop of the code *)
(* over a list as such a function; these lemmas are how a proof follows    *)
(* the loop.                                                               *)
(***************************************************************************)
EXTENDS Naturals, WellFoundedInduction, TLAPS

Below == {p \in Nat \X Nat : p[1] < p[2]}

(* Every set of numbers has a least one.                                   *)
LEMMA LeastNumber ==
  ASSUME NEW S \in SUBSET Nat, S # {}
  PROVE  \E x \in S : \A y \in S : x <= y
<1>1. IsWellFoundedOn(OpToRel(<, Nat), Nat)
  BY NatLessThanWellFounded
<1>2. OpToRel(<, Nat) = Below
  BY DEF OpToRel, Below
<1>3. IsWellFoundedOn(Below, Nat)
  BY <1>1, <1>2
<1>4. PICK x \in S : \A y \in S : ~(<<y, x>> \in Below)
  BY <1>3, WFMin
<1>5. ASSUME NEW y \in S PROVE x <= y
  <2>1. x \in Nat /\ y \in Nat
    OBVIOUS
  <2>2. ~(<<y, x>> \in Nat \X Nat /\ y < x)
    BY <1>4 DEF Below
  <2> QED
    BY <2>1, <2>2
<1> QED
  BY <1>5

(* What holds at 0 and goes from each number to the next holds up to N.    *)
LEMMA Climbs ==
  ASSUME NEW N \in Nat, NEW f, NEW D,
         f[0] \in D[0],
         \A n \in 1..N : f[n - 1] \in D[n - 1] => f[n] \in D[n]
  PROVE  \A n \in 0..N : f[n] \in D[n]
<1> DEFINE Fails == {n \in 0..N : f[n] \notin D[n]}
<1> SUFFICES ASSUME Fails # {} PROVE FALSE
  OBVIOUS
<1>1. PICK n \in Fails : \A m \in Fails : n <= m
  <2>1. Fails \in SUBSET Nat
    OBVIOUS
  <2> QED
    BY <2>1, LeastNumber
<1>2. n # 0 /\ n \in 1..N /\ n - 1 \in 0..N /\ ~(n <= n - 1)
  OBVIOUS
<1>3. f[n - 1] \in D[n - 1]
  BY <1>1, <1>2
<1> QED
  BY <1>2, <1>3

\* The step G leads from c in D[0] through the sets D, all within U.
Leads(N, U, c, G, D) ==
  /\ N \in Nat
  /\ c \in D[0]
  /\ \A n \in 0..N : D[n] \in SUBSET U
  /\ \A n \in 1..N : \A d \in D[n - 1] : G[<<d, n>>] \in D[n]

(* A function defined by recursion from 0 to N exists, and its values lie  *)
(* in the sets that its steps lead from and to.                            *)
LEMMA RecursionExists ==
  ASSUME NEW N, NEW U, NEW c, NEW G, NEW D, Leads(N, U, c, G, D)
  PROVE  \E f \in [0..N -> U] :
           f[0] = c /\ \A n \in 1..N : f[n] = G[<<f[n - 1], n>>] /\ f[n - 1] \in D[n - 1]
<1> USE DEF Leads
<1> DEFINE Is(f, m) == f = [n \in 0..m |-> IF n = 0 THEN c ELSE G[<<f[n - 1], n>>]]
           Fails == {m \in Nat : ~\E f : Is(f, m)}
<1>1. Fails = {}
  <2> SUFFICES ASSUME Fails # {} PROVE FALSE
    OBVIOUS
  <2>1. PICK m \in Fails : \A k \in Fails : m <= k
    <3>1. Fails \in SUBSET Nat
      OBVIOUS
    <3> QED
      BY <3>1, LeastNumber
  <2>2. m \in Nat /\ ~\E f : Is(f, m)
    OBVIOUS
  <2>3. m # 0
    <3>1. Is([n \in 0..0 |-> c], 0)
      OBVIOUS
    <3> QED
      BY <3>1, <2>2
  <2>4. PICK g : Is(g, m - 1)
    <3>1. m - 1 \in Nat /\ ~(m <= m - 1)
      BY <2>2, <2>3
    <3> QED
      BY <3>1, <2>1
  <2> DEFINE h == [n \in 0..m |-> IF n = m THEN G[<<g[m - 1], m>>] ELSE g[n]]
  <2>5. ASSUME NEW n \in 0..m
        PROVE  h[n] = IF n = 0 THEN c ELSE G[<<h[n - 1], n>>]
    <3>1. CASE n = m
      <4>1. n # 0 /\ n - 1 \in 0..m /\ n - 1 # m
        BY <3>1, <2>2, <2>3
      <4>2. h[n - 1] = g[n - 1]
        BY <4>1
      <4> QED
        BY <4>1, <4>2, <3>1
    <3>2. CASE n = 0
      <4>1. n # m /\ n \in 0..(m - 1)
        BY <3>2, <2>2, <2>3
      <4> QED
        BY <4>1, <3>2, <2>4
    <3>3. CASE n # m /\ n # 0
      <4>1. n \in 0..(m - 1) /\ n - 1 \in 0..m /\ n - 1 # m
        BY <3>3, <2>2, <2>3
      <4>2. h[n - 1] = g[n - 1] /\ h[n] = g[n]
        BY <4>1, <3>3
      <4>3. g[n] = G[<<g[n - 1], n>>]
        BY <4>1, <3>3, <2>4
      <4> QED
        BY <4>2, <4>3, <3>3
    <3> QED
      BY <3>1, <3>2, <3>3
  <2>6. Is(h, m)
    BY <2>5
  <2> QED
    BY <2>6, <2>2
<1>2. PICK f : Is(f, N)
  BY <1>1
<1>3. f[0] \in D[0]
  BY <1>2
<1>4. \A n \in 1..N : f[n - 1] \in D[n - 1] => f[n] \in D[n]
  <2>1. \A n \in 1..N : f[n] = G[<<f[n - 1], n>>]
    BY <1>2
  <2> QED
    BY <2>1
<1>5. \A n \in 0..N : f[n] \in D[n]
  BY <1>3, <1>4, Climbs
<1>6. f \in [0..N -> U]
  BY <1>2, <1>5
<1>7. f[0] = c /\ \A n \in 1..N : f[n] = G[<<f[n - 1], n>>] /\ n - 1 \in 0..N
  BY <1>2
<1> QED
  BY <1>5, <1>6, <1>7
=============================================================================
