------------------------------- MODULE Induction -------------------------------
(***************************************************************************)
(* Numbers, and functions that are defined by recursion over them.         *)
(*                                                                         *)
(* The library states induction with an operator for the property, which   *)
(* no prover here can instantiate; said of a set it can be used: a set that *)
(* has 0 and the successor of each of its numbers has them all. From that  *)
(* follows that a recursive definition has a solution, so that the CHOOSE  *)
(* in it is one.                                                           *)
(***************************************************************************)
EXTENDS Integers, WellFoundedInduction, TLAPS

\* A set of numbers has a least one.
LEMMA LeastOf ==
  ASSUME NEW S, S \subseteq Nat, S # {}
  PROVE  \E x \in S : \A y \in S : x <= y
<1>1. PICK x \in S : \A y \in S : <<y, x>> \notin OpToRel(<, Nat)
  BY NatLessThanWellFounded, WFMin
<1>2. \A y \in S : ~(y < x)
  BY <1>1, Zenon DEF OpToRel
<1>3. \A y \in S : x <= y
  BY <1>2
<1> QED BY <1>3

\* Induction, said of a set.
LEMMA AllNumbers ==
  ASSUME NEW T, 0 \in T, \A n \in Nat : n \in T => n + 1 \in T
  PROVE  Nat \subseteq T
<1> SUFFICES ASSUME Nat \ T # {} PROVE FALSE
  OBVIOUS
<1>1. PICK x \in Nat \ T : \A y \in Nat \ T : x <= y
  BY LeastOf
<1>2. x # 0
  OBVIOUS
<1>3. x - 1 \in Nat /\ ~(x <= x - 1)
  BY <1>2
<1> QED BY <1>1, <1>3

\* Steps F[<<n, x>>] from a value x to the n-th, and the functions they make.
Maps(S) == [Nat \X S -> S]
Orbits(S, F, first) ==
  {g \in [Nat -> S] : g = [n \in Nat |-> IF n = 0 THEN first ELSE F[<<n, g[n - 1]>>]]}

\* Two runs that start alike agree as far as both go, so the ends of runs of
\* every length are the values of one function.
LEMMA Iterates ==
  ASSUME NEW S, NEW F \in Maps(S), NEW first \in S
  PROVE  Orbits(S, F, first) # {}
<1> DEFINE Up(n, h) == /\ h \in [0 .. n -> S] /\ h[0] = first
                       /\ \A i \in 0 .. n - 1 : h[i + 1] = F[<<i + 1, h[i]>>]
           T == {n \in Nat : \E h : Up(n, h)}
<1>0. F \in [Nat \X S -> S]
  BY DEF Maps
<1>1. Nat \subseteq T
  <2>1. 0 \in T
    <3>1. Up(0, [i \in 0 .. 0 |-> first])
      OBVIOUS
    <3> QED BY <3>1
  <2>2. ASSUME NEW n \in Nat, n \in T PROVE n + 1 \in T
    <3>1. PICK h : Up(n, h)
      BY <2>2
    <3> DEFINE k == [i \in 0 .. n + 1 |-> IF i = n + 1 THEN F[<<n + 1, h[n]>>] ELSE h[i]]
    <3>2. n \in 0 .. n /\ n + 1 \in Nat /\ 0 \in 0 .. n
      OBVIOUS
    <3>3. F[<<n + 1, h[n]>>] \in S
      BY <1>0, <3>1, <3>2
    <3>4. k \in [0 .. n + 1 -> S]
      BY <3>1, <3>3
    <3>5. ASSUME NEW i \in 0 .. n PROVE k[i + 1] = F[<<i + 1, k[i]>>]
      <4>1. i \in 0 .. n + 1 /\ i + 1 \in 0 .. n + 1 /\ i # n + 1
        OBVIOUS
      <4>2. k[i] = h[i]
        BY <4>1
      <4>3. CASE i = n
        BY <4>1, <4>2, <4>3
      <4>4. CASE i # n
        <5>1. i \in 0 .. n - 1 /\ i + 1 # n + 1
          BY <4>4
        <5> QED BY <4>1, <4>2, <5>1, <3>1
      <4> QED BY <4>3, <4>4
    <3>6. k[0] = first
      BY <3>1, <3>2
    <3>7. Up(n + 1, k)
      <4>1. (n + 1) - 1 = n
        OBVIOUS
      <4> HIDE DEF k
      <4> QED BY <4>1, <3>4, <3>5, <3>6
    <3> QED BY <3>2, <3>7
  <2> HIDE DEF T
  <2> QED BY <2>1, <2>2, AllNumbers
<1>2. ASSUME NEW n \in Nat, NEW m \in Nat, n <= m, NEW h, Up(n, h), NEW k, Up(m, k)
      PROVE  \A i \in 0 .. n : h[i] = k[i]
  <2> DEFINE D == {i \in 0 .. n : h[i] # k[i]}
  <2> SUFFICES ASSUME D # {} PROVE FALSE
    OBVIOUS
  <2>1. PICK x \in D : \A y \in D : x <= y
    <3>1. D \subseteq Nat
      OBVIOUS
    <3> HIDE DEF D
    <3> QED BY <3>1, LeastOf
  <2>2. x # 0
    BY <1>2
  <2>3. x - 1 \in 0 .. n - 1 /\ x - 1 \in 0 .. m - 1 /\ x - 1 + 1 = x /\ ~(x <= x - 1)
        /\ x - 1 \in 0 .. n
    BY <1>2, <2>2
  <2>4. h[x - 1] = k[x - 1]
    BY <2>1, <2>3
  <2>5. h[x] = F[<<x, h[x - 1]>>] /\ k[x] = F[<<x, k[x - 1]>>]
    BY <1>2, <2>3
  <2> QED BY <2>4, <2>5
<1> DEFINE path == [n \in Nat |-> CHOOSE h : Up(n, h)]
           g == [n \in Nat |-> path[n][n]]
<1>3. ASSUME NEW n \in Nat PROVE Up(n, path[n])
  <2>1. \E h : Up(n, h)
    BY <1>1
  <2> HIDE DEF Up
  <2> QED BY <2>1, Zenon
<1> HIDE DEF path
<1>4. ASSUME NEW n \in Nat PROVE path[n][n] \in S
  BY <1>3
<1>5. g[0] = first
  BY <1>3
<1>6. ASSUME NEW n \in Nat PROVE g[n + 1] = F[<<n + 1, g[n]>>]
  <2>1. n + 1 \in Nat /\ n <= n + 1 /\ n \in 0 .. (n + 1) - 1 /\ n \in 0 .. n
    OBVIOUS
  <2>2. Up(n, path[n]) /\ Up(n + 1, path[n + 1])
    BY <2>1, <1>3
  <2>3. path[n][n] = path[n + 1][n]
    <3> HIDE DEF Up
    <3> QED BY <2>1, <2>2, <1>2
  <2> QED BY <2>1, <2>2, <2>3
<1>7. g = [n \in Nat |-> IF n = 0 THEN first ELSE F[<<n, g[n - 1]>>]]
  <2>1. ASSUME NEW n \in Nat, n # 0 PROVE g[n] = F[<<n, g[n - 1]>>]
    <3>1. n - 1 \in Nat /\ (n - 1) + 1 = n
      BY <2>1
    <3> HIDE DEF g
    <3> QED BY <1>6, <3>1
  <2>2. g = [n \in Nat |-> g[n]]
    OBVIOUS
  <2> HIDE DEF g
  <2> QED BY <1>5, <2>1, <2>2
<1>8. g \in [Nat -> S]
  BY <1>4
<1> HIDE DEF g
<1> QED BY <1>7, <1>8 DEF Orbits
===============================================================================
