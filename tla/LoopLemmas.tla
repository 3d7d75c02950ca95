----------------------------- MODULE LoopLemmas ------------------------------
(***************************************************************************)
(* Induction, and what loops compute.  A loop is modelled by a function f  *)
(* on the numbers of its turns, given by f[0] and by what a turn makes of  *)
(* the state before it; there is such a function (Recursion), and what     *)
(* holds of f[0] and is kept by every turn holds of every f[n], by         *)
(* SetInduction on the set of the numbers it holds of.                     *)
(***************************************************************************)
EXTENDS Integers, WellFoundedInduction, TLAPS

(* The order of the numbers as the library's theorems have it *)
LEMMA Less == \A x, y \in Nat : x < y => <<x, y>> \in OpToRel(<, Nat)
BY DEF OpToRel

(* Numbers that are there have a least one *)
LEMMA NatLeast ==
    ASSUME NEW T \in SUBSET Nat, T # {}
    PROVE  \E x \in T : \A y \in T : x <= y
<1>1. PICK x \in T : \A y \in T : <<y, x>> \notin OpToRel(<, Nat)
  BY NatLessThanWellFounded, WFMin
<1>2. \A y \in T : ~(y < x)  BY <1>1, Less
<1> QED BY <1>2

(* A set that has zero and the successors of its members has every number *)
LEMMA SetInduction ==
    ASSUME NEW T, 0 \in T, \A n \in Nat : n \in T => n + 1 \in T
    PROVE  Nat \subseteq T
<1> DEFINE U == Nat \ T
<1>1. SUFFICES ASSUME U # {} PROVE FALSE  OBVIOUS
<1>2. PICK x \in U : \A y \in U : x <= y  BY <1>1, NatLeast
<1>3. x # 0 /\ x - 1 \in Nat /\ x - 1 \notin U  BY <1>2
<1>4. (x - 1) + 1 \in T  BY <1>3
<1> QED BY <1>2, <1>3, <1>4

(* The states f of a loop of n turns, of which g[i] is turn i, a function  *)
(* of the state before it; there are such states *)
Goes(n, a, g, f) == f[0] = a /\ \A i \in 1 .. n : f[i] = g[i][f[i - 1]]

(* A function given by its first value and by steps has that first value *)
(* and those steps                                                        *)
LEMMA Recursion ==
    ASSUME NEW S, NEW a \in S, NEW N \in Nat, NEW g \in [1 .. N -> [S -> S]]
    PROVE  \E f \in [0 .. N -> S] : Goes(N, a, g, f)
<1> DEFINE T == {n \in Nat : n <= N => \E f \in [0 .. n -> S] : Goes(n, a, g, f)}
<1> USE DEF Goes
<1>1. 0 \in T
  <2>1. [i \in 0 .. 0 |-> a] \in [0 .. 0 -> S] /\ Goes(0, a, g, [i \in 0 .. 0 |-> a])  OBVIOUS
  <2> QED BY <2>1
<1>2. ASSUME NEW n \in Nat, n \in T PROVE n + 1 \in T
  <2> SUFFICES ASSUME n + 1 <= N PROVE \E f \in [0 .. n + 1 -> S] : Goes(n + 1, a, g, f)
    OBVIOUS
  <2>1. PICK f \in [0 .. n -> S] : Goes(n, a, g, f)  BY <1>2
  <2> DEFINE h == [i \in 0 .. n + 1 |-> IF i = n + 1 THEN g[n + 1][f[n]] ELSE f[i]]
  <2>2. n \in 0 .. n /\ n + 1 \in 1 .. N  OBVIOUS
  <2>3. g[n + 1][f[n]] \in S  BY <2>1, <2>2
  <2>4. h \in [0 .. n + 1 -> S]
    <3>1. \A i \in 0 .. n + 1 : i # n + 1 => i \in 0 .. n  OBVIOUS
    <3> QED BY <2>3, <3>1
  <2>5. \A i \in 0 .. n : h[i] = f[i]  OBVIOUS
  <2>6. h[n + 1] = g[n + 1][h[n]]  BY <2>2, <2>5
  <2>7. ASSUME NEW i \in 1 .. n + 1 PROVE h[i] = g[i][h[i - 1]]
    <3>1. CASE i = n + 1
      <4>1. i - 1 = n  BY <3>1
      <4> QED BY <2>6, <3>1, <4>1
    <3>2. CASE i # n + 1
      <4>1. i \in 1 .. n /\ i \in 0 .. n /\ i - 1 \in 0 .. n  BY <3>2
      <4> QED BY <2>1, <2>5, <4>1
    <3> QED BY <3>1, <3>2
  <2>8. h[0] = a  BY <2>1, <2>5
  <2> HIDE DEF h
  <2> QED BY <2>4, <2>7, <2>8
<1> HIDE DEF T
<1>3. N \in T  BY <1>1, <1>2, SetInduction
<1> QED BY <1>3 DEF T

=============================================================================
