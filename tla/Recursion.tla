------------------------------ MODULE Recursion ------------------------------
(***************************************************************************)
(* A function defined by recursion on 0 .. N exists, so that the facts of  *)
(* its definition can be used; and the least element of a set of numbers,  *)
(* by which such facts are carried from one argument to the next.          *)
(***************************************************************************)
EXTENDS Naturals, WellFoundedInduction, TLAPS

\* A set of natural numbers that is not empty has a least element.
LEMMA LeastOf ==
  ASSUME NEW T \in SUBSET Nat, T # {}
  PROVE  \E n \in T : \A m \in T : n <= m
<1> DEFINE R == {ss \in Nat \X Nat : ss[1] < ss[2]}
<1>1. IsWellFoundedOn(R, Nat)
  BY NatLessThanWellFounded DEF OpToRel
<1>2. PICK x \in T : \A y \in T : ~(<<y, x>> \in R)
  <2> HIDE DEF R
  <2>1. QED
    BY <1>1, WFMin
<1>3. \A y \in T : y < x => <<y, x>> \in R
  OBVIOUS
<1>4. \A y \in T : y \in Nat /\ x \in Nat /\ ~(y < x)
  BY <1>2, <1>3
<1>5. QED
  BY <1>4

\* G[n] leads from the value at n - 1 to the value at n, beginning with v.
Iterates(V, v, N, G) ==
  \E F \in [0 .. N -> V] : F[0] = v /\ \A i \in 1 .. N : F[i] = G[i][F[i - 1]]

\* Such a function is built step by step: at the least n for which there is none,
\* the one for n - 1 can be extended.
LEMMA RecursionExists ==
  ASSUME NEW V, NEW v \in V, NEW N \in Nat, NEW G \in [1 .. N -> [V -> V]]
  PROVE  Iterates(V, v, N, G)
<1> DEFINE Good(n) == \E F \in [0 .. n -> V] :
                        \A i \in 0 .. n : F[i] = IF i = 0 THEN v ELSE G[i][F[i - 1]]
           Bad == {n \in 0 .. N : ~Good(n)}
<1>1. Bad = {}
  <2> SUFFICES ASSUME Bad # {} PROVE FALSE
    OBVIOUS
  <2>1. PICK n \in Bad : \A m \in Bad : n <= m
    <3> HIDE DEF Good
    <3>1. Bad \in SUBSET Nat /\ Bad # {}
      OBVIOUS
    <3> HIDE DEF Bad
    <3>2. QED
      BY <3>1, LeastOf
  <2>2. Good(0)
    <3> DEFINE Z == [i \in 0 .. 0 |-> v]
    <3>1. Z \in [0 .. 0 -> V] /\ \A i \in 0 .. 0 : i = 0 /\ Z[i] = v
      OBVIOUS
    <3> HIDE DEF Z
    <3>2. \A i \in 0 .. 0 : Z[i] = IF i = 0 THEN v ELSE G[i][Z[i - 1]]
      BY <3>1
    <3>3. QED
      BY <3>1, <3>2
  <2>3. n # 0 /\ n \in Nat /\ n - 1 \in 0 .. N /\ n \in 1 .. N
    <3> HIDE DEF Good
    <3>1. QED
      BY <2>2
  <2>4. Good(n - 1)
    <3> HIDE DEF Good
    <3>1. QED
      BY <2>1, <2>3
  <2>5. PICK F \in [0 .. (n - 1) -> V] :
          \A i \in 0 .. (n - 1) : F[i] = IF i = 0 THEN v ELSE G[i][F[i - 1]]
    BY <2>4
  <2> DEFINE H == [i \in 0 .. n |-> IF i = n THEN G[n][F[n - 1]] ELSE F[i]]
  <2>6. F[n - 1] \in V /\ G[n][F[n - 1]] \in V
    BY <2>3, <2>5
  <2>7. H \in [0 .. n -> V]
    BY <2>3, <2>6
  <2>8. ASSUME NEW i \in 0 .. n PROVE H[i] = IF i = 0 THEN v ELSE G[i][H[i - 1]]
    <3>1. i \in Nat /\ (i # 0 => i - 1 \in 0 .. (n - 1) /\ H[i - 1] = F[i - 1])
      BY <2>3
    <3>2. CASE i = n
      <4>1. H[i] = G[n][F[n - 1]]
        BY <3>2
      <4>2. QED
        BY <4>1, <3>1, <3>2, <2>3
    <3>3. CASE i # n
      <4>1. i \in 0 .. (n - 1) /\ H[i] = F[i]
        BY <3>3, <2>3
      <4>2. QED
        BY <4>1, <3>1, <2>5
    <3>4. QED
      BY <3>2, <3>3
  <2>9. Good(n)
    <3> HIDE DEF H
    <3>1. QED
      BY <2>7, <2>8
  <2>10. QED
    <3> HIDE DEF Good
    <3>1. QED
      BY <2>9, <2>1
<1>2. Good(N)
  <2> HIDE DEF Good
  <2>1. QED
    BY <1>1
<1>3. PICK F \in [0 .. N -> V] : \A i \in 0 .. N : F[i] = IF i = 0 THEN v ELSE G[i][F[i - 1]]
  BY <1>2
<1>4. 0 \in 0 .. N /\ \A i \in 1 .. N : i \in 0 .. N /\ i # 0
  OBVIOUS
<1>5. QED
  BY <1>3, <1>4 DEF Iterates
=============================================================================
