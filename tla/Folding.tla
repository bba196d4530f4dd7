------------------------------- MODULE Folding -------------------------------
(***************************************************************************)
(* Loops.  A loop over agents or runs is a recursive function whose value  *)
(* at k is that of k steps; the provers have no induction over it with an  *)
(* operator as a parameter, so the operator and the property are constants *)
(* of this module, and a module that has loops instantiates it once for    *)
(* each of them.  Only the theorem at the end is used elsewhere.           *)
(***************************************************************************)
EXTENDS Naturals, TLAPS, WellFoundedInduction

CONSTANTS
  Op(_, _, _),    \* Op(c, m, k): step k of the loop, on m, with parameters c
  Good(_, _, _)   \* Good(d, m, k): what holds of m after k steps

(* f is the recursive function of the loop. *)
Folds(f, c, m, N) == f = [k \in 0 .. N |-> IF k = 0 THEN m ELSE Op(c, f[k - 1], k)]

(* N steps of the loop, from m. *)
Fold(c, m, N) == LET f[k \in 0 .. N] == IF k = 0 THEN m ELSE Op(c, f[k - 1], k) IN f[N]

(* A set of naturals that is not empty has a least element. *)
LEMMA Least ==
  ASSUME NEW T \in SUBSET Nat, T # {}
  PROVE  \E n \in T : \A k \in T : n <= k
  <1> DEFINE R == {ss \in Nat \X Nat : ss[1] < ss[2]}
  <1>0. IsWellFoundedOn(R, Nat)
    BY NatLessThanWellFounded DEF OpToRel
  <1> HIDE DEF R
  <1>1. PICK x \in T : \A y \in T : ~ (<<y, x>> \in R)
    BY <1>0, WFMin
  <1>2. \A y \in T : ~ (y < x)
    BY <1>1 DEF R
  <1> QED
    BY <1>2

(* The recursive definition has a solution: a least length without one cannot be. *)
LEMMA FoldExists ==
  ASSUME NEW c, NEW m, NEW N \in Nat
  PROVE  \E f : Folds(f, c, m, N)
  <1> DEFINE T == {n \in Nat : ~ \E f : Folds(f, c, m, n)}
  <1>1. ASSUME T # {} PROVE FALSE
    <2>1. PICK n \in T : \A k \in T : n <= k
      BY <1>1, Least
    <2>2. CASE n = 0
      <3> DEFINE g == [k \in 0 .. 0 |-> m]
      <3>1. Folds(g, c, m, 0)
        BY DEF Folds
      <3> QED
        BY <2>1, <2>2, <3>1
    <2>3. CASE n # 0
      <3>1. n - 1 \in Nat /\ n - 1 \notin T
        BY <2>1, <2>3
      <3>2. PICK f : Folds(f, c, m, n - 1)
        BY <3>1
      <3> DEFINE g == [k \in 0 .. n |-> IF k < n THEN f[k] ELSE Op(c, f[n - 1], n)]
      <3>3. \A k \in 0 .. n : g[k] = IF k = 0 THEN m ELSE Op(c, g[k - 1], k)
        <4> TAKE k \in 0 .. n
        <4>1. CASE k = n
          <5>1. g[n - 1] = f[n - 1] /\ n - 1 \in 0 .. n
            BY <2>1, <2>3
          <5>2. g[k] = Op(c, f[n - 1], n)
            BY <2>1, <4>1
          <5> HIDE DEF g
          <5> QED
            BY <2>3, <4>1, <5>1, <5>2
        <4>2. CASE k # n
          <5>1. k \in 0 .. (n - 1) /\ g[k] = f[k] /\ (k # 0 => g[k - 1] = f[k - 1])
            BY <2>1, <2>3, <4>2
          <5>2. f[k] = IF k = 0 THEN m ELSE Op(c, f[k - 1], k)
            BY <3>2, <5>1 DEF Folds
          <5> HIDE DEF g
          <5> QED
            BY <5>1, <5>2
        <4> QED
          BY <4>1, <4>2
      <3>4. Folds(g, c, m, n)
        <4>1. g = [k \in 0 .. n |-> g[k]]
          OBVIOUS
        <4> HIDE DEF g
        <4> QED
          BY <3>3, <4>1 DEF Folds
      <3> HIDE DEF g
      <3> QED
        BY <2>1, <3>4
    <2> QED
      BY <2>2, <2>3
  <1> QED
    BY <1>1

(* What every step of a loop carries on holds when the loop is over: ForEach, SettleQueued,   *)
(* ResumeOwners, Keep and recover of the supervisor are such loops.                          *)
THEOREM FoldKeeps ==
  ASSUME NEW c, NEW d, NEW m, NEW N \in Nat, Good(d, m, 0),
         \A h, k : k \in 1 .. N /\ Good(d, h, k - 1) => Good(d, Op(c, h, k), k)
  PROVE  Good(d, Fold(c, m, N), N)
  <1>1. PICK F : F = CHOOSE f : f = [k \in 0 .. N |-> IF k = 0 THEN m ELSE Op(c, f[k - 1], k)]
    OBVIOUS
  <1>2. Fold(c, m, N) = F[N]
    BY <1>1, Zenon DEF Fold
  <1>3. Folds(F, c, m, N)
    <2>1. \E f : f = [k \in 0 .. N |-> IF k = 0 THEN m ELSE Op(c, f[k - 1], k)]
      <3>1. PICK f : Folds(f, c, m, N)
        BY FoldExists
      <3>2. f = [k \in 0 .. N |-> IF k = 0 THEN m ELSE Op(c, f[k - 1], k)]
        BY <3>1, Zenon DEF Folds
      <3> QED
        BY <3>2, Zenon
    <2> QED
      BY <1>1, <2>1, Zenon DEF Folds
  <1> DEFINE T == {n \in 0 .. N : ~ Good(d, F[n], n)}
  <1>4. ASSUME T # {} PROVE FALSE
    <2>0. T \in SUBSET Nat
      OBVIOUS
    <2>1. PICK n \in T : \A k \in T : n <= k
      BY <1>4, <2>0, Least
    <2>2. CASE n = 0
      BY <1>3, <2>1, <2>2 DEF Folds
    <2>3. CASE n # 0
      <3>1. n - 1 \in 0 .. N /\ n - 1 \notin T /\ n \in 1 .. N
        BY <2>1, <2>3
      <3>2. Good(d, F[n - 1], n - 1)
        BY <3>1
      <3>3. F[n] = Op(c, F[n - 1], n)
        BY <1>3, <2>3, <3>1 DEF Folds
      <3> QED
        BY <2>1, <3>1, <3>2, <3>3
    <2> QED
      BY <2>2, <2>3
  <1> QED
    BY <1>2, <1>4
=============================================================================
