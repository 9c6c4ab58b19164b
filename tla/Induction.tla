----------------------------- MODULE Induction ------------------------------
(***************************************************************************)
(* Induction over the natural numbers, and functions defined by recursion  *)
(* over them, in a form that takes sets and functions where the library's  *)
(* theorems take operators.  The loops of the code that the models write   *)
(* as recursive functions are reasoned about with these.                   *)
(***************************************************************************)
EXTENDS Integers, WellFoundedInduction, TLAPS

Less == {ss \in Nat \X Nat : ss[1] < ss[2]}

LEMMA LessIsWellFounded == IsWellFoundedOn(Less, Nat)
BY NatLessThanWellFounded, ZenonT(20) DEF OpToRel, Less

\* A set with 0, and with n + 1 whenever it has n, has all natural numbers.
THEOREM InductionOnNat ==
    ASSUME NEW S, 0 \in S, \A n \in Nat : n \in S => n + 1 \in S
    PROVE  \A n \in Nat : n \in S
<1> SUFFICES ASSUME Nat \ S # {} PROVE FALSE
    OBVIOUS
<1>1. PICK n \in Nat \ S : \A m \in Nat \ S : <<m, n>> \notin Less
    BY LessIsWellFounded, WFMin
<1>2. n # 0 /\ n - 1 \in Nat
    OBVIOUS
<1>3. <<n - 1, n>> \in Less
    BY <1>2 DEF Less
<1> QED
    BY <1>1, <1>2, <1>3

\* The same up to n.
THEOREM InductionUpTo ==
    ASSUME NEW n \in Nat, NEW S, 0 \in S, \A k \in 1..n : k - 1 \in S => k \in S
    PROVE  \A k \in 0..n : k \in S
<1> DEFINE T == {k \in Nat : k <= n => k \in S}
<1>1. 0 \in T
    OBVIOUS
<1>2. ASSUME NEW k \in Nat, k \in T
      PROVE  k + 1 \in T
    BY <1>2
<1> HIDE DEF T
<1>3. \A k \in Nat : k \in T
    BY <1>1, <1>2, InductionOnNat
<1> QED
    BY <1>3 DEF T

Recursive(f, n, base, Step) ==
    f = [k \in 0..n |-> IF k = 0 THEN base ELSE Step[k][f[k - 1]]]

\* There is a function with f[0] = base and f[k] = Step[k][f[k - 1]].
THEOREM RecursionUpTo ==
    ASSUME NEW n \in Nat, NEW X, NEW base \in X, NEW Step \in [1..n -> [X -> X]]
    PROVE  \E f \in [0..n -> X] : Recursive(f, n, base, Step)
<1> DEFINE S == {m \in 0..n : \E f \in [0..m -> X] : Recursive(f, m, base, Step)}
<1>1. 0 \in S
  <2> DEFINE f == [k \in 0..0 |-> base]
  <2>1. f \in [0..0 -> X] /\ Recursive(f, 0, base, Step)
    BY DEF Recursive
  <2> QED
    BY <2>1
<1>2. ASSUME NEW m \in 1..n, m - 1 \in S
      PROVE  m \in S
  <2>1. PICK f \in [0..(m - 1) -> X] : Recursive(f, m - 1, base, Step)
    BY <1>2
  <2> DEFINE g == [k \in 0..m |-> IF k = m THEN Step[m][f[m - 1]] ELSE f[k]]
  <2>2. g \in [0..m -> X]
    OBVIOUS
  <2>3. \A k \in 0..m : g[k] = IF k = 0 THEN base ELSE Step[k][g[k - 1]]
    <3> SUFFICES ASSUME NEW k \in 0..m
                 PROVE  g[k] = IF k = 0 THEN base ELSE Step[k][g[k - 1]]
        OBVIOUS
    <3>1. CASE k = m
      <4>1. k # 0 /\ k - 1 \in 0..m /\ k - 1 # m
        BY <3>1
      <4>2. g[k - 1] = f[m - 1] /\ g[k] = Step[m][f[m - 1]]
        BY <3>1, <4>1
      <4> QED
        BY <3>1, <4>1, <4>2
    <3>2. CASE k # m
      <4>1. k \in 0..(m - 1) /\ g[k] = f[k]
        BY <3>2
      <4>2. f[k] = IF k = 0 THEN base ELSE Step[k][f[k - 1]]
        BY <2>1, <4>1 DEF Recursive
      <4>3. k # 0 => g[k - 1] = f[k - 1]
        BY <4>1
      <4> QED
        BY <4>1, <4>2, <4>3
    <3> QED
        BY <3>1, <3>2
  <2>4. g = [k \in 0..m |-> g[k]]
    OBVIOUS
  <2> HIDE DEF g
  <2>5. Recursive(g, m, base, Step)
    BY <2>3, <2>4 DEF Recursive
  <2> QED
    BY <2>2, <2>5
<1> HIDE DEF S
<1>3. \A m \in 0..n : m \in S
    BY <1>1, <1>2, InductionUpTo
<1>4. n \in S
    BY <1>3
<1> QED
    BY <1>4 DEF S

=============================================================================
