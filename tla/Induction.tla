------------------------------ MODULE Induction ------------------------------
(***************************************************************************)
(* Induction on the natural numbers in the form of sets: a set of numbers  *)
(* has a least member, a bounded one a greatest, and one that has 0 and    *)
(* the successor of each of its members has them all.  From that, that a   *)
(* function can be defined by recursion.                                   *)
(***************************************************************************)
EXTENDS Integers, TLAPS, WellFoundedInduction

LessThan == {pair \in Nat \X Nat : pair[1] < pair[2]}

LEMMA LessThanWellFounded == IsWellFoundedOn(LessThan, Nat)
  BY NatLessThanWellFounded DEF OpToRel, LessThan

LEMMA HasLeast ==
  ASSUME NEW T, T \subseteq Nat, T # {}
  PROVE  \E x \in T : \A y \in T : x <= y
<1>1. PICK x \in T : \A y \in T : <<y, x>> \notin LessThan
  BY LessThanWellFounded, WFMin
<1>2. \A y \in T : ~(y < x)
  BY <1>1 DEF LessThan
<1> QED BY <1>2

LEMMA HasGreatest ==
  ASSUME NEW bound \in Nat, NEW T, T \subseteq 0..bound, T # {}
  PROVE  \E x \in T : \A y \in T : y <= x
<1> DEFINE Distances == {bound - y : y \in T}
<1>1. Distances \subseteq Nat /\ Distances # {}
  <2>1. PICK y \in T : TRUE
    OBVIOUS
  <2>2. bound - y \in Distances
    BY <2>1
  <2>3. \A z \in T : bound - z \in Nat
    OBVIOUS
  <2> QED BY <2>2, <2>3
<1>2. PICK d \in Distances : \A e \in Distances : d <= e
  BY <1>1, HasLeast
<1>3. PICK x \in T : d = bound - x
  BY <1>2
<1>4. \A y \in T : bound - x <= bound - y
  BY <1>2, <1>3
<1> QED BY <1>3, <1>4

LEMMA SetInduction ==
  ASSUME NEW S, 0 \in S, \A n \in Nat : n \in S => n + 1 \in S
  PROVE  \A n \in Nat : n \in S
<1> SUFFICES ASSUME Nat \ S # {} PROVE FALSE
  OBVIOUS
<1>1. PICK x \in Nat \ S : \A y \in Nat \ S : x <= y
  BY HasLeast
<1>2. x # 0 /\ x - 1 \in Nat
  BY <1>1
<1>3. x - 1 \in S
  BY <1>1, <1>2
<1> QED BY <1>1, <1>2, <1>3

\* f follows the recursion as far as n.
Follows(f, base, step, n) ==
  f[0] = base /\ \A i \in 0..n - 1 : f[i + 1] = step[<<f[i], i>>]

LEMMA Recursion ==
  ASSUME NEW S, NEW base \in S, NEW step \in [S \X Nat -> S]
  PROVE  \A n \in Nat : \E f \in [0..n -> S] : Follows(f, base, step, n)
<1> DEFINE Defined == {n \in Nat : \E f \in [0..n -> S] : Follows(f, base, step, n)}
<1>1. 0 \in Defined
  <2>1. [i \in 0..0 |-> base] \in [0..0 -> S]
        /\ Follows([i \in 0..0 |-> base], base, step, 0)
    BY DEF Follows
  <2> QED BY <2>1
<1>2. ASSUME NEW n \in Nat, n \in Defined PROVE n + 1 \in Defined
  <2>1. PICK f \in [0..n -> S] : Follows(f, base, step, n)
    BY <1>2
  <2> DEFINE g == [i \in 0..n + 1 |-> IF i = n + 1 THEN step[<<f[n], n>>] ELSE f[i]]
  <2>2. step[<<f[n], n>>] \in S
    OBVIOUS
  <2>3. g \in [0..n + 1 -> S]
    BY <2>2
  <2>4. g[0] = base
    BY <2>1 DEF Follows
  <2>5. ASSUME NEW i \in 0..n PROVE g[i + 1] = step[<<g[i], i>>]
    <3>1. g[i] = f[i]
      OBVIOUS
    <3>2. CASE i = n
      <4>1. i + 1 = n + 1 /\ n + 1 \in 0..n + 1
        BY <3>2
      <4>2. g[n + 1] = step[<<f[n], n>>]
        BY <4>1
      <4> QED BY <3>1, <3>2, <4>1, <4>2
    <3>3. CASE i # n
      <4>1. i \in 0..n - 1 /\ g[i + 1] = f[i + 1]
        BY <3>3
      <4> QED BY <2>1, <3>1, <4>1 DEF Follows
    <3> QED BY <3>2, <3>3
  <2>6. (n + 1) - 1 = n
    OBVIOUS
  <2>7. Follows(g, base, step, n + 1)
    BY <2>4, <2>5, <2>6 DEF Follows
  <2> QED BY <2>3, <2>7
<1> HIDE DEF Defined
<1>3. \A n \in Nat : n \in Defined
  BY <1>1, <1>2, SetInduction
<1> QED BY <1>3 DEF Defined
=============================================================================
