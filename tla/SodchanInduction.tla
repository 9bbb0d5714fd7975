------------------------- MODULE SodchanInduction --------------------------
(***************************************************************************)
(* Induction over numbers, and recursive functions over an interval, in a  *)
(* form the provers can use: over sets, where the theorems of the library  *)
(* have an operator for their parameter.                                   *)
(***************************************************************************)
EXTENDS Integers, TLAPS, NaturalsInduction, WellFoundedInduction

\* A set with 0 and with the successor of each of its numbers has all numbers.
LEMMA NatSetInduction ==
  ASSUME NEW S, 0 \in S, \A n \in Nat : n \in S => n + 1 \in S
  PROVE  Nat \subseteq S
<1> DEFINE T == Nat \ S
           R == {ss \in Nat \X Nat : ss[1] < ss[2]}
<1>1. SUFFICES ASSUME T # {} PROVE FALSE
  OBVIOUS
<1>2. IsWellFoundedOn(R, Nat)
  BY NatLessThanWellFounded DEF OpToRel
<1>3. PICK x \in T : \A y \in T : ~(<<y, x>> \in R)
  <2>1. T \subseteq Nat
    OBVIOUS
  <2> HIDE DEF T, R
  <2> QED BY <1>1, <1>2, <2>1, WFMin
<1>4. \A y \in T : ~(y < x)
  BY <1>3
<1>5. x \in Nat /\ x \notin S /\ x # 0
  OBVIOUS
<1>6. x - 1 \in Nat /\ x - 1 < x
  BY <1>5
<1>7. x - 1 \in S
  BY <1>4, <1>6
<1> QED BY <1>5, <1>6, <1>7

\* The same on the numbers up to m.
LEMMA IntervalInduction ==
  ASSUME NEW m \in Nat, NEW S, 0 \in S, \A k \in 0 .. (m - 1) : k \in S => k + 1 \in S
  PROVE  0 .. m \subseteq S
<1> DEFINE T == S \cup {n \in Nat : n > m}
<1>1. \A n \in Nat : n \in T => n + 1 \in T
  OBVIOUS
<1>2. 0 \in T
  OBVIOUS
<1>3. Nat \subseteq T
  <2> HIDE DEF T
  <2> QED BY <1>1, <1>2, NatSetInduction
<1> QED BY <1>3

\* A recursion over X in m turns: step[k] is what the k-th turn does.
Steps(m, X) == [1 .. m -> [X -> X]]
Solves(m, X, x0, step, f) ==
  f \in [0 .. m -> X] /\ f[0] = x0 /\ \A k \in 1 .. m : f[k] = step[k][f[k - 1]]

\* It has a solution.
LEMMA Recursion ==
  ASSUME NEW m \in Nat, NEW X, NEW x0 \in X, NEW step \in Steps(m, X)
  PROVE  \E f : Solves(m, X, x0, step, f)
<1> USE DEF Steps
<1> DEFINE Sol(n, f) == f[0] = x0 /\ \A k \in 1 .. n : f[k] = step[k][f[k - 1]]
           S == {n \in 0 .. m : \E f \in [0 .. n -> X] : Sol(n, f)}
<1>1. 0 \in S
  <2> DEFINE f == [i \in 0 .. 0 |-> x0]
  <2>1. f \in [0 .. 0 -> X] /\ f[0] = x0
    OBVIOUS
  <2>2. \A k \in 1 .. 0 : FALSE
    OBVIOUS
  <2>3. 0 \in 0 .. m
    OBVIOUS
  <2> HIDE DEF f
  <2> QED BY <2>1, <2>2, <2>3
<1>2. ASSUME NEW n \in 0 .. (m - 1), n \in S PROVE n + 1 \in S
  <2>1. PICK f \in [0 .. n -> X] : Sol(n, f)
    BY <1>2
  <2> DEFINE g == [i \in 0 .. (n + 1) |-> IF i = n + 1 THEN step[n + 1][f[n]] ELSE f[i]]
  <2>2. g \in [0 .. (n + 1) -> X]
    OBVIOUS
  <2>3. g[0] = x0
    BY <2>1
  <2>4. ASSUME NEW k \in 1 .. (n + 1) PROVE g[k] = step[k][g[k - 1]]
    <3>1. CASE k = n + 1
      BY <3>1
    <3>2. CASE k \in 1 .. n
      <4>1. g[k] = f[k] /\ g[k - 1] = f[k - 1]
        BY <3>2
      <4> QED BY <2>1, <3>2, <4>1
    <3> QED BY <3>1, <3>2
  <2> HIDE DEF g
  <2>5. n + 1 \in 0 .. m
    OBVIOUS
  <2> QED BY <2>2, <2>3, <2>4, <2>5
<1>3. 0 .. m \subseteq S
  <2> HIDE DEF S
  <2> QED BY <1>1, <1>2, IntervalInduction
<1>4. PICK f \in [0 .. m -> X] : Sol(m, f)
  BY <1>3
<1> QED BY <1>4 DEF Solves

============================================================================
