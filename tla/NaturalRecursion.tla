-------------------------- MODULE NaturalRecursion --------------------------
(***************************************************************************)
(* Induction and recursion over the natural numbers, in the first-order    *)
(* form that the proofs about recursive functions cite: a set takes the    *)
(* place of the predicate, and a function that of the step.                *)
(***************************************************************************)
EXTENDS Integers, WellFoundedInduction, TLAPS

Less == {p \in Nat \X Nat : p[1] < p[2]}

\* The order of the numbers is well founded.
LEMMA LessWellFounded == IsWellFoundedOn(Less, Nat)
BY NatLessThanWellFounded DEF Less, OpToRel

\* A set that has 0, and with each number the next, has all of them.
LEMMA SetInduction ==
    ASSUME NEW S, 0 \in S, \A n \in Nat : n \in S => n + 1 \in S
    PROVE  \A n \in Nat : n \in S
<1> DEFINE T == Nat \ S
<1>1. SUFFICES ASSUME T # {} PROVE FALSE
  OBVIOUS
<1>2. PICK x \in T : \A y \in T : ~ (<<y, x>> \in Less)
  <2> HIDE DEF T
  <2>1. T \subseteq Nat
    BY DEF T
  <2>2. QED
    BY <1>1, <2>1, LessWellFounded, WFMin
<1>3. x - 1 \in Nat /\ x - 1 < x /\ (x - 1) + 1 = x
  OBVIOUS
<1>4. <<x - 1, x>> \in Less
  BY <1>3 DEF Less
<1>5. QED
  BY <1>2, <1>3, <1>4

\* The same, up to a number.
LEMMA BoundedInduction ==
    ASSUME NEW n \in Nat, NEW S, 0 \in S, \A i \in 1..n : i - 1 \in S => i \in S
    PROVE  \A i \in 0..n : i \in S
<1> DEFINE T == {k \in Nat : k <= n => k \in S}
<1>1. 0 \in T
  OBVIOUS
<1>2. ASSUME NEW k \in Nat, k \in T PROVE k + 1 \in T
  <2>1. CASE k + 1 <= n
    <3>1. k + 1 \in 1..n /\ (k + 1) - 1 \in S
      BY <1>2, <2>1
    <3>2. QED
      BY <3>1
  <2>2. CASE ~ (k + 1 <= n)
    BY <2>2
  <2>3. QED
    BY <2>1, <2>2
<1>3. \A k \in Nat : k \in T
  <2> HIDE DEF T
  <2>1. QED
    BY <1>1, <1>2, SetInduction
<1>4. QED
  BY <1>3

\* What defines a function on 0..n by recursion: its first value is base, and
\* step gives the others.
Steps(S, n) == [S \X (1..n) -> S]
Defined(S, n, base, step) ==
    {f \in [0..n -> S] : f[0] = base /\ \A i \in 1..n : f[i] = step[<<f[i-1], i>>]}

\* There is such a function.
LEMMA BoundedRecursion ==
    ASSUME NEW n \in Nat, NEW S, NEW base \in S, NEW step \in Steps(S, n)
    PROVE  Defined(S, n, base, step) # {}
<1> DEFINE Upto(k, f) == f[0] = base /\ \A i \in 1..k : f[i] = step[<<f[i-1], i>>]
           T == {k \in 0..n : \E f \in [0..n -> S] : Upto(k, f)}
<1>1. 0 \in T
  <2> DEFINE f == [i \in 0..n |-> base]
  <2>1. f \in [0..n -> S] /\ Upto(0, f)
    OBVIOUS
  <2>2. \E g \in [0..n -> S] : Upto(0, g)
    BY <2>1
  <2>3. QED
    BY <2>2
<1>2. ASSUME NEW k \in 1..n, k - 1 \in T PROVE k \in T
  <2>1. PICK g \in [0..n -> S] : Upto(k - 1, g)
    BY <1>2
  <2> DEFINE f == [g EXCEPT ![k] = step[<<g[k-1], k>>]]
  <2>2. f \in [0..n -> S] /\ f[k] = step[<<g[k-1], k>>]
    BY DEF Steps
  <2>3. \A i \in 0..(k - 1) : f[i] = g[i]
    OBVIOUS
  <2>4. ASSUME NEW i \in 1..k PROVE f[i] = step[<<f[i-1], i>>]
    <3>1. CASE i = k
      BY <2>2, <2>3, <3>1
    <3>2. CASE i # k
      BY <2>1, <2>3, <3>2
    <3>3. QED
      BY <3>1, <3>2
  <2>5. Upto(k, f)
    BY <2>1, <2>3, <2>4
  <2>6. \E h \in [0..n -> S] : Upto(k, h)
    BY <2>2, <2>5
  <2>7. QED
    BY <2>6
<1>3. \A k \in 0..n : k \in T
  <2> HIDE DEF T
  <2>1. QED
    BY <1>1, <1>2, BoundedInduction
<1>4. QED
  BY <1>3 DEF Defined

=============================================================================
