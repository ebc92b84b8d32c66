------------------------------ MODULE Recursion ------------------------------
(***************************************************************************)
(* Induction over the natural numbers, and functions defined by recursion  *)
(* over them, in a form in which nothing but sets and functions is passed: *)
(* a property is the set of the numbers that have it, a step of a          *)
(* recursion a function from a number and a value to a value.              *)
(***************************************************************************)
EXTENDS Integers, WellFoundedInduction, TLAPS

\* What holds of 0 and passes from each number to the next holds of all.
LEMMA SetInduction ==
  ASSUME NEW S, 0 \in S, \A n \in Nat : n \in S => n + 1 \in S
  PROVE  Nat \subseteq S
<1> DEFINE Less == {p \in Nat \X Nat : p[1] < p[2]}
<1>1. IsWellFoundedOn(Less, Nat)
  BY NatLessThanWellFounded DEF OpToRel
<1>2. \A x, y \in Nat : x < y => <<x, y>> \in Less
  OBVIOUS
<1> HIDE DEF Less
<1>3. SUFFICES ASSUME Nat \ S # {} PROVE FALSE
  OBVIOUS
<1>4. PICK m \in Nat \ S : \A n \in Nat \ S : <<n, m>> \notin Less
  BY <1>1, <1>3, WFMin
<1>5. m # 0 /\ m - 1 \in Nat /\ m - 1 < m
  BY <1>4
<1>6. m - 1 \in S
  BY <1>2, <1>4, <1>5
<1>7. (m - 1) + 1 = m
  BY <1>4
<1> QED
  BY <1>4, <1>5, <1>6, <1>7

\* The function that is base at 0 and made from its value at n by a step at n + 1.
Recurs(f, N, base, step) ==
  f[0] = base /\ \A n \in N : n + 1 \in N => f[n + 1] = step[<<n + 1, f[n]>>]

LEMMA RecursionUnique ==
  ASSUME NEW base, NEW step, NEW m \in Nat, NEW n \in Nat, NEW f, NEW g,
         Recurs(f, 0..m, base, step), Recurs(g, 0..n, base, step), NEW i \in Nat,
         i <= m, i <= n
  PROVE  f[i] = g[i]
<1> DEFINE S == {j \in Nat : j <= m /\ j <= n => f[j] = g[j]}
<1>1. 0 \in S
  BY DEF Recurs
<1>2. ASSUME NEW j \in Nat, j \in S PROVE j + 1 \in S
  <2>1. SUFFICES ASSUME j + 1 <= m, j + 1 <= n PROVE f[j + 1] = g[j + 1]
    OBVIOUS
  <2>2. f[j] = g[j] /\ j \in 0..m /\ j + 1 \in 0..m /\ j \in 0..n /\ j + 1 \in 0..n
    BY <1>2, <2>1
  <2> QED
    BY <2>2 DEF Recurs
<1> HIDE DEF S
<1>3. Nat \subseteq S
  BY <1>1, <1>2, SetInduction
<1> QED
  BY <1>3 DEF S

LEMMA RecursionUpTo ==
  ASSUME NEW V, NEW base \in V, NEW step \in [Nat \X V -> V], NEW n \in Nat
  PROVE  \E f \in [0..n -> V] : Recurs(f, 0..n, base, step)
<1> DEFINE S == {m \in Nat : \E f \in [0..m -> V] : Recurs(f, 0..m, base, step)}
<1>1. 0 \in S
  <2>1. [i \in 0..0 |-> base] \in [0..0 -> V] /\ Recurs([i \in 0..0 |-> base], 0..0, base, step)
    BY DEF Recurs
  <2> QED
    BY <2>1
<1>2. ASSUME NEW m \in Nat, m \in S PROVE m + 1 \in S
  <2>1. PICK f \in [0..m -> V] : Recurs(f, 0..m, base, step)
    BY <1>2
  <2> DEFINE next == step[<<m + 1, f[m]>>]
             g == [i \in 0..(m + 1) |-> IF i = m + 1 THEN next ELSE f[i]]
  <2>2. f[m] \in V /\ <<m + 1, f[m]>> \in Nat \X V
    OBVIOUS
  <2>3. next \in V
    BY <2>2
  <2> HIDE DEF next
  <2>4. \A i \in 0..m : g[i] = f[i]
    OBVIOUS
  <2>5. g[m + 1] = next /\ g \in [0..(m + 1) -> V]
    BY <2>3
  <2> HIDE DEF g
  <2>6. ASSUME NEW i \in 0..(m + 1), i + 1 \in 0..(m + 1) PROVE g[i + 1] = step[<<i + 1, g[i]>>]
    <3>1. CASE i = m
      <4>1. g[i] = f[m] /\ g[i + 1] = next
        BY <2>4, <2>5, <3>1
      <4> QED
        BY <3>1, <4>1 DEF next
    <3>2. CASE i # m
      <4>1. i \in 0..m /\ i + 1 \in 0..m
        BY <2>6, <3>2
      <4> QED
        BY <2>1, <2>4, <4>1 DEF Recurs
    <3> QED
      BY <3>1, <3>2
  <2>7. g[0] = base
    BY <2>1, <2>4 DEF Recurs
  <2> QED
    BY <2>5, <2>6, <2>7 DEF Recurs
<1> HIDE DEF S
<1>3. n \in S
  BY <1>1, <1>2, SetInduction
<1> QED
  BY <1>3 DEF S

\* A recursion defines a function.
LEMMA RecursionDefines ==
  ASSUME NEW V, NEW base \in V, NEW step \in [Nat \X V -> V]
  PROVE  \E f \in [Nat -> V] : Recurs(f, Nat, base, step)
<1> DEFINE upTo(n) == CHOOSE f \in [0..n -> V] : Recurs(f, 0..n, base, step)
           F == [n \in Nat |-> upTo(n)[n]]
<1>1. ASSUME NEW n \in Nat PROVE upTo(n) \in [0..n -> V] /\ Recurs(upTo(n), 0..n, base, step)
  BY RecursionUpTo
<1> HIDE DEF upTo
<1>2. \A n \in Nat : F[n] = upTo(n)[n] /\ n \in 0..n
  OBVIOUS
<1>3. F \in [Nat -> V]
  BY <1>1, <1>2
<1>4. F[0] = base
  BY <1>1, <1>2 DEF Recurs
<1>5. ASSUME NEW n \in Nat PROVE F[n + 1] = step[<<n + 1, F[n]>>]
  <2>1. upTo(n + 1)[n] = upTo(n)[n]
    BY <1>1, RecursionUnique
  <2>2. upTo(n + 1)[n + 1] = step[<<n + 1, upTo(n + 1)[n]>>]
    <3>1. n \in 0..(n + 1) /\ n + 1 \in 0..(n + 1) /\ n + 1 \in Nat
      OBVIOUS
    <3> QED
      BY <1>1, <3>1 DEF Recurs
  <2>3. F[n + 1] = upTo(n + 1)[n + 1] /\ F[n] = upTo(n)[n]
    OBVIOUS
  <2> QED
    BY <2>1, <2>2, <2>3
<1> HIDE DEF F
<1> QED
  BY <1>3, <1>4, <1>5 DEF Recurs
==============================================================================
