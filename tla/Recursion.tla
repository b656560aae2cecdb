----------------------------- MODULE Recursion ------------------------------
(***************************************************************************)
(* Induction over the natural numbers, and what it says of functions that  *)
(* a recursion from 0 to some number defines: that there is one, and that  *)
(* whatever the recursion defines is of the type it steps in.  The         *)
(* library's theorems about these take an operator; here a set and a       *)
(* function stand for it.                                                  *)
(***************************************************************************)
EXTENDS Integers, WellFoundedInduction, TLAPS

(* Induction over the natural numbers, for a set of them.                  *)
LEMMA NatSetInduction ==
  ASSUME NEW T, 0 \in T, \A m \in Nat : m \in T => m + 1 \in T
  PROVE  Nat \subseteq T
<1> DEFINE R == {p \in Nat \X Nat : p[1] < p[2]}
<1>1. IsWellFoundedOn(R, Nat)
  BY NatLessThanWellFounded DEF OpToRel
<1> SUFFICES ASSUME Nat \ T # {} PROVE FALSE
  OBVIOUS
<1>2. PICK m \in Nat \ T : \A l \in Nat \ T : ~ (<<l, m>> \in R)
  <2> HIDE DEF R
  <2> QED BY <1>1, WFMin
<1>3. m # 0 /\ m - 1 \in Nat /\ <<m - 1, m>> \in R
  OBVIOUS
<1>4. m - 1 \in T
  BY <1>2, <1>3
<1> QED
  BY <1>3, <1>4

(* The functions on 0 .. L that begin with x and go on as step says.       *)
Steps(S, L) == [1 .. L -> [S -> S]]
Recursive(S, x, L, step) ==
  {g \in [0 .. L -> S] : g[0] = x /\ \A i \in 1 .. L : g[i] = step[i][g[i - 1]]}

(* There is one.                                                           *)
LEMMA RecursionExists ==
  ASSUME NEW S, NEW x \in S, NEW L \in Nat, NEW step \in Steps(S, L)
  PROVE  Recursive(S, x, L, step) # {}
<1> USE DEF Steps
<1> DEFINE Ok(m) == \E g \in [0 .. m -> S] : /\ g[0] = x
                                             /\ \A i \in 1 .. m : g[i] = step[i][g[i - 1]]
           T == {m \in Nat : m <= L => Ok(m)}
<1>1. 0 \in T
  <2> DEFINE h == [i \in 0 .. 0 |-> x]
  <2>1. h \in [0 .. 0 -> S] /\ h[0] = x /\ 1 .. 0 = {}
    OBVIOUS
  <2>2. Ok(0)
    BY <2>1
  <2> HIDE DEF Ok
  <2> QED
    BY <2>2
<1>2. ASSUME NEW m \in Nat, m \in T, m + 1 <= L PROVE Ok(m + 1)
  <2>1. PICK g \in [0 .. m -> S] : /\ g[0] = x
                                   /\ \A i \in 1 .. m : g[i] = step[i][g[i - 1]]
    BY <1>2
  <2> DEFINE h == [i \in 0 .. m + 1 |-> IF i = m + 1 THEN step[m + 1][g[m]] ELSE g[i]]
  <2>3. step[m + 1][g[m]] \in S
    BY <1>2
  <2>4. h \in [0 .. m + 1 -> S] /\ h[0] = x
    BY <2>1, <2>3
  <2>5. ASSUME NEW i \in 1 .. m + 1 PROVE h[i] = step[i][h[i - 1]]
    <3>1. CASE i = m + 1
      <4>1. h[i - 1] = g[m]
        BY <3>1
      <4> QED BY <3>1, <4>1
    <3>2. CASE i # m + 1
      <4>1. i \in 1 .. m /\ h[i] = g[i] /\ h[i - 1] = g[i - 1]
        BY <3>2
      <4> QED BY <2>1, <4>1
    <3> QED BY <3>1, <3>2
  <2> QED
    BY <2>4, <2>5
<1>3. Nat \subseteq T
  <2>1. \A m \in Nat : m \in T => m + 1 \in T
    <3> HIDE DEF Ok
    <3> QED BY <1>2
  <2> HIDE DEF T
  <2> QED BY <1>1, <2>1, NatSetInduction
<1> QED
  BY <1>3 DEF Recursive

(* What goes on like that stays in the set.                                *)
GoesOn(f, S, x, L, step) ==
  /\ f = [i \in 0 .. L |-> f[i]] /\ f[0] = x
  /\ \A i \in 1 .. L : f[i - 1] \in S => f[i] = step[i][f[i - 1]]

LEMMA RecursionStays ==
  ASSUME NEW S, NEW x \in S, NEW L \in Nat, NEW step \in Steps(S, L),
         NEW f, GoesOn(f, S, x, L, step)
  PROVE  f \in [0 .. L -> S]
<1> DEFINE T == {m \in Nat : m <= L => f[m] \in S}
<1>1. 0 \in T
  BY DEF GoesOn
<1>2. ASSUME NEW m \in Nat, m \in T, m + 1 <= L PROVE f[m + 1] \in S
  <2>1. f[m] \in S /\ m + 1 \in 1 .. L /\ (m + 1) - 1 = m
    BY <1>2
  <2>2. f[m + 1] = step[m + 1][f[m]]
    BY <2>1 DEF GoesOn
  <2> QED
    BY <2>1, <2>2 DEF Steps
<1>3. Nat \subseteq T
  <2>1. \A m \in Nat : m \in T => m + 1 \in T
    BY <1>2
  <2> HIDE DEF T
  <2> QED BY <1>1, <2>1, NatSetInduction
<1>4. \A i \in 0 .. L : f[i] \in S
  BY <1>3
<1> QED
  BY <1>4 DEF GoesOn

(* Two that begin and go on alike are alike.                               *)
LEMMA RecursionAgrees ==
  ASSUME NEW S, NEW x, NEW L \in Nat, NEW K \in 0 .. L, NEW step, NEW other,
         \A i \in 1 .. K : other[i] = step[i],
         NEW f \in Recursive(S, x, L, step), NEW g \in Recursive(S, x, K, other)
  PROVE  \A i \in 0 .. K : f[i] = g[i]
<1> DEFINE T == {m \in Nat : m <= K => f[m] = g[m]}
<1>1. 0 \in T
  BY DEF Recursive
<1>2. ASSUME NEW m \in Nat, m \in T, m + 1 <= K PROVE f[m + 1] = g[m + 1]
  <2>1. m + 1 \in 1 .. K /\ m + 1 \in 1 .. L /\ (m + 1) - 1 = m /\ f[m] = g[m]
    BY <1>2
  <2>2. f[m + 1] = step[m + 1][f[m]] /\ g[m + 1] = other[m + 1][g[m]]
    BY <2>1 DEF Recursive
  <2> QED
    BY <2>1, <2>2
<1>3. Nat \subseteq T
  <2>1. \A m \in Nat : m \in T => m + 1 \in T
    BY <1>2
  <2> HIDE DEF T
  <2> QED BY <1>1, <2>1, NatSetInduction
<1> QED
  BY <1>3

-----------------------------------------------------------------------------
(* Some numbers up to n have a least and a greatest among them.            *)
LEMMA Extremes ==
  ASSUME NEW n \in Nat, NEW S, S \subseteq 0 .. n, S # {}
  PROVE  \E a, b \in S : \A y \in S : a <= y /\ y <= b
<1> DEFINE R == {p \in Nat \X Nat : p[1] < p[2]}
           D == {n - x : x \in S}
<1>1. IsWellFoundedOn(R, Nat)
  BY NatLessThanWellFounded DEF OpToRel
<1>2. S \subseteq Nat /\ D \subseteq Nat /\ D # {}
  OBVIOUS
<1>3. PICK a \in S : \A y \in S : ~ (<<y, a>> \in R)
  <2> HIDE DEF R
  <2> QED BY <1>1, <1>2, WFMin
<1>4. PICK d \in D : \A y \in D : ~ (<<y, d>> \in R)
  <2> HIDE DEF R, D
  <2> QED BY <1>1, <1>2, WFMin
<1>5. \A y \in S : a <= y
  <2> SUFFICES ASSUME NEW y \in S, ~ (a <= y) PROVE FALSE
    OBVIOUS
  <2>1. y \in Nat /\ a \in Nat /\ y < a
    BY <1>2
  <2> QED
    BY <2>1, <1>3
<1>6. PICK b \in S : d = n - b
  OBVIOUS
<1>7. \A y \in S : y <= b
  <2> SUFFICES ASSUME NEW y \in S, ~ (y <= b) PROVE FALSE
    OBVIOUS
  <2>0. y \in 0 .. n /\ b \in 0 .. n /\ b < y
    <3>1. y \in 0 .. n /\ b \in 0 .. n
      OBVIOUS
    <3> HIDE DEF R, D
    <3> QED BY <3>1
  <2>1. n - y \in D /\ n - y \in Nat /\ d \in Nat /\ n - y < d
    BY <2>0, <1>6
  <2> QED
    BY <2>1, <1>4
<1> QED
  BY <1>5, <1>7

(* What holds of a pair of numbers if it does of all with a lesser         *)
(* difference holds of all pairs.                                          *)
LEMMA PairInduction ==
  ASSUME NEW n \in Nat, NEW G,
         \A p \in (1 .. n + 1) \X (0 .. n) :
           (\A q \in (1 .. n + 1) \X (0 .. n) : q[2] - q[1] < p[2] - p[1] => q \in G) => p \in G
  PROVE  (1 .. n + 1) \X (0 .. n) \subseteq G
<1> DEFINE P == (1 .. n + 1) \X (0 .. n)
           T == {m \in Nat : \A p \in P : p[2] - p[1] < m - n - 1 => p \in G}
<1>1. 0 \in T
  <2>1. \A p \in P : ~ (p[2] - p[1] < 0 - n - 1)
    OBVIOUS
  <2> QED BY <2>1
<1>2. ASSUME NEW m \in Nat, m \in T PROVE m + 1 \in T
  <2> SUFFICES ASSUME NEW p \in P, p[2] - p[1] < (m + 1) - n - 1 PROVE p \in G
    OBVIOUS
  <2>1. p[1] \in Int /\ p[2] \in Int
    OBVIOUS
  <2>2. ASSUME NEW q \in P, q[2] - q[1] < p[2] - p[1] PROVE q \in G
    <3>1. q[1] \in Int /\ q[2] \in Int
      OBVIOUS
    <3>2. q[2] - q[1] < m - n - 1
      BY <2>1, <2>2, <3>1
    <3> QED BY <1>2, <3>2
  <2> QED BY <2>2
<1>3. Nat \subseteq T
  <2> HIDE DEF T
  <2> QED BY <1>1, <1>2, NatSetInduction
<1>4. ASSUME NEW p \in P PROVE p \in G
  <2>1. p[1] \in 1 .. n + 1 /\ p[2] \in 0 .. n
    OBVIOUS
  <2>2. p[2] - p[1] < (2 * n + 2) - n - 1 /\ 2 * n + 2 \in Nat
    BY <2>1
  <2>3. 2 * n + 2 \in T
    <3> HIDE DEF T
    <3> QED BY <1>3, <2>2
  <2> QED BY <2>2, <2>3
<1> QED
  BY <1>4

=============================================================================
