----------------------------- MODULE Recursion -----------------------------
(***************************************************************************)
(* Induction and recursion over the naturals and over sequences, stated    *)
(* with sets and functions for parameters instead of operators, so that    *)
(* the provers can instantiate them.                                       *)
(***************************************************************************)
EXTENDS Integers, Sequences, SequenceTheorems, WellFoundedInduction, TLAPS

LEMMA NatClosed == \A x, y \in Nat : x + y \in Nat /\ x * y \in Nat
  OBVIOUS

(* A set of naturals that is not empty has a least element.                *)
LEMMA Least ==
    ASSUME NEW S, S \subseteq Nat, S # {}
    PROVE  \E n \in S : \A m \in S : n <= m
  <1> DEFINE R == OpToRel(<, Nat)
  <1>1. PICK n \in S : \A m \in S : ~(<<m, n>> \in R)
    BY NatLessThanWellFounded, WFMin
  <1>2. \A m \in S : ~(m < n) BY <1>1 DEF OpToRel
  <1> QED BY <1>2

(* A set with 0 and with the successor of each natural in it has them all. *)
LEMMA Induction ==
    ASSUME NEW S, 0 \in S, \A n \in Nat : n \in S => n + 1 \in S
    PROVE  Nat \subseteq S
  <1> SUFFICES ASSUME NEW n \in Nat, n \notin S PROVE FALSE OBVIOUS
  <1> DEFINE T == {k \in Nat : k \notin S}
  <1>1. T \subseteq Nat /\ T # {} OBVIOUS
  <1> HIDE DEF T
  <1>2. PICK m \in T : \A k \in T : m <= k BY <1>1, Least
  <1> QED BY <1>2 DEF T

(* The same when a natural is in the set as soon as all smaller ones are.   *)
LEMMA StrongInduction ==
    ASSUME NEW S, \A n \in Nat : (\A m \in Nat : m < n => m \in S) => n \in S
    PROVE  Nat \subseteq S
  <1> SUFFICES ASSUME NEW n \in Nat, n \notin S PROVE FALSE OBVIOUS
  <1> DEFINE T == {k \in Nat : k \notin S}
  <1>1. T \subseteq Nat /\ T # {} OBVIOUS
  <1> HIDE DEF T
  <1>2. PICK m \in T : \A k \in T : m <= k BY <1>1, Least
  <1> QED BY <1>2 DEF T

(* A set with the empty sequence and with every extension of a sequence in *)
(* it has all sequences.                                                   *)
LEMMA SeqInduction ==
    ASSUME NEW T, NEW X, <<>> \in X,
           \A s \in Seq(T), c \in T : s \in X => Append(s, c) \in X
    PROVE  Seq(T) \subseteq X
  <1> DEFINE S == {n \in Nat : \A s \in Seq(T) : Len(s) = n => s \in X}
  <1>1. 0 \in S
    <2>1. ASSUME NEW s \in Seq(T), Len(s) = 0 PROVE s = <<>>
      BY <2>1, EmptySeq
    <2> QED BY <2>1
  <1>2. ASSUME NEW n \in Nat, n \in S PROVE n + 1 \in S
    <2> SUFFICES ASSUME NEW s \in Seq(T), Len(s) = n + 1 PROVE s \in X OBVIOUS
    <2> DEFINE front == SubSeq(s, 1, n)
    <2>1. front \in Seq(T) /\ Len(front) = n /\ s = Append(front, s[n + 1]) OBVIOUS
    <2>2. s[n + 1] \in T OBVIOUS
    <2> HIDE DEF front
    <2> QED BY <1>2, <2>1, <2>2
  <1> HIDE DEF S
  <1>3. Nat \subseteq S BY <1>1, <1>2, Induction
  <1> QED BY <1>3 DEF S

(* What a function f gives for n by the recursion: a base case, or a step   *)
(* from the value at a smaller argument h[n].                              *)
Rhs(f, n, stop, base, h, step) ==
    IF n \in stop THEN base[n] ELSE step[n][f[h[n]]]

(* A function defined up to k that obeys the recursion.                    *)
Approx(f, k, T, stop, base, h, step) ==
    /\ f \in [0..k -> T]
    /\ \A n \in 0..k : f[n] = Rhs(f, n, stop, base, h, step)

(* The base cases and the steps stay in T, and the argument decreases.     *)
Recurses(T, stop, base, h, step) ==
    /\ 0 \in stop
    /\ \A n \in Nat : n \in stop => base[n] \in T
    /\ h \in [Nat -> Nat]
    /\ \A n \in Nat : n \notin stop => h[n] < n
    /\ step \in [Nat -> [T -> T]]

(* There is a function on the naturals that obeys the recursion: the       *)
(* approximations exist, agree with each other, and give its values.       *)
LEMMA RecursionTheorem ==
    ASSUME NEW T, NEW stop, NEW base, NEW h, NEW step,
           Recurses(T, stop, base, h, step)
    PROVE  \E f \in [Nat -> T] :
              \A n \in Nat : f[n] = Rhs(f, n, stop, base, h, step)
  <1> USE DEF Recurses
  <1> DEFINE App(f, k) == Approx(f, k, T, stop, base, h, step)
             E == {k \in Nat : \E f : App(f, k)}
  <1>1. Nat \subseteq E
    <2>1. 0 \in E
      <3> DEFINE f == [n \in 0..0 |-> base[0]]
      <3>1. f[0] = base[0] /\ f \in [0..0 -> T] OBVIOUS
      <3> HIDE DEF f
      <3>2. App(f, 0) BY <3>1 DEF Approx, Rhs
      <3> HIDE DEF App
      <3> QED BY <3>2
    <2>2. ASSUME NEW k \in Nat, k \in E PROVE k + 1 \in E
      <3>1. PICK f : App(f, k) BY <2>2
      <3> DEFINE new == Rhs(f, k + 1, stop, base, h, step)
                 g == [n \in 0..(k + 1) |-> IF n = k + 1 THEN new ELSE f[n]]
      <3>2. new \in T
        <4>1. CASE k + 1 \in stop BY <4>1 DEF Rhs
        <4>2. CASE k + 1 \notin stop
          <5>1. h[k + 1] \in 0..k BY <4>2
          <5>2. f[h[k + 1]] \in T BY <3>1, <5>1 DEF Approx
          <5> QED BY <4>2, <5>2 DEF Rhs
        <4> QED BY <4>1, <4>2
      <3> HIDE DEF new
      <3>3. g \in [0..(k + 1) -> T] BY <3>1, <3>2 DEF Approx
      <3>4. g[k + 1] = new /\ \A n \in 0..k : g[n] = f[n] OBVIOUS
      <3> HIDE DEF g
      <3>5. ASSUME NEW n \in 0..(k + 1) PROVE g[n] = Rhs(g, n, stop, base, h, step)
        <4>1. n \notin stop => h[n] \in 0..k OBVIOUS
        <4>2. n \notin stop => g[h[n]] = f[h[n]] BY <3>4, <4>1
        <4>3. Rhs(g, n, stop, base, h, step) = Rhs(f, n, stop, base, h, step)
          BY <4>2 DEF Rhs
        <4>4. CASE n = k + 1 BY <3>4, <4>3, <4>4 DEF new
        <4>5. CASE n \in 0..k BY <3>1, <3>4, <4>3, <4>5 DEF Approx
        <4> QED BY <4>4, <4>5
      <3>6. App(g, k + 1) BY <3>3, <3>5 DEF Approx
      <3> HIDE DEF App
      <3> QED BY <3>6
    <2> HIDE DEF E
    <2> QED BY <2>1, <2>2, Induction
  <1>2. ASSUME NEW k \in Nat, NEW l \in Nat, NEW f, NEW g, App(f, k), App(g, l)
        PROVE  \A n \in Nat : n <= k /\ n <= l => f[n] = g[n]
    <2> DEFINE S == {n \in Nat : n <= k /\ n <= l => f[n] = g[n]}
    <2>1. ASSUME NEW n \in Nat, \A m \in Nat : m < n => m \in S PROVE n \in S
      <3> SUFFICES ASSUME n <= k, n <= l PROVE f[n] = g[n] OBVIOUS
      <3>1. f[n] = Rhs(f, n, stop, base, h, step) BY <1>2 DEF Approx
      <3>2. g[n] = Rhs(g, n, stop, base, h, step) BY <1>2 DEF Approx
      <3>3. n \notin stop => f[h[n]] = g[h[n]] BY <2>1
      <3> QED BY <3>1, <3>2, <3>3 DEF Rhs
    <2> HIDE DEF S
    <2>2. Nat \subseteq S BY <2>1, StrongInduction
    <2> QED BY <2>2 DEF S
  <1> DEFINE A == [k \in Nat |-> CHOOSE f : App(f, k)]
             F == [n \in Nat |-> A[n][n]]
  <1>3. ASSUME NEW k \in Nat PROVE App(A[k], k)
    <2>1. \E f : App(f, k) BY <1>1
    <2>2. A[k] = CHOOSE f : App(f, k) OBVIOUS
    <2> HIDE DEF App, A
    <2> QED BY <2>1, <2>2
  <1> HIDE DEF A, E
  <1>4. F \in [Nat -> T] BY <1>3 DEF Approx
  <1>5. \A n \in Nat : F[n] = A[n][n] OBVIOUS
  <1> HIDE DEF F
  <1>6. ASSUME NEW n \in Nat PROVE F[n] = Rhs(F, n, stop, base, h, step)
    <2>1. F[n] = Rhs(A[n], n, stop, base, h, step) BY <1>3, <1>5 DEF Approx
    <2>2. n \notin stop => A[n][h[n]] = A[h[n]][h[n]]
      <3> HIDE DEF App
      <3> QED BY <1>2, <1>3
    <2> QED BY <1>5, <2>1, <2>2 DEF Rhs
  <1> QED BY <1>4, <1>6

(* A number that grows by a factor and a summand at each step.             *)
Linear(f, c, a, d) ==
    \A n \in Nat : f[n] = IF n = 0 THEN c ELSE f[n - 1] * a + d[n]

LEMMA LinearRecursion ==
    ASSUME NEW c \in Nat, NEW a \in Nat, NEW d \in [Nat -> Nat]
    PROVE  \E f \in [Nat -> Nat] : Linear(f, c, a, d)
  <1> DEFINE T == Nat
             stop == {0}
             base == [n \in {0} |-> c]
             h == [n \in Nat |-> IF n = 0 THEN 0 ELSE n - 1]
             step == [n \in Nat |-> [x \in T |-> x * a + d[n]]]
  <1>1. Recurses(T, stop, base, h, step)
    <2>1. ASSUME NEW n \in Nat, NEW x \in T PROVE x * a + d[n] \in T
      <3>1. x * a \in Nat /\ d[n] \in Nat OBVIOUS
      <3> QED BY <3>1
    <2>2. step \in [Nat -> [T -> T]]
      <3> HIDE DEF T
      <3> QED BY <2>1
    <2>3. h \in [Nat -> Nat] /\ \A n \in Nat : n \notin stop => h[n] < n OBVIOUS
    <2>4. base[0] = c OBVIOUS
    <2> HIDE DEF step, h, base
    <2> QED BY <2>2, <2>3, <2>4 DEF Recurses
  <1>2. PICK f \in [Nat -> T] : \A n \in Nat : f[n] = Rhs(f, n, stop, base, h, step)
    <2> HIDE DEF T, stop, base, h, step
    <2> QED BY <1>1, RecursionTheorem
  <1>3. ASSUME NEW n \in Nat PROVE f[n] = IF n = 0 THEN c ELSE f[n - 1] * a + d[n]
    <2>1. f[n] = IF n \in stop THEN base[n] ELSE step[n][f[h[n]]] BY <1>2 DEF Rhs
    <2>2. \A x \in T : step[n][x] = x * a + d[n] OBVIOUS
    <2>3. n # 0 => h[n] = n - 1 /\ f[h[n]] \in T OBVIOUS
    <2>4. base[0] = c OBVIOUS
    <2> HIDE DEF step, h, base, T
    <2> QED BY <2>1, <2>2, <2>3, <2>4
  <1> QED BY <1>3 DEF Linear
=============================================================================
