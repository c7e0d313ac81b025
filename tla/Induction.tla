------------------------------ MODULE Induction ------------------------------
(***************************************************************************)
(* Induction over the naturals for sets instead of predicates: a proof     *)
(* applies it to the set of the numbers for which its claim holds.  The    *)
(* recursive functions of the modules (loops of the code, in most cases)   *)
(* are reasoned about with these facts.                                    *)
(***************************************************************************)
EXTENDS WellFoundedInduction, TLAPS

\* A nonempty set of naturals has a least element (loops that stop at the first of something)
LEMMA LeastNatural ==
    ASSUME NEW T \in SUBSET Nat, T # {}
    PROVE  \E n \in T : \A m \in T : n <= m
<1> DEFINE R == {p \in Nat \X Nat : p[1] < p[2]}
<1>1. IsWellFoundedOn(R, Nat)
  BY NatLessThanWellFounded DEF OpToRel
<1>2. \E x \in T : \A y \in T : ~(<<y, x>> \in R)
  <2> HIDE DEF R
  <2> QED BY <1>1, WFMin
<1>3. PICK x \in T : \A y \in T : ~(<<y, x>> \in R)
  BY <1>2
<1>4. ASSUME NEW y \in T PROVE x <= y
  <2>1. <<y, x>> \in Nat \X Nat /\ <<y, x>>[1] = y /\ <<y, x>>[2] = x
    OBVIOUS
  <2>2. ~(y < x)
    BY <1>3, <2>1
  <2> QED BY <2>2
<1> QED BY <1>4

\* Induction up to N (the turns of a loop that is known to make N of them)
LEMMA UpTo ==
    ASSUME NEW N \in Nat, NEW S, 0 \in S, \A n \in 0..N - 1 : n \in S => n + 1 \in S
    PROVE  \A n \in 0..N : n \in S
<1> SUFFICES ASSUME NEW k \in 0..N, k \notin S PROVE FALSE
  OBVIOUS
<1> DEFINE T == {n \in 0..N : n \notin S}
<1>1. T \in SUBSET Nat /\ T # {}
  OBVIOUS
<1>2. PICK n \in T : \A m \in T : n <= m
  <2> HIDE DEF T
  <2> QED BY <1>1, LeastNatural
<1>3. n # 0 /\ n - 1 \in 0..N - 1 /\ n - 1 \notin T
  BY <1>2
<1> QED BY <1>2, <1>3

\* Course-of-values induction (recursion to any smaller number)
LEMMA FromSmaller ==
    ASSUME NEW S, \A n \in Nat : (\A m \in 0..n - 1 : m \in S) => n \in S
    PROVE  \A n \in Nat : n \in S
<1> SUFFICES ASSUME NEW k \in Nat, k \notin S PROVE FALSE
  OBVIOUS
<1> DEFINE T == {n \in Nat : n \notin S}
<1>1. T \in SUBSET Nat /\ T # {}
  OBVIOUS
<1>2. PICK n \in T : \A m \in T : n <= m
  <2> HIDE DEF T
  <2> QED BY <1>1, LeastNatural
<1>3. \A m \in 0..n - 1 : m \in S
  BY <1>2
<1> QED BY <1>2, <1>3

\* N turns of a loop whose k-th turn takes x to Step[<<x, k>>]
Turns(N, X, a, Step) == {g \in [0..N -> X] : g[0] = a /\ \A k \in 1..N : g[k] = Step[<<g[k - 1], k>>]}

\* N turns of a loop whose k-th turn takes x to Step[<<x, k>>] exist, as a function of the turn
LEMMA TurnsExist ==
    ASSUME NEW N \in Nat, NEW X, NEW a \in X, NEW Step \in [X \X (1..N) -> X]
    PROVE  \E g : g \in Turns(N, X, a, Step)
<1> DEFINE Is(g, n) == g \in [0..n -> X] /\ g[0] = a /\ \A k \in 1..n : g[k] = Step[<<g[k - 1], k>>]
           S == {n \in 0..N : \E g : Is(g, n)}
<1>1. 0 \in S
  <2>1. Is([k \in 0..0 |-> a], 0)
    OBVIOUS
  <2>2. \E g : Is(g, 0)
    <3> HIDE DEF Is
    <3> QED BY <2>1
  <2> QED BY <2>2
<1>2. ASSUME NEW n \in 0..N - 1, n \in S PROVE n + 1 \in S
  <2>1. PICK g : Is(g, n)
    BY <1>2
  <2>2. <<g[n], n + 1>> \in X \X (1..N)
    BY <2>1
  <2> DEFINE h == [k \in 0..n + 1 |-> IF k = n + 1 THEN Step[<<g[n], n + 1>>] ELSE g[k]]
  <2>3. h \in [0..n + 1 -> X]
    BY <2>1, <2>2
  <2>4. h[0] = a /\ \A k \in 1..n + 1 : h[k] = Step[<<h[k - 1], k>>]
    <3>1. \A k \in 0..n : h[k] = g[k]
      OBVIOUS
    <3>2. h[n + 1] = Step[<<h[n], n + 1>>]
      <4>1. h[n + 1] = Step[<<g[n], n + 1>>] /\ n \in 0..n
        OBVIOUS
      <4> QED BY <3>1, <4>1
    <3>3. ASSUME NEW k \in 1..n PROVE h[k] = Step[<<h[k - 1], k>>]
      <4>1. k \in 0..n /\ k - 1 \in 0..n
        OBVIOUS
      <4> HIDE DEF h
      <4> QED BY <2>1, <3>1, <4>1
    <3>4. \A k \in 1..n + 1 : k = n + 1 \/ k \in 1..n
      OBVIOUS
    <3>5. h[n + 1] = Step[<<h[n + 1 - 1], n + 1>>]
      <4>1. n + 1 - 1 = n
        OBVIOUS
      <4> HIDE DEF h
      <4> QED BY <3>2, <4>1
    <3>6. h[0] = a
      <4>1. 0 \in 0..n
        OBVIOUS
      <4> HIDE DEF h
      <4> QED BY <2>1, <3>1, <4>1
    <3>7. \A k \in 1..n + 1 : h[k] = Step[<<h[k - 1], k>>]
      <4> HIDE DEF h
      <4> QED BY <3>3, <3>4, <3>5
    <3> QED BY <3>6, <3>7
  <2> HIDE DEF h
  <2>5. Is(h, n + 1)
    BY <2>3, <2>4
  <2> QED BY <2>5
<1>3. \A n \in 0..N : n \in S
  <2> HIDE DEF S
  <2> QED BY <1>1, <1>2, UpTo
<1>4. \E g : Is(g, N)
  <2>1. N \in 0..N
    OBVIOUS
  <2>2. N \in S
    BY <1>3, <2>1
  <2> HIDE DEF Is
  <2> QED BY <2>2
<1>5. PICK g : Is(g, N)
  <2> HIDE DEF Is
  <2> QED BY <1>4
<1> QED BY <1>5 DEF Turns

\* Turns that start alike and go on alike, as long as they are
Alike(N, p, g) ==
    /\ p = [k \in 0..N |-> p[k]] /\ g = [k \in 0..N |-> g[k]] /\ p[0] = g[0]
    /\ \A k \in 1..N : p[k - 1] = g[k - 1] => p[k] = g[k]

\* They are the same: what a recursive function computes is what the turns built above compute
LEMMA SameTurns ==
    ASSUME NEW N \in Nat, NEW p, NEW g, Alike(N, p, g)
    PROVE  p = g
<1>0. /\ p = [k \in 0..N |-> p[k]] /\ g = [k \in 0..N |-> g[k]] /\ p[0] = g[0]
      /\ \A k \in 1..N : p[k - 1] = g[k - 1] => p[k] = g[k]
  BY DEF Alike
<1> DEFINE S == {k \in 0..N : p[k] = g[k]}
<1>1. 0 \in S
  BY <1>0
<1>2. \A k \in 0..N - 1 : k \in S => k + 1 \in S
  <2> SUFFICES ASSUME NEW k \in 0..N - 1, k \in S PROVE k + 1 \in S
    OBVIOUS
  <2>1. k + 1 \in 1..N /\ k + 1 \in 0..N /\ (k + 1) - 1 = k
    OBVIOUS
  <2> QED BY <1>0, <2>1
<1>3. \A k \in 0..N : k \in S
  <2> HIDE DEF S
  <2> QED BY <1>1, <1>2, UpTo
<1> QED BY <1>0, <1>3
=============================================================================
