--------------------------- MODULE IterationProofs ---------------------------
(***************************************************************************)
(* What a proof about a loop needs to know of Iterate.                      *)
(***************************************************************************)
EXTENDS Iteration, Integers, WellFoundedInduction, TLAPS

\* A set of natural numbers has a least one.
LEMMA NatMinimum ==
  ASSUME NEW S \in SUBSET Nat, S # {}
  PROVE  \E m \in S : \A n \in S : m <= n
<1>1. PICK m \in S : \A n \in S : ~(<<n, m>> \in OpToRel(<, Nat))
  BY NatLessThanWellFounded, WFMin
<1>2. \A n \in S : ~(n < m)
  BY <1>1 DEF OpToRel
<1>3. QED
  BY <1>2

\* Induction over the naturals, in terms of a set.
LEMMA NatSetInduction ==
  ASSUME NEW S \in SUBSET Nat, 0 \in S, \A n \in S : n + 1 \in S
  PROVE  S = Nat
<1>1. SUFFICES ASSUME Nat \ S # {} PROVE FALSE
  OBVIOUS
<1>2. PICK m \in Nat \ S : \A n \in Nat \ S : m <= n
  BY <1>1, NatMinimum
<1>3. m # 0 /\ m - 1 \in Nat /\ ~(m <= m - 1)
  OBVIOUS
<1>4. m - 1 \in S
  BY <1>2, <1>3
<1>5. QED
  BY <1>3, <1>4

\* The recursion that defines Iterate has a solution.
LEMMA IterateExists ==
  ASSUME NEW f, NEW x
  PROVE  \E g : g = [n \in Nat |-> IF n = 0 THEN x ELSE f[g[n - 1]]]
<1> DEFINE Upto(k) == {i \in Nat : i <= k}
           OK(g, k) == \A n \in Nat : n <= k => g[n] = (IF n = 0 THEN x ELSE f[g[n - 1]])
           D == {k \in Nat : \E g : OK(g, k)}
<1>1. 0 \in D
  <2>1. OK([n \in Nat |-> x], 0)
    OBVIOUS
  <2>2. QED BY <2>1
<1>2. ASSUME NEW k \in D PROVE k + 1 \in D
  <2>1. PICK g : OK(g, k)
    OBVIOUS
  <2> DEFINE h == [n \in Nat |-> IF n <= k THEN g[n] ELSE f[g[k]]]
  <2>2. ASSUME NEW n \in Nat, n <= k + 1 
        PROVE h[n] = (IF n = 0 THEN x ELSE f[h[n - 1]])
    <3>1. CASE n <= k /\ n # 0
      BY <2>1, <3>1
    <3>2. CASE n = 0
      BY <2>1, <3>2
    <3>3. CASE n = k + 1
      BY <2>1, <3>3
    <3>4. QED BY <3>1, <3>2, <3>3, <2>2
  <2>3. OK(h, k + 1)
    BY <2>2
  <2>4. QED
    <3> HIDE DEF h, OK
    <3>1. QED BY <2>3
<1>3. D = Nat
  BY <1>1, <1>2, NatSetInduction
<1>4. ASSUME NEW g, NEW h, NEW k \in Nat, OK(g, k), NEW l \in Nat, OK(h, l)
      PROVE  \A n \in Nat : n <= k /\ n <= l => g[n] = h[n]
  <2> DEFINE E == {n \in Nat : n <= k /\ n <= l => g[n] = h[n]}
  <2>1. 0 \in E
    BY <1>4
  <2>2. ASSUME NEW n \in E PROVE n + 1 \in E
    BY <1>4, <2>2
  <2>3. E = Nat
    BY <2>1, <2>2, NatSetInduction
  <2>4. QED BY <2>3
<1> DEFINE w(k) == CHOOSE g : OK(g, k)
           F == [n \in Nat |-> w(n)[n]]
<1>5. \A k \in Nat : OK(w(k), k)
  BY <1>3
<1>6. ASSUME NEW n \in Nat PROVE F[n] = IF n = 0 THEN x ELSE f[F[n - 1]]
  <2>1. CASE n = 0
    BY <2>1, <1>5
  <2>2. CASE n # 0
    <3>1. n - 1 \in Nat BY <2>2
    <3>2. w(n)[n] = f[w(n)[n - 1]]
       BY <1>5, <2>2
    <3>3. OK(w(n), n) /\ OK(w(n-1), n-1)
       BY <1>5, <3>1
    <3>4. w(n)[n - 1] = w(n - 1)[n - 1]
      <4> HIDE DEF w, OK
      <4>1. QED BY <1>4, <3>1, <3>3
    <3>5. QED BY <3>1, <3>2, <3>4, <2>2
  <2>3. QED BY <2>1, <2>2
<1>7. F = [n \in Nat |-> IF n = 0 THEN x ELSE f[F[n - 1]]]
  BY <1>6
<1>8. QED BY <1>7

\* The recursion equation: no turn leaves x alone, one more turn applies f once more.
LEMMA IterateDef ==
  ASSUME NEW f, NEW x
  PROVE  /\ Iterate(f, x)[0] = x
         /\ \A n \in Nat : Iterate(f, x)[n + 1] = f[Iterate(f, x)[n]]
<1>1. Iterate(f, x) = [n \in Nat |-> IF n = 0 THEN x ELSE f[Iterate(f, x)[n - 1]]]
  BY IterateExists DEF Iterate
<1> DEFINE g == Iterate(f, x)
<1>2. g = [n \in Nat |-> IF n = 0 THEN x ELSE f[g[n - 1]]]
  BY <1>1
<1> HIDE DEF g
<1>3. g[0] = x
  BY <1>2
<1>4. ASSUME NEW n \in Nat
      PROVE  g[n + 1] = f[g[n]]
  <2>1. n + 1 \in Nat /\ n + 1 # 0 /\ (n + 1) - 1 = n
    OBVIOUS
  <2>2. g[n + 1] = IF n + 1 = 0 THEN x ELSE f[g[(n + 1) - 1]]
    BY <1>2, <2>1
  <2>3. QED
    BY <2>1, <2>2
<1>5. QED
  BY <1>3, <1>4 DEF g

\* What the loop starts with and every turn preserves, it ends with.
LEMMA IterateInvariant ==
  ASSUME NEW f, NEW x, NEW T, x \in T, \A s \in T : f[s] \in T
  PROVE  \A n \in Nat : Iterate(f, x)[n] \in T
<1> DEFINE S == {n \in Nat : Iterate(f, x)[n] \in T}
<1>1. 0 \in S
  BY IterateDef
<1>2. \A n \in S : n + 1 \in S
  BY IterateDef
<1>3. S = Nat
  BY <1>1, <1>2, NatSetInduction
<1>4. QED
  BY <1>3

\* A loop that has come to a state which a turn leaves alone stays there.
LEMMA IterateStays ==
  ASSUME NEW f, NEW x, NEW k \in Nat, f[Iterate(f, x)[k]] = Iterate(f, x)[k]
  PROVE  \A n \in Nat : n >= k => Iterate(f, x)[n] = Iterate(f, x)[k]
<1> DEFINE at(n) == Iterate(f, x)[n]
           S == {n \in Nat : n >= k => at(n) = at(k)}
<1>1. f[at(k)] = at(k)
  OBVIOUS
<1>2. \A n \in Nat : at(n + 1) = f[at(n)]
  BY IterateDef
<1> HIDE DEF at
<1>3. 0 \in S
  OBVIOUS
<1>4. ASSUME NEW n \in S
      PROVE  n + 1 \in S
  <2>1. CASE n >= k
    BY <1>1, <1>2, <1>4, <2>1
  <2>2. CASE ~(n >= k)
    <3>1. n + 1 >= k => n + 1 = k
      BY <2>2
    <3>2. QED
      BY <3>1
  <2>3. QED
    BY <2>1, <2>2
<1>5. S = Nat
  BY <1>3, <1>4, NatSetInduction
<1>6. QED
  BY <1>5 DEF at

\* There is one such state at most.
LEMMA IterateSettles ==
  ASSUME NEW f, NEW x, NEW k \in Nat, NEW m \in Nat,
         f[Iterate(f, x)[k]] = Iterate(f, x)[k], f[Iterate(f, x)[m]] = Iterate(f, x)[m]
  PROVE  Iterate(f, x)[k] = Iterate(f, x)[m]
<1>1. k >= m => Iterate(f, x)[k] = Iterate(f, x)[m]
  BY IterateStays
<1>2. m >= k => Iterate(f, x)[m] = Iterate(f, x)[k]
  BY IterateStays
<1>3. k >= m \/ m >= k
  OBVIOUS
<1>4. QED
  BY <1>1, <1>2, <1>3

==============================================================================
