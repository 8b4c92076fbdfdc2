------------------------------ MODULE Induction ------------------------------
(***************************************************************************)
(* Induction on the natural numbers, for sets, and what it gives of        *)
(* recursive functions: the proofs of the other modules use it for loops.  *)
(* (The induction theorems of the library are about operators, which the   *)
(* provers at hand can not instantiate.)                                   *)
(***************************************************************************)
EXTENDS Integers, WellFoundedInduction, TLAPS

LEMMA LeastNatural ==
  ASSUME NEW S, S \subseteq Nat, S # {}
  PROVE  \E n \in S : \A m \in S : n <= m
<1> DEFINE R == {p \in Nat \X Nat : p[1] < p[2]}
<1>1. IsWellFoundedOn(R, Nat)
  BY NatLessThanWellFounded DEF OpToRel
<1> HIDE DEF R
<1>2. PICK n \in S : \A m \in S : ~ (<<m, n>> \in R)
  BY <1>1, WFMin
<1>3. \A m \in S : ~ (m < n)
  BY <1>2 DEF R
<1>4. QED
  BY <1>3

LEMMA NatInductionSet ==
  ASSUME NEW S, 0 \in S, \A n \in Nat : n \in S => n + 1 \in S
  PROVE  \A n \in Nat : n \in S
<1>1. SUFFICES ASSUME Nat \ S # {} PROVE FALSE
  OBVIOUS
<1>2. PICK n \in Nat \ S : \A m \in Nat \ S : n <= m
  BY <1>1, LeastNatural
<1>3. n # 0 /\ n - 1 \in Nat /\ n - 1 \in S
  BY <1>2
<1>4. n - 1 + 1 \in S
  BY <1>3
<1>5. QED
  BY <1>2, <1>3, <1>4

LEMMA IntervalInduction ==
  ASSUME NEW a \in Int, NEW b \in Int, NEW S,
         a \in S, \A k \in a .. b - 1 : k \in S => k + 1 \in S
  PROVE  \A k \in a .. b : k \in S
<1> DEFINE T == {n \in Nat : a + n <= b => a + n \in S}
<1>1. 0 \in T
  OBVIOUS
<1>2. ASSUME NEW n \in Nat, n \in T PROVE n + 1 \in T
  <2>1. CASE a + (n + 1) <= b
    <3>1. a + n \in a .. b - 1 /\ a + n \in S
      BY <1>2, <2>1
    <3>2. (a + n) + 1 \in S /\ a + (n + 1) = (a + n) + 1
      BY <3>1
    <3>3. QED
      BY <3>2
  <2>2. QED
    BY <2>1
<1> HIDE DEF T
<1>3. \A n \in Nat : n \in T
  BY <1>1, <1>2, NatInductionSet
<1>4. ASSUME NEW k \in a .. b PROVE k \in S
  <2>1. k - a \in Nat /\ a + (k - a) = k
    OBVIOUS
  <2>2. QED
    BY <1>3, <2>1 DEF T
<1>5. QED
  BY <1>4

-----------------------------------------------------------------------------
(***************************************************************************)
(* Rows of w elements.                                                     *)
(***************************************************************************)
LEMMA DivMod ==
  ASSUME NEW n \in Nat, NEW w \in Nat \ {0}
  PROVE  n \div w \in Nat /\ n % w \in 0 .. w - 1 /\ n = (n % w) + (n \div w) * w
  OBVIOUS

LEMMA DivModUnique ==
  ASSUME NEW w \in Nat \ {0}, NEW x \in 0 .. w - 1, NEW y \in Nat
  PROVE  (x + y * w) % w = x /\ (x + y * w) \div w = y
  OBVIOUS

LEMMA DivBelow ==
  ASSUME NEW n \in Nat, NEW w \in Nat \ {0}, NEW h \in Nat, n < w * h
  PROVE  n \div w < h
  OBVIOUS

LEMMA ProductMonotonic ==
  ASSUME NEW x \in Nat, NEW y \in Nat, NEW w \in Nat, x <= y
  PROVE  x * w <= y * w
  OBVIOUS

\* g is a, then what t gives of it, again and again, m times.
Iterated(g, m, V, a, t) ==
  g \in [0 .. m -> V] /\ g[0] = a /\ \A k \in 1 .. m : g[k] = t[g[k - 1]]

LEMMA Iterates ==
  ASSUME NEW V, NEW a \in V, NEW t \in [V -> V], NEW m \in Nat
  PROVE  \E g : Iterated(g, m, V, a, t)
<1> DEFINE S == {n \in Nat : \E g \in [0 .. n -> V] :
                               g[0] = a /\ \A k \in 1 .. n : g[k] = t[g[k - 1]]}
<1>1. 0 \in S
  <2> DEFINE g == [k \in 0 .. 0 |-> a]
  <2>1. g \in [0 .. 0 -> V] /\ g[0] = a /\ \A k \in 1 .. 0 : g[k] = t[g[k - 1]]
    OBVIOUS
  <2> HIDE DEF g
  <2>2. QED
    BY <2>1
<1>2. ASSUME NEW n \in Nat, n \in S
      PROVE  n + 1 \in S
  <2>1. PICK f \in [0 .. n -> V] : f[0] = a /\ \A k \in 1 .. n : f[k] = t[f[k - 1]]
    BY <1>2
  <2> DEFINE g == [k \in 0 .. n + 1 |-> IF k = n + 1 THEN t[f[n]] ELSE f[k]]
  <2>2. (\A k \in 0 .. n : g[k] = f[k]) /\ g[n + 1] = t[f[n]]
    OBVIOUS
  <2>3. g \in [0 .. n + 1 -> V]
    BY <2>1
  <2> HIDE DEF g
  <2>4. ASSUME NEW k \in 1 .. n + 1
        PROVE  g[k] = t[g[k - 1]]
    <3>1. CASE k = n + 1
      <4>1. g[k] = t[f[n]] /\ g[n] = f[n] /\ k - 1 = n
        BY <2>2, <3>1
      <4>2. QED
        BY <4>1
    <3>2. CASE k # n + 1
      <4>1. k \in 1 .. n /\ k \in 0 .. n /\ k - 1 \in 0 .. n
        BY <3>2
      <4>2. g[k] = f[k] /\ g[k - 1] = f[k - 1] /\ f[k] = t[f[k - 1]]
        BY <2>1, <2>2, <4>1
      <4>3. QED
        BY <4>2
    <3>3. QED
      BY <3>1, <3>2
  <2>5. g[0] = a
    BY <2>1, <2>2
  <2>6. QED
    BY <2>3, <2>4, <2>5
<1> HIDE DEF S
<1>3. m \in S
  BY <1>1, <1>2, NatInductionSet
<1>4. QED
  BY <1>3 DEF S, Iterated

\* The same, when the step depends on its number.
Recursive(g, m, V, a, t) ==
  g \in [0 .. m -> V] /\ g[0] = a /\ \A k \in 1 .. m : g[k] = t[<<k, g[k - 1]>>]

LEMMA Recursion ==
  ASSUME NEW V, NEW a \in V, NEW m \in Nat, NEW t \in [(1 .. m) \X V -> V]
  PROVE  \E g : Recursive(g, m, V, a, t)
<1> DEFINE P(n, g) == g[0] = a /\ \A k \in 1 .. n : g[k] = t[<<k, g[k - 1]>>]
           S == {n \in Nat : n <= m => \E g \in [0 .. n -> V] : P(n, g)}
<1>1. 0 \in S
  <2> DEFINE g == [k \in 0 .. 0 |-> a]
  <2>1. g \in [0 .. 0 -> V] /\ g[0] = a /\ \A k \in 1 .. 0 : g[k] = t[<<k, g[k - 1]>>]
    OBVIOUS
  <2> HIDE DEF g
  <2>2. QED
    BY <2>1
<1>2. ASSUME NEW n \in Nat, n \in S
      PROVE  n + 1 \in S
  <2>1. SUFFICES ASSUME n + 1 <= m PROVE \E g \in [0 .. n + 1 -> V] : P(n + 1, g)
    OBVIOUS
  <2>2. PICK f \in [0 .. n -> V] : P(n, f)
    BY <1>2, <2>1
  <2> DEFINE g == [k \in 0 .. n + 1 |-> IF k = n + 1 THEN t[<<n + 1, f[n]>>] ELSE f[k]]
  <2>3. (\A k \in 0 .. n : g[k] = f[k]) /\ g[n + 1] = t[<<n + 1, f[n]>>]
    OBVIOUS
  <2>4. g \in [0 .. n + 1 -> V]
    <3>1. <<n + 1, f[n]>> \in (1 .. m) \X V
      BY <2>1, <2>2
    <3>2. t[<<n + 1, f[n]>>] \in V
      BY <3>1
    <3>3. QED
      BY <2>2, <3>2
  <2> HIDE DEF g
  <2>5. ASSUME NEW k \in 1 .. n + 1
        PROVE  g[k] = t[<<k, g[k - 1]>>]
    <3>1. CASE k = n + 1
      <4>1. g[n + 1] = t[<<n + 1, f[n]>>] /\ g[n] = f[n] /\ k - 1 = n
        BY <2>3, <3>1
      <4>2. QED
        BY <3>1, <4>1
    <3>2. CASE k # n + 1
      <4>1. k \in 1 .. n /\ k \in 0 .. n /\ k - 1 \in 0 .. n
        BY <3>2
      <4>2. g[k] = f[k] /\ g[k - 1] = f[k - 1] /\ f[k] = t[<<k, f[k - 1]>>]
        BY <2>2, <2>3, <4>1
      <4>3. QED
        BY <4>2
    <3>3. QED
      BY <3>1, <3>2
  <2>6. g[0] = a
    BY <2>2, <2>3
  <2>7. QED
    BY <2>4, <2>5, <2>6
<1> HIDE DEF S
<1>3. m \in S
  BY <1>1, <1>2, NatInductionSet
<1>4. QED
  BY <1>3 DEF S, Recursive

\* What a recursive definition says of f.
Repeats(f, m, V, a, t) ==
  f[0] = a /\ \A k \in 1 .. m : f[k - 1] \in V => f[k] = t[<<k, f[k - 1]>>]

BothRepeat(f, g, m, V, a, t) ==
  m \in Nat /\ Recursive(g, m, V, a, t) /\ Repeats(f, m, V, a, t)

LEMMA RecursionIsOne ==
  ASSUME NEW f, NEW g, NEW m, NEW V, NEW a, NEW t, BothRepeat(f, g, m, V, a, t)
  PROVE  \A k \in 0 .. m : f[k] = g[k]
<1>0. m \in Nat /\ Recursive(g, m, V, a, t) /\ Repeats(f, m, V, a, t)
  BY DEF BothRepeat
<1> DEFINE S == {k \in Nat : f[k] = g[k]}
<1>1. 0 \in S
  BY <1>0 DEF Recursive, Repeats
<1>2. ASSUME NEW k \in 0 .. m - 1, k \in S PROVE k + 1 \in S
  <2>1. k + 1 \in 1 .. m /\ (k + 1) - 1 = k /\ g[k] \in V
    BY <1>0 DEF Recursive
  <2>2. f[k] = g[k]
    BY <1>2
  <2>3. g[k + 1] = t[<<k + 1, g[k]>>] /\ f[k + 1] = t[<<k + 1, f[k]>>]
    BY <1>0, <2>1, <2>2 DEF Recursive, Repeats
  <2>4. QED
    BY <2>2, <2>3
<1> HIDE DEF S
<1>3. \A k \in 0 .. m : k \in S
  <2>1. 0 \in Int /\ m \in Int
    BY <1>0
  <2>2. QED
    BY <1>1, <1>2, <2>1, IntervalInduction, Zenon
<1>4. QED
  BY <1>3 DEF S

=============================================================================
