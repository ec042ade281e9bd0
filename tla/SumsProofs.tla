----------------------------- MODULE SumsProofs -----------------------------
(***************************************************************************)
(* What the totals of Sums are worth, for any number of payments: they are  *)
(* defined, they are numbers, and changing one amount changes the total by  *)
(* the difference.  Each induction over the payments takes the first one at *)
(* which the claim would fail (LeastNat).                                   *)
(***************************************************************************)
EXTENDS Sums, WellFoundedInduction, TLAPS

\* Every nonempty set of naturals has a least member.
LEMMA LeastNat ==
    ASSUME NEW T \in SUBSET Nat, T # {}
    PROVE  \E x \in T : \A y \in T : x <= y
<1> DEFINE R == {ss \in Nat \X Nat : ss[1] < ss[2]}
<1>1. IsWellFoundedOn(R, Nat)
  BY NatLessThanWellFounded DEF OpToRel
<1>2. PICK x \in T : \A y \in T : ~(<<y, x>> \in R)
  <2> HIDE DEF R
  <2> QED  BY <1>1, WFMin, Zenon
<1>3. \A y \in T : x <= y
  <2> SUFFICES ASSUME NEW y \in T PROVE x <= y
    OBVIOUS
  <2>1. <<y, x>> \notin R
    BY <1>2
  <2>2. <<y, x>> \in Nat \X Nat /\ <<y, x>>[1] = y /\ <<y, x>>[2] = x
    OBVIOUS
  <2>3. ~(y < x)
    BY <2>1, <2>2
  <2> QED  BY <2>3
<1> QED  BY <1>3

\* The equation that defines the partial sums has a solution up to every k.
LEMMA PartialSumsExist ==
    ASSUME NEW n \in Nat, NEW f
    PROVE  \E s : s = [i \in 0..n |-> IF i = 0 THEN 0 ELSE s[i - 1] + f[i]]
<1> DEFINE Solves(s, k) == s = [i \in 0..k |-> IF i = 0 THEN 0 ELSE s[i - 1] + f[i]]
           Bad == {k \in Nat : ~ \E s : Solves(s, k)}
<1>1. SUFFICES ASSUME Bad # {} PROVE FALSE
  <2>1. n \notin Bad
    BY <1>1
  <2> QED  BY <2>1
<1>2. PICK k \in Bad : \A j \in Bad : k <= j
  <2> HIDE DEF Bad
  <2>1. Bad \in SUBSET Nat
    BY DEF Bad
  <2> QED  BY <1>1, <2>1, LeastNat
<1>3. CASE k = 0
  <2> DEFINE z == [i \in 0..0 |-> 0]
  <2>1. Solves(z, 0)
    OBVIOUS
  <2> QED  BY <1>2, <1>3, <2>1
<1>4. CASE k # 0
  <2>1. k \in Nat /\ k - 1 \in Nat /\ k - 1 \notin Bad
    BY SMTT(60), <1>2, <1>4
  <2>2. PICK s : Solves(s, k - 1)
    BY <2>1
  <2> DEFINE t == [i \in 0..k |-> IF i = k THEN s[k - 1] + f[k] ELSE s[i]]
  <2>3. ASSUME NEW i \in 0..k
        PROVE  t[i] = IF i = 0 THEN 0 ELSE t[i - 1] + f[i]
    <3>1. CASE i = k
      <4>1. k - 1 \in 0..k /\ k - 1 # k
        BY <2>1
      <4>2. t[k - 1] = s[k - 1]
        BY <4>1
      <4> QED  BY <3>1, <1>4, <4>2
    <3>2. CASE i # k
      <4>1. i \in 0..(k - 1) /\ (i # 0 => i - 1 \in 0..k /\ i - 1 # k)
        BY <2>1, <3>2
      <4>2. s[i] = IF i = 0 THEN 0 ELSE s[i - 1] + f[i]
        BY <2>2, <4>1
      <4> QED  BY <3>2, <4>1, <4>2
    <3> QED  BY <3>1, <3>2
  <2>4. Solves(t, k)
    BY <2>3
  <2> QED  BY <1>2, <2>4
<1> QED  BY <1>3, <1>4

\* The recursion of PartialSums.
LEMMA PartialSumsRecursion ==
    ASSUME NEW n \in Nat, NEW f
    PROVE  /\ PartialSums(f, n)[0] = 0
           /\ \A i \in 1..n : PartialSums(f, n)[i] = PartialSums(f, n)[i - 1] + f[i]
<1> DEFINE s == PartialSums(f, n)
<1>1. s = [i \in 0..n |-> IF i = 0 THEN 0 ELSE s[i - 1] + f[i]]
  BY PartialSumsExist DEF PartialSums
<1> HIDE DEF s
<1>2. s[0] = 0
  BY <1>1
<1>3. ASSUME NEW i \in 1..n PROVE s[i] = s[i - 1] + f[i]
  BY <1>1, i \in 0..n, i # 0
<1> QED  BY <1>2, <1>3 DEF s

\* An induction over the payments: a set that holds 0 and every successor up to
\* n is all of 0..n.
LEMMA UpToN ==
    ASSUME NEW n \in Nat, NEW T \in SUBSET (0..n), 0 \in T,
           \A i \in 1..n : i - 1 \in T => i \in T
    PROVE  T = 0..n
<1> DEFINE Bad == (0..n) \ T
<1>1. SUFFICES ASSUME Bad # {} PROVE FALSE
  OBVIOUS
<1>2. PICK k \in Bad : \A j \in Bad : k <= j
  <2> HIDE DEF Bad
  <2>1. Bad \in SUBSET Nat
    BY DEF Bad
  <2> QED  BY <1>1, <2>1, LeastNat
<1>3. k # 0 /\ k \in 1..n /\ k - 1 \in 0..n
  BY <1>2
<1>4. k - 1 \notin Bad
  BY <1>2, <1>3
<1> QED  BY <1>2, <1>3, <1>4

\* A total of integers is an integer.
LEMMA SumIsInt ==
    ASSUME NEW n \in Nat, NEW f \in [1..n -> Int]
    PROVE  SumUpTo(f, n) \in Int
<1> DEFINE s == PartialSums(f, n)
           T == {i \in 0..n : s[i] \in Int}
<1> HIDE DEF s
<1>1. s[0] = 0 /\ \A i \in 1..n : s[i] = s[i - 1] + f[i]
  BY PartialSumsRecursion DEF s
<1>2. 0 \in T
  BY <1>1
<1>3. ASSUME NEW i \in 1..n, i - 1 \in T PROVE i \in T
  <2>1. f[i] \in Int /\ s[i - 1] \in Int
    BY <1>3
  <2> QED  BY <1>1, <2>1
<1>4. T = 0..n
  <2> HIDE DEF T
  <2>1. T \in SUBSET (0..n)
    BY DEF T
  <2> QED  BY <1>2, <1>3, <2>1, UpToN
<1>5. s[n] \in Int
  BY <1>4
<1> QED  BY <1>5 DEF s, SumUpTo

\* A total of naturals is a natural, and each of them is at most the total.
LEMMA SumIsNat ==
    ASSUME NEW n \in Nat, NEW f \in [1..n -> Nat]
    PROVE  /\ SumUpTo(f, n) \in Nat
           /\ \A k \in 1..n : f[k] <= SumUpTo(f, n)
<1> DEFINE s == PartialSums(f, n)
           T == {i \in 0..n : s[i] \in Nat /\ \A k \in 1..i : f[k] <= s[i]}
<1> HIDE DEF s
<1>1. s[0] = 0 /\ \A i \in 1..n : s[i] = s[i - 1] + f[i]
  BY PartialSumsRecursion DEF s
<1>2. 0 \in T
  BY <1>1
<1>3. ASSUME NEW i \in 1..n, i - 1 \in T PROVE i \in T
  <2>1. f[i] \in Nat /\ s[i - 1] \in Nat /\ s[i] = s[i - 1] + f[i]
    BY <1>1, <1>3
  <2>2. ASSUME NEW k \in 1..i PROVE f[k] <= s[i]
    <3>1. CASE k = i
      BY <2>1, <3>1
    <3>2. CASE k # i
      <4>1. k \in 1..(i - 1) /\ k \in 1..n
        BY <3>2
      <4>2. f[k] <= s[i - 1] /\ f[k] \in Nat
        BY <1>3, <4>1
      <4> QED  BY <2>1, <4>2
    <3> QED  BY <3>1, <3>2
  <2> QED  BY <2>1, <2>2
<1>4. T = 0..n
  <2> HIDE DEF T
  <2>1. T \in SUBSET (0..n)
    BY DEF T
  <2> QED  BY <1>2, <1>3, <2>1, UpToN
<1>5. s[n] \in Nat /\ \A k \in 1..n : f[k] <= s[n]
  <2>1. n \in T
    BY <1>4
  <2> QED  BY <2>1
<1> QED  BY <1>5 DEF s, SumUpTo

\* Changing one amount changes the total by the difference.
LEMMA SumUpdate ==
    ASSUME NEW n \in Nat, NEW f \in [1..n -> Int], NEW g \in [1..n -> Int],
           NEW k \in 1..n, \A i \in 1..n : i # k => g[i] = f[i]
    PROVE  SumUpTo(g, n) = SumUpTo(f, n) + g[k] - f[k]
<1> DEFINE s == PartialSums(f, n)
           t == PartialSums(g, n)
           T == {i \in 0..n : /\ s[i] \in Int
                              /\ t[i] = IF i < k THEN s[i] ELSE s[i] + g[k] - f[k]}
<1> HIDE DEF s, t
<1>1. s[0] = 0 /\ \A i \in 1..n : s[i] = s[i - 1] + f[i]
  BY PartialSumsRecursion DEF s
<1>2. t[0] = 0 /\ \A i \in 1..n : t[i] = t[i - 1] + g[i]
  BY PartialSumsRecursion DEF t
<1>3. 0 \in T
  BY <1>1, <1>2
<1>4. ASSUME NEW i \in 1..n, i - 1 \in T PROVE i \in T
  <2>1. /\ f[i] \in Int /\ s[i - 1] \in Int /\ s[i] = s[i - 1] + f[i]
        /\ f[k] \in Int /\ g[k] \in Int
        /\ t[i] = t[i - 1] + g[i]
        /\ t[i - 1] = IF i - 1 < k THEN s[i - 1] ELSE s[i - 1] + g[k] - f[k]
    BY <1>1, <1>2, <1>4
  <2>2. CASE i = k
    BY <2>1, <2>2
  <2>3. CASE i # k
    <3>1. g[i] = f[i] /\ (i - 1 < k <=> i < k)
      BY <2>3
    <3> QED  BY SMTT(60), <2>1, <3>1
  <2> QED  BY <2>2, <2>3
<1>5. T = 0..n
  <2> HIDE DEF T
  <2>1. T \in SUBSET (0..n)
    BY DEF T
  <2> QED  BY <1>3, <1>4, <2>1, UpToN
<1>6. t[n] = s[n] + g[k] - f[k]
  <2>1. n \in T /\ ~(n < k)
    BY <1>5
  <2> QED  BY <2>1
<1> QED  BY <1>6 DEF s, t, SumUpTo

\* The total of nothing is 0.
LEMMA SumOfZeros ==
    ASSUME NEW n \in Nat, NEW f \in [1..n -> Int], \A i \in 1..n : f[i] = 0
    PROVE  SumUpTo(f, n) = 0
<1> DEFINE s == PartialSums(f, n)
           T == {i \in 0..n : s[i] = 0}
<1> HIDE DEF s
<1>1. s[0] = 0 /\ \A i \in 1..n : s[i] = s[i - 1] + f[i]
  BY PartialSumsRecursion DEF s
<1>2. 0 \in T
  BY <1>1
<1>3. ASSUME NEW i \in 1..n, i - 1 \in T PROVE i \in T
  <2>1. s[i - 1] = 0
    BY <1>3
  <2> QED  BY <1>1, <2>1
<1>4. T = 0..n
  <2> HIDE DEF T
  <2>1. T \in SUBSET (0..n)
    BY DEF T
  <2> QED  BY <1>2, <1>3, <2>1, UpToN
<1>5. s[n] = 0
  BY <1>4
<1> QED  BY <1>5 DEF s, SumUpTo

-----------------------------------------------------------------------------
(* Totals over a set of payments *)

LEMMA SumOverIsInt ==
    ASSUME NEW n \in Nat, NEW f \in [1..n -> Int], NEW S
    PROVE  SumOver(S, f, n) \in Int
BY Only(S, f, n) \in [1..n -> Int], SumIsInt DEF Only, SumOver

LEMMA SumOverIsNat ==
    ASSUME NEW n \in Nat, NEW f \in [1..n -> Nat], NEW S
    PROVE  /\ SumOver(S, f, n) \in Nat
           /\ \A k \in 1..n : k \in S => f[k] <= SumOver(S, f, n)
<1> DEFINE g == Only(S, f, n)
<1>1. g \in [1..n -> Nat] /\ \A k \in 1..n : k \in S => g[k] = f[k]
  BY DEF Only
<1> HIDE DEF g
<1>2. SumUpTo(g, n) \in Nat /\ \A k \in 1..n : g[k] <= SumUpTo(g, n)
  BY <1>1, SumIsNat
<1> QED  BY <1>1, <1>2 DEF g, SumOver

LEMMA SumOverUpdate ==
    ASSUME NEW n \in Nat, NEW f \in [1..n -> Int], NEW g \in [1..n -> Int], NEW S,
           NEW k \in 1..n, \A i \in 1..n : i # k => g[i] = f[i]
    PROVE  /\ k \in S => SumOver(S, g, n) = SumOver(S, f, n) + g[k] - f[k]
           /\ k \notin S => SumOver(S, g, n) = SumOver(S, f, n)
<1> DEFINE a == Only(S, f, n)
           b == Only(S, g, n)
<1>1. /\ a \in [1..n -> Int] /\ b \in [1..n -> Int]
      /\ \A i \in 1..n : i # k => b[i] = a[i]
  BY DEF Only
<1>2. CASE k \in S
  <2>1. b[k] = g[k] /\ a[k] = f[k]
    BY <1>2 DEF Only
  <2> HIDE DEF a, b
  <2>2. SumUpTo(b, n) = SumUpTo(a, n) + b[k] - a[k]
    BY <1>1, SumUpdate
  <2> QED  BY <1>2, <2>1, <2>2 DEF SumOver, a, b
<1>3. CASE k \notin S
  <2>1. b = a
    BY <1>3 DEF Only
  <2> QED  BY <1>3, <2>1 DEF SumOver
<1> QED  BY <1>2, <1>3

LEMMA SumOverZeros ==
    ASSUME NEW n \in Nat, NEW f \in [1..n -> Int], NEW S,
           \A i \in 1..n : i \in S => f[i] = 0
    PROVE  SumOver(S, f, n) = 0
<1> DEFINE g == Only(S, f, n)
<1>1. g \in [1..n -> Int] /\ \A k \in 1..n : g[k] = 0
  BY DEF Only
<1> HIDE DEF g
<1>2. SumUpTo(g, n) = 0
  BY <1>1, SumOfZeros
<1> QED  BY <1>2 DEF g, SumOver

\* Of two assignments of amounts the larger has the larger total.
LEMMA SumMonotone ==
    ASSUME NEW n \in Nat, NEW f \in [1..n -> Int], NEW g \in [1..n -> Int],
           \A i \in 1..n : f[i] <= g[i]
    PROVE  SumUpTo(f, n) <= SumUpTo(g, n)
<1> DEFINE s == PartialSums(f, n)
           t == PartialSums(g, n)
           T == {i \in 0..n : s[i] \in Int /\ t[i] \in Int /\ s[i] <= t[i]}
<1> HIDE DEF s, t
<1>1. s[0] = 0 /\ \A i \in 1..n : s[i] = s[i - 1] + f[i]
  BY PartialSumsRecursion DEF s
<1>2. t[0] = 0 /\ \A i \in 1..n : t[i] = t[i - 1] + g[i]
  BY PartialSumsRecursion DEF t
<1>3. 0 \in T
  BY <1>1, <1>2
<1>4. ASSUME NEW i \in 1..n, i - 1 \in T PROVE i \in T
  <2>1. /\ f[i] \in Int /\ g[i] \in Int /\ f[i] <= g[i]
        /\ s[i - 1] \in Int /\ t[i - 1] \in Int /\ s[i - 1] <= t[i - 1]
    BY <1>4
  <2>2. s[i] = s[i - 1] + f[i] /\ t[i] = t[i - 1] + g[i]
    BY <1>1, <1>2
  <2>3. s[i] \in Int /\ t[i] \in Int /\ s[i] <= t[i]
    BY <2>1, <2>2
  <2>4. i \in 0..n
    OBVIOUS
  <2> QED  BY <2>3, <2>4
<1>5. T = 0..n
  <2> HIDE DEF T
  <2>1. T \in SUBSET (0..n)
    BY DEF T
  <2> QED  BY <1>3, <1>4, <2>1, UpToN
<1>6. s[n] <= t[n]
  BY <1>5
<1> QED  BY <1>6 DEF s, t, SumUpTo

LEMMA SumOverMonotone ==
    ASSUME NEW n \in Nat, NEW f \in [1..n -> Int], NEW g \in [1..n -> Int], NEW S,
           \A i \in 1..n : i \in S => f[i] <= g[i]
    PROVE  SumOver(S, f, n) <= SumOver(S, g, n)
<1> DEFINE a == Only(S, f, n)
           b == Only(S, g, n)
<1>1. a \in [1..n -> Int] /\ b \in [1..n -> Int] /\ \A k \in 1..n : a[k] <= b[k]
  BY DEF Only
<1> HIDE DEF a, b
<1>2. SumUpTo(a, n) <= SumUpTo(b, n)
  BY <1>1, SumMonotone
<1> QED  BY <1>2 DEF a, b, SumOver
=============================================================================
