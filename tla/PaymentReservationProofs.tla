---------------------- MODULE PaymentReservationProofs ----------------------
(***************************************************************************)
(* What holds of PaymentReservation for any nodes, paths, amounts and       *)
(* bounds.  Whenever messages come: the types, with the totals that the     *)
(* coordinator reserves, and that it fixes paths of just the command's      *)
(* amount.  If requests come only while the coordinator works on their      *)
(* path: what a node holds when it gets the final configuration stays.      *)
(***************************************************************************)
EXTENDS PaymentReservation, SumsProofs, FiniteSetTheorems, SequenceTheorems

-----------------------------------------------------------------------------
(* Sums over a finite set of paths *)

PathSum(f, S) == MapThenSumSet(LAMBDA id : f[id], S)

Solves(it, f, S) ==
    it = [s \in SUBSET S |-> IF s = {} THEN 0
                             ELSE LET x == CHOOSE x \in s : TRUE IN f[x] + it[s \ {x}]]

LEMMA PathSumIs ==
    ASSUME NEW f, NEW S
    PROVE  PathSum(f, S) = (CHOOSE it : Solves(it, f, S))[S]
BY DEF PathSum, Solves, MapThenSumSet, MapThenFoldSet

\* The total of f on s, along an enumeration of a set that holds s.
Along(f, e, n, s) == SumOver({i \in 1..n : e[i] \in s}, [i \in 1..n |-> f[e[i]]], n)

LEMMA AlongLess ==
    ASSUME NEW D, NEW n \in Nat, NEW e \in Bijection(1..n, D), NEW f, \A x \in D : f[x] \in Int,
           NEW s \in SUBSET D, NEW x \in s
    PROVE  /\ Along(f, e, n, s) = f[x] + Along(f, e, n, s \ {x})
           /\ Along(f, e, n, s) \in Int /\ Along(f, e, n, s \ {x}) \in Int
<1> DEFINE g == [i \in 1..n |-> f[e[i]]]
           a == Only({i \in 1..n : e[i] \in s}, g, n)
           b == Only({i \in 1..n : e[i] \in s \ {x}}, g, n)
<1>1. /\ \A i \in 1..n : e[i] \in D
      /\ \A i, j \in 1..n : e[i] = e[j] => i = j
      /\ \E i \in 1..n : e[i] = x
  BY DEF Bijection, Injection, Surjection, IsInjective
<1>2. g \in [1..n -> Int]
  BY <1>1
<1>3. PICK k \in 1..n : e[k] = x
  BY <1>1
<1>4. a \in [1..n -> Int] /\ b \in [1..n -> Int]
  BY <1>2 DEF Only
<1>5. a[k] = f[x] /\ b[k] = 0 /\ f[x] \in Int
  BY <1>1, <1>3 DEF Only
<1>6. \A i \in 1..n : i # k => b[i] = a[i]
  BY <1>1, <1>3 DEF Only
<1>7. Along(f, e, n, s) = SumUpTo(a, n) /\ Along(f, e, n, s \ {x}) = SumUpTo(b, n)
  BY DEF Along, SumOver
<1> HIDE DEF a, b
<1>8. SumUpTo(b, n) = SumUpTo(a, n) + b[k] - a[k]
  BY <1>4, <1>6, SumUpdate
<1>9. SumUpTo(a, n) \in Int /\ SumUpTo(b, n) \in Int
  BY <1>4, SumIsInt
<1>10. QED BY <1>5, <1>7, <1>8, <1>9

LEMMA AlongNothing ==
    ASSUME NEW D, NEW n \in Nat, NEW e \in Bijection(1..n, D), NEW f, \A x \in D : f[x] \in Int
    PROVE  Along(f, e, n, {}) = 0
<1> DEFINE g == [i \in 1..n |-> f[e[i]]]
           I == {i \in 1..n : e[i] \in {}}
<1>1. g \in [1..n -> Int] /\ \A i \in 1..n : i \notin I
  BY DEF Bijection, Injection
<1> HIDE DEF g, I
<1>2. SumOver(I, g, n) = 0
  BY <1>1, SumOverZeros
<1>3. QED BY <1>2 DEF Along, g, I

LEMMA PathSumAlong ==
    ASSUME NEW D, NEW n \in Nat, NEW e \in Bijection(1..n, D), IsFiniteSet(D),
           NEW f, \A x \in D : f[x] \in Int, NEW S \in SUBSET D
    PROVE  PathSum(f, S) = Along(f, e, n, S)
<1> DEFINE h == [s \in SUBSET S |-> Along(f, e, n, s)]
           it == CHOOSE it : Solves(it, f, S)
<1>1. Solves(h, f, S)
  <2>1. ASSUME NEW s \in SUBSET S
        PROVE  h[s] = IF s = {} THEN 0
                      ELSE LET x == CHOOSE x \in s : TRUE IN f[x] + h[s \ {x}]
    <3>1. CASE s = {}
      BY <3>1, AlongNothing
    <3>2. CASE s # {}
      <4> DEFINE x == CHOOSE x \in s : TRUE
      <4>1. x \in s
        BY <3>2
      <4>2. s \in SUBSET D /\ s \ {x} \in SUBSET S
        OBVIOUS
      <4> HIDE DEF x
      <4>3. Along(f, e, n, s) = f[x] + Along(f, e, n, s \ {x})
        BY <4>1, <4>2, AlongLess
      <4>4. h[s] = Along(f, e, n, s) /\ h[s \ {x}] = Along(f, e, n, s \ {x})
        BY <4>2
      <4>5. h[s] = f[x] + h[s \ {x}]
        BY <4>3, <4>4
      <4>6. QED BY <3>2, <4>5 DEF x
    <3>3. QED BY <3>1, <3>2
  <2> DEFINE r == [s \in SUBSET S |-> IF s = {} THEN 0
                      ELSE LET x == CHOOSE x \in s : TRUE IN f[x] + h[s \ {x}]]
  <2>2. \A s \in SUBSET S : h[s] = r[s]
    BY <2>1
  <2>3. h = r
    <3> HIDE DEF r
    <3>1. r = [s \in SUBSET S |-> r[s]]
      BY DEF r
    <3>2. QED BY <2>2, <3>1
  <2>4. QED BY <2>3 DEF Solves
<1>2. Solves(it, f, S)
  BY <1>1
<1> HIDE DEF it
<1>3. ASSUME NEW s \in SUBSET S PROVE it[s] = Along(f, e, n, s)
  <2> DEFINE Bad == {k \in Nat : \E t \in SUBSET S : Cardinality(t) = k /\ it[t] # Along(f, e, n, t)}
  <2>1. \A t \in SUBSET S : IsFiniteSet(t) /\ Cardinality(t) \in Nat
    BY FS_Subset, FS_CardinalityType
  <2>2. SUFFICES ASSUME Bad # {} PROVE FALSE
    BY <2>1
  <2>3. PICK k \in Bad : \A j \in Bad : k <= j
    <3>1. Bad \in SUBSET Nat
      OBVIOUS
    <3> HIDE DEF Bad
    <3>2. QED BY <2>2, <3>1, LeastNat
  <2>4. PICK t \in SUBSET S : Cardinality(t) = k /\ it[t] # Along(f, e, n, t)
    BY <2>3
  <2>5. CASE t = {}
    <3>1. it[t] = 0
      BY <1>2, <2>5 DEF Solves
    <3>2. QED BY <2>4, <2>5, <3>1, AlongNothing
  <2>6. CASE t # {}
    <3> DEFINE x == CHOOSE x \in t : TRUE
               u == t \ {x}
    <3>1. x \in t
      BY <2>6
    <3>2. it[t] = f[x] + it[u]
      BY <1>2, <2>6 DEF Solves
    <3>3. u \in SUBSET S /\ t \in SUBSET D
      OBVIOUS
    <3> HIDE DEF x
    <3>4. IsFiniteSet(t) /\ Cardinality(t) \in Nat /\ Cardinality(u) \in Nat
      BY <2>1, <3>3
    <3>5. Cardinality(u) = Cardinality(t) - 1
      BY <3>1, <3>4, FS_RemoveElement
    <3> DEFINE cu == Cardinality(u)
    <3>6. k \in Nat /\ cu \in Nat /\ cu = k - 1
      BY <2>3, <2>4, <3>4, <3>5
    <3> HIDE DEF cu, Bad
    <3>7. cu \notin Bad
      BY <2>3, <3>6
    <3>8. it[u] = Along(f, e, n, u)
      BY <3>3, <3>6, <3>7 DEF Bad, cu
    <3>9. Along(f, e, n, t) = f[x] + Along(f, e, n, u)
      BY <3>1, <3>3, AlongLess
    <3>10. QED BY <2>4, <3>2, <3>8, <3>9
  <2>7. QED BY <2>5, <2>6
<1>4. S \in SUBSET S
  OBVIOUS
<1>5. it[S] = Along(f, e, n, S)
  BY <1>3, <1>4
<1>6. QED BY <1>5, PathSumIs DEF it

LEMMA PathSumLess ==
    ASSUME NEW S, IsFiniteSet(S), NEW f, \A y \in S : f[y] \in Nat, NEW x \in S
    PROVE  PathSum(f, S) = f[x] + PathSum(f, S \ {x})
<1>1. Cardinality(S) \in Nat /\ ExistsBijection(1..Cardinality(S), S)
  BY FS_CardinalityType
<1>2. PICK e : e \in Bijection(1..Cardinality(S), S)
  BY <1>1 DEF ExistsBijection
<1>3. \A y \in S : f[y] \in Int
  OBVIOUS
<1> DEFINE n == Cardinality(S)
<1> HIDE DEF n
<1>4. n \in Nat /\ e \in Bijection(1..n, S)
  BY <1>1, <1>2 DEF n
<1>5. S \in SUBSET S /\ S \ {x} \in SUBSET S
  OBVIOUS
<1>6. /\ PathSum(f, S) = Along(f, e, n, S)
      /\ PathSum(f, S \ {x}) = Along(f, e, n, S \ {x})
  BY <1>3, <1>4, <1>5, PathSumAlong
<1>7. QED BY <1>3, <1>4, <1>5, <1>6, AlongLess

LEMMA PathSumIsNat ==
    ASSUME NEW S, IsFiniteSet(S), NEW f, \A y \in S : f[y] \in Nat
    PROVE  PathSum(f, S) \in Nat
<1>1. Cardinality(S) \in Nat /\ ExistsBijection(1..Cardinality(S), S)
  BY FS_CardinalityType
<1>2. PICK e : e \in Bijection(1..Cardinality(S), S)
  BY <1>1 DEF ExistsBijection
<1> DEFINE n == Cardinality(S)
           g == [i \in 1..n |-> f[e[i]]]
<1> HIDE DEF n
<1>3. n \in Nat /\ e \in Bijection(1..n, S)
  BY <1>1, <1>2 DEF n
<1>4. g \in [1..n -> Nat]
  BY <1>3 DEF Bijection, Injection
<1> HIDE DEF g
<1>5. SumOver({i \in 1..n : e[i] \in S}, g, n) \in Nat
  BY <1>3, <1>4, SumOverIsNat
<1>6. PathSum(f, S) = Along(f, e, n, S)
  BY <1>3, PathSumAlong
<1>7. QED BY <1>5, <1>6 DEF Along, g

LEMMA PathSumSame ==
    ASSUME NEW S, IsFiniteSet(S), NEW f, NEW g, \A y \in S : f[y] \in Nat /\ g[y] = f[y]
    PROVE  PathSum(g, S) = PathSum(f, S)
<1>1. Cardinality(S) \in Nat /\ ExistsBijection(1..Cardinality(S), S)
  BY FS_CardinalityType
<1>2. PICK e : e \in Bijection(1..Cardinality(S), S)
  BY <1>1 DEF ExistsBijection
<1> DEFINE n == Cardinality(S)
<1> HIDE DEF n
<1>3. n \in Nat /\ e \in Bijection(1..n, S)
  BY <1>1, <1>2 DEF n
<1>4. \A i \in 1..n : e[i] \in S
  BY <1>3 DEF Bijection, Injection
<1>5. [i \in 1..n |-> f[e[i]]] = [i \in 1..n |-> g[e[i]]]
  BY <1>4
<1>6. PathSum(f, S) = Along(f, e, n, S) /\ PathSum(g, S) = Along(g, e, n, S)
  BY <1>3, PathSumAlong
<1>7. QED BY <1>5, <1>6 DEF Along

LEMMA PathSumOfNothing == \A f : PathSum(f, {}) = 0
<1> SUFFICES ASSUME NEW f PROVE PathSum(f, {}) = 0
  OBVIOUS
<1>1. Solves([s \in SUBSET {} |-> 0], f, {})
  BY DEF Solves
<1>2. Solves(CHOOSE it : Solves(it, f, {}), f, {})
  BY <1>1
<1>3. QED BY <1>2, PathSumIs DEF Solves

\* One path changes its amount.
LEMMA PathSumChanges ==
    ASSUME NEW S, IsFiniteSet(S), NEW f, NEW g, NEW x \in S, \A y \in S : f[y] \in Nat,
           g[x] \in Nat, \A y \in S : y # x => g[y] = f[y]
    PROVE  PathSum(g, S) = PathSum(f, S) - f[x] + g[x]
<1> DEFINE R == S \ {x}
<1>1. IsFiniteSet(R)
  BY FS_RemoveElement
<1>2. PathSum(g, R) = PathSum(f, R)
  BY <1>1, PathSumSame
<1>3. PathSum(f, S) = f[x] + PathSum(f, R) /\ PathSum(g, S) = g[x] + PathSum(g, R)
  BY PathSumLess
<1>4. PathSum(f, R) \in Nat /\ f[x] \in Nat
  BY <1>1, PathSumIsNat
<1> HIDE DEF R
<1>5. QED BY <1>2, <1>3, <1>4

-----------------------------------------------------------------------------
(* What a node holds *)

Picks(p, list, S) ==
    p = [n \in 0..Len(list) |->
           IF n = 0 THEN <<>> ELSE IF n \in S THEN Append(p[n - 1], list[n]) ELSE p[n - 1]]

PicksUpTo(p, list, S, k) ==
    p = [n \in 0..k |->
           IF n = 0 THEN <<>> ELSE IF n \in S THEN Append(p[n - 1], list[n]) ELSE p[n - 1]]

LEMMA PicksExist ==
    ASSUME NEW list, Len(list) \in Nat, NEW S
    PROVE  \E p : Picks(p, list, S)
<1> DEFINE Bad == {k \in Nat : ~\E p : PicksUpTo(p, list, S, k)}
<1>1. Len(list) \notin Bad => \E p : Picks(p, list, S)
  BY DEF Picks, PicksUpTo
<1>2. SUFFICES ASSUME Bad # {} PROVE FALSE
  BY <1>1
<1>3. PICK k \in Bad : \A j \in Bad : k <= j
  <2>1. Bad \in SUBSET Nat
    OBVIOUS
  <2> HIDE DEF Bad
  <2>2. QED BY <1>2, <2>1, LeastNat
<1>4. k \in Nat /\ ~\E p : PicksUpTo(p, list, S, k)
  BY <1>3
<1>5. k # 0
  <2>1. PicksUpTo([n \in 0..0 |-> <<>>], list, S, 0)
    BY DEF PicksUpTo
  <2>2. QED BY <1>4, <2>1
<1>6. k - 1 \in Nat /\ k - 1 \notin Bad
  <2>1. k - 1 \in Nat /\ ~(k <= k - 1)
    BY <1>4, <1>5
  <2> HIDE DEF Bad
  <2>2. QED BY <1>3, <2>1
<1>7. PICK p : PicksUpTo(p, list, S, k - 1)
  BY <1>6
<1> DEFINE q == [n \in 0..k |-> IF n = k
                                THEN IF k \in S THEN Append(p[k - 1], list[k]) ELSE p[k - 1]
                                ELSE p[n]]
           r == [n \in 0..k |->
                   IF n = 0 THEN <<>> ELSE IF n \in S THEN Append(q[n - 1], list[n]) ELSE q[n - 1]]
<1>8. ASSUME NEW n \in 0..k PROVE q[n] = r[n]
  <2>1. CASE n = k
    <3>1. k - 1 \in 0..k /\ k - 1 # k
      BY <1>4, <1>6
    <3>2. q[k - 1] = p[k - 1]
      BY <3>1
    <3>3. QED BY <1>5, <2>1, <3>2
  <2>2. CASE n # k
    <3>1. n \in 0..(k - 1) /\ (n # 0 => n - 1 \in 0..k /\ n - 1 # k)
      BY <1>4, <2>2
    <3>2. p[n] = IF n = 0 THEN <<>> ELSE IF n \in S THEN Append(p[n - 1], list[n]) ELSE p[n - 1]
      BY <1>7, <3>1 DEF PicksUpTo
    <3>3. q[n] = p[n] /\ (n # 0 => q[n - 1] = p[n - 1])
      BY <2>2, <3>1
    <3>4. QED BY <3>2, <3>3
  <2>3. QED BY <2>1, <2>2
<1>9. q = r
  BY <1>8
<1>10. PicksUpTo(q, list, S, k)
  BY <1>9 DEF PicksUpTo
<1>11. QED BY <1>4, <1>10

\* The recursion of Picked.
LEMMA PickedRecursion ==
    ASSUME NEW list, Len(list) \in Nat, NEW S
    PROVE  \E p : /\ Picked(list, S) = p[Len(list)] /\ p[0] = <<>>
                  /\ \A n \in 1..Len(list) :
                        p[n] = IF n \in S THEN Append(p[n - 1], list[n]) ELSE p[n - 1]
<1> DEFINE p == CHOOSE p : Picks(p, list, S)
<1>1. Picked(list, S) = p[Len(list)]
  BY DEF Picked, Picks
<1>2. Picks(p, list, S)
  BY PicksExist
<1> HIDE DEF p
<1>3. p[0] = <<>>
  BY <1>2 DEF Picks
<1>4. ASSUME NEW n \in 1..Len(list)
      PROVE  p[n] = IF n \in S THEN Append(p[n - 1], list[n]) ELSE p[n - 1]
  <2>1. n \in 0..Len(list) /\ n # 0
    OBVIOUS
  <2>2. QED BY <1>2, <2>1 DEF Picks
<1>5. QED BY <1>1, <1>3, <1>4

\* What is picked comes from the list.
LEMMA PickedFrom ==
    ASSUME NEW X, NEW list, Len(list) \in Nat, NEW S,
           \A i \in 1..Len(list) : i \in S => list[i] \in X
    PROVE  Picked(list, S) \in Seq(X)
<1>1. Len(list) \in Nat /\ \A i \in 1..Len(list) : i \in S => list[i] \in X
  OBVIOUS
<1>2. PICK p : /\ Picked(list, S) = p[Len(list)] /\ p[0] = <<>>
               /\ \A n \in 1..Len(list) :
                     p[n] = IF n \in S THEN Append(p[n - 1], list[n]) ELSE p[n - 1]
  BY <1>1, PickedRecursion
<1> DEFINE k == Len(list)
           T == {n \in 0..k : p[n] \in Seq(X)}
<1>3. k \in Nat
  BY <1>1
<1> HIDE DEF k
<1>4. 0 \in T
  <2>1. p[0] \in Seq(X) /\ 0 \in 0..k
    BY <1>2, <1>3
  <2>2. QED BY <2>1
<1>5. ASSUME NEW n \in 1..k, n - 1 \in T PROVE n \in T
  <2>1. p[n - 1] \in Seq(X) /\ (n \in S => list[n] \in X)
    BY <1>1, <1>5 DEF k
  <2>2. p[n] = IF n \in S THEN Append(p[n - 1], list[n]) ELSE p[n - 1]
    BY <1>2 DEF k
  <2>3. p[n] \in Seq(X)
    BY <2>1, <2>2
  <2>4. QED BY <1>3, <2>3
<1>6. T = 0..k
  <2>1. T \in SUBSET (0..k)
    OBVIOUS
  <2> HIDE DEF T
  <2>2. QED BY <1>3, <1>4, <1>5, <2>1, UpToN
<1>7. k \in T
  BY <1>3, <1>6
<1>8. QED BY <1>2, <1>7 DEF k

Reservations == [path : Nat, peer : Peers, dir : {"in", "out"}, amount : 1..Amount]
PathAmounts == [path : Nat, amount : 1..Amount]

LEMMA MinIs ==
    ASSUME NEW S \in SUBSET Nat, S # {}
    PROVE  Min(S) \in S /\ \A y \in S : Min(S) <= y
BY LeastNat DEF Min

LEMMA WithoutPathType ==
    ASSUME NEW res \in Seq(Reservations), NEW path
    PROVE  WithoutPath(res, path) \in Seq(Reservations)
<1>1. Len(res) \in Nat /\ \A i \in 1..Len(res) : res[i] \in Reservations
  OBVIOUS
<1>2. QED BY <1>1, PickedFrom DEF WithoutPath

LEMMA ReplacedType ==
    ASSUME NEW res, NEW new, NEW C, NEW X, Len(res) \in Nat, Len(new) = Len(res),
           \A i \in 1..Len(res) : i \notin C => res[i] \in X,
           \A i \in 1..Len(res) : i \in C => new[i] \in X
    PROVE  Replaced(res, C, new) \in Seq(X)
<1>1. Picked(res, (1..Len(res)) \ C) \in Seq(X)
  <2>1. \A i \in 1..Len(res) : i \in (1..Len(res)) \ C => res[i] \in X
    OBVIOUS
  <2>2. QED BY <2>1, PickedFrom
<1>2. Picked(new, C) \in Seq(X)
  BY PickedFrom
<1>3. QED BY <1>1, <1>2 DEF Replaced

LEMMA ShortenedType ==
    ASSUME NEW res \in Seq(Reservations), NEW path, NEW amount \in 1..Amount
    PROVE  Shortened(res, path, amount) \in Seq(Reservations)
<1> DEFINE new == [i \in 1..Len(res) |->
                     [res[i] EXCEPT !.amount = amount, !.path = IdAfterErasing(res, i)]]
           C == {i \in 1..Len(res) : res[i].path = path /\ res[i].amount # amount}
<1>1. Len(res) \in Nat /\ \A i \in 1..Len(res) : res[i] \in Reservations
  OBVIOUS
<1>2. ASSUME NEW i \in 1..Len(res) PROVE IdAfterErasing(res, i) \in Nat
  <2> DEFINE after == {j \in (i + 1)..Len(res) : res[j].peer = res[i].peer}
             k == IF after = {} THEN i ELSE Min(after)
  <2>1. after \in SUBSET (1..Len(res)) /\ after \in SUBSET Nat
    OBVIOUS
  <2> HIDE DEF after
  <2>2. k \in 1..Len(res)
    BY <2>1, MinIs
  <2>3. res[k].path \in Nat
    BY <1>1, <2>2 DEF Reservations
  <2>4. QED BY <2>3 DEF IdAfterErasing, after
<1>3. ASSUME NEW i \in 1..Len(res) PROVE new[i] \in Reservations
  BY <1>1, <1>2, <1>3 DEF Reservations
<1>4. Len(new) = Len(res)
  BY <1>1
<1> HIDE DEF new, C
<1>5. Replaced(res, C, new) \in Seq(Reservations)
  BY <1>1, <1>3, <1>4, ReplacedType
<1>6. QED BY <1>5 DEF Shortened, new, C

LEMMA ListedAmountType ==
    ASSUME NEW final \in Seq(PathAmounts), NEW path \in ListedPaths(final)
    PROVE  ListedAmount(final, path) \in 1..Amount
<1> DEFINE at == {i \in 1..Len(final) : final[i].path = path}
           First(i) == final[i].path = path /\ \A j \in 1..(i - 1) : final[j].path # path
           first == CHOOSE i \in 1..Len(final) : First(i)
<1>1. Len(final) \in Nat /\ \A i \in 1..Len(final) : final[i] \in PathAmounts
  OBVIOUS
<1>2. at # {} /\ at \in SUBSET Nat
  BY DEF ListedPaths
<1>3. PICK i \in at : \A j \in at : i <= j
  <2> HIDE DEF at
  <2>1. QED BY <1>2, LeastNat
<1>4. i \in 1..Len(final) /\ final[i].path = path
  BY <1>3
<1>5. ASSUME NEW j \in 1..(i - 1), final[j].path = path PROVE FALSE
  <2>1. j \in at /\ j < i
    BY <1>1, <1>4, <1>5
  <2>2. QED BY <1>3, <1>4, <2>1
<1>6. First(i)
  BY <1>4, <1>5
<1>7. first \in 1..Len(final)
  BY <1>4, <1>6
<1>8. final[first].amount \in 1..Amount
  BY <1>1, <1>7 DEF PathAmounts
<1>9. QED BY <1>8 DEF ListedAmount

LEMMA UpdatedType ==
    ASSUME NEW res \in Seq(Reservations), NEW final \in Seq(PathAmounts)
    PROVE  Updated(res, final) \in Seq(Reservations)
<1> DEFINE X == {r \in Reservations : r.path \in ListedPaths(final)}
           S == {i \in 1..Len(res) : res[i].path \in ListedPaths(final)}
           left == Picked(res, S)
           amount(i) == ListedAmount(final, left[i].path)
           new == [i \in 1..Len(left) |-> [left[i] EXCEPT !.amount = amount(i)]]
           C == {i \in 1..Len(left) : left[i].amount # amount(i)}
<1>1. left \in Seq(X)
  <2>1. Len(res) \in Nat /\ \A i \in 1..Len(res) : i \in S => res[i] \in X
    OBVIOUS
  <2> HIDE DEF S, X
  <2>2. QED BY <2>1, PickedFrom
<1> HIDE DEF left
<1>2. Len(left) \in Nat /\ \A i \in 1..Len(left) : left[i] \in X
  BY <1>1
<1>3. ASSUME NEW i \in 1..Len(left) PROVE new[i] \in Reservations
  <2>1. left[i] \in Reservations /\ left[i].path \in ListedPaths(final)
    BY <1>2
  <2>2. amount(i) \in 1..Amount
    BY <2>1, ListedAmountType
  <2> HIDE DEF amount
  <2>3. QED BY <2>1, <2>2 DEF Reservations
<1>4. Len(new) = Len(left) /\ \A i \in 1..Len(left) : left[i] \in Reservations
  BY <1>2
<1> HIDE DEF new, C
<1>5. Replaced(left, C, new) \in Seq(Reservations)
  BY <1>2, <1>3, <1>4, ReplacedType
<1>6. QED BY <1>5 DEF Updated, new, C, left

-----------------------------------------------------------------------------
(* Types *)

CoStages == {"start", "receiver", "choosing", "neighbour", "remote", "direct", "block",
             "confirming", "voting", "ended"}
NodeSteps == {"none", "reserving", "next", "block", "confirming", "accepted", "voting"}
Kinds == {"init", "initAnswer", "request", "answer", "extend", "extended", "pathAmount", "ttlAnswer",
          "ttlRequest", "confirmation", "final", "hash", "keys"}
Configurations == Seq(PathAmounts)

Routes == UNION {[ids -> Seq(Intermediates)] : ids \in SUBSET Nat}
Owns == UNION {[ids -> Nat] : ids \in SUBSET Nat}

Coordinations ==
    [stage : CoStages, queue : Seq(Nat), paths : Routes, own : Owns, flow : Nat, pos : Nat,
     answered : Seq(Nodes), final : [Nodes -> Configurations], members : SUBSET Nodes,
     confirmed : SUBSET Nodes, inaccessible : SUBSET Nodes, news : BOOLEAN, rebuilt : Nat,
     missing : Nat]

TxRecords ==
       [role : {"none", "intermediate", "receiver"}, step : NodeSteps, await : SUBSET Kinds,
        knows : BOOLEAN, asked : BOOLEAN, last : Nat, res : Seq(Reservations),
        members : SUBSET Nodes, hashes : SUBSET Nodes, receipts : [Peers -> Nat],
        rejecting : BOOLEAN]

\* A node that does not take part, or votes, waits for nothing here; the receiver
\* passes no path on.
Txs == {t \in TxRecords : /\ t.step \in {"none", "voting"} => t.await = {}
                          /\ t.role = "receiver" => t.step # "next" /\ "extend" \notin t.await}

\* A message carries amounts the command allows; what is accepted is not nothing.
MessageOK(m) ==
    /\ m.kind = "request" => /\ m.from \in Peers /\ m.to \in Nodes /\ m.path \in Nat
                             /\ m.amount \in 1..Amount /\ m.final \in Configurations
    /\ m.kind = "answer" => /\ m.from \in Nodes /\ m.path \in Nat
                            /\ m.state = "accepted" => m.amount \in 1..Amount
    /\ m.kind = "extend" => /\ m.path \in Nat /\ m.amount \in 1..Amount /\ m.next \in Nodes
                            /\ m.final \in Configurations
    /\ m.kind = "extended" => /\ m.from \in Nodes /\ m.path \in Nat
                              /\ m.state = "accepted" => m.amount \in 1..Amount
    /\ m.kind = "pathAmount" => m.path \in Nat /\ m.amount \in 0..Amount
    /\ m.kind = "final" => /\ m.list \in Configurations /\ m.members \in SUBSET Nodes
                           /\ m.receipt \in Nat
    /\ m.kind = "hash" => m.from \in Nodes /\ m.receipt \in Nat
    /\ m.kind \in {"ttlRequest", "confirmation"} => m.from \in Nodes

\* What the coordinator holds on its own lines is within the command.
PathsOK(c) ==
    /\ DOMAIN c.own = DOMAIN c.paths /\ IsFiniteSet(DOMAIN c.paths)
    /\ PathSum(c.own, DOMAIN c.paths) <= Amount

\* The paths that are to come are known, each once, and nothing is held for them.
QueueOK(c, first) ==
    /\ \A i \in 1..Len(c.queue) : c.queue[i] \in DOMAIN c.paths
    /\ \A i, j \in 1..Len(c.queue) : c.queue[i] = c.queue[j] => i = j
    /\ \A i \in first..Len(c.queue) : c.own[c.queue[i]] = 0

\* What is left of the path at hand is not more than what the coordinator holds for it.
StageOK(c) ==
    LET id == Head(c.queue) IN
    /\ c.stage \in {"start", "receiver"} => c.members = {}
    /\ c.stage \in {"neighbour", "remote", "direct"} =>
          c.queue # <<>> /\ c.flow > 0 /\ c.flow <= c.own[id]
    /\ c.stage \in {"neighbour", "remote"} => c.paths[id] # <<>>
    /\ c.stage = "remote" => c.pos \in 1..Len(c.paths[id])
    /\ c.stage \in {"block", "confirming", "voting"} => PathSum(c.own, DOMAIN c.paths) = Amount

CoordinationOK(c) ==
    /\ c \in Coordinations /\ PathsOK(c) /\ StageOK(c)
    /\ QueueOK(c, IF c.stage \in {"start", "receiver", "choosing"} THEN 1 ELSE 2)
    /\ c.confirmed \subseteq c.members

TypeInv ==
    /\ CoordinationOK(co)
    /\ tx \in [Nodes -> Txs]
    /\ \A m \in msgs : MessageOK(m)

LEMMA CoordinatorStep ==
    ASSUME TypeInv, NEW taken, NEW c, NEW sent, CoordinatorDoes(taken, c, sent),
           CoordinationOK(c), \A m \in sent : MessageOK(m)
    PROVE  TypeInv'
<1>1. co' = c /\ msgs' = (msgs \ taken) \cup sent /\ UNCHANGED tx
  BY DEF CoordinatorDoes
<1>2. \A m \in msgs' : MessageOK(m)
  BY <1>1 DEF TypeInv
<1>3. tx' \in [Nodes -> Txs]
  BY <1>1 DEF TypeInv
<1>4. CoordinationOK(co')
  BY <1>1
<1>5. QED BY <1>2, <1>3, <1>4 DEF TypeInv

LEMMA NodeStep ==
    ASSUME TypeInv, NEW n \in Nodes, NEW taken, NEW t \in Txs, NEW sent,
           NodeDoes(n, taken, t, sent), \A m \in sent : MessageOK(m)
    PROVE  TypeInv'
<1>1. tx' = [tx EXCEPT ![n] = t] /\ msgs' = (msgs \ taken) \cup sent /\ co' = co
  BY DEF NodeDoes
<1>2. \A m \in msgs' : MessageOK(m)
  BY <1>1 DEF TypeInv
<1>3. tx' \in [Nodes -> Txs]
  BY <1>1 DEF TypeInv
<1>4. CoordinationOK(co')
  BY <1>1 DEF TypeInv
<1>5. QED BY <1>2, <1>3, <1>4 DEF TypeInv

LEMMA Totals ==
    ASSUME NEW c
    PROVE  /\ OwnTotal(c) = PathSum(c.own, DOMAIN c.paths)
           /\ \A n : ToNode(c, n) =
                        PathSum(c.own, {id \in DOMAIN c.paths : NodeAt(c.paths[id], 1) = n})
BY DEF OwnTotal, ToNode, PathSum, MapThenSumSet, MapThenFoldSet

LEMMA RouteNodes ==
    ASSUME NEW route \in Seq(Intermediates), NEW i \in Nat \ {0}
    PROVE  NodeAt(route, i) \in Nodes /\ (i <= Len(route) => route[i] \in Intermediates)
BY DEF NodeAt, Nodes

\* The maps of a coordination.
LEMMA CoordinationMaps ==
    ASSUME NEW c \in Coordinations, PathsOK(c)
    PROVE  /\ DOMAIN c.paths \in SUBSET Nat
           /\ c.paths \in [DOMAIN c.paths -> Seq(Intermediates)]
           /\ c.own \in [DOMAIN c.paths -> Nat]
           /\ PathSum(c.own, DOMAIN c.paths) \in Nat
<1>1. c.paths \in Routes /\ c.own \in Owns
  BY DEF Coordinations
<1>2. PICK ids \in SUBSET Nat : c.paths \in [ids -> Seq(Intermediates)]
  BY <1>1 DEF Routes
<1>3. PICK ids2 \in SUBSET Nat : c.own \in [ids2 -> Nat]
  BY <1>1 DEF Owns
<1>4. DOMAIN c.own = DOMAIN c.paths /\ IsFiniteSet(DOMAIN c.paths)
  BY DEF PathsOK
<1>5. c.own \in [DOMAIN c.paths -> Nat]
  BY <1>3, <1>4
<1>6. \A y \in DOMAIN c.paths : c.own[y] \in Nat
  BY <1>5
<1>7. PathSum(c.own, DOMAIN c.paths) \in Nat
  BY <1>4, <1>6, PathSumIsNat
<1>8. QED BY <1>2, <1>5, <1>7

-----------------------------------------------------------------------------
(* The coordinator *)

LEMMA PathsSame ==
    ASSUME NEW c, NEW d, NEW k, PathsOK(c), QueueOK(c, k),
           d.paths = c.paths, d.own = c.own, d.queue = c.queue
    PROVE  PathsOK(d) /\ QueueOK(d, k)
BY DEF PathsOK, QueueOK

\* switchToNextPath
LEMMA SwitchedOK ==
    ASSUME NEW c \in Coordinations, PathsOK(c), QueueOK(c, 2), c.queue # <<>>,
           c.confirmed \subseteq c.members
    PROVE  CoordinationOK(Switched(c))
<1> DEFINE q == c.queue
           id == Head(q)
           S == DOMAIN c.paths
           stay == IF c.own[id] > 0 THEN S ELSE S \ {id}
           d == Switched(c)
           own == [x \in stay |-> c.own[x]]
           paths == [x \in stay |-> c.paths[x]]
<1>1. /\ S \in SUBSET Nat /\ c.own \in [S -> Nat]
      /\ c.paths \in [S -> Seq(Intermediates)] /\ PathSum(c.own, S) \in Nat
  BY CoordinationMaps
<1>2. IsFiniteSet(S) /\ DOMAIN c.own = S /\ PathSum(c.own, S) <= Amount
  BY DEF PathsOK
<1>3. q \in Seq(Nat) /\ Len(q) \in Nat \ {0} /\ id = q[1] /\ id \in S
  <2>1. q \in Seq(Nat) /\ Len(q) \in Nat \ {0} /\ id = q[1]
    BY DEF Coordinations
  <2>2. QED BY <2>1 DEF QueueOK
<1>4. /\ Tail(q) \in Seq(Nat) /\ Len(Tail(q)) = Len(q) - 1
      /\ \A i \in 1..Len(Tail(q)) : Tail(q)[i] = q[i + 1]
  BY <1>3
<1>5. stay \in SUBSET S /\ IsFiniteSet(stay)
  BY <1>2, FS_RemoveElement
<1>6. own \in [stay -> Nat] /\ paths \in [stay -> Seq(Intermediates)]
  BY <1>1, <1>5
<1>7. PathSum(own, stay) = PathSum(c.own, S)
  <2>1. PathSum(own, stay) = PathSum(c.own, stay)
    <3>1. \A y \in stay : c.own[y] \in Nat /\ own[y] = c.own[y]
      BY <1>1, <1>5
    <3> HIDE DEF stay, own
    <3>2. QED BY <1>5, <3>1, PathSumSame
  <2>2. CASE c.own[id] > 0
    BY <2>1, <2>2
  <2>3. CASE ~(c.own[id] > 0)
    <3>1. c.own[id] = 0 /\ stay = S \ {id}
      BY <1>1, <1>3, <2>3
    <3>2. \A y \in S : c.own[y] \in Nat
      BY <1>1
    <3>3. PathSum(c.own, S) = c.own[id] + PathSum(c.own, S \ {id})
      BY <1>2, <1>3, <3>2, PathSumLess
    <3>4. PathSum(c.own, S \ {id}) \in Nat
      <4>1. IsFiniteSet(S \ {id}) /\ \A y \in S \ {id} : c.own[y] \in Nat
        BY <1>2, <3>2, FS_RemoveElement
      <4>2. QED BY <4>1, PathSumIsNat
    <3> HIDE DEF stay, own
    <3>5. QED BY <2>1, <3>1, <3>3, <3>4
  <2>4. QED BY <2>2, <2>3
<1>8. own \in Owns /\ paths \in Routes
  <2>1. stay \in SUBSET Nat
    BY <1>1, <1>5
  <2> HIDE DEF stay, own, paths
  <2>2. QED BY <1>6, <2>1 DEF Owns, Routes
<1>9. /\ d = [c EXCEPT !.stage = "choosing", !.queue = Tail(q), !.flow = 0, !.pos = 0,
                       !.answered = <<>>, !.paths = paths, !.own = own]
  BY DEF Switched, Coordinations
<1> HIDE DEF own, paths
<1>10. d \in Coordinations /\ d.own = own /\ d.paths = paths /\ d.queue = Tail(q)
       /\ d.stage = "choosing" /\ d.confirmed = c.confirmed /\ d.members = c.members
  <2> DEFINE tail == Tail(q)
  <2>1. tail \in Seq(Nat) /\ <<>> \in Seq(Nodes) /\ "choosing" \in CoStages /\ 0 \in Nat
    BY <1>4 DEF CoStages
  <2> HIDE DEF tail, q
  <2>2. d = [c EXCEPT !.stage = "choosing", !.queue = tail, !.flow = 0, !.pos = 0,
                      !.answered = <<>>, !.paths = paths, !.own = own]
    BY <1>9 DEF tail
  <2> HIDE DEF d
  <2>3. d \in Coordinations
    BY <1>8, <2>1, <2>2 DEF Coordinations
  <2>4. QED BY <2>2, <2>3 DEF Coordinations, tail
<1> HIDE DEF d
<1>11. PathsOK(d)
  BY <1>2, <1>5, <1>6, <1>7, <1>10 DEF PathsOK
<1>12. QueueOK(d, 1)
  <2>1. ASSUME NEW i \in 1..Len(Tail(q))
        PROVE  Tail(q)[i] \in stay /\ own[Tail(q)[i]] = 0
    <3> DEFINE k == i + 1
    <3>1. k \in 2..Len(q) /\ k # 1 /\ 1 \in 1..Len(q) /\ k \in 1..Len(q)
      BY <1>3, <1>4
    <3>2. q[k] \in S /\ q[k] # q[1] /\ c.own[q[k]] = 0
      BY <3>1 DEF QueueOK
    <3>3. q[k] \in stay
      BY <1>3, <3>2
    <3>4. Tail(q)[i] = q[k]
      BY <1>4
    <3>5. QED BY <3>2, <3>3, <3>4 DEF own
  <2>2. ASSUME NEW i \in 1..Len(Tail(q)), NEW j \in 1..Len(Tail(q)), Tail(q)[i] = Tail(q)[j]
        PROVE  i = j
    <3>1. i + 1 \in 1..Len(q) /\ j + 1 \in 1..Len(q) /\ q[i + 1] = q[j + 1]
      BY <1>3, <1>4, <2>2
    <3>2. i + 1 = j + 1
      BY <3>1 DEF QueueOK
    <3>3. QED BY <3>2
  <2>3. DOMAIN paths = stay
    BY <1>6
  <2> HIDE DEF stay
  <2>4. QED BY <1>10, <2>1, <2>2, <2>3 DEF QueueOK
<1>13. StageOK(d)
  BY <1>10 DEF StageOK
<1>14. QED BY <1>10, <1>11, <1>12, <1>13 DEF CoordinationOK, d

\* All the paths of c are in d, and those that come to its queue have other IDs.
MorePaths(c, d) ==
    /\ DOMAIN c.paths \subseteq DOMAIN d.paths
    /\ \A i \in 1..Len(d.queue) : \/ i \in 1..Len(c.queue) /\ d.queue[i] = c.queue[i]
                                 \/ d.queue[i] \notin DOMAIN c.paths

\* addPathForFurtherProcessing
LEMMA WithPathOK ==
    ASSUME NEW c \in Coordinations, PathsOK(c), QueueOK(c, 1), NEW route \in Seq(Intermediates)
    PROVE  LET d == WithPath(c, route) IN
           /\ d \in Coordinations /\ PathsOK(d) /\ QueueOK(d, 1)
           /\ d.stage = c.stage /\ d.confirmed = c.confirmed /\ d.members = c.members
           /\ d.final = c.final /\ MorePaths(c, d)
<1> DEFINE S == DOMAIN c.paths
           size == Cardinality(S)
           free == (0..size) \ S
           id == Min(free)
           paths == WithEntry(c.paths, id, route)
           own == WithEntry(c.own, id, 0)
           queue == Append(c.queue, id)
           d == WithPath(c, route)
           R == S \cup {id}
<1>1. /\ S \in SUBSET Nat /\ c.own \in [S -> Nat]
      /\ c.paths \in [S -> Seq(Intermediates)] /\ PathSum(c.own, S) \in Nat
  BY CoordinationMaps
<1>2. IsFiniteSet(S) /\ PathSum(c.own, S) <= Amount
  BY DEF PathsOK
<1>3. id \in Nat /\ id \notin S
  <2>1. size \in Nat
    BY <1>2, FS_CardinalityType
  <2> HIDE DEF S, size
  <2>2. free # {}
    <3>1. SUFFICES ASSUME free = {} PROVE FALSE
      OBVIOUS
    <3>2. 0..size \in SUBSET S
      BY <3>1
    <3>3. Cardinality(0..size) <= Cardinality(S)
      BY <1>2, <3>2, FS_Subset
    <3>4. Cardinality(0..size) = size - 0 + 1
      BY <2>1, FS_Interval
    <3>5. Cardinality(S) = size
      BY DEF size
    <3>6. QED BY <2>1, <3>3, <3>4, <3>5
  <2>3. free \in SUBSET Nat
    BY <2>1
  <2> HIDE DEF free
  <2>4. id \in free
    BY <2>2, <2>3, MinIs
  <2>5. QED BY <2>3, <2>4 DEF free
<1> HIDE DEF id
<1>4. /\ own \in [R -> Nat] /\ own[id] = 0 /\ \A x \in S : own[x] = c.own[x]
      /\ paths \in [R -> Seq(Intermediates)]
  <2>1. DOMAIN c.own = S
    BY <1>1
  <2>2. own = [x \in R |-> IF x = id THEN 0 ELSE c.own[x]]
    BY <2>1 DEF WithEntry
  <2>3. paths = [x \in R |-> IF x = id THEN route ELSE c.paths[x]]
    BY <1>1 DEF WithEntry
  <2> HIDE DEF own, paths
  <2>4. QED BY <1>1, <1>3, <2>2, <2>3
<1>5. IsFiniteSet(R) /\ R \in SUBSET Nat
  BY <1>1, <1>2, <1>3, FS_AddElement
<1>6. PathSum(own, R) = PathSum(c.own, S)
  <2> DEFINE f == c.own
  <2>1. \A y \in R : own[y] \in Nat
    BY <1>4
  <2>2. id \in R /\ R \ {id} = S
    BY <1>3
  <2>3. (\A y \in S : f[y] \in Nat /\ own[y] = f[y])
    BY <1>1, <1>4
  <2> HIDE DEF R, S, own, f
  <2>4. PathSum(own, R) = own[id] + PathSum(own, R \ {id})
    BY <1>5, <2>1, <2>2, PathSumLess
  <2>5. PathSum(own, S) = PathSum(f, S)
    BY <1>2, <2>3, PathSumSame
  <2>6. PathSum(f, S) \in Nat /\ own[id] = 0
    BY <1>1, <1>4 DEF f
  <2>7. PathSum(own, R) = PathSum(f, S)
    <3> DEFINE total == PathSum(own, R)
               rest == PathSum(own, R \ {id})
    <3>1. rest = PathSum(f, S)
      BY <2>2, <2>5
    <3>2. rest \in Nat /\ own[id] = 0
      BY <2>6, <3>1
    <3>3. total = own[id] + rest
      BY <2>4
    <3> HIDE DEF total, rest
    <3>4. total = rest
      BY <3>2, <3>3
    <3>5. QED BY <3>1, <3>4 DEF total
  <2>8. QED BY <2>7 DEF f
<1>7. own \in Owns /\ paths \in Routes /\ DOMAIN own = R /\ DOMAIN paths = R
  <2> HIDE DEF own, paths, R
  <2>1. QED BY <1>4, <1>5 DEF Owns, Routes
<1>8. /\ queue \in Seq(Nat) /\ Len(queue) = Len(c.queue) + 1 /\ Len(c.queue) \in Nat
      /\ \A i \in 1..Len(queue) : queue[i] = IF i <= Len(c.queue) THEN c.queue[i] ELSE id
  <2> DEFINE q == c.queue
  <2>1. q \in Seq(Nat)
    BY DEF Coordinations
  <2> HIDE DEF q
  <2>2. /\ Append(q, id) \in Seq(Nat) /\ Len(Append(q, id)) = Len(q) + 1 /\ Len(q) \in Nat
        /\ \A i \in 1..Len(Append(q, id)) :
              Append(q, id)[i] = IF i <= Len(q) THEN q[i] ELSE id
    BY <1>3, <2>1
  <2>3. QED BY <2>2 DEF q
<1>9. d = [c EXCEPT !.queue = queue, !.paths = paths, !.own = own]
  BY DEF WithPath, id, Coordinations
<1>10. /\ d \in Coordinations /\ d.own = own /\ d.paths = paths /\ d.queue = queue
       /\ d.stage = c.stage /\ d.confirmed = c.confirmed /\ d.members = c.members
       /\ d.final = c.final /\ d.rebuilt = c.rebuilt
  <2> HIDE DEF own, paths, queue, d
  <2>1. QED BY <1>7, <1>8, <1>9 DEF Coordinations
<1> HIDE DEF own, paths, queue, d
<1>11. PathsOK(d)
  BY <1>2, <1>5, <1>6, <1>7, <1>10 DEF PathsOK
<1>12. QueueOK(d, 1)
  <2>1. ASSUME NEW i \in 1..Len(c.queue) PROVE c.queue[i] \in S /\ c.own[c.queue[i]] = 0
    BY <1>8 DEF QueueOK
  <2>2. ASSUME NEW i \in 1..Len(queue) PROVE queue[i] \in R /\ own[queue[i]] = 0
    <3>1. CASE i <= Len(c.queue)
      <4>1. i \in 1..Len(c.queue) /\ queue[i] = c.queue[i]
        BY <1>8, <3>1
      <4>2. QED BY <1>4, <2>1, <4>1
    <3>2. CASE ~(i <= Len(c.queue))
      BY <1>4, <1>8, <3>2
    <3>3. QED BY <3>1, <3>2
  <2>3. ASSUME NEW i \in 1..Len(queue), NEW j \in 1..Len(queue), queue[i] = queue[j]
        PROVE  i = j
    <3>1. CASE i \in 1..Len(c.queue) /\ j \in 1..Len(c.queue)
      <4>1. queue[i] = c.queue[i]
        BY <1>8, <3>1
      <4>2. queue[j] = c.queue[j]
        BY <1>8, <3>1
      <4>3. c.queue[i] = c.queue[j]
        BY <2>3, <4>1, <4>2
      <4>4. QED BY <3>1, <4>3 DEF QueueOK
    <3>2. CASE i \notin 1..Len(c.queue) /\ j \in 1..Len(c.queue)
      BY <1>3, <1>8, <2>1, <2>3, <3>2
    <3>3. CASE i \in 1..Len(c.queue) /\ j \notin 1..Len(c.queue)
      BY <1>3, <1>8, <2>1, <2>3, <3>3
    <3>4. CASE i \notin 1..Len(c.queue) /\ j \notin 1..Len(c.queue)
      BY <1>8, <3>4
    <3>5. QED BY <3>1, <3>2, <3>3, <3>4
  <2>4. QED BY <1>7, <1>10, <2>2, <2>3 DEF QueueOK
<1>13. \A i \in 1..Len(queue) : \/ i \in 1..Len(c.queue) /\ queue[i] = c.queue[i]
                                \/ queue[i] \notin S
  BY <1>3, <1>8
<1>14. S \subseteq DOMAIN d.paths
  BY <1>7, <1>10
<1>15. MorePaths(c, d)
  BY <1>10, <1>13, <1>14 DEF MorePaths
<1>16. QED BY <1>10, <1>11, <1>12, <1>15 DEF d

AddsUpTo(w, c, routes, k) ==
    w = [i \in 0..k |-> IF i = 0 THEN c ELSE WithPath(w[i - 1], routes[i])]

LEMMA AddsExist ==
    ASSUME NEW c, NEW routes, NEW len \in Nat
    PROVE  \E w : AddsUpTo(w, c, routes, len)
<1> DEFINE Bad == {k \in Nat : ~\E w : AddsUpTo(w, c, routes, k)}
<1>1. SUFFICES ASSUME Bad # {} PROVE FALSE
  OBVIOUS
<1>2. PICK k \in Bad : \A j \in Bad : k <= j
  <2>1. Bad \in SUBSET Nat
    OBVIOUS
  <2> HIDE DEF Bad
  <2>2. QED BY <1>1, <2>1, LeastNat
<1>3. k \in Nat /\ ~\E w : AddsUpTo(w, c, routes, k)
  BY <1>2
<1>4. k # 0
  <2>1. AddsUpTo([i \in 0..0 |-> c], c, routes, 0)
    BY DEF AddsUpTo
  <2>2. QED BY <1>3, <2>1
<1>5. k - 1 \in Nat /\ k - 1 \notin Bad
  <2>1. k - 1 \in Nat /\ ~(k <= k - 1)
    BY <1>3, <1>4
  <2> HIDE DEF Bad
  <2>2. QED BY <1>2, <2>1
<1>6. PICK w : AddsUpTo(w, c, routes, k - 1)
  BY <1>5
<1> DEFINE v == [i \in 0..k |-> IF i = k THEN WithPath(w[k - 1], routes[k]) ELSE w[i]]
           r == [i \in 0..k |-> IF i = 0 THEN c ELSE WithPath(v[i - 1], routes[i])]
<1>7. ASSUME NEW i \in 0..k PROVE v[i] = r[i]
  <2>1. CASE i = k
    <3>1. k - 1 \in 0..k /\ k - 1 # k
      BY <1>3, <1>5
    <3>2. v[k - 1] = w[k - 1]
      BY <3>1
    <3>3. QED BY <1>4, <2>1, <3>2
  <2>2. CASE i # k
    <3>1. i \in 0..(k - 1) /\ (i # 0 => i - 1 \in 0..k /\ i - 1 # k)
      BY <1>3, <2>2
    <3>2. w[i] = IF i = 0 THEN c ELSE WithPath(w[i - 1], routes[i])
      BY <1>6, <3>1 DEF AddsUpTo
    <3>3. v[i] = w[i] /\ (i # 0 => v[i - 1] = w[i - 1])
      BY <2>2, <3>1
    <3>4. QED BY <3>2, <3>3
  <2>3. QED BY <2>1, <2>2
<1>8. v = r
  BY <1>7
<1>9. AddsUpTo(v, c, routes, k)
  BY <1>8 DEF AddsUpTo
<1>10. QED BY <1>3, <1>9

LEMMA WithPathsOK ==
    ASSUME NEW c \in Coordinations, PathsOK(c), QueueOK(c, 1),
           NEW routes \in Seq(Seq(Intermediates))
    PROVE  LET d == WithPaths(c, routes) IN
           /\ d \in Coordinations /\ PathsOK(d) /\ QueueOK(d, 1) /\ d.final = c.final
           /\ d.stage = c.stage /\ d.confirmed = c.confirmed /\ d.members = c.members
           /\ MorePaths(c, d)
<1> DEFINE len == Len(routes)
           w == CHOOSE w : AddsUpTo(w, c, routes, len)
           Good(d) == /\ d \in Coordinations /\ PathsOK(d) /\ QueueOK(d, 1) /\ d.final = c.final
                      /\ d.stage = c.stage /\ d.confirmed = c.confirmed /\ d.members = c.members
                      /\ MorePaths(c, d)
           T == {k \in 0..len : Good(w[k])}
<1>1. len \in Nat /\ \A i \in 1..len : routes[i] \in Seq(Intermediates)
  OBVIOUS
<1>2. WithPaths(c, routes) = w[len]
  BY DEF WithPaths, AddsUpTo
<1> HIDE DEF len
<1>3. AddsUpTo(w, c, routes, len)
  BY <1>1, AddsExist
<1> HIDE DEF w
<1>4. w[0] = c
  BY <1>1, <1>3 DEF AddsUpTo
<1>5. ASSUME NEW i \in 1..len PROVE w[i] = WithPath(w[i - 1], routes[i])
  <2>1. i \in 0..len /\ i # 0
    BY <1>1
  <2>2. QED BY <1>3, <2>1 DEF AddsUpTo
<1>6. 0 \in T
  <2>1. MorePaths(c, c)
    BY DEF MorePaths
  <2>2. QED BY <1>1, <1>4, <2>1
<1>7. ASSUME NEW i \in 1..len, i - 1 \in T PROVE i \in T
  <2>1. Good(w[i - 1])
    BY <1>7
  <2>2. Good(WithPath(w[i - 1], routes[i]))
    <3> DEFINE d == w[i - 1]
               e == WithPath(d, routes[i])
    <3>1. /\ e \in Coordinations /\ PathsOK(e) /\ QueueOK(e, 1) /\ e.final = d.final
          /\ e.stage = d.stage /\ e.confirmed = d.confirmed /\ e.members = d.members
          /\ MorePaths(d, e)
      BY <1>1, <2>1, WithPathOK
    <3> HIDE DEF e
    <3>2. MorePaths(c, e)
      BY <2>1, <3>1 DEF MorePaths
    <3>3. QED BY <2>1, <3>1, <3>2 DEF e
  <2>3. Good(w[i]) /\ i \in 0..len
    BY <1>1, <1>5, <2>2
  <2> HIDE DEF Good
  <2>4. QED BY <2>3
<1>8. T = 0..len
  <2>1. T \in SUBSET (0..len)
    OBVIOUS
  <2> HIDE DEF T
  <2>2. QED BY <1>1, <1>6, <1>7, <2>1, UpToN
<1>9. len \in T
  <2> HIDE DEF T
  <2>1. QED BY <1>1, <1>8
<1>10. Good(w[len])
  BY <1>9
<1>11. QED BY <1>2, <1>10

\* The path at hand.
LEMMA AtHand ==
    ASSUME TypeInv, co.queue # <<>>
    PROVE  /\ co \in Coordinations /\ PathsOK(co) /\ QueueOK(co, 2) /\ co.confirmed \subseteq co.members
           /\ Current \in DOMAIN co.paths /\ Current \in Nat /\ Current = co.queue[1]
           /\ Route \in Seq(Intermediates) /\ co.own[Current] \in Nat
           /\ \A i \in 2..Len(co.queue) : co.queue[i] # Current
           /\ OwnTotal(co) \in Nat /\ OwnTotal(co) <= Amount /\ co.own[Current] <= OwnTotal(co)
           /\ OwnTotal(co) = PathSum(co.own, DOMAIN co.paths)
<1> DEFINE q == co.queue
           S == DOMAIN co.paths
<1>1. co \in Coordinations /\ PathsOK(co) /\ co.confirmed \subseteq co.members
  BY DEF TypeInv, CoordinationOK
<1>2. QueueOK(co, 1) \/ QueueOK(co, 2)
  BY DEF TypeInv, CoordinationOK
<1>3. q \in Seq(Nat) /\ Len(q) \in Nat \ {0} /\ Head(q) = q[1] /\ 1 \in 1..Len(q)
  BY <1>1 DEF Coordinations
<1>4. /\ \A i \in 1..Len(q) : q[i] \in S
      /\ \A i, j \in 1..Len(q) : q[i] = q[j] => i = j
  BY <1>2 DEF QueueOK
<1>5. QueueOK(co, 2)
  <2>1. ASSUME QueueOK(co, 1), NEW i \in 2..Len(q) PROVE co.own[q[i]] = 0
    <3>1. i \in 1..Len(q)
      BY <1>3
    <3>2. QED BY <2>1, <3>1 DEF QueueOK
  <2>2. QED BY <1>2, <1>4, <2>1 DEF QueueOK
<1>6. Current \in S /\ Current = q[1] /\ Current \in Nat
  BY <1>3, <1>4 DEF Current
<1>7. \A i \in 2..Len(q) : q[i] # Current
  <2>1. ASSUME NEW i \in 2..Len(q), q[i] = q[1] PROVE FALSE
    <3>1. i \in 1..Len(q) /\ i # 1
      BY <1>3
    <3>2. QED BY <1>3, <1>4, <2>1, <3>1
  <2>2. QED BY <1>6, <2>1
<1>8. /\ co.own \in [S -> Nat] /\ co.paths \in [S -> Seq(Intermediates)]
      /\ PathSum(co.own, S) \in Nat /\ IsFiniteSet(S) /\ PathSum(co.own, S) <= Amount
  BY <1>1, CoordinationMaps DEF PathsOK
<1>9. Route \in Seq(Intermediates) /\ co.own[Current] \in Nat
  BY <1>6, <1>8 DEF Route
<1>10. OwnTotal(co) = PathSum(co.own, S)
  BY Totals
<1>11. co.own[Current] <= PathSum(co.own, S)
  <2> DEFINE f == co.own
             x == Current
  <2>1. \A y \in S : f[y] \in Nat
    BY <1>8
  <2>2. x \in S
    BY <1>6
  <2> HIDE DEF f, x
  <2>3. PathSum(f, S) = f[x] + PathSum(f, S \ {x})
    BY <1>8, <2>1, <2>2, PathSumLess
  <2>4. PathSum(f, S \ {x}) \in Nat
    <3>1. IsFiniteSet(S \ {x}) /\ \A y \in S \ {x} : f[y] \in Nat
      BY <1>8, <2>1, FS_RemoveElement
    <3>2. QED BY <3>1, PathSumIsNat
  <2> DEFINE rest == PathSum(f, S \ {x})
             total == PathSum(f, S)
  <2>5. f[x] \in Nat /\ rest \in Nat /\ total = f[x] + rest
    BY <2>1, <2>2, <2>3, <2>4
  <2> HIDE DEF rest, total
  <2>6. f[x] <= total
    BY <2>5
  <2>7. QED BY <2>6 DEF f, x, total
<1>12. QED BY <1>1, <1>5, <1>6, <1>7, <1>8, <1>9, <1>10, <1>11

\* The coordinator reserves, shortens or drops its own part of the path at hand.
LEMMA OwnAtHand ==
    ASSUME TypeInv, co.queue # <<>>, NEW amount \in Nat,
           OwnTotal(co) - co.own[Current] + amount <= Amount
    PROVE  LET d == [co EXCEPT !.own[Current] = amount] IN
           /\ d \in Coordinations /\ PathsOK(d) /\ QueueOK(d, 2)
           /\ d.paths = co.paths /\ d.queue = co.queue /\ d.own[Current] = amount
           /\ d.confirmed = co.confirmed /\ d.members = co.members /\ d.final = co.final
<1> DEFINE d == [co EXCEPT !.own[Current] = amount]
           S == DOMAIN co.paths
           f == co.own
           id == Current
           own == [f EXCEPT ![id] = amount]
<1>1. /\ co \in Coordinations /\ PathsOK(co) /\ QueueOK(co, 2)
      /\ Current \in DOMAIN co.paths /\ \A i \in 2..Len(co.queue) : co.queue[i] # Current
      /\ OwnTotal(co) = PathSum(co.own, DOMAIN co.paths)
  BY AtHand
<1>2. /\ d \in Coordinations /\ PathsOK(d) /\ d.own[Current] = amount
      /\ \A x \in DOMAIN co.paths : x # Current => d.own[x] = co.own[x]
      /\ d.paths = co.paths /\ d.queue = co.queue
  <2>1. /\ S \in SUBSET Nat /\ f \in [S -> Nat] /\ IsFiniteSet(S)
        /\ co.paths \in [S -> Seq(Intermediates)]
    <3>1. IsFiniteSet(S)
      BY <1>1 DEF PathsOK
    <3>2. QED BY <1>1, <3>1, CoordinationMaps
  <2>2. PathSum(f, S) \in Nat
    BY <1>1, CoordinationMaps
  <2>3. PathSum(f, S) - f[id] + amount <= Amount /\ id \in S
    BY <1>1
  <2>4. d.own = own /\ d.paths = co.paths /\ d.queue = co.queue /\ (own \in Owns => d \in Coordinations)
    BY <1>1 DEF Coordinations
  <2> HIDE DEF d, S, f, id
  <2>5. own \in [S -> Nat] /\ own[id] = amount /\ \A x \in S : x # id => own[x] = f[x]
    BY <2>1, <2>3
  <2>6. own \in Owns /\ DOMAIN own = S
    BY <2>1, <2>5 DEF Owns
  <2> HIDE DEF own
  <2>7. PathSum(own, S) = PathSum(f, S) - f[id] + own[id]
    <3>1. IsFiniteSet(S) /\ id \in S /\ \A y \in S : f[y] \in Nat
      BY <2>1, <2>3
    <3>2. own[id] \in Nat /\ \A y \in S : y # id => own[y] = f[y]
      BY <2>5
    <3>3. QED BY <3>1, <3>2, PathSumChanges
  <2>8. d.paths = co.paths /\ DOMAIN d.paths = S
    BY <2>4 DEF S
  <2>9. PathSum(own, S) <= Amount
    BY <2>3, <2>5, <2>7
  <2>10. PathsOK(d)
    BY <2>1, <2>4, <2>6, <2>8, <2>9 DEF PathsOK
  <2>11. QED BY <2>4, <2>5, <2>6, <2>10 DEF S, f, id
<1>3. d.confirmed = co.confirmed /\ d.members = co.members /\ d.final = co.final
  BY <1>1 DEF Coordinations
<1> HIDE DEF d
<1>4. ASSUME NEW i \in 2..Len(co.queue) PROVE d.own[co.queue[i]] = 0
  <2>1. i \in 1..Len(co.queue)
    BY <1>1 DEF Coordinations
  <2>2. co.queue[i] \in DOMAIN co.paths /\ co.own[co.queue[i]] = 0
    BY <1>1, <2>1 DEF QueueOK
  <2>3. QED BY <1>1, <1>2, <2>2
<1>5. QueueOK(d, 2)
  BY <1>1, <1>2, <1>4 DEF QueueOK
<1>6. QED BY <1>2, <1>3, <1>5 DEF d

\* To hold nothing for the path at hand is within the command.
LEMMA NothingFits ==
    ASSUME TypeInv, co.queue # <<>>
    PROVE  OwnTotal(co) - co.own[Current] + 0 <= Amount /\ 0 \in Nat
<1> DEFINE total == OwnTotal(co)
           own == co.own[Current]
<1>1. total \in Nat /\ total <= Amount /\ own \in Nat
  BY AtHand
<1>2. Amount \in Nat
  BY ConstantsAssumption
<1> HIDE DEF total, own
<1>3. total - own + 0 <= Amount /\ 0 \in Nat
  BY <1>1, <1>2
<1>4. QED BY <1>3 DEF total, own

\* The coordinator drops the path at hand, notes why, and goes on to the next one.
LEMMA DropsPath ==
    ASSUME TypeInv, co.queue # <<>>, NEW d \in Coordinations,
           d.paths = co.paths, d.queue = co.queue, d.own = Dropped(co).own,
           d.confirmed = co.confirmed, d.members = co.members
    PROVE  CoordinationOK(Switched(d))
<1> DEFINE e == [co EXCEPT !.own[Current] = 0]
<1>1. OwnTotal(co) - co.own[Current] + 0 <= Amount /\ 0 \in Nat
  BY NothingFits
<1>2. /\ PathsOK(e) /\ QueueOK(e, 2) /\ e.paths = co.paths /\ e.queue = co.queue
  BY <1>1, OwnAtHand
<1>3. d.own = e.own
  BY DEF Dropped
<1> HIDE DEF e
<1>4. PathsOK(d) /\ QueueOK(d, 2)
  BY <1>2, <1>3, PathsSame
<1>5. co.confirmed \subseteq co.members
  BY AtHand
<1>6. QED BY <1>4, <1>5, SwitchedOK

LEMMA EndedOK ==
    ASSUME TypeInv
    PROVE  CoordinationOK(Ended(co))
<1> DEFINE d == Ended(co)
<1>1. co \in Coordinations /\ co.confirmed \subseteq co.members
  BY DEF TypeInv, CoordinationOK
<1>2. <<>> \in Seq(Nat) /\ "ended" \in CoStages
  BY DEF CoStages
<1>3. <<>> \in Routes /\ <<>> \in Owns /\ DOMAIN <<>> = {}
  <2>1. <<>> \in [{} -> Seq(Intermediates)] /\ <<>> \in [{} -> Nat] /\ {} \in SUBSET Nat
    OBVIOUS
  <2>2. QED BY <2>1 DEF Routes, Owns
<1>4. /\ d \in Coordinations /\ d.stage = "ended" /\ d.paths = <<>> /\ d.own = <<>>
      /\ d.queue = <<>> /\ d.confirmed = co.confirmed /\ d.members = co.members
  BY <1>1, <1>2, <1>3 DEF Ended, Coordinations
<1> HIDE DEF d
<1>5. PathSum(<<>>, {}) = 0 /\ IsFiniteSet({})
  BY PathSumOfNothing, FS_EmptySet
<1>6. PathsOK(d)
  BY <1>3, <1>4, <1>5, ConstantsAssumption DEF PathsOK
<1>7. QueueOK(d, 2)
  BY <1>4 DEF QueueOK
<1>8. StageOK(d)
  BY <1>4 DEF StageOK
<1>9. QED BY <1>1, <1>4, <1>6, <1>7, <1>8 DEF CoordinationOK, d

LEMMA RejectType ==
    ASSUME TypeInv, NEW taken, Reject(taken)
    PROVE  TypeInv'
<1>1. \A m \in {TTLAnswer(n, FALSE) : n \in co.members} : MessageOK(m)
  BY DEF TTLAnswer, MessageOK
<1>2. QED BY <1>1, EndedOK, CoordinatorStep DEF Reject

LEMMA StartType ==
    ASSUME TypeInv, Start
    PROVE  TypeInv'
<1> DEFINE w == WithPaths(co, FirstPaths)
           d == [w EXCEPT !.stage = "receiver"]
           m == [kind |-> "init", to |-> Receiver]
<1>1. co.stage = "start" /\ CoordinatorDoes({}, d, {m})
  BY DEF Start
<1>2. /\ co \in Coordinations /\ PathsOK(co) /\ QueueOK(co, 1) /\ co.confirmed \subseteq co.members
  BY <1>1 DEF TypeInv, CoordinationOK
<1>3. /\ w \in Coordinations /\ PathsOK(w) /\ QueueOK(w, 1)
      /\ w.confirmed = co.confirmed /\ w.members = co.members
  BY <1>2, WithPathsOK, ConstantsAssumption
<1> HIDE DEF w
<1>4. /\ d \in Coordinations /\ d.stage = "receiver" /\ d.paths = w.paths /\ d.own = w.own
      /\ d.queue = w.queue /\ d.confirmed = w.confirmed /\ d.members = w.members
  BY <1>3 DEF Coordinations, CoStages
<1> HIDE DEF d
<1>5. PathsOK(d) /\ QueueOK(d, 1)
  BY <1>3, <1>4, PathsSame
<1>6. CoordinationOK(d)
  <2>1. co.members = {}
    BY <1>1 DEF TypeInv, CoordinationOK, StageOK
  <2>2. StageOK(d)
    BY <1>3, <1>4, <2>1 DEF StageOK
  <2>3. QED BY <1>2, <1>3, <1>4, <1>5, <2>2 DEF CoordinationOK
<1>7. MessageOK(m)
  BY DEF MessageOK
<1>8. QED BY <1>1, <1>6, <1>7, CoordinatorStep

\* Only the stage and what is not about paths changes.
LEMMA StageMoves ==
    ASSUME TypeInv, NEW c \in Coordinations, c.paths = co.paths, c.own = co.own,
           c.queue = co.queue, c.confirmed \subseteq c.members, StageOK(c),
           \/ co.stage \in {"start", "receiver", "choosing"}
           \/ c.stage \notin {"start", "receiver", "choosing"}
    PROVE  CoordinationOK(c)
<1>1. co \in Coordinations /\ PathsOK(co)
  BY DEF TypeInv, CoordinationOK
<1>2. QueueOK(co, IF co.stage \in {"start", "receiver", "choosing"} THEN 1 ELSE 2)
  BY DEF TypeInv, CoordinationOK
<1>3. QueueOK(co, 1) => QueueOK(co, 2)
  <2>1. co.queue \in Seq(Nat)
    BY <1>1 DEF Coordinations
  <2>2. \A i \in 2..Len(co.queue) : i \in 1..Len(co.queue)
    BY <2>1
  <2>3. QED BY <2>2 DEF QueueOK
<1>4. QueueOK(c, IF c.stage \in {"start", "receiver", "choosing"} THEN 1 ELSE 2)
  BY <1>1, <1>2, <1>3, PathsSame
<1>5. PathsOK(c)
  BY <1>1, <1>2, PathsSame
<1>6. QED BY <1>4, <1>5 DEF CoordinationOK


LEMMA TTLAnswersFit ==
    /\ \A S, b : \A m \in {TTLAnswer(n, b) : n \in S} : MessageOK(m)
    /\ \A n, b : MessageOK(TTLAnswer(n, b))
BY DEF TTLAnswer, MessageOK
\* The path that the coordinator works on.
LEMMA AtWork ==
    ASSUME TypeInv, co.stage \in {"neighbour", "remote", "direct"}
    PROVE  /\ co.queue # <<>> /\ co.flow \in 1..Amount /\ co.flow <= co.own[Current]
           /\ co.stage \in {"neighbour", "remote"} => Len(Route) \in Nat \ {0}
           /\ co.stage = "remote" => co.pos \in 1..Len(Route)
<1>1. StageOK(co) /\ co \in Coordinations
  BY DEF TypeInv, CoordinationOK
<1>2. co.queue # <<>> /\ co.flow > 0 /\ co.flow <= co.own[Current] /\ co.flow \in Nat
  BY <1>1 DEF StageOK, Current, Coordinations
<1>3. co.own[Current] \in Nat /\ co.own[Current] <= OwnTotal(co) /\ OwnTotal(co) \in Nat
      /\ OwnTotal(co) <= Amount /\ Route \in Seq(Intermediates)
  BY <1>2, AtHand
<1>4. co.flow \in 1..Amount
  <2> DEFINE flow == co.flow
             own == co.own[Current]
             total == OwnTotal(co)
  <2>1. flow \in Nat /\ own \in Nat /\ total \in Nat /\ flow > 0 /\ flow <= own
        /\ own <= total /\ total <= Amount
    BY <1>2, <1>3
  <2> HIDE DEF flow, own, total
  <2>2. flow \in 1..Amount
    BY <2>1, ConstantsAssumption
  <2>3. QED BY <2>2 DEF flow
<1>5. co.stage \in {"neighbour", "remote"} => Route # <<>>
  BY <1>1 DEF StageOK, Route, Current
<1>6. co.stage = "remote" => co.pos \in 1..Len(Route)
  BY <1>1 DEF StageOK, Route, Current
<1>7. QED BY <1>2, <1>3, <1>4, <1>5, <1>6

\* What an answer leaves of the path at hand is taken over, or not.
LEMMA Shortens ==
    ASSUME TypeInv, co.stage \in {"neighbour", "remote", "direct"}, NEW amount \in 1..co.flow,
           NEW own, own = [co.own EXCEPT ![Current] = amount] \/ own = co.own
    PROVE  /\ amount \in 1..Amount /\ own \in Owns /\ amount <= own[Current]
           /\ \A d : d.paths = co.paths /\ d.queue = co.queue /\ d.own = own
                     => PathsOK(d) /\ QueueOK(d, 2)
<1>1. /\ co.queue # <<>> /\ co.flow \in 1..Amount /\ co.flow <= co.own[Current]
  BY AtWork
<1>2. /\ co \in Coordinations /\ PathsOK(co) /\ QueueOK(co, 2) /\ Current \in DOMAIN co.paths
      /\ co.own[Current] \in Nat /\ OwnTotal(co) \in Nat /\ OwnTotal(co) <= Amount
      /\ co.own[Current] <= OwnTotal(co)
  BY <1>1, AtHand
<1>3. amount \in Nat /\ amount \in 1..Amount /\ amount <= co.own[Current]
      /\ OwnTotal(co) - co.own[Current] + amount <= Amount
  <2> DEFINE f == co.flow
             o == co.own[Current]
             total == OwnTotal(co)
  <2>1. f \in 1..Amount /\ f <= o /\ o \in Nat /\ total \in Nat /\ total <= Amount /\ amount \in 1..f
        /\ Amount \in Nat
    BY <1>1, <1>2, ConstantsAssumption
  <2> HIDE DEF f, o, total
  <2>2. amount \in Nat /\ amount \in 1..Amount /\ amount <= o /\ total - o + amount <= Amount
    BY <2>1
  <2>3. QED BY <2>2 DEF o, total
<1>4. CASE own = co.own
  <2>1. own \in Owns
    BY <1>2, <1>4 DEF Coordinations
  <2>2. \A d : d.paths = co.paths /\ d.queue = co.queue /\ d.own = own
               => PathsOK(d) /\ QueueOK(d, 2)
    BY <1>2, <1>4, PathsSame
  <2>3. QED BY <1>3, <1>4, <2>1, <2>2
<1>5. CASE own = [co.own EXCEPT ![Current] = amount]
  <2> DEFINE e == [co EXCEPT !.own[Current] = amount]
  <2>1. /\ e \in Coordinations /\ PathsOK(e) /\ QueueOK(e, 2)
        /\ e.paths = co.paths /\ e.queue = co.queue /\ e.own[Current] = amount
    BY <1>1, <1>3, OwnAtHand
  <2>2. e.own = own
    BY <1>2, <1>5 DEF Coordinations
  <2> HIDE DEF e
  <2>3. own \in Owns
    BY <2>1, <2>2 DEF Coordinations
  <2>4. \A d : d.paths = co.paths /\ d.queue = co.queue /\ d.own = own
               => PathsOK(d) /\ QueueOK(d, 2)
    BY <2>1, <2>2, PathsSame
  <2>5. QED BY <1>3, <2>1, <2>2, <2>3, <2>4
<1>6. QED BY <1>4, <1>5
LEMMA ReceiverHeardType ==
    ASSUME TypeInv, ReceiverAnswers \/ ReceiverSilent
    PROVE  TypeInv'
<1> DEFINE d == [co EXCEPT !.stage = "choosing", !.members = {Receiver}]
<1>1. co.stage = "receiver" /\ \E taken : \/ CoordinatorDoes(taken, d, {})
                                          \/ CoordinatorDoes(taken, Ended(co), {})
  <2>1. CASE ReceiverAnswers
    <3>1. PICK m \in Mail("initAnswer") :
             CoordinatorDoes({m}, IF m.ok THEN d ELSE Ended(co), {})
      BY <2>1 DEF ReceiverAnswers
    <3>2. QED BY <2>1, <3>1 DEF ReceiverAnswers
  <2>2. CASE ReceiverSilent
    BY <2>2 DEF ReceiverSilent
  <2>3. QED BY <2>1, <2>2
<1>2. co \in Coordinations /\ co.confirmed = {}
  BY <1>1 DEF TypeInv, CoordinationOK, StageOK
<1>3. /\ d \in Coordinations /\ d.stage = "choosing" /\ d.paths = co.paths /\ d.own = co.own
      /\ d.queue = co.queue /\ d.confirmed \subseteq d.members
  BY <1>2 DEF Coordinations, CoStages, Nodes
<1> HIDE DEF d
<1>4. StageOK(d)
  BY <1>3 DEF StageOK
<1>5. CoordinationOK(d)
  BY <1>1, <1>3, <1>4, StageMoves
<1>6. QED BY <1>1, <1>5, EndedOK, CoordinatorStep

LEMMA ReserveOwnType ==
    ASSUME TypeInv, ReserveOwn
    PROVE  TypeInv'
<1> DEFINE first == NodeAt(Route, 1)
           final == IF Route = <<>> THEN <<>> ELSE co.final[first]
           stage == IF Route = <<>> THEN "direct" ELSE "neighbour"
<1>1. /\ co.stage = "choosing" /\ co.queue # <<>>
      /\ \E g \in 1..(Amount - OwnTotal(co)) :
            CoordinatorDoes({}, [co EXCEPT !.own[Current] = g, !.flow = g, !.stage = stage],
                            {Request(Coordinator, first, Current, g, final)})
  BY DEF ReserveOwn
<1>2. PICK grant \in 1..(Amount - OwnTotal(co)) :
          CoordinatorDoes({}, [co EXCEPT !.own[Current] = grant, !.flow = grant, !.stage = stage],
                          {Request(Coordinator, first, Current, grant, final)})
  BY <1>1
<1>3. /\ co \in Coordinations /\ Route \in Seq(Intermediates) /\ Current \in Nat
      /\ OwnTotal(co) \in Nat /\ OwnTotal(co) <= Amount /\ co.confirmed \subseteq co.members
      /\ Current = co.queue[1] /\ Current = Head(co.queue)
  BY <1>1, AtHand DEF Current
<1>4. co.own[Current] = 0
  <2>1. QueueOK(co, 1) /\ 1 \in 1..Len(co.queue)
    BY <1>1, <1>3 DEF TypeInv, CoordinationOK, Coordinations
  <2>2. QED BY <1>3, <2>1 DEF QueueOK
<1>5. grant \in Nat /\ grant > 0 /\ grant \in 1..Amount
      /\ OwnTotal(co) - co.own[Current] + grant <= Amount
  <2> DEFINE total == OwnTotal(co)
  <2>1. total \in Nat /\ grant \in 1..(Amount - total) /\ Amount \in Nat
    BY <1>3, ConstantsAssumption
  <2> HIDE DEF total
  <2>2. grant \in Nat /\ grant > 0 /\ grant \in 1..Amount /\ total - 0 + grant <= Amount
    BY <2>1
  <2>3. QED BY <1>4, <2>2 DEF total
<1> DEFINE e == [co EXCEPT !.own[Current] = grant]
           d == [co EXCEPT !.own[Current] = grant, !.flow = grant, !.stage = stage]
<1>6. /\ e \in Coordinations /\ PathsOK(e) /\ QueueOK(e, 2)
      /\ e.paths = co.paths /\ e.queue = co.queue /\ e.own[Current] = grant
      /\ e.confirmed = co.confirmed /\ e.members = co.members
  BY <1>1, <1>5, OwnAtHand
<1>7. d = [e EXCEPT !.flow = grant, !.stage = stage]
  BY <1>3 DEF Coordinations
<1> HIDE DEF e
<1>8. /\ d \in Coordinations /\ d.stage = stage /\ d.flow = grant /\ d.paths = e.paths
      /\ d.own = e.own /\ d.queue = e.queue /\ d.confirmed = e.confirmed /\ d.members = e.members
  <2>1. stage \in CoStages
    BY DEF CoStages
  <2> HIDE DEF d, stage
  <2>2. QED BY <1>5, <1>6, <1>7, <2>1 DEF Coordinations
<1> HIDE DEF d
<1>9. PathsOK(d) /\ QueueOK(d, 2)
  BY <1>6, <1>8, PathsSame
<1>10. StageOK(d)
  <2>1. d.flow > 0 /\ d.flow <= d.own[Current]
    BY <1>5, <1>6, <1>8
  <2>2. stage = "neighbour" => d.paths[Current] # <<>>
    BY <1>6, <1>8 DEF Route
  <2>3. Head(d.queue) = Current /\ d.queue # <<>>
    BY <1>1, <1>3, <1>6, <1>8
  <2>4. stage \in {"neighbour", "direct"}
    OBVIOUS
  <2> HIDE DEF stage
  <2>5. QED BY <1>8, <2>1, <2>2, <2>3, <2>4 DEF StageOK
<1>11. CoordinationOK(d)
  <2>1. d.stage \in {"neighbour", "direct"}
    BY <1>8
  <2>2. QED BY <1>3, <1>6, <1>8, <1>9, <1>10, <2>1 DEF CoordinationOK
<1>12. MessageOK(Request(Coordinator, first, Current, grant, final))
  <2>1. first \in Nodes /\ Coordinator \in Peers
    BY <1>3, RouteNodes DEF Peers
  <2> HIDE DEF first
  <2>2. final \in Configurations
    <3>1. <<>> \in Configurations /\ co.final[first] \in Configurations
      BY <1>3, <2>1 DEF Configurations, Coordinations
    <3>2. QED BY <3>1
  <2> HIDE DEF final
  <2>3. QED BY <1>3, <1>5, <2>1, <2>2 DEF Request, MessageOK
<1>13. QED BY <1>2, <1>11, <1>12, CoordinatorStep DEF d

\* The path at hand is dropped, for one of the reasons there are.
LEMMA DropsOK ==
    ASSUME TypeInv, co.queue # <<>>
    PROVE  /\ \A news \in BOOLEAN : CoordinationOK(Switched([Dropped(co) EXCEPT !.news = news]))
           /\ CoordinationOK(Switched([Dropped(co) EXCEPT !.missing = @ + 1]))
           /\ \A n \in Nodes :
                 CoordinationOK(Switched([Dropped(co) EXCEPT !.news = TRUE,
                                                             !.inaccessible = @ \cup {n}]))
<1> DEFINE c == Dropped(co)
<1>1. OwnTotal(co) - co.own[Current] + 0 <= Amount /\ 0 \in Nat
  BY NothingFits
<1>2. c \in Coordinations /\ c.paths = co.paths /\ c.queue = co.queue
      /\ c.confirmed = co.confirmed /\ c.members = co.members
  BY <1>1, OwnAtHand DEF Dropped
<1>3. ASSUME NEW d \in Coordinations, d.paths = c.paths, d.queue = c.queue, d.own = c.own,
             d.confirmed = c.confirmed, d.members = c.members
      PROVE  CoordinationOK(Switched(d))
  BY <1>2, <1>3, DropsPath
<1> HIDE DEF c
<1>4. ASSUME NEW news \in BOOLEAN PROVE CoordinationOK(Switched([c EXCEPT !.news = news]))
  <2> DEFINE d == [c EXCEPT !.news = news]
  <2>1. d \in Coordinations /\ d.paths = c.paths /\ d.queue = c.queue /\ d.own = c.own
        /\ d.confirmed = c.confirmed /\ d.members = c.members
    BY <1>2 DEF Coordinations
  <2> HIDE DEF d
  <2>2. QED BY <1>3, <2>1 DEF d
<1>5. CoordinationOK(Switched([c EXCEPT !.missing = @ + 1]))
  <2> DEFINE k == c.missing + 1
             d == [c EXCEPT !.missing = k]
  <2>1. k \in Nat
    <3>1. c.missing \in Nat
      BY <1>2 DEF Coordinations
    <3>2. QED BY <3>1
  <2> HIDE DEF k
  <2>2. d \in Coordinations /\ d.paths = c.paths /\ d.queue = c.queue /\ d.own = c.own
        /\ d.confirmed = c.confirmed /\ d.members = c.members
    BY <1>2, <2>1 DEF Coordinations
  <2> HIDE DEF d
  <2>3. CoordinationOK(Switched(d))
    BY <1>3, <2>2
  <2>4. QED BY <2>3 DEF d, k
<1>6. ASSUME NEW n \in Nodes
      PROVE  CoordinationOK(Switched([c EXCEPT !.news = TRUE, !.inaccessible = @ \cup {n}]))
  <2> DEFINE d == [c EXCEPT !.news = TRUE, !.inaccessible = @ \cup {n}]
  <2>1. d \in Coordinations /\ d.paths = c.paths /\ d.queue = c.queue /\ d.own = c.own
        /\ d.confirmed = c.confirmed /\ d.members = c.members
    BY <1>2 DEF Coordinations
  <2> HIDE DEF d
  <2>2. QED BY <1>3, <2>1 DEF d
<1>7. QED BY <1>4, <1>5, <1>6 DEF c

LEMMA CannotReserveOwnType ==
    ASSUME TypeInv, CannotReserveOwn
    PROVE  TypeInv'
<1>1. PICK news \in {co.news, Route # <<>>} :
         CoordinatorDoes({}, Switched([Dropped(co) EXCEPT !.news = @ \/ news]), {})
  BY DEF CannotReserveOwn
<1>2. co.queue # <<>>
  BY DEF CannotReserveOwn
<1>3. CoordinationOK(Switched([Dropped(co) EXCEPT !.news = @ \/ news]))
  <2> DEFINE b == Dropped(co).news \/ news
  <2>1. b \in BOOLEAN
    OBVIOUS
  <2> HIDE DEF b
  <2>2. CoordinationOK(Switched([Dropped(co) EXCEPT !.news = b]))
    BY <1>2, <2>1, DropsOK
  <2>3. QED BY <2>2 DEF b
<1>4. QED BY <1>1, <1>3, CoordinatorStep

LEMMA RebuildPathsType ==
    ASSUME TypeInv, RebuildPaths
    PROVE  TypeInv'
<1>1. /\ co.stage = "choosing" /\ co.queue = <<>>
      /\ \E routes \in RebuiltPaths :
            CoordinatorDoes({}, [WithPaths(co, routes) EXCEPT !.news = FALSE, !.rebuilt = @ + 1], {})
  BY DEF RebuildPaths
<1>2. PICK routes \in RebuiltPaths :
         CoordinatorDoes({}, [WithPaths(co, routes) EXCEPT !.news = FALSE, !.rebuilt = @ + 1], {})
  BY <1>1
<1>3. /\ co \in Coordinations /\ PathsOK(co) /\ QueueOK(co, 1) /\ co.confirmed \subseteq co.members
  BY <1>1 DEF TypeInv, CoordinationOK
<1> DEFINE w == WithPaths(co, routes)
           k == w.rebuilt + 1
           d == [w EXCEPT !.news = FALSE, !.rebuilt = k]
<1>4. /\ w \in Coordinations /\ PathsOK(w) /\ QueueOK(w, 1)
      /\ w.stage = co.stage /\ w.confirmed = co.confirmed /\ w.members = co.members
  <2>1. routes \in Seq(Seq(Intermediates))
    BY ConstantsAssumption
  <2>2. QED BY <1>3, <2>1, WithPathsOK
<1> HIDE DEF w
<1>5. /\ d \in Coordinations /\ d.stage = w.stage /\ d.paths = w.paths /\ d.own = w.own
      /\ d.queue = w.queue /\ d.confirmed = w.confirmed /\ d.members = w.members
  <2>1. k \in Nat
    <3>1. w.rebuilt \in Nat
      BY <1>4 DEF Coordinations
    <3>2. QED BY <3>1
  <2> HIDE DEF k
  <2>2. QED BY <1>4, <2>1 DEF Coordinations
<1> HIDE DEF d
<1>6. PathsOK(d) /\ QueueOK(d, 1)
  BY <1>4, <1>5, PathsSame
<1>7. StageOK(d)
  BY <1>1, <1>4, <1>5 DEF StageOK
<1>8. CoordinationOK(d)
  BY <1>1, <1>3, <1>4, <1>5, <1>6, <1>7 DEF CoordinationOK
<1>9. QED BY <1>2, <1>8, CoordinatorStep DEF d, w
\* What the final configuration of the nodes gets for a path that is finished.
LEMMA PathFinishedType ==
    ASSUME TypeInv, NEW c \in Coordinations, PathsOK(c), QueueOK(c, 2), c.queue = co.queue,
           c.queue # <<>>, c.confirmed \subseteq c.members, c.flow \in 1..Amount,
           NEW taken, NEW sent, PathFinished(c, taken, sent), \A m \in sent : MessageOK(m)
    PROVE  TypeInv'
<1> DEFINE entry == PathAmount(Current, c.flow)
           passed == ToSet(c.answered)
           times(n) == Cardinality({i \in 1..Len(c.answered) : c.answered[i] = n})
                         + (IF n = Receiver THEN 1 ELSE 0)
           members == c.members \cup passed
           final == [n \in Nodes |-> c.final[n] \o [k \in 1..times(n) |-> entry]]
           done == [c EXCEPT !.members = members, !.final = final]
           block == [done EXCEPT !.stage = "block"]
<1>1. CoordinatorDoes(taken, IF OwnTotal(c) = Amount THEN block ELSE Switched(done), sent)
  BY DEF PathFinished
<1>2. c.answered \in Seq(Nodes) /\ c.final \in [Nodes -> Configurations]
      /\ c.members \in SUBSET Nodes /\ c.queue \in Seq(Nat)
  BY DEF Coordinations
<1>3. members \in SUBSET Nodes
  BY <1>2 DEF ToSet
<1>4. entry \in PathAmounts
  <2>1. Current \in Nat
    BY <1>2 DEF Current
  <2>2. QED BY <2>1 DEF PathAmount, PathAmounts
<1>5. final \in [Nodes -> Configurations]
  <2>1. ASSUME NEW n \in Nodes PROVE c.final[n] \o [k \in 1..times(n) |-> entry] \in Configurations
    <3> DEFINE len == Len(c.answered)
               at == {i \in 1..len : c.answered[i] = n}
               some == [k \in 1..times(n) |-> entry]
    <3>1. len \in Nat
      BY <1>2
    <3>2. IsFiniteSet(1..len)
      BY <3>1, FS_Interval
    <3>3. at \in SUBSET (1..len)
      OBVIOUS
    <3>4. Cardinality(at) \in Nat
      <4> HIDE DEF at
      <4>1. IsFiniteSet(at)
        BY <3>2, <3>3, FS_Subset
      <4>2. QED BY <4>1, FS_CardinalityType
    <3>5. times(n) \in Nat
      BY <3>4
    <3> HIDE DEF times, entry
    <3>6. some \in Seq(PathAmounts)
      BY <1>4, <3>5
    <3>7. c.final[n] \in Seq(PathAmounts)
      BY <1>2 DEF Configurations
    <3> HIDE DEF some
    <3>8. c.final[n] \o some \in Seq(PathAmounts)
      BY <3>6, <3>7
    <3>9. QED BY <3>8 DEF some, Configurations
  <2> HIDE DEF times, entry
  <2>2. QED BY <2>1
<1> HIDE DEF members, final, entry, passed, times
<1>6. /\ done \in Coordinations /\ done.stage = c.stage /\ done.paths = c.paths
      /\ done.own = c.own /\ done.queue = c.queue /\ done.confirmed = c.confirmed
      /\ done.members = members
  BY <1>3, <1>5 DEF Coordinations
<1>7. done.confirmed \subseteq done.members
  BY <1>6 DEF members
<1> HIDE DEF done
<1>8. PathsOK(done) /\ QueueOK(done, 2)
  BY <1>6, PathsSame
<1>9. CASE OwnTotal(c) = Amount
  <2>1. /\ block \in Coordinations /\ block.stage = "block" /\ block.paths = done.paths
        /\ block.own = done.own /\ block.queue = done.queue /\ block.confirmed = done.confirmed
        /\ block.members = done.members
    BY <1>6 DEF Coordinations, CoStages
  <2> HIDE DEF block
  <2>2. PathsOK(block) /\ QueueOK(block, 2)
    BY <1>8, <2>1, PathsSame
  <2>3. PathSum(c.own, DOMAIN c.paths) = Amount
    BY <1>9, Totals
  <2>4. StageOK(block)
    BY <1>6, <2>1, <2>3 DEF StageOK
  <2>5. CoordinationOK(block)
    BY <1>7, <2>1, <2>2, <2>4 DEF CoordinationOK
  <2>6. QED BY <1>1, <1>9, <2>5, CoordinatorStep
<1>10. CASE OwnTotal(c) # Amount
  <2>1. CoordinationOK(Switched(done))
    BY <1>6, <1>7, <1>8, SwitchedOK
  <2>2. QED BY <1>1, <1>10, <2>1, CoordinatorStep
<1>11. QED BY <1>9, <1>10

LEMMA DropMessagesFit ==
    ASSUME TypeInv, co.queue # <<>>
    PROVE  \A k : \A m \in DropMessages(k) : MessageOK(m)
<1>1. Current \in Nat /\ 0 \in 0..Amount
  BY AtHand, ConstantsAssumption
<1>2. QED BY <1>1 DEF DropMessages, FinalPath, MessageOK

LEMMA NeighbourSilentType ==
    ASSUME TypeInv, NeighbourSilent
    PROVE  TypeInv'
<1>1. /\ co.stage = "neighbour"
      /\ CoordinatorDoes({}, Switched([Dropped(co) EXCEPT !.news = TRUE,
                                                          !.inaccessible = @ \cup {Route[1]}]),
                         {TTLAnswer(Receiver, TRUE)})
  BY DEF NeighbourSilent
<1>2. co.queue # <<>> /\ Len(Route) \in Nat \ {0}
  BY <1>1, AtWork
<1>3. Route[1] \in Nodes
  <2>1. Route \in Seq(Intermediates) /\ 1 <= Len(Route)
    BY <1>2, AtHand
  <2>2. QED BY <2>1, RouteNodes DEF Nodes
<1>4. CoordinationOK(Switched([Dropped(co) EXCEPT !.news = TRUE,
                                                  !.inaccessible = @ \cup {Route[1]}]))
  BY <1>2, <1>3, DropsOK
<1>5. QED BY <1>1, <1>4, CoordinatorStep, TTLAnswersFit

LEMMA IgnoresType ==
    ASSUME TypeInv, NEW taken, NEW sent, CoordinatorDoes(taken, co, sent),
           \A m \in sent : MessageOK(m)
    PROVE  TypeInv'
BY CoordinatorStep DEF TypeInv

LEMMA NeighbourAnswersType ==
    ASSUME TypeInv, NeighbourAnswers
    PROVE  TypeInv'
<1>1. co.stage = "neighbour"
  BY DEF NeighbourAnswers
<1>2. PICK m \in Mail("answer") :
         /\ m.to = Coordinator
         /\ \/ m.path # Current /\ CoordinatorDoes({m}, co, {})
            \/ m.path = Current /\ m.state = "closed" /\ Reject({m})
            \/ /\ m.path = Current /\ m.state = "rejected"
               /\ CoordinatorDoes({m}, Switched([Dropped(co) EXCEPT !.news = TRUE]), {})
            \/ m.path = Current /\ m.state = "accepted" /\ m.amount > co.flow /\ Reject({m})
            \/ /\ m.path = Current /\ m.state = "accepted" /\ m.amount <= co.flow
               /\ CoordinatorDoes({m},
                     [co EXCEPT !.stage = "remote", !.pos = 1, !.flow = m.amount,
                                !.own[Current] = IF m.from = Route[1] THEN m.amount ELSE @],
                     {Extend(Route[1], Current, m.amount, NodeAt(Route, 2), co.final[NodeAt(Route, 2)])})
  BY DEF NeighbourAnswers
<1>3. /\ co.queue # <<>> /\ co.flow \in 1..Amount /\ Len(Route) \in Nat \ {0}
  BY <1>1, AtWork
<1>4. /\ co \in Coordinations /\ Route \in Seq(Intermediates) /\ Current \in Nat
      /\ co.confirmed \subseteq co.members
  BY <1>3, AtHand
<1>5. CASE CoordinatorDoes({m}, co, {})
  BY <1>5, IgnoresType
<1>6. CASE Reject({m})
  BY <1>6, RejectType
<1>7. CASE CoordinatorDoes({m}, Switched([Dropped(co) EXCEPT !.news = TRUE]), {})
  <2>1. CoordinationOK(Switched([Dropped(co) EXCEPT !.news = TRUE]))
    BY <1>3, DropsOK
  <2>2. QED BY <1>7, <2>1, CoordinatorStep
<1>8. CASE /\ m.path = Current /\ m.state = "accepted" /\ m.amount <= co.flow
           /\ CoordinatorDoes({m},
                 [co EXCEPT !.stage = "remote", !.pos = 1, !.flow = m.amount,
                            !.own[Current] = IF m.from = Route[1] THEN m.amount ELSE @],
                 {Extend(Route[1], Current, m.amount, NodeAt(Route, 2), co.final[NodeAt(Route, 2)])})
  <2>1. m.amount \in 1..Amount
    BY <1>2, <1>8 DEF TypeInv, MessageOK, Mail
  <2> DEFINE amount == m.amount
             own == [co.own EXCEPT ![Current] = IF m.from = Route[1] THEN m.amount ELSE @]
             d == [co EXCEPT !.stage = "remote", !.pos = 1, !.flow = m.amount,
                             !.own[Current] = IF m.from = Route[1] THEN m.amount ELSE @]
  <2>2. amount \in 1..co.flow /\ amount \in Nat /\ amount > 0
    <3> DEFINE f == co.flow
    <3>1. f \in Nat /\ amount \in 1..Amount /\ amount <= f /\ Amount \in Nat
      BY <1>3, <1>8, <2>1, ConstantsAssumption
    <3> HIDE DEF f, amount
    <3>2. QED BY <3>1 DEF f
  <2>3. own = [co.own EXCEPT ![Current] = amount] \/ own = co.own
    BY <1>4 DEF Coordinations, Owns
  <2>4. d = [co EXCEPT !.stage = "remote", !.pos = 1, !.flow = amount, !.own = own]
    BY <1>4 DEF Coordinations
  <2> HIDE DEF own, amount, d
  <2>5. /\ own \in Owns /\ amount <= own[Current]
        /\ \A c : c.paths = co.paths /\ c.queue = co.queue /\ c.own = own
                  => PathsOK(c) /\ QueueOK(c, 2)
    BY <1>1, <2>2, <2>3, Shortens
  <2>6. /\ d \in Coordinations /\ d.stage = "remote" /\ d.pos = 1 /\ d.flow = amount
        /\ d.own = own /\ d.paths = co.paths /\ d.queue = co.queue
        /\ d.confirmed = co.confirmed /\ d.members = co.members
    BY <1>4, <2>2, <2>4, <2>5 DEF Coordinations, CoStages
  <2>7. StageOK(d)
    <3>1. Head(d.queue) = Current /\ d.paths[Current] = Route /\ d.queue # <<>>
      BY <1>3, <2>6 DEF Current, Route
    <3>2. Route # <<>> /\ 1 \in 1..Len(Route)
      BY <1>3, <1>4
    <3>3. QED BY <2>2, <2>5, <2>6, <3>1, <3>2 DEF StageOK
  <2>8. CoordinationOK(d)
    BY <1>4, <2>5, <2>6, <2>7 DEF CoordinationOK
  <2> DEFINE next == NodeAt(Route, 2)
             e == Extend(Route[1], Current, m.amount, next, co.final[next])
  <2>9. MessageOK(e)
    <3>1. next \in Nodes
      BY <1>4, RouteNodes
    <3> HIDE DEF next
    <3>2. co.final[next] \in Configurations
      BY <1>4, <3>1 DEF Coordinations
    <3>3. QED BY <1>4, <2>1, <3>1, <3>2 DEF Extend, MessageOK
  <2> HIDE DEF e
  <2>10. CoordinatorDoes({m}, d, {e})
    BY <1>8 DEF d, e
  <2>11. QED BY <2>8, <2>9, <2>10, CoordinatorStep
<1>9. QED BY <1>2, <1>5, <1>6, <1>7, <1>8
LEMMA RemoteSilentType ==
    ASSUME TypeInv, RemoteSilent
    PROVE  TypeInv'
<1>1. /\ co.stage = "remote"
      /\ CoordinatorDoes({}, Switched([Dropped(co) EXCEPT !.news = TRUE,
                                                          !.inaccessible = @ \cup {Route[co.pos]}]),
                         DropMessages(co.pos) \cup {TTLAnswer(Receiver, TRUE)})
  BY DEF RemoteSilent
<1>2. co.queue # <<>> /\ co.pos \in 1..Len(Route)
  BY <1>1, AtWork
<1>3. Route[co.pos] \in Nodes
  <2>1. Route \in Seq(Intermediates)
    BY <1>2, AtHand
  <2>2. QED BY <1>2, <2>1 DEF Nodes
<1>4. CoordinationOK(Switched([Dropped(co) EXCEPT !.news = TRUE,
                                                  !.inaccessible = @ \cup {Route[co.pos]}]))
  BY <1>2, <1>3, DropsOK
<1>5. \A m \in DropMessages(co.pos) \cup {TTLAnswer(Receiver, TRUE)} : MessageOK(m)
  BY <1>2, DropMessagesFit, TTLAnswersFit
<1>6. QED BY <1>1, <1>4, <1>5, CoordinatorStep

LEMMA NextInaccessibleType ==
    ASSUME TypeInv, co.stage = "remote", NEW m, NextInaccessible(m)
    PROVE  TypeInv'
<1> DEFINE next == NodeAt(Route, co.pos + 1)
           c == IF next = Receiver
                THEN [Dropped(co) EXCEPT !.missing = @ + 1]
                ELSE [Dropped(co) EXCEPT !.news = TRUE, !.inaccessible = @ \cup {next}]
           drops == DropMessages(co.pos - 1)
<1>1. \/ CoordinatorDoes({m}, Ended(co), drops \cup {TTLAnswer(n, FALSE) : n \in co.members})
      \/ CoordinatorDoes({m}, Switched(c), drops \cup {TTLAnswer(Receiver, TRUE)})
  BY DEF NextInaccessible
<1>2. co.queue # <<>> /\ co.pos \in 1..Len(Route)
  BY AtWork
<1>3. next \in Nodes
  <2>1. Route \in Seq(Intermediates)
    BY <1>2, AtHand
  <2>2. co.pos + 1 \in Nat \ {0}
    BY <1>2, <2>1
  <2>3. QED BY <2>1, <2>2, RouteNodes
<1>4. CoordinationOK(Switched(c))
  <2>1. CASE next = Receiver
    <3>1. CoordinationOK(Switched([Dropped(co) EXCEPT !.missing = @ + 1]))
      BY <1>2, DropsOK
    <3>2. QED BY <2>1, <3>1
  <2>2. CASE next # Receiver
    <3> HIDE DEF next
    <3>1. CoordinationOK(Switched([Dropped(co) EXCEPT !.news = TRUE, !.inaccessible = @ \cup {next}]))
      BY <1>2, <1>3, DropsOK
    <3>2. QED BY <2>2, <3>1
  <2>3. QED BY <2>1, <2>2
<1> HIDE DEF c, drops
<1>5. \A d \in drops : MessageOK(d)
  BY <1>2, DropMessagesFit DEF drops
<1>6. CASE CoordinatorDoes({m}, Ended(co), drops \cup {TTLAnswer(n, FALSE) : n \in co.members})
  <2>1. \A d \in drops \cup {TTLAnswer(n, FALSE) : n \in co.members} : MessageOK(d)
    BY <1>5, TTLAnswersFit
  <2>2. QED BY <1>6, <2>1, EndedOK, CoordinatorStep
<1>7. CASE CoordinatorDoes({m}, Switched(c), drops \cup {TTLAnswer(Receiver, TRUE)})
  <2>1. \A d \in drops \cup {TTLAnswer(Receiver, TRUE)} : MessageOK(d)
    BY <1>5, TTLAnswersFit
  <2>2. QED BY <1>4, <1>7, <2>1, CoordinatorStep
<1>8. QED BY <1>1, <1>6, <1>7

LEMMA NodeExtendedType ==
    ASSUME TypeInv, co.stage = "remote", NEW m \in Mail("extended"), m.state = "accepted",
           m.amount <= co.flow, NodeExtended(m)
    PROVE  TypeInv'
<1> DEFINE amount == m.amount
           own == [co.own EXCEPT ![Current] = IF co.pos > 1 \/ m.from = Route[1] THEN m.amount ELSE @]
           answered == Append(co.answered, m.from)
           c == [co EXCEPT !.flow = m.amount, !.answered = Append(@, m.from),
                           !.own[Current] = IF co.pos > 1 \/ m.from = Route[1] THEN m.amount ELSE @]
           next == NodeAt(Route, co.pos + 2)
           pos == co.pos + 1
           d == [c EXCEPT !.pos = pos]
           e == Extend(Route[pos], Current, m.amount, next, co.final[next])
           sent == {FinalPath(Route[i], Current, m.amount) : i \in 1..Len(Route)}
<1>1. \/ co.pos = Len(Route) /\ PathFinished(c, {m}, sent)
      \/ co.pos # Len(Route) /\ CoordinatorDoes({m}, d, {e})
  BY DEF NodeExtended
<1>2. co.queue # <<>> /\ co.pos \in 1..Len(Route) /\ co.flow \in 1..Amount
  BY AtWork
<1>3. /\ co \in Coordinations /\ Route \in Seq(Intermediates) /\ Current \in Nat
      /\ co.confirmed \subseteq co.members
  BY <1>2, AtHand
<1>4. m.amount \in 1..Amount /\ m.from \in Nodes
  BY DEF TypeInv, MessageOK, Mail
<1>5. amount \in 1..co.flow /\ amount \in Nat /\ amount > 0 /\ amount \in 0..Amount
  <2> DEFINE f == co.flow
  <2>1. f \in Nat /\ amount \in 1..Amount /\ amount <= f /\ Amount \in Nat
    BY <1>2, <1>4, ConstantsAssumption
  <2> HIDE DEF f, amount
  <2>2. QED BY <2>1 DEF f
<1>6. own = [co.own EXCEPT ![Current] = amount] \/ own = co.own
  BY <1>3 DEF Coordinations, Owns
<1>7. c = [co EXCEPT !.flow = amount, !.answered = answered, !.own = own]
  BY <1>3 DEF Coordinations
<1>8. answered \in Seq(Nodes)
  <2>1. co.answered \in Seq(Nodes)
    BY <1>3 DEF Coordinations
  <2>2. QED BY <1>4, <2>1
<1> HIDE DEF own, amount, answered, c
<1>9. /\ own \in Owns /\ amount <= own[Current]
      /\ \A x : x.paths = co.paths /\ x.queue = co.queue /\ x.own = own
                => PathsOK(x) /\ QueueOK(x, 2)
  BY <1>5, <1>6, Shortens
<1>10. /\ c \in Coordinations /\ c.stage = "remote" /\ c.pos = co.pos /\ c.flow = amount
       /\ c.own = own /\ c.paths = co.paths /\ c.queue = co.queue
       /\ c.confirmed = co.confirmed /\ c.members = co.members
  BY <1>3, <1>5, <1>7, <1>8, <1>9 DEF Coordinations
<1>11. CASE PathFinished(c, {m}, sent)
  <2>1. \A x \in sent : MessageOK(x)
    BY <1>3, <1>5 DEF FinalPath, MessageOK, amount
  <2>2. PathsOK(c) /\ QueueOK(c, 2)
    BY <1>9, <1>10
  <2>3. c.flow \in 1..Amount /\ c.confirmed \subseteq c.members /\ c.queue = co.queue /\ c.queue # <<>>
    BY <1>2, <1>3, <1>4, <1>10 DEF amount
  <2> HIDE DEF sent
  <2>4. QED BY <1>10, <1>11, <2>1, <2>2, <2>3, PathFinishedType
<1>12. CASE co.pos # Len(Route) /\ CoordinatorDoes({m}, d, {e})
  <2>1. pos \in 1..Len(Route) /\ pos \in Nat
    BY <1>2, <1>3, <1>12
  <2> HIDE DEF pos
  <2>2. /\ d \in Coordinations /\ d.stage = "remote" /\ d.pos = pos /\ d.flow = amount
        /\ d.own = own /\ d.paths = co.paths /\ d.queue = co.queue
        /\ d.confirmed = co.confirmed /\ d.members = co.members
    BY <1>10, <2>1 DEF Coordinations
  <2> HIDE DEF d
  <2>3. StageOK(d)
    <3>1. Head(d.queue) = Current /\ d.paths[Current] = Route /\ d.queue # <<>>
      BY <1>2, <2>2 DEF Current, Route
    <3>2. Route # <<>>
      BY <1>2
    <3>3. QED BY <1>5, <1>9, <2>1, <2>2, <3>1, <3>2 DEF StageOK
  <2>4. CoordinationOK(d)
    BY <1>3, <1>9, <2>2, <2>3 DEF CoordinationOK
  <2>5. MessageOK(e)
    <3>1. next \in Nodes
      <4>1. co.pos + 2 \in Nat \ {0}
        BY <1>2, <1>3
      <4>2. QED BY <1>3, <4>1, RouteNodes
    <3> HIDE DEF next
    <3>2. co.final[next] \in Configurations
      BY <1>3, <3>1 DEF Coordinations
    <3>3. QED BY <1>3, <1>4, <3>1, <3>2 DEF Extend, MessageOK
  <2> HIDE DEF e
  <2>6. QED BY <1>12, <2>4, <2>5, CoordinatorStep
<1>13. QED BY <1>1, <1>11, <1>12

LEMMA RemoteAnswersType ==
    ASSUME TypeInv, RemoteAnswers
    PROVE  TypeInv'
<1>1. co.stage = "remote"
  BY DEF RemoteAnswers
<1> DEFINE drops == DropMessages(co.pos - 1)
<1>2. PICK m \in Mail("extended") :
         \/ CoordinatorDoes({m}, co, {})
         \/ Reject({m})
         \/ NextInaccessible(m)
         \/ CoordinatorDoes({m}, Switched([Dropped(co) EXCEPT !.news = TRUE]),
                            drops \cup {TTLAnswer(Receiver, TRUE)})
         \/ m.state = "accepted" /\ m.amount <= co.flow /\ NodeExtended(m)
  BY Zenon DEF RemoteAnswers
<1>3. co.queue # <<>>
  BY <1>1, AtWork
<1>4. CASE CoordinatorDoes({m}, co, {})
  BY <1>4, IgnoresType
<1>5. CASE CoordinatorDoes({m}, Switched([Dropped(co) EXCEPT !.news = TRUE]),
                           drops \cup {TTLAnswer(Receiver, TRUE)})
  <2>1. \A d \in drops \cup {TTLAnswer(Receiver, TRUE)} : MessageOK(d)
    BY <1>3, DropMessagesFit, TTLAnswersFit
  <2>2. CoordinationOK(Switched([Dropped(co) EXCEPT !.news = TRUE]))
    BY <1>3, DropsOK
  <2>3. QED BY <1>5, <2>1, <2>2, CoordinatorStep
<1>6. QED BY <1>1, <1>2, <1>4, <1>5, RejectType, NextInaccessibleType, NodeExtendedType
LEMMA DirectSilentType ==
    ASSUME TypeInv, DirectSilent
    PROVE  TypeInv'
<1>1. co.queue # <<>>
  BY AtWork DEF DirectSilent
<1>2. CoordinationOK(Switched([Dropped(co) EXCEPT !.missing = @ + 1]))
  BY <1>1, DropsOK
<1>3. \/ Reject({})
      \/ CoordinatorDoes({}, Switched([Dropped(co) EXCEPT !.missing = @ + 1]), {})
  BY Zenon DEF DirectSilent
<1>4. QED BY <1>2, <1>3, RejectType, CoordinatorStep

LEMMA DirectAnswersType ==
    ASSUME TypeInv, DirectAnswers
    PROVE  TypeInv'
<1>1. co.stage = "direct"
  BY DEF DirectAnswers
<1>2. PICK m \in Mail("answer") :
         \/ CoordinatorDoes({m}, Switched([Dropped(co) EXCEPT !.news = TRUE]), {})
         \/ Reject({m})
         \/ /\ m.state = "accepted" /\ m.amount <= co.flow
            /\ PathFinished([co EXCEPT !.flow = m.amount,
                                       !.own[Current] = IF m.from = Receiver THEN m.amount ELSE @],
                            {m}, {})
  BY Zenon DEF DirectAnswers
<1>3. co.queue # <<>> /\ co.flow \in 1..Amount
  BY <1>1, AtWork
<1>4. co \in Coordinations /\ co.confirmed \subseteq co.members
  BY <1>3, AtHand
<1>5. CASE CoordinatorDoes({m}, Switched([Dropped(co) EXCEPT !.news = TRUE]), {})
  <2>1. CoordinationOK(Switched([Dropped(co) EXCEPT !.news = TRUE]))
    BY <1>3, DropsOK
  <2>2. QED BY <1>5, <2>1, CoordinatorStep
<1>6. CASE /\ m.state = "accepted" /\ m.amount <= co.flow
           /\ PathFinished([co EXCEPT !.flow = m.amount,
                                      !.own[Current] = IF m.from = Receiver THEN m.amount ELSE @],
                           {m}, {})
  <2> DEFINE amount == m.amount
             own == [co.own EXCEPT ![Current] = IF m.from = Receiver THEN m.amount ELSE @]
             c == [co EXCEPT !.flow = m.amount,
                             !.own[Current] = IF m.from = Receiver THEN m.amount ELSE @]
  <2>1. amount \in 1..Amount
    BY <1>2, <1>6 DEF TypeInv, MessageOK, Mail
  <2>2. amount \in 1..co.flow /\ amount \in Nat
    <3> DEFINE f == co.flow
    <3>1. f \in Nat /\ amount \in 1..Amount /\ amount <= f /\ Amount \in Nat
      BY <1>3, <1>6, <2>1, ConstantsAssumption
    <3> HIDE DEF f, amount
    <3>2. QED BY <3>1 DEF f
  <2>3. own = [co.own EXCEPT ![Current] = amount] \/ own = co.own
    BY <1>4 DEF Coordinations, Owns
  <2>4. c = [co EXCEPT !.flow = amount, !.own = own]
    BY <1>4 DEF Coordinations
  <2> HIDE DEF own, amount, c
  <2>5. /\ own \in Owns
        /\ \A x : x.paths = co.paths /\ x.queue = co.queue /\ x.own = own
                  => PathsOK(x) /\ QueueOK(x, 2)
    BY <1>1, <2>2, <2>3, Shortens
  <2>6. /\ c \in Coordinations /\ c.flow = amount /\ c.own = own /\ c.paths = co.paths
        /\ c.queue = co.queue /\ c.confirmed = co.confirmed /\ c.members = co.members
    BY <1>4, <2>2, <2>4, <2>5 DEF Coordinations
  <2>7. PathsOK(c) /\ QueueOK(c, 2)
    BY <2>5, <2>6
  <2>8. PathFinished(c, {m}, {})
    BY <1>6 DEF c
  <2>9. c.flow \in 1..Amount /\ c.queue # <<>> /\ c.confirmed \subseteq c.members
    BY <1>3, <1>4, <2>1, <2>6
  <2>10. \A x \in {} : MessageOK(x)
    OBVIOUS
  <2>11. QED BY <2>6, <2>7, <2>8, <2>9, <2>10, PathFinishedType
<1>7. QED BY <1>2, <1>5, <1>6, RejectType

LEMMA SendFinalConfigurationType ==
    ASSUME TypeInv, SendFinalConfiguration
    PROVE  TypeInv'
<1> DEFINE d == [co EXCEPT !.stage = "confirming"]
           final(n) == [kind |-> "final", to |-> n, list |-> co.final[n], members |-> co.members,
                        receipt |-> ToNode(co, n)]
<1>1. /\ co.stage = "block"
      /\ Reject({}) \/ CoordinatorDoes({}, d, {final(n) : n \in co.members})
  BY Zenon DEF SendFinalConfiguration
<1>2. /\ co \in Coordinations /\ co.confirmed \subseteq co.members /\ StageOK(co) /\ PathsOK(co)
  BY DEF TypeInv, CoordinationOK
<1>3. /\ d \in Coordinations /\ d.stage = "confirming" /\ d.paths = co.paths /\ d.own = co.own
      /\ d.queue = co.queue /\ d.confirmed = co.confirmed /\ d.members = co.members
  BY <1>2 DEF Coordinations, CoStages
<1> HIDE DEF d
<1>4. StageOK(d)
  BY <1>1, <1>2, <1>3 DEF StageOK
<1>5. CoordinationOK(d)
  BY <1>1, <1>2, <1>3, <1>4, StageMoves
<1>6. ASSUME NEW n \in co.members PROVE MessageOK(final(n))
  <2> DEFINE S == {id \in DOMAIN co.paths : NodeAt(co.paths[id], 1) = n}
             receipt == ToNode(co, n)
             f == co.own
  <2>1. co.final[n] \in Configurations /\ co.members \in SUBSET Nodes
    BY <1>2 DEF Coordinations
  <2>2. IsFiniteSet(DOMAIN co.paths) /\ f \in [DOMAIN co.paths -> Nat]
    BY <1>2, CoordinationMaps DEF PathsOK
  <2>3. S \in SUBSET DOMAIN co.paths
    OBVIOUS
  <2>4. receipt = PathSum(f, S)
    <3>1. \A x : ToNode(co, x) =
                    PathSum(co.own, {id \in DOMAIN co.paths : NodeAt(co.paths[id], 1) = x})
      BY Totals
    <3>2. QED BY <3>1
  <2> HIDE DEF S, f, receipt
  <2>5. IsFiniteSet(S) /\ \A y \in S : f[y] \in Nat
    BY <2>2, <2>3, FS_Subset
  <2>6. receipt \in Nat
    BY <2>4, <2>5, PathSumIsNat
  <2>7. QED BY <2>1, <2>6 DEF MessageOK, receipt
<1> HIDE DEF final
<1>7. \A m \in {final(n) : n \in co.members} : MessageOK(m)
  BY <1>6
<1>8. QED BY <1>1, <1>5, <1>7, RejectType, CoordinatorStep

LEMMA NoBlockNumberType ==
    ASSUME TypeInv, NoBlockNumber
    PROVE  TypeInv'
<1> DEFINE d == [co EXCEPT !.stage = "ended"]
<1>1. CoordinatorDoes({}, d, {})
  BY DEF NoBlockNumber
<1>2. co \in Coordinations /\ co.confirmed \subseteq co.members
  BY DEF TypeInv, CoordinationOK
<1>3. /\ d \in Coordinations /\ d.stage = "ended" /\ d.paths = co.paths /\ d.own = co.own
      /\ d.queue = co.queue /\ d.confirmed = co.confirmed /\ d.members = co.members
  BY <1>2 DEF Coordinations, CoStages
<1> HIDE DEF d
<1>4. StageOK(d)
  BY <1>3 DEF StageOK
<1>5. CoordinationOK(d)
  BY <1>2, <1>3, <1>4, StageMoves
<1>6. QED BY <1>1, <1>5, CoordinatorStep

LEMMA NodeConfirmsType ==
    ASSUME TypeInv, NodeConfirms
    PROVE  TypeInv'
<1> DEFINE keys == {[kind |-> "keys", to |-> n] : n \in co.members}
           more(m) == co.confirmed \cup {m.from}
<1>1. co.stage = "confirming"
  BY DEF NodeConfirms
<1>2. PICK m \in Mail("confirmation") :
         \/ CoordinatorDoes({m}, co, {})
         \/ Reject({m})
         \/ m.from \in co.members /\ CoordinatorDoes({m}, [co EXCEPT !.confirmed = more(m)], {})
         \/ /\ m.from \in co.members
            /\ CoordinatorDoes({m}, [co EXCEPT !.confirmed = more(m), !.stage = "voting"], keys)
  BY Zenon DEF NodeConfirms
<1>3. /\ co \in Coordinations /\ co.confirmed \subseteq co.members /\ StageOK(co)
  BY DEF TypeInv, CoordinationOK
<1> DEFINE confirmed == more(m)
           d == [co EXCEPT !.confirmed = confirmed]
           e == [co EXCEPT !.confirmed = confirmed, !.stage = "voting"]
<1>4. m.from \in co.members => confirmed \in SUBSET Nodes /\ confirmed \subseteq co.members
  BY <1>3 DEF Coordinations
<1>5. \A k \in keys : MessageOK(k)
  BY DEF MessageOK
<1> HIDE DEF confirmed, keys
<1>6. ASSUME m.from \in co.members PROVE CoordinationOK(d) /\ CoordinationOK(e)
  <2>1. /\ d \in Coordinations /\ d.stage = "confirming" /\ d.paths = co.paths /\ d.own = co.own
        /\ d.queue = co.queue /\ d.confirmed = confirmed /\ d.members = co.members
    BY <1>1, <1>3, <1>4, <1>6 DEF Coordinations
  <2>2. /\ e \in Coordinations /\ e.stage = "voting" /\ e.paths = co.paths /\ e.own = co.own
        /\ e.queue = co.queue /\ e.confirmed = confirmed /\ e.members = co.members
    BY <1>3, <1>4, <1>6 DEF Coordinations, CoStages
  <2> HIDE DEF d, e
  <2>3. StageOK(d) /\ StageOK(e)
    BY <1>1, <1>3, <2>1, <2>2 DEF StageOK
  <2>4. d.confirmed \subseteq d.members /\ e.confirmed \subseteq e.members
    BY <1>4, <1>6, <2>1, <2>2
  <2>5. CoordinationOK(d)
    BY <2>1, <2>3, <2>4, StageMoves
  <2>6. CoordinationOK(e)
    BY <2>2, <2>3, <2>4, StageMoves
  <2>7. QED BY <2>5, <2>6
<1>7. CASE CoordinatorDoes({m}, co, {})
  BY <1>7, IgnoresType
<1>8. CASE m.from \in co.members /\ CoordinatorDoes({m}, d, {})
  BY <1>6, <1>8, CoordinatorStep
<1>9. CASE m.from \in co.members /\ CoordinatorDoes({m}, e, keys)
  BY <1>5, <1>6, <1>9, CoordinatorStep
<1>10. QED BY <1>2, <1>7, <1>8, <1>9, RejectType DEF confirmed

LEMMA AnswerTTLType ==
    ASSUME TypeInv, AnswerTTL
    PROVE  TypeInv'
<1>1. PICK m : CoordinatorDoes({m}, co, {TTLAnswer(m.from, m.from \in co.members)})
  BY DEF AnswerTTL
<1>2. QED BY <1>1, IgnoresType, TTLAnswersFit

LEMMA CoordinatorType ==
    ASSUME TypeInv, CoordinatorSteps \/ CoordinatorReceives \/ CoordinatorMishap
    PROVE  TypeInv'
<1>1. CASE NoMorePaths
  BY <1>1, RejectType DEF NoMorePaths
<1>2. CASE NotAllConfirm
  BY <1>2, RejectType DEF NotAllConfirm
<1>3. QED BY <1>1, <1>2, StartType, ReserveOwnType, RebuildPathsType, SendFinalConfigurationType,
            NoBlockNumberType, ReceiverHeardType, NeighbourAnswersType, RemoteAnswersType,
            DirectAnswersType, NodeConfirmsType, AnswerTTLType, CannotReserveOwnType,
            NeighbourSilentType, RemoteSilentType, DirectSilentType
         DEF CoordinatorSteps, CoordinatorReceives, CoordinatorMishap
-----------------------------------------------------------------------------
(* The other nodes *)

LEMMA IdleType == Idle \in Txs /\ Idle \in TxRecords
<1>1. <<>> \in Seq(Reservations) /\ [p \in Peers |-> 0] \in [Peers -> Nat]
  OBVIOUS
<1>2. QED BY <1>1 DEF Idle, Txs, TxRecords, NodeSteps

LEMMA AwaitType ==
    /\ {AfterReserving, AfterExtending, Holding, AfterPath, ReceiverWaiting} \subseteq SUBSET Kinds
    /\ {{"keys", "ttlAnswer"}, {"hash", "ttlAnswer"}, {"hash"}, {"final", "hash", "ttlAnswer"}}
          \subseteq SUBSET Kinds
    /\ \A n : Confirming(n) \in SUBSET Kinds /\ "extend" \notin Confirming(n)
    /\ "extend" \notin AfterExtending \cup Holding \cup AfterPath \cup ReceiverWaiting
BY DEF AfterReserving, AfterExtending, Holding, AfterPath, ReceiverWaiting, Confirming, Kinds

LEMMA ProlongedType ==
    ASSUME NEW t \in TxRecords
    PROVE  Prolonged(t) \in Txs
<1>1. AfterPath \in SUBSET Kinds /\ "extend" \notin AfterPath
  BY AwaitType
<1>2. [t EXCEPT !.step = "reserving", !.await = AfterPath] \in Txs
  BY <1>1 DEF Txs, TxRecords, NodeSteps
<1>3. QED BY <1>2, IdleType DEF Prolonged

LEMMA HoldsType ==
    ASSUME NEW t \in TxRecords, NEW res \in Seq(Reservations)
    PROVE  [t EXCEPT !.res = res] \in TxRecords
BY DEF TxRecords

\* What a node hears is what may be said.
LEMMA Heard ==
    ASSUME TypeInv, NEW n \in Nodes
    PROVE  /\ \A kind : \A m \in MailOf(n, kind) : MessageOK(m) /\ m.kind = kind /\ kind \in tx[n].await
           /\ \A m \in RequestsOf(n) : MessageOK(m) /\ m.kind = "request"
           /\ tx[n] \in Txs /\ tx[n] \in TxRecords
BY DEF TypeInv, MailOf, Mail, RequestsOf, Txs

LEMMA RequestRefusedType ==
    ASSUME TypeInv, NEW n \in Nodes, NEW m, MessageOK(m), m.kind = "request", NEW t \in TxRecords,
           t.role = "receiver" => t.step = "reserving",
           NEW state \in {"closed", "rejected"}, RequestRefused(n, m, t, state)
    PROVE  TypeInv'
<1> DEFINE u == [t EXCEPT !.await = ReceiverWaiting]
           a == Answer(n, m.from, m.path, state, 0)
<1>1. t.role = "receiver" => u \in Txs
  <2>1. ReceiverWaiting \in SUBSET Kinds /\ "extend" \notin ReceiverWaiting
    BY AwaitType
  <2>2. QED BY <2>1 DEF Txs, TxRecords
<1>2. NodeDoes(n, {m}, IF t.role = "receiver" THEN u ELSE Prolonged(t), {a})
  BY DEF RequestRefused
<1>3. MessageOK(a)
  BY DEF Answer, MessageOK
<1> HIDE DEF u, a
<1>4. (IF t.role = "receiver" THEN u ELSE Prolonged(t)) \in Txs
  BY <1>1, ProlongedType
<1>5. QED BY <1>2, <1>3, <1>4, NodeStep

LEMMA ReserveIncomingType ==
    ASSUME TypeInv, NEW n \in Nodes, NEW m, MessageOK(m), m.kind = "request", NEW t \in TxRecords,
           t.role = "receiver" => t.step = "reserving",
           t.role \in {"intermediate", "receiver"},
           NEW grant \in 1..m.amount, ReserveIncoming(n, m, t, grant)
    PROVE  TypeInv'
<1> DEFINE res == Append(t.res, Reservation(m.path, m.from, "in", grant))
           more == [t EXCEPT !.res = Append(@, Reservation(m.path, m.from, "in", grant))]
           a == Answer(n, m.from, m.path, "accepted", grant)
           kept == [more EXCEPT !.last = m.path, !.step = "reserving", !.await = AfterReserving]
           all == [more EXCEPT !.step = "confirming", !.asked = FALSE, !.await = Confirming(n)]
           some == [more EXCEPT !.await = ReceiverWaiting]
           over == [more EXCEPT !.rejecting = TRUE]
<1>1. \/ t.role = "intermediate" /\ NodeDoes(n, {m}, kept, {a})
      \/ t.role # "intermediate" /\ RequestRefused(n, m, over, "closed")
      \/ t.role # "intermediate" /\ NodeDoes(n, {m}, all, {a})
      \/ t.role # "intermediate" /\ NodeDoes(n, {m}, some, {a})
  BY Zenon DEF ReserveIncoming
<1>2. m.from \in Peers /\ m.path \in Nat /\ m.amount \in 1..Amount
  BY DEF MessageOK
<1>3. grant \in 1..Amount
  BY <1>2, ConstantsAssumption
<1>4. res \in Seq(Reservations)
  <2>1. Reservation(m.path, m.from, "in", grant) \in Reservations
    BY <1>2, <1>3 DEF Reservation, Reservations
  <2>2. t.res \in Seq(Reservations)
    BY DEF TxRecords
  <2>3. QED BY <2>1, <2>2
<1>5. more = [t EXCEPT !.res = res]
  BY DEF TxRecords
<1> HIDE DEF res, more
<1>6. more \in TxRecords /\ more.role = t.role /\ more.step = t.step
  BY <1>4, <1>5 DEF TxRecords
<1>7. t.role = "intermediate" => kept \in Txs
  <2>1. AfterReserving \in SUBSET Kinds
    BY AwaitType
  <2>2. QED BY <1>2, <1>6, <2>1 DEF Txs, TxRecords, NodeSteps
<1>8. all \in Txs
  <2>1. Confirming(n) \in SUBSET Kinds /\ "extend" \notin Confirming(n)
    BY AwaitType
  <2>2. QED BY <1>6, <2>1 DEF Txs, TxRecords, NodeSteps
<1>9. t.role # "intermediate" => some \in Txs
  <2>1. ReceiverWaiting \in SUBSET Kinds /\ "extend" \notin ReceiverWaiting
    BY AwaitType
  <2>2. QED BY <1>6, <2>1 DEF Txs, TxRecords, NodeSteps
<1>10. over \in TxRecords /\ (over.role = "receiver" => over.step = "reserving")
  BY <1>6 DEF TxRecords
<1>11. MessageOK(a)
  BY <1>2, <1>3 DEF Answer, MessageOK
<1> HIDE DEF kept, all, some, over, a
<1>12. QED BY <1>1, <1>7, <1>8, <1>9, <1>10, <1>11, NodeStep, RequestRefusedType

LEMMA ServingType ==
    ASSUME TypeInv, NEW n \in Nodes
    PROVE  /\ Serving(n) \in TxRecords /\ Serving(n).role \in {"intermediate", "receiver"}
           /\ Serving(n).role = "receiver" => Serving(n).step = "reserving"
<1>1. tx[n] \in TxRecords /\ Idle \in TxRecords
  BY Heard, IdleType
<1>2. CASE tx[n].role = "none"
  <2>1. Serving(n) = [Idle EXCEPT !.role = "intermediate"]
    BY <1>2 DEF Serving
  <2>2. [Idle EXCEPT !.role = "intermediate"] \in TxRecords
        /\ [Idle EXCEPT !.role = "intermediate"].role = "intermediate"
    BY <1>1 DEF TxRecords
  <2>3. QED BY <2>1, <2>2
<1>3. CASE tx[n].role # "none"
  BY <1>1, <1>3 DEF Serving, TxRecords, NodeSteps
<1>4. QED BY <1>2, <1>3

LEMMA RequestType ==
    ASSUME TypeInv, NEW n \in Nodes, ReceiveRequest(n) \/ RefuseRequest(n)
    PROVE  TypeInv'
<1> DEFINE t == Serving(n)
           updated(m) == [t EXCEPT !.res = Updated(@, m.final)]
           rejecting(m) == [updated(m) EXCEPT !.rejecting = IsReceiver(n)]
<1>1. PICK m \in RequestsOf(n) :
         \/ NodeDoes(n, {m}, Idle, {})
         \/ RequestRefused(n, m, rejecting(m), "closed")
         \/ \E grant \in 1..m.amount : ReserveIncoming(n, m, updated(m), grant)
         \/ RequestRefused(n, m, t, "rejected")
         \/ RequestRefused(n, m, updated(m), "rejected")
  BY Zenon DEF ReceiveRequest, RefuseRequest
<1>2. MessageOK(m) /\ m.kind = "request" /\ m.final \in Configurations
  BY Heard DEF MessageOK
<1>3. /\ t \in TxRecords /\ t.role \in {"intermediate", "receiver"}
      /\ t.role = "receiver" => t.step = "reserving"
  BY ServingType
<1> DEFINE u == updated(m)
           r == [u EXCEPT !.rejecting = IsReceiver(n)]
<1> HIDE DEF t
<1>4. u \in TxRecords /\ u.role = t.role /\ u.step = t.step
  <2> DEFINE res == Updated(t.res, m.final)
  <2>1. res \in Seq(Reservations)
    <3>1. t.res \in Seq(Reservations) /\ m.final \in Seq(PathAmounts)
      BY <1>2, <1>3 DEF TxRecords, Configurations
    <3>2. QED BY <3>1, UpdatedType
  <2>2. u = [t EXCEPT !.res = res]
    BY <1>3 DEF TxRecords
  <2> HIDE DEF res, u
  <2>3. QED BY <1>3, <2>1, <2>2 DEF TxRecords
<1> HIDE DEF u
<1>5. r \in TxRecords /\ r.role = u.role /\ r.step = u.step
  BY <1>4 DEF TxRecords, IsReceiver
<1>6. \/ NodeDoes(n, {m}, Idle, {})
      \/ RequestRefused(n, m, r, "closed")
      \/ \E grant \in 1..m.amount : ReserveIncoming(n, m, u, grant)
      \/ RequestRefused(n, m, t, "rejected")
      \/ RequestRefused(n, m, u, "rejected")
  BY <1>1 DEF u
<1> HIDE DEF r
<1>7. CASE NodeDoes(n, {m}, Idle, {})
  <2>1. \A x \in {} : MessageOK(x)
    OBVIOUS
  <2>2. QED BY <1>7, <2>1, IdleType, NodeStep
<1>8. CASE RequestRefused(n, m, r, "closed")
  BY <1>2, <1>3, <1>4, <1>5, <1>8, RequestRefusedType
<1>9. CASE \E grant \in 1..m.amount : ReserveIncoming(n, m, u, grant)
  BY <1>2, <1>3, <1>4, <1>9, ReserveIncomingType
<1>10. CASE RequestRefused(n, m, t, "rejected")
  BY <1>2, <1>3, <1>10, RequestRefusedType
<1>11. CASE RequestRefused(n, m, u, "rejected")
  BY <1>2, <1>3, <1>4, <1>11, RequestRefusedType
<1>12. QED BY <1>6, <1>7, <1>8, <1>9, <1>10, <1>11
\* A node that says nothing.
LEMMA SilentStep ==
    ASSUME TypeInv, NEW n \in Nodes, NEW taken, NEW t \in Txs, NodeDoes(n, taken, t, {})
    PROVE  TypeInv'
<1>1. \A x \in {} : MessageOK(x)
  OBVIOUS
<1>2. QED BY <1>1, NodeStep

LEMMA InitType ==
    ASSUME TypeInv, ReceiveInit \/ RefuseInit
    PROVE  TypeInv'
<1> DEFINE t == [Idle EXCEPT !.role = "receiver", !.step = "reserving", !.knows = TRUE,
                             !.await = ReceiverWaiting]
           says(b) == [kind |-> "initAnswer", ok |-> b]
<1>1. PICK m : \/ NodeDoes(Receiver, {m}, t, {says(TRUE)})
               \/ NodeDoes(Receiver, {m}, tx[Receiver], {says(FALSE)})
  BY DEF ReceiveInit, RefuseInit
<1>2. Receiver \in Nodes
  BY DEF Nodes
<1>3. t \in Txs
  <2>1. ReceiverWaiting \in SUBSET Kinds /\ "extend" \notin ReceiverWaiting
    BY AwaitType
  <2>2. QED BY <2>1, IdleType DEF Txs, TxRecords, NodeSteps
<1>4. tx[Receiver] \in Txs
  BY <1>2 DEF TypeInv
<1>5. MessageOK(says(TRUE)) /\ MessageOK(says(FALSE))
  BY DEF MessageOK
<1> HIDE DEF t, says
<1>6. QED BY <1>1, <1>2, <1>3, <1>4, <1>5, NodeStep

LEMMA PathRefusedType ==
    ASSUME TypeInv, NEW n \in Nodes, NEW taken, NEW t \in TxRecords, NEW state, state # "accepted",
           PathRefused(n, taken, t, state)
    PROVE  TypeInv'
<1> DEFINE res == WithoutPath(t.res, t.last)
           u == [t EXCEPT !.res = WithoutPath(@, t.last)]
           a == Extended(n, t.last, state, 0)
<1>1. NodeDoes(n, taken, Prolonged(u), {a})
  BY DEF PathRefused
<1>2. t.res \in Seq(Reservations) /\ t.last \in Nat
  BY DEF TxRecords
<1>3. res \in Seq(Reservations)
  BY <1>2, WithoutPathType
<1>4. u = [t EXCEPT !.res = res]
  BY DEF TxRecords
<1> HIDE DEF res
<1>5. Prolonged(u) \in Txs
  BY <1>3, <1>4, HoldsType, ProlongedType
<1>6. MessageOK(a)
  BY <1>2 DEF Extended, MessageOK
<1>7. QED BY <1>1, <1>5, <1>6, NodeStep

LEMMA ExtendType ==
    ASSUME TypeInv, NEW n \in Nodes, ReceiveExtend(n) \/ RefuseExtend(n)
    PROVE  TypeInv'
<1>1. CASE ReceiveExtend(n)
  <2>0. PICK m \in MailOf(n, "extend") : \E grant \in 1..m.amount :
           NodeDoes(n, {m}, [tx[n] EXCEPT !.knows = TRUE, !.last = m.path, !.step = "next",
                                          !.await = AfterExtending,
                                          !.res = Append(@, Reservation(m.path, m.next, "out", grant))],
                    {Request(n, m.next, m.path, grant, m.final)})
    BY <1>1 DEF ReceiveExtend
  <2>1. PICK grant \in 1..m.amount :
           NodeDoes(n, {m}, [tx[n] EXCEPT !.knows = TRUE, !.last = m.path, !.step = "next",
                                          !.await = AfterExtending,
                                          !.res = Append(@, Reservation(m.path, m.next, "out", grant))],
                    {Request(n, m.next, m.path, grant, m.final)})
    BY <2>0
  <2> DEFINE res == Append(tx[n].res, Reservation(m.path, m.next, "out", grant))
             t == [tx[n] EXCEPT !.knows = TRUE, !.last = m.path, !.step = "next",
                                !.await = AfterExtending,
                                !.res = Append(@, Reservation(m.path, m.next, "out", grant))]
             r == Request(n, m.next, m.path, grant, m.final)
  <2>2. /\ m.path \in Nat /\ m.amount \in 1..Amount /\ m.next \in Nodes /\ m.final \in Configurations
        /\ "extend" \in tx[n].await
    BY Heard DEF MessageOK
  <2>3. grant \in 1..Amount
    BY <2>2, ConstantsAssumption
  <2>4. tx[n] \in TxRecords /\ tx[n] \in Txs
    BY Heard
  <2>5. res \in Seq(Reservations)
    <3>1. Reservation(m.path, m.next, "out", grant) \in Reservations
      BY <2>2, <2>3 DEF Reservation, Reservations, Peers
    <3>2. tx[n].res \in Seq(Reservations)
      BY <2>4 DEF TxRecords
    <3>3. QED BY <3>1, <3>2
  <2>6. t = [tx[n] EXCEPT !.knows = TRUE, !.last = m.path, !.step = "next",
                          !.await = AfterExtending, !.res = res]
    BY <2>4 DEF TxRecords
  <2> HIDE DEF res, t
  <2>7. t \in Txs
    <3>1. AfterExtending \in SUBSET Kinds /\ tx[n].role # "receiver"
      BY <2>2, <2>4, AwaitType DEF Txs
    <3>2. QED BY <2>2, <2>4, <2>5, <2>6, <3>1 DEF Txs, TxRecords, NodeSteps
  <2>8. MessageOK(r)
    BY <2>2, <2>3 DEF Request, MessageOK, Peers
  <2> HIDE DEF r
  <2>9. NodeDoes(n, {m}, t, {r})
    BY <2>1 DEF t, r
  <2>10. QED BY <2>7, <2>8, <2>9, NodeStep
<1>2. CASE RefuseExtend(n)
  <2>1. PICK m \in MailOf(n, "extend") :
           PathRefused(n, {m}, [tx[n] EXCEPT !.knows = TRUE, !.last = m.path], "rejected")
    BY <1>2 DEF RefuseExtend
  <2>2. m.path \in Nat /\ tx[n] \in TxRecords
    BY Heard DEF MessageOK
  <2>3. [tx[n] EXCEPT !.knows = TRUE, !.last = m.path] \in TxRecords
    BY <2>2 DEF TxRecords
  <2>4. QED BY <2>1, <2>3, PathRefusedType
<1>3. QED BY <1>1, <1>2

LEMMA ReceiveAnswerType ==
    ASSUME TypeInv, NEW n \in Nodes, ReceiveAnswer(n) \/ NextNodeSilent(n)
    PROVE  TypeInv'
<1> DEFINE t == tx[n]
           u(m) == [t EXCEPT !.res = Shortened(@, t.last, m.amount), !.step = "reserving",
                             !.await = Holding]
<1>1. t \in Txs /\ t \in TxRecords
  BY Heard
<1>2. CASE NextNodeSilent(n)
  BY <1>1, <1>2, PathRefusedType DEF NextNodeSilent
<1>3. CASE ReceiveAnswer(n)
  <2>1. PICK m \in MailOf(n, "answer") :
           \/ NodeDoes(n, {m}, t, {})
           \/ m.state # "accepted" /\ PathRefused(n, {m}, t, m.state)
           \/ m.state = "accepted" /\ NodeDoes(n, {m}, Idle, {})
           \/ /\ m.state = "accepted"
              /\ NodeDoes(n, {m}, u(m), {Extended(n, t.last, "accepted", m.amount)})
    BY Zenon, <1>3 DEF ReceiveAnswer
  <2> HIDE DEF t
  <2>2. CASE /\ m.state = "accepted"
             /\ NodeDoes(n, {m}, u(m), {Extended(n, t.last, "accepted", m.amount)})
    <3>1. m.amount \in 1..Amount
      BY <2>2, Heard DEF MessageOK
    <3> DEFINE res == Shortened(t.res, t.last, m.amount)
    <3>2. t.res \in Seq(Reservations) /\ t.last \in Nat
      BY <1>1 DEF TxRecords
    <3>3. res \in Seq(Reservations)
      BY <3>1, <3>2, ShortenedType
    <3>4. u(m) = [t EXCEPT !.res = res, !.step = "reserving", !.await = Holding]
      BY <1>1 DEF TxRecords
    <3> HIDE DEF res, u
    <3>5. Holding \in SUBSET Kinds /\ "extend" \notin Holding
      BY AwaitType
    <3>6. u(m) \in Txs
      BY <1>1, <3>3, <3>4, <3>5 DEF Txs, TxRecords, NodeSteps
    <3>7. MessageOK(Extended(n, t.last, "accepted", m.amount))
      BY <3>1, <3>2 DEF Extended, MessageOK
    <3>8. QED BY <2>2, <3>6, <3>7, NodeStep
  <2>3. QED BY <1>1, <2>1, <2>2, IdleType, SilentStep, PathRefusedType
<1>4. QED BY <1>2, <1>3

LEMMA ReceiveFinalPathType ==
    ASSUME TypeInv, NEW n \in Nodes, ReceiveFinalPath(n)
    PROVE  TypeInv'
<1> DEFINE t == tx[n]
           none(m) == [t EXCEPT !.res = WithoutPath(@, m.path)]
           less(m) == [t EXCEPT !.res = Shortened(@, m.path, m.amount), !.step = "reserving",
                                !.await = AfterPath]
<1>1. PICK m \in MailOf(n, "pathAmount") :
         \/ NodeDoes(n, {m}, Idle, {})
         \/ NodeDoes(n, {m}, Prolonged(none(m)), {})
         \/ m.amount > 0 /\ NodeDoes(n, {m}, IF ShorteningThrows(t.res, m.path, m.amount) THEN Idle
                                             ELSE less(m), {})
  BY Zenon DEF ReceiveFinalPath
<1>2. t \in Txs /\ t \in TxRecords /\ t.res \in Seq(Reservations)
  BY Heard DEF TxRecords
<1>3. m.path \in Nat /\ m.amount \in 0..Amount
  BY Heard DEF MessageOK
<1> HIDE DEF t
<1>4. Prolonged(none(m)) \in Txs
  <2> DEFINE res == WithoutPath(t.res, m.path)
  <2>1. res \in Seq(Reservations)
    BY <1>2, WithoutPathType
  <2>2. none(m) = [t EXCEPT !.res = res]
    BY <1>2 DEF TxRecords
  <2> HIDE DEF res, none
  <2>3. QED BY <1>2, <2>1, <2>2, HoldsType, ProlongedType
<1>5. ASSUME m.amount > 0 PROVE less(m) \in Txs
  <2>1. m.amount \in 1..Amount
    BY <1>3, <1>5, ConstantsAssumption
  <2> DEFINE res == Shortened(t.res, m.path, m.amount)
  <2>2. res \in Seq(Reservations)
    BY <1>2, <2>1, ShortenedType
  <2>3. less(m) = [t EXCEPT !.res = res, !.step = "reserving", !.await = AfterPath]
    BY <1>2 DEF TxRecords
  <2>4. AfterPath \in SUBSET Kinds /\ "extend" \notin AfterPath
    BY AwaitType
  <2> HIDE DEF res, less
  <2>5. QED BY <1>2, <2>2, <2>3, <2>4 DEF Txs, TxRecords, NodeSteps
<1> HIDE DEF none, less
<1>6. QED BY <1>1, <1>4, <1>5, IdleType, SilentStep

LEMMA TimerFiresType ==
    ASSUME TypeInv, NEW n \in Nodes, TimerFires(n)
    PROVE  TypeInv'
<1> DEFINE t == tx[n]
           await == CASE t.step = "accepted"   -> {"keys", "ttlAnswer"}
                      [] t.step = "confirming" -> Confirming(n)
                      [] t.step = "reserving" /\ IsReceiver(n)  -> ReceiverWaiting
                      [] t.step = "reserving" /\ ~IsReceiver(n) -> Holding
           u == [t EXCEPT !.asked = TRUE, !.await = await]
           q == [kind |-> "ttlRequest", from |-> n]
<1>1. /\ t.step \in {"reserving", "confirming", "accepted"}
      /\ NodeDoes(n, {}, Idle, {}) \/ NodeDoes(n, {}, u, {q})
  BY Zenon DEF TimerFires, AskTTL
<1>2. t \in Txs /\ t \in TxRecords
  BY Heard
<1>3. await \in {{"keys", "ttlAnswer"}, Confirming(n), ReceiverWaiting, Holding}
  BY <1>1
<1>4. await \in SUBSET Kinds /\ "extend" \notin await
  BY <1>3, AwaitType
<1> HIDE DEF t, await
<1>5. u \in Txs
  BY <1>1, <1>2, <1>4 DEF Txs, TxRecords, NodeSteps
<1>6. MessageOK(q)
  BY DEF MessageOK
<1> HIDE DEF u, q
<1>7. QED BY <1>1, <1>5, <1>6, IdleType, NodeStep, SilentStep

LEMMA ReceiveTTLAnswerType ==
    ASSUME TypeInv, NEW n \in Nodes, ReceiveTTLAnswer(n) \/ DurationOver(n)
    PROVE  TypeInv'
<1> DEFINE t == tx[n]
           await == CASE t.step = "accepted"   -> {"keys", "ttlAnswer"}
                      [] t.step = "block"      -> {"hash", "ttlAnswer"}
                      [] t.step = "confirming" -> Confirming(n)
                      [] t.step = "reserving" /\ IsReceiver(n)  -> ReceiverWaiting
                      [] t.step \in {"reserving", "next"} /\ ~IsReceiver(n) -> Holding
           u == [t EXCEPT !.await = await]
<1>1. PICK m \in MailOf(n, "ttlAnswer") :
         \/ NodeDoes(n, {m}, Idle, {Confirmation(n, FALSE)})
         \/ NodeDoes(n, {m}, Idle, {})
         \/ NodeDoes(n, {m}, u, {})
  BY Zenon DEF ReceiveTTLAnswer, DurationOver
<1>2. t \in Txs /\ t \in TxRecords /\ "ttlAnswer" \in t.await
  BY Heard
<1>3. /\ t.step \in {"reserving", "next", "block", "confirming", "accepted"}
      /\ IsReceiver(n) => t.step # "next"
  BY <1>2 DEF Txs, TxRecords, NodeSteps, IsReceiver
<1>4. await \in {{"keys", "ttlAnswer"}, {"hash", "ttlAnswer"}, Confirming(n), ReceiverWaiting, Holding}
  BY <1>3
<1>5. await \in SUBSET Kinds /\ "extend" \notin await
  BY <1>4, AwaitType
<1> HIDE DEF t, await
<1>6. u \in Txs
  BY <1>2, <1>3, <1>5 DEF Txs, TxRecords, NodeSteps
<1>7. MessageOK(Confirmation(n, FALSE))
  BY DEF MessageOK, Confirmation
<1> HIDE DEF u
<1>8. QED BY <1>1, <1>6, <1>7, IdleType, NodeStep, SilentStep
\* What is held in total is a number.
LEMMA TotalAtType ==
    ASSUME NEW res \in Seq(Reservations), NEW S \in SUBSET (1..Len(res))
    PROVE  TotalAt(res, S) \in Nat
<1> DEFINE f == [i \in 1..Len(res) |-> res[i].amount]
<1>1. Len(res) \in Nat /\ f \in [1..Len(res) -> Nat]
  <2>1. Len(res) \in Nat /\ \A i \in 1..Len(res) : res[i] \in Reservations
    OBVIOUS
  <2>2. \A r \in Reservations : r.amount \in Nat
    BY ConstantsAssumption DEF Reservations
  <2>3. QED BY <2>1, <2>2
<1> HIDE DEF f
<1>2. SumOver(S, f, Len(res)) \in Nat
  BY <1>1, SumOverIsNat
<1>3. QED BY <1>2 DEF TotalAt, f

LEMMA ReceiptForType ==
    ASSUME NEW t \in TxRecords, NEW peer
    PROVE  ReceiptFor(t, peer) \in Nat
<1> DEFINE S == {i \in 1..Len(t.res) : t.res[i].peer = peer}
<1>1. t.res \in Seq(Reservations) /\ S \in SUBSET (1..Len(t.res))
  BY DEF TxRecords
<1> HIDE DEF S
<1>2. TotalAt(t.res, S) \in Nat
  BY <1>1, TotalAtType
<1>3. TotalWith(t.res, peer) = TotalAt(t.res, S)
  BY DEF TotalWith, S
<1>4. QED BY <1>2, <1>3 DEF ReceiptFor

LEMMA RefuseType ==
    ASSUME TypeInv, NEW n \in Nodes, NEW m, Refuse(n, m)
    PROVE  TypeInv'
<1> DEFINE sent == IF tx[n].knows THEN {Confirmation(n, FALSE)} ELSE {}
<1>1. \A x \in sent : MessageOK(x)
  BY DEF Confirmation, MessageOK
<1>2. NodeDoes(n, {m}, Idle, sent)
  BY DEF Refuse
<1> HIDE DEF sent
<1>3. QED BY <1>1, <1>2, IdleType, NodeStep

LEMMA ReceiveFinalType ==
    ASSUME TypeInv, NEW n \in Nodes, ReceiveFinal(n)
    PROVE  TypeInv'
<1> DEFINE t == tx[n]
           updated(m) == [t EXCEPT !.res = Updated(@, m.list), !.members = m.members,
                                   !.receipts[Coordinator] = m.receipt, !.step = "block",
                                   !.await = {"hash", "ttlAnswer"},
                                   !.asked = IF t.step = "confirming" THEN @ ELSE FALSE]
<1>1. PICK m \in MailOf(n, "final") :
         NodeDoes(n, {m}, Idle, {}) \/ Refuse(n, m) \/ NodeDoes(n, {m}, updated(m), {})
  BY Zenon DEF ReceiveFinal
<1>2. m.list \in Configurations /\ m.members \in SUBSET Nodes /\ m.receipt \in Nat
  BY Heard DEF MessageOK
<1>3. t \in TxRecords /\ t.res \in Seq(Reservations) /\ t.receipts \in [Peers -> Nat]
  BY Heard DEF TxRecords
<1> HIDE DEF t
<1>4. updated(m) \in Txs
  <2> DEFINE res == Updated(t.res, m.list)
             receipts == [t.receipts EXCEPT ![Coordinator] = m.receipt]
             asked == IF t.step = "confirming" THEN t.asked ELSE FALSE
  <2>1. res \in Seq(Reservations)
    BY <1>2, <1>3, UpdatedType DEF Configurations
  <2>2. receipts \in [Peers -> Nat] /\ asked \in BOOLEAN
    BY <1>2, <1>3 DEF TxRecords
  <2>3. updated(m) = [t EXCEPT !.res = res, !.members = m.members, !.receipts = receipts,
                               !.step = "block", !.await = {"hash", "ttlAnswer"}, !.asked = asked]
    BY <1>3 DEF TxRecords
  <2>4. {"hash", "ttlAnswer"} \in SUBSET Kinds
    BY AwaitType
  <2> HIDE DEF res, receipts, asked, updated
  <2>5. /\ updated(m) \in TxRecords /\ updated(m).step = "block"
        /\ updated(m).await = {"hash", "ttlAnswer"}
    BY <1>2, <1>3, <2>1, <2>2, <2>3, <2>4 DEF TxRecords, NodeSteps
  <2>6. QED BY <2>5 DEF Txs
<1> HIDE DEF updated
<1>5. QED BY <1>1, <1>4, IdleType, SilentStep, RefuseType

LEMMA ConfirmType ==
    ASSUME TypeInv, NEW n \in Nodes, NEW taken, NEW t \in TxRecords, NEW sent,
           Confirm(n, taken, t, sent), \A m \in sent : MessageOK(m)
    PROVE  TypeInv'
<1> DEFINE u == [t EXCEPT !.step = "accepted", !.asked = FALSE, !.await = {"keys", "ttlAnswer"}]
<1>1. \/ NodeDoes(n, taken, u, sent \cup {Confirmation(n, TRUE)})
      \/ NodeDoes(n, taken, Idle, sent \cup {Confirmation(n, FALSE)})
  BY DEF Confirm
<1>2. u \in Txs
  <2>1. {"keys", "ttlAnswer"} \in SUBSET Kinds
    BY AwaitType
  <2>2. QED BY <2>1 DEF Txs, TxRecords, NodeSteps
<1>3. \A b : MessageOK(Confirmation(n, b))
  BY DEF Confirmation, MessageOK
<1> HIDE DEF u
<1>4. \A b : \A m \in sent \cup {Confirmation(n, b)} : MessageOK(m)
  BY <1>3
<1>5. QED BY <1>1, <1>2, <1>4, IdleType, NodeStep

LEMMA LearnBlockNumberType ==
    ASSUME TypeInv, NEW n \in Nodes, LearnBlockNumber(n)
    PROVE  TypeInv'
<1> DEFINE t == [tx[n] EXCEPT !.hashes = @ \cup {n}]
           hash(p) == [kind |-> "hash", from |-> n, to |-> p,
                       receipt |-> IF IsReceiver(n) THEN 0 ELSE ReceiptFor(t, p)]
           sent == {hash(p) : p \in t.members \ {n}}
           u == [t EXCEPT !.step = "confirming", !.await = {"hash", "ttlAnswer"}]
<1>1. Confirm(n, {}, t, sent) \/ NodeDoes(n, {}, u, sent)
  BY Zenon DEF LearnBlockNumber
<1>2. tx[n] \in TxRecords
  BY Heard
<1>3. t \in TxRecords
  BY <1>2 DEF TxRecords
<1> HIDE DEF t
<1>4. u \in Txs
  <2>1. {"hash", "ttlAnswer"} \in SUBSET Kinds
    BY AwaitType
  <2>2. QED BY <1>3, <2>1 DEF Txs, TxRecords, NodeSteps
<1>5. ASSUME NEW p PROVE MessageOK(hash(p))
  <2>1. (IF IsReceiver(n) THEN 0 ELSE ReceiptFor(t, p)) \in Nat
    BY <1>3, ReceiptForType
  <2>2. QED BY <2>1 DEF MessageOK
<1> HIDE DEF hash, u
<1>6. \A m \in sent : MessageOK(m)
  BY <1>5
<1>7. QED BY <1>1, <1>3, <1>4, <1>6, ConfirmType, NodeStep

LEMMA BlockNumberWrongType ==
    ASSUME TypeInv, NEW n \in Nodes, BlockNumberWrong(n)
    PROVE  TypeInv'
<1>1. NodeDoes(n, {}, Idle, {Confirmation(n, FALSE)})
  BY DEF BlockNumberWrong
<1>2. MessageOK(Confirmation(n, FALSE))
  BY DEF Confirmation, MessageOK
<1>3. QED BY <1>1, <1>2, IdleType, NodeStep

LEMMA ReceiveHashType ==
    ASSUME TypeInv, NEW n \in Nodes, ReceiveHash(n)
    PROVE  TypeInv'
<1> DEFINE t(m) == [tx[n] EXCEPT !.hashes = @ \cup {m.from}, !.receipts[m.from] = m.receipt,
                                 !.step = IF @ = "block" THEN @ ELSE "confirming"]
<1>1. PICK m \in MailOf(n, "hash") :
         \/ Refuse(n, m)
         \/ NodeDoes(n, {m}, [t(m) EXCEPT !.await = {"final", "hash", "ttlAnswer"}], {})
         \/ NodeDoes(n, {m}, [t(m) EXCEPT !.await = {"hash"}], {})
         \/ Confirm(n, {m}, t(m), {})
         \/ NodeDoes(n, {m}, [t(m) EXCEPT !.await = {"hash", "ttlAnswer"}], {})
  BY Zenon DEF ReceiveHash
<1>2. m.from \in Nodes /\ m.receipt \in Nat
  BY Heard DEF MessageOK
<1>3. tx[n] \in TxRecords
  BY Heard
<1> DEFINE u == t(m)
           hashes == tx[n].hashes \cup {m.from}
           receipts == [tx[n].receipts EXCEPT ![m.from] = m.receipt]
           step == IF tx[n].step = "block" THEN "block" ELSE "confirming"
<1>4. /\ hashes \in SUBSET Nodes /\ receipts \in [Peers -> Nat]
      /\ u = [tx[n] EXCEPT !.hashes = hashes, !.receipts = receipts, !.step = step]
  BY <1>2, <1>3 DEF TxRecords
<1> HIDE DEF u, hashes, receipts
<1>5. u \in TxRecords /\ u.step \in {"block", "confirming"}
  BY <1>3, <1>4 DEF TxRecords, NodeSteps
<1>6. ASSUME NEW await \in {{"final", "hash", "ttlAnswer"}, {"hash"}, {"hash", "ttlAnswer"}}
      PROVE  [u EXCEPT !.await = await] \in Txs
  <2>1. await \in SUBSET Kinds /\ "extend" \notin await
    BY AwaitType
  <2>2. QED BY <1>5, <2>1 DEF Txs, TxRecords
<1>7. \/ Refuse(n, m)
      \/ \E await \in {{"final", "hash", "ttlAnswer"}, {"hash"}, {"hash", "ttlAnswer"}} :
            NodeDoes(n, {m}, [u EXCEPT !.await = await], {})
      \/ Confirm(n, {m}, u, {})
  BY <1>1 DEF u
<1>8. CASE Confirm(n, {m}, u, {})
  <2>1. \A x \in {} : MessageOK(x)
    OBVIOUS
  <2>2. QED BY <1>5, <1>8, <2>1, ConfirmType
<1>9. QED BY <1>6, <1>7, <1>8, RefuseType, SilentStep

LEMMA ReceiveKeysType ==
    ASSUME TypeInv, NEW n \in Nodes, ReceiveKeys(n)
    PROVE  TypeInv'
<1> DEFINE res == IF tx[n].rejecting THEN <<>> ELSE tx[n].res
           t == [tx[n] EXCEPT !.step = "voting", !.await = {},
                              !.res = IF tx[n].rejecting THEN <<>> ELSE @]
<1>1. PICK m : NodeDoes(n, {m}, t, {})
  BY DEF ReceiveKeys
<1>2. tx[n] \in TxRecords
  BY Heard
<1>3. res \in Seq(Reservations) /\ t = [tx[n] EXCEPT !.step = "voting", !.await = {}, !.res = res]
  BY <1>2 DEF TxRecords
<1> HIDE DEF res, t
<1>4. t \in Txs
  BY <1>2, <1>3 DEF Txs, TxRecords, NodeSteps
<1>5. QED BY <1>1, <1>4, SilentStep

LEMMA NodesType ==
    ASSUME TypeInv, NEW n \in Nodes,
           LearnBlockNumber(n) \/ NodeReceives(n) \/ NodeTimeout(n) \/ NodeRefuses(n)
    PROVE  TypeInv'
BY RequestType, ExtendType, ReceiveAnswerType, ReceiveFinalPathType, ReceiveTTLAnswerType,
   ReceiveFinalType, ReceiveHashType, ReceiveKeysType, TimerFiresType, BlockNumberWrongType,
   LearnBlockNumberType
DEF NodeReceives, NodeTimeout, NodeRefuses

-----------------------------------------------------------------------------
(* Every state of a behaviour *)

LEMMA InitTypeInv == Init => TypeInv
<1> SUFFICES ASSUME Init PROVE TypeInv
  OBVIOUS
<1>1. <<>> \in Routes /\ <<>> \in Owns /\ DOMAIN <<>> = {}
  <2>1. <<>> \in [{} -> Seq(Intermediates)] /\ <<>> \in [{} -> Nat] /\ {} \in SUBSET Nat
    OBVIOUS
  <2>2. QED BY <2>1 DEF Routes, Owns
<1>2. /\ <<>> \in Seq(Nat) /\ <<>> \in Seq(Nodes) /\ "start" \in CoStages
      /\ [n \in Nodes |-> <<>>] \in [Nodes -> Configurations]
  BY DEF CoStages, Configurations
<1>3. /\ co \in Coordinations /\ co.stage = "start" /\ co.paths = <<>> /\ co.own = <<>>
      /\ co.queue = <<>> /\ co.confirmed = {} /\ co.members = {}
  BY <1>1, <1>2 DEF Init, Coordinations
<1>4. PathSum(<<>>, {}) = 0 /\ IsFiniteSet({})
  BY PathSumOfNothing, FS_EmptySet
<1>5. PathsOK(co)
  BY <1>1, <1>3, <1>4, ConstantsAssumption DEF PathsOK
<1>6. QueueOK(co, 1)
  BY <1>3 DEF QueueOK
<1>7. StageOK(co)
  BY <1>3 DEF StageOK
<1>8. CoordinationOK(co)
  BY <1>3, <1>5, <1>6, <1>7 DEF CoordinationOK
<1>9. tx \in [Nodes -> Txs] /\ msgs = {}
  BY IdleType DEF Init
<1>10. QED BY <1>8, <1>9 DEF TypeInv

LEMMA NextTypeInv == TypeInv /\ [Next]_vars => TypeInv'
<1> SUFFICES ASSUME TypeInv, [Next]_vars PROVE TypeInv'
  OBVIOUS
<1>1. CASE UNCHANGED vars
  <2>1. co' = co /\ tx' = tx /\ msgs' = msgs
    BY <1>1 DEF vars
  <2>2. CoordinationOK(co') /\ tx' \in [Nodes -> Txs] /\ \A m \in msgs' : MessageOK(m)
    BY <2>1 DEF TypeInv
  <2>3. QED BY <2>2 DEF TypeInv
<1>2. CASE Next
  BY <1>2, CoordinatorType, InitType, NodesType DEF Next
<1>3. QED BY <1>1, <1>2

LEMMA TypeInvTypes == TypeInv => TypeOK
<1> SUFFICES ASSUME TypeInv PROVE TypeOK
  OBVIOUS
<1>1. /\ co \in Coordinations /\ co.confirmed \subseteq co.members /\ PathsOK(co)
  BY DEF TypeInv, CoordinationOK
<1>2. co.stage \in CoStages /\ co.members \subseteq Nodes
  BY <1>1 DEF Coordinations
<1>3. OwnTotal(co) \in 0..Amount
  <2> DEFINE total == OwnTotal(co)
  <2>1. total \in Nat /\ total <= Amount
    <3>1. total = PathSum(co.own, DOMAIN co.paths)
      BY Totals
    <3>2. PathSum(co.own, DOMAIN co.paths) \in Nat /\ PathSum(co.own, DOMAIN co.paths) <= Amount
      BY <1>1, CoordinationMaps DEF PathsOK
    <3> HIDE DEF total
    <3>3. QED BY <3>1, <3>2
  <2> HIDE DEF total
  <2>2. total \in 0..Amount
    BY <2>1, ConstantsAssumption
  <2>3. QED BY <2>2 DEF total
<1>4. ASSUME NEW n \in Nodes
      PROVE  /\ tx[n].role \in {"none", "intermediate", "receiver"}
             /\ \A i \in 1..Len(tx[n].res) : tx[n].res[i] \in Reservations
             /\ tx[n].hashes \subseteq Nodes /\ tx[n].members \subseteq Nodes
  <2>1. tx[n] \in TxRecords
    BY Heard
  <2>2. QED BY <2>1 DEF TxRecords
<1>5. QED BY <1>1, <1>2, <1>3, <1>4 DEF TypeOK, CoStages, Reservations

\* A coordinator never holds, and never asks for, more than its command, whatever
\* the nodes answer; and no node of the payment holds more than that on a path.
THEOREM TypeCorrect == Spec => []TypeOK
<1>1. Init => TypeInv
  BY InitTypeInv
<1>2. TypeInv /\ [Next]_vars => TypeInv'
  BY NextTypeInv
<1>3. TypeInv => TypeOK
  BY TypeInvTypes
<1>4. QED BY <1>1, <1>2, <1>3, PTL DEF Spec

\* From the final configuration to the vote the paths carry the amount of the
\* command: no less, whatever was shortened, and no more, whatever was late.
FullAmount ==
    co.stage \in {"block", "confirming", "voting"} => OwnTotal(co) = Amount

\* The coordinator fixes, and lets the nodes vote on, paths of just the amount.
THEOREM FullAmountIsFixed == Spec => []FullAmount
<1>1. Init => TypeInv
  BY InitTypeInv
<1>2. TypeInv /\ [Next]_vars => TypeInv'
  BY NextTypeInv
<1>3. TypeInv => FullAmount
  BY Totals DEF TypeInv, CoordinationOK, StageOK, FullAmount
<1>4. QED BY <1>1, <1>2, <1>3, PTL DEF Spec

-----------------------------------------------------------------------------
(* Final reservations stay *)

\* The final configuration is out.
Late(c) == c.stage \in {"confirming", "voting", "ended"}

\* Who has the final configuration waits for nothing that a path is about; only the
\* receiver of the payment may reject.
HeldOK(n, t) ==
    /\ t.members # {} => /\ t.step \in {"block", "confirming", "accepted", "voting"}
                         /\ t.await \cap {"extend", "answer", "pathAmount"} = {}
    /\ t.role = "receiver" \/ t.rejecting => n = Receiver

\* There is one final configuration for a node, and it has not had it yet.
FinalInv ==
    /\ TypeInv
    /\ \A n \in Nodes : HeldOK(n, tx[n]) /\ (tx[n].members # {} => Late(co))
    /\ \A m \in Mail("final") : Late(co) /\ m.to \in Nodes /\ tx[m.to].members = {}
    /\ \A m, o \in Mail("final") : m.to = o.to => m = o

\* What a step of a node makes of what it holds.
Kept(t, u, n) ==
    t.members # {} /\ u.members # {} =>
        u.res = t.res \/ (n = Receiver /\ t.rejecting /\ u.res = <<>>)

AllKept == \A n \in Nodes : Kept(tx[n], tx'[n], n)

LEMMA FinalNodeStep ==
    ASSUME FinalInv, TypeInv', NEW n \in Nodes, NEW taken, NEW t, NEW sent,
           NodeDoes(n, taken, t, sent),
           \A m \in sent : m.kind # "final", HeldOK(n, t), Kept(tx[n], t, n),
           t.members # {} => \/ t.members = tx[n].members
                             \/ \E m \in taken : m \in Mail("final") /\ m.to = n
    PROVE  FinalInv' /\ AllKept
<1>1. tx' = [tx EXCEPT ![n] = t] /\ msgs' = (msgs \ taken) \cup sent /\ co' = co
  BY DEF NodeDoes
<1>2. tx'[n] = t /\ \A x \in Nodes : x # n => tx'[x] = tx[x]
  BY <1>1 DEF FinalInv, TypeInv
<1>3. Mail("final")' = Mail("final") \ taken
  BY <1>1 DEF Mail
<1>4. t.members # {} => Late(co) /\ \A m \in Mail("final") \ taken : m.to # n
  <2>1. CASE t.members = tx[n].members
    BY <2>1 DEF FinalInv
  <2>2. CASE \E m \in taken : m \in Mail("final") /\ m.to = n
    BY <2>2 DEF FinalInv
  <2>3. QED BY <2>1, <2>2
<1>5. ASSUME NEW x \in Nodes PROVE HeldOK(x, tx'[x]) /\ (tx'[x].members # {} => Late(co'))
  <2>1. CASE x = n
    BY <1>1, <1>2, <1>4, <2>1
  <2>2. CASE x # n
    BY <1>1, <1>2, <2>2 DEF FinalInv
  <2>3. QED BY <2>1, <2>2
<1>6. ASSUME NEW m \in Mail("final")'
      PROVE  Late(co') /\ m.to \in Nodes /\ tx'[m.to].members = {}
  <2>1. m \in Mail("final") \ taken
    BY <1>3
  <2>2. Late(co) /\ m.to \in Nodes /\ tx[m.to].members = {}
    BY <2>1 DEF FinalInv
  <2>3. QED BY <1>1, <1>2, <1>4, <2>1, <2>2
<1>7. \A m, o \in Mail("final")' : m.to = o.to => m = o
  BY <1>3 DEF FinalInv
<1>8. FinalInv'
  BY <1>5, <1>6, <1>7 DEF FinalInv
<1>9. AllKept
  <2>1. ASSUME NEW x \in Nodes PROVE Kept(tx[x], tx'[x], x)
    <3>1. CASE x = n
      BY <1>2, <3>1
    <3>2. CASE x # n
      BY <1>2, <3>2 DEF Kept
    <3>3. QED BY <3>1, <3>2
  <2>2. QED BY <2>1 DEF AllKept
<1>10. QED BY <1>8, <1>9

\* A node that has no final configuration.
Unsettled(n, t) == t.members = {} /\ (t.role = "receiver" \/ t.rejecting => n = Receiver)

LEMMA UnsettledStep ==
    ASSUME FinalInv, TypeInv', NEW n \in Nodes, NEW taken, NEW t, NEW sent,
           NodeDoes(n, taken, t, sent), \A m \in sent : m.kind # "final", Unsettled(n, t)
    PROVE  FinalInv' /\ AllKept
<1>1. HeldOK(n, t) /\ Kept(tx[n], t, n)
  BY DEF HeldOK, Kept, Unsettled
<1>2. t.members = {}
  BY DEF Unsettled
<1>3. QED BY <1>1, <1>2, FinalNodeStep

LEMMA IdleUnsettled == \A n : Unsettled(n, Idle)
BY DEF Unsettled, Idle

LEMMA IdleStep ==
    ASSUME FinalInv, TypeInv', NEW n \in Nodes, NEW taken, NEW sent,
           NodeDoes(n, taken, Idle, sent), \A m \in sent : m.kind # "final"
    PROVE  FinalInv' /\ AllKept
<1>1. Unsettled(n, Idle)
  BY IdleUnsettled
<1>2. QED BY <1>1, UnsettledStep

LEMMA ProlongedUnsettled ==
    ASSUME NEW n, NEW t \in TxRecords, Unsettled(n, t)
    PROVE  Unsettled(n, Prolonged(t))
<1> DEFINE u == [t EXCEPT !.step = "reserving", !.await = AfterPath]
<1>1. u.members = t.members /\ u.role = t.role /\ u.rejecting = t.rejecting
  BY DEF TxRecords
<1> HIDE DEF u
<1>2. Unsettled(n, u)
  BY <1>1 DEF Unsettled
<1>3. Prolonged(t) = Idle \/ Prolonged(t) = u
  BY DEF Prolonged, u
<1>4. QED BY <1>2, <1>3, IdleUnsettled

\* A node that has it, or not, and goes on.
LEMMA SameStep ==
    ASSUME FinalInv, TypeInv', NEW n \in Nodes, NEW taken, NEW t, NEW sent,
           NodeDoes(n, taken, t, sent), \A m \in sent : m.kind # "final",
           t.members = tx[n].members, t.role = tx[n].role, t.rejecting = tx[n].rejecting,
           t.members # {} => /\ t.res = tx[n].res \/ (tx[n].rejecting /\ t.res = <<>>)
                             /\ t.step \in {"block", "confirming", "accepted", "voting"}
                             /\ t.await \cap {"extend", "answer", "pathAmount"} = {}
    PROVE  FinalInv' /\ AllKept
<1>1. HeldOK(n, tx[n])
  BY DEF FinalInv
<1>2. HeldOK(n, t)
  BY <1>1 DEF HeldOK
<1>3. Kept(tx[n], t, n)
  BY <1>1 DEF HeldOK, Kept
<1>4. QED BY <1>2, <1>3, FinalNodeStep

\* A message about a path finds a node without the final configuration.
LEMMA PathNews ==
    ASSUME FinalInv, NEW n \in Nodes,
           tx[n].await \cap {"extend", "answer", "pathAmount"} # {} \/ tx[n].step \in {"next", "reserving"}
    PROVE  Unsettled(n, tx[n])
BY DEF FinalInv, HeldOK, Unsettled

LEMMA RequestRefusedFinal ==
    ASSUME FinalInv, TypeInv', NEW n \in Nodes, NEW m, NEW t \in TxRecords, NEW state,
           Unsettled(n, t), RequestRefused(n, m, t, state)
    PROVE  FinalInv' /\ AllKept
<1> DEFINE u == [t EXCEPT !.await = ReceiverWaiting]
           a == Answer(n, m.from, m.path, state, 0)
<1>1. NodeDoes(n, {m}, IF t.role = "receiver" THEN u ELSE Prolonged(t), {a})
  BY DEF RequestRefused
<1>2. Unsettled(n, u)
  BY DEF Unsettled, TxRecords
<1>3. \A x \in {a} : x.kind # "final"
  BY DEF Answer
<1> HIDE DEF u, a
<1>4. Unsettled(n, IF t.role = "receiver" THEN u ELSE Prolonged(t))
  BY <1>2, ProlongedUnsettled
<1>5. QED BY <1>1, <1>3, <1>4, UnsettledStep

LEMMA ReserveIncomingFinal ==
    ASSUME FinalInv, TypeInv', NEW n \in Nodes, NEW m, NEW t \in TxRecords, NEW grant,
           t.role \in {"intermediate", "receiver"}, t.res \in Seq(Reservations),
           Reservation(m.path, m.from, "in", grant) \in Reservations,
           Unsettled(n, t), ReserveIncoming(n, m, t, grant)
    PROVE  FinalInv' /\ AllKept
<1> DEFINE res == Append(t.res, Reservation(m.path, m.from, "in", grant))
           more == [t EXCEPT !.res = Append(@, Reservation(m.path, m.from, "in", grant))]
           a == Answer(n, m.from, m.path, "accepted", grant)
           kept == [more EXCEPT !.last = m.path, !.step = "reserving", !.await = AfterReserving]
           all == [more EXCEPT !.step = "confirming", !.asked = FALSE, !.await = Confirming(n)]
           some == [more EXCEPT !.await = ReceiverWaiting]
           over == [more EXCEPT !.rejecting = TRUE]
<1>1. \/ NodeDoes(n, {m}, kept, {a})
      \/ t.role # "intermediate" /\ RequestRefused(n, m, over, "closed")
      \/ NodeDoes(n, {m}, all, {a})
      \/ NodeDoes(n, {m}, some, {a})
  BY Zenon DEF ReserveIncoming
<1>2. res \in Seq(Reservations)
  OBVIOUS
<1>3. more = [t EXCEPT !.res = res]
  BY DEF TxRecords
<1> HIDE DEF res, more
<1>4. more \in TxRecords /\ more.role = t.role /\ Unsettled(n, more)
  BY <1>2, <1>3 DEF TxRecords, Unsettled
<1>5. Unsettled(n, kept) /\ Unsettled(n, all) /\ Unsettled(n, some)
  BY <1>4 DEF TxRecords, Unsettled
<1>6. ASSUME t.role # "intermediate" PROVE Unsettled(n, over) /\ over \in TxRecords
  BY <1>4, <1>6 DEF TxRecords, Unsettled
<1>7. \A x \in {a} : x.kind # "final"
  BY DEF Answer
<1> HIDE DEF kept, all, some, over, a
<1>8. QED BY <1>1, <1>5, <1>6, <1>7, UnsettledStep, RequestRefusedFinal

LEMMA RequestFinal ==
    ASSUME TimelyRequests, FinalInv, TypeInv', NEW n \in Nodes, ReceiveRequest(n) \/ RefuseRequest(n)
    PROVE  FinalInv' /\ AllKept
<1> DEFINE t == Serving(n)
           updated(m) == [t EXCEPT !.res = Updated(@, m.final)]
           rejecting(m) == [updated(m) EXCEPT !.rejecting = IsReceiver(n)]
<1>1. PICK m \in RequestsOf(n) :
         \/ NodeDoes(n, {m}, Idle, {})
         \/ RequestRefused(n, m, rejecting(m), "closed")
         \/ \E grant \in 1..m.amount : ReserveIncoming(n, m, updated(m), grant)
         \/ RequestRefused(n, m, t, "rejected")
         \/ RequestRefused(n, m, updated(m), "rejected")
  BY Zenon DEF ReceiveRequest, RefuseRequest
<1>2. TypeInv
  BY DEF FinalInv
<1>3. /\ m.final \in Configurations /\ m.from \in Peers /\ m.path \in Nat /\ m.amount \in 1..Amount
      /\ OnTime(m)
  BY <1>2, Heard DEF MessageOK, RequestsOf
<1>4. t \in TxRecords /\ t.role \in {"intermediate", "receiver"}
  BY <1>2, ServingType
<1>5. tx[n].members = {} /\ tx[n] \in TxRecords /\ Unsettled(n, tx[n])
  <2>1. ~Late(co)
    BY <1>3 DEF OnTime, Late
  <2>2. QED BY <1>2, <2>1, Heard DEF FinalInv, HeldOK, Unsettled
<1>6. Unsettled(n, t) /\ (IsReceiver(n) => n = Receiver)
  BY <1>5, IdleType, IdleUnsettled DEF Serving, Unsettled, TxRecords, IsReceiver
<1> DEFINE u == updated(m)
           r == [u EXCEPT !.rejecting = IsReceiver(n)]
<1> HIDE DEF t
<1>7. u \in TxRecords /\ u.role = t.role /\ Unsettled(n, u) /\ u.res \in Seq(Reservations)
  <2> DEFINE res == Updated(t.res, m.final)
  <2>1. res \in Seq(Reservations)
    BY <1>3, <1>4, UpdatedType DEF TxRecords, Configurations
  <2>2. u = [t EXCEPT !.res = res]
    BY <1>4 DEF TxRecords
  <2> HIDE DEF res, u
  <2>3. QED BY <1>4, <1>6, <2>1, <2>2 DEF TxRecords, Unsettled
<1> HIDE DEF u
<1>8. r \in TxRecords /\ Unsettled(n, r)
  BY <1>6, <1>7 DEF TxRecords, Unsettled, IsReceiver
<1>9. \/ NodeDoes(n, {m}, Idle, {})
      \/ RequestRefused(n, m, r, "closed")
      \/ \E grant \in 1..m.amount : ReserveIncoming(n, m, u, grant)
      \/ RequestRefused(n, m, t, "rejected")
      \/ RequestRefused(n, m, u, "rejected")
  BY <1>1 DEF u
<1> HIDE DEF r
<1>10. CASE \E grant \in 1..m.amount : ReserveIncoming(n, m, u, grant)
  <2>1. PICK grant \in 1..m.amount : ReserveIncoming(n, m, u, grant)
    BY <1>10
  <2>2. grant \in 1..Amount
    BY <1>3, ConstantsAssumption
  <2>3. Reservation(m.path, m.from, "in", grant) \in Reservations
    BY <1>3, <2>2 DEF Reservation, Reservations
  <2>4. u.role \in {"intermediate", "receiver"}
    BY <1>4, <1>7
  <2>5. QED BY <1>7, <2>1, <2>3, <2>4, ReserveIncomingFinal
<1>11. CASE NodeDoes(n, {m}, Idle, {})
  <2>1. \A x \in {} : x.kind # "final"
    OBVIOUS
  <2>2. QED BY <1>11, <2>1, IdleStep
<1>12. QED BY <1>4, <1>6, <1>7, <1>8, <1>9, <1>10, <1>11, RequestRefusedFinal
LEMMA InitMessageFinal ==
    ASSUME FinalInv, TypeInv', ReceiveInit \/ RefuseInit
    PROVE  FinalInv' /\ AllKept
<1> DEFINE t == [Idle EXCEPT !.role = "receiver", !.step = "reserving", !.knows = TRUE,
                             !.await = ReceiverWaiting]
           says(b) == [kind |-> "initAnswer", ok |-> b]
<1>1. PICK m : \/ NodeDoes(Receiver, {m}, t, {says(TRUE)})
               \/ NodeDoes(Receiver, {m}, tx[Receiver], {says(FALSE)})
  BY DEF ReceiveInit, RefuseInit
<1>2. Receiver \in Nodes
  BY DEF Nodes
<1>3. Unsettled(Receiver, t)
  BY DEF Unsettled, Idle
<1>4. \A b : \A x \in {says(b)} : x.kind # "final"
  OBVIOUS
<1>5. HeldOK(Receiver, tx[Receiver]) /\ Kept(tx[Receiver], tx[Receiver], Receiver)
  BY <1>2 DEF FinalInv, Kept
<1> HIDE DEF t, says
<1>6. QED BY <1>1, <1>2, <1>3, <1>4, <1>5, UnsettledStep, FinalNodeStep

LEMMA PathRefusedFinal ==
    ASSUME FinalInv, TypeInv', NEW n \in Nodes, NEW taken, NEW t \in TxRecords, NEW state,
           Unsettled(n, t), PathRefused(n, taken, t, state)
    PROVE  FinalInv' /\ AllKept
<1> DEFINE res == WithoutPath(t.res, t.last)
           u == [t EXCEPT !.res = WithoutPath(@, t.last)]
           a == Extended(n, t.last, state, 0)
<1>1. NodeDoes(n, taken, Prolonged(u), {a})
  BY DEF PathRefused
<1>2. res \in Seq(Reservations)
  BY WithoutPathType DEF TxRecords
<1>3. u = [t EXCEPT !.res = res]
  BY DEF TxRecords
<1> HIDE DEF res, u
<1>4. u \in TxRecords /\ Unsettled(n, u)
  BY <1>2, <1>3 DEF TxRecords, Unsettled
<1>5. Unsettled(n, Prolonged(u))
  BY <1>4, ProlongedUnsettled
<1>6. \A x \in {a} : x.kind # "final"
  BY DEF Extended
<1>7. QED BY <1>1, <1>5, <1>6, UnsettledStep

LEMMA ExtendFinal ==
    ASSUME FinalInv, TypeInv', NEW n \in Nodes, ReceiveExtend(n) \/ RefuseExtend(n)
    PROVE  FinalInv' /\ AllKept
<1> DEFINE t(m, grant) == [tx[n] EXCEPT !.knows = TRUE, !.last = m.path, !.step = "next",
                                        !.await = AfterExtending,
                                        !.res = Append(@, Reservation(m.path, m.next, "out", grant))]
           u(m) == [tx[n] EXCEPT !.knows = TRUE, !.last = m.path]
           r(m, grant) == Request(n, m.next, m.path, grant, m.final)
<1>1. PICK m \in MailOf(n, "extend") :
         \/ \E grant \in 1..m.amount : NodeDoes(n, {m}, t(m, grant), {r(m, grant)})
         \/ PathRefused(n, {m}, u(m), "rejected")
  BY DEF ReceiveExtend, RefuseExtend
<1>2. TypeInv
  BY DEF FinalInv
<1>3. tx[n] \in TxRecords /\ "extend" \in tx[n].await /\ m.path \in Nat
  BY <1>2, Heard DEF MessageOK
<1>4. Unsettled(n, tx[n])
  BY <1>3, PathNews
<1>5. ASSUME NEW grant PROVE Unsettled(n, t(m, grant))
  BY <1>3, <1>4 DEF TxRecords, Unsettled
<1>6. u(m) \in TxRecords /\ Unsettled(n, u(m))
  BY <1>3, <1>4 DEF TxRecords, Unsettled
<1>7. \A grant : \A x \in {r(m, grant)} : x.kind # "final"
  BY DEF Request
<1> HIDE DEF t, u, r
<1>8. QED BY <1>1, <1>5, <1>6, <1>7, UnsettledStep, PathRefusedFinal

LEMMA AnswerFinal ==
    ASSUME FinalInv, TypeInv', NEW n \in Nodes, ReceiveAnswer(n) \/ NextNodeSilent(n)
    PROVE  FinalInv' /\ AllKept
<1> DEFINE t == tx[n]
           u(m) == [t EXCEPT !.res = Shortened(@, t.last, m.amount), !.step = "reserving",
                             !.await = Holding]
           a(m) == Extended(n, t.last, "accepted", m.amount)
<1>1. t.step = "next"
  BY DEF ReceiveAnswer, NextNodeSilent
<1>2. \/ PathRefused(n, {}, t, "inaccessible")
      \/ \E m : \/ NodeDoes(n, {m}, t, {})
                \/ PathRefused(n, {m}, t, m.state)
                \/ NodeDoes(n, {m}, Idle, {})
                \/ NodeDoes(n, {m}, u(m), {a(m)})
  BY Zenon DEF ReceiveAnswer, NextNodeSilent
<1>3. t \in TxRecords /\ Unsettled(n, t)
  <2>1. TypeInv
    BY DEF FinalInv
  <2>2. QED BY <1>1, <2>1, Heard, PathNews
<1> HIDE DEF t
<1>4. \A m : Unsettled(n, u(m))
  BY <1>3 DEF TxRecords, Unsettled
<1>5. \A m : \A x \in {a(m)} : x.kind # "final"
  BY DEF Extended
<1>6. \A x \in {} : x.kind # "final"
  OBVIOUS
<1> HIDE DEF u, a
<1>7. CASE PathRefused(n, {}, t, "inaccessible")
  BY <1>3, <1>7, PathRefusedFinal
<1>8. ASSUME NEW m, \/ NodeDoes(n, {m}, t, {}) \/ PathRefused(n, {m}, t, m.state)
                    \/ NodeDoes(n, {m}, Idle, {}) \/ NodeDoes(n, {m}, u(m), {a(m)})
      PROVE  FinalInv' /\ AllKept
  BY <1>3, <1>4, <1>5, <1>6, <1>8, IdleUnsettled, PathRefusedFinal, UnsettledStep
<1>9. QED BY <1>2, <1>7, <1>8

LEMMA FinalPathFinal ==
    ASSUME FinalInv, TypeInv', NEW n \in Nodes, ReceiveFinalPath(n)
    PROVE  FinalInv' /\ AllKept
<1> DEFINE t == tx[n]
           none(m) == [t EXCEPT !.res = WithoutPath(@, m.path)]
           less(m) == IF ShorteningThrows(t.res, m.path, m.amount) THEN Idle
                      ELSE [t EXCEPT !.res = Shortened(@, m.path, m.amount), !.step = "reserving",
                                     !.await = AfterPath]
<1>1. PICK m \in MailOf(n, "pathAmount") :
         \/ NodeDoes(n, {m}, Idle, {})
         \/ NodeDoes(n, {m}, Prolonged(none(m)), {})
         \/ NodeDoes(n, {m}, less(m), {})
  BY Zenon DEF ReceiveFinalPath
<1>2. TypeInv
  BY DEF FinalInv
<1>3. t \in TxRecords /\ Unsettled(n, t)
  BY <1>2, Heard, PathNews
<1> HIDE DEF t
<1>4. Unsettled(n, Prolonged(none(m)))
  <2> DEFINE res == WithoutPath(t.res, m.path)
  <2>1. res \in Seq(Reservations)
    BY <1>3, WithoutPathType DEF TxRecords
  <2>2. none(m) = [t EXCEPT !.res = res]
    BY <1>3 DEF TxRecords
  <2> HIDE DEF res, none
  <2>3. none(m) \in TxRecords /\ Unsettled(n, none(m))
    BY <1>3, <2>1, <2>2 DEF TxRecords, Unsettled
  <2>4. QED BY <2>3, ProlongedUnsettled
<1>5. Unsettled(n, less(m))
  <2> DEFINE res == Shortened(t.res, m.path, m.amount)
             u == [t EXCEPT !.res = Shortened(@, m.path, m.amount), !.step = "reserving",
                            !.await = AfterPath]
  <2>1. u = [t EXCEPT !.res = res, !.step = "reserving", !.await = AfterPath]
    BY <1>3 DEF TxRecords
  <2> HIDE DEF res
  <2>2. Unsettled(n, u)
    BY <1>3, <2>1 DEF TxRecords, Unsettled
  <2> HIDE DEF u
  <2>3. less(m) = Idle \/ less(m) = u
    BY DEF u
  <2>4. QED BY <2>2, <2>3, IdleUnsettled
<1>6. \A x \in {} : x.kind # "final"
  OBVIOUS
<1> HIDE DEF none, less
<1>7. QED BY <1>1, <1>4, <1>5, <1>6, IdleUnsettled, UnsettledStep

\* What is awaited after the answer to a question, or with the question.
LEMMA AskingAwaits ==
    ASSUME NEW n
    PROVE  \A await \in {{"keys", "ttlAnswer"}, {"hash", "ttlAnswer"}, {"hash"}, Confirming(n),
                         {"final", "hash", "ttlAnswer"}, {}} :
              await \cap {"extend", "answer", "pathAmount"} = {}
BY DEF Confirming

LEMMA TimerFiresFinal ==
    ASSUME FinalInv, TypeInv', NEW n \in Nodes, TimerFires(n)
    PROVE  FinalInv' /\ AllKept
<1> DEFINE t == tx[n]
           await == CASE t.step = "accepted"   -> {"keys", "ttlAnswer"}
                      [] t.step = "confirming" -> Confirming(n)
                      [] t.step = "reserving" /\ IsReceiver(n)  -> ReceiverWaiting
                      [] t.step = "reserving" /\ ~IsReceiver(n) -> Holding
           u == [t EXCEPT !.asked = TRUE, !.await = await]
           q == [kind |-> "ttlRequest", from |-> n]
<1>1. /\ t.step \in {"reserving", "confirming", "accepted"}
      /\ NodeDoes(n, {}, Idle, {}) \/ NodeDoes(n, {}, u, {q})
  BY Zenon DEF TimerFires, AskTTL
<1>2. t \in TxRecords /\ HeldOK(n, t)
  BY Heard DEF FinalInv
<1>3. t.members # {} => t.step \in {"confirming", "accepted"}
  BY <1>1, <1>2 DEF HeldOK
<1>4. t.members # {} => await \in {{"keys", "ttlAnswer"}, Confirming(n)}
  BY <1>3
<1>5. t.members # {} => await \cap {"extend", "answer", "pathAmount"} = {}
  BY <1>4, AskingAwaits
<1> HIDE DEF await
<1>6. /\ u.members = t.members /\ u.role = t.role /\ u.rejecting = t.rejecting /\ u.res = t.res
      /\ u.step = t.step /\ u.await = await
  BY <1>2 DEF TxRecords
<1>7. \A x \in {} \cup {q} : x.kind # "final"
  OBVIOUS
<1> HIDE DEF u, q
<1>8. CASE NodeDoes(n, {}, u, {q})
  BY <1>3, <1>5, <1>6, <1>7, <1>8, SameStep
<1>9. QED BY <1>1, <1>7, <1>8, IdleStep

LEMMA TTLAnswerFinal ==
    ASSUME FinalInv, TypeInv', NEW n \in Nodes, ReceiveTTLAnswer(n) \/ DurationOver(n)
    PROVE  FinalInv' /\ AllKept
<1> DEFINE t == tx[n]
           await == CASE t.step = "accepted"   -> {"keys", "ttlAnswer"}
                      [] t.step = "block"      -> {"hash", "ttlAnswer"}
                      [] t.step = "confirming" -> Confirming(n)
                      [] t.step = "reserving" /\ IsReceiver(n)  -> ReceiverWaiting
                      [] t.step \in {"reserving", "next"} /\ ~IsReceiver(n) -> Holding
           u == [t EXCEPT !.await = await]
           c == Confirmation(n, FALSE)
<1>1. PICK m \in MailOf(n, "ttlAnswer") :
         NodeDoes(n, {m}, Idle, {c}) \/ NodeDoes(n, {m}, Idle, {}) \/ NodeDoes(n, {m}, u, {})
  BY Zenon DEF ReceiveTTLAnswer, DurationOver
<1>2. t \in TxRecords /\ t \in Txs /\ HeldOK(n, t) /\ "ttlAnswer" \in t.await
  BY Heard DEF FinalInv
<1>3. t.members # {} => t.step \in {"block", "confirming", "accepted"}
  BY <1>2 DEF HeldOK, Txs
<1>4. t.members # {} => await \in {{"keys", "ttlAnswer"}, {"hash", "ttlAnswer"}, Confirming(n)}
  BY <1>3
<1>5. t.members # {} => await \cap {"extend", "answer", "pathAmount"} = {}
  BY <1>4, AskingAwaits
<1> HIDE DEF await
<1>6. /\ u.members = t.members /\ u.role = t.role /\ u.rejecting = t.rejecting /\ u.res = t.res
      /\ u.step = t.step /\ u.await = await
  BY <1>2 DEF TxRecords
<1>7. \A x \in {c} : x.kind # "final"
  BY DEF Confirmation
<1>8. \A x \in {} : x.kind # "final"
  OBVIOUS
<1> HIDE DEF u, c
<1>9. CASE NodeDoes(n, {m}, u, {})
  BY <1>3, <1>5, <1>6, <1>8, <1>9, SameStep
<1>10. QED BY <1>1, <1>7, <1>8, <1>9, IdleStep
LEMMA RefuseFinal ==
    ASSUME FinalInv, TypeInv', NEW n \in Nodes, NEW m, Refuse(n, m)
    PROVE  FinalInv' /\ AllKept
<1> DEFINE sent == IF tx[n].knows THEN {Confirmation(n, FALSE)} ELSE {}
<1>1. NodeDoes(n, {m}, Idle, sent)
  BY DEF Refuse
<1>2. \A x \in sent : x.kind # "final"
  BY DEF Confirmation
<1> HIDE DEF sent
<1>3. QED BY <1>1, <1>2, IdleStep

LEMMA ReceiveFinalFinal ==
    ASSUME FinalInv, TypeInv', NEW n \in Nodes, ReceiveFinal(n)
    PROVE  FinalInv' /\ AllKept
<1> DEFINE t == tx[n]
           updated(m) == [t EXCEPT !.res = Updated(@, m.list), !.members = m.members,
                                   !.receipts[Coordinator] = m.receipt, !.step = "block",
                                   !.await = {"hash", "ttlAnswer"},
                                   !.asked = IF t.step = "confirming" THEN @ ELSE FALSE]
<1>1. PICK m \in MailOf(n, "final") :
         NodeDoes(n, {m}, Idle, {}) \/ Refuse(n, m) \/ NodeDoes(n, {m}, updated(m), {})
  BY Zenon DEF ReceiveFinal
<1>2. t \in TxRecords /\ HeldOK(n, t)
  BY Heard DEF FinalInv
<1>3. m \in Mail("final") /\ m.to = n /\ t.members = {}
  BY DEF FinalInv, MailOf
<1> HIDE DEF t
<1>4. /\ updated(m).role = t.role /\ updated(m).rejecting = t.rejecting
      /\ updated(m).step = "block" /\ updated(m).await = {"hash", "ttlAnswer"}
  <2> DEFINE res == Updated(t.res, m.list)
             receipts == [t.receipts EXCEPT ![Coordinator] = m.receipt]
             asked == IF t.step = "confirming" THEN t.asked ELSE FALSE
  <2>1. updated(m) = [t EXCEPT !.res = res, !.members = m.members, !.receipts = receipts,
                               !.step = "block", !.await = {"hash", "ttlAnswer"}, !.asked = asked]
    BY <1>2 DEF TxRecords
  <2> HIDE DEF res, receipts, asked, updated
  <2>2. QED BY <1>2, <2>1 DEF TxRecords
<1> HIDE DEF updated
<1>5. HeldOK(n, updated(m))
  BY <1>2, <1>4 DEF HeldOK
<1>6. Kept(tx[n], updated(m), n)
  BY <1>3 DEF Kept, t
<1>7. \A x \in {} : x.kind # "final"
  OBVIOUS
<1>8. CASE NodeDoes(n, {m}, updated(m), {})
  <2>1. \E x \in {m} : x \in Mail("final") /\ x.to = n
    BY <1>3
  <2>2. QED BY <1>5, <1>6, <1>7, <1>8, <2>1, FinalNodeStep
<1>9. QED BY <1>1, <1>7, <1>8, IdleStep, RefuseFinal

LEMMA ConfirmFinal ==
    ASSUME FinalInv, TypeInv', NEW n \in Nodes, NEW taken, NEW t \in TxRecords, NEW sent,
           Confirm(n, taken, t, sent), \A m \in sent : m.kind # "final",
           t.members = tx[n].members, t.role = tx[n].role, t.rejecting = tx[n].rejecting,
           t.res = tx[n].res
    PROVE  FinalInv' /\ AllKept
<1> DEFINE u == [t EXCEPT !.step = "accepted", !.asked = FALSE, !.await = {"keys", "ttlAnswer"}]
<1>1. \/ NodeDoes(n, taken, u, sent \cup {Confirmation(n, TRUE)})
      \/ NodeDoes(n, taken, Idle, sent \cup {Confirmation(n, FALSE)})
  BY DEF Confirm
<1>2. /\ u.members = t.members /\ u.role = t.role /\ u.rejecting = t.rejecting /\ u.res = t.res
      /\ u.step = "accepted" /\ u.await = {"keys", "ttlAnswer"}
  BY DEF TxRecords
<1>3. {"keys", "ttlAnswer"} \cap {"extend", "answer", "pathAmount"} = {}
  OBVIOUS
<1>4. \A b : \A m \in sent \cup {Confirmation(n, b)} : m.kind # "final"
  BY DEF Confirmation
<1> HIDE DEF u
<1>5. CASE NodeDoes(n, taken, u, sent \cup {Confirmation(n, TRUE)})
  <2> DEFINE all == sent \cup {Confirmation(n, TRUE)}
  <2>1. NodeDoes(n, taken, u, all) /\ \A m \in all : m.kind # "final"
    BY <1>4, <1>5
  <2>2. u.members = tx[n].members /\ u.role = tx[n].role /\ u.rejecting = tx[n].rejecting
    BY <1>2
  <2>3. u.members # {} => /\ u.res = tx[n].res \/ (tx[n].rejecting /\ u.res = <<>>)
                          /\ u.step \in {"block", "confirming", "accepted", "voting"}
                          /\ u.await \cap {"extend", "answer", "pathAmount"} = {}
    BY <1>2, <1>3
  <2> HIDE DEF all
  <2>4. QED BY <2>1, <2>2, <2>3, SameStep
<1>6. CASE NodeDoes(n, taken, Idle, sent \cup {Confirmation(n, FALSE)})
  <2> DEFINE all == sent \cup {Confirmation(n, FALSE)}
  <2>1. NodeDoes(n, taken, Idle, all) /\ \A m \in all : m.kind # "final"
    BY <1>4, <1>6
  <2> HIDE DEF all
  <2>2. QED BY <2>1, IdleStep
<1>7. QED BY <1>1, <1>5, <1>6

LEMMA LearnBlockNumberFinal ==
    ASSUME FinalInv, TypeInv', NEW n \in Nodes, LearnBlockNumber(n)
    PROVE  FinalInv' /\ AllKept
<1> DEFINE t == [tx[n] EXCEPT !.hashes = @ \cup {n}]
           hash(p) == [kind |-> "hash", from |-> n, to |-> p,
                       receipt |-> IF IsReceiver(n) THEN 0 ELSE ReceiptFor(t, p)]
           sent == {hash(p) : p \in t.members \ {n}}
           u == [t EXCEPT !.step = "confirming", !.await = {"hash", "ttlAnswer"}]
<1>1. Confirm(n, {}, t, sent) \/ NodeDoes(n, {}, u, sent)
  BY Zenon DEF LearnBlockNumber
<1>2. tx[n] \in TxRecords
  BY Heard DEF FinalInv
<1>3. /\ t \in TxRecords /\ t.members = tx[n].members /\ t.role = tx[n].role
      /\ t.rejecting = tx[n].rejecting /\ t.res = tx[n].res
  BY <1>2 DEF TxRecords
<1> HIDE DEF t
<1>4. /\ u.members = t.members /\ u.role = t.role /\ u.rejecting = t.rejecting /\ u.res = t.res
      /\ u.step = "confirming" /\ u.await = {"hash", "ttlAnswer"}
  BY <1>3 DEF TxRecords
<1>5. \A m \in sent : m.kind # "final"
  OBVIOUS
<1>6. {"hash", "ttlAnswer"} \cap {"extend", "answer", "pathAmount"} = {}
  OBVIOUS
<1> HIDE DEF sent, u
<1>7. CASE NodeDoes(n, {}, u, sent)
  BY <1>3, <1>4, <1>5, <1>6, <1>7, SameStep
<1>8. QED BY <1>1, <1>3, <1>5, <1>7, ConfirmFinal

LEMMA BlockNumberWrongFinal ==
    ASSUME FinalInv, TypeInv', NEW n \in Nodes, BlockNumberWrong(n)
    PROVE  FinalInv' /\ AllKept
<1>1. NodeDoes(n, {}, Idle, {Confirmation(n, FALSE)})
  BY DEF BlockNumberWrong
<1>2. \A x \in {Confirmation(n, FALSE)} : x.kind # "final"
  BY DEF Confirmation
<1>3. QED BY <1>1, <1>2, IdleStep

LEMMA ReceiveHashFinal ==
    ASSUME FinalInv, TypeInv', NEW n \in Nodes, ReceiveHash(n)
    PROVE  FinalInv' /\ AllKept
<1> DEFINE t(m) == [tx[n] EXCEPT !.hashes = @ \cup {m.from}, !.receipts[m.from] = m.receipt,
                                 !.step = IF @ = "block" THEN @ ELSE "confirming"]
<1>1. PICK m \in MailOf(n, "hash") :
         \/ Refuse(n, m)
         \/ t(m).members = {} /\ NodeDoes(n, {m}, [t(m) EXCEPT !.await = {"final", "hash", "ttlAnswer"}], {})
         \/ NodeDoes(n, {m}, [t(m) EXCEPT !.await = {"hash"}], {})
         \/ Confirm(n, {m}, t(m), {})
         \/ NodeDoes(n, {m}, [t(m) EXCEPT !.await = {"hash", "ttlAnswer"}], {})
  BY Zenon DEF ReceiveHash
<1>2. TypeInv
  BY DEF FinalInv
<1>3. m.from \in Nodes /\ m.receipt \in Nat /\ tx[n] \in TxRecords
  BY <1>2, Heard DEF MessageOK
<1> DEFINE u == t(m)
           hashes == tx[n].hashes \cup {m.from}
           receipts == [tx[n].receipts EXCEPT ![m.from] = m.receipt]
           step == IF tx[n].step = "block" THEN "block" ELSE "confirming"
<1>4. /\ hashes \in SUBSET Nodes /\ receipts \in [Peers -> Nat]
      /\ u = [tx[n] EXCEPT !.hashes = hashes, !.receipts = receipts, !.step = step]
  BY <1>3 DEF TxRecords
<1> HIDE DEF u, hashes, receipts
<1>5. /\ u \in TxRecords /\ u.step \in {"block", "confirming"} /\ u.members = tx[n].members
      /\ u.role = tx[n].role /\ u.rejecting = tx[n].rejecting /\ u.res = tx[n].res
  BY <1>3, <1>4 DEF TxRecords, NodeSteps
<1>6. \/ Refuse(n, m)
      \/ \E await \in {{"final", "hash", "ttlAnswer"}, {"hash"}, {"hash", "ttlAnswer"}} :
            NodeDoes(n, {m}, [u EXCEPT !.await = await], {})
      \/ Confirm(n, {m}, u, {})
  BY <1>1 DEF u
<1>7. \A x \in {} : x.kind # "final"
  OBVIOUS
<1>8. CASE Confirm(n, {m}, u, {})
  BY <1>5, <1>7, <1>8, ConfirmFinal
<1>9. ASSUME NEW await \in {{"final", "hash", "ttlAnswer"}, {"hash"}, {"hash", "ttlAnswer"}},
             NodeDoes(n, {m}, [u EXCEPT !.await = await], {})
      PROVE  FinalInv' /\ AllKept
  <2> DEFINE v == [u EXCEPT !.await = await]
  <2>1. /\ v.members = u.members /\ v.role = u.role /\ v.rejecting = u.rejecting /\ v.res = u.res
        /\ v.step = u.step /\ v.await = await
    BY <1>5 DEF TxRecords
  <2>2. await \cap {"extend", "answer", "pathAmount"} = {}
    BY AskingAwaits
  <2> HIDE DEF v
  <2>3. NodeDoes(n, {m}, v, {})
    BY <1>9 DEF v
  <2>4. QED BY <1>5, <1>7, <2>1, <2>2, <2>3, SameStep
<1>10. QED BY <1>6, <1>8, <1>9, RefuseFinal

LEMMA ReceiveKeysFinal ==
    ASSUME FinalInv, TypeInv', NEW n \in Nodes, ReceiveKeys(n)
    PROVE  FinalInv' /\ AllKept
<1> DEFINE res == IF tx[n].rejecting THEN <<>> ELSE tx[n].res
           t == [tx[n] EXCEPT !.step = "voting", !.await = {},
                              !.res = IF tx[n].rejecting THEN <<>> ELSE @]
<1>1. PICK m : NodeDoes(n, {m}, t, {})
  BY DEF ReceiveKeys
<1>2. tx[n] \in TxRecords
  BY Heard DEF FinalInv
<1>3. /\ t.members = tx[n].members /\ t.role = tx[n].role /\ t.rejecting = tx[n].rejecting
      /\ t.res = res /\ t.step = "voting" /\ t.await = {}
  BY <1>2 DEF TxRecords
<1> HIDE DEF t
<1>4. \A x \in {} : x.kind # "final"
  OBVIOUS
<1>5. res = tx[n].res \/ (tx[n].rejecting /\ res = <<>>)
  OBVIOUS
<1> HIDE DEF res
<1>6. QED BY <1>1, <1>3, <1>4, <1>5, SameStep

LEMMA NodesFinal ==
    ASSUME TimelyRequests, FinalInv, TypeInv', NEW n \in Nodes,
           LearnBlockNumber(n) \/ NodeReceives(n) \/ NodeTimeout(n) \/ NodeRefuses(n)
    PROVE  FinalInv' /\ AllKept
BY RequestFinal, ExtendFinal, AnswerFinal, FinalPathFinal, TTLAnswerFinal, ReceiveFinalFinal,
   ReceiveHashFinal, ReceiveKeysFinal, TimerFiresFinal, BlockNumberWrongFinal, LearnBlockNumberFinal
DEF NodeReceives, NodeTimeout, NodeRefuses

\* The coordinator sends the final configuration once, and never goes back before that.
LEMMA CoordinatorFinal ==
    ASSUME FinalInv, TypeInv', NEW taken, NEW c, NEW sent, CoordinatorDoes(taken, c, sent),
           Late(co) => Late(c),
           \/ \A m \in sent : m.kind # "final"
           \/ /\ ~Late(co) /\ Late(c)
              /\ \A m \in sent : m.to \in Nodes
              /\ \A m, o \in sent : m.to = o.to => m = o
    PROVE  FinalInv' /\ AllKept
<1>1. co' = c /\ msgs' = (msgs \ taken) \cup sent /\ tx' = tx
  BY DEF CoordinatorDoes
<1>2. \A n \in Nodes : HeldOK(n, tx'[n]) /\ (tx'[n].members # {} => Late(co'))
  BY <1>1 DEF FinalInv
<1>3. AllKept
  BY <1>1 DEF AllKept, Kept
<1>4. CASE \A m \in sent : m.kind # "final"
  <2>1. Mail("final")' \subseteq Mail("final")
    BY <1>1, <1>4 DEF Mail
  <2>2. \A m \in Mail("final")' : Late(co') /\ m.to \in Nodes /\ tx'[m.to].members = {}
    BY <1>1, <2>1 DEF FinalInv
  <2>3. \A m, o \in Mail("final")' : m.to = o.to => m = o
    BY <2>1 DEF FinalInv
  <2>4. QED BY <1>2, <1>3, <2>2, <2>3 DEF FinalInv
<1>5. CASE /\ ~Late(co) /\ Late(c)
           /\ \A m \in sent : m.to \in Nodes
           /\ \A m, o \in sent : m.to = o.to => m = o
  <2>1. Mail("final")' \subseteq sent
    BY <1>1, <1>5 DEF FinalInv, Mail
  <2>2. \A n \in Nodes : tx[n].members = {}
    BY <1>5 DEF FinalInv
  <2>3. \A m \in Mail("final")' : Late(co') /\ m.to \in Nodes /\ tx'[m.to].members = {}
    BY <1>1, <1>5, <2>1, <2>2
  <2>4. \A m, o \in Mail("final")' : m.to = o.to => m = o
    BY <1>5, <2>1
  <2>5. QED BY <1>2, <1>3, <2>3, <2>4 DEF FinalInv
<1>6. QED BY <1>4, <1>5
\* What the coordinator says otherwise.
NoFinal(sent) == \A m \in sent : m.kind # "final"

LEMMA NoFinals ==
    /\ NoFinal({}) /\ \A k : NoFinal(DropMessages(k))
    /\ \A S, b : NoFinal({TTLAnswer(n, b) : n \in S})
    /\ \A n, b : NoFinal({TTLAnswer(n, b)})
    /\ \A S, T : NoFinal(S) /\ NoFinal(T) => NoFinal(S \cup T)
    /\ \A a, b, c, d, e : NoFinal({Request(a, b, c, d, e)}) /\ NoFinal({Extend(a, b, c, d, e)})
    /\ \A S, f, a, b : NoFinal({FinalPath(f[i], a, b) : i \in S})
BY DEF NoFinal, DropMessages, TTLAnswer, FinalPath, Request, Extend

\* The final configuration is not out, and this step does not send it.
EarlyStep == ~Late(co) /\ \E taken, c, sent : CoordinatorDoes(taken, c, sent) /\ NoFinal(sent)

LEMMA EarlyStepFinal ==
    ASSUME FinalInv, TypeInv', EarlyStep
    PROVE  FinalInv' /\ AllKept
BY CoordinatorFinal DEF EarlyStep, NoFinal

LEMMA RejectSays ==
    ASSUME NEW taken, Reject(taken)
    PROVE  \E sent : CoordinatorDoes(taken, Ended(co), sent) /\ NoFinal(sent)
<1> DEFINE sent == {TTLAnswer(n, FALSE) : n \in co.members}
<1>1. NoFinal(sent)
  BY DEF NoFinal, TTLAnswer
<1>2. CoordinatorDoes(taken, Ended(co), sent)
  BY DEF Reject
<1> HIDE DEF sent
<1>3. QED BY <1>1, <1>2

LEMMA PathFinishedSays ==
    ASSUME NEW c, NEW taken, NEW sent, NoFinal(sent), PathFinished(c, taken, sent)
    PROVE  \E d : CoordinatorDoes(taken, d, sent)
BY DEF PathFinished

LEMMA EarlySteps ==
    /\ Start => EarlyStep
    /\ ReceiverAnswers => EarlyStep
    /\ ReceiverSilent => EarlyStep
    /\ ReserveOwn => EarlyStep
    /\ CannotReserveOwn => EarlyStep
    /\ RebuildPaths => EarlyStep
    /\ NoMorePaths => EarlyStep
    /\ NeighbourSilent => EarlyStep
    /\ NeighbourAnswers => EarlyStep
    /\ RemoteSilent => EarlyStep
    /\ DirectSilent => EarlyStep
    /\ DirectAnswers => EarlyStep
<1>1. Start => EarlyStep
  BY DEF Start, EarlyStep, Late, NoFinal
<1>2. ReceiverAnswers => EarlyStep
  BY NoFinals, Zenon DEF ReceiverAnswers, EarlyStep, Late
<1>3. ReceiverSilent => EarlyStep
  BY NoFinals DEF ReceiverSilent, EarlyStep, Late
<1>4. ReserveOwn => EarlyStep
  BY NoFinals DEF ReserveOwn, EarlyStep, Late
<1>5. CannotReserveOwn => EarlyStep
  BY NoFinals DEF CannotReserveOwn, EarlyStep, Late
<1>6. RebuildPaths => EarlyStep
  BY NoFinals DEF RebuildPaths, EarlyStep, Late
<1>7. NoMorePaths => EarlyStep
  BY RejectSays DEF NoMorePaths, EarlyStep, Late
<1>8. NeighbourSilent => EarlyStep
  BY NoFinals DEF NeighbourSilent, EarlyStep, Late
<1>9. NeighbourAnswers => EarlyStep
  <2> SUFFICES ASSUME NeighbourAnswers PROVE EarlyStep
    OBVIOUS
  <2>1. ~Late(co)
    BY DEF NeighbourAnswers, Late
  <2>2. PICK m : \/ CoordinatorDoes({m}, co, {}) \/ Reject({m})
                 \/ CoordinatorDoes({m}, Switched([Dropped(co) EXCEPT !.news = TRUE]), {})
                 \/ \E c : CoordinatorDoes({m}, c,
                       {Extend(Route[1], Current, m.amount, NodeAt(Route, 2),
                               co.final[NodeAt(Route, 2)])})
    BY Zenon DEF NeighbourAnswers
  <2>3. \E c, sent : CoordinatorDoes({m}, c, sent) /\ NoFinal(sent)
    BY <2>2, NoFinals, RejectSays
  <2>4. QED BY <2>1, <2>3 DEF EarlyStep
<1>10. RemoteSilent => EarlyStep
  BY NoFinals DEF RemoteSilent, EarlyStep, Late
<1>11. DirectSilent => EarlyStep
  BY NoFinals, RejectSays DEF DirectSilent, EarlyStep, Late
<1>12. DirectAnswers => EarlyStep
  BY NoFinals, RejectSays, PathFinishedSays DEF DirectAnswers, EarlyStep, Late
<1>13. QED BY <1>1, <1>2, <1>3, <1>4, <1>5, <1>6, <1>7, <1>8, <1>9, <1>10, <1>11, <1>12

LEMMA RemoteAnswersEarly == RemoteAnswers => EarlyStep
<1> SUFFICES ASSUME RemoteAnswers PROVE EarlyStep
  OBVIOUS
<1>1. ~Late(co)
  BY DEF RemoteAnswers, Late
<1> DEFINE says(m) == \E c, sent : CoordinatorDoes({m}, c, sent) /\ NoFinal(sent)
<1>2. PICK m : \/ CoordinatorDoes({m}, co, {}) \/ Reject({m}) \/ NextInaccessible(m)
               \/ NodeExtended(m)
               \/ \E c : CoordinatorDoes({m}, c, DropMessages(co.pos - 1) \cup {TTLAnswer(Receiver, TRUE)})
  BY Zenon DEF RemoteAnswers
<1>3. ASSUME NextInaccessible(m) PROVE says(m)
  <2> DEFINE drops == DropMessages(co.pos - 1)
             all == {TTLAnswer(n, FALSE) : n \in co.members}
             one == {TTLAnswer(Receiver, TRUE)}
  <2>1. NoFinal(all)
    BY DEF NoFinal, TTLAnswer
  <2>2. NoFinal(drops \cup all) /\ NoFinal(drops \cup one)
    <3> HIDE DEF all
    <3>1. NoFinal(drops) /\ NoFinal(one)
      BY NoFinals
    <3>2. QED BY <2>1, <3>1 DEF NoFinal
  <2>3. \E c : CoordinatorDoes({m}, c, drops \cup all) \/ CoordinatorDoes({m}, c, drops \cup one)
    BY Zenon, <1>3 DEF NextInaccessible
  <2> HIDE DEF drops, all, one
  <2>4. QED BY <2>2, <2>3
<1>4. ASSUME NodeExtended(m) PROVE says(m)
  <2> DEFINE sent == {FinalPath(Route[i], Current, m.amount) : i \in 1..Len(Route)}
             next == NodeAt(Route, co.pos + 2)
             e == {Extend(Route[co.pos + 1], Current, m.amount, next, co.final[next])}
  <2>1. NoFinal(sent) /\ NoFinal(e)
    BY DEF NoFinal, FinalPath, Extend
  <2>2. \E c : PathFinished(c, {m}, sent) \/ CoordinatorDoes({m}, c, e)
    BY Zenon, <1>4 DEF NodeExtended
  <2> HIDE DEF sent, e
  <2>3. QED BY <2>1, <2>2, PathFinishedSays
<1>5. ASSUME NEW c, CoordinatorDoes({m}, c, DropMessages(co.pos - 1) \cup {TTLAnswer(Receiver, TRUE)})
      PROVE  says(m)
  <2> DEFINE sent == DropMessages(co.pos - 1) \cup {TTLAnswer(Receiver, TRUE)}
  <2>1. NoFinal(sent)
    BY DEF NoFinal, DropMessages, FinalPath, TTLAnswer
  <2> HIDE DEF sent
  <2>2. CoordinatorDoes({m}, c, sent)
    BY <1>5 DEF sent
  <2>3. QED BY <2>1, <2>2
<1>6. says(m)
  BY <1>2, <1>3, <1>4, <1>5, NoFinals, RejectSays
<1>7. QED BY <1>1, <1>6 DEF EarlyStep

LEMMA SendFinalConfigurationFinal ==
    ASSUME FinalInv, TypeInv', SendFinalConfiguration
    PROVE  FinalInv' /\ AllKept
<1> DEFINE d == [co EXCEPT !.stage = "confirming"]
           final(n) == [kind |-> "final", to |-> n, list |-> co.final[n], members |-> co.members,
                        receipt |-> ToNode(co, n)]
           sent == {final(n) : n \in co.members}
<1>1. ~Late(co) /\ (Reject({}) \/ CoordinatorDoes({}, d, sent))
  BY Zenon DEF SendFinalConfiguration, Late
<1>2. CASE Reject({})
  BY <1>1, <1>2, RejectSays, EarlyStepFinal DEF EarlyStep
<1>3. CASE CoordinatorDoes({}, d, sent)
  <2>1. co \in Coordinations
    BY DEF FinalInv, TypeInv, CoordinationOK
  <2>2. Late(d) /\ co.members \subseteq Nodes
    BY <2>1 DEF Coordinations, Late
  <2>3. /\ \A m \in sent : m.to \in Nodes
        /\ \A m, o \in sent : m.to = o.to => m = o
    BY <2>2
  <2> HIDE DEF d, sent
  <2>4. QED BY <1>1, <1>3, <2>2, <2>3, CoordinatorFinal
<1>4. QED BY <1>1, <1>2, <1>3

LEMMA ConfirmationsFinal ==
    ASSUME FinalInv, TypeInv', NoBlockNumber \/ NotAllConfirm \/ NodeConfirms \/ AnswerTTL
    PROVE  FinalInv' /\ AllKept
<1>1. co \in Coordinations
  BY DEF FinalInv, TypeInv, CoordinationOK
<1>2. Late(Ended(co)) /\ Late([co EXCEPT !.stage = "ended"])
  BY <1>1 DEF Late, Ended, Coordinations
<1> DEFINE keys == {[kind |-> "keys", to |-> n] : n \in co.members}
           more(m) == co.confirmed \cup {m.from}
           answer(m) == {TTLAnswer(m.from, m.from \in co.members)}
<1>3. NoFinal({}) /\ NoFinal(keys) /\ \A m : NoFinal(answer(m))
  BY DEF NoFinal, TTLAnswer
<1>4. ASSUME NEW m
      PROVE  /\ Late([co EXCEPT !.confirmed = more(m), !.stage = "voting"])
             /\ Late(co) => Late([co EXCEPT !.confirmed = more(m)])
  BY <1>1 DEF Late, Coordinations
<1>5. \/ CoordinatorDoes({}, [co EXCEPT !.stage = "ended"], {})
      \/ \E taken : Reject(taken)
      \/ \E m : \/ CoordinatorDoes({m}, co, {})
                \/ CoordinatorDoes({m}, [co EXCEPT !.confirmed = more(m)], {})
                \/ CoordinatorDoes({m}, [co EXCEPT !.confirmed = more(m), !.stage = "voting"], keys)
                \/ CoordinatorDoes({m}, co, answer(m))
  BY Zenon DEF NoBlockNumber, NotAllConfirm, NodeConfirms, AnswerTTL
<1> HIDE DEF keys, more, answer
<1>6. \E taken, c, sent : CoordinatorDoes(taken, c, sent) /\ NoFinal(sent) /\ (Late(co) => Late(c))
  BY <1>2, <1>3, <1>4, <1>5, RejectSays
<1>7. QED BY <1>6, CoordinatorFinal DEF NoFinal

LEMMA NextFinal ==
    ASSUME TimelyRequests, FinalInv, [Next]_vars
    PROVE  FinalInv' /\ AllKept
<1>1. TypeInv'
  BY NextTypeInv DEF FinalInv
<1>2. CASE UNCHANGED vars
  <2>1. co' = co /\ tx' = tx /\ msgs' = msgs
    BY <1>2 DEF vars
  <2>2. Mail("final")' = Mail("final")
    BY <2>1 DEF Mail
  <2>3. QED BY <1>1, <2>1, <2>2 DEF FinalInv, AllKept, Kept
<1>3. CASE CoordinatorSteps \/ CoordinatorReceives \/ CoordinatorMishap
  BY <1>1, <1>3, EarlySteps, EarlyStepFinal, RemoteAnswersEarly, SendFinalConfigurationFinal,
     ConfirmationsFinal
  DEF CoordinatorSteps, CoordinatorReceives, CoordinatorMishap
<1>4. CASE ReceiveInit \/ RefuseInit
  BY <1>1, <1>4, InitMessageFinal
<1>5. ASSUME NEW n \in Nodes, LearnBlockNumber(n) \/ NodeReceives(n) \/ NodeTimeout(n) \/ NodeRefuses(n)
      PROVE  FinalInv' /\ AllKept
  BY <1>1, <1>5, NodesFinal
<1>6. QED BY <1>2, <1>3, <1>4, <1>5 DEF Next

LEMMA InitFinalInv == Init => FinalInv
BY InitTypeInv DEF Init, FinalInv, HeldOK, Mail, Idle

\* What a node holds when it has the final amounts stays, unless it is the receiver
\* and means to reject: it then drops everything and goes on to the vote.
OnlyRejectionDrops == [][AllKept]_vars

\* No late, repeated or lost message of any path moves a final reservation.
THEOREM FinalReservationsDropped ==
    ASSUME TimelyRequests
    PROVE  Spec => OnlyRejectionDrops
<1>1. Init => FinalInv
  BY InitFinalInv
<1>2. FinalInv /\ [Next]_vars => FinalInv' /\ [AllKept]_vars
  BY NextFinal
<1>3. QED BY <1>1, <1>2, PTL DEF Spec, OnlyRejectionDrops

\* As long as the receiver has no reason to reject, nothing is dropped.
THEOREM FinalReservationsAlwaysStay ==
    ASSUME TimelyRequests
    PROVE  Spec /\ [](~tx[Receiver].rejecting) => FinalReservationsStay
<1>1. Init => FinalInv
  BY InitFinalInv
<1>2. FinalInv /\ [Next]_vars => FinalInv'
  BY NextFinal
<1>3. FinalInv /\ [Next]_vars /\ ~tx[Receiver].rejecting
      => [\A n \in Nodes :
            tx[n].members # {} /\ tx'[n].members # {} => tx'[n].res = tx[n].res]_vars
  BY NextFinal DEF AllKept, Kept
<1>4. QED BY <1>1, <1>2, <1>3, PTL DEF Spec, FinalReservationsStay

=============================================================================
