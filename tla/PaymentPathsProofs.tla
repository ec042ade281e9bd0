------------------------- MODULE PaymentPathsProofs -------------------------
(***************************************************************************)
(* The paths a node holds in PaymentReservation are kept apart: it has each *)
(* path at most once in each direction.  Holds until paths are found anew,  *)
(* and also after that if the coordinator's requests to pass a path on come *)
(* in time; otherwise the ID of a path that failed may be that of another.  *)
(*                                                                          *)
(* A node's list has paths that are fixed, with their final amounts, and    *)
(* after them what is open, one entry in each direction (ApartInv).  It     *)
(* stays so unless a node passes on a path that is fixed (TakesOpen).       *)
(***************************************************************************)
EXTENDS PaymentReservationProofs

-----------------------------------------------------------------------------
(* Lists: where what is picked or replaced comes from *)

\* What is picked keeps its order: its position k is position h[k] of the list.
Follows(h, part, list, S, n) ==
    /\ h \in [1..Len(part) -> 1..n]
    /\ \A k \in 1..Len(part) : h[k] \in S /\ part[k] = list[h[k]]
    /\ \A j, k \in 1..Len(part) : j < k => h[j] < h[k]

LEMMA PickedFollows ==
    ASSUME NEW list, Len(list) \in Nat, NEW S
    PROVE  /\ Picked(list, S) \in Seq({list[i] : i \in 1..Len(list)})
           /\ \E h : Follows(h, Picked(list, S), list, S, Len(list))
<1>1. PICK p : /\ Picked(list, S) = p[Len(list)] /\ p[0] = <<>>
               /\ \A n \in 1..Len(list) :
                     p[n] = IF n \in S THEN Append(p[n - 1], list[n]) ELSE p[n - 1]
  BY PickedRecursion
<1> DEFINE len == Len(list)
           X == {list[i] : i \in 1..Len(list)}
           Good(n) == p[n] \in Seq(X) /\ \E h : Follows(h, p[n], list, S, n)
           T == {n \in 0..len : Good(n)}
<1>2. len \in Nat /\ \A i \in 1..len : list[i] \in X
  OBVIOUS
<1> HIDE DEF len, X
<1>3. 0 \in T
  <2>1. p[0] \in Seq(X) /\ Len(p[0]) = 0
    BY <1>1
  <2>2. Follows([i \in 1..0 |-> 1], p[0], list, S, 0)
    BY <2>1 DEF Follows
  <2>3. QED BY <1>2, <2>1, <2>2
<1>4. ASSUME NEW n \in 1..len, n - 1 \in T PROVE n \in T
  <2>1. p[n - 1] \in Seq(X) /\ \E h : Follows(h, p[n - 1], list, S, n - 1)
    BY <1>4
  <2>2. PICK h : Follows(h, p[n - 1], list, S, n - 1)
    BY <2>1
  <2>3. p[n] = IF n \in S THEN Append(p[n - 1], list[n]) ELSE p[n - 1]
    BY <1>1 DEF len
  <2>4. n \in 0..len /\ n \in Nat /\ n - 1 \in Nat /\ list[n] \in X
    BY <1>2
  <2>5. CASE n \notin S
    <3>1. p[n] = p[n - 1]
      BY <2>3, <2>5
    <3>2. Follows(h, p[n], list, S, n)
      BY <2>2, <2>4, <3>1 DEF Follows
    <3>3. QED BY <2>1, <2>4, <3>1, <3>2
  <2>6. CASE n \in S
    <3> DEFINE q == p[n - 1]
               l == Len(q)
               g == [i \in 1..(l + 1) |-> IF i = l + 1 THEN n ELSE h[i]]
    <3>1. q \in Seq(X) /\ l \in Nat /\ p[n] = Append(q, list[n])
      BY <2>1, <2>3, <2>6
    <3>2. /\ p[n] \in Seq(X) /\ Len(p[n]) = l + 1 /\ p[n][l + 1] = list[n]
          /\ \A i \in 1..l : p[n][i] = q[i]
      BY <2>4, <3>1
    <3>3. /\ h \in [1..l -> 1..(n - 1)]
          /\ \A k \in 1..l : h[k] \in S /\ q[k] = list[h[k]]
          /\ \A j, k \in 1..l : j < k => h[j] < h[k]
      BY <2>2 DEF Follows
    <3> HIDE DEF q, l
    <3>4. g \in [1..(l + 1) -> 1..n]
      BY <2>4, <3>1, <3>3
    <3>5. \A k \in 1..(l + 1) : g[k] \in S /\ p[n][k] = list[g[k]]
      BY <2>6, <3>1, <3>2, <3>3
    <3>6. ASSUME NEW j \in 1..(l + 1), NEW k \in 1..(l + 1), j < k PROVE g[j] < g[k]
      <4>1. j \in 1..l /\ g[j] = h[j] /\ h[j] \in 1..(n - 1)
        BY <3>1, <3>3, <3>6
      <4>2. CASE k = l + 1
        BY <2>4, <3>1, <4>1, <4>2
      <4>3. CASE k # l + 1
        BY <3>1, <3>3, <3>6, <4>1, <4>3
      <4>4. QED BY <4>2, <4>3
    <3> HIDE DEF g
    <3>7. Follows(g, p[n], list, S, n)
      BY <3>2, <3>4, <3>5, <3>6 DEF Follows
    <3>8. QED BY <2>4, <3>2, <3>7
  <2>7. QED BY <2>5, <2>6
<1>5. T = 0..len
  <2>1. T \in SUBSET (0..len)
    OBVIOUS
  <2> HIDE DEF T
  <2>2. QED BY <1>2, <1>3, <1>4, <2>1, UpToN
<1>6. len \in T
  BY <1>2, <1>5
<1>7. Good(len)
  BY <1>6
<1>8. QED BY <1>1, <1>7 DEF len, X

\* Replaced keeps what is not changed first, in its order; what is changed comes after.
Arises(h, kept, all, res, Changed, new) ==
    /\ kept \in 0..Len(all) /\ h \in [1..Len(all) -> 1..Len(res)]
    /\ \A k \in 1..kept : h[k] \notin Changed /\ all[k] = res[h[k]]
    /\ \A k \in (kept + 1)..Len(all) : h[k] \in Changed /\ all[k] = new[h[k]]
    /\ \A j, k \in 1..Len(all) : h[j] = h[k] => j = k
    /\ \A j, k \in 1..kept : j < k => h[j] < h[k]

LEMMA ReplacedArises ==
    ASSUME NEW res, NEW Changed, NEW new, Len(res) \in Nat, Len(new) = Len(res)
    PROVE  /\ Len(Replaced(res, Changed, new)) \in Nat
           /\ \E h, kept : Arises(h, kept, Replaced(res, Changed, new), res, Changed, new)
<1> DEFINE n == Len(res)
           a == Picked(res, (1..Len(res)) \ Changed)
           b == Picked(new, Changed)
           X == {res[i] : i \in 1..Len(res)}
           Y == {new[i] : i \in 1..Len(new)}
<1>1. a \in Seq(X) /\ \E f : Follows(f, a, res, (1..Len(res)) \ Changed, Len(res))
  BY PickedFollows
<1>2. b \in Seq(Y) /\ \E g : Follows(g, b, new, Changed, Len(new))
  BY PickedFollows
<1>3. PICK f : Follows(f, a, res, (1..Len(res)) \ Changed, Len(res))
  BY <1>1
<1>4. PICK g : Follows(g, b, new, Changed, Len(new))
  BY <1>2
<1>5. Replaced(res, Changed, new) = a \o b
  BY DEF Replaced
<1> DEFINE l == Len(a)
           m == Len(b)
           all == a \o b
           h == [k \in 1..(l + m) |-> IF k <= l THEN f[k] ELSE g[k - l]]
<1>6. /\ l \in Nat /\ f \in [1..l -> 1..n]
      /\ \A k \in 1..l : f[k] \notin Changed /\ a[k] = res[f[k]]
      /\ \A j, k \in 1..l : j < k => f[j] < f[k]
  <2>1. l \in Nat
    BY <1>1
  <2> HIDE DEF a, X
  <2>2. QED BY <1>3, <2>1 DEF Follows
<1>7. /\ m \in Nat /\ g \in [1..m -> 1..n]
      /\ \A k \in 1..m : g[k] \in Changed /\ b[k] = new[g[k]]
      /\ \A j, k \in 1..m : j < k => g[j] < g[k]
  BY <1>2, <1>4 DEF Follows
<1>8. /\ Len(all) = l + m /\ \A k \in 1..l : all[k] = a[k]
      /\ \A k \in (l + 1)..(l + m) : all[k] = b[k - l]
  <2>1. a \in Seq(X \cup Y) /\ b \in Seq(X \cup Y)
    BY <1>1, <1>2
  <2> HIDE DEF a, b, X, Y
  <2>2. QED BY <2>1
<1> HIDE DEF a, b, l, m, all, n
<1>9. \A k \in 1..m : k + l \in (l + 1)..(l + m)
  BY <1>6, <1>7
<1>10. h \in [1..(l + m) -> 1..n]
  BY <1>6, <1>7
<1>11. \A k \in 1..l : h[k] = f[k]
  BY <1>6, <1>7
<1>12. \A k \in (l + 1)..(l + m) : h[k] = g[k - l] /\ k - l \in 1..m
  BY <1>6, <1>7
<1> HIDE DEF h
<1>13. \A k \in 1..l : h[k] \notin Changed /\ all[k] = res[h[k]]
  BY <1>6, <1>8, <1>11
<1>14. ASSUME NEW k \in (l + 1)..(l + m) PROVE h[k] \in Changed /\ all[k] = new[h[k]]
  <2>1. h[k] = g[k - l] /\ k - l \in 1..m
    BY <1>12
  <2>2. g[k - l] \in Changed /\ b[k - l] = new[g[k - l]]
    BY <1>7, <2>1
  <2>3. all[k] = b[k - l]
    BY <1>8
  <2>4. QED BY <2>1, <2>2, <2>3
<1>15. ASSUME NEW j \in 1..(l + m), NEW k \in 1..(l + m), j < k PROVE h[j] # h[k]
  <2>1. CASE k \in 1..l
    <3>1. j \in 1..l
      BY <1>6, <1>15, <2>1
    <3>2. f[j] < f[k] /\ f[j] \in Nat /\ f[k] \in Nat
      BY <1>6, <1>15, <2>1, <3>1
    <3>3. QED BY <1>11, <2>1, <3>1, <3>2
  <2>2. CASE j \in 1..l /\ k \in (l + 1)..(l + m)
    BY <1>13, <1>14, <2>2
  <2>3. CASE j \in (l + 1)..(l + m) /\ k \in (l + 1)..(l + m)
    <3>1. j - l \in 1..m /\ k - l \in 1..m /\ j - l < k - l
      BY <1>6, <1>7, <1>15, <2>3
    <3>2. g[j - l] < g[k - l] /\ g[j - l] \in Nat /\ g[k - l] \in Nat
      BY <1>7, <3>1
    <3>3. QED BY <1>12, <2>3, <3>2
  <2>4. QED BY <1>6, <1>7, <1>15, <2>1, <2>2, <2>3
<1>16. \A j, k \in 1..(l + m) : h[j] = h[k] => j = k
  BY <1>6, <1>7, <1>15
<1>17. \A j, k \in 1..l : j < k => h[j] < h[k]
  BY <1>6, <1>11
<1>18. l \in 0..(l + m) /\ l + m \in Nat
  BY <1>6, <1>7
<1>19. Arises(h, l, all, res, Changed, new)
  BY <1>8, <1>10, <1>13, <1>14, <1>16, <1>17, <1>18 DEF Arises, n
<1>20. QED BY <1>5, <1>8, <1>18, <1>19 DEF all

-----------------------------------------------------------------------------
(* Lists: the paths that are fixed, and those still open *)

\* Each path once in each direction.
Apart(res) ==
    \A i, j \in 1..Len(res) : res[i].path = res[j].path /\ res[i].dir = res[j].dir => i = j

\* Of the paths in Q, which are open, there is one entry in each direction at the end of
\* the list; all the others are held with their final amount.
Ordered(res, F, Q) ==
    /\ \A i \in 1..Len(res) : res[i].path \notin Q => PathAmount(res[i].path, res[i].amount) \in F
    /\ \A i, j \in 1..Len(res) : i < j /\ res[i].path \in Q => res[j].path \in Q
    /\ \A i, j \in 1..Len(res) :
          res[i].path \in Q /\ res[j].path \in Q /\ res[i].dir = res[j].dir => i = j
    /\ Apart(res)

LEMMA NothingOrdered == \A F, Q : Ordered(<<>>, F, Q)
BY DEF Ordered, Apart

LEMMA MoreFixed ==
    ASSUME NEW res, NEW F, NEW G, F \subseteq G, NEW Q, Ordered(res, F, Q)
    PROVE  Ordered(res, G, Q)
BY DEF Ordered

LEMMA PickedOrdered ==
    ASSUME NEW res, Len(res) \in Nat, NEW S, NEW F, NEW Q, Ordered(res, F, Q)
    PROVE  Ordered(Picked(res, S), F, Q)
<1> DEFINE part == Picked(res, S)
           n == Len(part)
<1>1. part \in Seq({res[i] : i \in 1..Len(res)})
  BY PickedFollows
<1>2. n \in Nat
  BY <1>1
<1>3. PICK h : Follows(h, part, res, S, Len(res))
  BY PickedFollows
<1> HIDE DEF part
<1>4. /\ h \in [1..n -> 1..Len(res)]
      /\ \A k \in 1..n : part[k] = res[h[k]]
      /\ \A j, k \in 1..n : j < k => h[j] < h[k]
  BY <1>3 DEF Follows
<1> HIDE DEF n
<1>5. \A j, k \in 1..n : h[j] = h[k] => j = k
  <2>1. ASSUME NEW j \in 1..n, NEW k \in 1..n, j < k PROVE h[j] # h[k]
    <3>1. h[j] < h[k] /\ h[j] \in Nat /\ h[k] \in Nat
      BY <1>4, <2>1
    <3>2. QED BY <3>1
  <2>2. QED BY <1>2, <2>1
<1>6. \A i \in 1..n : part[i].path \notin Q => PathAmount(part[i].path, part[i].amount) \in F
  BY <1>4 DEF Ordered
<1>7. \A i, j \in 1..n : i < j /\ part[i].path \in Q => part[j].path \in Q
  BY <1>4 DEF Ordered
<1>8. \A i, j \in 1..n :
         part[i].path \in Q /\ part[j].path \in Q /\ part[i].dir = part[j].dir => i = j
  BY <1>4, <1>5 DEF Ordered
<1>9. \A i, j \in 1..n : part[i].path = part[j].path /\ part[i].dir = part[j].dir => i = j
  BY <1>4, <1>5 DEF Ordered, Apart
<1>10. QED BY <1>6, <1>7, <1>8, <1>9 DEF Ordered, Apart, n, part

\* Only entries of open paths change, and stay with open paths.
LEMMA ReplacedOrdered ==
    ASSUME NEW res, Len(res) \in Nat, NEW Changed, NEW new, Len(new) = Len(res),
           NEW F, NEW Q, Ordered(res, F, Q),
           \A i \in 1..Len(res) : i \in Changed =>
              res[i].path \in Q /\ new[i].path \in Q /\ new[i].dir = res[i].dir
    PROVE  Ordered(Replaced(res, Changed, new), F, Q)
<1> DEFINE all == Replaced(res, Changed, new)
           n == Len(all)
<1>1. n \in Nat
  BY ReplacedArises
<1>2. PICK h, kept : Arises(h, kept, all, res, Changed, new)
  BY ReplacedArises
<1> HIDE DEF all
<1>3. /\ kept \in 0..n /\ h \in [1..n -> 1..Len(res)]
      /\ \A k \in 1..kept : h[k] \notin Changed /\ all[k] = res[h[k]]
      /\ \A k \in (kept + 1)..n : h[k] \in Changed /\ all[k] = new[h[k]]
      /\ \A j, k \in 1..n : h[j] = h[k] => j = k
      /\ \A j, k \in 1..kept : j < k => h[j] < h[k]
  BY <1>2 DEF Arises
<1> HIDE DEF n
<1>4. \A k \in 1..n : k \in 1..kept \/ k \in (kept + 1)..n
  BY <1>1, <1>3
<1>5. \A k \in (kept + 1)..n : all[k].path \in Q /\ k \in 1..n
  BY <1>1, <1>3
<1>6. \A k \in 1..n : all[k].dir = res[h[k]].dir /\ (all[k].path \in Q => res[h[k]].path \in Q)
  BY <1>3, <1>4
<1>7. \A k \in 1..n : all[k].path \notin Q => k \in 1..kept
  BY <1>4, <1>5
<1>8. \A i \in 1..n : all[i].path \notin Q => PathAmount(all[i].path, all[i].amount) \in F
  BY <1>3, <1>7 DEF Ordered
<1>9. ASSUME NEW i \in 1..n, NEW j \in 1..n, i < j, all[i].path \in Q, all[j].path \notin Q
      PROVE  FALSE
  <2>1. j \in 1..kept /\ i \in 1..kept
    BY <1>1, <1>3, <1>7, <1>9
  <2>2. h[i] < h[j] /\ res[h[i]].path \in Q /\ res[h[j]].path \notin Q
    BY <1>3, <1>9, <2>1
  <2>3. h[i] \in 1..Len(res) /\ h[j] \in 1..Len(res)
    BY <1>3
  <2>4. QED BY <2>2, <2>3 DEF Ordered
<1>10. \A i, j \in 1..n : all[i].path \in Q /\ all[j].path \in Q /\ all[i].dir = all[j].dir => i = j
  <2>1. SUFFICES ASSUME NEW i \in 1..n, NEW j \in 1..n, all[i].path \in Q, all[j].path \in Q,
                        all[i].dir = all[j].dir
                 PROVE  i = j
    OBVIOUS
  <2>2. res[h[i]].path \in Q /\ res[h[j]].path \in Q /\ res[h[i]].dir = res[h[j]].dir
    BY <1>6, <2>1
  <2>3. h[i] \in 1..Len(res) /\ h[j] \in 1..Len(res)
    BY <1>3
  <2>4. h[i] = h[j]
    BY <2>2, <2>3 DEF Ordered
  <2>5. QED BY <1>3, <2>4
<1>11. \A i, j \in 1..n : all[i].path = all[j].path /\ all[i].dir = all[j].dir => i = j
  <2>1. SUFFICES ASSUME NEW i \in 1..n, NEW j \in 1..n, all[i].path = all[j].path,
                        all[i].dir = all[j].dir
                 PROVE  i = j
    OBVIOUS
  <2>2. CASE all[i].path \in Q
    BY <1>10, <2>1, <2>2
  <2>3. CASE all[i].path \notin Q
    <3>1. i \in 1..kept /\ j \in 1..kept
      BY <1>7, <2>1, <2>3
    <3>2. res[h[i]].path = res[h[j]].path /\ res[h[i]].dir = res[h[j]].dir
      BY <1>3, <2>1, <3>1
    <3>3. h[i] \in 1..Len(res) /\ h[j] \in 1..Len(res)
      BY <1>3
    <3>4. h[i] = h[j]
      BY <3>2, <3>3 DEF Ordered, Apart
    <3>5. QED BY <1>3, <3>4
  <2>4. QED BY <2>2, <2>3
<1>12. QED BY <1>8, <1>9, <1>10, <1>11 DEF Ordered, Apart, n, all

LEMMA WithoutPathOrdered ==
    ASSUME NEW res \in Seq(Reservations), NEW path, NEW F, NEW Q, Ordered(res, F, Q)
    PROVE  Ordered(WithoutPath(res, path), F, Q)
<1>1. Len(res) \in Nat
  OBVIOUS
<1>2. QED BY <1>1, PickedOrdered DEF WithoutPath

\* A path that is shortened is open, or has the amount already: the entry that takes
\* the ID of the one behind it takes that of an open path.
LEMMA ShortenedOrdered ==
    ASSUME NEW res \in Seq(Reservations), NEW path, NEW amount, NEW F, NEW Q, Ordered(res, F, Q),
           path \notin Q => \A i \in 1..Len(res) : res[i].path = path => res[i].amount = amount
    PROVE  Ordered(Shortened(res, path, amount), F, Q)
<1> DEFINE new == [i \in 1..Len(res) |->
                     [res[i] EXCEPT !.amount = amount, !.path = IdAfterErasing(res, i)]]
           C == {i \in 1..Len(res) : res[i].path = path /\ res[i].amount # amount}
<1>1. Len(res) \in Nat /\ \A i \in 1..Len(res) : res[i] \in Reservations
  OBVIOUS
<1>2. ASSUME NEW i \in 1..Len(res), i \in C
      PROVE  res[i].path \in Q /\ IdAfterErasing(res, i) \in Q
  <2> DEFINE after == {j \in (i + 1)..Len(res) : res[j].peer = res[i].peer}
             k == IF after = {} THEN i ELSE Min(after)
  <2>1. res[i].path \in Q
    BY <1>2
  <2>2. after \in SUBSET (1..Len(res)) /\ after \in SUBSET Nat /\ \A j \in after : i < j
    OBVIOUS
  <2> HIDE DEF after
  <2>3. k \in 1..Len(res) /\ (k = i \/ i < k)
    BY <2>2, MinIs
  <2>4. res[k].path \in Q
    BY <2>1, <2>3 DEF Ordered
  <2>5. QED BY <2>1, <2>4 DEF IdAfterErasing, after
<1>3. ASSUME NEW i \in 1..Len(res)
      PROVE  new[i].path = IdAfterErasing(res, i) /\ new[i].dir = res[i].dir
  <2> DEFINE id == IdAfterErasing(res, i)
             e == [res[i] EXCEPT !.amount = amount, !.path = id]
  <2>1. res[i] \in Reservations
    BY <1>1
  <2> HIDE DEF id
  <2>2. e.path = id /\ e.dir = res[i].dir
    BY <2>1 DEF Reservations
  <2>3. new[i] = e
    BY DEF id
  <2> HIDE DEF e, new
  <2>4. QED BY <2>2, <2>3 DEF id
<1>4. Len(new) = Len(res)
  BY <1>1
<1> HIDE DEF new, C
<1>5. Ordered(Replaced(res, C, new), F, Q)
  BY <1>1, <1>2, <1>3, <1>4, ReplacedOrdered
<1>6. QED BY <1>5 DEF Shortened, new, C

LEMMA ListedAmountListed ==
    ASSUME NEW final \in Seq(PathAmounts), NEW path \in ListedPaths(final)
    PROVE  PathAmount(path, ListedAmount(final, path)) \in ToSet(final)
<1> DEFINE at == {i \in 1..Len(final) : final[i].path = path}
           First(i) == final[i].path = path /\ \A j \in 1..(i - 1) : final[j].path # path
           first == CHOOSE i \in 1..Len(final) : First(i)
<1>1. Len(final) \in Nat /\ \A i \in 1..Len(final) : final[i] \in PathAmounts
  OBVIOUS
<1>2. at # {} /\ at \in SUBSET Nat
  BY DEF ListedPaths
<1>3. PICK i \in at : \A j \in at : i <= j
  <2> HIDE DEF at
  <2>1. QED BY <1>2, LeastNat
<1>4. i \in 1..Len(final) /\ final[i].path = path
  BY <1>3
<1>5. ASSUME NEW j \in 1..(i - 1), final[j].path = path PROVE FALSE
  <2>1. j \in at /\ j < i
    BY <1>1, <1>4, <1>5
  <2>2. QED BY <1>3, <1>4, <2>1
<1>6. First(i)
  BY <1>4, <1>5
<1>7. first \in 1..Len(final) /\ First(first)
  BY <1>4, <1>6
<1>8. ListedAmount(final, path) = final[first].amount
  BY DEF ListedAmount
<1> HIDE DEF first
<1>9. final[first] \in PathAmounts /\ final[first].path = path
  BY <1>1, <1>7
<1>10. final[first] = PathAmount(path, ListedAmount(final, path))
  BY <1>8, <1>9 DEF PathAmount, PathAmounts
<1>11. first \in DOMAIN final
  BY <1>7
<1>12. QED BY <1>10, <1>11 DEF ToSet

\* What is held after a final configuration is as it says, and each path is there at
\* most as often as before.
LEMMA UpdatedOrdered ==
    ASSUME NEW res \in Seq(Reservations), NEW final \in Seq(PathAmounts), NEW F,
           ToSet(final) \subseteq F, NEW Q, Ordered(res, F, Q)
    PROVE  /\ Ordered(Updated(res, final), F, {})
           /\ \A i \in 1..Len(Updated(res, final)) : Updated(res, final)[i].path \in ListedPaths(final)
<1> DEFINE X == {r \in Reservations : r.path \in ListedPaths(final)}
           S == {i \in 1..Len(res) : res[i].path \in ListedPaths(final)}
           left == Picked(res, S)
           amount(i) == ListedAmount(final, left[i].path)
           new == [i \in 1..Len(left) |-> [left[i] EXCEPT !.amount = amount(i)]]
           C == {i \in 1..Len(left) : left[i].amount # amount(i)}
           all == Replaced(left, C, new)
           n == Len(all)
<1>1. left \in Seq(X)
  <2>1. Len(res) \in Nat /\ \A i \in 1..Len(res) : i \in S => res[i] \in X
    OBVIOUS
  <2> HIDE DEF S, X
  <2>2. QED BY <2>1, PickedFrom
<1>2. Ordered(left, F, Q)
  <2>1. Len(res) \in Nat
    OBVIOUS
  <2> HIDE DEF S
  <2>2. QED BY <2>1, PickedOrdered
<1>3. Updated(res, final) = all
  BY DEF Updated
<1> HIDE DEF left
<1>4. Len(left) \in Nat /\ \A i \in 1..Len(left) : left[i] \in X
  BY <1>1
<1>5. ASSUME NEW i \in 1..Len(left)
      PROVE  /\ left[i].path \in ListedPaths(final)
             /\ new[i].path = left[i].path /\ new[i].dir = left[i].dir /\ new[i].amount = amount(i)
  <2>1. left[i] \in Reservations /\ left[i].path \in ListedPaths(final)
    BY <1>4
  <2> HIDE DEF amount
  <2>2. new[i] = [left[i] EXCEPT !.amount = amount(i)]
    OBVIOUS
  <2> HIDE DEF new
  <2>3. QED BY <2>1, <2>2 DEF Reservations
<1>6. Len(new) = Len(left)
  BY <1>4
<1> HIDE DEF new
<1>7. n \in Nat /\ \E h, kept : Arises(h, kept, all, left, C, new)
  <2> HIDE DEF C
  <2>1. QED BY <1>4, <1>6, ReplacedArises
<1>8. PICK h, kept : Arises(h, kept, all, left, C, new)
  BY <1>7
<1> HIDE DEF all
<1>9. /\ kept \in 0..n /\ h \in [1..n -> 1..Len(left)]
      /\ \A k \in 1..kept : h[k] \notin C /\ all[k] = left[h[k]]
      /\ \A k \in (kept + 1)..n : h[k] \in C /\ all[k] = new[h[k]]
      /\ \A j, k \in 1..n : h[j] = h[k] => j = k
  BY <1>8 DEF Arises
<1> HIDE DEF n
<1>10. ASSUME NEW k \in 1..n
       PROVE  /\ all[k].path = left[h[k]].path /\ all[k].dir = left[h[k]].dir
              /\ all[k].path \in ListedPaths(final)
              /\ all[k].amount = ListedAmount(final, all[k].path)
  <2>1. h[k] \in 1..Len(left)
    BY <1>9
  <2>2. CASE k \in 1..kept
    <3>1. all[k] = left[h[k]] /\ left[h[k]].amount = amount(h[k])
      BY <1>9, <2>1, <2>2
    <3>2. QED BY <1>5, <2>1, <3>1
  <2>3. CASE k \in (kept + 1)..n
    <3>1. all[k] = new[h[k]]
      BY <1>9, <2>3
    <3>2. QED BY <1>5, <2>1, <3>1
  <2>4. QED BY <1>7, <1>9, <2>2, <2>3
<1>11. \A k \in 1..n : PathAmount(all[k].path, all[k].amount) \in F
  BY <1>10, ListedAmountListed
<1>12. ASSUME NEW i \in 1..n, NEW j \in 1..n, all[i].path = all[j].path, all[i].dir = all[j].dir
       PROVE  i = j
  <2>1. left[h[i]].path = left[h[j]].path /\ left[h[i]].dir = left[h[j]].dir
    BY <1>10, <1>12
  <2>2. h[i] \in 1..Len(left) /\ h[j] \in 1..Len(left)
    BY <1>9
  <2>3. h[i] = h[j]
    BY <1>2, <2>1, <2>2 DEF Ordered, Apart
  <2>4. QED BY <1>9, <2>3
<1>13. Ordered(all, F, {})
  BY <1>11, <1>12 DEF Ordered, Apart, n
<1>14. \A i \in 1..Len(all) : all[i].path \in ListedPaths(final)
  BY <1>10 DEF n
<1>15. QED BY <1>3, <1>13, <1>14

\* The node reserves what comes in on a path that is not fixed.
LEMMA IncomingOrdered ==
    ASSUME NEW res \in Seq(Reservations), NEW F, Ordered(res, F, {}), NEW e, e.dir = "in",
           \A i \in 1..Len(res) : res[i].path # e.path
    PROVE  /\ Ordered(Append(res, e), F, {e.path})
           /\ \A i \in 1..Len(Append(res, e)) :
                 Append(res, e)[i].path \in {e.path} => Append(res, e)[i].dir = "in"
<1> DEFINE l == Len(res)
           all == Append(res, e)
<1>1. /\ l \in Nat /\ Len(all) = l + 1 /\ all[l + 1] = e /\ \A i \in 1..l : all[i] = res[i]
      /\ \A i \in 1..l : all[i].path # e.path
  OBVIOUS
<1>2. /\ \A i \in 1..l : PathAmount(res[i].path, res[i].amount) \in F
      /\ \A i, j \in 1..l : res[i].path = res[j].path /\ res[i].dir = res[j].dir => i = j
  BY DEF Ordered, Apart
<1> HIDE DEF l, all
<1>3. \A i \in 1..(l + 1) : all[i].path \in {e.path} <=> i = l + 1
  BY <1>1
<1>4. /\ \A i \in 1..(l + 1) : all[i].path \notin {e.path} =>
            PathAmount(all[i].path, all[i].amount) \in F
      /\ \A i, j \in 1..(l + 1) : i < j /\ all[i].path \in {e.path} => all[j].path \in {e.path}
      /\ \A i, j \in 1..(l + 1) :
            all[i].path \in {e.path} /\ all[j].path \in {e.path} /\ all[i].dir = all[j].dir => i = j
  BY <1>1, <1>2, <1>3
<1>5. ASSUME NEW i \in 1..(l + 1), NEW j \in 1..(l + 1), all[i].path = all[j].path,
             all[i].dir = all[j].dir
      PROVE  i = j
  <2>1. CASE i \in 1..l /\ j \in 1..l
    BY <1>1, <1>2, <1>5, <2>1
  <2>2. CASE ~(i \in 1..l /\ j \in 1..l)
    BY <1>1, <1>5, <2>2
  <2>3. QED BY <2>1, <2>2
<1>6. QED BY <1>1, <1>3, <1>4, <1>5 DEF Ordered, Apart, l, all

\* The node passes on a path that is not fixed, when all that is open comes in.
LEMMA OutgoingOrdered ==
    ASSUME NEW res \in Seq(Reservations), NEW F, NEW Q, Ordered(res, F, Q),
           \A i \in 1..Len(res) : res[i].path \in Q => res[i].dir = "in",
           NEW e, e.dir = "out", \A f \in F : f.path # e.path
    PROVE  Ordered(Append(res, e), F, Q \cup {e.path})
<1> DEFINE l == Len(res)
           all == Append(res, e)
           P == Q \cup {e.path}
<1>1. /\ l \in Nat /\ Len(all) = l + 1 /\ all[l + 1] = e /\ \A i \in 1..l : all[i] = res[i]
  OBVIOUS
<1>2. /\ \A i \in 1..l : res[i].path \notin Q => PathAmount(res[i].path, res[i].amount) \in F
      /\ \A i, j \in 1..l : i < j /\ res[i].path \in Q => res[j].path \in Q
      /\ \A i, j \in 1..l : res[i].path \in Q /\ res[j].path \in Q /\ res[i].dir = res[j].dir => i = j
      /\ \A i, j \in 1..l : res[i].path = res[j].path /\ res[i].dir = res[j].dir => i = j
      /\ \A i \in 1..l : res[i].path \in Q => res[i].dir = "in"
  BY DEF Ordered, Apart
<1> HIDE DEF l, all, P
<1>3. \A i \in 1..l : res[i].path \in P <=> res[i].path \in Q
  <2>1. ASSUME NEW i \in 1..l, res[i].path = e.path PROVE res[i].path \in Q
    <3>1. PathAmount(res[i].path, res[i].amount).path = e.path
      BY <2>1 DEF PathAmount
    <3>2. QED BY <1>2, <3>1
  <2>2. QED BY <2>1 DEF P
<1>4. \A i \in 1..(l + 1) : i \in 1..l \/ i = l + 1
  BY <1>1
<1>5. \A i \in 1..l : all[i] = res[i] /\ i # l + 1
  BY <1>1
<1>6. e.path \in P
  BY DEF P
<1>7. \A i \in 1..(l + 1) : all[i].path \notin P => PathAmount(all[i].path, all[i].amount) \in F
  BY <1>1, <1>2, <1>3, <1>4, <1>6
<1>8. ASSUME NEW i \in 1..(l + 1), NEW j \in 1..(l + 1), i < j, all[i].path \in P
      PROVE  all[j].path \in P
  <2>1. i \in 1..l
    BY <1>1, <1>8
  <2>2. QED BY <1>1, <1>2, <1>3, <1>4, <1>6, <1>8, <2>1
<1>9. ASSUME NEW i \in 1..(l + 1), NEW j \in 1..(l + 1), all[i].path \in P, all[j].path \in P,
             all[i].dir = all[j].dir
      PROVE  i = j
  <2>1. CASE i \in 1..l /\ j \in 1..l
    BY <1>2, <1>3, <1>5, <1>9, <2>1
  <2>2. CASE i \in 1..l /\ j = l + 1
    BY <1>1, <1>2, <1>3, <1>5, <1>9, <2>2
  <2>3. CASE i = l + 1 /\ j \in 1..l
    BY <1>1, <1>2, <1>3, <1>5, <1>9, <2>3
  <2>4. QED BY <1>4, <2>1, <2>2, <2>3
<1>10. ASSUME NEW i \in 1..(l + 1), NEW j \in 1..(l + 1), all[i].path = all[j].path,
              all[i].dir = all[j].dir
       PROVE  i = j
  <2>1. CASE i \in 1..l /\ j \in 1..l
    BY <1>2, <1>5, <1>10, <2>1
  <2>2. CASE i = l + 1 \/ j = l + 1
    BY <1>1, <1>6, <1>9, <1>10, <2>2
  <2>3. QED BY <1>4, <2>1, <2>2
<1>11. QED BY <1>1, <1>7, <1>8, <1>9, <1>10 DEF Ordered, Apart, P, l, all

-----------------------------------------------------------------------------
(* The invariant *)

\* What the coordinator has fixed: the receiver is on every path.
FixedBy(c) == ToSet(c.final[Receiver])
Fixed == FixedBy(co)
PathsIn(F) == {e.path : e \in F}

\* Before the final configuration.
Early(c) == c.stage \in {"start", "receiver", "choosing", "neighbour", "remote", "direct"}

\* A path is fixed once, and stays with its ID: the paths to come have others.
ListsOK(c) ==
    /\ \A n \in Nodes : ToSet(c.final[n]) \subseteq FixedBy(c)
    /\ \A e, f \in FixedBy(c) : e.path = f.path => e = f
    /\ Early(c) => \A i \in 1..Len(c.queue) : c.queue[i] \notin PathsIn(FixedBy(c))
    /\ c.stage # "ended" => PathsIn(FixedBy(c)) \subseteq DOMAIN c.paths
    /\ c.stage \in {"start", "receiver"} => FixedBy(c) = {}

\* A message lists fixed paths only, and not the one it is about.
MessageFixed(m, F) ==
    /\ m.kind \in {"request", "extend"} =>
          ToSet(m.final) \subseteq F /\ m.path \notin ListedPaths(m.final)
    /\ m.kind = "final" => ToSet(m.list) \subseteq F
    /\ m.kind = "pathAmount" => m.amount = 0 \/ PathAmount(m.path, m.amount) \in F

\* A node holds fixed paths, and then those in Q; it can pass a path on only when it has
\* not passed one on since the last final configuration it was sent.
Shape(t, F, Q) ==
    /\ Ordered(t.res, F, Q)
    /\ "extend" \in t.await => \A i \in 1..Len(t.res) : t.res[i].path \in Q => t.res[i].dir = "in"
    /\ t.step = "next" => t.last \in Q

Shaped(t, F) == \E Q : Shape(t, F, Q)

ApartInv ==
    /\ TypeInv
    /\ ListsOK(co)
    /\ \A m \in msgs : MessageFixed(m, Fixed)
    /\ \A n \in Nodes : Shaped(tx[n], Fixed)

LEMMA ShapedMore ==
    ASSUME NEW t, NEW F, NEW G, F \subseteq G, Shaped(t, F)
    PROVE  Shaped(t, G)
BY MoreFixed DEF Shaped, Shape

LEMMA MessageFixedMore ==
    ASSUME NEW m, NEW F, NEW G, F \subseteq G, MessageFixed(m, F)
    PROVE  MessageFixed(m, G)
BY DEF MessageFixed

LEMMA ApartNode ==
    ASSUME ApartInv, TypeInv', NEW n \in Nodes, NEW taken, NEW t, NEW sent,
           NodeDoes(n, taken, t, sent), Shaped(t, Fixed), \A m \in sent : MessageFixed(m, Fixed)
    PROVE  ApartInv'
<1>1. tx' = [tx EXCEPT ![n] = t] /\ msgs' = (msgs \ taken) \cup sent /\ co' = co
  BY DEF NodeDoes
<1>2. Fixed' = Fixed /\ ListsOK(co')
  BY <1>1 DEF Fixed, ApartInv
<1>3. tx'[n] = t /\ \A x \in Nodes : x # n => tx'[x] = tx[x]
  BY <1>1 DEF ApartInv, TypeInv
<1>4. \A m \in msgs' : MessageFixed(m, Fixed')
  BY <1>1, <1>2 DEF ApartInv
<1>5. ASSUME NEW x \in Nodes PROVE Shaped(tx'[x], Fixed')
  <2>1. CASE x = n
    BY <1>2, <1>3, <2>1
  <2>2. CASE x # n
    BY <1>2, <1>3, <2>2 DEF ApartInv
  <2>3. QED BY <2>1, <2>2
<1>6. QED BY <1>2, <1>4, <1>5 DEF ApartInv

LEMMA ApartCoordinator ==
    ASSUME ApartInv, TypeInv', NEW taken, NEW c, NEW sent, CoordinatorDoes(taken, c, sent),
           ListsOK(c), Fixed \subseteq FixedBy(c), \A m \in sent : MessageFixed(m, FixedBy(c))
    PROVE  ApartInv'
<1>1. co' = c /\ msgs' = (msgs \ taken) \cup sent /\ tx' = tx
  BY DEF CoordinatorDoes
<1>2. Fixed' = FixedBy(c) /\ ListsOK(co')
  BY <1>1 DEF Fixed
<1>3. \A m \in msgs : MessageFixed(m, FixedBy(c))
  BY MessageFixedMore DEF ApartInv
<1>4. \A m \in msgs' : MessageFixed(m, Fixed')
  BY <1>1, <1>2, <1>3
<1>5. \A x \in Nodes : Shaped(tx[x], FixedBy(c))
  BY ShapedMore DEF ApartInv
<1>6. \A x \in Nodes : Shaped(tx'[x], Fixed')
  BY <1>1, <1>2, <1>5
<1>7. QED BY <1>2, <1>4, <1>6 DEF ApartInv

-----------------------------------------------------------------------------
(* Nodes *)

LEMMA NothingShaped ==
    ASSUME NEW t, t.res = <<>>, t.step # "next"
    PROVE  \A F : Shaped(t, F)
<1> SUFFICES ASSUME NEW F PROVE Shape(t, F, {})
  BY DEF Shaped
<1>1. Ordered(<<>>, F, {})
  BY NothingOrdered
<1>2. QED BY <1>1 DEF Shape

LEMMA IdleShaped == \A F : Shaped(Idle, F)
BY NothingShaped DEF Idle

\* It holds what it held, passes nothing on, and does not wait for a path to pass on.
LEMMA StillShaped ==
    ASSUME NEW t, NEW u, NEW F, Shaped(t, F), u.res = t.res,
           u.step = "next" => t.step = "next" /\ u.last = t.last,
           "extend" \in u.await => "extend" \in t.await
    PROVE  Shaped(u, F)
BY DEF Shaped, Shape

\* A node that has refused a path.
LEMMA ProlongedShaped ==
    ASSUME NEW t \in TxRecords, NEW F, NEW Q, Ordered(t.res, F, Q)
    PROVE  Shaped(Prolonged(t), F)
<1> DEFINE u == [t EXCEPT !.step = "reserving", !.await = AfterPath]
<1>1. u.res = t.res /\ u.step = "reserving" /\ u.await = AfterPath
  BY DEF TxRecords
<1>2. "extend" \notin u.await
  BY <1>1, AwaitType
<1> HIDE DEF u
<1>3. Shaped(u, F)
  BY <1>1, <1>2 DEF Shaped, Shape
<1>4. Prolonged(t) = Idle \/ Prolonged(t) = u
  BY DEF Prolonged, u
<1>5. QED BY <1>3, <1>4, IdleShaped

\* What a node says when it reserves or refuses.
LEMMA AnswersFixed ==
    /\ \A a, b, c, d, e, F : MessageFixed(Answer(a, b, c, d, e), F)
    /\ \A a, b, c, d, F : MessageFixed(Extended(a, b, c, d), F)
    /\ \A a, b, F : MessageFixed(Confirmation(a, b), F)
    /\ \A a, b, F : MessageFixed(TTLAnswer(a, b), F)
BY DEF MessageFixed, Answer, Extended, Confirmation, TTLAnswer

LEMMA RequestRefusedApart ==
    ASSUME ApartInv, TypeInv', NEW n \in Nodes, NEW m, NEW t \in TxRecords, NEW state, NEW Q,
           t.role = "receiver" => t.step # "next",
           Ordered(t.res, Fixed, Q), RequestRefused(n, m, t, state)
    PROVE  ApartInv'
<1> DEFINE u == [t EXCEPT !.await = ReceiverWaiting]
           a == Answer(n, m.from, m.path, state, 0)
<1>1. NodeDoes(n, {m}, IF t.role = "receiver" THEN u ELSE Prolonged(t), {a})
  BY DEF RequestRefused
<1>2. ASSUME t.role = "receiver" PROVE Shaped(u, Fixed)
  <2>1. u.res = t.res /\ u.step = t.step /\ u.await = ReceiverWaiting
    BY DEF TxRecords
  <2>2. "extend" \notin u.await
    BY <2>1, AwaitType
  <2> HIDE DEF u
  <2>3. QED BY <1>2, <2>1, <2>2 DEF Shaped, Shape
<1>3. Shaped(Prolonged(t), Fixed)
  BY ProlongedShaped
<1>4. \A x \in {a} : MessageFixed(x, Fixed)
  BY AnswersFixed
<1> HIDE DEF u, a
<1>5. Shaped(IF t.role = "receiver" THEN u ELSE Prolonged(t), Fixed)
  BY <1>2, <1>3
<1>6. QED BY <1>1, <1>4, <1>5, ApartNode

\* What comes in is of a path that the configuration with it does not list.
LEMMA ReserveIncomingApart ==
    ASSUME ApartInv, TypeInv', NEW n \in Nodes, NEW m, NEW t \in TxRecords, NEW grant,
           t.role \in {"intermediate", "receiver"}, t.role = "receiver" => t.step # "next",
           Reservation(m.path, m.from, "in", grant) \in Reservations,
           Ordered(t.res, Fixed, {}), \A i \in 1..Len(t.res) : t.res[i].path # m.path,
           ReserveIncoming(n, m, t, grant)
    PROVE  ApartInv'
<1> DEFINE e == Reservation(m.path, m.from, "in", grant)
           res == Append(t.res, e)
           more == [t EXCEPT !.res = Append(@, Reservation(m.path, m.from, "in", grant))]
           a == Answer(n, m.from, m.path, "accepted", grant)
           kept == [more EXCEPT !.last = m.path, !.step = "reserving", !.await = AfterReserving]
           all == [more EXCEPT !.step = "confirming", !.asked = FALSE, !.await = Confirming(n)]
           some == [more EXCEPT !.await = ReceiverWaiting]
           over == [more EXCEPT !.rejecting = TRUE]
<1>1. \/ NodeDoes(n, {m}, kept, {a})
      \/ t.role = "receiver" /\ RequestRefused(n, m, over, "closed")
      \/ t.role = "receiver" /\ NodeDoes(n, {m}, all, {a})
      \/ t.role = "receiver" /\ NodeDoes(n, {m}, some, {a})
  BY Zenon DEF ReserveIncoming
<1>2. t.res \in Seq(Reservations)
  BY DEF TxRecords
<1>3. res \in Seq(Reservations) /\ more = [t EXCEPT !.res = res]
  BY <1>2 DEF TxRecords
<1>4. /\ Ordered(res, Fixed, {m.path})
      /\ \A i \in 1..Len(res) : res[i].path \in {m.path} => res[i].dir = "in"
  <2>1. e.path = m.path /\ e.dir = "in" /\ e \in Reservations
    BY DEF Reservation
  <2>2. \A i \in 1..Len(t.res) : t.res[i].path # e.path
    BY <2>1
  <2> HIDE DEF e
  <2>3. /\ Ordered(res, Fixed, {e.path})
        /\ \A i \in 1..Len(res) : res[i].path \in {e.path} => res[i].dir = "in"
    BY <1>2, <2>1, <2>2, IncomingOrdered
  <2>4. QED BY <2>1, <2>3
<1> HIDE DEF res, more, e
<1>5. more \in TxRecords /\ more.res = res /\ more.role = t.role /\ more.step = t.step
  BY <1>3 DEF TxRecords
<1>6. /\ kept.res = res /\ kept.step = "reserving"
      /\ all.res = res /\ all.step = "confirming"
      /\ some.res = res /\ some.step = t.step
      /\ over.res = res /\ over.step = t.step /\ over.role = t.role /\ over \in TxRecords
  BY <1>5 DEF TxRecords
<1> HIDE DEF kept, all, some, over
<1>7. ASSUME NEW u, u.res = res, u.step # "next" PROVE Shaped(u, Fixed)
  BY <1>4, <1>7 DEF Shaped, Shape
<1>8. \A x \in {a} : MessageFixed(x, Fixed)
  BY AnswersFixed
<1> HIDE DEF a
<1>9. CASE NodeDoes(n, {m}, kept, {a})
  <2>1. Shaped(kept, Fixed)
    BY <1>6, <1>7
  <2>2. QED BY <1>8, <1>9, <2>1, ApartNode
<1>10. CASE t.role = "receiver" /\ RequestRefused(n, m, over, "closed")
  BY <1>4, <1>6, <1>10, RequestRefusedApart
<1>11. CASE t.role = "receiver" /\ NodeDoes(n, {m}, all, {a})
  <2>1. Shaped(all, Fixed)
    BY <1>6, <1>7
  <2>2. QED BY <1>8, <1>11, <2>1, ApartNode
<1>12. CASE t.role = "receiver" /\ NodeDoes(n, {m}, some, {a})
  <2>1. Shaped(some, Fixed)
    BY <1>6, <1>7, <1>12
  <2>2. QED BY <1>8, <1>12, <2>1, ApartNode
<1>13. QED BY <1>1, <1>9, <1>10, <1>11, <1>12

LEMMA RequestApart ==
    ASSUME ApartInv, TypeInv', NEW n \in Nodes, ReceiveRequest(n) \/ RefuseRequest(n)
    PROVE  ApartInv'
<1> DEFINE t == Serving(n)
           updated(m) == [t EXCEPT !.res = Updated(@, m.final)]
           rejecting(m) == [updated(m) EXCEPT !.rejecting = IsReceiver(n)]
<1>1. PICK m \in RequestsOf(n) :
         \/ NodeDoes(n, {m}, Idle, {})
         \/ RequestRefused(n, m, rejecting(m), "closed")
         \/ \E grant \in 1..m.amount : ReserveIncoming(n, m, updated(m), grant)
         \/ RequestRefused(n, m, t, "rejected")
         \/ RequestRefused(n, m, updated(m), "rejected")
  BY Zenon DEF ReceiveRequest, RefuseRequest
<1>2. TypeInv
  BY DEF ApartInv
<1>3. /\ m.final \in Configurations /\ m.from \in Peers /\ m.path \in Nat /\ m.amount \in 1..Amount
      /\ m \in msgs /\ m.kind = "request"
  BY <1>2, Heard DEF MessageOK, RequestsOf, Mail
<1>4. ToSet(m.final) \subseteq Fixed /\ m.path \notin ListedPaths(m.final)
  BY <1>3 DEF ApartInv, MessageFixed
<1>5. /\ t \in TxRecords /\ t.role \in {"intermediate", "receiver"}
      /\ t.role = "receiver" => t.step # "next"
  BY <1>2, ServingType
<1>6. PICK Q : Ordered(t.res, Fixed, Q)
  <2>1. tx[n] \in TxRecords /\ Shaped(tx[n], Fixed) /\ Shaped(Idle, Fixed) /\ Idle \in TxRecords
    BY <1>2, Heard, IdleShaped, IdleType DEF ApartInv
  <2>2. t.res = tx[n].res \/ t.res = Idle.res
    BY <2>1 DEF Serving, TxRecords
  <2>3. QED BY <2>1, <2>2 DEF Shaped, Shape
<1> DEFINE u == updated(m)
           r == [u EXCEPT !.rejecting = IsReceiver(n)]
           res == Updated(t.res, m.final)
<1> HIDE DEF t
<1>7. /\ res \in Seq(Reservations) /\ Ordered(res, Fixed, {})
      /\ \A i \in 1..Len(res) : res[i].path # m.path
  <2>1. t.res \in Seq(Reservations) /\ m.final \in Seq(PathAmounts)
    BY <1>3, <1>5 DEF TxRecords, Configurations
  <2>2. res \in Seq(Reservations)
    BY <2>1, UpdatedType
  <2>3. Ordered(res, Fixed, {}) /\ \A i \in 1..Len(res) : res[i].path \in ListedPaths(m.final)
    BY <1>4, <1>6, <2>1, UpdatedOrdered
  <2>4. QED BY <1>4, <2>2, <2>3
<1>8. u = [t EXCEPT !.res = res]
  BY <1>5 DEF TxRecords
<1> HIDE DEF res, u
<1>9. u \in TxRecords /\ u.role = t.role /\ u.step = t.step /\ u.res = res
  BY <1>5, <1>7, <1>8 DEF TxRecords
<1>10. r \in TxRecords /\ r.role = t.role /\ r.step = t.step /\ r.res = res
  BY <1>9 DEF TxRecords, IsReceiver
<1>11. \/ NodeDoes(n, {m}, Idle, {})
       \/ RequestRefused(n, m, r, "closed")
       \/ \E grant \in 1..m.amount : ReserveIncoming(n, m, u, grant)
       \/ RequestRefused(n, m, t, "rejected")
       \/ RequestRefused(n, m, u, "rejected")
  BY <1>1 DEF u
<1> HIDE DEF r
<1>12. CASE NodeDoes(n, {m}, Idle, {})
  <2>1. \A x \in {} : MessageFixed(x, Fixed)
    OBVIOUS
  <2>2. QED BY <1>12, <2>1, IdleShaped, ApartNode
<1>13. CASE RequestRefused(n, m, r, "closed")
  BY <1>5, <1>7, <1>10, <1>13, RequestRefusedApart
<1>14. CASE \E grant \in 1..m.amount : ReserveIncoming(n, m, u, grant)
  <2>1. PICK grant \in 1..m.amount : ReserveIncoming(n, m, u, grant)
    BY <1>14
  <2>2. grant \in 1..Amount
    BY <1>3, ConstantsAssumption
  <2>3. Reservation(m.path, m.from, "in", grant) \in Reservations
    BY <1>3, <2>2 DEF Reservation, Reservations
  <2>4. /\ Ordered(u.res, Fixed, {}) /\ \A i \in 1..Len(u.res) : u.res[i].path # m.path
        /\ u.role \in {"intermediate", "receiver"} /\ (u.role = "receiver" => u.step # "next")
    BY <1>5, <1>7, <1>9
  <2>5. QED BY <1>9, <2>1, <2>3, <2>4, ReserveIncomingApart
<1>15. CASE RequestRefused(n, m, t, "rejected")
  BY <1>5, <1>6, <1>15, RequestRefusedApart
<1>16. CASE RequestRefused(n, m, u, "rejected")
  BY <1>5, <1>7, <1>9, <1>16, RequestRefusedApart
<1>17. QED BY <1>11, <1>12, <1>13, <1>14, <1>15, <1>16

LEMMA InitMessageApart ==
    ASSUME ApartInv, TypeInv', ReceiveInit \/ RefuseInit
    PROVE  ApartInv'
<1> DEFINE t == [Idle EXCEPT !.role = "receiver", !.step = "reserving", !.knows = TRUE,
                             !.await = ReceiverWaiting]
           says(b) == [kind |-> "initAnswer", ok |-> b]
<1>1. PICK m : \/ NodeDoes(Receiver, {m}, t, {says(TRUE)})
               \/ NodeDoes(Receiver, {m}, tx[Receiver], {says(FALSE)})
  BY DEF ReceiveInit, RefuseInit
<1>2. Receiver \in Nodes
  BY DEF Nodes
<1>3. Shaped(t, Fixed)
  <2>1. t.res = <<>> /\ t.step # "next"
    BY DEF Idle
  <2> HIDE DEF t
  <2>2. QED BY <2>1, NothingShaped
<1>4. Shaped(tx[Receiver], Fixed)
  BY <1>2 DEF ApartInv
<1>5. \A b : \A x \in {says(b)} : MessageFixed(x, Fixed)
  BY DEF MessageFixed
<1> HIDE DEF t, says
<1>6. QED BY <1>1, <1>2, <1>3, <1>4, <1>5, ApartNode

LEMMA PathRefusedApart ==
    ASSUME ApartInv, TypeInv', NEW n \in Nodes, NEW taken, NEW t \in TxRecords, NEW state, NEW Q,
           Ordered(t.res, Fixed, Q), PathRefused(n, taken, t, state)
    PROVE  ApartInv'
<1> DEFINE res == WithoutPath(t.res, t.last)
           u == [t EXCEPT !.res = WithoutPath(@, t.last)]
           a == Extended(n, t.last, state, 0)
<1>1. NodeDoes(n, taken, Prolonged(u), {a})
  BY DEF PathRefused
<1>2. t.res \in Seq(Reservations)
  BY DEF TxRecords
<1>3. res \in Seq(Reservations) /\ Ordered(res, Fixed, Q)
  BY <1>2, WithoutPathType, WithoutPathOrdered
<1>4. u = [t EXCEPT !.res = res]
  BY DEF TxRecords
<1> HIDE DEF res, u
<1>5. u \in TxRecords /\ u.res = res
  BY <1>3, <1>4 DEF TxRecords
<1>6. Shaped(Prolonged(u), Fixed)
  BY <1>3, <1>5, ProlongedShaped
<1>7. \A x \in {a} : MessageFixed(x, Fixed)
  BY AnswersFixed
<1>8. QED BY <1>1, <1>6, <1>7, ApartNode

\* No node takes the coordinator's request for a path that is fixed.
TakesOpen == \A m \in Mail("extend") : m \notin msgs' => m.path \notin PathsIn(Fixed)

LEMMA ExtendApart ==
    ASSUME ApartInv, TypeInv', TakesOpen, NEW n \in Nodes, ReceiveExtend(n) \/ RefuseExtend(n)
    PROVE  ApartInv'
<1> DEFINE e(m, grant) == Reservation(m.path, m.next, "out", grant)
           t(m, grant) == [tx[n] EXCEPT !.knows = TRUE, !.last = m.path, !.step = "next",
                                        !.await = AfterExtending,
                                        !.res = Append(@, Reservation(m.path, m.next, "out", grant))]
           u(m) == [tx[n] EXCEPT !.knows = TRUE, !.last = m.path]
           r(m, grant) == Request(n, m.next, m.path, grant, m.final)
<1>1. PICK m \in MailOf(n, "extend") :
         \/ \E grant \in 1..m.amount : NodeDoes(n, {m}, t(m, grant), {r(m, grant)})
         \/ PathRefused(n, {m}, u(m), "rejected")
  BY DEF ReceiveExtend, RefuseExtend
<1>2. TypeInv
  BY DEF ApartInv
<1>3. /\ tx[n] \in TxRecords /\ "extend" \in tx[n].await /\ m.path \in Nat /\ m \in Mail("extend")
      /\ m.amount \in 1..Amount /\ m.next \in Nodes
  BY <1>2, Heard DEF MessageOK, MailOf
<1>4. PICK Q : Shape(tx[n], Fixed, Q)
  BY DEF ApartInv, Shaped
<1>5. CASE PathRefused(n, {m}, u(m), "rejected")
  <2>1. u(m) \in TxRecords /\ u(m).res = tx[n].res
    BY <1>3 DEF TxRecords
  <2> HIDE DEF u
  <2>2. Ordered(u(m).res, Fixed, Q)
    BY <1>4, <2>1 DEF Shape
  <2>3. QED BY <1>5, <2>1, <2>2, PathRefusedApart
<1>6. ASSUME NEW grant \in 1..m.amount, NodeDoes(n, {m}, t(m, grant), {r(m, grant)})
      PROVE  ApartInv'
  <2> DEFINE old == tx[n].res
             f == e(m, grant)
             res == Append(old, f)
             v == t(m, grant)
             q == r(m, grant)
  <2>1. q # m /\ msgs' = (msgs \ {m}) \cup {q}
    BY <1>3, <1>6 DEF NodeDoes, Mail, Request
  <2>2. m.path \notin PathsIn(Fixed)
    BY <1>3, <2>1 DEF TakesOpen
  <2>3. \A x \in Fixed : x.path # m.path
    BY <2>2 DEF PathsIn
  <2>4. grant \in 1..Amount
    BY <1>3, ConstantsAssumption
  <2>5. old \in Seq(Reservations) /\ f \in Reservations /\ f.path = m.path /\ f.dir = "out"
    BY <1>3, <2>4 DEF TxRecords, Reservation, Reservations, Peers
  <2>6. v = [tx[n] EXCEPT !.knows = TRUE, !.last = m.path, !.step = "next",
                          !.await = AfterExtending, !.res = res]
    BY <1>3 DEF TxRecords
  <2>7. Ordered(old, Fixed, Q) /\ \A i \in 1..Len(old) : old[i].path \in Q => old[i].dir = "in"
    BY <1>3, <1>4 DEF Shape
  <2> HIDE DEF old, f, v
  <2>8. Ordered(res, Fixed, Q \cup {f.path})
    BY <2>3, <2>5, <2>7, OutgoingOrdered
  <2> HIDE DEF res
  <2>9. v.res = res /\ v.last = m.path /\ v.step = "next" /\ v.await = AfterExtending
    BY <1>3, <2>6 DEF TxRecords
  <2>10. "extend" \notin v.await
    BY <2>9, AwaitType
  <2>11. Shape(v, Fixed, Q \cup {f.path})
    BY <2>5, <2>8, <2>9, <2>10 DEF Shape
  <2>12. Shaped(v, Fixed)
    BY <2>11 DEF Shaped
  <2>13. \A x \in {q} : MessageFixed(x, Fixed)
    <3>1. m \in msgs /\ m.kind = "extend"
      BY <1>3 DEF Mail
    <3>2. ToSet(m.final) \subseteq Fixed /\ m.path \notin ListedPaths(m.final)
      BY <3>1 DEF ApartInv, MessageFixed
    <3>3. q.kind = "request" /\ q.final = m.final /\ q.path = m.path
      BY DEF Request
    <3> HIDE DEF q
    <3>4. QED BY <3>2, <3>3 DEF MessageFixed
  <2> HIDE DEF q
  <2>14. NodeDoes(n, {m}, v, {q})
    BY <1>6 DEF v, q
  <2>15. QED BY <2>12, <2>13, <2>14, ApartNode
<1>7. QED BY <1>1, <1>5, <1>6

LEMMA AnswerApart ==
    ASSUME ApartInv, TypeInv', NEW n \in Nodes, ReceiveAnswer(n) \/ NextNodeSilent(n)
    PROVE  ApartInv'
<1> DEFINE t == tx[n]
           u(m) == [t EXCEPT !.res = Shortened(@, t.last, m.amount), !.step = "reserving",
                             !.await = Holding]
           a(m) == Extended(n, t.last, "accepted", m.amount)
<1>1. t.step = "next"
  BY DEF ReceiveAnswer, NextNodeSilent
<1>2. \/ PathRefused(n, {}, t, "inaccessible")
      \/ \E m \in MailOf(n, "answer") :
            \/ NodeDoes(n, {m}, t, {})
            \/ PathRefused(n, {m}, t, m.state)
            \/ NodeDoes(n, {m}, Idle, {})
            \/ m.state = "accepted" /\ NodeDoes(n, {m}, u(m), {a(m)})
  BY Zenon DEF ReceiveAnswer, NextNodeSilent
<1>3. TypeInv
  BY DEF ApartInv
<1>4. t \in TxRecords /\ Shaped(t, Fixed)
  BY <1>3, Heard DEF ApartInv
<1>5. PICK Q : Shape(t, Fixed, Q)
  BY <1>4 DEF Shaped
<1> HIDE DEF t
<1>6. t.res \in Seq(Reservations) /\ Ordered(t.res, Fixed, Q) /\ t.last \in Q
  BY <1>1, <1>4, <1>5 DEF TxRecords, Shape
<1>7. \A x \in {} : MessageFixed(x, Fixed)
  OBVIOUS
<1>8. CASE PathRefused(n, {}, t, "inaccessible")
  BY <1>4, <1>6, <1>8, PathRefusedApart
<1>9. ASSUME NEW m \in MailOf(n, "answer"), m.state = "accepted", NodeDoes(n, {m}, u(m), {a(m)})
      PROVE  ApartInv'
  <2> DEFINE res == Shortened(t.res, t.last, m.amount)
             v == u(m)
  <2>1. Ordered(res, Fixed, Q)
    BY <1>6, ShortenedOrdered
  <2>2. v = [t EXCEPT !.res = res, !.step = "reserving", !.await = Holding]
    BY <1>4 DEF TxRecords
  <2> HIDE DEF res, v
  <2>3. v.res = res /\ v.step = "reserving" /\ v.await = Holding
    BY <1>4, <2>2 DEF TxRecords
  <2>4. "extend" \notin v.await
    BY <2>3, AwaitType
  <2>5. Shaped(v, Fixed)
    BY <2>1, <2>3, <2>4 DEF Shaped, Shape
  <2>6. \A x \in {a(m)} : MessageFixed(x, Fixed)
    BY AnswersFixed
  <2> HIDE DEF a
  <2>7. NodeDoes(n, {m}, v, {a(m)})
    BY <1>9 DEF v
  <2>8. QED BY <2>5, <2>6, <2>7, ApartNode
<1> HIDE DEF u, a
<1>10. ASSUME NEW m, NodeDoes(n, {m}, t, {}) PROVE ApartInv'
  BY <1>4, <1>7, <1>10, ApartNode
<1>11. ASSUME NEW m, NodeDoes(n, {m}, Idle, {}) PROVE ApartInv'
  BY <1>7, <1>11, IdleShaped, ApartNode
<1>12. ASSUME NEW m, PathRefused(n, {m}, t, m.state) PROVE ApartInv'
  BY <1>4, <1>6, <1>12, PathRefusedApart
<1>13. QED BY <1>2, <1>8, <1>9, <1>10, <1>11, <1>12

LEMMA FinalPathApart ==
    ASSUME ApartInv, TypeInv', NEW n \in Nodes, ReceiveFinalPath(n)
    PROVE  ApartInv'
<1> DEFINE t == tx[n]
           none(m) == [t EXCEPT !.res = WithoutPath(@, m.path)]
           less(m) == [t EXCEPT !.res = Shortened(@, m.path, m.amount), !.step = "reserving",
                                !.await = AfterPath]
<1>1. PICK m \in MailOf(n, "pathAmount") :
         \/ NodeDoes(n, {m}, Idle, {})
         \/ NodeDoes(n, {m}, Prolonged(none(m)), {})
         \/ m.amount > 0 /\ NodeDoes(n, {m}, less(m), {})
  BY Zenon DEF ReceiveFinalPath
<1>2. TypeInv
  BY DEF ApartInv
<1>3. t \in TxRecords /\ Shaped(t, Fixed)
  BY <1>2, Heard DEF ApartInv
<1>4. PICK Q : Shape(t, Fixed, Q)
  BY <1>3 DEF Shaped
<1> HIDE DEF t
<1>5. t.res \in Seq(Reservations) /\ Ordered(t.res, Fixed, Q)
  BY <1>3, <1>4 DEF TxRecords, Shape
<1>6. \A x \in {} : MessageFixed(x, Fixed)
  OBVIOUS
<1>7. Shaped(Prolonged(none(m)), Fixed)
  <2> DEFINE res == WithoutPath(t.res, m.path)
             v == none(m)
  <2>1. res \in Seq(Reservations) /\ Ordered(res, Fixed, Q)
    BY <1>5, WithoutPathType, WithoutPathOrdered
  <2>2. v = [t EXCEPT !.res = res]
    BY <1>3 DEF TxRecords
  <2> HIDE DEF res, v
  <2>3. v \in TxRecords /\ v.res = res
    BY <1>3, <2>1, <2>2 DEF TxRecords
  <2>4. Shaped(Prolonged(v), Fixed)
    BY <2>1, <2>3, ProlongedShaped
  <2>5. QED BY <2>4 DEF v
<1>8. ASSUME m.amount > 0 PROVE Shaped(less(m), Fixed)
  <2> DEFINE res == Shortened(t.res, m.path, m.amount)
             v == less(m)
  <2>1. m \in msgs /\ m.kind = "pathAmount" /\ m.amount \in 0..Amount
    BY <1>2, Heard DEF MessageOK, MailOf, Mail
  <2>2. PathAmount(m.path, m.amount) \in Fixed
    BY <1>8, <2>1 DEF ApartInv, MessageFixed
  <2>3. m.path \notin Q => \A i \in 1..Len(t.res) : t.res[i].path = m.path => t.res[i].amount = m.amount
    <3>1. SUFFICES ASSUME m.path \notin Q, NEW i \in 1..Len(t.res), t.res[i].path = m.path
                   PROVE  t.res[i].amount = m.amount
      OBVIOUS
    <3>2. PathAmount(t.res[i].path, t.res[i].amount) \in Fixed
      BY <1>5, <3>1 DEF Ordered
    <3> DEFINE e == PathAmount(t.res[i].path, t.res[i].amount)
               f == PathAmount(m.path, m.amount)
    <3>3. e.path = f.path /\ e.amount = t.res[i].amount /\ f.amount = m.amount
      BY <3>1 DEF PathAmount
    <3> HIDE DEF e, f
    <3>4. e = f
      <4>1. e \in Fixed /\ f \in Fixed
        BY <2>2, <3>2 DEF e, f
      <4>2. QED BY <3>3, <4>1 DEF ApartInv, ListsOK, Fixed
    <3>5. QED BY <3>3, <3>4
  <2>4. Ordered(res, Fixed, Q)
    BY <1>5, <2>3, ShortenedOrdered
  <2>5. v = [t EXCEPT !.res = res, !.step = "reserving", !.await = AfterPath]
    BY <1>3 DEF TxRecords
  <2> HIDE DEF res, v
  <2>6. v.res = res /\ v.step = "reserving" /\ v.await = AfterPath
    BY <1>3, <2>5 DEF TxRecords
  <2>7. "extend" \notin v.await
    BY <2>6, AwaitType
  <2>8. Shaped(v, Fixed)
    BY <2>4, <2>6, <2>7 DEF Shaped, Shape
  <2>9. QED BY <2>8 DEF v
<1> HIDE DEF none, less
<1>9. QED BY <1>1, <1>6, <1>7, <1>8, IdleShaped, ApartNode

LEMMA TimerFiresApart ==
    ASSUME ApartInv, TypeInv', NEW n \in Nodes, TimerFires(n)
    PROVE  ApartInv'
<1> DEFINE t == tx[n]
           await == CASE t.step = "accepted"   -> {"keys", "ttlAnswer"}
                      [] t.step = "confirming" -> Confirming(n)
                      [] t.step = "reserving" /\ IsReceiver(n)  -> ReceiverWaiting
                      [] t.step = "reserving" /\ ~IsReceiver(n) -> Holding
           u == [t EXCEPT !.asked = TRUE, !.await = await]
           q == [kind |-> "ttlRequest", from |-> n]
<1>1. /\ t.step \in {"reserving", "confirming", "accepted"}
      /\ NodeDoes(n, {}, Idle, {}) \/ NodeDoes(n, {}, u, {q})
  BY Zenon DEF TimerFires, AskTTL
<1>2. t \in TxRecords /\ Shaped(t, Fixed)
  BY Heard DEF ApartInv
<1>3. await \in {{"keys", "ttlAnswer"}, Confirming(n), ReceiverWaiting, Holding}
  BY <1>1
<1>4. await \in SUBSET Kinds /\ "extend" \notin await
  BY <1>3, AwaitType
<1> HIDE DEF t, await
<1>5. u.res = t.res /\ u.step = t.step /\ u.last = t.last /\ u.await = await
  BY <1>2 DEF TxRecords
<1>6. \A x \in {} \cup {q} : MessageFixed(x, Fixed)
  BY DEF MessageFixed
<1> HIDE DEF u, q
<1>7. Shaped(u, Fixed)
  BY <1>2, <1>4, <1>5, StillShaped
<1>8. QED BY <1>1, <1>6, <1>7, IdleShaped, ApartNode

LEMMA TTLAnswerApart ==
    ASSUME ApartInv, TypeInv', NEW n \in Nodes, ReceiveTTLAnswer(n) \/ DurationOver(n)
    PROVE  ApartInv'
<1> DEFINE t == tx[n]
           await == CASE t.step = "accepted"   -> {"keys", "ttlAnswer"}
                      [] t.step = "block"      -> {"hash", "ttlAnswer"}
                      [] t.step = "confirming" -> Confirming(n)
                      [] t.step = "reserving" /\ IsReceiver(n)  -> ReceiverWaiting
                      [] t.step \in {"reserving", "next"} /\ ~IsReceiver(n) -> Holding
           u == [t EXCEPT !.await = await]
           c == Confirmation(n, FALSE)
<1>1. PICK m \in MailOf(n, "ttlAnswer") :
         NodeDoes(n, {m}, Idle, {c}) \/ NodeDoes(n, {m}, Idle, {}) \/ NodeDoes(n, {m}, u, {})
  BY Zenon DEF ReceiveTTLAnswer, DurationOver
<1>2. t \in TxRecords /\ t \in Txs /\ Shaped(t, Fixed) /\ "ttlAnswer" \in t.await
  BY Heard DEF ApartInv
<1>3. /\ t.step \in {"reserving", "next", "block", "confirming", "accepted"}
      /\ IsReceiver(n) => t.step # "next"
  BY <1>2 DEF Txs, TxRecords, NodeSteps, IsReceiver
<1>4. await \in {{"keys", "ttlAnswer"}, {"hash", "ttlAnswer"}, Confirming(n), ReceiverWaiting, Holding}
  BY <1>3
<1>5. await \in SUBSET Kinds /\ "extend" \notin await
  BY <1>4, AwaitType
<1> HIDE DEF t, await
<1>6. u.res = t.res /\ u.step = t.step /\ u.last = t.last /\ u.await = await
  BY <1>2 DEF TxRecords
<1>7. \A x \in {c} : MessageFixed(x, Fixed)
  BY AnswersFixed
<1>8. \A x \in {} : MessageFixed(x, Fixed)
  OBVIOUS
<1> HIDE DEF u, c
<1>9. Shaped(u, Fixed)
  BY <1>2, <1>5, <1>6, StillShaped
<1>10. QED BY <1>1, <1>7, <1>8, <1>9, IdleShaped, ApartNode

LEMMA RefuseApart ==
    ASSUME ApartInv, TypeInv', NEW n \in Nodes, NEW m, Refuse(n, m)
    PROVE  ApartInv'
<1> DEFINE sent == IF tx[n].knows THEN {Confirmation(n, FALSE)} ELSE {}
<1>1. NodeDoes(n, {m}, Idle, sent)
  BY DEF Refuse
<1>2. \A x \in sent : MessageFixed(x, Fixed)
  BY AnswersFixed
<1> HIDE DEF sent
<1>3. QED BY <1>1, <1>2, IdleShaped, ApartNode

LEMMA ReceiveFinalApart ==
    ASSUME ApartInv, TypeInv', NEW n \in Nodes, ReceiveFinal(n)
    PROVE  ApartInv'
<1> DEFINE t == tx[n]
           updated(m) == [t EXCEPT !.res = Updated(@, m.list), !.members = m.members,
                                   !.receipts[Coordinator] = m.receipt, !.step = "block",
                                   !.await = {"hash", "ttlAnswer"},
                                   !.asked = IF t.step = "confirming" THEN @ ELSE FALSE]
<1>1. PICK m \in MailOf(n, "final") :
         NodeDoes(n, {m}, Idle, {}) \/ Refuse(n, m) \/ NodeDoes(n, {m}, updated(m), {})
  BY Zenon DEF ReceiveFinal
<1>2. TypeInv
  BY DEF ApartInv
<1>3. t \in TxRecords /\ Shaped(t, Fixed)
  BY <1>2, Heard DEF ApartInv
<1>4. PICK Q : Ordered(t.res, Fixed, Q)
  BY <1>3 DEF Shaped, Shape
<1>5. m \in msgs /\ m.kind = "final" /\ m.list \in Seq(PathAmounts)
  BY <1>2, Heard DEF MessageOK, MailOf, Mail, Configurations
<1>6. ToSet(m.list) \subseteq Fixed
  BY <1>5 DEF ApartInv, MessageFixed
<1> HIDE DEF t
<1> DEFINE res == Updated(t.res, m.list)
           receipts == [t.receipts EXCEPT ![Coordinator] = m.receipt]
           asked == IF t.step = "confirming" THEN t.asked ELSE FALSE
           v == updated(m)
<1>7. Ordered(res, Fixed, {})
  <2>1. t.res \in Seq(Reservations)
    BY <1>3 DEF TxRecords
  <2>2. QED BY <1>4, <1>5, <1>6, <2>1, UpdatedOrdered
<1>8. v = [t EXCEPT !.res = res, !.members = m.members, !.receipts = receipts,
                    !.step = "block", !.await = {"hash", "ttlAnswer"}, !.asked = asked]
  BY <1>3 DEF TxRecords
<1> HIDE DEF res, receipts, asked, v
<1>9. v.res = res /\ v.step = "block" /\ v.await = {"hash", "ttlAnswer"}
  BY <1>3, <1>8 DEF TxRecords
<1>10. Shaped(v, Fixed)
  BY <1>7, <1>9 DEF Shaped, Shape
<1>11. \A x \in {} : MessageFixed(x, Fixed)
  OBVIOUS
<1>12. NodeDoes(n, {m}, Idle, {}) \/ Refuse(n, m) \/ NodeDoes(n, {m}, v, {})
  BY <1>1 DEF v
<1>13. QED BY <1>10, <1>11, <1>12, IdleShaped, RefuseApart, ApartNode

\* What the rest of the steps of a node say.
Confirms(sent) == \A x \in sent : x.kind \in {"hash", "confirmation"}

LEMMA ConfirmsFixed ==
    ASSUME NEW sent, Confirms(sent), NEW F
    PROVE  \A x \in sent : MessageFixed(x, F)
BY DEF Confirms, MessageFixed

LEMMA ConfirmApart ==
    ASSUME ApartInv, TypeInv', NEW n \in Nodes, NEW taken, NEW t \in TxRecords, NEW sent,
           Confirm(n, taken, t, sent), Confirms(sent), t.res = tx[n].res
    PROVE  ApartInv'
<1> DEFINE u == [t EXCEPT !.step = "accepted", !.asked = FALSE, !.await = {"keys", "ttlAnswer"}]
<1>1. \/ NodeDoes(n, taken, u, sent \cup {Confirmation(n, TRUE)})
      \/ NodeDoes(n, taken, Idle, sent \cup {Confirmation(n, FALSE)})
  BY DEF Confirm
<1>2. u.res = t.res /\ u.step = "accepted" /\ u.await = {"keys", "ttlAnswer"}
  BY DEF TxRecords
<1>3. ASSUME NEW b PROVE \A x \in sent \cup {Confirmation(n, b)} : MessageFixed(x, Fixed)
  <2>1. Confirms(sent \cup {Confirmation(n, b)})
    BY DEF Confirms, Confirmation
  <2>2. QED BY <2>1, ConfirmsFixed
<1> HIDE DEF u
<1>4. Shaped(u, Fixed)
  BY <1>2, StillShaped DEF ApartInv
<1>5. QED BY <1>1, <1>3, <1>4, IdleShaped, ApartNode

LEMMA LearnBlockNumberApart ==
    ASSUME ApartInv, TypeInv', NEW n \in Nodes, LearnBlockNumber(n) \/ BlockNumberWrong(n)
    PROVE  ApartInv'
<1> DEFINE t == [tx[n] EXCEPT !.hashes = @ \cup {n}]
           hash(p) == [kind |-> "hash", from |-> n, to |-> p,
                       receipt |-> IF IsReceiver(n) THEN 0 ELSE ReceiptFor(t, p)]
           sent == {hash(p) : p \in t.members \ {n}}
           u == [t EXCEPT !.step = "confirming", !.await = {"hash", "ttlAnswer"}]
<1>1. \/ Confirm(n, {}, t, sent) \/ NodeDoes(n, {}, u, sent)
      \/ NodeDoes(n, {}, Idle, {Confirmation(n, FALSE)})
  BY Zenon DEF LearnBlockNumber, BlockNumberWrong
<1>2. tx[n] \in TxRecords
  BY Heard DEF ApartInv
<1>3. t \in TxRecords /\ t.res = tx[n].res
  BY <1>2 DEF TxRecords
<1> HIDE DEF t
<1>4. u.res = t.res /\ u.step = "confirming" /\ u.await = {"hash", "ttlAnswer"}
  BY <1>3 DEF TxRecords
<1>5. Confirms(sent)
  BY DEF Confirms
<1> HIDE DEF sent, u
<1>6. Shaped(u, Fixed)
  BY <1>3, <1>4, StillShaped DEF ApartInv
<1>7. \A x \in sent \cup {Confirmation(n, FALSE)} : MessageFixed(x, Fixed)
  <2>1. \A x \in sent : MessageFixed(x, Fixed)
    BY <1>5, ConfirmsFixed
  <2>2. MessageFixed(Confirmation(n, FALSE), Fixed)
    BY AnswersFixed
  <2>3. QED BY <2>1, <2>2
<1>8. QED BY <1>1, <1>3, <1>5, <1>6, <1>7, IdleShaped, ConfirmApart, ApartNode

LEMMA ReceiveHashApart ==
    ASSUME ApartInv, TypeInv', NEW n \in Nodes, ReceiveHash(n)
    PROVE  ApartInv'
<1> DEFINE t(m) == [tx[n] EXCEPT !.hashes = @ \cup {m.from}, !.receipts[m.from] = m.receipt,
                                 !.step = IF @ = "block" THEN @ ELSE "confirming"]
<1>1. PICK m \in MailOf(n, "hash") :
         \/ Refuse(n, m)
         \/ \E await \in {{"final", "hash", "ttlAnswer"}, {"hash"}, {"hash", "ttlAnswer"}} :
               NodeDoes(n, {m}, [t(m) EXCEPT !.await = await], {})
         \/ Confirm(n, {m}, t(m), {})
  BY Zenon DEF ReceiveHash
<1>2. TypeInv
  BY DEF ApartInv
<1>3. m.from \in Nodes /\ m.receipt \in Nat /\ tx[n] \in TxRecords
  BY <1>2, Heard DEF MessageOK
<1> DEFINE u == t(m)
           hashes == tx[n].hashes \cup {m.from}
           receipts == [tx[n].receipts EXCEPT ![m.from] = m.receipt]
           step == IF tx[n].step = "block" THEN "block" ELSE "confirming"
<1>4. /\ hashes \in SUBSET Nodes /\ receipts \in [Peers -> Nat]
      /\ u = [tx[n] EXCEPT !.hashes = hashes, !.receipts = receipts, !.step = step]
  BY <1>3 DEF TxRecords
<1> HIDE DEF u, hashes, receipts
<1>5. u \in TxRecords /\ u.step # "next" /\ u.res = tx[n].res
  BY <1>3, <1>4 DEF TxRecords, NodeSteps
<1>6. \/ Refuse(n, m)
      \/ \E await \in {{"final", "hash", "ttlAnswer"}, {"hash"}, {"hash", "ttlAnswer"}} :
            NodeDoes(n, {m}, [u EXCEPT !.await = await], {})
      \/ Confirm(n, {m}, u, {})
  BY <1>1 DEF u
<1>7. CASE Confirm(n, {m}, u, {})
  <2>1. Confirms({})
    BY DEF Confirms
  <2>2. QED BY <1>5, <1>7, <2>1, ConfirmApart
<1>8. ASSUME NEW await \in {{"final", "hash", "ttlAnswer"}, {"hash"}, {"hash", "ttlAnswer"}},
             NodeDoes(n, {m}, [u EXCEPT !.await = await], {})
      PROVE  ApartInv'
  <2> DEFINE v == [u EXCEPT !.await = await]
  <2>1. v.res = tx[n].res /\ v.step # "next" /\ "extend" \notin v.await
    BY <1>5 DEF TxRecords
  <2> HIDE DEF v
  <2>2. Shaped(v, Fixed)
    BY <2>1, StillShaped DEF ApartInv
  <2>3. \A x \in {} : MessageFixed(x, Fixed)
    OBVIOUS
  <2>4. NodeDoes(n, {m}, v, {})
    BY <1>8 DEF v
  <2>5. QED BY <2>2, <2>3, <2>4, ApartNode
<1>9. QED BY <1>6, <1>7, <1>8, RefuseApart

LEMMA ReceiveKeysApart ==
    ASSUME ApartInv, TypeInv', NEW n \in Nodes, ReceiveKeys(n)
    PROVE  ApartInv'
<1> DEFINE res == IF tx[n].rejecting THEN <<>> ELSE tx[n].res
           t == [tx[n] EXCEPT !.step = "voting", !.await = {},
                              !.res = IF tx[n].rejecting THEN <<>> ELSE @]
<1>1. PICK m : NodeDoes(n, {m}, t, {})
  BY DEF ReceiveKeys
<1>2. tx[n] \in TxRecords
  BY Heard DEF ApartInv
<1>3. t.res = res /\ t.step = "voting" /\ t.await = {}
  BY <1>2 DEF TxRecords
<1> HIDE DEF t
<1>4. Shaped(t, Fixed)
  <2>1. CASE res = <<>>
    BY <1>3, <2>1, NothingShaped
  <2>2. CASE res = tx[n].res
    BY <1>3, <2>2, StillShaped DEF ApartInv
  <2>3. QED BY <2>1, <2>2
<1>5. \A x \in {} : MessageFixed(x, Fixed)
  OBVIOUS
<1>6. QED BY <1>1, <1>4, <1>5, ApartNode

LEMMA NodesApart ==
    ASSUME ApartInv, TypeInv', TakesOpen, NEW n \in Nodes,
           LearnBlockNumber(n) \/ NodeReceives(n) \/ NodeTimeout(n) \/ NodeRefuses(n)
    PROVE  ApartInv'
BY RequestApart, ExtendApart, AnswerApart, FinalPathApart, TTLAnswerApart, ReceiveFinalApart,
   ReceiveHashApart, ReceiveKeysApart, TimerFiresApart, LearnBlockNumberApart
DEF NodeReceives, NodeTimeout, NodeRefuses

-----------------------------------------------------------------------------
(* The coordinator: steps that fix no path *)

\* The paths to come came already, and not first if the first one is passed on.
Left(c) ==
    \A i \in 1..Len(c.queue) :
        \E j \in 1..Len(co.queue) :
            c.queue[i] = co.queue[j] /\ (j > 1 \/ co.stage # "remote" \/ (c.stage = "remote" /\ i = 1))

\* What is fixed stays as it is, with the paths it is for.
Calm(c) ==
    /\ c.final = co.final
    /\ c.stage # "ended" => co.stage # "ended" /\ PathsIn(Fixed) \subseteq DOMAIN c.paths
    /\ Early(c) => Early(co) /\ Left(c)
    /\ c.stage \in {"start", "receiver"} => co.stage \in {"start", "receiver"}

LEMMA CalmLists ==
    ASSUME ApartInv, NEW c, Calm(c)
    PROVE  ListsOK(c) /\ FixedBy(c) = Fixed
<1>1. ListsOK(co) /\ c.final = co.final
  BY DEF ApartInv, Calm
<1>2. FixedBy(c) = Fixed /\ FixedBy(co) = Fixed
  BY <1>1 DEF FixedBy, Fixed
<1>3. Early(c) => \A i \in 1..Len(c.queue) : c.queue[i] \notin PathsIn(Fixed)
  <2>1. SUFFICES ASSUME Early(c), NEW i \in 1..Len(c.queue)
                 PROVE  c.queue[i] \notin PathsIn(Fixed)
    OBVIOUS
  <2>2. Early(co) /\ \E j \in 1..Len(co.queue) : c.queue[i] = co.queue[j]
    BY <2>1 DEF Calm, Left
  <2>3. QED BY <1>1, <1>2, <2>2 DEF ListsOK
<1>4. QED BY <1>1, <1>2, <1>3 DEF ListsOK, Calm

LEMMA CalmSame ==
    ASSUME TypeInv, ApartInv, NEW c, c.final = co.final, c.queue = co.queue, c.paths = co.paths,
           c.stage # "ended" => co.stage # "ended",
           Early(c) => Early(co) /\ (co.stage = "remote" => c.stage = "remote"),
           c.stage \in {"start", "receiver"} => co.stage \in {"start", "receiver"}
    PROVE  Calm(c)
<1>1. ListsOK(co)
  BY DEF ApartInv
<1>2. Early(c) => Left(c)
  <2>1. co.queue \in Seq(Nat)
    BY DEF TypeInv, CoordinationOK, Coordinations
  <2>2. \A i \in 1..Len(co.queue) : i > 1 \/ i = 1
    BY <2>1
  <2>3. QED BY <2>2 DEF Left
<1>3. c.stage # "ended" => PathsIn(Fixed) \subseteq DOMAIN c.paths
  BY <1>1 DEF ListsOK, Fixed
<1>4. QED BY <1>2, <1>3 DEF Calm

LEMMA CalmEnded ==
    ASSUME TypeInv
    PROVE  Calm(Ended(co))
<1>1. co \in Coordinations
  BY DEF TypeInv, CoordinationOK
<1>2. Ended(co).stage = "ended" /\ Ended(co).final = co.final
  BY <1>1 DEF Ended, Coordinations
<1>3. QED BY <1>2 DEF Calm, Early

LEMMA SwitchedLeaves ==
    ASSUME NEW c \in Coordinations, PathsOK(c), c.queue # <<>>
    PROVE  /\ Switched(c).stage = "choosing" /\ Switched(c).final = c.final
           /\ Switched(c).rebuilt = c.rebuilt
           /\ Switched(c).queue = Tail(c.queue)
           /\ DOMAIN c.paths \ {Head(c.queue)} \subseteq DOMAIN Switched(c).paths
           /\ c.own[Head(c.queue)] > 0 => DOMAIN Switched(c).paths = DOMAIN c.paths
<1> DEFINE id == Head(c.queue)
           stay == IF c.own[id] > 0 THEN DOMAIN c.paths ELSE DOMAIN c.paths \ {id}
           own == [x \in stay |-> c.own[x]]
           paths == [x \in stay |-> c.paths[x]]
           tail == Tail(c.queue)
<1>1. Switched(c) = [c EXCEPT !.stage = "choosing", !.queue = tail, !.flow = 0, !.pos = 0,
                             !.answered = <<>>, !.paths = paths, !.own = own]
  BY DEF Switched, Coordinations
<1>2. DOMAIN paths = stay
  OBVIOUS
<1> HIDE DEF own, paths, tail
<1>3. /\ Switched(c).stage = "choosing" /\ Switched(c).final = c.final /\ Switched(c).queue = tail
      /\ Switched(c).paths = paths /\ Switched(c).rebuilt = c.rebuilt
  BY <1>1 DEF Coordinations
<1>4. QED BY <1>2, <1>3 DEF tail

\* The path at hand is not fixed, and no other one in the queue is the same.
LEMMA CurrentOpen ==
    ASSUME ApartInv, Early(co), co.queue # <<>>
    PROVE  /\ Current \notin PathsIn(Fixed) /\ Current \in Nat /\ Current = co.queue[1]
           /\ \A i \in 2..Len(co.queue) : co.queue[i] # Current
           /\ 1 \in 1..Len(co.queue)
<1>1. TypeInv /\ ListsOK(co)
  BY DEF ApartInv
<1>2. /\ Current = co.queue[1] /\ \A i \in 2..Len(co.queue) : co.queue[i] # Current
      /\ co.queue \in Seq(Nat) /\ Current \in Nat
  BY <1>1, AtHand DEF Coordinations
<1>3. 1 \in 1..Len(co.queue)
  BY <1>2
<1>4. QED BY <1>1, <1>2, <1>3 DEF ListsOK, Fixed

LEMMA CalmSwitched ==
    ASSUME ApartInv, Early(co), co.queue # <<>>, NEW d \in Coordinations, PathsOK(d),
           d.final = co.final, d.queue = co.queue, d.paths = co.paths
    PROVE  Calm(Switched(d))
<1> DEFINE s == Switched(d)
<1>1. /\ s.stage = "choosing" /\ s.final = co.final /\ s.queue = Tail(co.queue)
      /\ DOMAIN co.paths \ {Current} \subseteq DOMAIN s.paths
  BY SwitchedLeaves DEF Current
<1> HIDE DEF s
<1>2. Current \notin PathsIn(Fixed) /\ PathsIn(Fixed) \subseteq DOMAIN co.paths /\ co.stage # "ended"
  BY CurrentOpen DEF ApartInv, ListsOK, Fixed, Early
<1>3. Left(s)
  <2>1. co.queue \in Seq(Nat)
    BY DEF ApartInv, TypeInv, CoordinationOK, Coordinations
  <2> DEFINE q == co.queue
  <2> HIDE DEF q
  <2>2. /\ Len(Tail(q)) = Len(q) - 1 /\ Len(q) \in Nat
        /\ \A i \in 1..Len(Tail(q)) : Tail(q)[i] = q[i + 1]
    BY <2>1 DEF q
  <2>3. ASSUME NEW i \in 1..Len(Tail(q))
        PROVE  \E j \in 1..Len(q) : Tail(q)[i] = q[j] /\ j > 1
    <3>1. i + 1 \in 1..Len(q) /\ i + 1 > 1
      BY <2>2
    <3>2. QED BY <2>2, <3>1
  <2>4. QED BY <1>1, <2>3 DEF Left, q
<1>4. QED BY <1>1, <1>2, <1>3 DEF Calm, s

\* The path at hand is dropped, for one of the reasons there are.
LEMMA CalmDrops ==
    ASSUME ApartInv, Early(co), co.queue # <<>>
    PROVE  /\ \A news \in BOOLEAN : Calm(Switched([Dropped(co) EXCEPT !.news = news]))
           /\ Calm(Switched([Dropped(co) EXCEPT !.missing = @ + 1]))
           /\ \A n \in Nodes : Calm(Switched([Dropped(co) EXCEPT !.news = TRUE,
                                                                 !.inaccessible = @ \cup {n}]))
<1> DEFINE c == Dropped(co)
<1>1. TypeInv
  BY DEF ApartInv
<1>2. OwnTotal(co) - co.own[Current] + 0 <= Amount /\ 0 \in Nat
  BY <1>1, NothingFits
<1>3. c \in Coordinations /\ PathsOK(c) /\ QueueOK(c, 2) /\ c.final = co.final
      /\ c.queue = co.queue /\ c.paths = co.paths
  BY <1>1, <1>2, OwnAtHand DEF Dropped
<1> HIDE DEF c
<1>4. ASSUME NEW d \in Coordinations, d.paths = c.paths, d.queue = c.queue, d.own = c.own,
             d.final = c.final
      PROVE  Calm(Switched(d))
  <2>1. PathsOK(d)
    BY <1>3, <1>4, PathsSame
  <2>2. QED BY <1>3, <1>4, <2>1, CalmSwitched
<1>5. ASSUME NEW news \in BOOLEAN PROVE Calm(Switched([c EXCEPT !.news = news]))
  <2> DEFINE d == [c EXCEPT !.news = news]
  <2>1. d \in Coordinations /\ d.paths = c.paths /\ d.queue = c.queue /\ d.own = c.own
        /\ d.final = c.final
    BY <1>3 DEF Coordinations
  <2> HIDE DEF d
  <2>2. QED BY <1>4, <2>1 DEF d
<1>6. Calm(Switched([c EXCEPT !.missing = @ + 1]))
  <2> DEFINE k == c.missing + 1
             d == [c EXCEPT !.missing = k]
  <2>1. k \in Nat
    <3>1. c.missing \in Nat
      BY <1>3 DEF Coordinations
    <3>2. QED BY <3>1
  <2> HIDE DEF k
  <2>2. d \in Coordinations /\ d.paths = c.paths /\ d.queue = c.queue /\ d.own = c.own
        /\ d.final = c.final
    BY <1>3, <2>1 DEF Coordinations
  <2> HIDE DEF d
  <2>3. Calm(Switched(d))
    BY <1>4, <2>2
  <2>4. QED BY <2>3 DEF d, k
<1>7. ASSUME NEW n \in Nodes
      PROVE  Calm(Switched([c EXCEPT !.news = TRUE, !.inaccessible = @ \cup {n}]))
  <2> DEFINE d == [c EXCEPT !.news = TRUE, !.inaccessible = @ \cup {n}]
  <2>1. d \in Coordinations /\ d.paths = c.paths /\ d.queue = c.queue /\ d.own = c.own
        /\ d.final = c.final
    BY <1>3 DEF Coordinations
  <2> HIDE DEF d
  <2>2. QED BY <1>4, <2>1 DEF d
<1>8. QED BY <1>5, <1>6, <1>7 DEF c

\* These messages say what is fixed, and pass no path on.
Plain(sent) == \A m \in sent : MessageFixed(m, Fixed) /\ m.kind \notin {"extend", "extended"}

CalmStep == \E taken, c, sent : CoordinatorDoes(taken, c, sent) /\ Calm(c) /\ Plain(sent)

LEMMA PlainMessages ==
    /\ Plain({}) /\ \A k : Plain(DropMessages(k))
    /\ \A S, b : Plain({TTLAnswer(n, b) : n \in S})
    /\ \A n, b : Plain({TTLAnswer(n, b)})
    /\ \A S, T : Plain(S) /\ Plain(T) => Plain(S \cup T)
<1>1. Plain({})
  BY DEF Plain
<1>2. \A k : Plain(DropMessages(k))
  BY DEF Plain, DropMessages, FinalPath, MessageFixed
<1>3. \A S, b : Plain({TTLAnswer(n, b) : n \in S})
  BY DEF Plain, TTLAnswer, MessageFixed
<1>4. \A n, b : Plain({TTLAnswer(n, b)})
  BY DEF Plain, TTLAnswer, MessageFixed
<1>5. \A S, T : Plain(S) /\ Plain(T) => Plain(S \cup T)
  BY DEF Plain
<1>6. QED BY <1>1, <1>2, <1>3, <1>4, <1>5

LEMMA RejectCalm ==
    ASSUME TypeInv, NEW taken, Reject(taken)
    PROVE  CalmStep
<1> DEFINE sent == {TTLAnswer(n, FALSE) : n \in co.members}
<1>1. Plain(sent)
  BY PlainMessages
<1>2. CoordinatorDoes(taken, Ended(co), sent)
  BY DEF Reject
<1> HIDE DEF sent
<1>3. QED BY <1>1, <1>2, CalmEnded DEF CalmStep

LEMMA ReceiverHeardCalm ==
    ASSUME ApartInv, ReceiverAnswers \/ ReceiverSilent
    PROVE  CalmStep
<1> DEFINE d == [co EXCEPT !.stage = "choosing", !.members = {Receiver}]
<1>1. co.stage = "receiver" /\ \E taken : \/ CoordinatorDoes(taken, d, {})
                                          \/ CoordinatorDoes(taken, Ended(co), {})
  <2>1. CASE ReceiverAnswers
    <3>1. PICK m \in Mail("initAnswer") :
             CoordinatorDoes({m}, IF m.ok THEN d ELSE Ended(co), {})
      BY <2>1 DEF ReceiverAnswers
    <3>2. QED BY <2>1, <3>1 DEF ReceiverAnswers
  <2>2. CASE ReceiverSilent
    BY <2>2 DEF ReceiverSilent
  <2>3. QED BY <2>1, <2>2
<1>2. TypeInv /\ co \in Coordinations
  BY DEF ApartInv, TypeInv, CoordinationOK
<1>3. /\ d.stage = "choosing" /\ d.paths = co.paths /\ d.queue = co.queue /\ d.final = co.final
  BY <1>2 DEF Coordinations
<1> HIDE DEF d
<1>4. Calm(d) /\ Calm(Ended(co))
  BY <1>1, <1>2, <1>3, CalmSame, CalmEnded DEF Early
<1>5. QED BY <1>1, <1>4, PlainMessages DEF CalmStep

\* What the nodes are told about a new path lists the others only.
LEMMA ConfigurationsFixed ==
    ASSUME ApartInv, Early(co), co.queue # <<>>, NEW n \in Nodes
    PROVE  ToSet(co.final[n]) \subseteq Fixed /\ Current \notin ListedPaths(co.final[n])
<1>1. ToSet(co.final[n]) \subseteq Fixed
  BY DEF ApartInv, ListsOK, Fixed
<1>2. \A i \in 1..Len(co.final[n]) : co.final[n][i] \in ToSet(co.final[n])
  <2>1. co.final[n] \in Configurations
    BY DEF ApartInv, TypeInv, CoordinationOK, Coordinations
  <2>2. QED BY <2>1 DEF ToSet, Configurations
<1>3. QED BY <1>1, <1>2, CurrentOpen DEF ListedPaths, PathsIn

LEMMA ReserveOwnCalm ==
    ASSUME ApartInv, ReserveOwn
    PROVE  CalmStep
<1> DEFINE first == NodeAt(Route, 1)
           final == IF Route = <<>> THEN <<>> ELSE co.final[first]
           stage == IF Route = <<>> THEN "direct" ELSE "neighbour"
<1>1. /\ co.stage = "choosing" /\ co.queue # <<>>
      /\ \E g \in 1..(Amount - OwnTotal(co)) :
            CoordinatorDoes({}, [co EXCEPT !.own[Current] = g, !.flow = g, !.stage = stage],
                            {Request(Coordinator, first, Current, g, final)})
  BY DEF ReserveOwn
<1>2. PICK grant \in 1..(Amount - OwnTotal(co)) :
          CoordinatorDoes({}, [co EXCEPT !.own[Current] = grant, !.flow = grant, !.stage = stage],
                          {Request(Coordinator, first, Current, grant, final)})
  BY <1>1
<1> DEFINE d == [co EXCEPT !.own[Current] = grant, !.flow = grant, !.stage = stage]
           m == Request(Coordinator, first, Current, grant, final)
<1>3. TypeInv /\ co \in Coordinations /\ Early(co)
  BY <1>1 DEF ApartInv, TypeInv, CoordinationOK, Early
<1>4. Route \in Seq(Intermediates)
  BY <1>1, <1>3, AtHand
<1>5. d.stage = stage /\ d.final = co.final /\ d.queue = co.queue /\ d.paths = co.paths
  BY <1>3 DEF Coordinations
<1>6. stage \in {"direct", "neighbour"}
  OBVIOUS
<1>7. first \in Nodes
  BY <1>4, RouteNodes
<1> HIDE DEF d, stage, first
<1>8. Calm(d)
  BY <1>1, <1>3, <1>5, <1>6, CalmSame DEF Early
<1>9. ToSet(final) \subseteq Fixed /\ Current \notin ListedPaths(final)
  <2>1. ToSet(<<>>) = {} /\ ListedPaths(<<>>) = {}
    BY DEF ToSet, ListedPaths
  <2>2. ToSet(co.final[first]) \subseteq Fixed /\ Current \notin ListedPaths(co.final[first])
    BY <1>1, <1>3, <1>7, ConfigurationsFixed
  <2>3. QED BY <2>1, <2>2
<1> HIDE DEF final
<1>10. Plain({m})
  BY <1>9 DEF Plain, MessageFixed, Request
<1>11. CoordinatorDoes({}, d, {m})
  BY <1>2 DEF d
<1> HIDE DEF m
<1>12. QED BY <1>8, <1>10, <1>11 DEF CalmStep

\* The path at hand is given up where nobody has answered.
LEMMA SilentCalm ==
    ASSUME ApartInv, CannotReserveOwn \/ NeighbourSilent \/ RemoteSilent \/ DirectSilent
    PROVE  CalmStep
<1>1. TypeInv
  BY DEF ApartInv
<1>2. co.queue # <<>> /\ Early(co)
  BY <1>1, AtWork DEF CannotReserveOwn, NeighbourSilent, RemoteSilent, DirectSilent, Early
<1>3. CASE CannotReserveOwn
  <2>1. PICK news \in {co.news, Route # <<>>} :
           CoordinatorDoes({}, Switched([Dropped(co) EXCEPT !.news = @ \/ news]), {})
    BY <1>3 DEF CannotReserveOwn
  <2>2. Calm(Switched([Dropped(co) EXCEPT !.news = @ \/ news]))
    <3> DEFINE b == Dropped(co).news \/ news
    <3>1. b \in BOOLEAN
      OBVIOUS
    <3> HIDE DEF b
    <3>2. Calm(Switched([Dropped(co) EXCEPT !.news = b]))
      BY <1>2, <3>1, CalmDrops
    <3>3. QED BY <3>2 DEF b
  <2>3. QED BY <2>1, <2>2, PlainMessages DEF CalmStep
<1>4. ASSUME NEW n \in Nodes, NEW sent, Plain(sent),
             CoordinatorDoes({}, Switched([Dropped(co) EXCEPT !.news = TRUE,
                                                              !.inaccessible = @ \cup {n}]), sent)
      PROVE  CalmStep
  BY <1>2, <1>4, CalmDrops DEF CalmStep
<1>5. CASE NeighbourSilent
  <2>1. CoordinatorDoes({}, Switched([Dropped(co) EXCEPT !.news = TRUE,
                                                         !.inaccessible = @ \cup {Route[1]}]),
                        {TTLAnswer(Receiver, TRUE)})
    BY <1>5 DEF NeighbourSilent
  <2>2. Len(Route) \in Nat \ {0} /\ Route \in Seq(Intermediates)
    BY <1>1, <1>2, <1>5, AtWork, AtHand DEF NeighbourSilent
  <2>3. Route[1] \in Nodes
    BY <2>2 DEF Nodes
  <2>4. QED BY <1>4, <2>1, <2>3, PlainMessages
<1>6. CASE RemoteSilent
  <2> DEFINE sent == DropMessages(co.pos) \cup {TTLAnswer(Receiver, TRUE)}
  <2>1. CoordinatorDoes({}, Switched([Dropped(co) EXCEPT !.news = TRUE,
                                                         !.inaccessible = @ \cup {Route[co.pos]}]), sent)
    BY <1>6 DEF RemoteSilent
  <2>2. co.pos \in 1..Len(Route) /\ Route \in Seq(Intermediates)
    BY <1>1, <1>2, <1>6, AtWork, AtHand DEF RemoteSilent
  <2>3. Route[co.pos] \in Nodes
    BY <2>2 DEF Nodes
  <2>4. Plain(sent)
    BY PlainMessages
  <2> HIDE DEF sent
  <2>5. QED BY <1>4, <2>1, <2>3, <2>4
<1>7. CASE DirectSilent
  <2>1. \/ Reject({})
        \/ CoordinatorDoes({}, Switched([Dropped(co) EXCEPT !.missing = @ + 1]), {})
    BY <1>7, Zenon DEF DirectSilent
  <2>2. Calm(Switched([Dropped(co) EXCEPT !.missing = @ + 1]))
    BY <1>2, CalmDrops
  <2>3. CASE Reject({})
    BY <1>1, <2>3, RejectCalm
  <2>4. CASE CoordinatorDoes({}, Switched([Dropped(co) EXCEPT !.missing = @ + 1]), {})
    BY <2>2, <2>4, PlainMessages DEF CalmStep
  <2>5. QED BY <2>1, <2>3, <2>4
<1>8. QED BY <1>3, <1>5, <1>6, <1>7

LEMMA NextInaccessibleCalm ==
    ASSUME ApartInv, co.stage = "remote", NEW m, NextInaccessible(m)
    PROVE  CalmStep
<1> DEFINE next == NodeAt(Route, co.pos + 1)
           c == IF next = Receiver
                THEN [Dropped(co) EXCEPT !.missing = @ + 1]
                ELSE [Dropped(co) EXCEPT !.news = TRUE, !.inaccessible = @ \cup {next}]
           drops == DropMessages(co.pos - 1)
           all == drops \cup {TTLAnswer(n, FALSE) : n \in co.members}
           one == drops \cup {TTLAnswer(Receiver, TRUE)}
<1>1. CoordinatorDoes({m}, Ended(co), all) \/ CoordinatorDoes({m}, Switched(c), one)
  BY DEF NextInaccessible
<1>2. TypeInv /\ Early(co)
  BY DEF ApartInv, Early
<1>3. co.queue # <<>> /\ co.pos \in 1..Len(Route)
  BY <1>2, AtWork
<1>4. next \in Nodes
  <2>1. Route \in Seq(Intermediates)
    BY <1>2, <1>3, AtHand
  <2>2. co.pos + 1 \in Nat \ {0}
    BY <1>3, <2>1
  <2>3. QED BY <2>1, <2>2, RouteNodes
<1> HIDE DEF next
<1>5. Calm(Switched(c))
  <2>1. Calm(Switched([Dropped(co) EXCEPT !.missing = @ + 1]))
    BY <1>2, <1>3, CalmDrops
  <2>2. Calm(Switched([Dropped(co) EXCEPT !.news = TRUE, !.inaccessible = @ \cup {next}]))
    BY <1>2, <1>3, <1>4, CalmDrops
  <2>3. QED BY <2>1, <2>2
<1>6. Plain(all) /\ Plain(one)
  BY PlainMessages
<1> HIDE DEF c, all, one
<1>7. QED BY <1>1, <1>2, <1>5, <1>6, CalmEnded DEF CalmStep

\* The stages after the last path, and the end.
LEMMA LateCalm ==
    ASSUME ApartInv,
           \/ NoMorePaths \/ SendFinalConfiguration \/ NoBlockNumber
           \/ NotAllConfirm \/ NodeConfirms \/ AnswerTTL
    PROVE  CalmStep
<1>1. TypeInv /\ co \in Coordinations
  BY DEF ApartInv, TypeInv, CoordinationOK
<1>2. CASE NoMorePaths \/ NotAllConfirm
  BY <1>1, <1>2, RejectCalm DEF NoMorePaths, NotAllConfirm
<1>3. CASE SendFinalConfiguration
  <2> DEFINE d == [co EXCEPT !.stage = "confirming"]
             final(n) == [kind |-> "final", to |-> n, list |-> co.final[n],
                          members |-> co.members, receipt |-> ToNode(co, n)]
             sent == {final(n) : n \in co.members}
  <2>1. co.stage = "block" /\ (Reject({}) \/ CoordinatorDoes({}, d, sent))
    BY <1>3, Zenon DEF SendFinalConfiguration
  <2>2. /\ d.stage = "confirming" /\ d.final = co.final /\ d.queue = co.queue
        /\ d.paths = co.paths
    BY <1>1 DEF Coordinations
  <2>3. Plain(sent)
    <3>1. \A n \in co.members : ToSet(co.final[n]) \subseteq Fixed
      BY <1>1 DEF ApartInv, ListsOK, Fixed, Coordinations
    <3>2. QED BY <3>1 DEF Plain, MessageFixed
  <2> HIDE DEF d, sent
  <2>4. Calm(d)
    BY <1>1, <2>1, <2>2, CalmSame DEF Early
  <2>5. QED BY <1>1, <2>1, <2>3, <2>4, RejectCalm DEF CalmStep
<1>4. CASE NoBlockNumber
  <2> DEFINE d == [co EXCEPT !.stage = "ended"]
  <2>1. CoordinatorDoes({}, d, {})
    BY <1>4 DEF NoBlockNumber
  <2>2. d.stage = "ended" /\ d.final = co.final /\ d.queue = co.queue /\ d.paths = co.paths
    BY <1>1 DEF Coordinations
  <2> HIDE DEF d
  <2>3. Calm(d)
    BY <1>1, <2>2, CalmSame DEF Early
  <2>4. QED BY <2>1, <2>3, PlainMessages DEF CalmStep
<1>5. CASE NodeConfirms
  <2> DEFINE keys == {[kind |-> "keys", to |-> n] : n \in co.members}
             more(m) == co.confirmed \cup {m.from}
  <2>1. co.stage = "confirming"
    BY <1>5 DEF NodeConfirms
  <2>2. PICK m \in Mail("confirmation") :
           \/ CoordinatorDoes({m}, co, {})
           \/ Reject({m})
           \/ CoordinatorDoes({m}, [co EXCEPT !.confirmed = more(m)], {})
           \/ CoordinatorDoes({m}, [co EXCEPT !.confirmed = more(m), !.stage = "voting"], keys)
    BY <1>5, Zenon DEF NodeConfirms
  <2> DEFINE confirmed == more(m)
             d == [co EXCEPT !.confirmed = confirmed]
             e == [co EXCEPT !.confirmed = confirmed, !.stage = "voting"]
  <2>3. Plain(keys)
    BY DEF Plain, MessageFixed
  <2> HIDE DEF keys, confirmed
  <2>4. d.stage = "confirming" /\ d.final = co.final /\ d.queue = co.queue /\ d.paths = co.paths
    BY <1>1, <2>1 DEF Coordinations
  <2>5. e.stage = "voting" /\ e.final = co.final /\ e.queue = co.queue /\ e.paths = co.paths
    BY <1>1 DEF Coordinations
  <2> HIDE DEF d, e
  <2>6. Calm(co) /\ Calm(d) /\ Calm(e)
    BY <1>1, <2>1, <2>4, <2>5, CalmSame DEF Early
  <2>7. CASE CoordinatorDoes({m}, co, {}) \/ CoordinatorDoes({m}, d, {})
    BY <2>6, <2>7, PlainMessages DEF CalmStep
  <2>8. CASE CoordinatorDoes({m}, e, keys)
    BY <2>3, <2>6, <2>8 DEF CalmStep
  <2>9. CASE Reject({m})
    BY <1>1, <2>9, RejectCalm
  <2>10. QED BY <2>2, <2>7, <2>8, <2>9 DEF d, e, confirmed
<1>6. CASE AnswerTTL
  <2>1. PICK m : CoordinatorDoes({m}, co, {TTLAnswer(m.from, m.from \in co.members)})
    BY <1>6 DEF AnswerTTL
  <2>2. Calm(co)
    BY <1>1, CalmSame
  <2>3. QED BY <2>1, <2>2, PlainMessages DEF CalmStep
<1>7. QED BY <1>2, <1>3, <1>4, <1>5, <1>6

-----------------------------------------------------------------------------
(* The coordinator: steps that pass the path at hand on, or fix it *)

\* The coordinator works on a path, and takes the answer it waits for from afar.
Frees(taken) ==
    /\ Early(co) /\ co.queue # <<>>
    /\ co.stage = "remote" => \E m \in taken \cap msgs : m.kind = "extended" /\ m.path = Current

ExtendStep ==
    \E taken, c, m :
        /\ CoordinatorDoes(taken, c, {m}) /\ Frees(taken)
        /\ Calm(c) /\ c.stage = "remote" /\ c.queue = co.queue
        /\ m.kind = "extend" /\ m.path = Current /\ MessageFixed(m, Fixed)

FinishStep ==
    \E taken, c, sent :
        /\ CoordinatorDoes(taken, c, sent) /\ Frees(taken)
        /\ ListsOK(c) /\ c.stage \notin {"start", "receiver", "remote"} /\ (Early(c) => Left(c))
        /\ Fixed \subseteq FixedBy(c) /\ PathsIn(FixedBy(c)) \subseteq PathsIn(Fixed) \cup {Current}
        /\ \A m \in sent : MessageFixed(m, FixedBy(c)) /\ m.kind \notin {"extend", "extended"}

\* addFinalConfigurationOnPath adds an entry for the path, for the receiver too.
ListsWithEntry(F, answered, entry) ==
    LET times(n) == Cardinality({i \in 1..Len(answered) : answered[i] = n})
                      + (IF n = Receiver THEN 1 ELSE 0)
    IN  [n \in Nodes |-> F[n] \o [k \in 1..times(n) |-> entry]]

LEMMA ListsWith ==
    ASSUME NEW F \in [Nodes -> Configurations], NEW entry \in PathAmounts, NEW answered \in Seq(Nodes)
    PROVE  LET G == ListsWithEntry(F, answered, entry) IN
               /\ \A n \in Nodes : ToSet(G[n]) \subseteq ToSet(F[n]) \cup {entry}
               /\ ToSet(G[Receiver]) = ToSet(F[Receiver]) \cup {entry}
<1> DEFINE len == Len(answered)
           at(n) == {i \in 1..len : answered[i] = n}
           times(n) == Cardinality(at(n)) + (IF n = Receiver THEN 1 ELSE 0)
           some(n) == [k \in 1..times(n) |-> entry]
           G == [n \in Nodes |-> F[n] \o some(n)]
<1>1. ASSUME NEW n PROVE Cardinality(at(n)) \in Nat
  <2>1. len \in Nat
    OBVIOUS
  <2>2. IsFiniteSet(1..len)
    BY <2>1, FS_Interval
  <2> DEFINE S == at(n)
  <2>3. S \in SUBSET (1..len)
    OBVIOUS
  <2> HIDE DEF S
  <2>4. IsFiniteSet(S)
    BY <2>2, <2>3, FS_Subset
  <2>5. Cardinality(S) \in Nat
    BY <2>4, FS_CardinalityType
  <2>6. QED BY <2>5 DEF S
<1> HIDE DEF at
<1>2. ASSUME NEW n PROVE times(n) \in Nat /\ (n = Receiver => times(n) > 0)
  <2> DEFINE k == Cardinality(at(n))
  <2>1. k \in Nat
    BY <1>1
  <2> HIDE DEF k
  <2>2. k + (IF n = Receiver THEN 1 ELSE 0) \in Nat
        /\ (n = Receiver => k + (IF n = Receiver THEN 1 ELSE 0) > 0)
    BY <2>1
  <2>3. QED BY <2>2 DEF k
<1> HIDE DEF times
<1>3. ASSUME NEW n \in Nodes
      PROVE  /\ ToSet(G[n]) \subseteq ToSet(F[n]) \cup {entry}
             /\ n = Receiver => ToSet(G[n]) = ToSet(F[n]) \cup {entry}
  <2> DEFINE a == F[n]
             t == times(n)
             b == [k \in 1..t |-> entry]
             all == a \o b
  <2>1. t \in Nat /\ (n = Receiver => t > 0)
    BY <1>2
  <2>2. a \in Seq(PathAmounts)
    BY DEF Configurations
  <2> HIDE DEF a, t
  <2>3. b \in Seq(PathAmounts) /\ Len(b) = t /\ \A k \in 1..t : b[k] = entry
    BY <2>1
  <2> HIDE DEF b
  <2>4. /\ Len(all) = Len(a) + t /\ DOMAIN all = 1..Len(all) /\ DOMAIN a = 1..Len(a) /\ Len(a) \in Nat
        /\ \A i \in 1..Len(a) : all[i] = a[i]
        /\ \A i \in (Len(a) + 1)..Len(all) : all[i] = b[i - Len(a)]
    <3>1. /\ Len(all) = Len(a) + Len(b) /\ all \in Seq(PathAmounts)
          /\ \A i \in 1..Len(a) : all[i] = a[i]
          /\ \A i \in (Len(a) + 1)..(Len(a) + Len(b)) : all[i] = b[i - Len(a)]
      BY <2>2, <2>3
    <3>2. DOMAIN all = 1..Len(all) /\ DOMAIN a = 1..Len(a) /\ Len(a) \in Nat
      <4> HIDE DEF all
      <4>1. QED BY <2>2, <3>1
    <3>3. QED BY <2>3, <3>1, <3>2
  <2> HIDE DEF all
  <2>5. \A i \in (Len(a) + 1)..Len(all) : i - Len(a) \in 1..t
    BY <2>1, <2>4
  <2>6. \A i \in 1..Len(all) : i \in 1..Len(a) \/ all[i] = entry
    <3>1. \A i \in 1..Len(all) : i \in 1..Len(a) \/ i \in (Len(a) + 1)..Len(all)
      BY <2>1, <2>4
    <3>2. QED BY <2>3, <2>4, <2>5, <3>1
  <2>7. ToSet(all) \subseteq ToSet(a) \cup {entry}
    BY <2>4, <2>6 DEF ToSet
  <2>8. n = Receiver => ToSet(a) \cup {entry} \subseteq ToSet(all)
    <3>1. SUFFICES ASSUME n = Receiver PROVE ToSet(a) \cup {entry} \subseteq ToSet(all)
      OBVIOUS
    <3>2. Len(all) \in (Len(a) + 1)..Len(all) /\ Len(all) \in 1..Len(all)
      BY <2>1, <2>4, <3>1
    <3>3. all[Len(all)] = entry
      BY <2>3, <2>4, <2>5, <3>2
    <3>4. \A i \in 1..Len(a) : i \in 1..Len(all)
      BY <2>1, <2>4
    <3>5. QED BY <2>4, <3>2, <3>3, <3>4 DEF ToSet
  <2>9. G[n] = all
    BY DEF all, a, b, t
  <2> HIDE DEF G
  <2>10. QED BY <2>7, <2>8, <2>9 DEF a
<1>4. Receiver \in Nodes
  BY DEF Nodes
<1>5. ListsWithEntry(F, answered, entry) = G
  BY DEF ListsWithEntry, at, times
<1> HIDE DEF G
<1>6. /\ \A n \in Nodes : ToSet(G[n]) \subseteq ToSet(F[n]) \cup {entry}
      /\ ToSet(G[Receiver]) = ToSet(F[Receiver]) \cup {entry}
  BY <1>3, <1>4
<1>7. QED BY <1>5, <1>6

LEMMA FinishedFixes ==
    ASSUME ApartInv, NEW c \in Coordinations, PathsOK(c), c.queue = co.queue, c.paths = co.paths,
           c.final = co.final, c.flow \in 1..Amount, c.flow <= c.own[Current],
           c.own[Current] \in Nat,
           NEW taken, NEW sent, Frees(taken), PathFinished(c, taken, sent),
           \A m \in sent : m.kind = "pathAmount" /\ m.path = Current /\ m.amount = c.flow
    PROVE  FinishStep
<1> DEFINE entry == PathAmount(Current, c.flow)
           passed == ToSet(c.answered)
           times(n) == Cardinality({i \in 1..Len(c.answered) : c.answered[i] = n})
                         + (IF n = Receiver THEN 1 ELSE 0)
           members == c.members \cup passed
           final == [n \in Nodes |-> c.final[n] \o [k \in 1..times(n) |-> entry]]
           done == [c EXCEPT !.members = members, !.final = final]
           block == [done EXCEPT !.stage = "block"]
           d == IF OwnTotal(c) = Amount THEN block ELSE Switched(done)
           G == Fixed \cup {entry}
<1>1. CoordinatorDoes(taken, d, sent)
  BY DEF PathFinished
<1>2. /\ Early(co) /\ co.queue # <<>> /\ co \in Coordinations /\ TypeInv /\ ListsOK(co)
      /\ co.stage # "ended"
  BY DEF Frees, ApartInv, TypeInv, CoordinationOK, Early
<1>3. /\ Current \notin PathsIn(Fixed) /\ Current \in Nat /\ Current = Head(co.queue)
      /\ \A i \in 2..Len(co.queue) : co.queue[i] # Current
      /\ Current \in DOMAIN co.paths /\ co.queue \in Seq(Nat)
  BY <1>2, CurrentOpen, AtHand DEF Current, Coordinations
<1>4. entry \in PathAmounts /\ entry.path = Current /\ entry.amount = c.flow
  BY <1>3 DEF PathAmount, PathAmounts
<1>5. /\ \A n \in Nodes : ToSet(final[n]) \subseteq ToSet(co.final[n]) \cup {entry}
      /\ ToSet(final[Receiver]) = G
  <2>1. c.answered \in Seq(Nodes) /\ c.final \in [Nodes -> Configurations]
    BY DEF Coordinations
  <2> DEFINE F == c.final
             answered == c.answered
  <2>2. answered \in Seq(Nodes) /\ F \in [Nodes -> Configurations]
    BY <2>1
  <2> HIDE DEF F, answered, entry
  <2> DEFINE H == ListsWithEntry(F, answered, entry)
  <2>3. /\ \A n \in Nodes : ToSet(H[n]) \subseteq ToSet(F[n]) \cup {entry}
        /\ ToSet(H[Receiver]) = ToSet(F[Receiver]) \cup {entry}
    BY <1>4, <2>2, ListsWith
  <2>4. final = H
    BY DEF F, answered, ListsWithEntry
  <2> HIDE DEF H, final
  <2>5. /\ \A n \in Nodes : ToSet(final[n]) \subseteq ToSet(F[n]) \cup {entry}
        /\ ToSet(final[Receiver]) = ToSet(F[Receiver]) \cup {entry}
    BY <2>3, <2>4
  <2>6. QED BY <2>5 DEF F, Fixed, FixedBy
<1> HIDE DEF final, members, entry
<1>6. /\ done.final = final /\ done.queue = co.queue /\ done.paths = co.paths /\ done.own = c.own
      /\ block.stage = "block" /\ block.final = final /\ block.queue = co.queue
      /\ block.paths = co.paths
  BY DEF Coordinations
<1>7. /\ d.final = final /\ DOMAIN d.paths = DOMAIN co.paths
      /\ \/ d.stage = "block"
         \/ d.stage = "choosing" /\ d.queue = Tail(co.queue)
  <2>1. CASE OwnTotal(c) = Amount
    <3> HIDE DEF block
    <3>1. d = block
      BY <2>1
    <3> HIDE DEF d
    <3>2. QED BY <1>6, <3>1
  <2>2. CASE OwnTotal(c) # Amount
    <3>1. c.own[Current] > 0
      <4> DEFINE f == c.flow
                 o == c.own[Current]
      <4>1. f \in 1..Amount /\ o \in Nat /\ f <= o
        OBVIOUS
      <4> HIDE DEF f, o
      <4>2. o > 0
        BY <4>1, ConstantsAssumption
      <4>3. QED BY <4>2 DEF o
    <3> DEFINE id == Head(done.queue)
               stay == IF done.own[id] > 0 THEN DOMAIN done.paths ELSE DOMAIN done.paths \ {id}
               own == [x \in stay |-> done.own[x]]
               paths == [x \in stay |-> done.paths[x]]
               tail == Tail(done.queue)
    <3>2. id = Current /\ stay = DOMAIN co.paths
      BY <1>3, <1>6, <3>1
    <3>3. d = [done EXCEPT !.stage = "choosing", !.queue = tail, !.flow = 0, !.pos = 0,
                           !.answered = <<>>, !.paths = paths, !.own = own]
      BY <2>2 DEF Switched, Coordinations
    <3>4. DOMAIN paths = stay
      OBVIOUS
    <3> HIDE DEF own, paths, tail, d, stay, id
    <3>5. d.stage = "choosing" /\ d.final = done.final /\ d.queue = tail /\ d.paths = paths
      BY <3>3 DEF Coordinations
    <3>6. QED BY <1>6, <3>2, <3>4, <3>5 DEF tail
  <2>3. QED BY <2>1, <2>2
<1> HIDE DEF d, done, block
<1>8. FixedBy(d) = G /\ PathsIn(G) = PathsIn(Fixed) \cup {Current} /\ Fixed \subseteq G
  BY <1>4, <1>5, <1>7 DEF FixedBy, PathsIn
<1>9. Early(d) => /\ Left(d)
                  /\ \A i \in 1..Len(d.queue) : d.queue[i] \notin PathsIn(G)
  <2>1. SUFFICES ASSUME Early(d), NEW i \in 1..Len(d.queue)
                 PROVE  /\ d.queue[i] \notin PathsIn(G)
                        /\ \E j \in 1..Len(co.queue) : d.queue[i] = co.queue[j] /\ j > 1
    BY DEF Left
  <2>2. d.queue = Tail(co.queue)
    BY <1>7, <2>1 DEF Early
  <2> DEFINE q == co.queue
             t == Tail(q)
             j == i + 1
  <2>3. q \in Seq(Nat) /\ q # <<>>
    BY <1>2, <1>3
  <2> HIDE DEF q
  <2>4. Len(t) = Len(q) - 1 /\ Len(q) \in Nat /\ \A k \in 1..Len(t) : t[k] = q[k + 1]
    BY <2>3
  <2>5. i \in 1..Len(t) /\ t = d.queue
    BY <2>2 DEF q
  <2> HIDE DEF t
  <2>6. j \in 1..Len(q) /\ j > 1 /\ j \in 2..Len(q) /\ d.queue[i] = q[j]
    BY <2>4, <2>5
  <2> HIDE DEF j
  <2>7. q[j] # Current /\ q[j] \notin PathsIn(Fixed)
    BY <1>2, <1>3, <2>6 DEF q, ListsOK, Fixed
  <2>8. QED BY <1>8, <2>6, <2>7 DEF q
<1>10. ListsOK(d)
  <2>1. \A n \in Nodes : ToSet(d.final[n]) \subseteq G
    BY <1>2, <1>5, <1>7 DEF ListsOK, Fixed
  <2>2. \A e, f \in G : e.path = f.path => e = f
    BY <1>2, <1>3, <1>4 DEF ListsOK, Fixed, PathsIn
  <2>3. PathsIn(G) \subseteq DOMAIN d.paths
    BY <1>2, <1>3, <1>7, <1>8 DEF ListsOK, Fixed
  <2>4. QED BY <1>7, <1>8, <1>9, <2>1, <2>2, <2>3 DEF ListsOK
<1>11. \A m \in sent : MessageFixed(m, G) /\ m.kind \notin {"extend", "extended"}
  <2>1. \A m \in sent : PathAmount(m.path, m.amount) = entry
    BY DEF entry
  <2>2. QED BY <2>1 DEF MessageFixed
<1> HIDE DEF G
<1>12. d.stage \notin {"start", "receiver", "remote"}
  BY <1>7
<1>13. Early(d) => Left(d)
  BY <1>9
<1>14. QED BY <1>1, <1>8, <1>10, <1>11, <1>12, <1>13 DEF FinishStep

LEMMA NeighbourAnswersApart ==
    ASSUME ApartInv, NeighbourAnswers
    PROVE  CalmStep \/ ExtendStep
<1>1. co.stage = "neighbour" /\ TypeInv /\ Early(co)
  BY DEF NeighbourAnswers, ApartInv, Early
<1> DEFINE d(m) == [co EXCEPT !.stage = "remote", !.pos = 1, !.flow = m.amount,
                              !.own[Current] = IF m.from = Route[1] THEN m.amount ELSE @]
           next == NodeAt(Route, 2)
           e(m) == Extend(Route[1], Current, m.amount, next, co.final[next])
<1>2. PICK m \in Mail("answer") :
         \/ CoordinatorDoes({m}, co, {})
         \/ Reject({m})
         \/ CoordinatorDoes({m}, Switched([Dropped(co) EXCEPT !.news = TRUE]), {})
         \/ CoordinatorDoes({m}, d(m), {e(m)})
  BY Zenon DEF NeighbourAnswers
<1>3. co.queue # <<>> /\ co \in Coordinations /\ Route \in Seq(Intermediates)
  BY <1>1, AtWork, AtHand
<1>4. Calm(co)
  BY <1>1, CalmSame
<1>5. Calm(Switched([Dropped(co) EXCEPT !.news = TRUE]))
  BY <1>1, <1>3, CalmDrops
<1>6. CASE CoordinatorDoes({m}, d(m), {e(m)})
  <2> DEFINE c == d(m)
             x == e(m)
  <2>1. c.stage = "remote" /\ c.final = co.final /\ c.queue = co.queue /\ c.paths = co.paths
    BY <1>3 DEF Coordinations
  <2>2. next \in Nodes
    BY <1>3, RouteNodes
  <2> HIDE DEF next
  <2>3. ToSet(co.final[next]) \subseteq Fixed /\ Current \notin ListedPaths(co.final[next])
    BY <1>1, <1>3, <2>2, ConfigurationsFixed
  <2>4. x.kind = "extend" /\ x.path = Current /\ MessageFixed(x, Fixed)
    BY <2>3 DEF Extend, MessageFixed
  <2>5. CoordinatorDoes({m}, c, {x})
    BY <1>6
  <2> HIDE DEF c, x
  <2>6. Calm(c)
    BY <1>1, <2>1, CalmSame DEF Early
  <2>7. Frees({m})
    BY <1>1, <1>3 DEF Frees
  <2>8. QED BY <2>1, <2>4, <2>5, <2>6, <2>7 DEF ExtendStep
<1> HIDE DEF d, e
<1>7. CASE CoordinatorDoes({m}, co, {})
  BY <1>4, <1>7, PlainMessages DEF CalmStep
<1>8. CASE CoordinatorDoes({m}, Switched([Dropped(co) EXCEPT !.news = TRUE]), {})
  BY <1>5, <1>8, PlainMessages DEF CalmStep
<1>9. CASE Reject({m})
  BY <1>1, <1>9, RejectCalm
<1>10. QED BY <1>2, <1>6, <1>7, <1>8, <1>9

LEMMA NodeExtendedApart ==
    ASSUME ApartInv, co.stage = "remote", NEW m \in Mail("extended"), m.path = Current,
           m.state = "accepted", m.amount <= co.flow, NodeExtended(m)
    PROVE  ExtendStep \/ FinishStep
<1> DEFINE amount == m.amount
           own == [co.own EXCEPT ![Current] = IF co.pos > 1 \/ m.from = Route[1] THEN m.amount ELSE @]
           answered == Append(co.answered, m.from)
           c == [co EXCEPT !.flow = m.amount, !.answered = Append(@, m.from),
                           !.own[Current] = IF co.pos > 1 \/ m.from = Route[1] THEN m.amount ELSE @]
           next == NodeAt(Route, co.pos + 2)
           pos == co.pos + 1
           d == [c EXCEPT !.pos = pos]
           e == Extend(Route[pos], Current, m.amount, next, co.final[next])
           sent == {FinalPath(Route[i], Current, m.amount) : i \in 1..Len(Route)}
<1>1. \/ PathFinished(c, {m}, sent)
      \/ CoordinatorDoes({m}, d, {e})
  BY DEF NodeExtended
<1>2. TypeInv /\ Early(co)
  BY DEF ApartInv, Early
<1>3. co.queue # <<>> /\ co.pos \in 1..Len(Route) /\ co.flow \in 1..Amount
  BY <1>2, AtWork
<1>4. /\ co \in Coordinations /\ Route \in Seq(Intermediates) /\ Current \in Nat
      /\ Current \in DOMAIN co.paths
  BY <1>2, <1>3, AtHand
<1>5. m.amount \in 1..Amount /\ m.from \in Nodes
  BY <1>2 DEF TypeInv, MessageOK, Mail
<1>6. amount \in 1..co.flow /\ amount \in Nat
  <2> DEFINE f == co.flow
  <2>1. f \in Nat /\ amount \in 1..Amount /\ amount <= f /\ Amount \in Nat
    BY <1>3, <1>5, ConstantsAssumption
  <2> HIDE DEF f, amount
  <2>2. QED BY <2>1 DEF f
<1>7. own = [co.own EXCEPT ![Current] = amount] \/ own = co.own
  BY <1>4 DEF Coordinations, Owns
<1>8. c = [co EXCEPT !.flow = amount, !.answered = answered, !.own = own]
  BY <1>4 DEF Coordinations
<1>9. answered \in Seq(Nodes)
  <2>1. co.answered \in Seq(Nodes)
    BY <1>4 DEF Coordinations
  <2>2. QED BY <1>5, <2>1
<1>10. Frees({m})
  BY <1>2, <1>3 DEF Frees, Mail
<1>11. \A x \in sent : x.kind = "pathAmount" /\ x.path = Current /\ x.amount = amount
  BY DEF FinalPath
<1> HIDE DEF own, amount, answered, c, sent
<1>12. /\ own \in Owns /\ amount <= own[Current]
       /\ \A x : x.paths = co.paths /\ x.queue = co.queue /\ x.own = own
                 => PathsOK(x) /\ QueueOK(x, 2)
  BY <1>2, <1>6, <1>7, Shortens
<1>13. /\ c \in Coordinations /\ c.stage = "remote" /\ c.flow = amount
       /\ c.own = own /\ c.paths = co.paths /\ c.queue = co.queue /\ c.final = co.final
  BY <1>4, <1>6, <1>8, <1>9, <1>12 DEF Coordinations
<1>14. CASE PathFinished(c, {m}, sent)
  <2>1. PathsOK(c)
    BY <1>12, <1>13
  <2>2. c.own[Current] \in Nat
    BY <1>4, <1>13, <2>1, CoordinationMaps
  <2>3. c.flow \in 1..Amount /\ c.flow <= c.own[Current]
    BY <1>5, <1>12, <1>13 DEF amount
  <2>4. \A x \in sent : x.kind = "pathAmount" /\ x.path = Current /\ x.amount = c.flow
    BY <1>11, <1>13
  <2>5. QED BY <1>10, <1>13, <1>14, <2>1, <2>2, <2>3, <2>4, FinishedFixes
<1>15. CASE CoordinatorDoes({m}, d, {e})
  <2>1. d.stage = "remote" /\ d.final = co.final /\ d.queue = co.queue /\ d.paths = co.paths
    BY <1>13 DEF Coordinations
  <2>2. next \in Nodes
    <3>1. co.pos + 2 \in Nat \ {0}
      BY <1>3, <1>4
    <3>2. QED BY <1>4, <3>1, RouteNodes
  <2> HIDE DEF next, pos
  <2>3. ToSet(co.final[next]) \subseteq Fixed /\ Current \notin ListedPaths(co.final[next])
    BY <1>2, <1>3, <2>2, ConfigurationsFixed
  <2>4. e.kind = "extend" /\ e.path = Current /\ MessageFixed(e, Fixed)
    BY <2>3 DEF Extend, MessageFixed
  <2> HIDE DEF d, e
  <2>5. Calm(d)
    BY <1>2, <2>1, CalmSame DEF Early
  <2>6. QED BY <1>10, <1>15, <2>1, <2>4, <2>5 DEF ExtendStep
<1>16. QED BY <1>1, <1>14, <1>15

LEMMA RemoteAnswersApart ==
    ASSUME ApartInv, RemoteAnswers
    PROVE  CalmStep \/ ExtendStep \/ FinishStep
<1>1. co.stage = "remote" /\ TypeInv /\ Early(co)
  BY DEF RemoteAnswers, ApartInv, Early
<1> DEFINE sent == DropMessages(co.pos - 1) \cup {TTLAnswer(Receiver, TRUE)}
<1>2. PICK m \in Mail("extended") :
         \/ CoordinatorDoes({m}, co, {})
         \/ Reject({m})
         \/ NextInaccessible(m)
         \/ CoordinatorDoes({m}, Switched([Dropped(co) EXCEPT !.news = TRUE]), sent)
         \/ m.path = Current /\ m.state = "accepted" /\ m.amount <= co.flow /\ NodeExtended(m)
  BY Zenon DEF RemoteAnswers
<1>3. co.queue # <<>>
  BY <1>1, AtWork
<1>4. Calm(co) /\ Calm(Switched([Dropped(co) EXCEPT !.news = TRUE]))
  BY <1>1, <1>3, CalmSame, CalmDrops
<1>5. Plain(sent) /\ Plain({})
  BY PlainMessages
<1> HIDE DEF sent
<1>6. CASE CoordinatorDoes({m}, co, {})
  BY <1>4, <1>5, <1>6 DEF CalmStep
<1>7. CASE CoordinatorDoes({m}, Switched([Dropped(co) EXCEPT !.news = TRUE]), sent)
  BY <1>4, <1>5, <1>7 DEF CalmStep
<1>8. CASE Reject({m})
  BY <1>1, <1>8, RejectCalm
<1>9. CASE NextInaccessible(m)
  BY <1>1, <1>9, NextInaccessibleCalm
<1>10. CASE m.path = Current /\ m.state = "accepted" /\ m.amount <= co.flow /\ NodeExtended(m)
  BY <1>1, <1>10, NodeExtendedApart
<1>11. QED BY <1>2, <1>6, <1>7, <1>8, <1>9, <1>10

LEMMA DirectAnswersApart ==
    ASSUME ApartInv, DirectAnswers
    PROVE  CalmStep \/ FinishStep
<1>1. co.stage = "direct" /\ TypeInv /\ Early(co)
  BY DEF DirectAnswers, ApartInv, Early
<1> DEFINE d(m) == [co EXCEPT !.flow = m.amount,
                              !.own[Current] = IF m.from = Receiver THEN m.amount ELSE @]
<1>2. PICK m \in Mail("answer") :
         \/ CoordinatorDoes({m}, Switched([Dropped(co) EXCEPT !.news = TRUE]), {})
         \/ Reject({m})
         \/ m.state = "accepted" /\ m.amount <= co.flow /\ PathFinished(d(m), {m}, {})
  BY Zenon DEF DirectAnswers
<1>3. co.queue # <<>> /\ co.flow \in 1..Amount
  BY <1>1, AtWork
<1>4. co \in Coordinations /\ Current \in DOMAIN co.paths
  BY <1>1, <1>3, AtHand
<1>5. CASE CoordinatorDoes({m}, Switched([Dropped(co) EXCEPT !.news = TRUE]), {})
  BY <1>1, <1>3, <1>5, CalmDrops, PlainMessages DEF CalmStep
<1>6. CASE m.state = "accepted" /\ m.amount <= co.flow /\ PathFinished(d(m), {m}, {})
  <2> DEFINE amount == m.amount
             own == [co.own EXCEPT ![Current] = IF m.from = Receiver THEN m.amount ELSE @]
             c == d(m)
  <2>1. amount \in 1..Amount
    BY <1>1, <1>2, <1>6 DEF TypeInv, MessageOK, Mail
  <2>2. amount \in 1..co.flow /\ amount \in Nat
    <3> DEFINE f == co.flow
    <3>1. f \in Nat /\ amount \in 1..Amount /\ amount <= f /\ Amount \in Nat
      BY <1>3, <1>6, <2>1, ConstantsAssumption
    <3> HIDE DEF f, amount
    <3>2. QED BY <3>1 DEF f
  <2>3. own = [co.own EXCEPT ![Current] = amount] \/ own = co.own
    BY <1>4 DEF Coordinations, Owns
  <2>4. c = [co EXCEPT !.flow = amount, !.own = own]
    BY <1>4 DEF Coordinations
  <2>5. PathFinished(c, {m}, {})
    BY <1>6
  <2> HIDE DEF own, amount, c
  <2>6. /\ own \in Owns /\ amount <= own[Current]
        /\ \A x : x.paths = co.paths /\ x.queue = co.queue /\ x.own = own
                  => PathsOK(x) /\ QueueOK(x, 2)
    BY <1>1, <2>2, <2>3, Shortens
  <2>7. /\ c \in Coordinations /\ c.flow = amount /\ c.own = own /\ c.paths = co.paths
        /\ c.queue = co.queue /\ c.final = co.final
    BY <1>4, <2>2, <2>4, <2>6 DEF Coordinations
  <2>8. PathsOK(c)
    BY <2>6, <2>7
  <2>9. c.own[Current] \in Nat /\ c.flow \in 1..Amount /\ c.flow <= c.own[Current]
    BY <1>4, <2>1, <2>6, <2>7, <2>8, CoordinationMaps
  <2>10. \A x \in {} : x.kind = "pathAmount" /\ x.path = Current /\ x.amount = c.flow
    OBVIOUS
  <2>11. Frees({m})
    BY <1>1, <1>3 DEF Frees
  <2>12. QED BY <2>5, <2>7, <2>8, <2>9, <2>10, <2>11, FinishedFixes
<1>7. CASE Reject({m})
  BY <1>1, <1>7, RejectCalm
<1>8. QED BY <1>2, <1>5, <1>6, <1>7

-----------------------------------------------------------------------------
(* The coordinator: steps that find paths *)

StartStep ==
    \E c, sent : /\ co.stage = "start" /\ c.stage = "receiver"
                 /\ CoordinatorDoes({}, c, sent) /\ Plain(sent)
                 /\ ListsOK(c) /\ FixedBy(c) = Fixed

RebuildStep ==
    \E c : CoordinatorDoes({}, c, {}) /\ ListsOK(c) /\ FixedBy(c) = Fixed /\ c.rebuilt # 0

LEMMA StartApart ==
    ASSUME ApartInv, Start
    PROVE  StartStep
<1> DEFINE w == WithPaths(co, FirstPaths)
           d == [w EXCEPT !.stage = "receiver"]
           m == [kind |-> "init", to |-> Receiver]
<1>1. co.stage = "start" /\ CoordinatorDoes({}, d, {m})
  BY DEF Start
<1>2. /\ co \in Coordinations /\ PathsOK(co) /\ QueueOK(co, 1) /\ ListsOK(co)
  BY <1>1 DEF ApartInv, TypeInv, CoordinationOK
<1>3. w \in Coordinations /\ w.final = co.final
  BY <1>2, WithPathsOK, ConstantsAssumption
<1> HIDE DEF w
<1>4. d.stage = "receiver" /\ d.final = co.final
  BY <1>3 DEF Coordinations
<1>5. Plain({m})
  BY DEF Plain, MessageFixed
<1> HIDE DEF d, m
<1>6. FixedBy(d) = Fixed /\ FixedBy(d) = {}
  BY <1>1, <1>2, <1>4 DEF FixedBy, Fixed, ListsOK
<1>7. ListsOK(d)
  BY <1>2, <1>4, <1>6 DEF ListsOK, FixedBy, Fixed, PathsIn
<1>8. QED BY <1>1, <1>4, <1>5, <1>6, <1>7 DEF StartStep

\* A path that is found later gets an ID that no fixed path has.
LEMMA RebuildApart ==
    ASSUME ApartInv, RebuildPaths
    PROVE  RebuildStep
<1>1. /\ co.stage = "choosing" /\ co.queue = <<>>
      /\ \E routes \in RebuiltPaths :
            CoordinatorDoes({}, [WithPaths(co, routes) EXCEPT !.news = FALSE, !.rebuilt = @ + 1], {})
  BY DEF RebuildPaths
<1>2. PICK routes \in RebuiltPaths :
         CoordinatorDoes({}, [WithPaths(co, routes) EXCEPT !.news = FALSE, !.rebuilt = @ + 1], {})
  BY <1>1
<1>3. co \in Coordinations /\ PathsOK(co) /\ QueueOK(co, 1) /\ ListsOK(co)
  BY <1>1 DEF ApartInv, TypeInv, CoordinationOK
<1> DEFINE w == WithPaths(co, routes)
           k == w.rebuilt + 1
           d == [w EXCEPT !.news = FALSE, !.rebuilt = k]
<1>4. /\ w \in Coordinations /\ w.stage = co.stage /\ w.final = co.final
      /\ DOMAIN co.paths \subseteq DOMAIN w.paths
      /\ \A i \in 1..Len(w.queue) : w.queue[i] \notin DOMAIN co.paths
  <2>1. routes \in Seq(Seq(Intermediates))
    BY ConstantsAssumption
  <2>2. w \in Coordinations /\ w.stage = co.stage /\ w.final = co.final /\ MorePaths(co, w)
    BY <1>3, <2>1, WithPathsOK
  <2>3. \A i : i \notin 1..Len(co.queue)
    BY <1>1
  <2> HIDE DEF w
  <2>4. QED BY <2>2, <2>3 DEF MorePaths
<1> HIDE DEF w
<1>5. k \in Nat /\ k # 0
  <2>1. w.rebuilt \in Nat
    BY <1>4 DEF Coordinations
  <2>2. QED BY <2>1
<1> HIDE DEF k
<1>6. /\ d.stage = w.stage /\ d.final = w.final /\ d.queue = w.queue /\ d.paths = w.paths
      /\ d.rebuilt = k
  BY <1>4, <1>5 DEF Coordinations
<1>7. CoordinatorDoes({}, d, {})
  BY <1>2 DEF d, k, w
<1> HIDE DEF d
<1>8. FixedBy(d) = Fixed /\ FixedBy(co) = Fixed
  BY <1>4, <1>6 DEF FixedBy, Fixed
<1>9. PathsIn(Fixed) \subseteq DOMAIN co.paths
  BY <1>1, <1>3, <1>8 DEF ListsOK
<1>10. ListsOK(d)
  BY <1>1, <1>3, <1>4, <1>6, <1>8, <1>9 DEF ListsOK
<1>11. QED BY <1>5, <1>6, <1>7, <1>8, <1>10 DEF RebuildStep

\* All that the coordinator does.
LEMMA CoordinatorDoesSo ==
    ASSUME ApartInv, CoordinatorSteps \/ CoordinatorReceives \/ CoordinatorMishap
    PROVE  CalmStep \/ ExtendStep \/ FinishStep \/ StartStep \/ (RebuildPaths /\ RebuildStep)
<1>1. CASE CoordinatorSteps
  BY <1>1, StartApart, ReserveOwnCalm, RebuildApart, LateCalm DEF CoordinatorSteps
<1>2. CASE CoordinatorReceives
  BY <1>2, ReceiverHeardCalm, NeighbourAnswersApart, RemoteAnswersApart, DirectAnswersApart, LateCalm
  DEF CoordinatorReceives
<1>3. CASE CoordinatorMishap
  BY <1>3, ReceiverHeardCalm, SilentCalm, LateCalm DEF CoordinatorMishap
<1>4. QED BY <1>1, <1>2, <1>3

LEMMA CoordinatorApart ==
    ASSUME ApartInv, TypeInv', CoordinatorSteps \/ CoordinatorReceives \/ CoordinatorMishap
    PROVE  ApartInv'
<1>1. ASSUME NEW taken, NEW c, NEW sent, CoordinatorDoes(taken, c, sent), ListsOK(c),
             FixedBy(c) = Fixed, \A m \in sent : MessageFixed(m, Fixed)
      PROVE  ApartInv'
  BY <1>1, ApartCoordinator
<1>2. CASE CalmStep
  <2>1. PICK taken, c, sent : CoordinatorDoes(taken, c, sent) /\ Calm(c) /\ Plain(sent)
    BY <1>2 DEF CalmStep
  <2>2. QED BY <1>1, <2>1, CalmLists DEF Plain
<1>3. CASE ExtendStep
  <2>1. PICK taken, c, m : CoordinatorDoes(taken, c, {m}) /\ Calm(c) /\ MessageFixed(m, Fixed)
    BY <1>3 DEF ExtendStep
  <2>2. \A x \in {m} : MessageFixed(x, Fixed)
    BY <2>1
  <2>3. QED BY <1>1, <2>1, <2>2, CalmLists
<1>4. CASE FinishStep
  BY <1>4, ApartCoordinator DEF FinishStep
<1>5. CASE StartStep
  BY <1>1, <1>5 DEF StartStep, Plain
<1>6. CASE RebuildStep
  <2>1. \A x \in {} : MessageFixed(x, Fixed)
    OBVIOUS
  <2>2. QED BY <1>1, <1>6, <2>1 DEF RebuildStep
<1>7. QED BY <1>2, <1>3, <1>4, <1>5, <1>6, CoordinatorDoesSo

-----------------------------------------------------------------------------
(* Paths are kept apart *)

LEMMA InitApart == Init => ApartInv
<1> SUFFICES ASSUME Init PROVE ApartInv
  OBVIOUS
<1>1. TypeInv /\ msgs = {} /\ tx = [n \in Nodes |-> Idle]
  BY InitTypeInv DEF Init
<1>2. co.final = [n \in Nodes |-> <<>>] /\ co.queue = <<>>
  BY DEF Init
<1>3. Receiver \in Nodes /\ ToSet(<<>>) = {}
  BY DEF Nodes, ToSet
<1>4. FixedBy(co) = {} /\ \A n \in Nodes : ToSet(co.final[n]) = {}
  BY <1>2, <1>3 DEF FixedBy
<1>5. ListsOK(co)
  BY <1>2, <1>4 DEF ListsOK, PathsIn
<1>6. \A n \in Nodes : Shaped(tx[n], Fixed)
  BY <1>1, IdleShaped
<1>7. QED BY <1>1, <1>5, <1>6 DEF ApartInv

LEMMA NextApart ==
    ASSUME ApartInv, [Next]_vars, TakesOpen
    PROVE  ApartInv'
<1>1. TypeInv'
  BY NextTypeInv DEF ApartInv
<1>2. CASE UNCHANGED vars
  <2>1. co' = co /\ tx' = tx /\ msgs' = msgs
    BY <1>2 DEF vars
  <2>2. Fixed' = Fixed /\ ListsOK(co')
    BY <2>1 DEF Fixed, ApartInv
  <2>3. QED BY <1>1, <2>1, <2>2 DEF ApartInv
<1>3. CASE CoordinatorSteps \/ CoordinatorReceives \/ CoordinatorMishap
  BY <1>1, <1>3, CoordinatorApart
<1>4. CASE ReceiveInit \/ RefuseInit
  BY <1>1, <1>4, InitMessageApart
<1>5. ASSUME NEW n \in Nodes, LearnBlockNumber(n) \/ NodeReceives(n) \/ NodeTimeout(n) \/ NodeRefuses(n)
      PROVE  ApartInv'
  BY <1>1, <1>5, NodesApart
<1>6. QED BY <1>2, <1>3, <1>4, <1>5 DEF Next

LEMMA ApartInvKeepsApart == ApartInv => PathsKeptApart
BY DEF ApartInv, Shaped, Shape, Ordered, Apart, PathsKeptApart
\* A node passes a path on only while the coordinator works on it.
ExtendInTime == \A m \in Mail("extend") : m \notin msgs' => OnTime(m)

LEMMA InTimeOpen == ApartInv /\ ExtendInTime => TakesOpen
<1> SUFFICES ASSUME ApartInv, ExtendInTime, NEW m \in Mail("extend"), m \notin msgs'
             PROVE  m.path \notin PathsIn(Fixed)
  BY DEF TakesOpen
<1>1. Current = m.path /\ co.stage \in {"neighbour", "remote", "direct"}
  BY DEF ExtendInTime, OnTime
<1>2. co.queue # <<>> /\ Early(co)
  BY <1>1, AtWork DEF ApartInv, Early
<1>3. QED BY <1>1, <1>2, CurrentOpen

\* However often paths are found again: a node holds a path once in each direction, as
\* long as it takes the coordinator's request to pass a path on while the coordinator
\* still works on that path.
THEOREM PathsApartInTime == Spec /\ [][ExtendInTime]_vars => []PathsKeptApart
<1>1. Init => ApartInv
  BY InitApart
<1>2. ApartInv /\ [Next]_vars /\ [ExtendInTime]_vars => ApartInv'
  <2>1. UNCHANGED vars => TakesOpen
    BY DEF vars, TakesOpen, Mail
  <2>2. QED BY <2>1, InTimeOpen, NextApart
<1>3. ApartInv => PathsKeptApart
  BY ApartInvKeepsApart
<1>4. QED BY <1>1, <1>2, <1>3, PTL DEF Spec

-----------------------------------------------------------------------------
(* As long as no path has been found again, a path is passed on by one at a time *)

\* The request to pass path k on, the wait of the node that has passed it on, and the
\* node's answer: who has it may do the next step for the path.
TokensIn(ms, t, k) ==
    {m \in ms : m.kind \in {"extend", "extended"} /\ m.path = k}
    \cup {[kind |-> "next", node |-> n] : n \in {n \in Nodes : t[n].step = "next" /\ t[n].last = k}}

\* There is at most one, and none for a path that is fixed or still to come.
OnceIn(c, ms, t) ==
    /\ \A k : \A x, y \in TokensIn(ms, t, k) : x = y
    /\ \A k \in PathsIn(FixedBy(c)) : TokensIn(ms, t, k) = {}
    /\ c.stage \in {"start", "receiver"} => \A k : TokensIn(ms, t, k) = {}
    /\ Early(c) => \A i \in 1..Len(c.queue) :
                      i > 1 \/ c.stage # "remote" => TokensIn(ms, t, c.queue[i]) = {}

Tokens(k) == TokensIn(msgs, tx, k)
OnceInv == OnceIn(co, msgs, tx)

LEMMA OnceTakesOpen == OnceInv => TakesOpen
<1> SUFFICES ASSUME OnceInv, NEW m \in Mail("extend"), m \notin msgs'
             PROVE  m.path \notin PathsIn(Fixed)
  BY DEF TakesOpen
<1>1. m \in Tokens(m.path)
  BY DEF Tokens, TokensIn, Mail
<1>2. QED BY <1>1 DEF OnceInv, OnceIn, Tokens, Fixed

\* A path's token is handed on, or lost; none appears.
Moves == \A k : \/ TokensIn(msgs', tx', k) \subseteq Tokens(k)
                \/ Tokens(k) # {} /\ \E x : TokensIn(msgs', tx', k) \subseteq {x}

LEMMA MovesOnce ==
    ASSUME OnceInv, Moves, co' = co
    PROVE  OnceInv'
<1> DEFINE Now(k) == TokensIn(msgs', tx', k)
<1>1. OnceIn(co, msgs, tx)
  BY DEF OnceInv
<1>2. \A k : \/ Now(k) \subseteq TokensIn(msgs, tx, k)
             \/ TokensIn(msgs, tx, k) # {} /\ \E x : Now(k) \subseteq {x}
  BY DEF Moves, Tokens
<1> HIDE DEF Now
<1>3. \A k : TokensIn(msgs, tx, k) = {} => Now(k) = {}
  BY <1>2
<1>4. ASSUME NEW k, NEW x \in Now(k), NEW y \in Now(k) PROVE x = y
  <2>1. \A v, w \in TokensIn(msgs, tx, k) : v = w
    BY <1>1 DEF OnceIn
  <2>2. QED BY <1>2, <1>4, <2>1
<1>5. \A k \in PathsIn(FixedBy(co)) : Now(k) = {}
  BY <1>1, <1>3 DEF OnceIn
<1>6. co.stage \in {"start", "receiver"} => \A k : Now(k) = {}
  BY <1>1, <1>3 DEF OnceIn
<1>7. Early(co) => \A i \in 1..Len(co.queue) : i > 1 \/ co.stage # "remote" => Now(co.queue[i]) = {}
  BY <1>1, <1>3 DEF OnceIn
<1>8. OnceIn(co, msgs', tx')
  BY <1>4, <1>5, <1>6, <1>7 DEF OnceIn, Now
<1>9. QED BY <1>8 DEF OnceInv

\* A node that has no part in handing a path on.
Quiet(n, t, sent) ==
    /\ \A m \in sent : m.kind \notin {"extend", "extended"}
    /\ t.step = "next" => tx[n].step = "next" /\ t.last = tx[n].last

LEMMA QuietMoves ==
    ASSUME TypeInv, NEW n \in Nodes, NEW taken, NEW t, NEW sent, NodeDoes(n, taken, t, sent),
           Quiet(n, t, sent)
    PROVE  Moves /\ co' = co
<1>1. tx' = [tx EXCEPT ![n] = t] /\ msgs' = (msgs \ taken) \cup sent /\ co' = co
  BY DEF NodeDoes
<1>2. tx'[n] = t /\ \A x \in Nodes : x # n => tx'[x] = tx[x]
  BY <1>1 DEF TypeInv
<1>3. ASSUME NEW k, NEW x \in TokensIn(msgs', tx', k) PROVE x \in Tokens(k)
  BY <1>1, <1>2 DEF Quiet, TokensIn, Tokens
<1>4. QED BY <1>1, <1>3 DEF Moves

\* A node that hands path p on: it had x, and then there is only y.
LEMMA PassingMoves ==
    ASSUME TypeInv, OnceInv, NEW n \in Nodes, NEW taken, NEW t, NEW sent,
           NodeDoes(n, taken, t, sent), NEW p, NEW x \in Tokens(p), NEW y,
           \A m \in sent : m.kind \in {"extend", "extended"} => m = y /\ m.path = p,
           t.step = "next" => t.last = p /\ y = [kind |-> "next", node |-> n],
           \/ x \in taken /\ x \in msgs /\ x.kind \in {"extend", "extended"}
           \/ x = [kind |-> "next", node |-> n] /\ t.step # "next"
    PROVE  Moves /\ co' = co
<1>1. tx' = [tx EXCEPT ![n] = t] /\ msgs' = (msgs \ taken) \cup sent /\ co' = co
  BY DEF NodeDoes
<1>2. tx'[n] = t /\ \A z \in Nodes : z # n => tx'[z] = tx[z]
  BY <1>1 DEF TypeInv
<1>3. ASSUME NEW k, k # p, NEW z \in TokensIn(msgs', tx', k) PROVE z \in Tokens(k)
  BY <1>1, <1>2, <1>3 DEF TokensIn, Tokens
<1>4. ASSUME NEW z \in TokensIn(msgs', tx', p), z # y PROVE z \in Tokens(p) /\ z # x
  BY <1>1, <1>2, <1>4 DEF TokensIn, Tokens
<1>5. \A z \in Tokens(p) : z = x
  BY DEF OnceInv, OnceIn, Tokens
<1>6. TokensIn(msgs', tx', p) \subseteq {y}
  BY <1>4, <1>5
<1>7. QED BY <1>1, <1>3, <1>6 DEF Moves
\* What most steps do: the node passes nothing on afterwards, or goes on as it did.
LEMMA Silence ==
    ASSUME TypeInv, NEW n \in Nodes, NEW taken, NEW t, NEW sent, NodeDoes(n, taken, t, sent),
           t.step # "next" \/ (t.step = tx[n].step /\ t.last = tx[n].last),
           \A m \in sent : m.kind \notin {"extend", "extended"}
    PROVE  Moves /\ co' = co
BY QuietMoves DEF Quiet

LEMMA NotPassing ==
    /\ Idle.step # "next" /\ Idle.step = "none"
    /\ \A t \in TxRecords : Prolonged(t).step # "next"
<1>1. Idle.step = "none"
  BY DEF Idle
<1>2. ASSUME NEW t \in TxRecords PROVE [t EXCEPT !.step = "reserving", !.await = AfterPath].step # "next"
  BY DEF TxRecords
<1>3. QED BY <1>1, <1>2 DEF Prolonged

LEMMA RequestRefusedMoves ==
    ASSUME TypeInv, NEW n \in Nodes, NEW m, NEW t \in TxRecords, NEW state,
           t.role = "receiver" => t.step # "next", RequestRefused(n, m, t, state)
    PROVE  Moves /\ co' = co
<1> DEFINE u == [t EXCEPT !.await = ReceiverWaiting]
           a == Answer(n, m.from, m.path, state, 0)
<1>1. NodeDoes(n, {m}, IF t.role = "receiver" THEN u ELSE Prolonged(t), {a})
  BY DEF RequestRefused
<1>2. u.step = t.step
  BY DEF TxRecords
<1>3. \A x \in {a} : x.kind \notin {"extend", "extended"}
  BY DEF Answer
<1> HIDE DEF u, a
<1>4. (IF t.role = "receiver" THEN u ELSE Prolonged(t)).step # "next"
  BY <1>2, NotPassing
<1>5. QED BY <1>1, <1>3, <1>4, Silence

LEMMA ReserveIncomingMoves ==
    ASSUME TypeInv, NEW n \in Nodes, NEW m, NEW t \in TxRecords, NEW grant,
           t.role \in {"intermediate", "receiver"}, t.role = "receiver" => t.step # "next",
           Reservation(m.path, m.from, "in", grant) \in Reservations,
           ReserveIncoming(n, m, t, grant)
    PROVE  Moves /\ co' = co
<1> DEFINE e == Reservation(m.path, m.from, "in", grant)
           res == Append(t.res, e)
           more == [t EXCEPT !.res = Append(@, Reservation(m.path, m.from, "in", grant))]
           a == Answer(n, m.from, m.path, "accepted", grant)
           kept == [more EXCEPT !.last = m.path, !.step = "reserving", !.await = AfterReserving]
           all == [more EXCEPT !.step = "confirming", !.asked = FALSE, !.await = Confirming(n)]
           some == [more EXCEPT !.await = ReceiverWaiting]
           over == [more EXCEPT !.rejecting = TRUE]
<1>1. \/ NodeDoes(n, {m}, kept, {a})
      \/ t.role = "receiver" /\ RequestRefused(n, m, over, "closed")
      \/ t.role = "receiver" /\ NodeDoes(n, {m}, all, {a})
      \/ t.role = "receiver" /\ NodeDoes(n, {m}, some, {a})
  BY Zenon DEF ReserveIncoming
<1>2. t.res \in Seq(Reservations)
  BY DEF TxRecords
<1>3. res \in Seq(Reservations) /\ more = [t EXCEPT !.res = res]
  BY <1>2 DEF TxRecords
<1> HIDE DEF res, more, e
<1>4. more \in TxRecords /\ more.role = t.role /\ more.step = t.step
  BY <1>3 DEF TxRecords
<1>5. /\ kept.step = "reserving" /\ all.step = "confirming" /\ some.step = t.step
      /\ over.step = t.step /\ over.role = t.role /\ over \in TxRecords
  BY <1>4 DEF TxRecords
<1>6. \A x \in {a} : x.kind \notin {"extend", "extended"}
  BY DEF Answer
<1> HIDE DEF kept, all, some, over, a
<1>7. ASSUME NEW u, u.step # "next", NodeDoes(n, {m}, u, {a}) PROVE Moves /\ co' = co
  BY <1>6, <1>7, Silence
<1>8. CASE t.role = "receiver" /\ RequestRefused(n, m, over, "closed")
  BY <1>5, <1>8, RequestRefusedMoves
<1>9. QED BY <1>1, <1>5, <1>7, <1>8

LEMMA RequestMoves ==
    ASSUME TypeInv, NEW n \in Nodes, ReceiveRequest(n) \/ RefuseRequest(n)
    PROVE  Moves /\ co' = co
<1> DEFINE t == Serving(n)
           updated(m) == [t EXCEPT !.res = Updated(@, m.final)]
           rejecting(m) == [updated(m) EXCEPT !.rejecting = IsReceiver(n)]
<1>1. PICK m \in RequestsOf(n) :
         \/ NodeDoes(n, {m}, Idle, {})
         \/ RequestRefused(n, m, rejecting(m), "closed")
         \/ \E grant \in 1..m.amount : ReserveIncoming(n, m, updated(m), grant)
         \/ RequestRefused(n, m, t, "rejected")
         \/ RequestRefused(n, m, updated(m), "rejected")
  BY Zenon DEF ReceiveRequest, RefuseRequest
<1>2. m.final \in Configurations /\ m.from \in Peers /\ m.path \in Nat /\ m.amount \in 1..Amount
  BY Heard DEF MessageOK
<1>3. /\ t \in TxRecords /\ t.role \in {"intermediate", "receiver"}
      /\ t.role = "receiver" => t.step # "next"
  BY ServingType
<1> DEFINE u == updated(m)
           r == [u EXCEPT !.rejecting = IsReceiver(n)]
           res == Updated(t.res, m.final)
<1> HIDE DEF t
<1>4. res \in Seq(Reservations)
  BY <1>2, <1>3, UpdatedType DEF TxRecords, Configurations
<1>5. u = [t EXCEPT !.res = res]
  BY <1>3 DEF TxRecords
<1> HIDE DEF res, u
<1>6. u \in TxRecords /\ u.role = t.role /\ u.step = t.step
  BY <1>3, <1>4, <1>5 DEF TxRecords
<1>7. r \in TxRecords /\ r.role = t.role /\ r.step = t.step
  BY <1>6 DEF TxRecords, IsReceiver
<1>8. \/ NodeDoes(n, {m}, Idle, {})
      \/ RequestRefused(n, m, r, "closed")
      \/ \E grant \in 1..m.amount : ReserveIncoming(n, m, u, grant)
      \/ RequestRefused(n, m, t, "rejected")
      \/ RequestRefused(n, m, u, "rejected")
  BY <1>1 DEF u
<1> HIDE DEF r
<1>9. CASE NodeDoes(n, {m}, Idle, {})
  <2>1. \A x \in {} : x.kind \notin {"extend", "extended"}
    OBVIOUS
  <2>2. QED BY <1>9, <2>1, NotPassing, Silence
<1>10. ASSUME NEW v \in {r, t, u}, NEW state, RequestRefused(n, m, v, state) PROVE Moves /\ co' = co
  BY <1>3, <1>6, <1>7, <1>10, RequestRefusedMoves
<1>11. CASE \E grant \in 1..m.amount : ReserveIncoming(n, m, u, grant)
  <2>1. PICK grant \in 1..m.amount : ReserveIncoming(n, m, u, grant)
    BY <1>11
  <2>2. grant \in 1..Amount
    BY <1>2, ConstantsAssumption
  <2>3. Reservation(m.path, m.from, "in", grant) \in Reservations
    BY <1>2, <2>2 DEF Reservation, Reservations
  <2>4. QED BY <1>3, <1>6, <2>1, <2>3, ReserveIncomingMoves
<1>12. QED BY <1>8, <1>9, <1>10, <1>11
LEMMA InitMessageMoves ==
    ASSUME TypeInv, ReceiveInit \/ RefuseInit
    PROVE  Moves /\ co' = co
<1> DEFINE t == [Idle EXCEPT !.role = "receiver", !.step = "reserving", !.knows = TRUE,
                             !.await = ReceiverWaiting]
           says(b) == [kind |-> "initAnswer", ok |-> b]
<1>1. PICK m : \/ NodeDoes(Receiver, {m}, t, {says(TRUE)})
               \/ NodeDoes(Receiver, {m}, tx[Receiver], {says(FALSE)})
  BY DEF ReceiveInit, RefuseInit
<1>2. Receiver \in Nodes
  BY DEF Nodes
<1>3. t.step = "reserving"
  BY DEF Idle
<1>4. \A b : \A x \in {says(b)} : x.kind \notin {"extend", "extended"}
  OBVIOUS
<1> HIDE DEF t, says
<1>5. QED BY <1>1, <1>2, <1>3, <1>4, Silence

\* The node that has the token for the path at hand refuses the path.
LEMMA PathRefusedMoves ==
    ASSUME TypeInv, OnceInv, NEW n \in Nodes, NEW taken, NEW t \in TxRecords, NEW state,
           PathRefused(n, taken, t, state), NEW x \in Tokens(t.last),
           \/ x \in taken /\ x \in msgs /\ x.kind \in {"extend", "extended"}
           \/ x = [kind |-> "next", node |-> n]
    PROVE  Moves /\ co' = co
<1> DEFINE res == WithoutPath(t.res, t.last)
           u == [t EXCEPT !.res = WithoutPath(@, t.last)]
           a == Extended(n, t.last, state, 0)
<1>1. NodeDoes(n, taken, Prolonged(u), {a})
  BY DEF PathRefused
<1>2. res \in Seq(Reservations)
  BY WithoutPathType DEF TxRecords
<1>3. u = [t EXCEPT !.res = res]
  BY DEF TxRecords
<1> HIDE DEF res, u
<1>4. u \in TxRecords
  BY <1>2, <1>3 DEF TxRecords
<1>5. Prolonged(u).step # "next"
  BY <1>4, NotPassing
<1>6. \A m \in {a} : m = a /\ m.path = t.last
  BY DEF Extended
<1> HIDE DEF a
<1>7. QED BY <1>1, <1>5, <1>6, PassingMoves

LEMMA ExtendMoves ==
    ASSUME TypeInv, OnceInv, NEW n \in Nodes, ReceiveExtend(n) \/ RefuseExtend(n)
    PROVE  Moves /\ co' = co
<1> DEFINE t(m, grant) == [tx[n] EXCEPT !.knows = TRUE, !.last = m.path, !.step = "next",
                                        !.await = AfterExtending,
                                        !.res = Append(@, Reservation(m.path, m.next, "out", grant))]
           u(m) == [tx[n] EXCEPT !.knows = TRUE, !.last = m.path]
           r(m, grant) == Request(n, m.next, m.path, grant, m.final)
           y == [kind |-> "next", node |-> n]
<1>1. PICK m \in MailOf(n, "extend") :
         \/ \E grant \in 1..m.amount : NodeDoes(n, {m}, t(m, grant), {r(m, grant)})
         \/ PathRefused(n, {m}, u(m), "rejected")
  BY DEF ReceiveExtend, RefuseExtend
<1>2. tx[n] \in TxRecords /\ m.path \in Nat /\ m \in msgs /\ m.kind = "extend"
  BY Heard DEF MessageOK, MailOf, Mail
<1>3. m \in Tokens(m.path)
  BY <1>2 DEF Tokens, TokensIn
<1>4. CASE PathRefused(n, {m}, u(m), "rejected")
  <2> DEFINE v == u(m)
  <2>1. v \in TxRecords /\ v.last = m.path
    BY <1>2 DEF TxRecords
  <2> HIDE DEF v
  <2>2. PathRefused(n, {m}, v, "rejected")
    BY <1>4 DEF v
  <2>3. QED BY <1>2, <1>3, <2>1, <2>2, PathRefusedMoves
<1>5. ASSUME NEW grant \in 1..m.amount, NodeDoes(n, {m}, t(m, grant), {r(m, grant)})
      PROVE  Moves /\ co' = co
  <2> DEFINE res == Append(tx[n].res, Reservation(m.path, m.next, "out", grant))
             v == t(m, grant)
             q == r(m, grant)
  <2>1. v = [tx[n] EXCEPT !.knows = TRUE, !.last = m.path, !.step = "next",
                          !.await = AfterExtending, !.res = res]
    BY <1>2 DEF TxRecords
  <2> HIDE DEF res, v
  <2>2. v.last = m.path
    BY <1>2, <2>1 DEF TxRecords
  <2>3. \A x \in {q} : x.kind \notin {"extend", "extended"}
    BY DEF Request
  <2> HIDE DEF q
  <2>4. NodeDoes(n, {m}, v, {q})
    BY <1>5 DEF v, q
  <2>5. v.step = "next" => v.last = m.path /\ y = [kind |-> "next", node |-> n]
    BY <2>2
  <2> HIDE DEF y
  <2>6. QED BY <1>2, <1>3, <2>3, <2>4, <2>5, PassingMoves
<1>6. QED BY <1>1, <1>4, <1>5

LEMMA AnswerMoves ==
    ASSUME TypeInv, OnceInv, NEW n \in Nodes, ReceiveAnswer(n) \/ NextNodeSilent(n)
    PROVE  Moves /\ co' = co
<1> DEFINE t == tx[n]
           u(m) == [t EXCEPT !.res = Shortened(@, t.last, m.amount), !.step = "reserving",
                             !.await = Holding]
           a(m) == Extended(n, t.last, "accepted", m.amount)
           x == [kind |-> "next", node |-> n]
<1>1. t.step = "next"
  BY DEF ReceiveAnswer, NextNodeSilent
<1>2. \/ PathRefused(n, {}, t, "inaccessible")
      \/ \E m \in MailOf(n, "answer") :
            \/ NodeDoes(n, {m}, t, {})
            \/ PathRefused(n, {m}, t, m.state)
            \/ NodeDoes(n, {m}, Idle, {})
            \/ NodeDoes(n, {m}, u(m), {a(m)})
  BY Zenon DEF ReceiveAnswer, NextNodeSilent
<1>3. t \in TxRecords
  BY Heard
<1>4. x \in Tokens(t.last)
  BY <1>1 DEF Tokens, TokensIn
<1>5. \A m \in {} : m.kind \notin {"extend", "extended"}
  OBVIOUS
<1>6. ASSUME NEW taken, NEW state, PathRefused(n, taken, t, state) PROVE Moves /\ co' = co
  BY <1>3, <1>4, <1>6, PathRefusedMoves
<1>7. ASSUME NEW taken, NodeDoes(n, taken, t, {}) \/ NodeDoes(n, taken, Idle, {})
      PROVE  Moves /\ co' = co
  BY <1>5, <1>7, NotPassing, Silence
<1>8. ASSUME NEW m, NodeDoes(n, {m}, u(m), {a(m)}) PROVE Moves /\ co' = co
  <2> DEFINE res == Shortened(t.res, t.last, m.amount)
             v == u(m)
             b == a(m)
  <2>1. v = [t EXCEPT !.res = res, !.step = "reserving", !.await = Holding]
    BY <1>3 DEF TxRecords
  <2> HIDE DEF res, v, t
  <2>2. v.step = "reserving"
    BY <1>3, <2>1 DEF TxRecords
  <2>3. \A y \in {b} : y = b /\ y.path = t.last
    BY DEF Extended
  <2> HIDE DEF b
  <2>4. NodeDoes(n, {m}, v, {b})
    BY <1>8 DEF v, b
  <2>5. QED BY <1>4, <2>2, <2>3, <2>4, PassingMoves
<1>9. QED BY <1>2, <1>6, <1>7, <1>8

LEMMA FinalPathMoves ==
    ASSUME TypeInv, NEW n \in Nodes, ReceiveFinalPath(n)
    PROVE  Moves /\ co' = co
<1> DEFINE t == tx[n]
           none(m) == [t EXCEPT !.res = WithoutPath(@, m.path)]
           less(m) == [t EXCEPT !.res = Shortened(@, m.path, m.amount), !.step = "reserving",
                                !.await = AfterPath]
<1>1. PICK m \in MailOf(n, "pathAmount") :
         \/ NodeDoes(n, {m}, Idle, {})
         \/ NodeDoes(n, {m}, Prolonged(none(m)), {})
         \/ NodeDoes(n, {m}, less(m), {})
  BY Zenon DEF ReceiveFinalPath
<1>2. t \in TxRecords
  BY Heard
<1> HIDE DEF t
<1>3. Prolonged(none(m)).step # "next"
  <2> DEFINE res == WithoutPath(t.res, m.path)
             v == none(m)
  <2>1. res \in Seq(Reservations)
    BY <1>2, WithoutPathType DEF TxRecords
  <2>2. v = [t EXCEPT !.res = res]
    BY <1>2 DEF TxRecords
  <2> HIDE DEF res, v
  <2>3. v \in TxRecords
    BY <1>2, <2>1, <2>2 DEF TxRecords
  <2>4. Prolonged(v).step # "next"
    BY <2>3, NotPassing
  <2>5. QED BY <2>4 DEF v
<1>4. less(m).step = "reserving"
  <2> DEFINE res == Shortened(t.res, m.path, m.amount)
             v == less(m)
  <2>1. v = [t EXCEPT !.res = res, !.step = "reserving", !.await = AfterPath]
    BY <1>2 DEF TxRecords
  <2> HIDE DEF res, v
  <2>2. v.step = "reserving"
    BY <1>2, <2>1 DEF TxRecords
  <2>3. QED BY <2>2 DEF v
<1>5. \A x \in {} : x.kind \notin {"extend", "extended"}
  OBVIOUS
<1> HIDE DEF none, less
<1>6. QED BY <1>1, <1>3, <1>4, <1>5, NotPassing, Silence

LEMMA TimerFiresMoves ==
    ASSUME TypeInv, NEW n \in Nodes, TimerFires(n)
    PROVE  Moves /\ co' = co
<1> DEFINE t == tx[n]
           await == CASE t.step = "accepted"   -> {"keys", "ttlAnswer"}
                      [] t.step = "confirming" -> Confirming(n)
                      [] t.step = "reserving" /\ IsReceiver(n)  -> ReceiverWaiting
                      [] t.step = "reserving" /\ ~IsReceiver(n) -> Holding
           u == [t EXCEPT !.asked = TRUE, !.await = await]
           q == [kind |-> "ttlRequest", from |-> n]
<1>1. NodeDoes(n, {}, Idle, {}) \/ NodeDoes(n, {}, u, {q})
  BY Zenon DEF TimerFires, AskTTL
<1>2. t \in TxRecords
  BY Heard
<1> HIDE DEF await
<1>3. u.step = t.step /\ u.last = t.last
  BY <1>2 DEF TxRecords
<1>4. /\ \A x \in {} : x.kind \notin {"extend", "extended"}
      /\ \A x \in {q} : x.kind \notin {"extend", "extended"}
  OBVIOUS
<1> HIDE DEF u, q
<1>5. QED BY <1>1, <1>3, <1>4, NotPassing, Silence

LEMMA TTLAnswerMoves ==
    ASSUME TypeInv, NEW n \in Nodes, ReceiveTTLAnswer(n) \/ DurationOver(n)
    PROVE  Moves /\ co' = co
<1> DEFINE t == tx[n]
           await == CASE t.step = "accepted"   -> {"keys", "ttlAnswer"}
                      [] t.step = "block"      -> {"hash", "ttlAnswer"}
                      [] t.step = "confirming" -> Confirming(n)
                      [] t.step = "reserving" /\ IsReceiver(n)  -> ReceiverWaiting
                      [] t.step \in {"reserving", "next"} /\ ~IsReceiver(n) -> Holding
           u == [t EXCEPT !.await = await]
           c == Confirmation(n, FALSE)
<1>1. PICK m \in MailOf(n, "ttlAnswer") :
         NodeDoes(n, {m}, Idle, {c}) \/ NodeDoes(n, {m}, Idle, {}) \/ NodeDoes(n, {m}, u, {})
  BY Zenon DEF ReceiveTTLAnswer, DurationOver
<1>2. t \in TxRecords
  BY Heard
<1> HIDE DEF await
<1>3. u.step = t.step /\ u.last = t.last
  BY <1>2 DEF TxRecords
<1>4. /\ \A x \in {} : x.kind \notin {"extend", "extended"}
      /\ \A x \in {c} : x.kind \notin {"extend", "extended"}
  BY DEF Confirmation
<1> HIDE DEF u, c
<1>5. QED BY <1>1, <1>3, <1>4, NotPassing, Silence
LEMMA RefuseMoves ==
    ASSUME TypeInv, NEW n \in Nodes, NEW m, Refuse(n, m)
    PROVE  Moves /\ co' = co
<1> DEFINE sent == IF tx[n].knows THEN {Confirmation(n, FALSE)} ELSE {}
<1>1. NodeDoes(n, {m}, Idle, sent)
  BY DEF Refuse
<1>2. \A x \in sent : x.kind \notin {"extend", "extended"}
  BY DEF Confirmation
<1> HIDE DEF sent
<1>3. QED BY <1>1, <1>2, NotPassing, Silence

LEMMA ReceiveFinalMoves ==
    ASSUME TypeInv, NEW n \in Nodes, ReceiveFinal(n)
    PROVE  Moves /\ co' = co
<1> DEFINE t == tx[n]
           updated(m) == [t EXCEPT !.res = Updated(@, m.list), !.members = m.members,
                                   !.receipts[Coordinator] = m.receipt, !.step = "block",
                                   !.await = {"hash", "ttlAnswer"},
                                   !.asked = IF t.step = "confirming" THEN @ ELSE FALSE]
<1>1. PICK m \in MailOf(n, "final") :
         NodeDoes(n, {m}, Idle, {}) \/ Refuse(n, m) \/ NodeDoes(n, {m}, updated(m), {})
  BY Zenon DEF ReceiveFinal
<1>2. t \in TxRecords
  BY Heard
<1> HIDE DEF t
<1> DEFINE res == Updated(t.res, m.list)
           receipts == [t.receipts EXCEPT ![Coordinator] = m.receipt]
           asked == IF t.step = "confirming" THEN t.asked ELSE FALSE
           v == updated(m)
<1>3. v = [t EXCEPT !.res = res, !.members = m.members, !.receipts = receipts,
                    !.step = "block", !.await = {"hash", "ttlAnswer"}, !.asked = asked]
  BY <1>2 DEF TxRecords
<1> HIDE DEF res, receipts, asked, v
<1>4. v.step = "block"
  BY <1>2, <1>3 DEF TxRecords
<1>5. NodeDoes(n, {m}, Idle, {}) \/ Refuse(n, m) \/ NodeDoes(n, {m}, v, {})
  BY <1>1 DEF v
<1>6. \A x \in {} : x.kind \notin {"extend", "extended"}
  OBVIOUS
<1>7. QED BY <1>4, <1>5, <1>6, NotPassing, RefuseMoves, Silence

LEMMA ConfirmMoves ==
    ASSUME TypeInv, NEW n \in Nodes, NEW taken, NEW t \in TxRecords, NEW sent,
           Confirm(n, taken, t, sent), Confirms(sent)
    PROVE  Moves /\ co' = co
<1> DEFINE u == [t EXCEPT !.step = "accepted", !.asked = FALSE, !.await = {"keys", "ttlAnswer"}]
<1>1. \/ NodeDoes(n, taken, u, sent \cup {Confirmation(n, TRUE)})
      \/ NodeDoes(n, taken, Idle, sent \cup {Confirmation(n, FALSE)})
  BY DEF Confirm
<1>2. u.step = "accepted"
  BY DEF TxRecords
<1>3. \A b : \A x \in sent \cup {Confirmation(n, b)} : x.kind \notin {"extend", "extended"}
  BY DEF Confirms, Confirmation
<1> HIDE DEF u
<1>4. QED BY <1>1, <1>2, <1>3, NotPassing, Silence

LEMMA LearnBlockNumberMoves ==
    ASSUME TypeInv, NEW n \in Nodes, LearnBlockNumber(n) \/ BlockNumberWrong(n)
    PROVE  Moves /\ co' = co
<1> DEFINE t == [tx[n] EXCEPT !.hashes = @ \cup {n}]
           hash(p) == [kind |-> "hash", from |-> n, to |-> p,
                       receipt |-> IF IsReceiver(n) THEN 0 ELSE ReceiptFor(t, p)]
           sent == {hash(p) : p \in t.members \ {n}}
           u == [t EXCEPT !.step = "confirming", !.await = {"hash", "ttlAnswer"}]
           no == {Confirmation(n, FALSE)}
<1>1. Confirm(n, {}, t, sent) \/ NodeDoes(n, {}, u, sent) \/ NodeDoes(n, {}, Idle, no)
  BY Zenon DEF LearnBlockNumber, BlockNumberWrong
<1>2. tx[n] \in TxRecords
  BY Heard
<1>3. t \in TxRecords
  BY <1>2 DEF TxRecords
<1> HIDE DEF t
<1>4. u.step = "confirming"
  BY <1>3 DEF TxRecords
<1>5. Confirms(sent) /\ Confirms(no)
  BY DEF Confirms, Confirmation
<1> HIDE DEF sent, u, no
<1>6. /\ \A x \in sent : x.kind \notin {"extend", "extended"}
      /\ \A x \in no : x.kind \notin {"extend", "extended"}
  BY <1>5 DEF Confirms
<1>7. QED BY <1>1, <1>3, <1>4, <1>5, <1>6, NotPassing, ConfirmMoves, Silence

LEMMA ReceiveHashMoves ==
    ASSUME TypeInv, NEW n \in Nodes, ReceiveHash(n)
    PROVE  Moves /\ co' = co
<1> DEFINE t(m) == [tx[n] EXCEPT !.hashes = @ \cup {m.from}, !.receipts[m.from] = m.receipt,
                                 !.step = IF @ = "block" THEN @ ELSE "confirming"]
<1>1. PICK m \in MailOf(n, "hash") :
         \/ Refuse(n, m)
         \/ \E await \in {{"final", "hash", "ttlAnswer"}, {"hash"}, {"hash", "ttlAnswer"}} :
               NodeDoes(n, {m}, [t(m) EXCEPT !.await = await], {})
         \/ Confirm(n, {m}, t(m), {})
  BY Zenon DEF ReceiveHash
<1>2. m.from \in Nodes /\ m.receipt \in Nat /\ tx[n] \in TxRecords
  BY Heard DEF MessageOK
<1> DEFINE u == t(m)
           hashes == tx[n].hashes \cup {m.from}
           receipts == [tx[n].receipts EXCEPT ![m.from] = m.receipt]
           step == IF tx[n].step = "block" THEN "block" ELSE "confirming"
<1>3. /\ hashes \in SUBSET Nodes /\ receipts \in [Peers -> Nat]
      /\ u = [tx[n] EXCEPT !.hashes = hashes, !.receipts = receipts, !.step = step]
  BY <1>2 DEF TxRecords
<1> HIDE DEF u, hashes, receipts
<1>4. u \in TxRecords /\ u.step # "next"
  BY <1>2, <1>3 DEF TxRecords, NodeSteps
<1>5. \/ Refuse(n, m)
      \/ \E await : NodeDoes(n, {m}, [u EXCEPT !.await = await], {})
      \/ Confirm(n, {m}, u, {})
  BY <1>1 DEF u
<1>6. Confirms({}) /\ \A x \in {} : x.kind \notin {"extend", "extended"}
  BY DEF Confirms
<1>7. ASSUME NEW await, NodeDoes(n, {m}, [u EXCEPT !.await = await], {}) PROVE Moves /\ co' = co
  <2> DEFINE v == [u EXCEPT !.await = await]
  <2>1. v.step # "next"
    BY <1>4 DEF TxRecords
  <2> HIDE DEF v
  <2>2. NodeDoes(n, {m}, v, {})
    BY <1>7 DEF v
  <2>3. QED BY <1>6, <2>1, <2>2, Silence
<1>8. QED BY <1>4, <1>5, <1>6, <1>7, RefuseMoves, ConfirmMoves

LEMMA ReceiveKeysMoves ==
    ASSUME TypeInv, NEW n \in Nodes, ReceiveKeys(n)
    PROVE  Moves /\ co' = co
<1> DEFINE t == [tx[n] EXCEPT !.step = "voting", !.await = {},
                              !.res = IF tx[n].rejecting THEN <<>> ELSE @]
<1>1. PICK m : NodeDoes(n, {m}, t, {})
  BY DEF ReceiveKeys
<1>2. tx[n] \in TxRecords
  BY Heard
<1>3. t.step = "voting"
  BY <1>2 DEF TxRecords
<1> HIDE DEF t
<1>4. \A x \in {} : x.kind \notin {"extend", "extended"}
  OBVIOUS
<1>5. QED BY <1>1, <1>3, <1>4, Silence

LEMMA NodesMove ==
    ASSUME TypeInv, OnceInv, NEW n \in Nodes,
           LearnBlockNumber(n) \/ NodeReceives(n) \/ NodeTimeout(n) \/ NodeRefuses(n)
    PROVE  Moves /\ co' = co
BY RequestMoves, ExtendMoves, AnswerMoves, FinalPathMoves, TTLAnswerMoves, ReceiveFinalMoves,
   ReceiveHashMoves, ReceiveKeysMoves, TimerFiresMoves, LearnBlockNumberMoves
DEF NodeReceives, NodeTimeout, NodeRefuses

\* What the coordinator takes and says hands nothing on.
LEMMA TokensLeft ==
    ASSUME NEW taken, NEW c, NEW sent, CoordinatorDoes(taken, c, sent),
           \A m \in sent : m.kind \notin {"extend", "extended"}
    PROVE  \A k : TokensIn(msgs', tx', k) \subseteq Tokens(k)
<1>1. msgs' = (msgs \ taken) \cup sent /\ tx' = tx
  BY DEF CoordinatorDoes
<1>2. ASSUME NEW k, NEW x \in TokensIn(msgs', tx', k) PROVE x \in Tokens(k)
  BY <1>1, <1>2 DEF TokensIn, Tokens
<1>3. QED BY <1>2

\* When the coordinator goes on from the path at hand, nobody passes that path on.
LEMMA NoneLeft ==
    ASSUME ApartInv, OnceInv, NEW taken, NEW c, NEW sent, CoordinatorDoes(taken, c, sent), Frees(taken)
    PROVE  /\ \A x \in TokensIn(msgs', tx', Current) : x \in sent /\ x.kind \in {"extend", "extended"}
           /\ \A k : k # Current /\ (\A m \in sent : m.kind \in {"extend", "extended"} => m.path = Current)
                     => TokensIn(msgs', tx', k) \subseteq Tokens(k)
<1>1. msgs' = (msgs \ taken) \cup sent /\ tx' = tx /\ Early(co) /\ co.queue # <<>>
  BY DEF CoordinatorDoes, Frees
<1> DEFINE cur == Current
<1>2. cur = co.queue[1] /\ 1 \in 1..Len(co.queue)
  BY <1>1, CurrentOpen
<1>3. \A x \in Tokens(cur) : x \in taken /\ x.kind = "extended"
  <2>1. CASE co.stage = "remote"
    <3>1. PICK m \in taken \cap msgs : m.kind = "extended" /\ m.path = cur
      BY <2>1 DEF Frees
    <3> HIDE DEF cur
    <3>2. m \in Tokens(cur)
      BY <3>1 DEF Tokens, TokensIn
    <3>3. \A x \in Tokens(cur) : x = m
      BY <3>2 DEF OnceInv, OnceIn, Tokens
    <3>4. QED BY <3>1, <3>3
  <2>2. CASE co.stage # "remote"
    <3> HIDE DEF cur
    <3>1. Tokens(cur) = {}
      BY <1>1, <1>2, <2>2 DEF OnceInv, OnceIn, Tokens
    <3>2. QED BY <3>1
  <2>3. QED BY <2>1, <2>2
<1> HIDE DEF cur
<1>4. ASSUME NEW x \in TokensIn(msgs', tx', cur) PROVE x \in sent /\ x.kind \in {"extend", "extended"}
  <2>1. \A n \in Nodes : tx[n].step = "next" /\ tx[n].last = cur => x # [kind |-> "next", node |-> n]
    <3>1. SUFFICES ASSUME NEW n \in Nodes, tx[n].step = "next", tx[n].last = cur,
                          x = [kind |-> "next", node |-> n]
                   PROVE  FALSE
      OBVIOUS
    <3>2. x \in Tokens(cur) /\ x.kind = "next"
      BY <3>1 DEF Tokens, TokensIn
    <3>3. QED BY <1>3, <3>2
  <2>2. x \in msgs' /\ x.kind \in {"extend", "extended"} /\ x.path = cur
    BY <1>1, <1>4, <2>1 DEF TokensIn
  <2>3. CASE x \notin sent
    <3>1. x \in Tokens(cur) /\ x \notin taken
      BY <1>1, <2>2, <2>3 DEF Tokens, TokensIn
    <3>2. QED BY <1>3, <3>1
  <2>4. QED BY <2>2, <2>3
<1>5. ASSUME NEW k, k # cur, \A m \in sent : m.kind \in {"extend", "extended"} => m.path = cur,
             NEW x \in TokensIn(msgs', tx', k)
      PROVE  x \in Tokens(k)
  BY <1>1, <1>5 DEF TokensIn, Tokens
<1>6. QED BY <1>4, <1>5 DEF cur
LEMMA CalmOnce ==
    ASSUME ApartInv, OnceInv, CalmStep
    PROVE  OnceInv'
<1>1. PICK taken, c, sent : CoordinatorDoes(taken, c, sent) /\ Calm(c) /\ Plain(sent)
  BY DEF CalmStep
<1> DEFINE Now(k) == TokensIn(msgs', tx', k)
<1>2. co' = c /\ \A k : Now(k) \subseteq Tokens(k)
  BY <1>1, TokensLeft DEF CoordinatorDoes, Plain
<1>3. FixedBy(c) = FixedBy(co) /\ Calm(c)
  BY <1>1, CalmLists DEF Fixed
<1>4. OnceIn(co, msgs, tx) /\ \A k : Now(k) \subseteq TokensIn(msgs, tx, k)
  BY <1>2 DEF OnceInv, Tokens
<1> HIDE DEF Now
<1>5. \A k : \A x, y \in Now(k) : x = y
  BY <1>4 DEF OnceIn
<1>6. \A k \in PathsIn(FixedBy(c)) : Now(k) = {}
  BY <1>3, <1>4 DEF OnceIn
<1>7. c.stage \in {"start", "receiver"} => \A k : Now(k) = {}
  BY <1>3, <1>4 DEF OnceIn, Calm
<1>8. ASSUME Early(c), NEW i \in 1..Len(c.queue), i > 1 \/ c.stage # "remote"
      PROVE  Now(c.queue[i]) = {}
  <2>1. Early(co) /\ \E j \in 1..Len(co.queue) : c.queue[i] = co.queue[j] /\ (j > 1 \/ co.stage # "remote")
    BY <1>3, <1>8 DEF Calm, Left
  <2>2. TokensIn(msgs, tx, c.queue[i]) = {}
    BY <1>4, <2>1 DEF OnceIn
  <2>3. QED BY <1>4, <2>2
<1>9. OnceIn(c, msgs', tx')
  BY <1>5, <1>6, <1>7, <1>8 DEF OnceIn, Now
<1>10. QED BY <1>2, <1>9 DEF OnceInv

LEMMA ExtendOnce ==
    ASSUME ApartInv, OnceInv, ExtendStep
    PROVE  OnceInv'
<1>1. PICK taken, c, m :
         /\ CoordinatorDoes(taken, c, {m}) /\ Frees(taken)
         /\ Calm(c) /\ c.stage = "remote" /\ c.queue = co.queue
         /\ m.kind = "extend" /\ m.path = Current
  BY DEF ExtendStep
<1> DEFINE Now(k) == TokensIn(msgs', tx', k)
           cur == Current
<1>2. Now(cur) \subseteq {m} /\ \A k : k # cur => Now(k) \subseteq Tokens(k)
  <2>1. \A x \in {m} : x.kind \in {"extend", "extended"} => x.path = Current
    BY <1>1
  <2>2. QED BY <1>1, <2>1, NoneLeft
<1>3. FixedBy(c) = FixedBy(co) /\ co' = c
  BY <1>1, CalmLists DEF Fixed, CoordinatorDoes
<1>4. /\ Early(co) /\ cur \notin PathsIn(FixedBy(co)) /\ \A i \in 2..Len(co.queue) : co.queue[i] # cur
      /\ co.queue \in Seq(Nat)
  BY <1>1, CurrentOpen DEF Frees, Fixed, ApartInv, TypeInv, CoordinationOK, Coordinations
<1> HIDE DEF cur
<1>5. OnceIn(co, msgs, tx) /\ \A k : k # cur => Now(k) \subseteq TokensIn(msgs, tx, k)
  BY <1>2 DEF OnceInv, Tokens
<1> HIDE DEF Now
<1>6. \A k : \A x, y \in Now(k) : x = y
  BY <1>2, <1>5 DEF OnceIn
<1>7. \A k \in PathsIn(FixedBy(c)) : Now(k) = {}
  BY <1>3, <1>4, <1>5 DEF OnceIn
<1>8. ASSUME NEW i \in 1..Len(c.queue), i > 1 PROVE Now(c.queue[i]) = {}
  <2>1. i \in 1..Len(co.queue) /\ i \in 2..Len(co.queue)
    BY <1>1, <1>4, <1>8
  <2>2. TokensIn(msgs, tx, co.queue[i]) = {} /\ co.queue[i] # cur
    BY <1>4, <1>5, <1>8, <2>1 DEF OnceIn
  <2>3. QED BY <1>1, <1>5, <2>2
<1>9. OnceIn(c, msgs', tx')
  BY <1>1, <1>6, <1>7, <1>8 DEF OnceIn, Now
<1>10. QED BY <1>3, <1>9 DEF OnceInv

LEMMA FinishOnce ==
    ASSUME ApartInv, OnceInv, FinishStep
    PROVE  OnceInv'
<1>1. PICK taken, c, sent :
         /\ CoordinatorDoes(taken, c, sent) /\ Frees(taken)
         /\ c.stage \notin {"start", "receiver", "remote"} /\ (Early(c) => Left(c))
         /\ PathsIn(FixedBy(c)) \subseteq PathsIn(Fixed) \cup {Current}
         /\ \A m \in sent : m.kind \notin {"extend", "extended"}
  BY DEF FinishStep
<1> DEFINE Now(k) == TokensIn(msgs', tx', k)
<1>2. Now(Current) = {} /\ \A k : Now(k) \subseteq Tokens(k)
  <2>1. \A k : Now(k) \subseteq Tokens(k)
    BY <1>1, TokensLeft
  <2>2. \A x \in Now(Current) : x \in sent /\ x.kind \in {"extend", "extended"}
    BY <1>1, NoneLeft
  <2>3. QED BY <1>1, <2>1, <2>2
<1>3. OnceIn(co, msgs, tx) /\ (\A k : Now(k) \subseteq TokensIn(msgs, tx, k)) /\ co' = c /\ Early(co)
  BY <1>1, <1>2 DEF OnceInv, Tokens, CoordinatorDoes, Frees
<1> HIDE DEF Now
<1>4. \A k : \A x, y \in Now(k) : x = y
  BY <1>3 DEF OnceIn
<1>5. \A k \in PathsIn(FixedBy(c)) : Now(k) = {}
  BY <1>1, <1>2, <1>3 DEF OnceIn, Fixed
<1>6. ASSUME Early(c), NEW i \in 1..Len(c.queue) PROVE Now(c.queue[i]) = {}
  <2>1. \E j \in 1..Len(co.queue) : c.queue[i] = co.queue[j] /\ (j > 1 \/ co.stage # "remote")
    BY <1>1, <1>6 DEF Left
  <2>2. TokensIn(msgs, tx, c.queue[i]) = {}
    BY <1>3, <2>1 DEF OnceIn
  <2>3. QED BY <1>3, <2>2
<1>7. OnceIn(c, msgs', tx')
  BY <1>1, <1>4, <1>5, <1>6 DEF OnceIn, Now
<1>8. QED BY <1>3, <1>7 DEF OnceInv

LEMMA StartOnce ==
    ASSUME OnceInv, StartStep
    PROVE  OnceInv'
<1>1. PICK c, sent : co.stage = "start" /\ CoordinatorDoes({}, c, sent) /\ Plain(sent)
  BY DEF StartStep
<1>2. \A k : Tokens(k) = {}
  BY <1>1 DEF OnceInv, OnceIn, Tokens
<1>3. \A k : TokensIn(msgs', tx', k) = {}
  <2>1. \A k : TokensIn(msgs', tx', k) \subseteq Tokens(k)
    BY <1>1, TokensLeft DEF Plain
  <2>2. QED BY <1>2, <2>1
<1>4. OnceIn(co', msgs', tx')
  BY <1>3 DEF OnceIn
<1>5. QED BY <1>4 DEF OnceInv

LEMMA NextOnce ==
    ASSUME ApartInv, OnceInv, [Next]_vars, co'.rebuilt = 0
    PROVE  OnceInv'
<1>1. TypeInv
  BY DEF ApartInv
<1>2. ASSUME Moves, co' = co PROVE OnceInv'
  BY <1>2, MovesOnce
<1>3. CASE UNCHANGED vars
  BY <1>3 DEF vars, OnceInv
<1>4. CASE CoordinatorSteps \/ CoordinatorReceives \/ CoordinatorMishap
  <2>1. ~RebuildStep
    BY DEF RebuildStep, CoordinatorDoes
  <2>2. QED BY <1>4, <2>1, CoordinatorDoesSo, CalmOnce, ExtendOnce, FinishOnce, StartOnce
<1>5. CASE ReceiveInit \/ RefuseInit
  BY <1>1, <1>2, <1>5, InitMessageMoves
<1>6. ASSUME NEW n \in Nodes, LearnBlockNumber(n) \/ NodeReceives(n) \/ NodeTimeout(n) \/ NodeRefuses(n)
      PROVE  OnceInv'
  BY <1>1, <1>2, <1>6, NodesMove
<1>7. QED BY <1>3, <1>4, <1>5, <1>6 DEF Next

LEMMA InitOnce == Init => OnceInv
<1> SUFFICES ASSUME Init PROVE OnceInv
  OBVIOUS
<1>1. msgs = {} /\ tx = [n \in Nodes |-> Idle] /\ co.queue = <<>>
  BY DEF Init
<1>2. \A n \in Nodes : tx[n].step # "next"
  BY <1>1, NotPassing
<1>3. \A k : TokensIn(msgs, tx, k) = {}
  BY <1>1, <1>2 DEF TokensIn
<1>4. OnceIn(co, msgs, tx)
  BY <1>3 DEF OnceIn
<1>5. QED BY <1>4 DEF OnceInv

\* Until paths are found again, a node holds a path once in each direction, whatever
\* message is late or lost, whatever timer fires and whatever a node answers.
THEOREM PathsApartUntilRebuilt == Spec /\ [](co.rebuilt = 0) => []PathsKeptApart
<1>1. Init => ApartInv /\ OnceInv
  BY InitApart, InitOnce
<1>2. (ApartInv /\ OnceInv) /\ [Next]_vars /\ (co.rebuilt = 0)' => (ApartInv /\ OnceInv)'
  BY NextApart, NextOnce, OnceTakesOpen
<1>3. ApartInv => PathsKeptApart
  BY ApartInvKeepsApart
<1>4. QED BY <1>1, <1>2, <1>3, PTL DEF Spec

=============================================================================
