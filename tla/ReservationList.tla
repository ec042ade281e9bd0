--------------------------- MODULE ReservationList ---------------------------
(***************************************************************************)
(* mReservations of a payment transaction: what the payment holds on the    *)
(* node's trust lines, one entry per path and direction, in the order in    *)
(* which it was reserved.  A final configuration is a list of paths with    *)
(* the amount the coordinator has fixed for them.                           *)
(***************************************************************************)
EXTENDS Sums, SequencesExt

Reservation(path, peer, dir, amount) ==
    [path |-> path, peer |-> peer, dir |-> dir, amount |-> amount]
PathAmount(path, amount) == [path |-> path, amount |-> amount]

\* The entries at the positions in S, in their order.
Picked(list, S) ==
    LET p[n \in 0..Len(list)] ==
          IF n = 0 THEN <<>> ELSE IF n \in S THEN Append(p[n - 1], list[n]) ELSE p[n - 1]
    IN  p[Len(list)]

\* totalReservedAmount and totalReservedIncomingAmountToNode
TotalAt(list, S) == SumOver(S, [i \in 1..Len(list) |-> list[i].amount], Len(list))

Total(list) == TotalAt(list, 1..Len(list))
TotalWith(res, peer) == TotalAt(res, {i \in 1..Len(res) : res[i].peer = peer})
TotalFrom(res, peer) ==
    TotalAt(res, {i \in 1..Len(res) : res[i].peer = peer /\ res[i].dir = "in"})

\* rollBack(pathID) and dropNodeReservationsOnPath
WithoutPath(res, path) == Picked(res, {i \in 1..Len(res) : res[i].path # path})

\* shortageReservation takes an entry out and appends it with its new amount;
\* it throws when the amount would grow.  new[i] is what becomes of entry i.
Replaced(res, Changed, new) == Picked(res, (1..Len(res)) \ Changed) \o Picked(new, Changed)

\* IntermediateNodePaymentTransaction::shortageReservationsOnPath passes the path
\* ID as a reference into the vector that shortageReservation erases from: the
\* new entry carries the ID of the entry that followed it, if there was one.
IdAfterErasing(res, i) ==
    LET after == {j \in (i + 1)..Len(res) : res[j].peer = res[i].peer}
    IN  res[IF after = {} THEN i ELSE Min(after)].path

Shortened(res, path, amount) ==
    LET new == [i \in 1..Len(res) |->
                   [res[i] EXCEPT !.amount = amount, !.path = IdAfterErasing(res, i)]]
    IN  Replaced(res, {i \in 1..Len(res) : res[i].path = path /\ res[i].amount # amount}, new)

ShorteningThrows(res, path, amount) ==
    \E i \in 1..Len(res) : res[i].path = path /\ res[i].amount < amount

\* updateReservations: paths that are not listed are dropped, the others get the
\* listed amount; false if a listed path is missing.
ListedPaths(list) == {list[i].path : i \in 1..Len(list)}

ListedAmount(final, path) ==
    LET first == CHOOSE i \in 1..Len(final) :
                    final[i].path = path /\ \A j \in 1..(i - 1) : final[j].path # path
    IN  final[first].amount

Updated(res, final) ==
    LET left      == Picked(res, {i \in 1..Len(res) : res[i].path \in ListedPaths(final)})
        amount(i) == ListedAmount(final, left[i].path)
        new       == [i \in 1..Len(left) |-> [left[i] EXCEPT !.amount = amount(i)]]
    IN  Replaced(left, {i \in 1..Len(left) : left[i].amount # amount(i)}, new)

UpdateThrows(res, final) ==
    \E i \in 1..Len(res) : /\ res[i].path \in ListedPaths(final)
                           /\ res[i].amount < ListedAmount(final, res[i].path)

UpdateComplete(res, final) ==
    Cardinality(ListedPaths(res) \cap ListedPaths(final)) = Len(final)

\* IntermediateNodePaymentTransaction::checkReservationsDirections: what comes
\* in on a path goes out on it.
PassedOn(res) ==
    \A i \in 1..Len(res) :
        LET onPath == {j \in 1..Len(res) : res[j].path = res[i].path}
        IN  /\ \A j \in onPath : res[j].amount = res[i].amount
            /\ \A dir \in {"in", "out"} : Cardinality({j \in onPath : res[j].dir = dir}) = 1

\* ReceiverPaymentTransaction::checkReservationsDirections
OnlyIncoming(res) == \A i \in 1..Len(res) : res[i].dir = "in"
=============================================================================
