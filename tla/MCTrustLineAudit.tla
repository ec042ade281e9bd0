-------------------------- MODULE MCTrustLineAudit --------------------------
(***************************************************************************)
(* TrustLineAudit for TLC: the ends a and b of a line over which a gives a  *)
(* limit of 1 and b none, the names of their transactions, and what they    *)
(* ask for.                                                                 *)
(***************************************************************************)
EXTENDS TrustLineAudit, TLC

CONSTANTS a, b, a1, b1, b2

OneSide == (a :> 1) @@ (b :> 0)

OneEach == (a :> {a1}) @@ (b :> {b1})
OneAndTwo == (a :> {a1}) @@ (b :> {b1, b2})

Set(amount) == [kind |-> "set", amount |-> amount]
Close == [kind |-> "close", amount |-> 0]
PlainAudit == [kind |-> "audit", amount |-> 0]

UpDownAndPlain == {Set(2), Set(0), PlainAudit}
UpOrClose == {Set(2), Close}
Up == {Set(2)}
=============================================================================
