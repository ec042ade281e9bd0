-------------------------------- MODULE Sums --------------------------------
(***************************************************************************)
(* Totals over the payments 1..n.  AmountReservationsHandler::totalReserved *)
(* and the two committed-receipts sums of TrustLineKeychain loop over the   *)
(* records of a trust line and add those that match; here the records that  *)
(* do not match count as 0.                                                 *)
(***************************************************************************)
EXTENDS Integers

\* f[1] + ... + f[n].  A recursive function, not a RECURSIVE operator, so that
\* the proof modules can use it.
PartialSums(f, n) ==
    LET s[i \in 0..n] == IF i = 0 THEN 0 ELSE s[i - 1] + f[i]
    IN  s

SumUpTo(f, n) == PartialSums(f, n)[n]

\* f on the members of S, 0 on the others.
Only(S, f, n) == [i \in 1..n |-> IF i \in S THEN f[i] ELSE 0]

SumOver(S, f, n) == SumUpTo(Only(S, f, n), n)
=============================================================================
