--------------------------- MODULE MCPaymentVoting ---------------------------
(***************************************************************************)
(* PaymentVoting for TLC with participants that are model values: nothing   *)
(* in the protocol tells one participant from another, so that states which *)
(* differ by a permutation of them count as one.                            *)
(***************************************************************************)
EXTENDS PaymentVoting, TLC

Symmetry == Permutations(Participants)
=============================================================================
