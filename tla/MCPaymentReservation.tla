------------------------ MODULE MCPaymentReservation ------------------------
(* Networks for PaymentReservation: the paths of its instances. *)
EXTENDS PaymentReservation

\* two paths over A; others found later
OverA == <<<<"A", "B">>, <<"A">>>>
LongPath == {<<<<"B", "A">>>>}

\* the direct path and one over A
DirectAndOne == <<<<>>, <<"A">>>>

NoPaths == {}

\* a path over A and B; when B is lost another one over C, and when C refuses to
\* pay the receiver (in B's name) two over C and D
OverAB == <<<<"A", "B">>>>
OverC == {<<<<"A", "C">>>>, <<<<"C", "D">>, <<"A", "C", "D">>>>}

\* The behaviours in which only B, late in a path, fails the coordinator.
SpecLateB ==
    /\ Init
    /\ [][Next /\ (mishaps' # mishaps => \/ RemoteSilent /\ Route[co.pos] = "B"
                                      \/ RefuseExtend("B"))]_vars
=============================================================================
