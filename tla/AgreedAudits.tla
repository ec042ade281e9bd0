---------------------------- MODULE AgreedAudits ----------------------------
(***************************************************************************)
(* What the audits of a trust line promise its two ends: one sequence of    *)
(* audits that both have signed, none of which is ever changed or dropped,  *)
(* of which one end may miss the last.                                      *)
(***************************************************************************)
EXTENDS Naturals, Sequences

CONSTANTS Ends, Terms

VARIABLES agreed, known

Init == /\ \E t \in Terms : agreed = <<t>>
        /\ known = [e \in Ends |-> 1]

\* The contractor of the initiator adds its signature: it has both now.
Sign(e) == /\ \A d \in Ends : known[d] = Len(agreed)
           /\ agreed' \in Seq(Terms)
           /\ Len(agreed') = Len(agreed) + 1
           /\ SubSeq(agreed', 1, Len(agreed)) = agreed
           /\ known' = [known EXCEPT ![e] = @ + 1]

\* The initiator gets the signature of its contractor.
Learn(e) == /\ known[e] < Len(agreed)
            /\ known' = [known EXCEPT ![e] = @ + 1]
            /\ UNCHANGED agreed

Next == \E e \in Ends : Sign(e) \/ Learn(e)

Spec == Init /\ [][Next]_<<agreed, known>>
=============================================================================
