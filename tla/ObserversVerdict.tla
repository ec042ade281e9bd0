-------------------------- MODULE ObserversVerdict --------------------------
(***************************************************************************)
(* What the observers promise the nodes of a payment: a verdict.  A node    *)
(* that cannot get the votes claims the payment; whoever has the votes      *)
(* brings them; and when the last block is past, the votes are there or     *)
(* nobody will ever see them.                                               *)
(***************************************************************************)
CONSTANT Nodes

VARIABLES claimed, published, deadline, decision

vars == <<claimed, published, deadline, decision>>

Committed == {n \in Nodes : decision[n] = "committed"}

Init == /\ claimed = FALSE /\ published = FALSE /\ deadline = FALSE
        /\ decision \in [Nodes -> {"undecided", "committed", "rejected"}]
        /\ \A n, m \in Nodes : ~(decision[n] = "committed" /\ decision[m] = "rejected")

\* A block brings the claim, the votes of a claimed payment, or both.
Block == /\ ~deadline
         /\ claimed' \in {claimed, TRUE}
         /\ published' \in {published, TRUE}
         /\ published' => claimed' /\ (published \/ Committed # {})
         /\ UNCHANGED <<deadline, decision>>

\* The last block goes by when nobody waits for the votes any more, or when
\* they are there, or nobody has them.
DeadlinePasses ==
    /\ ~deadline
    /\ \A n \in Nodes : decision[n] = "undecided" => claimed
    /\ claimed /\ Committed # {} => published
    /\ deadline' = TRUE
    /\ UNCHANGED <<claimed, published, decision>>

\* With the votes, of another node or of the observers
Commit(n) == /\ decision[n] = "undecided"
             /\ Committed # {} \/ published
             /\ decision' = [decision EXCEPT ![n] = "committed"]
             /\ UNCHANGED <<claimed, published, deadline>>

Reject(n) == /\ decision[n] = "undecided"
             /\ claimed /\ deadline /\ ~published
             /\ decision' = [decision EXCEPT ![n] = "rejected"]
             /\ UNCHANGED <<claimed, published, deadline>>

Next == \/ Block \/ DeadlinePasses
        \/ \E n \in Nodes : Commit(n) \/ Reject(n)

Spec == Init /\ [][Next]_vars
=============================================================================
