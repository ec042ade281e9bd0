---------------------------- MODULE AtomicCommit ----------------------------
(***************************************************************************)
(* What a payment promises its nodes: each of them commits it or rejects it *)
(* for good, all that decide decide the same, and nobody's money moves      *)
(* unless every node has signed.                                            *)
(***************************************************************************)
CONSTANT Nodes

VARIABLES voted, decision

Init == /\ voted = {}
        /\ decision = [n \in Nodes |-> "undecided"]

Vote(n) == /\ decision[n] = "undecided"
           /\ voted' = voted \cup {n}
           /\ UNCHANGED decision

Commit(n) == /\ decision[n] = "undecided"
             /\ voted = Nodes
             /\ \A m \in Nodes : decision[m] # "rejected"
             /\ decision' = [decision EXCEPT ![n] = "committed"]
             /\ UNCHANGED voted

Reject(n) == /\ decision[n] = "undecided"
             /\ \A m \in Nodes : decision[m] # "committed"
             /\ decision' = [decision EXCEPT ![n] = "rejected"]
             /\ UNCHANGED voted

Next == \E n \in Nodes : Vote(n) \/ Commit(n) \/ Reject(n)

Spec == Init /\ [][Next]_<<voted, decision>>
=============================================================================
