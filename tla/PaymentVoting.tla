--------------------------- MODULE PaymentVoting ---------------------------
(***************************************************************************)
(* The last stages of one payment, between its coordinator and the other    *)
(* participants (receiver and intermediate nodes): the final configuration  *)
(* is confirmed, the public keys are sent out, every node signs, the list   *)
(* of signatures (the votes) comes back, and each node commits.  A node     *)
(* that has signed and hears nothing asks the others, and in the end claims *)
(* the payment before the observers, who keep the votes if somebody brings  *)
(* them before a given block.                                               *)
(*                                                                          *)
(* msgs holds every message ever sent: receiving does not remove it, so a   *)
(* message may be lost, delayed, duplicated and overtaken.  Timeouts may    *)
(* fire at any time.  A crash loses the memory of a node and what its event *)
(* loop was doing; phase' in Crash is what its database will make of it.    *)
(***************************************************************************)
EXTENDS Naturals, FiniteSets

CONSTANTS
    Coordinator, Participants,
    MaxKeysResending,      \* kMaxCountParticipantKeysResending
    MaxRecoveryAttempts,   \* kMaxRecoveryAttempts
    MaxCrashes,            \* bound on the crashes of a behaviour
    CrashInApprove,        \* may the coordinator crash between its signature and its commit?
    StorageMayFail,        \* may the coordinator's database refuse the commit?
    TimelyObservers        \* see DeadlinePasses

Nodes == Participants \cup {Coordinator}
NoNode == "no node"

ASSUME VotingAssumption ==
    /\ Coordinator \notin Participants
    /\ Participants # {} /\ IsFiniteSet(Participants)
    /\ NoNode \notin Nodes
    /\ MaxKeysResending \in Nat \ {0}
    /\ MaxRecoveryAttempts \in Nat \ {0}
    /\ MaxCrashes \in Nat
    /\ CrashInApprove \in BOOLEAN /\ StorageMayFail \in BOOLEAN /\ TimelyObservers \in BOOLEAN

VARIABLES
    phase,      \* stage of the payment at each node
    up,         \* is the process running?
    collected,  \* mParticipantsSignatures of the coordinator
    resends,    \* mCountParticipantKeysResending
    asked,      \* mCurrentNodeToCheckVotes, the coordinator first
    toAsk,      \* mNodesToCheckVotes
    attempts,   \* mCountRecoveryAttempts
    signed,     \* nodes with a payment_transactions record
    saved,      \* nodes with the votes in payment_participants_votes
    msgs, claimed, published, deadline, crashes

local == <<collected, resends, asked, toAsk, attempts>>
disk  == <<signed, saved>>
observers == <<claimed, published, deadline>>
vars  == <<phase, up, local, disk, msgs, observers, crashes>>

-----------------------------------------------------------------------------
CoordinatorPhases == {"confirming", "collecting", "signed", "announced", "committed", "rejected"}
ParticipantPhases == {"configured", "voting", "voted", "recovering", "observing", "uncertain",
                      "committed", "rejected"}
Undecided == {"voted", "recovering", "observing", "uncertain"}

\* FinalAmountsConfigurationResponse, ParticipantsPublicKeys, ParticipantVote,
\* ParticipantsVotes (full, or empty as an answer), VotesStatusRequest
Accept(p)      == [type |-> "accept", from |-> p, to |-> Coordinator, ok |-> TRUE]
Refuse(p)      == [type |-> "accept", from |-> p, to |-> Coordinator, ok |-> FALSE]
Keys(p)        == [type |-> "keys", from |-> Coordinator, to |-> p, ok |-> TRUE]
VoteOf(p, ok)  == [type |-> "vote", from |-> p, to |-> Coordinator, ok |-> ok]
Votes(n, m, full) == [type |-> "votes", from |-> n, to |-> m, ok |-> full]
Request(n, m)  == [type |-> "request", from |-> n, to |-> m, ok |-> TRUE]
Messages == [type : {"accept", "keys", "vote", "votes", "request"},
             from : Nodes, to : Nodes, ok : BOOLEAN]

Moves(n, new) == phase' = [phase EXCEPT ![n] = new]
Send(ms) == msgs' = msgs \cup ms

Init ==
    /\ phase = [n \in Nodes |-> IF n = Coordinator THEN "confirming" ELSE "configured"]
    /\ up = [n \in Nodes |-> TRUE]
    /\ collected = {} /\ resends = 1
    /\ asked = [p \in Participants |-> NoNode]
    /\ toAsk = [p \in Participants |-> {}]
    /\ attempts = [p \in Participants |-> 0]
    /\ signed = {} /\ saved = {}
    /\ msgs = {}
    /\ claimed = FALSE /\ published = FALSE /\ deadline = FALSE
    /\ crashes = 0

-----------------------------------------------------------------------------
(* The coordinator *)

\* runFinalAmountsConfigurationConfirmation with the last confirmation, then
\* propagateVotesListAndWaitForVotingResult
PropagateVotesList ==
    /\ phase[Coordinator] = "confirming"
    /\ \A p \in Participants : Accept(p) \in msgs
    /\ Moves(Coordinator, "collecting")
    /\ Send({Keys(p) : p \in Participants})
    /\ UNCHANGED <<local, disk>>

\* reject before the coordinator signed: somebody refused, or nothing came in
\* time.  In runVotesConsistencyCheckingStage silence is first answered by
\* sending the keys again.
CoordinatorRejects ==
    /\ \/ phase[Coordinator] = "confirming"
       \/ /\ phase[Coordinator] = "collecting"
          /\ \/ resends >= MaxKeysResending
             \/ \E p \in Participants : VoteOf(p, FALSE) \in msgs
    /\ Moves(Coordinator, "rejected")
    /\ UNCHANGED <<local, disk, msgs>>

ResendKeys ==
    /\ phase[Coordinator] = "collecting"
    /\ resends < MaxKeysResending
    /\ resends' = resends + 1
    /\ Send({Keys(p) : p \in Participants \ collected})
    /\ UNCHANGED <<phase, collected, asked, toAsk, attempts, disk>>

\* Mutant of CollectVote: the coordinator signs on the first vote.
CollectVoteSignsEarly(p) ==
    /\ phase[Coordinator] = "collecting"
    /\ VoteOf(p, TRUE) \in msgs
    /\ p \notin collected
    /\ collected' = collected \cup {p}
    /\ Moves(Coordinator, "signed")
    /\ signed' = signed \cup {Coordinator}
    /\ UNCHANGED <<resends, asked, toAsk, attempts, saved, msgs>>

\* runVotesConsistencyCheckingStage with a valid vote.  The last one makes the
\* coordinator sign and record the payment in a database transaction of its own.
CollectVote(p) ==
    /\ phase[Coordinator] = "collecting"
    /\ VoteOf(p, TRUE) \in msgs
    /\ p \notin collected
    /\ collected' = collected \cup {p}
    /\ IF collected' = Participants
         THEN Moves(Coordinator, "signed") /\ signed' = signed \cup {Coordinator}
         ELSE UNCHANGED <<phase, signed>>
    /\ UNCHANGED <<resends, asked, toAsk, attempts, saved, msgs>>

\* approve: the votes go out, then commit writes the database.
AnnounceVotes ==
    /\ phase[Coordinator] = "signed"
    /\ Moves(Coordinator, "announced")
    /\ Send({Votes(Coordinator, p, TRUE) : p \in Participants})
    /\ UNCHANGED <<local, disk>>

CoordinatorCommits ==
    /\ phase[Coordinator] = "announced"
    /\ Moves(Coordinator, "committed")
    /\ saved' = saved \cup {Coordinator}
    /\ UNCHANGED <<local, signed, msgs>>

\* An exception in approve reaches the handler of run, which removes the
\* payment's data and its payment_transactions record and rejects.
CoordinatorFails ==
    /\ StorageMayFail
    /\ phase[Coordinator] \in {"signed", "announced"}
    /\ Moves(Coordinator, "rejected")
    /\ signed' = signed \ {Coordinator}
    /\ UNCHANGED <<local, saved, msgs>>

CoordinatorStep ==
    /\ up[Coordinator]
    /\ \/ PropagateVotesList \/ CoordinatorRejects \/ ResendKeys
       \/ \E p \in Participants : CollectVote(p)
       \/ AnnounceVotes \/ CoordinatorCommits \/ CoordinatorFails
    /\ UNCHANGED <<up, observers, crashes>>

-----------------------------------------------------------------------------
(* A participant: before it signs *)

\* The final configuration holds on this node: it saves its receipts and sends
\* its public key.  Otherwise it refuses and cleans up.
ConfirmConfiguration(p) ==
    /\ phase[p] = "configured"
    /\ Moves(p, "voting")
    /\ Send({Accept(p)})
    /\ UNCHANGED <<local, disk>>

RefuseConfiguration(p) ==
    /\ phase[p] = "configured"
    /\ Moves(p, "rejected")
    /\ Send({Refuse(p)})
    /\ UNCHANGED <<local, disk>>

\* Mutant of GiveUpBeforeVote: the same timeout also takes a node that has voted.
GiveUpAfterVote(p) ==
    /\ phase[p] \in {"configured", "voting", "voted"}
    /\ Moves(p, "rejected")
    /\ UNCHANGED <<local, disk, msgs>>

\* No keys and no answer to the question whether the coordinator goes on, or the
\* answer that it does not.
GiveUpBeforeVote(p) ==
    /\ phase[p] \in {"configured", "voting"}
    /\ Moves(p, "rejected")
    /\ UNCHANGED <<local, disk, msgs>>

\* runVotesCheckingStage: the keys are those announced, so the node serializes
\* itself, signs and records the payment; or it refuses.
Vote(p) ==
    /\ phase[p] = "voting"
    /\ Keys(p) \in msgs
    /\ Moves(p, "voted")
    /\ signed' = signed \cup {p}
    /\ Send({VoteOf(p, TRUE)})
    /\ UNCHANGED <<local, saved>>

RefuseVote(p) ==
    /\ phase[p] = "voting"
    /\ Keys(p) \in msgs
    /\ Moves(p, "rejected")
    /\ Send({VoteOf(p, FALSE)})
    /\ UNCHANGED <<local, disk>>

-----------------------------------------------------------------------------
(* A participant: after it signed *)

\* processParticipantsVotesMessage and approve
Commits(p) ==
    /\ Moves(p, "committed")
    /\ saved' = saved \cup {p}
    /\ asked' = [asked EXCEPT ![p] = NoNode]
    /\ toAsk' = [toAsk EXCEPT ![p] = {}]
    /\ UNCHANGED <<collected, resends, attempts, signed, msgs>>

\* runVotesConsistencyCheckingStage
ReceiveVotes(p) ==
    /\ phase[p] = "voted"
    /\ Votes(Coordinator, p, TRUE) \in msgs
    /\ Commits(p)

\* No votes in time: recover
StartRecovery(p) ==
    /\ phase[p] = "voted"
    /\ Moves(p, "recovering")
    /\ attempts' = [attempts EXCEPT ![p] = 0]
    /\ UNCHANGED <<collected, resends, asked, toAsk, disk, msgs>>

\* runPrepareListNodesToCheckNodes: the coordinator is asked first
AskCoordinator(p) ==
    /\ phase[p] = "recovering"
    /\ asked[p] = NoNode
    /\ asked' = [asked EXCEPT ![p] = Coordinator]
    /\ toAsk' = [toAsk EXCEPT ![p] = Participants \ {p}]
    /\ Send({Request(p, Coordinator)})
    /\ UNCHANGED <<phase, collected, resends, attempts, disk>>

\* Mutant of AnswerRequest: a node that only has its own vote hands it out.
AnswerRequestWithOwnVote(n, p) ==
    /\ Request(p, n) \in msgs
    /\ phase[n] \notin {"signed", "announced"}
    /\ Send({Votes(n, p, n \in signed)})
    /\ UNCHANGED <<phase, local, disk>>

\* VotesStatusResponsePaymentTransaction: a node that is still busy with the
\* payment, or that has no votes, answers with an empty list.  The coordinator's
\* last handler is not interrupted.
AnswerRequest(n, p) ==
    /\ Request(p, n) \in msgs
    /\ phase[n] \notin {"signed", "announced"}
    /\ Send({Votes(n, p, n \in saved)})
    /\ UNCHANGED <<phase, local, disk>>

\* runCheckCoordinatorVotesStage and runCheckIntermediateNodeVotesStage with the votes
RecoverWithVotes(p) ==
    /\ phase[p] = "recovering"
    /\ asked[p] # NoNode
    /\ Votes(asked[p], p, TRUE) \in msgs
    /\ Commits(p)

\* The same with an empty answer or none: processNextNodeToCheckVotes
AskNext(p) ==
    /\ phase[p] = "recovering"
    /\ asked[p] # NoNode
    /\ \E q \in toAsk[p] :
          /\ asked' = [asked EXCEPT ![p] = q]
          /\ toAsk' = [toAsk EXCEPT ![p] = @ \ {q}]
          /\ Send({Request(p, q)})
    /\ UNCHANGED <<phase, collected, resends, attempts, disk>>

\* Mutants of EndRecoveryAttempt: one attempt too many; attempts never counted.
EndRecoveryAttemptTooLate(p) ==
    /\ phase[p] = "recovering"
    /\ asked[p] # NoNode
    /\ toAsk[p] = {}
    /\ asked' = [asked EXCEPT ![p] = NoNode]
    /\ attempts' = [attempts EXCEPT ![p] = @ + 1]
    /\ IF attempts'[p] > MaxRecoveryAttempts
         THEN Moves(p, "observing")
         ELSE UNCHANGED phase
    /\ UNCHANGED <<collected, resends, toAsk, disk, msgs>>

EndRecoveryAttemptUncounted(p) ==
    /\ phase[p] = "recovering"
    /\ asked[p] # NoNode
    /\ toAsk[p] = {}
    /\ asked' = [asked EXCEPT ![p] = NoNode]
    /\ UNCHANGED <<phase, attempts, collected, resends, toAsk, disk, msgs>>

\* Everybody was asked: wait and ask again, or go to the observers, and end the
\* transaction while the reservations stay.
EndRecoveryAttempt(p) ==
    /\ phase[p] = "recovering"
    /\ asked[p] # NoNode
    /\ toAsk[p] = {}
    /\ asked' = [asked EXCEPT ![p] = NoNode]
    /\ attempts' = [attempts EXCEPT ![p] = @ + 1]
    /\ IF attempts'[p] >= MaxRecoveryAttempts
         THEN Moves(p, "observing")
         ELSE UNCHANGED phase
    /\ UNCHANGED <<collected, resends, toAsk, disk, msgs>>

ParticipantStep(p) ==
    /\ up[p]
    /\ \/ ConfirmConfiguration(p) \/ RefuseConfiguration(p) \/ GiveUpBeforeVote(p)
       \/ Vote(p) \/ RefuseVote(p)
       \/ ReceiveVotes(p) \/ StartRecovery(p)
       \/ AskCoordinator(p) \/ RecoverWithVotes(p) \/ AskNext(p) \/ EndRecoveryAttempt(p)
    /\ UNCHANGED <<up, observers, crashes>>

Answers == \E n \in Nodes, p \in Participants :
              /\ up[n]
              /\ AnswerRequest(n, p)
              /\ UNCHANGED <<up, observers, crashes>>

-----------------------------------------------------------------------------
(* Observers *)

\* sendClaimRequestToObservers and sendClaimAgain.  A first claim that comes
\* after the last block is refused (ClaimTimeExpired), and the node keeps its
\* serialized payment in the stage Common_Uncertain.
Claim(p) ==
    /\ phase[p] = "observing"
    /\ ~claimed
    /\ claimed' = ~deadline
    /\ IF deadline THEN Moves(p, "uncertain") ELSE UNCHANGED phase
    /\ UNCHANGED <<local, disk, msgs, published, deadline>>

\* performOneClaim: the observers have the votes (getParticipantsVotes, then
\* runObservingResultStage in a transaction deserialized for it), or the last
\* block is past and they have none (runObservingRejectTransaction).
CommitByObservers(p) ==
    /\ phase[p] = "observing"
    /\ published
    /\ Commits(p)
    /\ UNCHANGED observers

\* Mutants of RejectByObservers: the last block alone decides; a claim alone does.
RejectByDeadline(p) ==
    /\ phase[p] = "observing"
    /\ claimed /\ deadline
    /\ Moves(p, "rejected")
    /\ UNCHANGED <<local, disk, msgs, observers>>

RejectByClaim(p) ==
    /\ phase[p] = "observing"
    /\ claimed /\ ~published
    /\ Moves(p, "rejected")
    /\ UNCHANGED <<local, disk, msgs, observers>>

RejectByObservers(p) ==
    /\ phase[p] = "observing"
    /\ claimed /\ deadline /\ ~published
    /\ Moves(p, "rejected")
    /\ UNCHANGED <<local, disk, msgs, observers>>

\* runTransactionsChecking and sendParticipantsVoteMessageToObservers: a node
\* that committed looks whether somebody claimed the payment.
PublishVotes(n) ==
    /\ n \in saved
    /\ claimed /\ ~deadline /\ ~published
    /\ published' = TRUE
    /\ UNCHANGED <<phase, local, disk, msgs, claimed, deadline>>

ObservingStep(n) ==
    /\ up[n]
    /\ \/ n \in Participants /\ (Claim(n) \/ CommitByObservers(n) \/ RejectByObservers(n))
       \/ PublishVotes(n)
    /\ UNCHANGED <<up, crashes>>

\* The block mMaximalClaimingBlockNumber goes by.  The design counts on it being
\* late: kCountBlocksForClaiming blocks, against timeouts of seconds.  With
\* TimelyObservers it comes when every node has decided or has claimed, and votes
\* that somebody keeps have reached the observers.
InTime ==
    /\ \A n \in Nodes : \/ phase[n] \in {"committed", "rejected"}
                        \/ phase[n] = "observing" /\ claimed
    /\ claimed /\ saved # {} => published

DeadlinePasses ==
    /\ ~deadline
    /\ TimelyObservers => InTime
    /\ deadline' = TRUE
    /\ UNCHANGED <<phase, up, local, disk, msgs, claimed, published, crashes>>

-----------------------------------------------------------------------------
(* Crashes *)

\* What loadTransactionsFromStorage and loadTrustLinesFromStorage make of the
\* payment.  Only a participant that signed is serialized.  A coordinator that
\* had signed keeps its receipts and its payment_transactions record: the load
\* of the trust lines counts them as paid.
\* Mutant of PhaseFromDisk: commit left the serialized transaction behind.
PhaseFromUndeletedRecord(n) ==
    CASE phase[n] \in {"rejected", "observing"} -> phase[n]
      [] phase[n] \in {"voted", "recovering", "uncertain"} -> "recovering"
      [] phase[n] = "committed" /\ n # Coordinator -> "recovering"
      [] phase[n] \in {"signed", "announced", "committed"} -> "committed"
      [] OTHER -> "rejected"

PhaseFromDisk(n) ==
    CASE phase[n] \in {"committed", "rejected", "observing"} -> phase[n]
      [] phase[n] \in {"voted", "recovering", "uncertain"} -> "recovering"
      [] phase[n] \in {"signed", "announced"} -> "committed"
      [] OTHER -> "rejected"

Crash(n) ==
    /\ crashes < MaxCrashes
    /\ up[n]
    /\ phase[n] \in {"signed", "announced"} => CrashInApprove
    /\ up' = [up EXCEPT ![n] = FALSE]
    /\ Moves(n, PhaseFromDisk(n))
    /\ IF n = Coordinator
         THEN /\ collected' = {} /\ resends' = 1
              /\ UNCHANGED <<asked, toAsk, attempts>>
         ELSE /\ asked' = [asked EXCEPT ![n] = NoNode]
              /\ toAsk' = [toAsk EXCEPT ![n] = {}]
              /\ attempts' = [attempts EXCEPT ![n] = 0]
              /\ UNCHANGED <<collected, resends>>
    /\ crashes' = crashes + 1
    /\ UNCHANGED <<disk, msgs, observers>>

Restart(n) ==
    /\ ~up[n]
    /\ up' = [up EXCEPT ![n] = TRUE]
    /\ UNCHANGED <<phase, local, disk, msgs, observers, crashes>>

-----------------------------------------------------------------------------
Next ==
    \/ CoordinatorStep
    \/ \E p \in Participants : ParticipantStep(p)
    \/ Answers
    \/ \E n \in Nodes : ObservingStep(n)
    \/ DeadlinePasses
    \/ \E n \in Nodes : Crash(n) \/ Restart(n)

Spec == Init /\ [][Next]_vars

\* Timers fire and the event loop runs what is due; a node that crashed is
\* started again; observers answer; blocks keep coming.  Nothing is assumed of
\* messages between nodes.
Fairness ==
    /\ WF_vars(CoordinatorStep)
    /\ \A p \in Participants : WF_vars(ParticipantStep(p))
    /\ \A n \in Nodes : WF_vars(ObservingStep(n)) /\ WF_vars(Restart(n))
    /\ WF_vars(DeadlinePasses)

FairSpec == Spec /\ Fairness

-----------------------------------------------------------------------------
(* Properties *)

\* Every variable stays in its range.
TypeOK ==
    /\ phase \in [Nodes -> CoordinatorPhases \cup ParticipantPhases]
    /\ up \in [Nodes -> BOOLEAN]
    /\ collected \subseteq Participants
    /\ resends \in 1..MaxKeysResending
    /\ asked \in [Participants -> Nodes \cup {NoNode}]
    /\ toAsk \in [Participants -> SUBSET Participants]
    /\ attempts \in [Participants -> 0..MaxRecoveryAttempts]
    /\ signed \subseteq Nodes /\ saved \subseteq Nodes
    /\ msgs \subseteq Messages
    /\ claimed \in BOOLEAN /\ published \in BOOLEAN /\ deadline \in BOOLEAN
    /\ crashes \in 0..MaxCrashes

\* The data integrity that the recovery is there to keep (comment of
\* runVotesConsistencyCheckingStage): no node commits a payment that another
\* rejects, whatever messages are lost and whichever nodes crash.
Agreement ==
    \A n, m \in Nodes : ~(phase[n] = "committed" /\ phase[m] = "rejected")

\* Nobody keeps the votes, or hands them to another node or to the observers,
\* unless every node has signed and recorded the payment: the votes a node
\* recovers with are complete.
VotesAreComplete ==
    /\ saved # {} => signed = Nodes
    /\ published => signed = Nodes
    /\ (\E m \in msgs : m.type = "votes" /\ m.ok) => signed = Nodes

\* A node that has voted does not simply cancel (same comment): it rejects only
\* when the last block for a claim is past and the observers have no votes.
VotedIsNotSimplyCancelled ==
    [][\A n \in Nodes : /\ n \in signed
                        /\ phase[n] # "rejected" /\ phase'[n] = "rejected"
                        => claimed /\ deadline /\ ~published]_vars

\* What a node decided stays decided, through restarts.
DecisionIsFinal ==
    [][\A n \in Nodes : phase[n] \in {"committed", "rejected"} => phase'[n] = phase[n]]_vars

\* Disagreement needs a missed deadline: with the observers' block coming at any
\* time, one node commits what another rejects only if that block went by
\* without the votes.  A coordinator that was stopped between its signature and
\* the end of its commit (a crash, or a database that refuses it) may disagree
\* with the participants, but they agree among themselves even then.
CoordinatorInterrupted ==
    \/ phase[Coordinator] = "committed" /\ Coordinator \notin saved
    \/ /\ phase[Coordinator] = "rejected"
       /\ \E p \in Participants : Votes(Coordinator, p, TRUE) \in msgs

DisagreementNeedsMissedDeadline ==
    \A n, m \in Nodes :
        phase[n] = "committed" /\ phase[m] = "rejected"
            => \/ claimed /\ deadline /\ ~published
               \/ Coordinator \in {n, m} /\ CoordinatorInterrupted

\* A node that has signed is not left hanging: it commits or rejects in the end,
\* even if every message to it is lost.
VotedIsDecided ==
    \A p \in Participants :
        phase[p] \in Undecided ~> phase[p] \in {"committed", "rejected"}

\* The payment implements an atomic commit: a node has voted when it has
\* recorded its signature, and has decided when it commits or rejects.
Decision == [n \in Nodes |-> IF phase[n] \in {"committed", "rejected"} THEN phase[n]
                             ELSE "undecided"]

Abstract == INSTANCE AtomicCommit WITH voted <- signed, decision <- Decision
ImplementsAtomicCommit == Abstract!Spec
=============================================================================
