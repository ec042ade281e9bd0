------------------------ MODULE PaymentVotingProofs ------------------------
(***************************************************************************)
(* What holds of PaymentVoting for any number of participants, crashes and  *)
(* attempts.  Where a theorem needs it, it assumes that the coordinator is  *)
(* not interrupted between its signature and its commit, and that the       *)
(* observers' block comes late enough (TimelyObservers).                    *)
(***************************************************************************)
EXTENDS PaymentVoting, TLAPS

SoundCoordinator == CrashInApprove = FALSE /\ StorageMayFail = FALSE

\* TypeOK is not inductive: EndRecoveryAttempt counts one more attempt, and
\* stays within the maximum only because a node that recovers has one left.
AttemptsLeft ==
    \A p \in Participants : phase[p] = "recovering" => attempts[p] < MaxRecoveryAttempts

TypeInv == TypeOK /\ AttemptsLeft

\* The votes are somewhere where they can be found.
VotesKnown ==
    \/ saved # {}
    \/ published
    \/ \E m \in msgs : m.type = "votes" /\ m.ok

\* Who plays which part.
PhasesByRole ==
    /\ phase[Coordinator] \in CoordinatorPhases
    /\ \A p \in Participants : phase[p] \in ParticipantPhases

\* A signature is recorded exactly from the stage on in which it is given.
SignedByPhase ==
    /\ Coordinator \in signed <=> phase[Coordinator] \in {"signed", "announced", "committed"}
    /\ \A p \in Participants :
          /\ p \in signed => phase[p] \notin {"configured", "voting"}
          /\ p \notin signed => phase[p] \in {"configured", "voting", "rejected"}

\* The coordinator counts only votes that were given, and signs last.
VotesWereGiven ==
    /\ collected \subseteq signed
    /\ \A p \in Participants : VoteOf(p, TRUE) \in msgs => p \in signed
    /\ Coordinator \in signed => signed = Nodes

\* Votes come from a coordinator that will commit or has.
VotesFromCoordinator == VotesKnown => phase[Coordinator] \in {"announced", "committed"}

CommittedKeepVotes == \A n \in Nodes : phase[n] = "committed" => n \in saved

\* Who rejects after signing was told so by the observers; and when they have
\* nothing in the end, the coordinator has rejected.
VotedRejectsLate ==
    \A p \in Participants :
        p \in signed /\ phase[p] = "rejected" => claimed /\ deadline /\ ~published

LostClaimWasRejected ==
    claimed /\ deadline /\ ~published => phase[Coordinator] = "rejected"

VotesInv == /\ PhasesByRole /\ SignedByPhase /\ VotesWereGiven
            /\ VotesFromCoordinator /\ CommittedKeepVotes

AgreementInv == VotedRejectsLate /\ LostClaimWasRejected

-----------------------------------------------------------------------------
(* Types *)

LEMMA TypeInit == Init => TypeInv
<1> SUFFICES ASSUME Init PROVE TypeInv
  OBVIOUS
<1> USE VotingAssumption DEF Init
<1>1. phase \in [Nodes -> CoordinatorPhases \cup ParticipantPhases]
  BY DEF CoordinatorPhases, ParticipantPhases
<1>2. /\ up \in [Nodes -> BOOLEAN]
      /\ claimed \in BOOLEAN /\ published \in BOOLEAN /\ deadline \in BOOLEAN
  OBVIOUS
<1>3. /\ asked \in [Participants -> Nodes \cup {NoNode}]
      /\ toAsk \in [Participants -> SUBSET Participants]
      /\ attempts \in [Participants -> 0..MaxRecoveryAttempts]
  OBVIOUS
<1>4. AttemptsLeft
  BY DEF AttemptsLeft, Nodes
<1>5. QED
  BY <1>1, <1>2, <1>3, <1>4 DEF TypeInv, TypeOK

\* Sending any of the protocol's messages keeps msgs well typed.
LEMMA MessageTypes ==
    /\ \A p \in Participants :
          /\ Accept(p) \in Messages /\ Refuse(p) \in Messages
          /\ VoteOf(p, TRUE) \in Messages /\ VoteOf(p, FALSE) \in Messages
    /\ \A n \in Nodes, m \in Nodes :
          /\ \A ok \in BOOLEAN : Votes(n, m, ok) \in Messages
          /\ Request(n, m) \in Messages
    /\ \A S \in SUBSET Participants : {Keys(p) : p \in S} \subseteq Messages
    /\ {Votes(Coordinator, p, TRUE) : p \in Participants} \subseteq Messages
<1> USE DEF Messages, Nodes
<1>1. \A p \in Participants :
          /\ Accept(p) \in Messages /\ Refuse(p) \in Messages /\ Keys(p) \in Messages
          /\ VoteOf(p, TRUE) \in Messages /\ VoteOf(p, FALSE) \in Messages
  BY DEF Accept, Refuse, Keys, VoteOf
<1>2. \A n \in Nodes, m \in Nodes :
          /\ \A ok \in BOOLEAN : Votes(n, m, ok) \in Messages
          /\ Request(n, m) \in Messages
  BY DEF Votes, Request
<1>3. \A S \in SUBSET Participants : {Keys(p) : p \in S} \subseteq Messages
  BY <1>1, Zenon
<1>4. {Votes(Coordinator, p, TRUE) : p \in Participants} \subseteq Messages
  <2>1. \A p \in Participants : Votes(Coordinator, p, TRUE) \in Messages
    BY <1>2
  <2>2. QED BY <2>1, Zenon
<1>5. QED
  BY <1>1, <1>2, <1>3, <1>4

LEMMA TypeCoordinator == TypeInv /\ CoordinatorStep => TypeInv'
<1> SUFFICES ASSUME TypeInv, CoordinatorStep PROVE TypeInv'
  OBVIOUS
<1> USE VotingAssumption DEF TypeInv, TypeOK, AttemptsLeft, Nodes, Moves, local, disk, observers
<1>1. UNCHANGED <<up, observers, crashes>>
  BY DEF CoordinatorStep
<1>2. CASE PropagateVotesList
  <2>1. {Keys(p) : p \in Participants} \subseteq Messages
    BY MessageTypes
  <2>2. QED BY <1>1, <1>2, <2>1 DEF PropagateVotesList, Send, CoordinatorPhases
<1>3. CASE CoordinatorRejects
  BY <1>1, <1>3 DEF CoordinatorRejects, CoordinatorPhases
<1>4. CASE ResendKeys
  <2>1. {Keys(p) : p \in Participants \ collected} \subseteq Messages
    BY MessageTypes
  <2>2. QED BY <1>1, <1>4, <2>1 DEF ResendKeys, Send
<1>5. ASSUME NEW p \in Participants, CollectVote(p) PROVE TypeInv'
  BY <1>1, <1>5 DEF CollectVote, CoordinatorPhases
<1>6. CASE AnnounceVotes
  <2>1. {Votes(Coordinator, p, TRUE) : p \in Participants} \subseteq Messages
    BY MessageTypes
  <2>2. QED BY <1>1, <1>6, <2>1 DEF AnnounceVotes, Send, CoordinatorPhases
<1>7. CASE CoordinatorCommits
  BY <1>1, <1>7 DEF CoordinatorCommits, CoordinatorPhases
<1>8. CASE CoordinatorFails
  BY <1>1, <1>8 DEF CoordinatorFails, CoordinatorPhases
<1>9. QED BY <1>2, <1>3, <1>4, <1>5, <1>6, <1>7, <1>8 DEF CoordinatorStep

LEMMA TypeParticipant ==
    ASSUME TypeInv, NEW p \in Participants, ParticipantStep(p)
    PROVE  TypeInv'
<1> USE VotingAssumption DEF TypeInv, TypeOK, AttemptsLeft, Nodes, Moves, local, disk, observers, ParticipantPhases
<1>1. UNCHANGED <<up, observers, crashes>>
  BY DEF ParticipantStep
<1>2. CASE ConfirmConfiguration(p)
  BY <1>1, <1>2, MessageTypes DEF ConfirmConfiguration, Send
<1>3. CASE RefuseConfiguration(p)
  BY <1>1, <1>3, MessageTypes DEF RefuseConfiguration, Send
<1>4. CASE GiveUpBeforeVote(p)
  BY <1>1, <1>4 DEF GiveUpBeforeVote
<1>5. CASE Vote(p)
  BY <1>1, <1>5, MessageTypes DEF Vote, Send
<1>6. CASE RefuseVote(p)
  BY <1>1, <1>6, MessageTypes DEF RefuseVote, Send
<1>7. CASE ReceiveVotes(p)
  BY <1>1, <1>7 DEF ReceiveVotes, Commits
<1>8. CASE StartRecovery(p)
  BY <1>1, <1>8 DEF StartRecovery
<1>9. CASE AskCoordinator(p)
  BY <1>1, <1>9, MessageTypes DEF AskCoordinator, Send
<1>10. CASE RecoverWithVotes(p)
  BY <1>1, <1>10 DEF RecoverWithVotes, Commits
<1>11. CASE AskNext(p)
  <2>1. PICK q \in toAsk[p] :
          /\ asked' = [asked EXCEPT ![p] = q]
          /\ toAsk' = [toAsk EXCEPT ![p] = @ \ {q}]
          /\ Send({Request(p, q)})
    BY <1>11 DEF AskNext
  <2>2. q \in Participants /\ Request(p, q) \in Messages
    BY MessageTypes
  <2>3. QED BY <1>1, <1>11, <2>1, <2>2 DEF AskNext, Send
<1>12. CASE EndRecoveryAttempt(p)
  BY <1>1, <1>12 DEF EndRecoveryAttempt
<1>13. QED
  BY <1>2, <1>3, <1>4, <1>5, <1>6, <1>7, <1>8, <1>9, <1>10, <1>11, <1>12 DEF ParticipantStep

LEMMA TypeObserving ==
    ASSUME TypeInv, NEW n \in Nodes, ObservingStep(n)
    PROVE  TypeInv'
<1> USE VotingAssumption DEF TypeInv, TypeOK, AttemptsLeft, Nodes, Moves, local, disk, observers,
                             ParticipantPhases
<1>1. UNCHANGED <<up, crashes>>
  BY DEF ObservingStep
<1>2. CASE n \in Participants /\ Claim(n)
  BY <1>1, <1>2 DEF Claim
<1>3. CASE n \in Participants /\ CommitByObservers(n)
  BY <1>1, <1>3 DEF CommitByObservers, Commits
<1>4. CASE n \in Participants /\ RejectByObservers(n)
  BY <1>1, <1>4 DEF RejectByObservers
<1>5. CASE PublishVotes(n)
  BY <1>1, <1>5 DEF PublishVotes
<1>6. QED
  BY <1>2, <1>3, <1>4, <1>5 DEF ObservingStep

LEMMA TypeCrash ==
    ASSUME TypeInv, NEW n \in Nodes, Crash(n)
    PROVE  TypeInv'
<1> USE VotingAssumption DEF TypeInv, TypeOK, AttemptsLeft, Nodes, Moves, disk, observers
<1>1. PhaseFromDisk(n) \in CoordinatorPhases \cup ParticipantPhases
  BY DEF PhaseFromDisk, CoordinatorPhases, ParticipantPhases
<1>2. /\ phase' = [phase EXCEPT ![n] = PhaseFromDisk(n)]
      /\ up' \in [Nodes -> BOOLEAN] /\ crashes' \in 0..MaxCrashes
      /\ UNCHANGED <<signed, saved, msgs, claimed, published, deadline>>
  BY DEF Crash
<1>3. CASE n = Coordinator
  BY <1>1, <1>2, <1>3 DEF Crash
<1>4. CASE n \in Participants
  BY <1>1, <1>2, <1>4 DEF Crash
<1>5. QED
  BY <1>3, <1>4

LEMMA TypeStep == TypeInv /\ [Next]_vars => TypeInv'
<1> SUFFICES ASSUME TypeInv, [Next]_vars PROVE TypeInv'
  OBVIOUS
<1>1. ASSUME NEW n \in Nodes, NEW p \in Participants, AnswerRequest(n, p),
             UNCHANGED <<up, observers, crashes>>
      PROVE  TypeInv'
  <2>1. Votes(n, p, n \in saved) \in Messages
    <3>1. (n \in saved) \in BOOLEAN
      BY SMT
    <3>2. p \in Nodes
      BY DEF Nodes
    <3>3. QED BY <3>1, <3>2, MessageTypes, Zenon
  <2>2. QED
    BY <1>1, <2>1 DEF AnswerRequest, Send, TypeInv, TypeOK, AttemptsLeft, local, disk, observers
<1>2. CASE DeadlinePasses
  BY <1>2 DEF DeadlinePasses, TypeInv, TypeOK, AttemptsLeft, local, disk
<1>3. ASSUME NEW n \in Nodes, Restart(n) PROVE TypeInv'
  BY <1>3 DEF Restart, TypeInv, TypeOK, AttemptsLeft, local, disk, observers
<1>4. CASE UNCHANGED vars
  BY <1>4 DEF vars, TypeInv, TypeOK, AttemptsLeft, local, disk, observers
<1>5. QED
  BY <1>1, <1>2, <1>3, <1>4, TypeCoordinator, TypeParticipant, TypeObserving, TypeCrash
     DEF Next, Answers

\* Every variable keeps its type, whatever is lost and whoever crashes.
THEOREM TypeCorrect == Spec => []TypeOK
<1>1. Spec => []TypeInv
  BY TypeInit, TypeStep, PTL DEF Spec
<1>2. TypeInv => TypeOK
  BY DEF TypeInv
<1>3. QED
  BY <1>1, <1>2, PTL

-----------------------------------------------------------------------------
(* The votes *)

LEMMA VotesInit == Init => VotesInv
BY VotingAssumption
   DEF Init, VotesInv, PhasesByRole, SignedByPhase, VotesWereGiven, VotesFromCoordinator,
       CommittedKeepVotes, VotesKnown, Nodes, CoordinatorPhases, ParticipantPhases

\* Sending the keys makes nobody's vote and no list of votes.
LEMMA KeysAreNoVotes ==
    ASSUME NEW S, Send({Keys(p) : p \in S})
    PROVE  /\ (\E m \in msgs' : m.type = "votes" /\ m.ok) => \E m \in msgs : m.type = "votes" /\ m.ok
           /\ \A p \in Participants : VoteOf(p, TRUE) \in msgs' => VoteOf(p, TRUE) \in msgs
<1>1. \A m \in msgs' : m \in msgs \/ \E p \in S : m = Keys(p)
  BY Zenon DEF Send
<1>2. \A p : Keys(p).type = "keys" /\ VoteOf(p, TRUE).type = "vote"
  BY DEF Keys, VoteOf
<1>3. QED
  BY <1>1, <1>2

LEMMA VotesCoordinator ==
    ASSUME TypeOK, VotesInv, SoundCoordinator, CoordinatorStep
    PROVE  VotesInv'
<1> USE VotingAssumption
    DEF TypeOK, VotesInv, PhasesByRole, SignedByPhase, VotesWereGiven, VotesFromCoordinator,
        CommittedKeepVotes, VotesKnown, Nodes, CoordinatorPhases, Moves, local, disk, observers
<1>1. UNCHANGED <<up, observers, crashes>>
  BY DEF CoordinatorStep
<1>2. CASE PropagateVotesList
  BY <1>1, <1>2, KeysAreNoVotes DEF PropagateVotesList
<1>3. CASE CoordinatorRejects
  BY <1>1, <1>3 DEF CoordinatorRejects
<1>4. CASE ResendKeys
  BY <1>1, <1>4, KeysAreNoVotes DEF ResendKeys
<1>5. ASSUME NEW p \in Participants, CollectVote(p) PROVE VotesInv'
  <2>1. p \in signed /\ phase[Coordinator] = "collecting" /\ collected' \subseteq signed
        /\ collected' = collected \cup {p} /\ msgs' = msgs /\ saved' = saved
    BY <1>5 DEF CollectVote
  <2>2. CASE collected' = Participants
    <3>1. phase' = [phase EXCEPT ![Coordinator] = "signed"] /\ signed' = signed \cup {Coordinator}
      BY <1>5, <2>2 DEF CollectVote
    <3>2. signed' = Nodes
      BY <2>1, <2>2, <3>1
    <3>3. QED BY <1>1, <2>1, <3>1, <3>2
  <2>3. CASE collected' # Participants
    BY <1>1, <1>5, <2>1, <2>3 DEF CollectVote
  <2>4. QED BY <2>2, <2>3
<1>6. CASE AnnounceVotes
  BY <1>1, <1>6 DEF AnnounceVotes, Send, Votes, VoteOf
<1>7. CASE CoordinatorCommits
  BY <1>1, <1>7 DEF CoordinatorCommits
<1>8. CASE CoordinatorFails
  BY <1>8 DEF CoordinatorFails, SoundCoordinator
<1>9. QED BY <1>2, <1>3, <1>4, <1>5, <1>6, <1>7, <1>8 DEF CoordinatorStep

\* Votes can be found only once every node has signed.
LEMMA VotesKnownAllSigned ==
    ASSUME VotesInv, VotesKnown
    PROVE  signed = Nodes /\ phase[Coordinator] \in {"announced", "committed"}
BY DEF VotesInv, VotesFromCoordinator, SignedByPhase, VotesWereGiven

\* A participant commits with votes it was given.
LEMMA VotesCommits ==
    ASSUME TypeOK, VotesInv, VotesKnown, UNCHANGED observers,
           NEW p \in Participants, Commits(p)
    PROVE  VotesInv'
<1>1. signed = Nodes /\ phase[Coordinator] \in {"announced", "committed"}
  BY VotesKnownAllSigned
<1>2. QED
  BY <1>1, VotingAssumption
     DEF Commits, TypeOK, VotesInv, PhasesByRole, SignedByPhase, VotesWereGiven,
         VotesFromCoordinator, CommittedKeepVotes, VotesKnown, Nodes, ParticipantPhases,
         Moves, observers

LEMMA VotesParticipant ==
    ASSUME TypeOK, VotesInv, NEW p \in Participants, ParticipantStep(p)
    PROVE  VotesInv'
<1> USE VotingAssumption
    DEF TypeOK, VotesInv, PhasesByRole, SignedByPhase, VotesWereGiven, VotesFromCoordinator,
        CommittedKeepVotes, VotesKnown, Nodes, ParticipantPhases, Moves, local, disk, observers
<1>1. UNCHANGED <<up, observers, crashes>>
  BY DEF ParticipantStep
<1>2. CASE ConfirmConfiguration(p)
  BY SMTT(60), <1>1, <1>2 DEF ConfirmConfiguration, Send, Accept, VoteOf
<1>3. CASE RefuseConfiguration(p)
  BY SMTT(60), <1>1, <1>3 DEF RefuseConfiguration, Send, Refuse, VoteOf
<1>4. CASE GiveUpBeforeVote(p)
  BY ZenonT(60), <1>1, <1>4 DEF GiveUpBeforeVote
<1>5. CASE Vote(p)
  BY SMTT(60), <1>1, <1>5 DEF Vote, Send, VoteOf
<1>6. CASE RefuseVote(p)
  BY SMTT(60), <1>1, <1>6 DEF RefuseVote, Send, VoteOf
<1>7. CASE ReceiveVotes(p)
  BY ZenonT(60), <1>1, <1>7, VotesCommits DEF ReceiveVotes, Votes
<1>8. CASE StartRecovery(p)
  BY ZenonT(60), <1>1, <1>8 DEF StartRecovery
<1>9. CASE AskCoordinator(p)
  BY SMTT(60), <1>1, <1>9 DEF AskCoordinator, Send, Request, VoteOf
<1>10. CASE RecoverWithVotes(p)
  BY ZenonT(60), <1>1, <1>10, VotesCommits DEF RecoverWithVotes, Votes
<1>11. CASE AskNext(p)
  BY SMTT(60), <1>1, <1>11 DEF AskNext, Send, Request, VoteOf
<1>12. CASE EndRecoveryAttempt(p)
  BY ZenonT(60), <1>1, <1>12 DEF EndRecoveryAttempt
<1>13. QED
  BY <1>2, <1>3, <1>4, <1>5, <1>6, <1>7, <1>8, <1>9, <1>10, <1>11, <1>12 DEF ParticipantStep

LEMMA VotesObserving ==
    ASSUME TypeOK, VotesInv, NEW n \in Nodes, ObservingStep(n)
    PROVE  VotesInv'
<1> USE VotingAssumption
    DEF TypeOK, VotesInv, PhasesByRole, SignedByPhase, VotesWereGiven, VotesFromCoordinator,
        CommittedKeepVotes, VotesKnown, Nodes, ParticipantPhases, Moves, local, disk
<1>1. CASE n \in Participants /\ Claim(n)
  BY ZenonT(60), <1>1 DEF Claim
<1>2. CASE n \in Participants /\ CommitByObservers(n)
  BY <1>2, VotesCommits DEF CommitByObservers
<1>3. CASE n \in Participants /\ RejectByObservers(n)
  BY <1>3 DEF RejectByObservers, observers
<1>4. CASE PublishVotes(n)
  BY <1>4 DEF PublishVotes
<1>5. QED
  BY <1>1, <1>2, <1>3, <1>4 DEF ObservingStep

LEMMA VotesAnswers ==
    ASSUME VotesInv, NEW n \in Nodes, NEW p \in Participants, AnswerRequest(n, p),
           UNCHANGED observers
    PROVE  VotesInv'
<1>1. \A m \in msgs' : m \in msgs \/ m = Votes(n, p, n \in saved)
  BY DEF AnswerRequest, Send
<1>2. \A q : VoteOf(q, TRUE) # Votes(n, p, n \in saved)
  BY DEF Votes, VoteOf
<1>3. Votes(n, p, n \in saved).ok => saved # {}
  BY DEF Votes
<1>4. (\E m \in msgs' : m.type = "votes" /\ m.ok) => VotesKnown
  BY <1>1, <1>3 DEF VotesKnown
<1>5. QED
  BY <1>1, <1>2, <1>4
     DEF AnswerRequest, VotesInv, PhasesByRole, SignedByPhase, VotesWereGiven,
         VotesFromCoordinator, CommittedKeepVotes, VotesKnown, local, disk, observers

LEMMA VotesCrash ==
    ASSUME TypeOK, VotesInv, SoundCoordinator, NEW n \in Nodes, Crash(n)
    PROVE  VotesInv'
<1>1. /\ phase' = [phase EXCEPT ![n] = PhaseFromDisk(n)]
      /\ phase[n] \notin {"signed", "announced"}
      /\ UNCHANGED <<signed, saved, msgs, claimed, published, deadline>>
      /\ collected' \subseteq collected
  BY DEF Crash, Moves, disk, observers, SoundCoordinator
<1>2. /\ phase[n] \in {"committed", "rejected", "observing"} => PhaseFromDisk(n) = phase[n]
      /\ phase[n] \in {"voted", "recovering", "uncertain"} => PhaseFromDisk(n) = "recovering"
      /\ phase[n] \in {"configured", "voting", "confirming", "collecting"}
            => PhaseFromDisk(n) = "rejected"
  BY DEF PhaseFromDisk
<1>3. CASE n = Coordinator
  BY <1>1, <1>2, <1>3, VotingAssumption
     DEF TypeOK, VotesInv, PhasesByRole, SignedByPhase, VotesWereGiven, VotesFromCoordinator,
         CommittedKeepVotes, VotesKnown, Nodes, CoordinatorPhases
<1>4. CASE n \in Participants
  BY <1>1, <1>2, <1>4, VotingAssumption
     DEF TypeOK, VotesInv, PhasesByRole, SignedByPhase, VotesWereGiven, VotesFromCoordinator,
         CommittedKeepVotes, VotesKnown, Nodes, ParticipantPhases
<1>5. QED
  BY <1>3, <1>4 DEF Nodes

LEMMA VotesStep ==
    ASSUME TypeOK, VotesInv, SoundCoordinator, [Next]_vars
    PROVE  VotesInv'
<1> USE DEF VotesInv, PhasesByRole, SignedByPhase, VotesWereGiven, VotesFromCoordinator,
            CommittedKeepVotes, VotesKnown, local, disk, observers
<1>1. CASE Answers
  BY <1>1, VotesAnswers DEF Answers
<1>2. CASE DeadlinePasses
  BY <1>2 DEF DeadlinePasses
<1>3. ASSUME NEW n \in Nodes, Restart(n) PROVE VotesInv'
  BY <1>3 DEF Restart
<1>4. CASE UNCHANGED vars
  BY <1>4 DEF vars
<1>5. QED
  BY <1>1, <1>2, <1>3, <1>4, VotesCoordinator, VotesParticipant, VotesObserving, VotesCrash
     DEF Next

\* No list of votes is kept or passed on before every node has signed, however
\* often messages are lost and nodes crash, when the coordinator is sound.
THEOREM VotesCompleteAlways == ASSUME SoundCoordinator PROVE Spec => []VotesAreComplete
<1>1. TypeInv /\ VotesInv /\ [Next]_vars => VotesInv'
  BY SoundCoordinator, VotesStep DEF TypeInv
<1>2. VotesInv => VotesAreComplete
  BY VotesKnownAllSigned DEF VotesAreComplete, VotesKnown
<1>3. QED
  BY <1>1, <1>2, TypeInit, TypeStep, VotesInit, PTL DEF Spec

-----------------------------------------------------------------------------
(* Agreement *)

LEMMA AgreementInit == Init => AgreementInv
BY DEF Init, AgreementInv, VotedRejectsLate, LostClaimWasRejected

\* A participant that is not deciding to reject, and leaves the observers alone,
\* disturbs neither part of AgreementInv.
LEMMA AgreementQuiet ==
    ASSUME TypeOK, VotesInv, AgreementInv, UNCHANGED observers,
           phase'[Coordinator] = phase[Coordinator],
           \A p \in Participants : p \in signed' /\ phase'[p] = "rejected"
                                   => p \in signed /\ phase[p] = "rejected"
    PROVE  AgreementInv'
BY DEF AgreementInv, VotedRejectsLate, LostClaimWasRejected, observers

LEMMA AgreementCoordinator ==
    ASSUME TypeOK, VotesInv, AgreementInv, SoundCoordinator, CoordinatorStep
    PROVE  AgreementInv'
<1>1. UNCHANGED observers
  BY DEF CoordinatorStep
<1>2. \A p \in Participants : phase'[p] = phase[p] /\ (p \in signed' <=> p \in signed)
  <2>1. phase' = phase \/ \E new : Moves(Coordinator, new)
    BY Zenon
       DEF CoordinatorStep, PropagateVotesList, CoordinatorRejects, ResendKeys, CollectVote,
           AnnounceVotes, CoordinatorCommits, CoordinatorFails
  <2>2. signed' = signed \/ signed' = signed \cup {Coordinator}
    BY DEF CoordinatorStep, PropagateVotesList, CoordinatorRejects, ResendKeys, CollectVote,
           AnnounceVotes, CoordinatorCommits, CoordinatorFails, disk, SoundCoordinator
  <2>3. QED BY <2>1, <2>2, VotingAssumption DEF Moves, TypeOK, Nodes
<1>3. phase[Coordinator] # "rejected"
  BY DEF CoordinatorStep, PropagateVotesList, CoordinatorRejects, ResendKeys, CollectVote,
         AnnounceVotes, CoordinatorCommits, CoordinatorFails
<1>4. QED
  BY <1>1, <1>2, <1>3 DEF AgreementInv, VotedRejectsLate, LostClaimWasRejected, observers

LEMMA AgreementParticipant ==
    ASSUME TypeOK, VotesInv, AgreementInv, NEW p \in Participants, ParticipantStep(p)
    PROVE  AgreementInv'
<1>1. UNCHANGED observers
  BY DEF ParticipantStep
<1>2. phase' = phase \/ \E new : Moves(p, new)
  BY Zenon
     DEF ParticipantStep, ConfirmConfiguration, RefuseConfiguration, GiveUpBeforeVote, Vote,
         RefuseVote, ReceiveVotes, StartRecovery, AskCoordinator, RecoverWithVotes, AskNext,
         EndRecoveryAttempt, Commits
<1>3. \A q \in Participants : q \in signed' /\ phase'[q] = "rejected"
                              => q \in signed /\ phase[q] = "rejected"
  <2>1. ASSUME NEW q \in Participants, q # p
        PROVE  phase'[q] = phase[q] /\ (q \in signed' <=> q \in signed)
    <3>1. signed' = signed \/ signed' = signed \cup {p}
      BY DEF ParticipantStep, ConfirmConfiguration, RefuseConfiguration, GiveUpBeforeVote, Vote,
             RefuseVote, ReceiveVotes, StartRecovery, AskCoordinator, RecoverWithVotes, AskNext,
             EndRecoveryAttempt, Commits, disk
    <3>2. QED BY <1>2, <2>1, <3>1 DEF Moves, TypeOK, Nodes
  <2>2. ~(p \in signed' /\ phase'[p] = "rejected")
    BY DEF ParticipantStep, ConfirmConfiguration, RefuseConfiguration, GiveUpBeforeVote, Vote,
           RefuseVote, ReceiveVotes, StartRecovery, AskCoordinator, RecoverWithVotes, AskNext,
           EndRecoveryAttempt, Commits, Moves, TypeOK, Nodes, disk, VotesInv, SignedByPhase
  <2>3. QED BY <2>1, <2>2
<1>4. phase'[Coordinator] = phase[Coordinator]
  BY <1>2, VotingAssumption DEF Moves, TypeOK, Nodes
<1>5. QED
  BY <1>1, <1>3, <1>4, AgreementQuiet

LEMMA AgreementObserving ==
    ASSUME TypeOK, VotesInv, AgreementInv, NEW n \in Nodes, ObservingStep(n)
    PROVE  AgreementInv'
<1> USE VotingAssumption
    DEF TypeOK, AgreementInv, VotedRejectsLate, LostClaimWasRejected, Nodes, Moves, disk, observers
<1>1. CASE n \in Participants /\ Claim(n)
  BY <1>1 DEF Claim
<1>2. CASE n \in Participants /\ CommitByObservers(n)
  BY <1>2 DEF CommitByObservers, Commits
<1>3. CASE n \in Participants /\ RejectByObservers(n)
  BY <1>3 DEF RejectByObservers
<1>4. CASE PublishVotes(n)
  BY <1>4 DEF PublishVotes
<1>5. QED
  BY <1>1, <1>2, <1>3, <1>4 DEF ObservingStep

\* The last block in time: if it finds a claim and no votes, nobody has any, and
\* the coordinator, which has decided, has rejected.
LEMMA AgreementDeadline ==
    ASSUME TypeOK, VotesInv, AgreementInv, TimelyObservers, DeadlinePasses
    PROVE  AgreementInv'
<1>1. InTime /\ UNCHANGED <<phase, signed, saved, claimed, published>>
  BY DEF DeadlinePasses, disk
<1>2. claimed /\ ~published => phase[Coordinator] = "rejected"
  BY <1>1 DEF InTime, VotesInv, CommittedKeepVotes, PhasesByRole, CoordinatorPhases, Nodes
<1>3. QED
  BY <1>1, <1>2 DEF DeadlinePasses, AgreementInv, VotedRejectsLate, LostClaimWasRejected

LEMMA AgreementCrash ==
    ASSUME TypeOK, VotesInv, AgreementInv, NEW n \in Nodes, Crash(n)
    PROVE  AgreementInv'
<1>1. /\ phase' = [phase EXCEPT ![n] = PhaseFromDisk(n)]
      /\ UNCHANGED <<signed, claimed, published, deadline>>
  BY DEF Crash, Moves, disk, observers
<1>2. PhaseFromDisk(n) = "rejected" /\ n \in signed => phase[n] = "rejected"
  BY DEF PhaseFromDisk, VotesInv, SignedByPhase, PhasesByRole, ParticipantPhases,
         CoordinatorPhases, Nodes
<1>3. phase[n] = "rejected" => PhaseFromDisk(n) = "rejected"
  BY DEF PhaseFromDisk
<1>4. QED
  BY <1>1, <1>2, <1>3 DEF TypeOK, AgreementInv, VotedRejectsLate, LostClaimWasRejected, Nodes

LEMMA AgreementStep ==
    ASSUME TypeOK, VotesInv, AgreementInv, SoundCoordinator, TimelyObservers, [Next]_vars
    PROVE  AgreementInv'
<1>1. CASE Answers
  BY <1>1, AgreementQuiet DEF Answers, AnswerRequest, disk
<1>2. ASSUME NEW n \in Nodes, Restart(n) PROVE AgreementInv'
  BY <1>2, AgreementQuiet DEF Restart, disk
<1>3. CASE UNCHANGED vars
  BY <1>3, AgreementQuiet DEF vars, disk
<1>4. QED
  BY <1>1, <1>2, <1>3, AgreementCoordinator, AgreementParticipant, AgreementObserving,
     AgreementDeadline, AgreementCrash
     DEF Next

LEMMA AgreementFromInv ==
    ASSUME VotesInv, AgreementInv
    PROVE  Agreement
<1>1. SUFFICES ASSUME NEW n \in Nodes, NEW m \in Nodes,
                      phase[n] = "committed", phase[m] = "rejected"
               PROVE  FALSE
  BY DEF Agreement
<1>2. VotesKnown
  BY <1>1 DEF VotesInv, CommittedKeepVotes, VotesKnown
<1>3. signed = Nodes /\ phase[Coordinator] # "rejected"
  BY <1>2, VotesKnownAllSigned
<1>4. QED
  BY <1>1, <1>3 DEF Nodes, AgreementInv, VotedRejectsLate, LostClaimWasRejected

\* No node commits what another rejects.
THEOREM AgreementAlways ==
    ASSUME SoundCoordinator, TimelyObservers
    PROVE  Spec => []Agreement
<1>1. TypeInv /\ VotesInv /\ AgreementInv /\ [Next]_vars => VotesInv' /\ AgreementInv'
  BY SoundCoordinator, TimelyObservers, VotesStep, AgreementStep DEF TypeInv
<1>2. VotesInv /\ AgreementInv => Agreement
  BY AgreementFromInv
<1>3. QED
  BY <1>1, <1>2, TypeInit, TypeStep, VotesInit, AgreementInit, PTL DEF Spec

-----------------------------------------------------------------------------
(* Decisions, and the refinement *)

Decided == {"committed", "rejected"}

\* What a step does to phase and signed: it concerns one node, which has not
\* decided, and a node that signs does not decide in the same step.
MovesOnly(n) == \/ phase' = phase
                \/ phase[n] \notin Decided /\ \E new : Moves(n, new)
SignsOnly(n) == \/ signed' = signed
                \/ /\ signed' = signed \cup {n}
                   /\ phase[n] \notin Decided
                   /\ \E new : new \notin Decided /\ Moves(n, new)

LEMMA CoordinatorMoves ==
    ASSUME CoordinatorStep
    PROVE  MovesOnly(Coordinator) /\ (SoundCoordinator => SignsOnly(Coordinator))
<1> USE DEF MovesOnly, SignsOnly, Decided, disk
<1>1. CASE PropagateVotesList
  BY <1>1 DEF PropagateVotesList
<1>2. CASE CoordinatorRejects
  BY <1>2 DEF CoordinatorRejects
<1>3. CASE ResendKeys
  BY <1>3 DEF ResendKeys
<1>4. ASSUME NEW p \in Participants, CollectVote(p)
      PROVE  MovesOnly(Coordinator) /\ SignsOnly(Coordinator)
  BY <1>4 DEF CollectVote
<1>5. CASE AnnounceVotes
  BY <1>5 DEF AnnounceVotes
<1>6. CASE CoordinatorCommits
  BY <1>6 DEF CoordinatorCommits
<1>7. CASE CoordinatorFails
  BY <1>7 DEF CoordinatorFails, SoundCoordinator
<1>8. QED
  BY <1>1, <1>2, <1>3, <1>4, <1>5, <1>6, <1>7 DEF CoordinatorStep

LEMMA ParticipantMoves ==
    ASSUME NEW p \in Participants, ParticipantStep(p)
    PROVE  MovesOnly(p) /\ SignsOnly(p)
<1> USE DEF MovesOnly, SignsOnly, Decided, disk, local
<1>1. CASE \/ ConfirmConfiguration(p) \/ RefuseConfiguration(p) \/ GiveUpBeforeVote(p)
           \/ RefuseVote(p)
  BY <1>1 DEF ConfirmConfiguration, RefuseConfiguration, GiveUpBeforeVote, RefuseVote
<1>2. CASE Vote(p)
  BY <1>2 DEF Vote
<1>3. CASE ReceiveVotes(p) \/ RecoverWithVotes(p)
  BY <1>3 DEF ReceiveVotes, RecoverWithVotes, Commits
<1>4. CASE StartRecovery(p) \/ AskCoordinator(p) \/ AskNext(p)
  BY <1>4 DEF StartRecovery, AskCoordinator, AskNext
<1>5. CASE EndRecoveryAttempt(p)
  BY <1>5 DEF EndRecoveryAttempt
<1>6. QED
  BY <1>1, <1>2, <1>3, <1>4, <1>5 DEF ParticipantStep

LEMMA OneNodeMoves ==
    ASSUME TypeOK, [Next]_vars
    PROVE  \E n \in Nodes : MovesOnly(n) /\ (SoundCoordinator => SignsOnly(n))
<1>1. CASE CoordinatorStep
  BY <1>1, CoordinatorMoves DEF Nodes
<1>2. ASSUME NEW p \in Participants, ParticipantStep(p)
      PROVE  \E n \in Nodes : MovesOnly(n) /\ SignsOnly(n)
  BY <1>2, ParticipantMoves DEF Nodes
<1>3. ASSUME NEW n \in Nodes, ObservingStep(n)
      PROVE  MovesOnly(n) /\ SignsOnly(n)
  BY <1>3 DEF ObservingStep, Claim, CommitByObservers, Commits, RejectByObservers, PublishVotes,
              MovesOnly, SignsOnly, Decided, disk
<1>4. ASSUME NEW n \in Nodes, Crash(n)
      PROVE  MovesOnly(n) /\ SignsOnly(n)
  <2>1. Moves(n, PhaseFromDisk(n)) /\ signed' = signed
    BY <1>4 DEF Crash, disk
  <2>2. phase[n] \in Decided => PhaseFromDisk(n) = phase[n]
    BY DEF PhaseFromDisk, Decided
  <2>3. phase[n] \in Decided => phase' = phase
    BY <2>1, <2>2 DEF Moves, TypeOK
  <2>4. QED BY <2>1, <2>3 DEF MovesOnly, SignsOnly
<1>5. CASE Answers \/ DeadlinePasses \/ (\E n \in Nodes : Restart(n)) \/ UNCHANGED vars
  <2>1. phase' = phase /\ signed' = signed
    BY <1>5 DEF Answers, AnswerRequest, DeadlinePasses, Restart, vars, disk
  <2>2. QED BY <2>1 DEF MovesOnly, SignsOnly, Nodes
<1>6. QED
  BY <1>1, <1>2, <1>3, <1>4, <1>5 DEF Next

\* A decision is for good, even when the coordinator fails and crashes.
THEOREM DecisionFinal == Spec => DecisionIsFinal
<1>1. TypeInv /\ [Next]_vars
        => [\A n \in Nodes : phase[n] \in {"committed", "rejected"} => phase'[n] = phase[n]]_vars
  <2>1. SUFFICES ASSUME TypeOK, [Next]_vars, NEW m \in Nodes, phase[m] \in Decided
                 PROVE  phase'[m] = phase[m]
    BY DEF TypeInv, Decided
  <2>2. PICK n \in Nodes : MovesOnly(n)
    BY <2>1, OneNodeMoves
  <2>3. QED BY <2>1, <2>2 DEF MovesOnly, Moves, TypeOK
<1>2. QED
  BY <1>1, TypeInit, TypeStep, PTL DEF Spec, DecisionIsFinal

\* A node that has voted rejects only on the word of the observers.
THEOREM VotedNotCancelled == ASSUME SoundCoordinator PROVE Spec => VotedIsNotSimplyCancelled
<1>1. TypeInv /\ VotesInv /\ [Next]_vars
        => [\A n \in Nodes : /\ n \in signed
                             /\ phase[n] # "rejected" /\ phase'[n] = "rejected"
                             => claimed /\ deadline /\ ~published]_vars
  <2>1. SUFFICES ASSUME TypeOK, VotesInv, Next, NEW n \in Nodes,
                        n \in signed, phase[n] # "rejected", phase'[n] = "rejected"
                 PROVE  claimed /\ deadline /\ ~published
    BY DEF TypeInv
  <2>2. ~CoordinatorStep
    <3>1. SUFFICES ASSUME CoordinatorStep PROVE FALSE
      OBVIOUS
    <3>2. n = Coordinator
      BY <2>1, <3>1, CoordinatorMoves DEF MovesOnly, Moves, TypeOK
    <3>3. phase[Coordinator] \in {"signed", "announced", "committed"}
      BY <2>1, <3>2 DEF VotesInv, SignedByPhase
    <3>4. CoordinatorCommits \/ AnnounceVotes
      BY <3>1, <3>3, SoundCoordinator
         DEF CoordinatorStep, PropagateVotesList, CoordinatorRejects, ResendKeys, CollectVote,
             CoordinatorFails, SoundCoordinator
    <3>5. QED
      BY <2>1, <3>2, <3>4 DEF CoordinatorCommits, AnnounceVotes, Moves, TypeOK
  <2>3. ASSUME NEW p \in Participants, ParticipantStep(p) PROVE FALSE
    <3>1. n = p
      BY <2>1, <2>3, ParticipantMoves DEF MovesOnly, Moves, TypeOK
    <3>2. n \in Participants /\ phase[n] \notin {"configured", "voting"}
      BY <2>1, <3>1 DEF VotesInv, SignedByPhase
    <3>3. QED
      BY <2>1, <2>3, <3>1, <3>2
         DEF ParticipantStep, ConfirmConfiguration, RefuseConfiguration, GiveUpBeforeVote, Vote,
             RefuseVote, ReceiveVotes, StartRecovery, AskCoordinator, RecoverWithVotes, AskNext,
             EndRecoveryAttempt, Commits, Moves, TypeOK
  <2>4. ASSUME NEW m \in Nodes, ObservingStep(m) PROVE claimed /\ deadline /\ ~published
    BY <2>1, <2>4
       DEF ObservingStep, Claim, CommitByObservers, RejectByObservers, PublishVotes, Commits,
           Moves, TypeOK
  <2>5. ASSUME NEW m \in Nodes, Crash(m) PROVE FALSE
    <3>1. Moves(m, PhaseFromDisk(m))
      BY <2>5 DEF Crash
    <3>2. n = m /\ PhaseFromDisk(n) = "rejected"
      BY <2>1, <3>1 DEF Moves, TypeOK
    <3>3. QED
      BY <2>1, <3>2 DEF PhaseFromDisk, VotesInv, SignedByPhase, PhasesByRole, CoordinatorPhases,
                        ParticipantPhases, Nodes
  <2>6. ~(Answers \/ DeadlinePasses \/ \E m \in Nodes : Restart(m))
    BY <2>1 DEF Answers, AnswerRequest, DeadlinePasses, Restart
  <2>7. QED
    BY <2>1, <2>2, <2>3, <2>4, <2>5, <2>6 DEF Next
<1>2. TypeInv /\ VotesInv /\ [Next]_vars => VotesInv'
  BY SoundCoordinator, VotesStep DEF TypeInv
<1>3. QED
  BY <1>1, <1>2, TypeInit, TypeStep, VotesInit, PTL DEF Spec, VotedIsNotSimplyCancelled

LEMMA RefinementInit == Init => Abstract!Init
BY VotingAssumption DEF Init, Decision, Abstract!Init, Nodes

LEMMA RefinementStep ==
    ASSUME TypeOK, TypeOK', VotesInv', AgreementInv', SoundCoordinator, [Next]_vars
    PROVE  [Abstract!Next]_<<signed, Decision>>
<1>1. PICK n \in Nodes : MovesOnly(n) /\ SignsOnly(n)
  BY OneNodeMoves
<1>2. Agreement'
  BY AgreementFromInv, PTL
<1>3. CASE signed' # signed
  <2>1. Decision' = Decision /\ Decision[n] = "undecided" /\ signed' = signed \cup {n}
    BY <1>1, <1>3 DEF SignsOnly, Moves, Decided, Decision, TypeOK
  <2>2. QED BY <2>1 DEF Abstract!Next, Abstract!Vote
<1>4. CASE signed' = signed /\ phase' = phase
  BY <1>4 DEF Decision
<1>5. ASSUME signed' = signed, phase[n] \notin Decided, NEW new, Moves(n, new)
      PROVE  [Abstract!Next]_<<signed, Decision>>
  <2>1. /\ phase'[n] = new
        /\ \A m \in Nodes \ {n} : phase'[m] = phase[m]
    BY <1>5 DEF Moves, TypeOK
  <2>2. CASE new \notin Decided
    <3>1. Decision' = Decision
      BY <1>5, <2>1, <2>2 DEF Decision, Decided
    <3>2. QED BY <1>5, <3>1
  <2>3. CASE new \in Decided
    <3>1. Decision' = [Decision EXCEPT ![n] = new] /\ Decision[n] = "undecided"
      BY <1>5, <2>1, <2>3 DEF Decision, Decided
    <3>2. CASE new = "committed"
      <4>1. VotesKnown'
        BY <2>1, <3>2 DEF VotesInv, CommittedKeepVotes, VotesKnown
      <4>2. signed = Nodes
        BY <1>5, <4>1 DEF VotesInv, VotesFromCoordinator, SignedByPhase, VotesWereGiven
      <4>3. \A m \in Nodes : Decision[m] # "rejected"
        BY <1>2, <1>5, <2>1, <3>2 DEF Agreement, Decision, Decided
      <4>4. QED BY <1>5, <3>1, <3>2, <4>2, <4>3 DEF Abstract!Next, Abstract!Commit
    <3>3. CASE new = "rejected"
      <4>1. \A m \in Nodes : Decision[m] # "committed"
        BY <1>2, <1>5, <2>1, <3>3 DEF Agreement, Decision, Decided
      <4>2. QED BY <1>5, <3>1, <3>3, <4>1 DEF Abstract!Next, Abstract!Reject
    <3>4. QED BY <2>3, <3>2, <3>3 DEF Decided
  <2>4. QED BY <2>2, <2>3
<1>6. QED
  BY <1>1, <1>3, <1>4, <1>5 DEF MovesOnly

\* The voting, the recovery and the observers together implement an atomic commit.
THEOREM Refinement ==
    ASSUME SoundCoordinator, TimelyObservers
    PROVE  Spec => ImplementsAtomicCommit
<1>1. TypeInv /\ VotesInv /\ AgreementInv /\ [Next]_vars => VotesInv' /\ AgreementInv'
  BY SoundCoordinator, TimelyObservers, VotesStep, AgreementStep DEF TypeInv
<1>2. TypeInv /\ TypeInv' /\ VotesInv' /\ AgreementInv' /\ [Next]_vars
        => [Abstract!Next]_<<signed, Decision>>
  BY SoundCoordinator, RefinementStep DEF TypeInv
<1>3. QED
  BY <1>1, <1>2, TypeInit, TypeStep, VotesInit, AgreementInit, RefinementInit, PTL
     DEF Spec, ImplementsAtomicCommit, Abstract!Spec

-----------------------------------------------------------------------------
(* Disagreement, when the coordinator may be stopped in its commit and the last *)
(* block may come at any time                                                   *)

Announced == \E p \in Participants : Votes(Coordinator, p, TRUE) \in msgs

\* A participant's signature stays, whatever the coordinator's database does.
SignedByParticipants ==
    \A p \in Participants :
        /\ p \in signed => phase[p] \notin {"configured", "voting"}
        /\ p \notin signed => phase[p] \in {"configured", "voting", "rejected"}

VotesWereTaken ==
    /\ collected \subseteq signed
    /\ \A p \in Participants : VoteOf(p, TRUE) \in msgs => p \in signed

\* The coordinator signs after all participants, and announces before anybody
\* has the votes.
CoordinatorSignsLast ==
    phase[Coordinator] \in {"signed", "announced"} \/ Announced => Participants \subseteq signed
AnnouncedFirst == VotesKnown \/ phase[Coordinator] = "announced" => Announced

ParticipantsKeepVotes == \A p \in Participants : phase[p] = "committed" => p \in saved

FaultInv == /\ PhasesByRole /\ SignedByParticipants /\ VotesWereTaken
            /\ CoordinatorSignsLast /\ AnnouncedFirst /\ ParticipantsKeepVotes
            /\ VotedRejectsLate

LEMMA FaultInit == Init => FaultInv
BY VotingAssumption
   DEF Init, FaultInv, PhasesByRole, SignedByParticipants, VotesWereTaken, CoordinatorSignsLast,
       AnnouncedFirst, ParticipantsKeepVotes, VotedRejectsLate, Announced, VotesKnown, Nodes,
       CoordinatorPhases, ParticipantPhases

\* FaultInv lets two nodes disagree only after a missed deadline, or when one of
\* them is a coordinator that was interrupted.
LEMMA DisagreementFromInv ==
    ASSUME FaultInv
    PROVE  DisagreementNeedsMissedDeadline
<1>1. SUFFICES ASSUME NEW n \in Nodes, NEW m \in Nodes,
                      phase[n] = "committed", phase[m] = "rejected",
                      ~(Coordinator \in {n, m} /\ CoordinatorInterrupted)
               PROVE  claimed /\ deadline /\ ~published
  BY DEF DisagreementNeedsMissedDeadline
<1>2. n \in saved
  <2>1. CASE n = Coordinator
    BY <1>1, <2>1 DEF CoordinatorInterrupted
  <2>2. CASE n \in Participants
    BY <1>1, <2>2 DEF FaultInv, ParticipantsKeepVotes
  <2>3. QED BY <2>1, <2>2 DEF Nodes
<1>3. Announced /\ Participants \subseteq signed
  BY <1>2 DEF FaultInv, AnnouncedFirst, CoordinatorSignsLast, VotesKnown
<1>4. m # Coordinator
  BY <1>1, <1>3 DEF CoordinatorInterrupted, Announced
<1>5. QED
  BY <1>1, <1>3, <1>4 DEF FaultInv, VotedRejectsLate, Nodes

\* What a step that sends no votes, and saves none, leaves of AnnouncedFirst.
LEMMA NoVotesSent ==
    ASSUME msgs \subseteq msgs', \A m \in msgs' : m \in msgs \/ m.type # "votes",
           UNCHANGED <<saved, published>>
    PROVE  (VotesKnown' <=> VotesKnown) /\ (Announced' <=> Announced)
<1>1. \A p : Votes(Coordinator, p, TRUE) \in msgs' => Votes(Coordinator, p, TRUE) \in msgs
  BY DEF Votes
<1>2. QED BY <1>1 DEF VotesKnown, Announced

LEMMA FaultCoordinator ==
    ASSUME TypeOK, FaultInv, CoordinatorStep
    PROVE  FaultInv'
<1> USE VotingAssumption
    DEF TypeOK, FaultInv, PhasesByRole, SignedByParticipants, VotesWereTaken, CoordinatorSignsLast,
        AnnouncedFirst, ParticipantsKeepVotes, VotedRejectsLate, Nodes, CoordinatorPhases,
        Moves, local, disk, observers
<1>1. UNCHANGED <<up, observers, crashes>>
  BY DEF CoordinatorStep
<1>2. CASE PropagateVotesList \/ ResendKeys
  <2>1. PICK S \in SUBSET Participants : msgs' = msgs \cup {Keys(p) : p \in S}
    BY <1>2 DEF PropagateVotesList, ResendKeys, Send
  <2>2. \A m \in msgs' : m \in msgs \/ m.type = "keys"
    BY <2>1 DEF Keys
  <2>3. (VotesKnown' <=> VotesKnown) /\ (Announced' <=> Announced)
    BY <1>1, <1>2, <2>1, <2>2, NoVotesSent DEF PropagateVotesList, ResendKeys
  <2>4. \A p : VoteOf(p, TRUE) \in msgs' => VoteOf(p, TRUE) \in msgs
    BY <2>2 DEF VoteOf
  <2>5. CASE PropagateVotesList
    BY <1>1, <2>3, <2>4, <2>5 DEF PropagateVotesList
  <2>6. CASE ResendKeys
    BY <1>1, <2>3, <2>4, <2>6 DEF ResendKeys
  <2>7. QED BY <1>2, <2>5, <2>6
<1>3. CASE CoordinatorRejects
  BY <1>1, <1>3, NoVotesSent DEF CoordinatorRejects
<1>4. ASSUME NEW p \in Participants, CollectVote(p) PROVE FaultInv'
  <2>1. p \in signed /\ UNCHANGED <<msgs, saved>> /\ collected' = collected \cup {p}
    BY <1>4 DEF CollectVote
  <2>2. (VotesKnown' <=> VotesKnown) /\ (Announced' <=> Announced)
    BY <1>1, <2>1, NoVotesSent
  <2>3. CASE collected' = Participants
    <3>1. Participants \subseteq signed
      BY <2>1, <2>3
    <3>2. Moves(Coordinator, "signed") /\ signed' = signed \cup {Coordinator}
      BY <1>4, <2>3 DEF CollectVote
    <3>3. /\ phase'[Coordinator] = "signed"
          /\ \A q \in Participants : phase'[q] = phase[q] /\ (q \in signed' <=> q \in signed)
      BY <3>2
    <3>4. QED BY <1>1, <2>1, <2>2, <3>1, <3>2, <3>3
  <2>4. CASE collected' # Participants
    BY ZenonT(60), <1>1, <1>4, <2>1, <2>2, <2>4 DEF CollectVote
  <2>5. QED BY <2>3, <2>4
<1>5. CASE AnnounceVotes
  <2>1. Announced'
    <3>1. PICK p \in Participants : TRUE
      OBVIOUS
    <3>2. Votes(Coordinator, p, TRUE) \in msgs'
      BY ZenonT(60), <1>5 DEF AnnounceVotes, Send
    <3>3. QED BY <3>2 DEF Announced
  <2>2. \A p : VoteOf(p, TRUE) \in msgs' => VoteOf(p, TRUE) \in msgs
    BY <1>5 DEF AnnounceVotes, Send, Votes, VoteOf
  <2>3. QED BY <1>1, <1>5, <2>1, <2>2 DEF AnnounceVotes
<1>6. CASE CoordinatorCommits
  BY ZenonT(60), <1>1, <1>6 DEF CoordinatorCommits, Announced
<1>7. CASE CoordinatorFails
  BY ZenonT(60), <1>1, <1>7, NoVotesSent DEF CoordinatorFails
<1>8. QED BY <1>2, <1>3, <1>4, <1>5, <1>6, <1>7 DEF CoordinatorStep

\* A participant commits with votes it was given.
LEMMA FaultCommits ==
    ASSUME TypeOK, FaultInv, VotesKnown, UNCHANGED observers, NEW p \in Participants, Commits(p),
           phase[p] \notin {"configured", "voting", "rejected"}
    PROVE  FaultInv'
<1>1. Announced /\ Announced'
  BY DEF FaultInv, AnnouncedFirst, Commits, Announced
<1>2. QED
  BY <1>1, VotingAssumption
     DEF Commits, TypeOK, FaultInv, PhasesByRole, SignedByParticipants, VotesWereTaken,
         CoordinatorSignsLast, AnnouncedFirst, ParticipantsKeepVotes, VotedRejectsLate, Nodes,
         ParticipantPhases, Moves, observers

\* What a participant's step may change short of a commit.
LEMMA FaultMoves ==
    ASSUME TypeOK, FaultInv, NEW p \in Participants, NEW new \in ParticipantPhases \ {"committed"},
           Moves(p, new) \/ (phase' = phase /\ new = phase[p]),
           UNCHANGED <<observers, collected, saved>>,
           VotesKnown' <=> VotesKnown, Announced' <=> Announced,
           signed' = signed \/ signed' = signed \cup {p},
           p \in signed' => new \notin {"configured", "voting"},
           p \notin signed' => new \in {"configured", "voting", "rejected"},
           p \in signed' /\ new = "rejected" => claimed /\ deadline /\ ~published,
           \A q \in Participants : VoteOf(q, TRUE) \in msgs' => VoteOf(q, TRUE) \in msgs \/ q \in signed'
    PROVE  FaultInv'
<1>1. /\ phase'[p] = new /\ phase'[Coordinator] = phase[Coordinator]
      /\ \A q \in Participants \ {p} : phase'[q] = phase[q] /\ (q \in signed' <=> q \in signed)
  BY VotingAssumption DEF Moves, TypeOK, Nodes
<1>2. signed \subseteq signed' /\ UNCHANGED <<claimed, published, deadline>>
  BY DEF observers
<1>3. PhasesByRole' /\ SignedByParticipants' /\ VotesWereTaken'
  BY <1>1, <1>2 DEF FaultInv, PhasesByRole, SignedByParticipants, VotesWereTaken
<1>4. CoordinatorSignsLast' /\ AnnouncedFirst'
  BY <1>1, <1>2 DEF FaultInv, CoordinatorSignsLast, AnnouncedFirst
<1>5. ParticipantsKeepVotes' /\ VotedRejectsLate'
  BY <1>1, <1>2 DEF FaultInv, ParticipantsKeepVotes, VotedRejectsLate
<1>6. QED BY <1>3, <1>4, <1>5 DEF FaultInv

LEMMA FaultParticipant ==
    ASSUME TypeOK, FaultInv, NEW p \in Participants, ParticipantStep(p)
    PROVE  FaultInv'
<1>1. UNCHANGED <<up, observers, crashes>>
  BY DEF ParticipantStep
<1>2. ASSUME NEW m, Send({m}), m.type # "votes", UNCHANGED saved
      PROVE  (VotesKnown' <=> VotesKnown) /\ (Announced' <=> Announced)
  BY <1>1, <1>2, NoVotesSent DEF Send, observers
<1>3. ASSUME NEW m, Send({m}), m.type # "vote"
      PROVE  \A q \in Participants : VoteOf(q, TRUE) \in msgs' => VoteOf(q, TRUE) \in msgs
  BY <1>3 DEF Send, VoteOf
<1>4. msgs' = msgs /\ saved' = saved => (VotesKnown' <=> VotesKnown) /\ (Announced' <=> Announced)
  BY <1>1, NoVotesSent DEF observers
<1>5. /\ p \in signed => phase[p] \notin {"configured", "voting"}
      /\ p \notin signed => phase[p] \in {"configured", "voting", "rejected"}
  BY DEF FaultInv, SignedByParticipants
<1>6. CASE ConfirmConfiguration(p)
  <2>1. Accept(p).type = "accept"
    BY DEF Accept
  <2>2. /\ phase[p] = "configured" /\ Moves(p, "voting") /\ Send({Accept(p)})
        /\ UNCHANGED <<collected, signed, saved>>
    BY <1>6 DEF ConfirmConfiguration, local, disk
  <2>3. QED BY <1>1, <1>2, <1>3, <1>5, <2>1, <2>2, FaultMoves DEF ParticipantPhases
<1>7. CASE RefuseConfiguration(p)
  <2>1. Refuse(p).type = "accept"
    BY DEF Refuse
  <2>2. /\ phase[p] = "configured" /\ Moves(p, "rejected") /\ Send({Refuse(p)})
        /\ UNCHANGED <<collected, signed, saved>>
    BY <1>7 DEF RefuseConfiguration, local, disk
  <2>3. QED BY <1>1, <1>2, <1>3, <1>5, <2>1, <2>2, FaultMoves DEF ParticipantPhases
<1>8. CASE GiveUpBeforeVote(p)
  <2>1. /\ phase[p] \in {"configured", "voting"} /\ Moves(p, "rejected")
        /\ UNCHANGED <<collected, signed, saved, msgs>>
    BY <1>8 DEF GiveUpBeforeVote, local, disk
  <2>2. QED BY <1>1, <1>4, <1>5, <2>1, FaultMoves DEF ParticipantPhases
<1>9. CASE Vote(p)
  <2>1. VoteOf(p, TRUE).type = "vote" /\ \A q : VoteOf(q, TRUE) = VoteOf(p, TRUE) => q = p
    BY DEF VoteOf
  <2>2. /\ Moves(p, "voted") /\ signed' = signed \cup {p} /\ Send({VoteOf(p, TRUE)})
        /\ UNCHANGED <<collected, saved>>
    BY <1>9 DEF Vote, local
  <2>3. \A q \in Participants : VoteOf(q, TRUE) \in msgs' => VoteOf(q, TRUE) \in msgs \/ q \in signed'
    BY <2>1, <2>2 DEF Send
  <2>4. (VotesKnown' <=> VotesKnown) /\ (Announced' <=> Announced)
    BY <1>2, <2>1, <2>2
  <2>5. p \in signed' /\ "voted" \in ParticipantPhases \ {"committed"}
    BY <2>2 DEF ParticipantPhases
  <2>6. QED BY <1>1, <2>2, <2>3, <2>4, <2>5, FaultMoves
<1>10. CASE RefuseVote(p)
  <2>1. VoteOf(p, FALSE).type = "vote" /\ \A q : VoteOf(q, TRUE) # VoteOf(p, FALSE)
    BY DEF VoteOf
  <2>2. /\ phase[p] = "voting" /\ Moves(p, "rejected") /\ Send({VoteOf(p, FALSE)})
        /\ UNCHANGED <<collected, signed, saved>>
    BY <1>10 DEF RefuseVote, local, disk
  <2>3. \A q \in Participants : VoteOf(q, TRUE) \in msgs' => VoteOf(q, TRUE) \in msgs
    BY <2>1, <2>2 DEF Send
  <2>4. QED BY <1>1, <1>2, <1>5, <2>1, <2>2, <2>3, FaultMoves DEF ParticipantPhases
<1>11. CASE ReceiveVotes(p)
  BY <1>1, <1>11, FaultCommits DEF ReceiveVotes, Votes, VotesKnown
<1>12. CASE StartRecovery(p) \/ EndRecoveryAttempt(p)
  <2>1. /\ UNCHANGED <<collected, signed, saved, msgs>>
        /\ phase[p] \in {"voted", "recovering"}
        /\ \E new \in {"recovering", "observing"} :
              Moves(p, new) \/ (phase' = phase /\ new = phase[p])
    BY <1>12 DEF StartRecovery, EndRecoveryAttempt, disk
  <2>2. QED BY <1>1, <1>4, <1>5, <2>1, FaultMoves DEF ParticipantPhases
<1>13. CASE AskCoordinator(p) \/ AskNext(p)
  <2>1. PICK n : Send({Request(p, n)})
    BY <1>13 DEF AskCoordinator, AskNext
  <2>2. Request(p, n).type = "request"
    BY DEF Request
  <2>3. phase[p] = "recovering" /\ UNCHANGED <<phase, collected, signed, saved>>
    BY <1>13 DEF AskCoordinator, AskNext, disk
  <2>4. QED BY <1>1, <1>2, <1>3, <1>5, <2>1, <2>2, <2>3, FaultMoves DEF ParticipantPhases
<1>14. CASE RecoverWithVotes(p)
  BY <1>1, <1>14, FaultCommits DEF RecoverWithVotes, Votes, VotesKnown
<1>15. QED
  BY <1>6, <1>7, <1>8, <1>9, <1>10, <1>11, <1>12, <1>13, <1>14 DEF ParticipantStep

LEMMA FaultObserving ==
    ASSUME TypeOK, FaultInv, NEW n \in Nodes, ObservingStep(n)
    PROVE  FaultInv'
<1>1. CASE n \in Participants /\ Claim(n)
  <2>1. /\ phase[n] = "observing" /\ ~claimed
        /\ UNCHANGED <<collected, signed, saved, msgs, published, deadline>>
        /\ phase' = phase \/ Moves(n, "uncertain")
    BY <1>1 DEF Claim, local, disk
  <2>2. /\ phase'[n] \in {"observing", "uncertain"} /\ phase'[Coordinator] = phase[Coordinator]
        /\ \A q \in Participants \ {n} : phase'[q] = phase[q]
    BY <1>1, <2>1, VotingAssumption DEF Moves, TypeOK, Nodes
  <2>3. (VotesKnown' <=> VotesKnown) /\ (Announced' <=> Announced)
    BY <2>1, NoVotesSent
  <2>4. QED
    BY <1>1, <2>1, <2>2, <2>3
       DEF FaultInv, PhasesByRole, SignedByParticipants, VotesWereTaken, CoordinatorSignsLast,
           AnnouncedFirst, ParticipantsKeepVotes, VotedRejectsLate, ParticipantPhases
<1>2. CASE n \in Participants /\ CommitByObservers(n)
  BY <1>2, FaultCommits DEF CommitByObservers, VotesKnown
<1>3. CASE n \in Participants /\ RejectByObservers(n)
  <2>1. /\ phase[n] = "observing" /\ claimed /\ deadline /\ ~published /\ Moves(n, "rejected")
        /\ UNCHANGED <<collected, signed, saved, msgs, observers>>
    BY <1>3 DEF RejectByObservers, local, disk
  <2>2. (VotesKnown' <=> VotesKnown) /\ (Announced' <=> Announced)
    BY <2>1, NoVotesSent DEF observers
  <2>3. n \in signed
    BY <1>3, <2>1 DEF FaultInv, SignedByParticipants
  <2>4. /\ "rejected" \in ParticipantPhases \ {"committed"} /\ signed' = signed
        /\ UNCHANGED <<observers, collected, saved>> /\ n \in signed'
        /\ \A q \in Participants : VoteOf(q, TRUE) \in msgs' => VoteOf(q, TRUE) \in msgs
    BY <2>1, <2>3 DEF ParticipantPhases
  <2>5. QED BY <1>3, <2>1, <2>2, <2>4, FaultMoves
<1>4. CASE PublishVotes(n)
  <2>1. /\ n \in saved /\ ~deadline
        /\ UNCHANGED <<phase, collected, signed, saved, msgs, claimed, deadline>>
    BY <1>4 DEF PublishVotes, local, disk
  <2>2. Announced /\ Announced'
    BY <2>1 DEF FaultInv, AnnouncedFirst, VotesKnown, Announced
  <2>3. QED
    BY <2>1, <2>2
       DEF FaultInv, PhasesByRole, SignedByParticipants, VotesWereTaken, CoordinatorSignsLast,
           AnnouncedFirst, ParticipantsKeepVotes, VotedRejectsLate
<1>5. QED
  BY <1>1, <1>2, <1>3, <1>4 DEF ObservingStep

LEMMA FaultAnswers ==
    ASSUME FaultInv, NEW n \in Nodes, NEW p \in Participants, AnswerRequest(n, p),
           UNCHANGED observers
    PROVE  FaultInv'
<1>1. \A m \in msgs' : m \in msgs \/ m = Votes(n, p, n \in saved)
  BY DEF AnswerRequest, Send
<1>2. \A q : VoteOf(q, TRUE) # Votes(n, p, n \in saved)
  BY DEF Votes, VoteOf
<1>3. Votes(n, p, n \in saved).ok => saved # {}
  BY DEF Votes
<1>4. VotesKnown' => VotesKnown
  BY <1>1, <1>3 DEF VotesKnown, AnswerRequest, disk, observers
<1>5. Announced' => Announced
  <2>1. ASSUME NEW q \in Participants, Votes(Coordinator, q, TRUE) = Votes(n, p, n \in saved)
        PROVE  saved # {}
    BY <2>1, <1>3 DEF Votes
  <2>2. saved # {} => Announced
    BY DEF FaultInv, AnnouncedFirst, VotesKnown
  <2>3. QED BY <1>1, <2>1, <2>2 DEF Announced
<1>6. Announced => Announced'
  BY DEF Announced, AnswerRequest, Send
<1>7. QED
  BY <1>1, <1>2, <1>4, <1>5, <1>6
     DEF AnswerRequest, FaultInv, PhasesByRole, SignedByParticipants, VotesWereTaken,
         CoordinatorSignsLast, AnnouncedFirst, ParticipantsKeepVotes, VotedRejectsLate,
         local, disk, observers

LEMMA FaultCrash ==
    ASSUME TypeOK, FaultInv, NEW n \in Nodes, Crash(n)
    PROVE  FaultInv'
<1>1. /\ phase' = [phase EXCEPT ![n] = PhaseFromDisk(n)]
      /\ UNCHANGED <<signed, saved, msgs, claimed, published, deadline>>
      /\ collected' \subseteq collected
  BY DEF Crash, Moves, disk, observers
<1>2. (VotesKnown' <=> VotesKnown) /\ (Announced' <=> Announced)
  BY <1>1, NoVotesSent
<1>3. /\ phase[n] \in {"committed", "rejected", "observing"} => PhaseFromDisk(n) = phase[n]
      /\ phase[n] \in {"voted", "recovering", "uncertain"} => PhaseFromDisk(n) = "recovering"
      /\ phase[n] \in {"signed", "announced"} => PhaseFromDisk(n) = "committed"
      /\ phase[n] \in {"configured", "voting", "confirming", "collecting"}
            => PhaseFromDisk(n) = "rejected"
  BY DEF PhaseFromDisk
<1>4. CASE n = Coordinator
  BY ZenonT(60), <1>1, <1>2, <1>3, <1>4, VotingAssumption
     DEF TypeOK, FaultInv, PhasesByRole, SignedByParticipants, VotesWereTaken,
         CoordinatorSignsLast, AnnouncedFirst, ParticipantsKeepVotes, VotedRejectsLate, Nodes,
         CoordinatorPhases
<1>5. CASE n \in Participants
  BY <1>1, <1>2, <1>3, <1>5, VotingAssumption
     DEF TypeOK, FaultInv, PhasesByRole, SignedByParticipants, VotesWereTaken,
         CoordinatorSignsLast, AnnouncedFirst, ParticipantsKeepVotes, VotedRejectsLate, Nodes,
         ParticipantPhases
<1>6. QED
  BY <1>4, <1>5 DEF Nodes

LEMMA FaultStep ==
    ASSUME TypeOK, FaultInv, [Next]_vars
    PROVE  FaultInv'
<1>1. CASE UNCHANGED <<phase, collected, signed, saved, msgs, claimed, published>>
           /\ (deadline => deadline')
  BY <1>1 DEF FaultInv, PhasesByRole, SignedByParticipants, VotesWereTaken, CoordinatorSignsLast,
              AnnouncedFirst, ParticipantsKeepVotes, VotedRejectsLate, VotesKnown, Announced
<1>2. CASE Answers
  BY <1>2, FaultAnswers DEF Answers
<1>3. CASE DeadlinePasses
  BY <1>1, <1>3 DEF DeadlinePasses, local, disk
<1>4. ASSUME NEW n \in Nodes, Restart(n) PROVE FaultInv'
  BY <1>1, <1>4 DEF Restart, local, disk, observers
<1>5. CASE UNCHANGED vars
  BY <1>1, <1>5 DEF vars, local, disk, observers
<1>6. QED
  BY <1>2, <1>3, <1>4, <1>5, FaultCoordinator, FaultParticipant, FaultObserving, FaultCrash
     DEF Next

\* Whatever the coordinator's database does, wherever it crashes, and whenever the
\* last block comes: two nodes disagree only if that block went by without the
\* votes, or if one of them is a coordinator that was stopped in its commit.
THEOREM DisagreementAlways == Spec => []DisagreementNeedsMissedDeadline
<1>1. TypeInv /\ FaultInv /\ [Next]_vars => FaultInv'
  BY FaultStep DEF TypeInv
<1>2. FaultInv => DisagreementNeedsMissedDeadline
  BY DisagreementFromInv
<1>3. QED
  BY <1>1, <1>2, TypeInit, TypeStep, FaultInit, PTL DEF Spec
=============================================================================
