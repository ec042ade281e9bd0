-------------------------- MODULE ObservingHandler --------------------------
(***************************************************************************)
(* One payment before the observers.  Its participants have signed; the     *)
(* coordinator, who has the votes or has given up, no longer matters        *)
(* otherwise.  A participant that does not get the votes from the others    *)
(* has its ObservingHandler claim the payment; those who committed look     *)
(* from time to time whether somebody did, and publish the votes.           *)
(*                                                                          *)
(* The observers are an outside service: several hosts that follow one      *)
(* chain of blocks.  A request to a host that is not in Reliable may fail,  *)
(* and such a host may lag behind the chain; while a node is offline all    *)
(* its requests may fail.  Time is counted in blocks, as the constant       *)
(* kApproximateBlockNumberIncrementingPeriodSeconds does.                   *)
(***************************************************************************)
EXTENDS Naturals, FiniteSets

CONSTANTS
    Coordinator, Participants,
    NumberOfObservers,        \* mObservers; the first is mObservers.front()
    Reliable,                 \* those that always answer, and do not lag
    kCountBlocksForClaiming,  \* blocks from the start of the payment to mMaximalClaimingBlockNumber
    kTransactionCheckingSignalRepeatTime,       \* in blocks
    kTransactionCheckingSignalSmallRepeatTime,
    ClaimBy,                  \* a participant that has no votes by then has claimed
    MaxOutages,               \* blocks during which some node is offline
    MaxRestarts               \* bound

Nodes == Participants \cup {Coordinator}
Observers == 1..NumberOfObservers
Front == 1
Last == kCountBlocksForClaiming

ASSUME ObservingAssumption ==
    /\ Coordinator \notin Participants /\ IsFiniteSet(Participants)
    /\ NumberOfObservers \in Nat \ {0} /\ Reliable \subseteq Observers
    /\ kTransactionCheckingSignalSmallRepeatTime \in Nat \ {0}
    /\ kTransactionCheckingSignalRepeatTime \in Nat
    /\ kTransactionCheckingSignalSmallRepeatTime <= kTransactionCheckingSignalRepeatTime
    /\ ClaimBy \in Nat /\ MaxOutages \in Nat /\ MaxRestarts \in Nat
    /\ kCountBlocksForClaiming \in Nat
    /\ ClaimBy + kTransactionCheckingSignalRepeatTime
         + MaxOutages * kTransactionCheckingSignalSmallRepeatTime < kCountBlocksForClaiming

VARIABLES
    stage,       \* of the payment at each node
    serialized,  \* database: the stage the payment is serialized with
    recorded,    \* database: observing_state of the payment_transactions record
    claims,      \* memory: mClaims
    due,         \* memory: mClaimsTimer has the claim to act on
    checked,     \* memory: mCheckedTransactions
    checkIn,     \* memory: blocks until mTransactionsTimer fires, 0 while nothing is checked
    block,       \* the chain: its last block,
    chain,       \*   the block that has the claim, and the votes; 0 for none
    pool,        \*   and what is to come into the next block
    seen,        \* the last block each observer knows
    offline,     \* nodes that may not reach the observers during this block
    outages, restarts   \* bounds

memory == <<claims, due, checked, checkIn>>
external == <<block, chain, pool, seen, offline, outages>>
vars == <<stage, serialized, recorded, memory, external, restarts>>

NoClaim == [response |-> "none", observer |-> 0]

Init ==
    /\ stage \in [Nodes -> {"voted", "committed", "rejected"}]
    /\ \A n \in Nodes : stage[n] = "voted" <=> n # Coordinator
    /\ serialized = [n \in Nodes |-> IF n = Coordinator THEN "none" ELSE "voted"]
    /\ recorded = [n \in Nodes |-> IF stage[n] = "rejected" THEN "no record" ELSE "NoInfo"]
    /\ claims = [n \in Nodes |-> NoClaim]
    /\ due = [n \in Nodes |-> FALSE]
    /\ checked = [n \in Nodes |-> stage[n] = "committed"]
    /\ checkIn \in [Nodes -> 0..kTransactionCheckingSignalRepeatTime]
    /\ \A n \in Nodes : stage[n] # "committed" => checkIn[n] = 0
    /\ block = 0
    /\ chain = [claim |-> 0, votes |-> 0]
    /\ pool = {}
    /\ seen = [i \in Observers |-> 0]
    /\ offline = {}
    /\ outages = 0 /\ restarts = 0

-----------------------------------------------------------------------------
(* The observers *)

Knows(i, what) == chain[what] # 0 /\ chain[what] <= seen[i]

\* What a host may say of the payment.  Before its block a claim is known to
\* some of the hosts at most.
TransactionStates == [i \in Observers |->
    CASE Knows(i, "votes") -> {"ParticipantsVotesPresent"}
      [] Knows(i, "claim") /\ ~Knows(i, "votes") -> {"ClaimInBlock"}
      [] OTHER -> {"NoInfo"} \cup {s \in {"ClaimInPool"} : "claim" \in pool /\ seen[i] <= Last}]

\* A claim is taken before the last block.  What a host says to a late one that
\* repeats one taken in time is left open.
ClaimResponses == [i \in Observers |->
    {s \in {"ClaimInPool"} : seen[i] <= Last \/ chain.claim # 0}
    \cup {s \in {"ClaimTimeExpired"} : seen[i] > Last}]

\* The votes are taken for a payment that is claimed.
VotesResponses == [i \in Observers |->
    IF seen[i] > Last THEN {"RejectedByObserving"}
    ELSE (TransactionStates[i] \cap {"NoInfo", "ClaimInPool", "ClaimInBlock"})
         \cup {s \in {"ClaimInBlock"} : Knows(i, "votes")}]

\* Hosts are asked in their order.  Those that fail, and those that do not know
\* of the payment, are passed over.
Silent(n, i) == i \notin Reliable \/ n \in offline
PassedOver(n, i, Says) == Silent(n, i) \/ "NoInfo" \in Says[i]
Answering(n, asked, Says, answer) ==
    {i \in asked : answer \in Says[i] /\ \A j \in asked : j < i => PassedOver(n, j, Says)}
NoneAnswers(n, asked, Says) == \A i \in asked : PassedOver(n, i, Says)

Pooled(what) == IF chain[what] = 0 THEN pool \cup {what} ELSE pool

-----------------------------------------------------------------------------
(* Claims *)

\* Mutant of ClaimTimeIsOver: the last block itself counts as past.
LastBlockIsThere(i) == seen[i] >= Last

\* The answer of a host has its block number; see also mMaximalClaimingBlockNumber.
ClaimTimeIsOver(i) == seen[i] > Last

\* The transaction of a payment whose state the observers have decided is
\* deserialized, and runs in a handler of its own.
Launches(n, new) == stage' = [stage EXCEPT ![n] = new]

SavesStage(n, new) == serialized' = [serialized EXCEPT ![n] = new]
Records(n, new) == recorded' = [recorded EXCEPT ![n] = new]

\* sendClaimRequestToObservers and sendClaimAgain: the claim waits in the map
\* for its answer, or is dropped as too late (launch...UncertainStage).
Accepted(n) ==
    \E i \in Answering(n, Observers, ClaimResponses, "ClaimInPool") :
        /\ claims' = [claims EXCEPT ![n] = [response |-> "ClaimInPool", observer |-> i]]
        /\ pool' = Pooled("claim")

\* Mutant of Unsent: a claim that reached no host is dropped.
UnsentDropped(n) ==
    /\ NoneAnswers(n, Observers, ClaimResponses)
    /\ claims' = [claims EXCEPT ![n] = NoClaim]
    /\ UNCHANGED pool

Unsent(n) ==
    /\ NoneAnswers(n, Observers, ClaimResponses)
    /\ claims' = [claims EXCEPT ![n] = [response |-> "NoInfo", observer |-> 0]]
    /\ UNCHANGED pool

Expired(n) ==
    /\ Answering(n, Observers, ClaimResponses, "ClaimTimeExpired") # {}
    /\ claims' = [claims EXCEPT ![n] = NoClaim]
    /\ Launches(n, "uncertain")
    /\ UNCHANGED pool

\* The signal is handled before the payment is serialized as being observed.
runObservingStage(n) ==
    /\ stage[n] = "voted"
    /\ \/ (Accepted(n) \/ Unsent(n)) /\ Launches(n, "observing")
       \/ Expired(n)
    /\ SavesStage(n, "observing")
    /\ Records(n, "ClaimInPool")
    /\ due' = [due EXCEPT ![n] = FALSE]
    /\ UNCHANGED <<checked, checkIn, block, chain, seen, offline, outages, restarts>>

\* The same after a restart: runObservingResultStage
ClaimsAfterRestart(n) ==
    /\ stage[n] = "restarted"
    /\ \/ (Accepted(n) \/ Unsent(n)) /\ Launches(n, "observing") /\ UNCHANGED serialized
       \/ Expired(n) /\ SavesStage(n, "uncertain")
    /\ Records(n, "ClaimInPool")
    /\ UNCHANGED <<due, checked, checkIn, block, chain, seen, offline, outages, restarts>>

sendClaimAgain(n) ==
    /\ due[n] /\ claims[n].response = "NoInfo"
    /\ \/ (Accepted(n) \/ Unsent(n)) /\ UNCHANGED <<stage, serialized>>
       \/ Expired(n) /\ SavesStage(n, "uncertain")
    /\ due' = [due EXCEPT ![n] = FALSE]
    /\ UNCHANGED <<recorded, checked, checkIn, block, chain, seen, offline, outages, restarts>>

\* The claim is checked with all hosts but the one that took it.
Asked(n) == IF NumberOfObservers > 1 THEN Observers \ {claims[n].observer} ELSE Observers

Closes(n, new, state) ==
    /\ Launches(n, new)
    /\ Records(n, state)
    /\ claims' = [claims EXCEPT ![n] = NoClaim]

\* getParticipantsVotes
VotesHeld == [i \in Observers |->
    IF Knows(i, "votes") THEN {"ParticipantsVotesPresent"} ELSE {"NoInfo"}]

performOneClaim(n) ==
    /\ due[n] /\ claims[n].response \in {"ClaimInPool", "ClaimInBlock"}
    /\ \/ /\ NoneAnswers(n, Asked(n), TransactionStates)
          /\ UNCHANGED <<stage, recorded, claims>>
       \/ \E state \in {"ClaimInPool", "ClaimInBlock"} :
          \E i \in Answering(n, Asked(n), TransactionStates, state) :
             \/ /\ ClaimTimeIsOver(i)
                /\ Closes(n, "to reject", "RejectedByObserving")
             \/ /\ ~ClaimTimeIsOver(i)
                /\ claims' = [claims EXCEPT ![n].response = state]
                /\ UNCHANGED <<stage, recorded>>
       \/ /\ Answering(n, Asked(n), TransactionStates, "ParticipantsVotesPresent") # {}
          /\ \/ /\ Answering(n, Observers, VotesHeld, "ParticipantsVotesPresent") # {}
                /\ Closes(n, "to commit", "ParticipantsVotesPresent")
             \/ /\ NoneAnswers(n, Observers, VotesHeld)
                /\ UNCHANGED <<stage, recorded, claims>>
    /\ due' = [due EXCEPT ![n] = FALSE]
    /\ UNCHANGED <<serialized, checked, checkIn, external, restarts>>

-----------------------------------------------------------------------------
(* The decision *)

\* approve and commit, whose signal makes the handler check the payment.  The
\* timer for the checks runs all the time, and may be anywhere in its period.
Commits(n) ==
    /\ Launches(n, "committed")
    /\ SavesStage(n, "none")
    /\ checked' = [checked EXCEPT ![n] = TRUE]
    /\ \E blocks \in 0..kTransactionCheckingSignalRepeatTime :
          checkIn' = [checkIn EXCEPT ![n] = blocks]
    /\ UNCHANGED <<recorded, claims, due, external, restarts>>

\* From another node, in time or in recovery
CommitsWithVotes(n) ==
    /\ stage[n] = "voted"
    /\ \E m \in Nodes : stage[m] = "committed"
    /\ Commits(n)

\* Mutant of runObservingResultStage: it does not ask whether the votes are there.
runObservingResultStageUnasked(n) == stage[n] \in {"restarted", "to commit"} /\ Commits(n)

runObservingResultStage(n) == stage[n] = "to commit" /\ Commits(n)

runObservingRejectTransaction(n) ==
    /\ stage[n] = "to reject"
    /\ Launches(n, "rejected")
    /\ SavesStage(n, "none")
    /\ UNCHANGED <<recorded, memory, external, restarts>>

-----------------------------------------------------------------------------
(* Checks of payments that were committed *)

\* Dropped from mCheckedTransactions, with a word in the database
Forgets(n, state) ==
    /\ checked' = [checked EXCEPT ![n] = FALSE]
    /\ Records(n, state)
    /\ checkIn' = [checkIn EXCEPT ![n] = 0]
    /\ UNCHANGED pool

Keeps(n, blocks) ==
    /\ checkIn' = [checkIn EXCEPT ![n] = blocks]
    /\ UNCHANGED <<checked, recorded>>

\* A refusal of the votes launches launchCancelingPaymentTransaction, which does
\* nothing.
sendParticipantsVoteMessageToObservers(n) ==
    \/ /\ \E answer \in {"ClaimInPool", "ClaimInBlock"} :
              Answering(n, Observers, VotesResponses, answer) # {}
       /\ pool' = Pooled("votes")
       /\ Keeps(n, kTransactionCheckingSignalRepeatTime)
    \/ /\ Answering(n, Observers, VotesResponses, "RejectedByObserving") # {}
       /\ Keeps(n, kTransactionCheckingSignalRepeatTime) /\ UNCHANGED pool
    \/ /\ NoneAnswers(n, Observers, VotesResponses)
       /\ Keeps(n, kTransactionCheckingSignalSmallRepeatTime) /\ UNCHANGED pool

\* The loop over the observers asks the first of them each time.
runTransactionsChecking(n) ==
    /\ checked[n] /\ checkIn[n] = 0
    /\ \/ /\ Silent(n, Front)
          /\ Keeps(n, kTransactionCheckingSignalSmallRepeatTime) /\ UNCHANGED pool
       \/ \E state \in TransactionStates[Front] :
             \/ /\ state = "NoInfo" /\ ~ClaimTimeIsOver(Front)
                /\ Keeps(n, kTransactionCheckingSignalRepeatTime) /\ UNCHANGED pool
             \/ /\ state = "NoInfo" /\ ClaimTimeIsOver(Front)
                /\ Forgets(n, "ClaimTimeExpired")
             \/ /\ state = "ClaimInPool" \/ (state = "ClaimInBlock" /\ ~ClaimTimeIsOver(Front))
                /\ sendParticipantsVoteMessageToObservers(n)
             \/ /\ state = "ClaimInBlock" /\ ClaimTimeIsOver(Front)
                /\ Forgets(n, "RejectedByObserving")
             \/ /\ state = "ParticipantsVotesPresent"
                /\ Forgets(n, "ParticipantsVotesPresent")
    /\ UNCHANGED <<stage, serialized, claims, due, block, chain, seen, offline, outages, restarts>>

-----------------------------------------------------------------------------
(* Restarts *)

\* loadTransactionsFromStorage: only the stage of being observed is kept, all
\* others start with the recovery.
StageFromDisk(n) ==
    CASE serialized[n] = "none" -> stage[n]
      [] serialized[n] = "observing" -> "restarted"
      [] OTHER -> "voted"

\* Mutant of Restart: the payments to check are kept in memory only.
RestartForgetsChecks(n) ==
    /\ restarts < MaxRestarts
    /\ restarts' = restarts + 1
    /\ stage' = [stage EXCEPT ![n] = StageFromDisk(n)]
    /\ claims' = [claims EXCEPT ![n] = NoClaim]
    /\ due' = [due EXCEPT ![n] = FALSE]
    /\ checked' = [checked EXCEPT ![n] = FALSE]
    /\ checkIn' = [checkIn EXCEPT ![n] = 0]
    /\ UNCHANGED <<serialized, recorded, external>>

\* Mutant of Restart: payments that are serialized are checked, too.
RestartChecksSerialized(n) ==
    /\ restarts < MaxRestarts
    /\ restarts' = restarts + 1
    /\ stage' = [stage EXCEPT ![n] = StageFromDisk(n)]
    /\ claims' = [claims EXCEPT ![n] = NoClaim]
    /\ due' = [due EXCEPT ![n] = FALSE]
    /\ checked' = [checked EXCEPT ![n] = recorded[n] = "NoInfo"]
    /\ checkIn' = [checkIn EXCEPT ![n] = 0]
    /\ UNCHANGED <<serialized, recorded, external>>

\* The constructor takes what the database says of transactionsWithUncertain-
\* ObservingState; initialObservingRequest starts the timer for the checks.
Restart(n) ==
    /\ restarts < MaxRestarts
    /\ restarts' = restarts + 1
    /\ stage' = [stage EXCEPT ![n] = StageFromDisk(n)]
    /\ claims' = [claims EXCEPT ![n] = NoClaim]
    /\ due' = [due EXCEPT ![n] = FALSE]
    /\ checked' = [checked EXCEPT ![n] = recorded[n] = "NoInfo" /\ serialized[n] = "none"]
    /\ checkIn' = [checkIn EXCEPT ![n] = 0]
    /\ UNCHANGED <<serialized, recorded, external>>

-----------------------------------------------------------------------------
(* Time *)

\* Handlers that are due run before the next block; see ClaimBy.
NothingDue(n) ==
    /\ stage[n] \notin {"restarted", "to commit", "to reject"}
    /\ ~due[n] /\ (checked[n] => checkIn[n] > 0)
    /\ stage[n] = "voted" => block < ClaimBy

\* The next block has what was pooled, up to the last block.  After that only
\* the timers go on.
Tick ==
    /\ \A n \in Nodes : NothingDue(n)
    /\ block' = IF block <= Last THEN block + 1 ELSE block
    /\ chain' = [what \in DOMAIN chain |->
                   IF what \in pool /\ block < Last THEN block + 1 ELSE chain[what]]
    /\ pool' = {}
    /\ seen' = [i \in Observers |-> IF i \in Reliable THEN block' ELSE seen[i]]
    /\ due' = [n \in Nodes |-> claims[n] # NoClaim]
    /\ checkIn' = [n \in Nodes |-> IF checked[n] THEN checkIn[n] - 1 ELSE 0]
    /\ offline' \in {{}} \cup {{n} : n \in Nodes}
    /\ outages' = outages + Cardinality(offline')
    /\ outages' <= MaxOutages
    /\ UNCHANGED <<stage, serialized, recorded, claims, checked, restarts>>

CatchUp(i) ==
    /\ seen[i] < block
    /\ seen' = [seen EXCEPT ![i] = @ + 1]
    /\ UNCHANGED <<stage, serialized, recorded, memory, block, chain, pool, offline, outages, restarts>>

NodeStep(n) ==
    \/ runObservingStage(n) \/ ClaimsAfterRestart(n) \/ sendClaimAgain(n) \/ performOneClaim(n)
    \/ CommitsWithVotes(n) \/ runObservingResultStage(n) \/ runObservingRejectTransaction(n)
    \/ runTransactionsChecking(n)

Next ==
    \/ \E n \in Nodes : NodeStep(n) \/ Restart(n)
    \/ Tick
    \/ \E i \in Observers : CatchUp(i)

Spec == Init /\ [][Next]_vars

\* Timers fire, blocks come, a host that lags catches up, and a host that is
\* asked again and again answers some time.
ClosesClaim(n) == performOneClaim(n) /\ claims'[n] = NoClaim
Fairness ==
    /\ \A n \in Nodes : WF_vars(NodeStep(n)) /\ SF_vars(ClosesClaim(n))
    /\ WF_vars(Tick)
    /\ \A i \in Observers : WF_vars(CatchUp(i))

FairSpec == Spec /\ Fairness

-----------------------------------------------------------------------------
(* Properties *)

Responses == {"NoInfo", "ClaimInPool", "ClaimInBlock"}
FinalStates == {"ParticipantsVotesPresent", "ClaimTimeExpired", "RejectedByObserving"}

\* Every variable stays in its range; a checked payment is a committed one.
TypeOK ==
    /\ stage \in [Nodes -> {"voted", "observing", "restarted", "uncertain", "to commit",
                            "to reject", "committed", "rejected"}]
    /\ serialized \in [Nodes -> {"none", "voted", "observing", "uncertain"}]
    /\ recorded \in [Nodes -> {"no record", "NoInfo", "ClaimInPool"} \cup FinalStates]
    /\ claims \in [Nodes -> [response : Responses, observer : 0..NumberOfObservers] \cup {NoClaim}]
    /\ due \in [Nodes -> BOOLEAN] /\ checked \in [Nodes -> BOOLEAN]
    /\ \A n \in Nodes : checked[n] => stage[n] = "committed"
    /\ checkIn \in [Nodes -> 0..kTransactionCheckingSignalRepeatTime]
    /\ block \in 0..Last + 1
    /\ chain \in [{"claim", "votes"} -> 0..Last]
    /\ pool \subseteq {"claim", "votes"}
    /\ seen \in [Observers -> 0..block]
    /\ offline \subseteq Nodes /\ outages \in 0..MaxOutages /\ restarts \in 0..MaxRestarts

\* Votes that some node has reach the observers before the last block, if the
\* payment was claimed: the checks come often enough (comment on
\* kTransactionCheckingSignalRepeatTimeSeconds), through restarts and outages.
PublishedInTime ==
    block > Last /\ chain.claim # 0 /\ (\E n \in Nodes : stage[n] = "committed")
        => chain.votes # 0

\* What a node writes down as the observers' verdict, and what keeps it from
\* checking the payment again, is their verdict for good.
RecordedVerdict ==
    \A n \in Nodes :
        /\ recorded[n] = "ParticipantsVotesPresent" => chain.votes # 0
        /\ recorded[n] = "RejectedByObserving" => block > Last /\ chain.claim # 0 /\ chain.votes = 0
        /\ recorded[n] = "ClaimTimeExpired" => block > Last /\ chain.claim = 0

\* Who waits for the observers' word gets it, or is told that it was late.
ClaimIsDecided ==
    \A n \in Participants :
        stage[n] = "observing" ~> stage[n] \in {"committed", "rejected", "uncertain"}

Decision == [n \in Nodes |-> IF stage[n] \in {"committed", "rejected"} THEN stage[n]
                             ELSE "undecided"]

\* The nodes and the observers together give a verdict.
Verdict == INSTANCE ObserversVerdict WITH
    claimed <- chain.claim # 0,
    published <- chain.votes # 0,
    deadline <- block > Last,
    decision <- Decision
ImplementsObserversVerdict == Verdict!Spec
=============================================================================
