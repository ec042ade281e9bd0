------------------------ MODULE ObservingHandlerProofs ------------------------
(***************************************************************************)
(* What holds of ObservingHandler for any participants, hosts, periods and  *)
(* bounds.  Whichever hosts are reliable: the types, and that the verdicts  *)
(* the nodes write down are true.  If the first host is reliable, as that   *)
(* is the only one the checks of committed payments ask, and the periods    *)
(* and outages fit together: votes that a node has reach the observers      *)
(* before the last block, and nodes and observers together give a verdict.  *)
(***************************************************************************)
EXTENDS ObservingHandler, FiniteSetTheorems, TLAPS

Decided == {"committed", "rejected"}

\* What a stage says of the node's memory and database: the serialized stage,
\* the recorded state, the claim, whether it is due, whether the payment is to
\* be checked.  The stage of being observed is serialized before its result.
Fits(s, d, r, c, u, k) ==
    /\ c # NoClaim <=> s = "observing"
    /\ u => s = "observing"
    /\ d = "none" <=> s \in Decided
    /\ s = "voted" => d \in {"voted", "uncertain"}
    /\ d = "voted" => s = "voted" /\ r = "NoInfo"
    /\ s \in {"observing", "restarted", "to commit", "to reject"} => d = "observing"
    /\ k => s = "committed"
    /\ s = "to reject" => r = "RejectedByObserving"
    /\ s = "rejected" => r # "NoInfo"

StageOf(n) == Fits(stage[n], serialized[n], recorded[n], claims[n], due[n], checked[n])
StageInv == \A n \in Nodes : StageOf(n)

\* What the hosts know is on the chain, and the reliable ones know all of it.
ChainInv ==
    /\ \A what \in {"claim", "votes"} : chain[what] <= block
    /\ \A i \in Reliable : seen[i] = block
    /\ chain.votes # 0 => chain.claim # 0
    /\ "votes" \in pool => /\ chain.claim # 0 \/ "claim" \in pool
                           /\ \E n \in Nodes : stage[n] = "committed"

\* What the nodes were told is so.  A node gives up its claim as late, and may
\* vote once more, only when the last block is past.
ToldInv ==
    /\ RecordedVerdict
    /\ \A n \in Nodes :
          /\ stage[n] = "uncertain" \/ serialized[n] = "uncertain" => block > Last
          /\ stage[n] = "to commit" => chain.votes # 0

-----------------------------------------------------------------------------
(* Types *)

TypeInv == TypeOK /\ StageInv

LEMMA ConstantTypes ==
    /\ IsFiniteSet(Nodes)
    /\ Last \in Nat /\ NumberOfObservers \in Nat \ {0} /\ Front \in Observers
    /\ kTransactionCheckingSignalSmallRepeatTime \in 1..kTransactionCheckingSignalRepeatTime
    /\ kTransactionCheckingSignalRepeatTime \in Nat
BY ObservingAssumption, FS_AddElement, FS_Union, FS_Singleton DEF Nodes, Last, Front, Observers

LEMMA LastType == Last \in Nat
BY ConstantTypes

LEMMA NumberTypes ==
    ASSUME TypeOK
    PROVE  /\ block \in Nat /\ block <= Last + 1
           /\ outages \in Nat /\ outages <= MaxOutages
           /\ restarts \in Nat /\ restarts <= MaxRestarts
           /\ \A i \in Observers : seen[i] \in Nat /\ seen[i] <= block
           /\ \A what \in {"claim", "votes"} : chain[what] \in Nat /\ chain[what] <= Last
           /\ \A n \in Nodes : checkIn[n] \in 0..kTransactionCheckingSignalRepeatTime
<1>1. block \in 0..Last + 1 /\ outages \in 0..MaxOutages /\ restarts \in 0..MaxRestarts
  BY DEF TypeOK
<1>2. block \in Nat /\ block <= Last + 1
  BY <1>1, LastType
<1>3. /\ outages \in Nat /\ outages <= MaxOutages /\ restarts \in Nat /\ restarts <= MaxRestarts
  BY <1>1, ObservingAssumption
<1>4. ASSUME NEW i \in Observers PROVE seen[i] \in Nat /\ seen[i] <= block
  <2>1. seen[i] \in 0..block
    BY DEF TypeOK
  <2>2. QED BY <1>2, <2>1
<1>5. ASSUME NEW what \in {"claim", "votes"} PROVE chain[what] \in Nat /\ chain[what] <= Last
  <2>1. chain[what] \in 0..Last
    BY DEF TypeOK
  <2>2. QED BY LastType, <2>1
<1>6. \A n \in Nodes : checkIn[n] \in 0..kTransactionCheckingSignalRepeatTime
  BY DEF TypeOK
<1>7. QED BY <1>2, <1>3, <1>4, <1>5, <1>6

LEMMA TypeInit == Init => TypeInv
<1> SUFFICES ASSUME Init PROVE TypeOK /\ StageInv
  BY DEF TypeInv
<1>1. stage \in [Nodes -> {"voted", "committed", "rejected"}]
  BY DEF Init
<1>2. TypeOK
  <2>1. claims \in [Nodes -> [response : Responses, observer : 0..NumberOfObservers] \cup {NoClaim}]
    BY DEF Init
  <2>2. chain \in [{"claim", "votes"} -> 0..Last]
    <3>1. chain = [claim |-> 0, votes |-> 0]
      BY DEF Init
    <3>2. QED BY <3>1, ConstantTypes
  <2>3. recorded \in [Nodes -> {"no record", "NoInfo", "ClaimInPool"} \cup FinalStates]
    BY DEF Init
  <2>4. seen \in [Observers -> 0..block]
    <3>1. seen = [i \in Observers |-> 0] /\ block = 0
      BY DEF Init
    <3>2. QED BY <3>1
  <2>5. block \in 0..Last + 1 /\ outages \in 0..MaxOutages /\ restarts \in 0..MaxRestarts
    <3>1. block = 0 /\ outages = 0 /\ restarts = 0
      BY DEF Init
    <3>2. QED BY <3>1, ConstantTypes, ObservingAssumption
  <2>6. /\ serialized \in [Nodes -> {"none", "voted", "observing", "uncertain"}]
        /\ due \in [Nodes -> BOOLEAN] /\ checked \in [Nodes -> BOOLEAN]
        /\ \A n \in Nodes : checked[n] => stage[n] = "committed"
        /\ pool = {} /\ offline = {}
        /\ checkIn \in [Nodes -> 0..kTransactionCheckingSignalRepeatTime]
    BY DEF Init
  <2>7. QED
    BY <1>1, <2>1, <2>2, <2>3, <2>4, <2>5, <2>6 DEF TypeOK
<1>3. StageInv
  <2>1. SUFFICES ASSUME NEW n \in Nodes PROVE StageOf(n)
    BY DEF StageInv
  <2>2. /\ stage[n] = "voted" <=> n # Coordinator
        /\ serialized[n] = IF n = Coordinator THEN "none" ELSE "voted"
        /\ recorded[n] = IF stage[n] = "rejected" THEN "no record" ELSE "NoInfo"
        /\ claims[n] = NoClaim /\ due[n] = FALSE /\ checked[n] = (stage[n] = "committed")
    BY DEF Init
  <2>3. QED BY <1>1, <2>2 DEF StageOf, Fits, Decided
<1>4. QED BY <1>2, <1>3

\* What the handlers do to the claim of a node.
LEMMA ClaimTypes ==
    ASSUME TypeOK, NEW n \in Nodes, Accepted(n) \/ Unsent(n)
    PROVE  /\ \E c \in [response : Responses, observer : 0..NumberOfObservers] :
                 c # NoClaim /\ claims' = [claims EXCEPT ![n] = c]
           /\ pool' \subseteq {"claim", "votes"}
<1> DEFINE Held == [response : Responses, observer : 0..NumberOfObservers]
<1>1. CASE Accepted(n)
  <2>1. PICK i \in Observers : /\ claims' = [claims EXCEPT ![n] = [response |-> "ClaimInPool", observer |-> i]]
                               /\ pool' = Pooled("claim")
    BY <1>1 DEF Accepted, Answering
  <2>2. i \in 0..NumberOfObservers
    BY ConstantTypes DEF Observers
  <2>3. [response |-> "ClaimInPool", observer |-> i] \in Held
    BY <2>2 DEF Responses
  <2>4. [response |-> "ClaimInPool", observer |-> i] # NoClaim
    BY DEF NoClaim
  <2>5. pool' \subseteq {"claim", "votes"}
    BY <2>1 DEF Pooled, TypeOK
  <2>6. QED BY <2>1, <2>3, <2>4, <2>5
<1>2. CASE Unsent(n)
  <2>1. [response |-> "NoInfo", observer |-> 0] \in Held
    BY ConstantTypes DEF Responses
  <2>2. [response |-> "NoInfo", observer |-> 0] # NoClaim
    BY DEF NoClaim
  <2>3. QED BY <1>2, <2>1, <2>2 DEF Unsent, TypeOK
<1>3. QED BY <1>1, <1>2

LEMMA ClaimDropped ==
    ASSUME TypeOK, NEW n \in Nodes, Expired(n)
    PROVE  /\ claims' = [claims EXCEPT ![n] = NoClaim] /\ pool' = pool
           /\ stage' = [stage EXCEPT ![n] = "uncertain"]
BY DEF Expired, Launches

Stages == {"voted", "observing", "restarted", "uncertain", "to commit", "to reject",
           "committed", "rejected"}
Serialized == {"none", "voted", "observing", "uncertain"}
Recorded == {"no record", "NoInfo", "ClaimInPool"} \cup FinalStates
Claims == [response : Responses, observer : 0..NumberOfObservers] \cup {NoClaim}

\* A step of one node on what it has in memory and database.
Changes(n, s, d, r, c, u, k) ==
    /\ stage' = [stage EXCEPT ![n] = s] /\ serialized' = [serialized EXCEPT ![n] = d]
    /\ recorded' = [recorded EXCEPT ![n] = r] /\ claims' = [claims EXCEPT ![n] = c]
    /\ due' = [due EXCEPT ![n] = u] /\ checked' = [checked EXCEPT ![n] = k]

LEMMA ChangesKeepStageInv ==
    ASSUME TypeOK, StageInv, NEW n \in Nodes,
           NEW s, NEW d, NEW r, NEW c, NEW u, NEW k,
           Changes(n, s, d, r, c, u, k), Fits(s, d, r, c, u, k)
    PROVE  StageInv'
<1>1. SUFFICES ASSUME NEW m \in Nodes PROVE StageOf(m)'
  BY DEF StageInv
<1>2. CASE m # n
  <2>1. /\ stage'[m] = stage[m] /\ serialized'[m] = serialized[m] /\ recorded'[m] = recorded[m]
        /\ claims'[m] = claims[m] /\ due'[m] = due[m] /\ checked'[m] = checked[m]
    BY <1>2 DEF Changes, TypeOK
  <2>2. QED BY <2>1 DEF StageInv, StageOf
<1>3. CASE m = n
  <2>1. /\ stage'[n] = s /\ serialized'[n] = d /\ recorded'[n] = r
        /\ claims'[n] = c /\ due'[n] = u /\ checked'[n] = k
    BY DEF Changes, TypeOK
  <2>2. QED BY <1>3, <2>1 DEF StageOf
<1>4. QED BY <1>2, <1>3

LEMMA ChangesKeepTypes ==
    ASSUME TypeOK, NEW n \in Nodes,
           NEW s \in Stages, NEW d \in Serialized, NEW r \in Recorded, NEW c \in Claims,
           NEW u \in BOOLEAN, NEW k \in BOOLEAN,
           Changes(n, s, d, r, c, u, k), k => s = "committed", 
           checked[n] => stage[n] = "committed"
    PROVE  /\ stage' \in [Nodes -> Stages] /\ serialized' \in [Nodes -> Serialized]
           /\ recorded' \in [Nodes -> Recorded] /\ claims' \in [Nodes -> Claims]
           /\ due' \in [Nodes -> BOOLEAN] /\ checked' \in [Nodes -> BOOLEAN]
           /\ \A m \in Nodes : checked'[m] => stage'[m] = "committed"
<1>1. stage' \in [Nodes -> Stages] /\ serialized' \in [Nodes -> Serialized]
  BY DEF Changes, TypeOK, Stages, Serialized
<1>2. recorded' \in [Nodes -> Recorded] /\ claims' \in [Nodes -> Claims]
  BY DEF Changes, TypeOK, Recorded, Claims
<1>3. due' \in [Nodes -> BOOLEAN] /\ checked' \in [Nodes -> BOOLEAN]
  BY DEF Changes, TypeOK
<1>4. \A m \in Nodes : checked'[m] => stage'[m] = "committed"
  BY DEF Changes, TypeOK
<1>5. QED BY <1>1, <1>2, <1>3, <1>4

\* What each handler changes.
LEMMA ClaimsChange ==
    ASSUME TypeInv, NEW n \in Nodes,
           runObservingStage(n) \/ ClaimsAfterRestart(n) \/ sendClaimAgain(n)
    PROVE  \E s \in Stages, d \in Serialized, r \in Recorded, c \in Claims :
              Changes(n, s, d, r, c, FALSE, FALSE) /\ Fits(s, d, r, c, FALSE, FALSE)
<1> USE DEF TypeInv
<1>1. StageOf(n) /\ stage[n] \in Stages /\ recorded[n] \in Recorded /\ claims[n] \in Claims
  BY DEF StageInv, TypeOK, Stages, Recorded, Claims
<1>2. due[n] \in BOOLEAN /\ checked[n] \in BOOLEAN
  BY DEF TypeOK
<1>3. CASE runObservingStage(n)
  <2>1. checked[n] = FALSE
    BY <1>1, <1>2, <1>3 DEF StageOf, Fits, runObservingStage
  <2>2. CASE Accepted(n) \/ Unsent(n)
    <3>1. PICK c \in Claims : c # NoClaim /\ claims' = [claims EXCEPT ![n] = c]
      BY <2>2, ClaimTypes DEF Claims
    <3>2. Changes(n, "observing", "observing", "ClaimInPool", c, FALSE, FALSE)
      BY <1>3, <2>1, <2>2, <3>1
         DEF runObservingStage, Changes, Launches, SavesStage, Records, TypeOK, Expired
    <3>3. QED
      BY <3>1, <3>2 DEF Fits, Decided, Stages, Serialized, Recorded
  <2>3. CASE Expired(n)
    <3>1. Changes(n, "uncertain", "observing", "ClaimInPool", NoClaim, FALSE, FALSE)
      BY <1>3, <2>1, <2>3, ClaimDropped
         DEF runObservingStage, Changes, Launches, SavesStage, Records, TypeOK
    <3>2. QED
      BY <3>1 DEF Fits, Decided, Stages, Serialized, Recorded, Claims
  <2>4. QED BY <1>3, <2>2, <2>3 DEF runObservingStage
<1>4. CASE ClaimsAfterRestart(n)
  <2>1. checked[n] = FALSE /\ due[n] = FALSE /\ serialized[n] = "observing"
    BY <1>1, <1>2, <1>4 DEF StageOf, Fits, ClaimsAfterRestart
  <2>2. CASE (Accepted(n) \/ Unsent(n)) /\ Launches(n, "observing") /\ UNCHANGED serialized
    <3>1. PICK c \in Claims : c # NoClaim /\ claims' = [claims EXCEPT ![n] = c]
      BY <2>2, ClaimTypes DEF Claims
    <3>2. Changes(n, "observing", "observing", "ClaimInPool", c, FALSE, FALSE)
      BY <1>4, <2>1, <2>2, <3>1
         DEF ClaimsAfterRestart, Changes, Launches, Records, TypeOK
    <3>3. QED
      BY <3>1, <3>2 DEF Fits, Decided, Stages, Serialized, Recorded
  <2>3. CASE Expired(n) /\ SavesStage(n, "uncertain")
    <3>1. Changes(n, "uncertain", "uncertain", "ClaimInPool", NoClaim, FALSE, FALSE)
      BY <1>4, <2>1, <2>3, ClaimDropped
         DEF ClaimsAfterRestart, Changes, SavesStage, Records, TypeOK
    <3>2. QED
      BY <3>1 DEF Fits, Decided, Stages, Serialized, Recorded, Claims
  <2>4. QED BY <1>4, <2>2, <2>3 DEF ClaimsAfterRestart
<1>5. CASE sendClaimAgain(n)
  <2>1. checked[n] = FALSE /\ stage[n] = "observing" /\ serialized[n] = "observing"
    BY <1>1, <1>2, <1>5 DEF StageOf, Fits, sendClaimAgain
  <2>2. CASE (Accepted(n) \/ Unsent(n)) /\ UNCHANGED <<stage, serialized>>
    <3>1. PICK c \in Claims : c # NoClaim /\ claims' = [claims EXCEPT ![n] = c]
      BY <2>2, ClaimTypes DEF Claims
    <3>2. Changes(n, "observing", "observing", recorded[n], c, FALSE, FALSE)
      BY <1>5, <2>1, <2>2, <3>1 DEF sendClaimAgain, Changes, TypeOK
    <3>3. QED
      BY ZenonT(60), <1>1, <3>1, <3>2 DEF Fits, Decided, Stages, Serialized
  <2>3. CASE Expired(n) /\ SavesStage(n, "uncertain")
    <3>1. Changes(n, "uncertain", "uncertain", recorded[n], NoClaim, FALSE, FALSE)
      BY ZenonT(60), <1>5, <2>1, <2>3, ClaimDropped DEF sendClaimAgain, Changes, SavesStage, TypeOK
    <3>2. QED
      BY ZenonT(60), <1>1, <3>1 DEF Fits, Decided, Stages, Serialized, Claims
  <2>4. QED BY <1>5, <2>2, <2>3 DEF sendClaimAgain
<1>6. QED BY <1>3, <1>4, <1>5

LEMMA performOneClaimChanges ==
    ASSUME TypeInv, NEW n \in Nodes, performOneClaim(n)
    PROVE  \E s \in Stages, d \in Serialized, r \in Recorded, c \in Claims :
              Changes(n, s, d, r, c, FALSE, FALSE) /\ Fits(s, d, r, c, FALSE, FALSE)
<1> USE DEF TypeInv
<1>1. StageOf(n) /\ recorded[n] \in Recorded /\ claims[n] \in Claims /\ checked[n] \in BOOLEAN
  BY DEF StageInv, TypeOK, Recorded, Claims
<1>2. /\ stage[n] = "observing" /\ serialized[n] = "observing" /\ checked[n] = FALSE
      /\ claims[n] # NoClaim
  BY <1>1 DEF StageOf, Fits, performOneClaim
<1>3. claims[n] \in [response : Responses, observer : 0..NumberOfObservers]
  BY <1>1, <1>2 DEF Claims
<1>4. CASE UNCHANGED <<stage, recorded, claims>>
  <2>1. Changes(n, "observing", "observing", recorded[n], claims[n], FALSE, FALSE)
    BY <1>2, <1>4 DEF performOneClaim, Changes, TypeOK
  <2>2. QED BY ZenonT(60), <1>1, <1>2, <2>1 DEF Fits, Decided, Stages, Serialized
<1>5. ASSUME NEW a \in {"ClaimInPool", "ClaimInBlock"},
             claims' = [claims EXCEPT ![n].response = a], UNCHANGED <<stage, recorded>>
      PROVE  \E c \in Claims :
                /\ Changes(n, "observing", "observing", recorded[n], c, FALSE, FALSE)
                /\ c # NoClaim
  <2>1. [claims[n] EXCEPT !.response = a] \in [response : Responses, observer : 0..NumberOfObservers]
    BY <1>3 DEF Responses
  <2>2. [claims[n] EXCEPT !.response = a] # NoClaim
    BY <1>3 DEF NoClaim
  <2>3. claims' = [claims EXCEPT ![n] = [claims[n] EXCEPT !.response = a]]
    BY <1>5 DEF TypeOK
  <2>4. Changes(n, "observing", "observing", recorded[n], [claims[n] EXCEPT !.response = a],
                FALSE, FALSE)
    BY ZenonT(60), <1>2, <1>5, <2>3 DEF performOneClaim, Changes, TypeOK
  <2>5. QED BY <2>1, <2>2, <2>4 DEF Claims
<1>6. ASSUME NEW s, NEW r, Closes(n, s, r)
      PROVE  Changes(n, s, "observing", r, NoClaim, FALSE, FALSE)
  <2>1. due' = [due EXCEPT ![n] = FALSE] /\ UNCHANGED <<serialized, checked>>
    BY DEF performOneClaim
  <2>2. serialized' = [serialized EXCEPT ![n] = "observing"] /\ checked' = [checked EXCEPT ![n] = FALSE]
    BY <1>2, <2>1 DEF TypeOK
  <2>3. QED BY <1>6, <2>1, <2>2 DEF Closes, Launches, Records, Changes
<1>7. CASE Closes(n, "to reject", "RejectedByObserving") \/ Closes(n, "to commit", "ParticipantsVotesPresent")
  <2>1. \/ Changes(n, "to reject", "observing", "RejectedByObserving", NoClaim, FALSE, FALSE)
        \/ Changes(n, "to commit", "observing", "ParticipantsVotesPresent", NoClaim, FALSE, FALSE)
    BY <1>6, <1>7
  <2>2. /\ Fits("to reject", "observing", "RejectedByObserving", NoClaim, FALSE, FALSE)
        /\ Fits("to commit", "observing", "ParticipantsVotesPresent", NoClaim, FALSE, FALSE)
    BY DEF Fits, Decided
  <2>3. QED BY <2>1, <2>2 DEF Stages, Serialized, Recorded, Claims, FinalStates
<1>8. \/ UNCHANGED <<stage, recorded, claims>>
      \/ \E a \in {"ClaimInPool", "ClaimInBlock"} :
            claims' = [claims EXCEPT ![n].response = a] /\ UNCHANGED <<stage, recorded>>
      \/ Closes(n, "to reject", "RejectedByObserving") \/ Closes(n, "to commit", "ParticipantsVotesPresent")
  BY DEF performOneClaim
<1>9. CASE \E a \in {"ClaimInPool", "ClaimInBlock"} :
              claims' = [claims EXCEPT ![n].response = a] /\ UNCHANGED <<stage, recorded>>
  <2>1. PICK c \in Claims : /\ Changes(n, "observing", "observing", recorded[n], c, FALSE, FALSE)
                            /\ c # NoClaim
    BY <1>5, <1>9
  <2>2. QED BY ZenonT(60), <1>1, <2>1 DEF Fits, Decided, Stages, Serialized
<1>10. QED BY <1>4, <1>7, <1>8, <1>9

LEMMA DecisionChanges ==
    ASSUME TypeInv, NEW n \in Nodes,
           CommitsWithVotes(n) \/ runObservingResultStage(n) \/ runObservingRejectTransaction(n)
    PROVE  \E s \in Stages, d \in Serialized, r \in Recorded, c \in Claims, k \in BOOLEAN :
              /\ Changes(n, s, d, r, c, FALSE, k) /\ Fits(s, d, r, c, FALSE, k)
              /\ k => s = "committed"
<1> USE DEF TypeInv
<1>1. StageOf(n) /\ recorded[n] \in Recorded /\ due[n] \in BOOLEAN /\ checked[n] \in BOOLEAN
  BY DEF StageInv, TypeOK, Recorded
<1>2. claims[n] = NoClaim /\ due[n] = FALSE /\ checked[n] = FALSE
  BY <1>1 DEF StageOf, Fits, CommitsWithVotes, runObservingResultStage, runObservingRejectTransaction
<1>3. CASE Commits(n)
  <2>1. Changes(n, "committed", "none", recorded[n], NoClaim, FALSE, TRUE)
    BY <1>2, <1>3 DEF Commits, Changes, Launches, SavesStage, TypeOK
  <2>2. QED BY <1>1, <2>1 DEF Fits, Decided, Stages, Serialized, Claims
<1>4. CASE runObservingRejectTransaction(n)
  <2>1. Changes(n, "rejected", "none", recorded[n], NoClaim, FALSE, FALSE)
    BY <1>2, <1>4 DEF runObservingRejectTransaction, memory, Changes, Launches, SavesStage, TypeOK
  <2>2. recorded[n] # "NoInfo"
    BY <1>1, <1>4 DEF StageOf, Fits, runObservingRejectTransaction
  <2>3. QED BY <1>1, <2>1, <2>2 DEF Fits, Decided, Stages, Serialized, Claims
<1>5. QED BY <1>3, <1>4 DEF CommitsWithVotes, runObservingResultStage

LEMMA CheckingChanges ==
    ASSUME TypeInv, NEW n \in Nodes, runTransactionsChecking(n)
    PROVE  \E r \in Recorded, k \in BOOLEAN :
              /\ Changes(n, "committed", "none", r, NoClaim, FALSE, k)
              /\ Fits("committed", "none", r, NoClaim, FALSE, k)
              /\ checkIn' \in [Nodes -> 0..kTransactionCheckingSignalRepeatTime]
              /\ pool' \subseteq {"claim", "votes"}
<1> USE DEF TypeInv
<1>1. StageOf(n) /\ recorded[n] \in Recorded /\ due[n] \in BOOLEAN /\ checked[n] \in BOOLEAN
  BY DEF StageInv, TypeOK, Recorded
<1>2. checked[n] = TRUE
  BY <1>1 DEF runTransactionsChecking
<1>3. stage[n] = "committed"
  BY <1>1, <1>2 DEF StageOf, Fits
<1>4. claims[n] = NoClaim /\ due[n] = FALSE /\ serialized[n] = "none"
  BY <1>1, <1>3 DEF StageOf, Fits, Decided
<1>5. UNCHANGED <<stage, serialized, claims, due>>
  BY DEF runTransactionsChecking
<1>6. ASSUME NEW r \in Recorded, NEW k \in BOOLEAN,
             checked' = [checked EXCEPT ![n] = k], recorded' = [recorded EXCEPT ![n] = r]
      PROVE  /\ Changes(n, "committed", "none", r, NoClaim, FALSE, k)
             /\ Fits("committed", "none", r, NoClaim, FALSE, k)
  BY <1>3, <1>4, <1>5, <1>6 DEF Changes, Fits, Decided, TypeOK
<1>7. ASSUME NEW b \in 0..kTransactionCheckingSignalRepeatTime, Keeps(n, b)
      PROVE  /\ checkIn' \in [Nodes -> 0..kTransactionCheckingSignalRepeatTime]
             /\ checked' = [checked EXCEPT ![n] = TRUE]
             /\ recorded' = [recorded EXCEPT ![n] = recorded[n]]
  BY <1>2, <1>7 DEF Keeps, TypeOK
<1>8. ASSUME NEW r \in Recorded, Forgets(n, r)
      PROVE  /\ checkIn' \in [Nodes -> 0..kTransactionCheckingSignalRepeatTime]
             /\ checked' = [checked EXCEPT ![n] = FALSE]
             /\ recorded' = [recorded EXCEPT ![n] = r]
             /\ pool' = pool
  <2>1. 0 \in 0..kTransactionCheckingSignalRepeatTime
    BY ConstantTypes
  <2>2. QED BY <1>8, <2>1 DEF Forgets, Records, TypeOK
<1>9. \/ \E r \in FinalStates : Forgets(n, r)
      \/ /\ Keeps(n, kTransactionCheckingSignalRepeatTime)
            \/ Keeps(n, kTransactionCheckingSignalSmallRepeatTime)
         /\ pool' \in {pool, Pooled("votes")}
  <2>1. sendParticipantsVoteMessageToObservers(n)
           => /\ \/ Keeps(n, kTransactionCheckingSignalRepeatTime)
                 \/ Keeps(n, kTransactionCheckingSignalSmallRepeatTime)
              /\ pool' \in {pool, Pooled("votes")}
    BY DEF sendParticipantsVoteMessageToObservers
  <2>2. \/ sendParticipantsVoteMessageToObservers(n)
        \/ /\ \/ Keeps(n, kTransactionCheckingSignalRepeatTime)
              \/ Keeps(n, kTransactionCheckingSignalSmallRepeatTime)
           /\ UNCHANGED pool
        \/ Forgets(n, "ClaimTimeExpired") \/ Forgets(n, "RejectedByObserving")
        \/ Forgets(n, "ParticipantsVotesPresent")
    BY DEF runTransactionsChecking
  <2>3. QED BY <2>1, <2>2 DEF FinalStates
<1>10. CASE \E r \in FinalStates : Forgets(n, r)
  BY <1>6, <1>8, <1>10 DEF Recorded, TypeOK
<1>11. CASE /\ Keeps(n, kTransactionCheckingSignalRepeatTime)
               \/ Keeps(n, kTransactionCheckingSignalSmallRepeatTime)
            /\ pool' \in {pool, Pooled("votes")}
  <2>1. pool' \subseteq {"claim", "votes"}
    <3>1. pool \subseteq {"claim", "votes"} /\ (pool' = pool \/ pool' = pool \cup {"votes"})
      BY <1>11 DEF Pooled, TypeOK
    <3>2. QED BY <3>1
  <2>2. /\ kTransactionCheckingSignalRepeatTime \in 0..kTransactionCheckingSignalRepeatTime
        /\ kTransactionCheckingSignalSmallRepeatTime \in 0..kTransactionCheckingSignalRepeatTime
    BY ConstantTypes
  <2>3. /\ checkIn' \in [Nodes -> 0..kTransactionCheckingSignalRepeatTime]
        /\ checked' = [checked EXCEPT ![n] = TRUE]
        /\ recorded' = [recorded EXCEPT ![n] = recorded[n]]
    BY <1>7, <1>11, <2>2
  <2>4. /\ Changes(n, "committed", "none", recorded[n], NoClaim, FALSE, TRUE)
        /\ Fits("committed", "none", recorded[n], NoClaim, FALSE, TRUE)
    BY <1>1, <1>6, <2>3
  <2>5. QED BY <1>1, <2>1, <2>3, <2>4
<1>12. QED BY <1>9, <1>10, <1>11

LEMMA RestartChanges ==
    ASSUME TypeInv, NEW n \in Nodes, Restart(n)
    PROVE  \E s \in Stages, d \in Serialized, r \in Recorded, k \in BOOLEAN :
              /\ Changes(n, s, d, r, NoClaim, FALSE, k) /\ Fits(s, d, r, NoClaim, FALSE, k)
              /\ k => s = "committed"
<1> USE DEF TypeInv
<1>1. /\ StageOf(n) /\ recorded[n] \in Recorded /\ serialized[n] \in Serialized
      /\ stage[n] \in Stages
  BY DEF StageInv, TypeOK, Recorded, Stages, Serialized
<1>2. PICK k \in BOOLEAN : k <=> recorded[n] = "NoInfo" /\ serialized[n] = "none"
  OBVIOUS
<1>3. Changes(n, StageFromDisk(n), serialized[n], recorded[n], NoClaim, FALSE, k)
  <2>1. k = (recorded[n] = "NoInfo" /\ serialized[n] = "none")
    BY <1>2
  <2>2. /\ stage' = [stage EXCEPT ![n] = StageFromDisk(n)]
        /\ claims' = [claims EXCEPT ![n] = NoClaim] /\ due' = [due EXCEPT ![n] = FALSE]
        /\ checked' = [checked EXCEPT ![n] = recorded[n] = "NoInfo" /\ serialized[n] = "none"]
        /\ UNCHANGED <<serialized, recorded>>
    BY DEF Restart
  <2>3. checked' = [checked EXCEPT ![n] = k]
    BY <2>1, <2>2
  <2>4. QED BY <2>2, <2>3 DEF Changes, TypeOK
<1>4. StageFromDisk(n) \in Stages
  BY <1>1 DEF StageFromDisk, Stages
<1>5. Fits(StageFromDisk(n), serialized[n], recorded[n], NoClaim, FALSE, k)
  BY <1>1, <1>2 DEF StageFromDisk, StageOf, Fits, Decided, Serialized
<1>6. k => StageFromDisk(n) = "committed"
  BY <1>1, <1>2 DEF StageFromDisk, StageOf, Fits, Decided
<1>7. QED BY <1>1, <1>3, <1>4, <1>5, <1>6

LEMMA TypeNode ==
    ASSUME TypeInv, NEW n \in Nodes, NodeStep(n) \/ Restart(n)
    PROVE  TypeInv'
<1> USE DEF TypeInv
<1>1. \E s \in Stages, d \in Serialized, r \in Recorded, c \in Claims, u \in BOOLEAN, k \in BOOLEAN :
         /\ Changes(n, s, d, r, c, u, k) /\ Fits(s, d, r, c, u, k)
         /\ k => s = "committed"
  <2>1. CASE runObservingStage(n) \/ ClaimsAfterRestart(n) \/ sendClaimAgain(n) \/ performOneClaim(n)
    BY <2>1, ClaimsChange, performOneClaimChanges
  <2>2. CASE CommitsWithVotes(n) \/ runObservingResultStage(n) \/ runObservingRejectTransaction(n)
    BY <2>2, DecisionChanges
  <2>3. CASE runTransactionsChecking(n)
    BY <2>3, CheckingChanges DEF Stages, Serialized, Claims
  <2>4. CASE Restart(n)
    BY <2>4, RestartChanges DEF Claims
  <2>5. QED BY <2>1, <2>2, <2>3, <2>4 DEF NodeStep
<1>2. StageInv'
  BY <1>1, ChangesKeepStageInv
<1>3. /\ stage' \in [Nodes -> Stages] /\ serialized' \in [Nodes -> Serialized]
      /\ recorded' \in [Nodes -> Recorded] /\ claims' \in [Nodes -> Claims]
      /\ due' \in [Nodes -> BOOLEAN] /\ checked' \in [Nodes -> BOOLEAN]
      /\ \A m \in Nodes : checked'[m] => stage'[m] = "committed"
  <2>1. checked[n] => stage[n] = "committed"
    BY DEF TypeOK
  <2>2. QED BY <1>1, <2>1, ChangesKeepTypes
<1>4. pool' \subseteq {"claim", "votes"}
  <2>1. CASE runObservingStage(n) \/ ClaimsAfterRestart(n) \/ sendClaimAgain(n)
    BY <2>1, ClaimTypes, ClaimDropped
       DEF runObservingStage, ClaimsAfterRestart, sendClaimAgain, TypeOK
  <2>2. CASE runTransactionsChecking(n)
    BY <2>2, CheckingChanges
  <2>3. CASE \/ performOneClaim(n) \/ CommitsWithVotes(n) \/ runObservingResultStage(n)
             \/ runObservingRejectTransaction(n) \/ Restart(n)
    BY <2>3 DEF performOneClaim, CommitsWithVotes, runObservingResultStage, Commits,
                runObservingRejectTransaction, Restart, external, TypeOK
  <2>4. QED BY <2>1, <2>2, <2>3 DEF NodeStep
<1>5. checkIn' \in [Nodes -> 0..kTransactionCheckingSignalRepeatTime]
  <2>1. CASE Commits(n)
    BY <2>1 DEF Commits, TypeOK
  <2>2. CASE Restart(n)
    <3>1. 0 \in 0..kTransactionCheckingSignalRepeatTime
      BY ConstantTypes
    <3>2. QED BY <2>2, <3>1 DEF Restart, TypeOK
  <2>3. CASE runTransactionsChecking(n)
    BY <2>3, CheckingChanges
  <2>4. CASE \/ runObservingStage(n) \/ ClaimsAfterRestart(n) \/ sendClaimAgain(n)
             \/ performOneClaim(n) \/ runObservingRejectTransaction(n)
    BY <2>4 DEF runObservingStage, ClaimsAfterRestart, sendClaimAgain, performOneClaim,
                runObservingRejectTransaction, memory, TypeOK
  <2>5. QED
    BY <2>1, <2>2, <2>3, <2>4 DEF NodeStep, CommitsWithVotes, runObservingResultStage
<1>6. UNCHANGED <<block, chain, seen, offline, outages>>
  BY DEF NodeStep, runObservingStage, ClaimsAfterRestart, sendClaimAgain, performOneClaim,
         CommitsWithVotes, runObservingResultStage, Commits, runObservingRejectTransaction,
         runTransactionsChecking, Restart, external
<1>7. restarts' \in 0..MaxRestarts
  <2>1. CASE Restart(n)
    <3>1. restarts < MaxRestarts /\ restarts' = restarts + 1
      BY <2>1 DEF Restart
    <3>2. QED BY <3>1, NumberTypes, ObservingAssumption
  <2>2. CASE NodeStep(n)
    BY <2>2
       DEF NodeStep, runObservingStage, ClaimsAfterRestart, sendClaimAgain, performOneClaim,
           CommitsWithVotes, runObservingResultStage, Commits, runObservingRejectTransaction,
           runTransactionsChecking, TypeOK
  <2>3. QED BY <2>1, <2>2
<1>8. TypeOK'
  BY <1>3, <1>4, <1>5, <1>6, <1>7 DEF TypeOK, Stages, Serialized, Recorded, Claims
<1>9. QED BY <1>2, <1>8

LEMMA TypeTick == ASSUME TypeInv, Tick PROVE TypeInv'
<1> USE DEF TypeInv
<1>1. /\ UNCHANGED <<stage, serialized, recorded, claims, checked, restarts>>
      /\ due' = [n \in Nodes |-> claims[n] # NoClaim] /\ pool' = {}
      /\ block' = IF block <= Last THEN block + 1 ELSE block
      /\ offline' \in {{}} \cup {{n} : n \in Nodes}
      /\ outages' = outages + Cardinality(offline') /\ outages' <= MaxOutages
      /\ seen' = [i \in Observers |-> IF i \in Reliable THEN block' ELSE seen[i]]
      /\ checkIn' = [n \in Nodes |-> IF checked[n] THEN checkIn[n] - 1 ELSE 0]
      /\ chain' = [what \in DOMAIN chain |->
                     IF what \in pool /\ block < Last THEN block + 1 ELSE chain[what]]
      /\ \A n \in Nodes : checked[n] => checkIn[n] > 0
  BY DEF Tick, NothingDue
<1>2. block \in 0..Last + 1 /\ block' \in 0..Last + 1 /\ block <= block'
  BY <1>1, NumberTypes, LastType
<1>3. seen' \in [Observers -> 0..block']
  <2>1. \A i \in Observers : seen[i] \in 0..block' /\ block' \in 0..block'
    BY <1>2, NumberTypes, LastType
  <2>2. QED BY <1>1, <2>1
<1>4. checkIn' \in [Nodes -> 0..kTransactionCheckingSignalRepeatTime]
  <2>1. ASSUME NEW n \in Nodes
        PROVE  (IF checked[n] THEN checkIn[n] - 1 ELSE 0) \in 0..kTransactionCheckingSignalRepeatTime
    <3>1. checkIn[n] \in 0..kTransactionCheckingSignalRepeatTime
      BY DEF TypeOK
    <3>2. QED BY <1>1, <3>1, ConstantTypes
  <2>2. QED BY <1>1, <2>1
<1>5. chain' \in [{"claim", "votes"} -> 0..Last]
  <2>1. DOMAIN chain = {"claim", "votes"}
    BY DEF TypeOK
  <2>2. \A what \in {"claim", "votes"} :
          (IF what \in pool /\ block < Last THEN block + 1 ELSE chain[what]) \in 0..Last
    BY NumberTypes, LastType
  <2>3. QED BY <1>1, <2>1, <2>2
<1>6. offline' \subseteq Nodes /\ outages' \in 0..MaxOutages
  <2>1. Cardinality(offline') \in Nat
    <3>1. offline' = {} \/ \E n \in Nodes : offline' = {n}
      BY <1>1
    <3>2. QED BY <3>1, FS_EmptySet, FS_Singleton
  <2>2. outages' \in Nat
    BY <1>1, <2>1, NumberTypes
  <2>3. QED BY <1>1, <2>2, ObservingAssumption
<1>7. TypeOK'
  BY <1>1, <1>2, <1>3, <1>4, <1>5, <1>6 DEF TypeOK
<1>8. StageInv'
  <2>1. SUFFICES ASSUME NEW n \in Nodes PROVE StageOf(n)'
    BY DEF StageInv
  <2>2. due'[n] <=> claims[n] # NoClaim
    BY <1>1
  <2>3. QED BY <1>1, <2>2 DEF StageInv, StageOf, Fits
<1>9. QED BY <1>7, <1>8

LEMMA TypeStep == TypeInv /\ [Next]_vars => TypeInv'
<1> SUFFICES ASSUME TypeInv, [Next]_vars PROVE TypeInv'
  OBVIOUS
<1>1. ASSUME NEW i \in Observers, CatchUp(i) PROVE TypeInv'
  <2>1. seen' \in [Observers -> 0..block']
    <3>1. seen[i] < block /\ seen' = [seen EXCEPT ![i] = seen[i] + 1] /\ block' = block
      BY <1>1 DEF CatchUp
    <3>2. seen \in [Observers -> 0..block] /\ block \in Nat
      BY NumberTypes DEF TypeInv, TypeOK
    <3>3. seen[i] + 1 \in 0..block
      BY <3>1, <3>2
    <3>4. QED BY <3>1, <3>2, <3>3
  <2>2. UNCHANGED <<stage, serialized, recorded, claims, due, checked, checkIn, block, chain, pool,
                    offline, outages, restarts>>
    BY <1>1 DEF CatchUp, memory
  <2>3. QED BY <2>1, <2>2 DEF TypeInv, TypeOK, StageInv, StageOf
<1>2. CASE UNCHANGED vars
  BY <1>2 DEF vars, memory, external, TypeInv, TypeOK, StageInv, StageOf
<1>3. QED BY <1>1, <1>2, TypeNode, TypeTick DEF Next

\* The variables stay in their ranges, the clock, the counters and the timers
\* among them, and a payment that is checked is a committed one.
THEOREM TypeCorrect == Spec => []TypeOK
<1>1. TypeInv => TypeOK
  BY DEF TypeInv
<1>2. QED
  BY <1>1, TypeInit, TypeStep, PTL DEF Spec

-----------------------------------------------------------------------------
(* What the hosts say, and what the nodes write down *)

\* A host that has an answer has it from the chain or the pool.
LEMMA WhatHostsSay ==
    ASSUME TypeOK, NEW i \in Observers
    PROVE  /\ "ParticipantsVotesPresent" \in TransactionStates[i] => chain.votes # 0
           /\ "ClaimInBlock" \in TransactionStates[i]
                 => chain.claim # 0 /\ ~Knows(i, "votes")
           /\ "ClaimInPool" \in TransactionStates[i]
                 => "claim" \in pool /\ seen[i] <= Last /\ ~Knows(i, "claim")
           /\ "NoInfo" \in TransactionStates[i] => ~Knows(i, "claim")
           /\ "ClaimTimeExpired" \in ClaimResponses[i] => seen[i] > Last
           /\ "ParticipantsVotesPresent" \in VotesHeld[i] => chain.votes # 0
<1>1. CASE Knows(i, "votes")
  BY <1>1 DEF TransactionStates, ClaimResponses, VotesHeld, Knows
<1>2. CASE ~Knows(i, "votes") /\ Knows(i, "claim")
  BY <1>2 DEF TransactionStates, ClaimResponses, VotesHeld, Knows
<1>3. CASE ~Knows(i, "votes") /\ ~Knows(i, "claim")
  BY <1>3 DEF TransactionStates, ClaimResponses, VotesHeld
<1>4. QED BY <1>1, <1>2, <1>3

\* What a node step does to stages: the others stay, and a decision does.
LEMMA StageMoves ==
    ASSUME TypeInv, NEW n \in Nodes, NodeStep(n) \/ Restart(n)
    PROVE  /\ \A m \in Nodes \ {n} : stage'[m] = stage[m]
           /\ stage[n] \in Decided => stage'[n] = stage[n]
<1> USE DEF TypeInv
<1>1. StageOf(n)
  BY DEF StageInv
<1>2. CASE runTransactionsChecking(n)
  BY <1>2 DEF runTransactionsChecking
<1>3. CASE Restart(n)
  <2>1. stage' = [stage EXCEPT ![n] = StageFromDisk(n)]
    BY <1>3 DEF Restart
  <2>2. stage[n] \in Decided => StageFromDisk(n) = stage[n]
    BY <1>1 DEF StageOf, Fits, StageFromDisk
  <2>3. QED BY <2>1, <2>2 DEF TypeOK
<1>4. CASE runObservingStage(n) \/ ClaimsAfterRestart(n) \/ sendClaimAgain(n) \/ performOneClaim(n)
  <2>1. stage[n] \in {"voted", "restarted", "observing"}
    BY <1>1, <1>4
       DEF StageOf, Fits, runObservingStage, ClaimsAfterRestart, sendClaimAgain, performOneClaim, NoClaim
  <2>2. \E s \in Stages : stage' = [stage EXCEPT ![n] = s]
    BY <1>4, ClaimsChange, performOneClaimChanges DEF Changes
  <2>3. QED BY <2>1, <2>2 DEF TypeOK, Decided
<1>5. CASE CommitsWithVotes(n) \/ runObservingResultStage(n) \/ runObservingRejectTransaction(n)
  <2>1. stage[n] \in {"voted", "to commit", "to reject"}
    BY <1>5 DEF CommitsWithVotes, runObservingResultStage, runObservingRejectTransaction
  <2>2. \E s \in Stages : stage' = [stage EXCEPT ![n] = s]
    BY <1>5, DecisionChanges DEF Changes
  <2>3. QED BY <2>1, <2>2 DEF TypeOK, Decided
<1>6. QED BY <1>2, <1>3, <1>4, <1>5 DEF NodeStep

\* The chain grows with the ticks only.
LEMMA OnlyTicksMoveTheChain ==
    ASSUME NEW n \in Nodes, NodeStep(n) \/ Restart(n)
    PROVE  UNCHANGED <<block, chain, seen, offline, outages>>
BY DEF NodeStep, runObservingStage, ClaimsAfterRestart, sendClaimAgain, performOneClaim,
       CommitsWithVotes, runObservingResultStage, Commits, runObservingRejectTransaction,
       runTransactionsChecking, Restart, external

\* What a node step adds to the pool.
LEMMA PoolMoves ==
    ASSUME TypeInv, NEW n \in Nodes, NodeStep(n) \/ Restart(n)
    PROVE  \/ pool' = pool
           \/ /\ pool' = pool \cup {"claim"} /\ stage'[n] = "observing"
           \/ /\ pool' = pool \cup {"votes"} /\ runTransactionsChecking(n)
              /\ sendParticipantsVoteMessageToObservers(n)
              /\ \E i \in Observers, answer \in {"ClaimInPool", "ClaimInBlock"} :
                    answer \in VotesResponses[i]
<1> USE DEF TypeInv
<1>1. Accepted(n) => pool' = pool \/ pool' = pool \cup {"claim"}
  BY DEF Accepted, Pooled
<1>2. CASE runObservingStage(n) \/ ClaimsAfterRestart(n) \/ sendClaimAgain(n)
  <2>1. pool' = pool \/ (Accepted(n) /\ pool' = pool \cup {"claim"})
    BY <1>1, <1>2 DEF runObservingStage, ClaimsAfterRestart, sendClaimAgain, Unsent, Expired
  <2>2. Accepted(n) => claims'[n] # NoClaim
    BY ZenonT(60), ClaimTypes DEF TypeOK
  <2>3. TypeInv'
    BY <1>2, TypeNode DEF NodeStep
  <2>4. claims'[n] # NoClaim => stage'[n] = "observing"
    BY <2>3 DEF StageInv, StageOf, Fits
  <2>5. QED BY <2>1, <2>2, <2>4
<1>3. CASE runTransactionsChecking(n)
  <2>1. \/ pool' = pool
        \/ /\ sendParticipantsVoteMessageToObservers(n)
           /\ \E answer \in {"ClaimInPool", "ClaimInBlock"} :
                 Answering(n, Observers, VotesResponses, answer) # {}
           /\ pool' = Pooled("votes")
    BY <1>3 DEF runTransactionsChecking, sendParticipantsVoteMessageToObservers, Forgets
  <2>2. \A answer : Answering(n, Observers, VotesResponses, answer) # {}
                       => \E i \in Observers : answer \in VotesResponses[i]
    BY DEF Answering
  <2>3. Pooled("votes") = pool \/ Pooled("votes") = pool \cup {"votes"}
    BY DEF Pooled
  <2>4. QED BY <1>3, <2>1, <2>2, <2>3
<1>4. CASE \/ performOneClaim(n) \/ CommitsWithVotes(n) \/ runObservingResultStage(n)
           \/ runObservingRejectTransaction(n) \/ Restart(n)
  BY <1>4 DEF performOneClaim, CommitsWithVotes, runObservingResultStage, Commits,
              runObservingRejectTransaction, Restart, external
<1>5. QED BY <1>2, <1>3, <1>4 DEF NodeStep

\* What a tick does to the chain.
LEMMA TickMoves ==
    ASSUME TypeOK, Tick
    PROVE  /\ block' = IF block <= Last THEN block + 1 ELSE block
           /\ \A what \in {"claim", "votes"} :
                 chain'[what] = IF what \in pool /\ block < Last THEN block + 1 ELSE chain[what]
           /\ pool' = {} /\ UNCHANGED <<stage, serialized, recorded, claims, checked>>
           /\ \A i \in Observers : seen'[i] = IF i \in Reliable THEN block' ELSE seen[i]
<1>1. DOMAIN chain = {"claim", "votes"}
  BY DEF TypeOK
<1>2. QED BY <1>1 DEF Tick

LEMMA CatchUpMoves ==
    ASSUME TypeOK, NEW i \in Observers, CatchUp(i)
    PROVE  /\ \A j \in Observers : seen'[j] = seen[j] \/ j = i
           /\ seen[i] < block
           /\ UNCHANGED <<stage, serialized, recorded, claims, due, checked, checkIn, block, chain,
                          pool, offline, outages, restarts>>
BY DEF CatchUp, memory, TypeOK

LEMMA ChainInit == Init => ChainInv
<1> SUFFICES ASSUME Init PROVE ChainInv
  OBVIOUS
<1>1. /\ chain = [claim |-> 0, votes |-> 0] /\ block = 0 /\ pool = {}
      /\ seen = [i \in Observers |-> 0]
  BY DEF Init
<1>2. QED BY <1>1, ObservingAssumption DEF ChainInv

LEMMA ChainNode ==
    ASSUME TypeInv, ChainInv, NEW n \in Nodes, NodeStep(n) \/ Restart(n)
    PROVE  ChainInv'
<1>1. UNCHANGED <<block, chain, seen>>
  BY OnlyTicksMoveTheChain
<1>2. ASSUME "votes" \in pool', "votes" \notin pool
      PROVE  (chain.claim # 0 \/ "claim" \in pool') /\ \E m \in Nodes : stage'[m] = "committed"
  <2>1. /\ pool' = pool \cup {"votes"} /\ runTransactionsChecking(n)
        /\ \E i \in Observers, answer \in {"ClaimInPool", "ClaimInBlock"} :
              answer \in VotesResponses[i]
    BY <1>2, PoolMoves
  <2>2. PICK i \in Observers, answer \in {"ClaimInPool", "ClaimInBlock"} : answer \in VotesResponses[i]
    BY <2>1
  <2>3. answer \in TransactionStates[i] \/ Knows(i, "votes")
    BY <2>2 DEF VotesResponses
  <2>4. chain.claim # 0 \/ "claim" \in pool
    BY <2>3, WhatHostsSay DEF Knows, ChainInv, TypeInv
  <2>5. stage'[n] = "committed"
    BY <2>1 DEF runTransactionsChecking, TypeInv, TypeOK
  <2>6. QED BY <2>1, <2>4, <2>5
<1>3. ASSUME "votes" \in pool', "votes" \in pool
      PROVE  (chain.claim # 0 \/ "claim" \in pool') /\ \E m \in Nodes : stage'[m] = "committed"
  <2>1. pool \subseteq pool'
    BY PoolMoves
  <2>2. PICK m \in Nodes : stage[m] = "committed"
    BY <1>3 DEF ChainInv
  <2>3. stage'[m] = "committed"
    BY <2>2, StageMoves DEF Decided
  <2>4. QED BY <1>3, <2>1, <2>3 DEF ChainInv
<1>4. QED BY <1>1, <1>2, <1>3 DEF ChainInv

LEMMA ChainStep == TypeInv /\ ChainInv /\ [Next]_vars => ChainInv'
<1> SUFFICES ASSUME TypeInv, ChainInv, [Next]_vars PROVE ChainInv'
  OBVIOUS
<1>1. CASE Tick
  <2>1. \A what \in {"claim", "votes"} : chain'[what] <= block'
    BY <1>1, TickMoves, NumberTypes, LastType DEF ChainInv, TypeInv
  <2>2. \A i \in Reliable : seen'[i] = block'
    BY <1>1, TickMoves, ObservingAssumption DEF TypeInv
  <2>3. chain'.votes # 0 => chain'.claim # 0
    BY <1>1, TickMoves, NumberTypes DEF ChainInv, TypeInv
  <2>4. QED BY <1>1, <2>1, <2>2, <2>3, TickMoves DEF ChainInv, TypeInv
<1>2. ASSUME NEW i \in Observers, CatchUp(i) PROVE ChainInv'
  <2>1. ASSUME NEW j \in Reliable PROVE seen'[j] = block'
    <3>1. j \in Observers /\ seen[j] = block
      BY ObservingAssumption DEF ChainInv
    <3>2. j # i
      BY <1>2, <3>1, CatchUpMoves, NumberTypes DEF TypeInv
    <3>3. QED BY <1>2, <3>1, <3>2, CatchUpMoves DEF TypeInv
  <2>2. QED BY <1>2, <2>1, CatchUpMoves DEF ChainInv, TypeInv
<1>3. CASE UNCHANGED vars
  BY <1>3 DEF vars, memory, external, ChainInv
<1>4. QED BY <1>1, <1>2, <1>3, ChainNode DEF Next

\* RecordedVerdict and the rest of ToldInv, for one node
VerdictOf(r) ==
    /\ r = "ParticipantsVotesPresent" => chain.votes # 0
    /\ r = "RejectedByObserving" => block > Last /\ chain.claim # 0 /\ chain.votes = 0
    /\ r = "ClaimTimeExpired" => block > Last /\ chain.claim = 0
ToldOf(n) ==
    /\ VerdictOf(recorded[n])
    /\ stage[n] = "uncertain" \/ serialized[n] = "uncertain" => block > Last
    /\ stage[n] = "to commit" => chain.votes # 0

LEMMA ToldByNode == ToldInv <=> \A n \in Nodes : ToldOf(n)
BY DEF ToldInv, RecordedVerdict, ToldOf, VerdictOf

LEMMA ToldInit == Init => ToldInv
<1> SUFFICES ASSUME Init, NEW n \in Nodes PROVE ToldOf(n)
  BY ToldByNode
<1>1. /\ stage[n] \in {"voted", "committed", "rejected"}
      /\ serialized[n] \in {"none", "voted"} /\ recorded[n] \in {"no record", "NoInfo"}
  BY DEF Init
<1>2. QED BY <1>1 DEF ToldOf, VerdictOf

\* A host that refuses a claim, or holds one as too old, knows the last block.
LEMMA ExpiredIsLate == TypeOK /\ (\E n \in Nodes : Expired(n)) => block > Last
<1> SUFFICES ASSUME TypeOK, NEW n \in Nodes, Expired(n) PROVE block > Last
  OBVIOUS
<1>1. PICK i \in Observers : "ClaimTimeExpired" \in ClaimResponses[i]
  BY DEF Expired, Answering
<1>2. QED BY <1>1, WhatHostsSay, NumberTypes, LastType

\* A host says what it knows: a claim without votes after the last block is lost.
LEMMA LateClaimIsLost ==
    ASSUME TypeOK, NEW i \in Observers, NEW state \in {"ClaimInPool", "ClaimInBlock"},
           state \in TransactionStates[i], ClaimTimeIsOver(i)
    PROVE  VerdictOf("RejectedByObserving")
<1>1. seen[i] > Last /\ block > Last /\ chain.votes <= seen[i]
  BY NumberTypes, LastType DEF ClaimTimeIsOver
<1>2. state = "ClaimInBlock"
  BY <1>1, WhatHostsSay, NumberTypes, LastType
<1>3. chain.claim # 0 /\ ~Knows(i, "votes")
  BY <1>2, WhatHostsSay
<1>4. QED BY <1>1, <1>3 DEF Knows, VerdictOf

\* A claim that was not refused as late leaves its payment being observed.
LEMMA ClaimSent ==
    ASSUME TypeInv, NEW n \in Nodes,
           runObservingStage(n) \/ ClaimsAfterRestart(n) \/ sendClaimAgain(n), ~Expired(n)
    PROVE  /\ Accepted(n) \/ Unsent(n)
           /\ stage'[n] = "observing" /\ serialized'[n] = "observing"
<1>1. Accepted(n) \/ Unsent(n)
  BY DEF runObservingStage, ClaimsAfterRestart, sendClaimAgain
<1>2. claims'[n] # NoClaim
  BY ZenonT(60), <1>1, ClaimTypes DEF TypeInv, TypeOK
<1>3. StageOf(n)'
  BY TypeNode DEF NodeStep, TypeInv, StageInv
<1>4. QED BY <1>1, <1>2, <1>3 DEF StageOf, Fits

LEMMA ToldClaims ==
    ASSUME TypeInv, ToldInv, NEW n \in Nodes,
           runObservingStage(n) \/ ClaimsAfterRestart(n) \/ sendClaimAgain(n)
    PROVE  ToldOf(n)'
<1> USE DEF TypeInv
<1>1. UNCHANGED <<block, chain>>
  BY OnlyTicksMoveTheChain DEF NodeStep
<1>2. VerdictOf(recorded[n])'
  <2>1. recorded'[n] = recorded[n] \/ recorded'[n] = "ClaimInPool"
    BY DEF runObservingStage, ClaimsAfterRestart, sendClaimAgain, Records, TypeOK
  <2>2. VerdictOf(recorded[n])
    BY ToldByNode DEF ToldOf
  <2>3. QED BY <1>1, <2>1, <2>2 DEF VerdictOf
<1>3. CASE Expired(n)
  <2>1. block > Last /\ stage'[n] = "uncertain"
    BY ZenonT(60), <1>3, ExpiredIsLate, ClaimDropped DEF TypeOK
  <2>2. QED BY <1>1, <1>2, <2>1 DEF ToldOf
<1>4. CASE ~Expired(n)
  BY <1>2, <1>4, ClaimSent DEF ToldOf
<1>5. QED BY <1>3, <1>4

LEMMA ToldPerform ==
    ASSUME TypeInv, ChainInv, ToldInv, NEW n \in Nodes, performOneClaim(n)
    PROVE  ToldOf(n)'
<1> USE DEF TypeInv
<1>1. UNCHANGED <<block, chain, serialized>>
  BY DEF performOneClaim, external
<1>2. ToldOf(n)
  BY ToldByNode
<1>3. CASE UNCHANGED <<stage, recorded>>
  BY <1>1, <1>2, <1>3 DEF ToldOf, VerdictOf
<1>4. ASSUME NEW s, NEW r, Closes(n, s, r) PROVE stage'[n] = s /\ recorded'[n] = r
  BY <1>4 DEF Closes, Launches, Records, TypeOK
<1>5. CASE Closes(n, "to reject", "RejectedByObserving")
           /\ \E i \in Observers, state \in {"ClaimInPool", "ClaimInBlock"} :
                 state \in TransactionStates[i] /\ ClaimTimeIsOver(i)
  <2>1. VerdictOf("RejectedByObserving")
    BY <1>5, LateClaimIsLost
  <2>2. stage'[n] = "to reject" /\ recorded'[n] = "RejectedByObserving"
    BY <1>4, <1>5
  <2>3. QED BY <1>1, <1>2, <2>1, <2>2 DEF ToldOf, VerdictOf
<1>6. CASE Closes(n, "to commit", "ParticipantsVotesPresent")
           /\ \E i \in Observers : "ParticipantsVotesPresent" \in TransactionStates[i]
  <2>1. chain.votes # 0
    BY <1>6, WhatHostsSay
  <2>2. stage'[n] = "to commit" /\ recorded'[n] = "ParticipantsVotesPresent"
    BY <1>4, <1>6
  <2>3. QED BY <1>1, <1>2, <2>1, <2>2 DEF ToldOf, VerdictOf
<1>7. \A asked \in {Asked(n)} : \A answer : \A i \in Answering(n, asked, TransactionStates, answer) :
         i \in Observers /\ answer \in TransactionStates[i]
  BY DEF Answering, Asked
<1>8. QED
  BY <1>3, <1>5, <1>6, <1>7 DEF performOneClaim

LEMMA ToldChecking ==
    ASSUME TypeInv, ChainInv, ToldInv, NEW n \in Nodes, runTransactionsChecking(n)
    PROVE  ToldOf(n)'
<1> USE DEF TypeInv
<1>1. UNCHANGED <<block, chain, serialized, stage>>
  BY DEF runTransactionsChecking
<1>2. ToldOf(n)
  BY ToldByNode
<1>3. \/ recorded' = recorded
      \/ \E state \in TransactionStates[Front] :
            \/ state = "NoInfo" /\ ClaimTimeIsOver(Front) /\ Forgets(n, "ClaimTimeExpired")
            \/ state = "ClaimInBlock" /\ ClaimTimeIsOver(Front) /\ Forgets(n, "RejectedByObserving")
            \/ state = "ParticipantsVotesPresent" /\ Forgets(n, "ParticipantsVotesPresent")
  BY DEF runTransactionsChecking, sendParticipantsVoteMessageToObservers, Keeps
<1>4. ASSUME NEW r, Forgets(n, r), VerdictOf(r) PROVE ToldOf(n)'
  <2>1. recorded'[n] = r
    BY <1>4 DEF Forgets, Records, TypeOK
  <2>2. QED BY <1>1, <1>2, <1>4, <2>1 DEF ToldOf, VerdictOf
<1>5. CASE recorded' = recorded
  BY <1>1, <1>2, <1>5 DEF ToldOf, VerdictOf
<1>6. "NoInfo" \in TransactionStates[Front] /\ ClaimTimeIsOver(Front)
         => VerdictOf("ClaimTimeExpired")
  <2>1. SUFFICES ASSUME "NoInfo" \in TransactionStates[Front], seen[Front] > Last
                 PROVE  VerdictOf("ClaimTimeExpired")
    BY DEF ClaimTimeIsOver
  <2>2. block > Last /\ chain.claim \in Nat /\ chain.claim <= seen[Front]
    BY <2>1, NumberTypes, LastType, ConstantTypes
  <2>3. ~Knows(Front, "claim")
    BY <2>1, WhatHostsSay, ConstantTypes
  <2>4. QED BY <2>2, <2>3 DEF Knows, VerdictOf
<1>7. "ClaimInBlock" \in TransactionStates[Front] /\ ClaimTimeIsOver(Front)
         => VerdictOf("RejectedByObserving")
  BY LateClaimIsLost, ConstantTypes
<1>8. "ParticipantsVotesPresent" \in TransactionStates[Front] => VerdictOf("ParticipantsVotesPresent")
  BY WhatHostsSay, ConstantTypes DEF VerdictOf
<1>9. QED BY <1>3, <1>4, <1>5, <1>6, <1>7, <1>8

LEMMA ToldDecision ==
    ASSUME TypeInv, ToldInv, NEW n \in Nodes,
           \/ CommitsWithVotes(n) \/ runObservingResultStage(n)
           \/ runObservingRejectTransaction(n) \/ Restart(n)
    PROVE  ToldOf(n)'
<1> USE DEF TypeInv
<1>1. UNCHANGED <<block, chain, recorded>>
  BY DEF CommitsWithVotes, runObservingResultStage, Commits, runObservingRejectTransaction, Restart,
         external
<1>2. ToldOf(n)
  BY ToldByNode
<1>3. CASE Restart(n)
  <2>1. serialized' = serialized /\ stage'[n] = StageFromDisk(n)
    BY <1>3 DEF Restart, TypeOK
  <2>2. stage'[n] \in {"restarted", "voted", stage[n]}
    BY <2>1 DEF StageFromDisk
  <2>3. QED BY <1>1, <1>2, <2>1, <2>2 DEF ToldOf, VerdictOf
<1>4. CASE CommitsWithVotes(n) \/ runObservingResultStage(n) \/ runObservingRejectTransaction(n)
  <2>1. serialized'[n] = "none" /\ stage'[n] \in Decided
    BY <1>4 DEF CommitsWithVotes, runObservingResultStage, Commits, runObservingRejectTransaction,
                Launches, SavesStage, TypeOK, Decided
  <2>2. QED BY <1>1, <1>2, <2>1 DEF ToldOf, VerdictOf, Decided
<1>5. QED BY <1>3, <1>4

LEMMA ToldStep == TypeInv /\ ChainInv /\ ToldInv /\ [Next]_vars => ToldInv'
<1> SUFFICES ASSUME TypeInv, ChainInv, ToldInv, [Next]_vars PROVE ToldInv'
  OBVIOUS
<1>1. SUFFICES ASSUME NEW n \in Nodes PROVE ToldOf(n)'
  BY DEF ToldInv, RecordedVerdict, ToldOf, VerdictOf
<1>2. ToldOf(n)
  BY ToldByNode
<1>3. ASSUME NEW m \in Nodes, NodeStep(m) \/ Restart(m) PROVE ToldOf(n)'
  <2>1. CASE m = n
    BY <1>3, <2>1, ToldClaims, ToldPerform, ToldChecking, ToldDecision DEF NodeStep
  <2>2. CASE m # n
    <3>1. UNCHANGED <<block, chain>>
      BY <1>3, OnlyTicksMoveTheChain
    <3>2. \E s, d, r, c, u, k : Changes(m, s, d, r, c, u, k)
      BY <1>3, ClaimsChange, performOneClaimChanges, DecisionChanges, CheckingChanges, RestartChanges
         DEF NodeStep
    <3>3. stage'[n] = stage[n] /\ serialized'[n] = serialized[n] /\ recorded'[n] = recorded[n]
      BY <2>2, <3>2 DEF Changes, TypeInv, TypeOK
    <3>4. QED BY <1>2, <3>1, <3>3 DEF ToldOf, VerdictOf
  <2>3. QED BY <2>1, <2>2
<1>4. CASE Tick
  <2>1. UNCHANGED <<stage, serialized, recorded>>
    BY <1>4, TickMoves DEF TypeInv
  <2>2. block > Last => block' = block /\ chain'.claim = chain.claim /\ chain'.votes = chain.votes
    BY <1>4, TickMoves, NumberTypes, LastType DEF TypeInv
  <2>3. chain.votes # 0 => chain'.votes # 0
    BY <1>4, TickMoves, NumberTypes DEF TypeInv
  <2>4. QED BY <1>2, <2>1, <2>2, <2>3 DEF ToldOf, VerdictOf
<1>5. ASSUME NEW i \in Observers, CatchUp(i) PROVE ToldOf(n)'
  <2>1. UNCHANGED <<block, chain, stage, serialized, recorded>>
    BY <1>5 DEF CatchUp
  <2>2. QED BY <1>2, <2>1 DEF ToldOf, VerdictOf
<1>6. CASE UNCHANGED vars
  BY <1>2, <1>6 DEF vars, memory, external, ToldOf, VerdictOf
<1>7. QED BY <1>3, <1>4, <1>5, <1>6 DEF Next

\* What a node writes down as the observers' word is their word for good,
\* whichever hosts answer, and whatever restarts come between.
THEOREM VerdictsAreTrue == Spec => []RecordedVerdict
<1>1. ToldInv => RecordedVerdict
  BY DEF ToldInv
<1>2. QED
  BY <1>1, TypeInit, TypeStep, ChainInit, ChainStep, ToldInit, ToldStep, PTL DEF Spec

-----------------------------------------------------------------------------
(* In time *)

\* Blocks before the present one during which some node was offline, and the
\* block by which a check is due after so many.
Before == outages - Cardinality(offline)
CheckBy(o) == ClaimBy + kTransactionCheckingSignalRepeatTime
                + o * kTransactionCheckingSignalSmallRepeatTime
Undecided == {n \in Nodes : stage[n] \notin Decided}

\* While a node is undecided, its claim comes into the chain in time: at each
\* block an unsent claim was tried, and only an outage keeps it back.
ClaimInv ==
    /\ offline = {} \/ \E n \in Nodes : offline = {n}
    /\ Cardinality(offline) <= outages
    /\ chain.claim = 0 /\ Undecided # {} => block <= ClaimBy + Before
    /\ \A n \in Nodes :
          /\ serialized[n] = "voted" => block <= ClaimBy
          /\ claims[n].response \in {"ClaimInPool", "ClaimInBlock"}
                => "claim" \in pool \/ chain.claim # 0
          /\ claims[n].response = "NoInfo" /\ ~due[n] => n \in offline \/ chain.claim # 0
    /\ "claim" \in pool => \/ chain.claim # 0 \/ block > Last
                           \/ \E n \in Nodes : stage[n] \in {"observing", "restarted"}

\* While there is, or may be, a claim, and no votes are there or on their way,
\* who committed checks the payment in time.
ChecksInTime ==
    block <= Last /\ chain.votes = 0 =>
        \A n \in Nodes : stage[n] = "committed" =>
            /\ checked[n] /\ recorded[n] = "NoInfo"
            /\ "votes" \notin pool /\ (chain.claim # 0 \/ Undecided # {})
                  => block <= CheckBy(Before) /\ block + checkIn[n] <= CheckBy(outages)

PublishInv ==
    /\ ChecksInTime
    /\ "votes" \in pool => block < Last \/ chain.votes # 0
    /\ PublishedInTime

-----------------------------------------------------------------------------
(* Deadlines *)

LEMMA Products ==
    ASSUME NEW o \in Nat, NEW p \in Nat, NEW s \in Nat \ {0}
    PROVE  /\ o * s \in Nat /\ o <= o * s
           /\ (o + 1) * s = o * s + s
           /\ o <= p => o * s <= p * s
<1>1. /\ o * s \in Nat /\ o <= o * s /\ (o + 1) * s = o * s + s
  OBVIOUS
<1>2. ASSUME o <= p PROVE o * s <= p * s
  <2>1. p - o \in Nat /\ p = o + (p - o)
    BY <1>2
  <2>2. \A d \in Nat : d * s \in Nat /\ (o + d) * s = o * s + d * s
    OBVIOUS
  <2>3. (p - o) * s \in Nat /\ p * s = o * s + (p - o) * s
    BY <2>1, <2>2
  <2>4. QED BY <1>1, <2>3
<1>3. QED BY <1>1, <1>2

LEMMA CheckByTypes ==
    ASSUME NEW o \in Nat
    PROVE  /\ CheckBy(o) \in Nat
           /\ CheckBy(o + 1) = CheckBy(o) + kTransactionCheckingSignalSmallRepeatTime
           /\ ClaimBy + o + kTransactionCheckingSignalRepeatTime <= CheckBy(o)
           /\ \A p \in Nat : o <= p => CheckBy(o) <= CheckBy(p)
           /\ o <= MaxOutages => CheckBy(o) < Last
<1> DEFINE s == kTransactionCheckingSignalSmallRepeatTime
<1>1. /\ s \in Nat \ {0} /\ kTransactionCheckingSignalRepeatTime \in Nat /\ ClaimBy \in Nat
      /\ MaxOutages \in Nat /\ CheckBy(MaxOutages) < Last /\ Last \in Nat
  BY ObservingAssumption DEF CheckBy, Last
<1> HIDE DEF s
<1>2. \A p \in Nat : CheckBy(p) = ClaimBy + kTransactionCheckingSignalRepeatTime + p * s
  BY DEF CheckBy, s
<1>3. o * s \in Nat /\ o <= o * s /\ (o + 1) * s = o * s + s
  BY <1>1, Products
<1>4. ASSUME NEW p \in Nat, o <= p PROVE CheckBy(o) <= CheckBy(p)
  <2>1. o * s <= p * s /\ p * s \in Nat
    BY <1>1, <1>4, Products
  <2>2. QED BY <1>1, <1>2, <1>3, <2>1
<1>5. CheckBy(o) \in Nat /\ CheckBy(o + 1) = CheckBy(o) + s
  BY <1>1, <1>2, <1>3
<1>6. ClaimBy + o + kTransactionCheckingSignalRepeatTime <= CheckBy(o)
  BY <1>1, <1>2, <1>3
<1>7. o <= MaxOutages => CheckBy(o) < Last
  <2>1. CheckBy(MaxOutages) \in Nat
    <3>1. MaxOutages * s \in Nat
      BY <1>1, Products
    <3>2. QED BY <1>1, <1>2, <3>1
  <2>2. QED BY <1>1, <1>4, <1>5, <2>1
<1>8. QED BY <1>4, <1>5, <1>6, <1>7 DEF s

\* How many nodes are offline is a number.
LEMMA BeforeTypes ==
    ASSUME TypeOK, ClaimInv
    PROVE  /\ Before \in Nat /\ Before <= outages /\ Before <= MaxOutages
           /\ outages \in Nat /\ outages <= MaxOutages
           /\ offline = {} => Before = outages
           /\ offline # {} => Before + 1 = outages
<1>1. Cardinality(offline) <= outages /\ (offline = {} \/ \E n \in Nodes : offline = {n})
  BY DEF ClaimInv
<1>2. IF offline = {} THEN Cardinality(offline) = 0 ELSE Cardinality(offline) = 1
  BY <1>1, FS_EmptySet, FS_Singleton
<1>3. MaxOutages \in Nat /\ outages \in Nat /\ outages <= MaxOutages
  BY ObservingAssumption, NumberTypes
<1>4. QED BY <1>1, <1>2, <1>3 DEF Before

\* While a node is undecided, the last block has not come, or the claim is there.
LEMMA ClaimIsEarly ==
    ASSUME TypeOK, ClaimInv, chain.claim = 0, Undecided # {}
    PROVE  /\ block + kTransactionCheckingSignalRepeatTime <= CheckBy(Before)
           /\ block < Last
<1>1. block <= ClaimBy + Before
  BY DEF ClaimInv
<1>2. Before \in Nat /\ Before <= MaxOutages
  BY BeforeTypes
<1>3. /\ CheckBy(Before) \in Nat /\ CheckBy(Before) < Last
      /\ ClaimBy + Before + kTransactionCheckingSignalRepeatTime <= CheckBy(Before)
  BY <1>2, CheckByTypes
<1>4. QED BY <1>1, <1>2, <1>3, NumberTypes, LastType, ObservingAssumption

-----------------------------------------------------------------------------
(* The claim comes in time *)

LEMMA ClaimInit == Init => ClaimInv
<1> SUFFICES ASSUME Init PROVE ClaimInv
  OBVIOUS
<1>1. /\ offline = {} /\ outages = 0 /\ block = 0 /\ chain.claim = 0 /\ pool = {}
      /\ \A n \in Nodes : claims[n] = NoClaim
  BY DEF Init
<1>2. Cardinality(offline) = 0
  BY <1>1, FS_EmptySet
<1>3. 0 <= ClaimBy + (0 - 0) /\ 0 <= ClaimBy
  BY ObservingAssumption
<1>4. QED BY <1>1, <1>2, <1>3 DEF ClaimInv, NoClaim, Before

\* Who waits for the observers goes on waiting until the claim is in its block,
\* or too late.
LEMMA WaitingStays ==
    ASSUME TypeInv, ChainInv, ToldInv, NEW n \in Nodes, NodeStep(n) \/ Restart(n),
           stage[n] \in {"observing", "restarted"}
    PROVE  stage'[n] \in {"observing", "restarted"} \/ chain.claim # 0 \/ block > Last
<1>1. StageOf(n)
  BY DEF TypeInv, StageInv
<1>2. TypeInv' /\ ToldInv' /\ UNCHANGED <<block, chain>>
  BY TypeNode, ToldStep, OnlyTicksMoveTheChain DEF Next
<1>3. CASE Restart(n)
  <2>1. stage'[n] = StageFromDisk(n)
    BY <1>3 DEF Restart, TypeInv, TypeOK
  <2>2. QED BY <1>1, <2>1 DEF StageOf, Fits, StageFromDisk
<1>4. CASE ClaimsAfterRestart(n) \/ sendClaimAgain(n)
  <2>1. CASE Expired(n)
    BY <2>1, ExpiredIsLate DEF TypeInv
  <2>2. CASE ~Expired(n)
    BY <1>4, <2>2, ClaimSent
  <2>3. QED BY <2>1, <2>2
<1>5. CASE performOneClaim(n)
  <2>1. stage'[n] \in {stage[n], "to reject", "to commit"}
    BY <1>5 DEF performOneClaim, Closes, Launches, TypeInv, TypeOK
  <2>2. stage'[n] = "to commit" => chain.votes # 0
    BY <1>2 DEF ToldInv
  <2>3. stage'[n] = "to reject" => chain.claim # 0
    BY <1>2 DEF ToldInv, RecordedVerdict, TypeInv, StageInv, StageOf, Fits
  <2>4. QED BY <2>1, <2>2, <2>3 DEF ChainInv
<1>6. QED
  BY <1>1, <1>3, <1>4, <1>5
     DEF NodeStep, runObservingStage, CommitsWithVotes, runObservingResultStage,
         runObservingRejectTransaction, runTransactionsChecking, StageOf, Fits

LEMMA UndecidedFewer ==
    ASSUME TypeInv, NEW n \in Nodes, NodeStep(n) \/ Restart(n)
    PROVE  Undecided' \subseteq Undecided
BY StageMoves DEF Undecided

\* A claim that reached no host was sent while its node was offline.
LEMMA UnsentIsOffline ==
    ASSUME Front \in Reliable, NEW n \in Nodes, Unsent(n)
    PROVE  n \in offline
BY ObservingAssumption DEF Unsent, NoneAnswers, PassedOver, Silent, ClaimResponses

\* The conjuncts of ClaimInv about one node
ClaimOf(n) ==
    /\ serialized[n] = "voted" => block <= ClaimBy
    /\ claims[n].response \in {"ClaimInPool", "ClaimInBlock"} => "claim" \in pool \/ chain.claim # 0
    /\ claims[n].response = "NoInfo" /\ ~due[n] => n \in offline \/ chain.claim # 0

LEMMA ClaimOfActor ==
    ASSUME Front \in Reliable, TypeInv, ClaimInv, NEW n \in Nodes, NodeStep(n) \/ Restart(n)
    PROVE  ClaimOf(n)'
<1> USE DEF TypeInv
<1>1. ClaimOf(n) /\ UNCHANGED <<block, chain, offline>> /\ pool \subseteq pool'
  BY OnlyTicksMoveTheChain, PoolMoves DEF ClaimInv, ClaimOf
<1>2. serialized'[n] = serialized[n] \/ serialized'[n] # "voted"
  BY DEF NodeStep, runObservingStage, ClaimsAfterRestart, sendClaimAgain, performOneClaim,
         CommitsWithVotes, runObservingResultStage, Commits, runObservingRejectTransaction,
         runTransactionsChecking, Restart, SavesStage, TypeOK
<1>3. CASE claims'[n] = claims[n] /\ due'[n] = due[n]
  BY <1>1, <1>2, <1>3 DEF ClaimOf
<1>4. CASE claims'[n] = NoClaim
  BY <1>1, <1>2, <1>4 DEF ClaimOf, NoClaim
<1>5. CASE runObservingStage(n) \/ ClaimsAfterRestart(n) \/ sendClaimAgain(n)
  <2> DEFINE Pool == "claim" \in pool' \/ chain.claim # 0
  <2>1. claims \in [Nodes -> Claims]
    BY DEF TypeOK, Claims
  <2>2. CASE Accepted(n)
    <3>1. PICK i \in Observers :
             claims' = [claims EXCEPT ![n] = [response |-> "ClaimInPool", observer |-> i]]
      BY <2>2 DEF Accepted, Answering
    <3>2. claims'[n].response = "ClaimInPool"
      BY <2>1, <3>1
    <3>3. Pool
      BY <2>2 DEF Accepted, Pooled
    <3>4. QED BY <1>1, <1>2, <3>2, <3>3 DEF ClaimOf
  <2>3. CASE Unsent(n)
    <3>1. claims' = [claims EXCEPT ![n] = [response |-> "NoInfo", observer |-> 0]]
      BY <2>3 DEF Unsent
    <3>2. claims'[n].response = "NoInfo"
      BY <2>1, <3>1
    <3>3. n \in offline
      BY <2>3, UnsentIsOffline
    <3>4. QED BY <1>1, <1>2, <3>2, <3>3 DEF ClaimOf
  <2>4. CASE Expired(n)
    BY <1>4, <2>1, <2>4, ClaimDropped
  <2>5. Accepted(n) \/ Unsent(n) \/ Expired(n)
    BY <1>5 DEF runObservingStage, ClaimsAfterRestart, sendClaimAgain
  <2>6. QED BY <2>2, <2>3, <2>4, <2>5
<1>6. CASE performOneClaim(n)
  <2>1. claims[n].response \in {"ClaimInPool", "ClaimInBlock"}
    BY <1>6 DEF performOneClaim
  <2>2. CASE claims' = claims
    BY <1>1, <1>2, <2>1, <2>2 DEF ClaimOf
  <2>3. ASSUME NEW i \in Observers, NEW a \in {"ClaimInPool", "ClaimInBlock"},
               a \in TransactionStates[i], claims' = [claims EXCEPT ![n].response = a]
        PROVE  ClaimOf(n)'
    <3>1. "claim" \in pool \/ chain.claim # 0
      BY <2>3, WhatHostsSay
    <3>2. claims[n] \in [response : Responses, observer : 0..NumberOfObservers]
      <4>1. claims[n] \in [response : Responses, observer : 0..NumberOfObservers] \cup {NoClaim}
        BY DEF TypeOK
      <4>2. claims[n] # NoClaim
        BY <2>1 DEF NoClaim
      <4>3. QED BY <4>1, <4>2
    <3>3. claims'[n].response = a
      BY <2>3, <3>2 DEF TypeOK
    <3>4. QED BY <1>1, <1>2, <3>1, <3>3 DEF ClaimOf
  <2>4. \A s, r : Closes(n, s, r) => claims'[n] = NoClaim
    BY DEF Closes, TypeOK
  <2>5. \A a : \A i \in Answering(n, Asked(n), TransactionStates, a) :
           i \in Observers /\ a \in TransactionStates[i]
    BY DEF Answering, Asked
  <2>6. \/ claims' = claims
        \/ \E s, r : Closes(n, s, r)
        \/ \E a \in {"ClaimInPool", "ClaimInBlock"} :
           \E i \in Answering(n, Asked(n), TransactionStates, a) :
              claims' = [claims EXCEPT ![n].response = a]
    BY <1>6 DEF performOneClaim
  <2>7. QED BY <1>4, <2>2, <2>3, <2>4, <2>5, <2>6
<1>7. CASE \/ CommitsWithVotes(n) \/ runObservingResultStage(n)
           \/ runObservingRejectTransaction(n) \/ runTransactionsChecking(n)
  BY <1>3, <1>7 DEF CommitsWithVotes, runObservingResultStage, Commits, runObservingRejectTransaction,
                    memory, runTransactionsChecking
<1>8. CASE Restart(n)
  BY <1>4, <1>8 DEF Restart, TypeOK
<1>9. QED BY <1>5, <1>6, <1>7, <1>8 DEF NodeStep

\* Who does not act keeps what is said of its claim.
LEMMA OthersKeep ==
    ASSUME TypeInv, NEW n \in Nodes, NodeStep(n) \/ Restart(n), NEW m \in Nodes, m # n
    PROVE  /\ stage'[m] = stage[m] /\ serialized'[m] = serialized[m] /\ recorded'[m] = recorded[m]
           /\ claims'[m] = claims[m] /\ due'[m] = due[m] /\ checked'[m] = checked[m]
           /\ checkIn'[m] = checkIn[m]
<1>1. \E s, d, r, c, u, k : Changes(n, s, d, r, c, u, k)
  BY ClaimsChange, performOneClaimChanges, DecisionChanges, CheckingChanges, RestartChanges
     DEF NodeStep
<1>2. checkIn' = checkIn \/ \E b : checkIn' = [checkIn EXCEPT ![n] = b]
  <2>1. CASE NodeStep(n)
    BY <2>1 DEF NodeStep, runObservingStage, ClaimsAfterRestart, sendClaimAgain, performOneClaim,
       CommitsWithVotes, runObservingResultStage, Commits, runObservingRejectTransaction, memory,
       runTransactionsChecking, sendParticipantsVoteMessageToObservers, Keeps, Forgets
  <2>2. CASE Restart(n)
    BY <2>2 DEF Restart
  <2>3. QED BY <2>1, <2>2
<1>3. QED BY <1>1, <1>2 DEF Changes, TypeInv, TypeOK

LEMMA ClaimNode ==
    ASSUME Front \in Reliable, TypeInv, ChainInv, ToldInv, ClaimInv,
           NEW n \in Nodes, NodeStep(n) \/ Restart(n)
    PROVE  ClaimInv'
<1>1. UNCHANGED <<block, chain, offline, outages>> /\ pool \subseteq pool'
  BY OnlyTicksMoveTheChain, PoolMoves
<1>2. ASSUME NEW m \in Nodes PROVE ClaimOf(m)'
  <2>1. CASE m = n
    BY <2>1, ClaimOfActor
  <2>2. CASE m # n
    <3>1. serialized'[m] = serialized[m] /\ claims'[m] = claims[m] /\ due'[m] = due[m]
      BY <2>2, OthersKeep
    <3>2. ClaimOf(m)
      BY DEF ClaimInv, ClaimOf
    <3>3. QED BY <1>1, <3>1, <3>2 DEF ClaimOf
  <2>3. QED BY <2>1, <2>2
<1>3. ASSUME "claim" \in pool'
      PROVE  \/ chain.claim # 0 \/ block > Last
             \/ \E m \in Nodes : stage'[m] \in {"observing", "restarted"}
  <2>1. CASE stage'[n] = "observing"
    BY <2>1
  <2>2. CASE stage'[n] # "observing"
    <3>1. "claim" \in pool
      BY <1>3, <2>2, PoolMoves
    <3>2. CASE \E m \in Nodes : stage[m] \in {"observing", "restarted"}
      <4>1. PICK m \in Nodes : stage[m] \in {"observing", "restarted"}
        BY <3>2
      <4>2. CASE m = n
        BY <4>1, <4>2, WaitingStays
      <4>3. CASE m # n
        BY <4>1, <4>3, OthersKeep
      <4>4. QED BY <4>2, <4>3
    <3>3. QED BY <3>1, <3>2 DEF ClaimInv
  <2>3. QED BY <2>1, <2>2
<1>4. Before' = Before /\ Undecided' \subseteq Undecided
  BY <1>1, UndecidedFewer DEF Before
<1>5. chain'.claim = 0 /\ Undecided' # {} => block' <= ClaimBy + Before'
  BY <1>1, <1>4 DEF ClaimInv
<1>6. /\ offline' = {} \/ \E m \in Nodes : offline' = {m}
      /\ Cardinality(offline') <= outages'
  BY <1>1 DEF ClaimInv
<1>7. QED BY <1>1, <1>2, <1>3, <1>5, <1>6 DEF ClaimInv, ClaimOf

\* At each block everybody undecided has its claim taken, but for who is offline.
LEMMA ClaimTick == ASSUME TypeInv, ChainInv, ToldInv, ClaimInv, Tick PROVE ClaimInv'
<1>1. /\ block' = IF block <= Last THEN block + 1 ELSE block
      /\ chain'.claim = IF "claim" \in pool /\ block < Last THEN block + 1 ELSE chain.claim
      /\ pool' = {} /\ UNCHANGED <<stage, serialized, claims>>
  BY TickMoves DEF TypeInv
<1>2. /\ \A n \in Nodes : NothingDue(n)
      /\ due' = [n \in Nodes |-> claims[n] # NoClaim]
      /\ offline' \in {{}} \cup {{n} : n \in Nodes}
      /\ outages' = outages + Cardinality(offline')
  BY DEF Tick
<1>3. offline' = {} \/ \E n \in Nodes : offline' = {n}
  BY <1>2
<1>4. Cardinality(offline') \in Nat
  BY SMTT(60), <1>3, FS_EmptySet, FS_Singleton
<1>5. Cardinality(offline') <= outages' /\ Before' = outages
  <2>1. outages \in Nat
    BY NumberTypes DEF TypeInv
  <2>2. QED BY <1>2, <1>4, <2>1 DEF Before
<1>6. TypeOK /\ Undecided' = Undecided /\ block \in Nat /\ ClaimBy \in Nat /\ Last \in Nat
  BY <1>1, NumberTypes, LastType, ObservingAssumption DEF TypeInv, Undecided
<1>7. ASSUME chain'.claim = 0, Undecided # {} PROVE block' <= ClaimBy + Before'
  <2>1. chain.claim = 0 /\ block < Last /\ "claim" \notin pool
    BY <1>1, <1>6, <1>7, ClaimIsEarly
  <2>2. block' = block + 1
    BY <1>1, <1>6, <2>1
  <2>3. PICK m \in Nodes : stage[m] \notin Decided
    BY <1>7 DEF Undecided
  <2>4. outages \in Nat /\ Before <= outages /\ (offline # {} => Before + 1 = outages) /\ Before \in Nat
    BY <1>6, BeforeTypes
  <2>5. CASE stage[m] = "voted"
    <3>1. block < ClaimBy
      BY <1>2, <2>5 DEF NothingDue
    <3>2. QED BY <1>5, <1>6, <2>2, <2>4, <3>1
  <2>6. CASE stage[m] = "observing"
    <3>1. claims[m] # NoClaim /\ ~due[m]
      BY <1>2, <2>6 DEF NothingDue, TypeInv, StageInv, StageOf, Fits
    <3>2. claims[m].response \in Responses
      BY <1>6, <3>1 DEF TypeOK
    <3>3. m \in offline
      BY <2>1, <3>1, <3>2 DEF ClaimInv, Responses
    <3>4. Before + 1 = outages /\ block <= ClaimBy + Before
      BY <1>7, <2>1, <2>4, <3>3 DEF ClaimInv
    <3>5. QED BY <1>5, <1>6, <2>2, <2>4, <3>4
  <2>7. stage[m] # "uncertain"
    <3>1. ~(block > Last)
      BY <1>6, <2>1
    <3>2. QED BY <3>1 DEF ToldInv
  <2>8. stage[m] \notin {"restarted", "to commit", "to reject"}
    BY <1>2 DEF NothingDue
  <2>9. stage[m] \in {"voted", "observing", "restarted", "uncertain", "to commit", "to reject",
                       "committed", "rejected"}
    BY <1>6 DEF TypeOK
  <2>10. QED BY <2>3, <2>5, <2>6, <2>7, <2>8, <2>9 DEF Decided
<1>8. ASSUME NEW n \in Nodes PROVE ClaimOf(n)'
  <2>1. serialized[n] = "voted" => block' <= ClaimBy
    <3>1. ASSUME serialized[n] = "voted" PROVE block < ClaimBy
      <4>1. stage[n] = "voted"
        BY <3>1 DEF TypeInv, StageInv, StageOf, Fits
      <4>2. QED BY <1>2, <4>1 DEF NothingDue
    <3>2. QED BY <1>1, <1>6, <3>1
  <2>2. ASSUME claims[n].response \in {"ClaimInPool", "ClaimInBlock"} PROVE chain'.claim # 0
    <3>1. CASE chain.claim # 0
      BY <1>1, <1>6, <3>1
    <3>2. CASE chain.claim = 0
      <4>1. "claim" \in pool
        BY <2>2, <3>2 DEF ClaimInv
      <4>2. claims[n] # NoClaim
        BY <2>2 DEF NoClaim
      <4>3. n \in Undecided
        BY <4>2 DEF TypeInv, StageInv, StageOf, Fits, Undecided, Decided
      <4>4. QED BY <1>1, <1>6, <3>2, <4>1, <4>3, ClaimIsEarly
    <3>3. QED BY <3>1, <3>2
  <2>3. ASSUME claims[n].response = "NoInfo" PROVE due'[n]
    <3>1. claims[n] # NoClaim
      BY <2>3 DEF NoClaim
    <3>2. QED BY <1>2, <3>1
  <2>4. QED BY <1>1, <2>1, <2>2, <2>3 DEF ClaimOf
<1>9. QED BY <1>1, <1>3, <1>5, <1>6, <1>7, <1>8 DEF ClaimInv, ClaimOf

LEMMA ClaimStep ==
    ASSUME Front \in Reliable
    PROVE  TypeInv /\ ChainInv /\ ToldInv /\ ClaimInv /\ [Next]_vars => ClaimInv'
<1> SUFFICES ASSUME TypeInv, ChainInv, ToldInv, ClaimInv, [Next]_vars PROVE ClaimInv'
  OBVIOUS
<1>1. CASE UNCHANGED <<stage, serialized, claims, due, block, chain, pool, offline, outages>>
  BY <1>1 DEF ClaimInv, Undecided, Before
<1>2. ASSUME NEW i \in Observers, CatchUp(i) PROVE ClaimInv'
  BY <1>1, <1>2 DEF CatchUp, memory
<1>3. CASE UNCHANGED vars
  BY <1>1, <1>3 DEF vars, memory, external
<1>4. QED BY <1>2, <1>3, ClaimNode, ClaimTick DEF Next

-----------------------------------------------------------------------------
(* The votes come in time *)

\* ChecksInTime, for one node
ChecksOf(n) ==
    /\ checked[n] /\ recorded[n] = "NoInfo"
    /\ "votes" \notin pool /\ (chain.claim # 0 \/ Undecided # {})
          => block <= CheckBy(Before) /\ block + checkIn[n] <= CheckBy(outages)

LEMMA PublishInit == Init => PublishInv
<1> SUFFICES ASSUME Init PROVE PublishInv
  OBVIOUS
<1>1. /\ offline = {} /\ outages = 0 /\ block = 0 /\ chain.claim = 0 /\ pool = {}
      /\ \A n \in Nodes : checkIn[n] \in 0..kTransactionCheckingSignalRepeatTime
  BY DEF Init
<1>2. Before = 0 /\ outages = 0
  BY <1>1, FS_EmptySet DEF Before
<1>3. CheckBy(0) \in Nat /\ ClaimBy + 0 + kTransactionCheckingSignalRepeatTime <= CheckBy(0)
  BY CheckByTypes
<1>4. \A n \in Nodes : block <= CheckBy(Before) /\ block + checkIn[n] <= CheckBy(outages)
  BY <1>1, <1>2, <1>3, ConstantTypes, ObservingAssumption
<1>5. ASSUME NEW n \in Nodes, stage[n] = "committed" PROVE checked[n] /\ recorded[n] = "NoInfo"
  BY <1>5 DEF Init
<1>6. ~(block > Last)
  BY <1>1, LastType
<1>7. QED BY <1>1, <1>4, <1>5, <1>6 DEF PublishInv, ChecksInTime, PublishedInTime

\* Who knows of no claim at the first host has the time of one more period.
LEMMA NoClaimYet ==
    ASSUME TypeInv, ChainInv, ClaimInv, Front \in Reliable,
           "NoInfo" \in TransactionStates[Front], chain.claim # 0 \/ Undecided # {}
    PROVE  block + kTransactionCheckingSignalRepeatTime <= CheckBy(outages)
<1>1. chain.claim = 0
  <2>1. ~Knows(Front, "claim") /\ seen[Front] = block /\ chain.claim <= block
    BY WhatHostsSay, ConstantTypes DEF ChainInv, TypeInv
  <2>2. QED BY <2>1 DEF Knows
<1>2. block + kTransactionCheckingSignalRepeatTime <= CheckBy(Before)
  BY <1>1, ClaimIsEarly DEF TypeInv
<1>3. Before \in Nat /\ outages \in Nat /\ Before <= outages
  BY BeforeTypes DEF TypeInv
<1>4. CheckBy(Before) \in Nat /\ CheckBy(outages) \in Nat /\ CheckBy(Before) <= CheckBy(outages)
  BY <1>3, CheckByTypes
<1>5. QED BY <1>2, <1>4, NumberTypes, ConstantTypes DEF TypeInv

\* Who was kept from asking, as it was offline, asks again soon.
LEMMA OfflineAsksSoon ==
    ASSUME TypeInv, ClaimInv, NEW n \in offline, block <= CheckBy(Before)
    PROVE  block + kTransactionCheckingSignalSmallRepeatTime <= CheckBy(outages)
<1>1. Before \in Nat /\ Before + 1 = outages
  BY BeforeTypes DEF TypeInv
<1>2. CheckBy(outages) = CheckBy(Before) + kTransactionCheckingSignalSmallRepeatTime
  BY <1>1, CheckByTypes
<1>3. CheckBy(Before) \in Nat
  BY <1>1, CheckByTypes
<1>4. QED BY <1>2, <1>3, NumberTypes, ConstantTypes DEF TypeInv

LEMMA CheckStep ==
    ASSUME TypeInv, ChainInv, ClaimInv, PublishInv, Front \in Reliable,
           NEW n \in Nodes, runTransactionsChecking(n), block <= Last, chain.votes = 0
    PROVE  ChecksOf(n)'
<1> USE DEF TypeInv
<1>1. /\ UNCHANGED <<stage, block, chain, offline, outages>> /\ pool \subseteq pool'
      /\ checked[n]
  <2>1. pool \subseteq pool'
    BY PoolMoves DEF NodeStep
  <2>2. QED BY <2>1 DEF runTransactionsChecking
<1>2. stage[n] = "committed" /\ recorded[n] = "NoInfo"
  BY <1>1 DEF PublishInv, ChecksInTime, TypeOK
<1>3. Before' = Before /\ Undecided' = Undecided
  BY <1>1 DEF Before, Undecided
<1> DEFINE Claimed == chain.claim # 0 \/ Undecided # {}
<1>4. "votes" \notin pool /\ Claimed => block <= CheckBy(Before)
  BY <1>2 DEF PublishInv, ChecksInTime
<1>5. ~ClaimTimeIsOver(Front) /\ \A i \in Observers : ~(seen[i] > Last)
  BY NumberTypes, LastType, ConstantTypes DEF ClaimTimeIsOver
<1>6. ASSUME NEW b \in Nat, Keeps(n, b), "votes" \notin pool' /\ Claimed => block + b <= CheckBy(outages)
      PROVE  ChecksOf(n)'
  <2>1. checked'[n] /\ recorded'[n] = "NoInfo" /\ checkIn'[n] = b
    BY <1>1, <1>2, <1>6 DEF Keeps, TypeOK
  <2>2. QED BY <1>1, <1>3, <1>4, <1>6, <2>1 DEF ChecksOf
<1>7. /\ kTransactionCheckingSignalRepeatTime \in Nat
      /\ kTransactionCheckingSignalSmallRepeatTime \in Nat
      /\ kTransactionCheckingSignalSmallRepeatTime <= kTransactionCheckingSignalRepeatTime
  BY ConstantTypes
<1>8. CASE Silent(n, Front) /\ Keeps(n, kTransactionCheckingSignalSmallRepeatTime)
  <2>1. n \in offline
    BY <1>8 DEF Silent
  <2>2. QED BY <1>1, <1>4, <1>6, <1>7, <1>8, <2>1, OfflineAsksSoon
<1>9. CASE /\ "NoInfo" \in TransactionStates[Front]
           /\ \/ Keeps(n, kTransactionCheckingSignalRepeatTime)
              \/ Keeps(n, kTransactionCheckingSignalSmallRepeatTime)
  <2>1. Claimed => block + kTransactionCheckingSignalRepeatTime <= CheckBy(outages)
    BY <1>9, NoClaimYet
  <2>2. outages \in Nat /\ CheckBy(outages) \in Nat /\ block \in Nat
    BY NumberTypes, CheckByTypes
  <2>3. Claimed => block + kTransactionCheckingSignalSmallRepeatTime <= CheckBy(outages)
    BY <1>7, <2>1, <2>2
  <2>4. QED BY <1>6, <1>7, <1>9, <2>1, <2>3
<1>10. CASE sendParticipantsVoteMessageToObservers(n)
  <2>1. CASE pool' = Pooled("votes") /\ Keeps(n, kTransactionCheckingSignalRepeatTime)
    <3>1. "votes" \in pool'
      BY <2>1 DEF Pooled
    <3>2. QED BY <1>6, <1>7, <2>1, <3>1
  <2>2. Answering(n, Observers, VotesResponses, "RejectedByObserving") = {}
    <3>1. ASSUME NEW i \in Observers, "RejectedByObserving" \in VotesResponses[i] PROVE FALSE
      <4>1. ~(seen[i] > Last)
        BY <1>5
      <4>2. QED BY <3>1, <4>1 DEF VotesResponses
    <3>2. QED BY <3>1 DEF Answering
  <2>3. CASE /\ NoneAnswers(n, Observers, VotesResponses)
             /\ Keeps(n, kTransactionCheckingSignalSmallRepeatTime)
    <3>1. Silent(n, Front) \/ "NoInfo" \in VotesResponses[Front]
      BY <2>3, ConstantTypes DEF NoneAnswers, PassedOver
    <3>2. "NoInfo" \in VotesResponses[Front] => "NoInfo" \in TransactionStates[Front]
      BY ConstantTypes DEF VotesResponses
    <3>3. QED BY <1>8, <1>9, <2>3, <3>1, <3>2
  <2>4. QED BY <1>10, <2>1, <2>2, <2>3 DEF sendParticipantsVoteMessageToObservers
<1>11. "ParticipantsVotesPresent" \notin TransactionStates[Front]
  BY WhatHostsSay, ConstantTypes
<1>12. QED
  BY <1>5, <1>8, <1>9, <1>10, <1>11 DEF runTransactionsChecking

\* Who commits in time did not claim late.
LEMMA CommitStep ==
    ASSUME TypeInv, ToldInv, ClaimInv, NEW n \in Nodes,
           CommitsWithVotes(n) \/ runObservingResultStage(n), block <= Last, chain.votes = 0
    PROVE  ChecksOf(n)'
<1> USE DEF TypeInv
<1>1. block \in Nat /\ ~(block > Last)
  BY NumberTypes, LastType
<1>2. stage[n] = "voted" /\ Commits(n)
  BY DEF CommitsWithVotes, runObservingResultStage, ToldInv
<1>3. serialized[n] = "voted" /\ recorded[n] = "NoInfo"
  BY <1>1, <1>2 DEF ToldInv, StageInv, StageOf, Fits
<1>4. block <= ClaimBy
  BY <1>3 DEF ClaimInv
<1>5. PICK b \in 0..kTransactionCheckingSignalRepeatTime : checkIn' = [checkIn EXCEPT ![n] = b]
  BY <1>2 DEF Commits
<1>6. /\ checkIn'[n] = b /\ checked'[n] /\ recorded'[n] = "NoInfo"
      /\ UNCHANGED <<block, outages, offline>>
  BY <1>2, <1>3, <1>5 DEF Commits, external, TypeOK
<1>7. /\ Before \in Nat /\ outages \in Nat
      /\ CheckBy(Before) \in Nat /\ CheckBy(outages) \in Nat
      /\ ClaimBy + Before + kTransactionCheckingSignalRepeatTime <= CheckBy(Before)
      /\ ClaimBy + outages + kTransactionCheckingSignalRepeatTime <= CheckBy(outages)
  BY BeforeTypes, CheckByTypes
<1>8. block <= CheckBy(Before) /\ block + b <= CheckBy(outages)
  BY <1>1, <1>4, <1>7, ObservingAssumption
<1>9. QED BY <1>6, <1>8 DEF ChecksOf, Before

LEMMA RestartStep ==
    ASSUME TypeInv, ClaimInv, PublishInv, NEW n \in Nodes, Restart(n), stage'[n] = "committed",
           block <= Last, chain.votes = 0
    PROVE  ChecksOf(n)'
<1> USE DEF TypeInv
<1>1. serialized[n] = "none" /\ stage[n] = "committed"
  BY DEF Restart, StageFromDisk, TypeOK
<1>2. recorded[n] = "NoInfo" /\ ChecksOf(n)
  BY <1>1 DEF PublishInv, ChecksInTime, ChecksOf
<1>3. /\ checkIn'[n] = 0 /\ checked'[n] /\ recorded'[n] = "NoInfo"
      /\ UNCHANGED <<block, chain, pool, outages, offline>>
  BY <1>1, <1>2 DEF Restart, external, TypeOK
<1>4. Undecided' \subseteq Undecided
  BY UndecidedFewer
<1>5. Before \in Nat /\ outages \in Nat /\ Before <= outages
  BY BeforeTypes
<1>6. CheckBy(Before) \in Nat /\ CheckBy(outages) \in Nat /\ CheckBy(Before) <= CheckBy(outages)
  BY <1>5, CheckByTypes
<1>7. block <= CheckBy(Before) => block + 0 <= CheckBy(outages)
  BY <1>6, NumberTypes
<1>8. Before' = Before
  BY <1>3 DEF Before
<1>9. QED BY <1>2, <1>3, <1>4, <1>7, <1>8 DEF ChecksOf

\* A node comes to be committed by one of these steps.
LEMMA WhoCommits ==
    ASSUME TypeInv, NEW n \in Nodes, NodeStep(n) \/ Restart(n), stage'[n] = "committed"
    PROVE  \/ CommitsWithVotes(n) \/ runObservingResultStage(n)
           \/ runTransactionsChecking(n) /\ stage[n] = "committed"
           \/ Restart(n) /\ stage[n] = "committed"
<1> USE DEF TypeInv
<1>1. CASE runObservingStage(n) \/ ClaimsAfterRestart(n) \/ sendClaimAgain(n)
  BY <1>1, ClaimSent, ClaimDropped DEF TypeOK
<1>2. CASE performOneClaim(n)
  <2>1. stage[n] = "observing"
    BY <1>2 DEF performOneClaim, StageInv, StageOf, Fits
  <2>2. stage'[n] \in {stage[n], "to reject", "to commit"}
    BY <1>2 DEF performOneClaim, Closes, Launches, TypeOK
  <2>3. QED BY <2>1, <2>2
<1>3. CASE runObservingRejectTransaction(n)
  BY <1>3 DEF runObservingRejectTransaction, Launches, TypeOK
<1>4. CASE runTransactionsChecking(n)
  BY <1>4 DEF runTransactionsChecking
<1>5. CASE Restart(n)
  BY <1>5 DEF Restart, StageFromDisk, TypeOK
<1>6. QED BY <1>1, <1>2, <1>3, <1>4, <1>5 DEF NodeStep

\* Votes are sent before the last block.
LEMMA SentInTime ==
    ASSUME TypeInv, ChainInv, ClaimInv, PublishInv, Front \in Reliable,
           NEW n \in Nodes, runTransactionsChecking(n), sendParticipantsVoteMessageToObservers(n),
           "votes" \notin pool, "votes" \in pool'
    PROVE  block < Last \/ chain.votes # 0
<1> USE DEF TypeInv
<1>1. SUFFICES ASSUME chain.votes = 0 PROVE block < Last
  OBVIOUS
<1>2. block <= Last
  <2>1. \/ "ClaimInPool" \in TransactionStates[Front]
        \/ "ClaimInBlock" \in TransactionStates[Front] /\ ~ClaimTimeIsOver(Front)
    <3>1. pool' # pool
      OBVIOUS
    <3>2. QED BY <3>1 DEF runTransactionsChecking, Forgets
  <2>2. seen[Front] = block
    BY DEF ChainInv
  <2>3. "ClaimInPool" \in TransactionStates[Front] => seen[Front] <= Last
    BY WhatHostsSay, ConstantTypes
  <2>4. QED BY <2>1, <2>2, <2>3, NumberTypes, LastType DEF ClaimTimeIsOver
<1>3. stage[n] = "committed"
  BY DEF runTransactionsChecking, TypeOK
<1>4. chain.claim # 0 \/ Undecided # {}
  <2>1. ChainInv' /\ UNCHANGED chain /\ pool' = pool \cup {"votes"}
    BY ChainNode, PoolMoves DEF NodeStep, runTransactionsChecking
  <2>2. chain.claim # 0 \/ "claim" \in pool
    BY <2>1 DEF ChainInv
  <2>3. ~(block > Last)
    BY <1>2, NumberTypes, LastType
  <2>4. QED BY <2>2, <2>3 DEF ClaimInv, Undecided, Decided
<1>5. block <= CheckBy(Before)
  BY <1>1, <1>2, <1>3, <1>4 DEF PublishInv, ChecksInTime
<1>6. Before \in Nat /\ Before <= MaxOutages
  BY BeforeTypes
<1>7. CheckBy(Before) \in Nat /\ CheckBy(Before) < Last
  BY <1>6, CheckByTypes
<1>8. QED BY <1>5, <1>7, NumberTypes, LastType

LEMMA PublishNode ==
    ASSUME Front \in Reliable, TypeInv, ChainInv, ToldInv, ClaimInv, PublishInv,
           NEW n \in Nodes, NodeStep(n) \/ Restart(n)
    PROVE  PublishInv'
<1>1. UNCHANGED <<block, chain, outages, offline>> /\ pool \subseteq pool'
  BY OnlyTicksMoveTheChain, PoolMoves
<1>2. Before' = Before /\ Undecided' \subseteq Undecided
  BY <1>1, UndecidedFewer DEF Before
<1>3. ChecksInTime'
  <2>1. SUFFICES ASSUME block <= Last, chain.votes = 0, NEW m \in Nodes, stage'[m] = "committed"
                 PROVE  ChecksOf(m)'
    BY <1>1 DEF ChecksInTime, ChecksOf
  <2>2. CASE m = n
    BY <2>1, <2>2, WhoCommits, CheckStep, CommitStep, RestartStep
  <2>3. CASE m # n
    <3>1. /\ stage[m] = "committed" /\ recorded'[m] = recorded[m] /\ checked'[m] = checked[m]
          /\ checkIn'[m] = checkIn[m]
      BY <2>1, <2>3, OthersKeep
    <3>2. ChecksOf(m)
      BY <2>1, <3>1 DEF PublishInv, ChecksInTime, ChecksOf
    <3>3. QED BY <1>1, <1>2, <3>1, <3>2 DEF ChecksOf
  <2>4. QED BY <2>2, <2>3
<1>4. ASSUME "votes" \in pool' PROVE block < Last \/ chain.votes # 0
  <2>1. CASE "votes" \in pool
    BY <2>1 DEF PublishInv
  <2>2. CASE "votes" \notin pool
    BY <1>4, <2>2, PoolMoves, SentInTime
  <2>3. QED BY <2>1, <2>2
<1>5. ASSUME block > Last, chain.claim # 0, NEW m \in Nodes, stage'[m] = "committed"
      PROVE  chain.votes # 0
  <2>1. CASE \E k \in Nodes : stage[k] = "committed"
    BY <1>5, <2>1 DEF PublishInv, PublishedInTime
  <2>2. CASE \A k \in Nodes : stage[k] # "committed"
    <3>1. m = n
      BY <1>5, <2>2, OthersKeep
    <3>2. runObservingResultStage(n)
      BY <1>5, <2>2, <3>1, WhoCommits DEF CommitsWithVotes
    <3>3. QED BY <3>2 DEF runObservingResultStage, ToldInv
  <2>3. QED BY <2>1, <2>2
<1>6. PublishedInTime'
  BY <1>1, <1>5 DEF PublishedInTime
<1>7. QED BY <1>1, <1>3, <1>4, <1>6 DEF PublishInv

\* The claim was on its way to the chain, or a node is still to be decided.
LEMMA ClaimedBefore ==
    ASSUME TypeInv, ClaimInv, Tick, chain'.claim # 0 \/ Undecided # {}
    PROVE  chain.claim # 0 \/ Undecided # {}
<1>1. chain'.claim = IF "claim" \in pool /\ block < Last THEN block + 1 ELSE chain.claim
  BY TickMoves DEF TypeInv
<1>2. block < Last => ~(block > Last)
  BY NumberTypes, LastType DEF TypeInv
<1>3. QED BY <1>1, <1>2 DEF ClaimInv, Undecided, Decided

LEMMA PublishTick ==
    ASSUME TypeInv, ChainInv, ToldInv, ClaimInv, PublishInv, Tick
    PROVE  PublishInv'
<1> USE DEF TypeInv
<1>1. /\ block' = IF block <= Last THEN block + 1 ELSE block
      /\ \A what \in {"claim", "votes"} :
            chain'[what] = IF what \in pool /\ block < Last THEN block + 1 ELSE chain[what]
      /\ pool' = {} /\ UNCHANGED <<stage, recorded, checked>>
  BY TickMoves
<1>2. /\ \A n \in Nodes : NothingDue(n)
      /\ checkIn' = [n \in Nodes |-> IF checked[n] THEN checkIn[n] - 1 ELSE 0]
      /\ outages' = outages + Cardinality(offline')
      /\ offline' \in {{}} \cup {{n} : n \in Nodes}
  BY DEF Tick
<1>3. Cardinality(offline') \in Nat
  <2>1. CASE offline' = {}
    BY <2>1, FS_EmptySet
  <2>2. ASSUME NEW n \in Nodes, offline' = {n} PROVE Cardinality(offline') = 1
    BY <2>2, FS_Singleton
  <2>3. QED BY <1>2, <2>1, <2>2
<1>4. /\ block \in Nat /\ Last \in Nat /\ outages \in Nat /\ outages' \in Nat /\ outages <= outages'
      /\ Before' = outages /\ Undecided' = Undecided /\ chain.votes \in Nat /\ chain.claim \in Nat
  BY <1>1, <1>2, <1>3, NumberTypes, LastType DEF Before, Undecided
<1>5. /\ CheckBy(outages) \in Nat /\ CheckBy(outages') \in Nat
      /\ CheckBy(outages) <= CheckBy(outages')
  BY <1>4, CheckByTypes
<1>6. ASSUME block' <= Last, chain'.votes = 0, NEW n \in Nodes, stage[n] = "committed"
      PROVE  /\ checked[n] /\ recorded[n] = "NoInfo"
             /\ chain'.claim # 0 \/ Undecided # {}
                   => block' <= CheckBy(outages) /\ block' + checkIn'[n] <= CheckBy(outages')
  <2>1. block < Last /\ block' = block + 1
    BY <1>1, <1>4, <1>6
  <2>2. chain.votes = 0 /\ "votes" \notin pool
    BY <1>1, <1>4, <1>6, <2>1
  <2>3. checked[n] /\ recorded[n] = "NoInfo"
    BY <1>4, <1>6, <2>1, <2>2 DEF PublishInv, ChecksInTime
  <2>4. checkIn[n] \in Nat /\ checkIn[n] > 0 /\ checkIn'[n] = checkIn[n] - 1
    <3>1. checkIn[n] > 0 /\ checkIn'[n] = checkIn[n] - 1
      BY <1>2, <2>3 DEF NothingDue
    <3>2. checkIn[n] \in 0..kTransactionCheckingSignalRepeatTime
      BY NumberTypes
    <3>3. QED BY <3>1, <3>2, ConstantTypes
  <2>5. ASSUME chain'.claim # 0 \/ Undecided # {} PROVE block + checkIn[n] <= CheckBy(outages)
    BY <1>4, <1>6, <2>1, <2>2, <2>5, ClaimedBefore DEF PublishInv, ChecksInTime
  <2>6. QED BY <1>4, <1>5, <2>1, <2>3, <2>4, <2>5
<1>7. ChecksInTime'
  <2>1. UNCHANGED <<stage, recorded, checked, Undecided>> /\ Before' = outages
    BY <1>1, <1>4
  <2>2. QED BY <1>6, <2>1 DEF ChecksInTime
<1>8. PublishedInTime'
  <2>1. SUFFICES ASSUME block' > Last, chain'.claim # 0, NEW n \in Nodes, stage[n] = "committed",
                        chain'.votes = 0
                 PROVE  FALSE
    BY <1>1 DEF PublishedInTime
  <2>2. block >= Last /\ chain'.claim = chain.claim /\ chain'.votes = chain.votes
    BY <1>1, <1>4, <2>1
  <2>3. ~(block > Last)
    BY <2>1, <2>2 DEF PublishInv, PublishedInTime
  <2>4. block = Last /\ "votes" \notin pool
    BY <1>4, <2>1, <2>2, <2>3 DEF PublishInv
  <2>5. block <= CheckBy(Before)
    BY <1>4, <2>1, <2>2, <2>4 DEF PublishInv, ChecksInTime
  <2>6. Before \in Nat /\ Before <= MaxOutages
    BY BeforeTypes
  <2>7. CheckBy(Before) \in Nat /\ CheckBy(Before) < Last
    BY <2>6, CheckByTypes
  <2>8. QED BY <1>4, <2>4, <2>5, <2>7
<1>9. QED BY <1>1, <1>7, <1>8 DEF PublishInv

LEMMA PublishStep ==
    ASSUME Front \in Reliable
    PROVE  TypeInv /\ ChainInv /\ ToldInv /\ ClaimInv /\ PublishInv /\ [Next]_vars => PublishInv'
<1> SUFFICES ASSUME TypeInv, ChainInv, ToldInv, ClaimInv, PublishInv, [Next]_vars PROVE PublishInv'
  OBVIOUS
<1>1. CASE UNCHANGED <<stage, recorded, checked, checkIn, block, chain, pool, offline, outages>>
  BY <1>1 DEF PublishInv, ChecksInTime, PublishedInTime, Undecided, Before
<1>2. ASSUME NEW i \in Observers, CatchUp(i) PROVE PublishInv'
  BY <1>1, <1>2 DEF CatchUp, memory
<1>3. CASE UNCHANGED vars
  BY <1>1, <1>3 DEF vars, memory, external
<1>4. QED BY <1>2, <1>3, PublishNode, PublishTick DEF Next

\* When the first host is reliable, votes that a node has reach the observers
\* before the last block if the payment was claimed, for any periods that fit
\* together, whatever outages and restarts come between.
THEOREM PublishedAlways == ASSUME Front \in Reliable PROVE Spec => []PublishedInTime
<1> DEFINE Inv == TypeInv /\ ChainInv /\ ToldInv /\ ClaimInv /\ PublishInv
<1>1. Init => Inv
  BY TypeInit, ChainInit, ToldInit, ClaimInit, PublishInit
<1>2. Inv /\ [Next]_vars => Inv'
  BY TypeStep, ChainStep, ToldStep, ClaimStep, PublishStep
<1>3. Inv => PublishedInTime
  BY DEF PublishInv
<1>4. QED BY <1>1, <1>2, <1>3, PTL DEF Spec

-----------------------------------------------------------------------------
(* The verdict *)

VerdictVars == <<chain.claim # 0, chain.votes # 0, block > Last, Decision>>

LEMMA VerdictInit == Init => Verdict!Init
<1> SUFFICES ASSUME Init PROVE Verdict!Init
  OBVIOUS
<1>1. chain.claim = 0 /\ chain.votes = 0 /\ block = 0
  BY DEF Init
<1>2. ~(block > Last)
  BY <1>1, LastType
<1>3. /\ Decision \in [Nodes -> {"undecided", "committed", "rejected"}]
      /\ \A n, m \in Nodes : ~(Decision[n] = "committed" /\ Decision[m] = "rejected")
  BY DEF Init, Decision
<1>4. QED BY <1>1, <1>2, <1>3 DEF Verdict!Init

\* Blocks come, and the last of them finds the claim and the votes there.
LEMMA VerdictTick ==
    ASSUME TypeInv, ChainInv, ClaimInv, PublishInv, ChainInv', PublishInv', Tick
    PROVE  [Verdict!Next]_VerdictVars
<1> USE DEF TypeInv
<1>1. /\ block' = IF block <= Last THEN block + 1 ELSE block
      /\ \A what \in {"claim", "votes"} :
            chain'[what] = IF what \in pool /\ block < Last THEN block + 1 ELSE chain[what]
      /\ UNCHANGED stage
  BY TickMoves
<1>2. block \in Nat /\ Last \in Nat /\ chain.votes \in Nat /\ chain.claim \in Nat
  BY NumberTypes, LastType
<1>3. Decision' = Decision /\ \A n \in Nodes : Decision[n] = "committed" <=> stage[n] = "committed"
  BY <1>1 DEF Decision
<1>4. CASE block < Last
  <2>1. ~(block > Last) /\ ~(block' > Last)
    BY <1>1, <1>2, <1>4
  <2>2. (chain.claim # 0 => chain'.claim # 0) /\ (chain.votes # 0 => chain'.votes # 0)
    BY <1>1, <1>2
  <2>3. chain'.votes # 0 => chain'.claim # 0
    BY DEF ChainInv
  <2>4. chain'.votes # 0 => chain.votes # 0 \/ \E n \in Nodes : stage[n] = "committed"
    BY <1>1 DEF ChainInv
  <2>5. Verdict!Block
    <3>1. /\ (chain'.claim # 0) \in {chain.claim # 0, TRUE}
          /\ (chain'.votes # 0) \in {chain.votes # 0, TRUE}
      BY <2>2
    <3>2. chain'.votes # 0 => chain.votes # 0 \/ Verdict!Committed # {}
      BY <1>3, <2>4 DEF Verdict!Committed
    <3>3. (block' > Last) = (block > Last)
      BY <2>1
    <3>4. QED BY <1>3, <2>1, <2>3, <3>1, <3>2, <3>3, Zenon DEF Verdict!Block
  <2>6. QED BY <2>5 DEF Verdict!Next
<1>5. CASE block = Last
  <2>1. ~(block > Last) /\ block' > Last
    BY <1>1, <1>2, <1>5
  <2>2. chain'.claim = chain.claim /\ chain'.votes = chain.votes
    BY <1>1, <1>2, <1>5
  <2>3. ASSUME NEW n \in Nodes, Decision[n] = "undecided" PROVE chain.claim # 0
    <3>1. n \in Undecided
      BY <2>3 DEF Decision, Undecided, Decided
    <3>2. QED BY <1>2, <1>5, <3>1, ClaimIsEarly
  <2>4. chain.claim # 0 /\ (\E n \in Nodes : stage[n] = "committed") => chain.votes # 0
    BY <1>1, <2>1, <2>2 DEF PublishInv, PublishedInTime
  <2>5. Verdict!DeadlinePasses
    BY <1>3, <2>1, <2>2, <2>3, <2>4 DEF Verdict!DeadlinePasses, Verdict!Committed
  <2>6. QED BY <2>5 DEF Verdict!Next
<1>6. CASE block > Last
  <2>1. block' = block /\ chain'.claim = chain.claim /\ chain'.votes = chain.votes
    BY <1>1, <1>2, <1>6
  <2>2. QED BY <1>3, <2>1 DEF VerdictVars
<1>7. QED BY <1>2, <1>4, <1>5, <1>6

LEMMA VerdictNode ==
    ASSUME TypeInv, ChainInv, ToldInv, NEW n \in Nodes, NodeStep(n) \/ Restart(n)
    PROVE  [Verdict!Next]_VerdictVars
<1> USE DEF TypeInv
<1>1. UNCHANGED <<block, chain>>
  BY OnlyTicksMoveTheChain
<1>2. \A m \in Nodes \ {n} : stage'[m] = stage[m]
  BY StageMoves
<1>3. CASE stage[n] \in Decided \/ stage'[n] \notin Decided
  <2>1. Decision' = Decision
    <3>1. stage[n] \in Decided => stage'[n] = stage[n]
      BY StageMoves
    <3>2. QED BY <1>2, <1>3, <3>1 DEF Decision, Decided
  <2>2. QED BY <1>1, <2>1 DEF VerdictVars
<1>4. CASE stage[n] \notin Decided /\ stage'[n] \in Decided
  <2>1. Decision' = [Decision EXCEPT ![n] = stage'[n]] /\ Decision[n] = "undecided"
    BY <1>2, <1>4 DEF Decision, Decided
  <2>2. CASE stage'[n] = "committed"
    <3>1. CommitsWithVotes(n) \/ runObservingResultStage(n)
      BY <1>4, <2>2, WhoCommits DEF Decided
    <3>2. (\E m \in Nodes : stage[m] = "committed") \/ chain.votes # 0
      BY <3>1 DEF CommitsWithVotes, runObservingResultStage, ToldInv
    <3>3. Verdict!Committed # {} \/ chain.votes # 0
      BY <3>2 DEF Verdict!Committed, Decision
    <3>4. Verdict!Commit(n)
      BY <1>1, <2>1, <2>2, <3>3 DEF Verdict!Commit
    <3>5. QED BY <3>4 DEF Verdict!Next
  <2>3. CASE stage'[n] = "rejected"
    <3>1. runObservingRejectTransaction(n)
      <4>1. CASE runObservingStage(n) \/ ClaimsAfterRestart(n) \/ sendClaimAgain(n)
        <5>1. ~Expired(n) => stage'[n] = "observing"
          BY <4>1, ClaimSent
        <5>2. Expired(n) => stage'[n] = "uncertain"
          BY ZenonT(60), ClaimDropped DEF TypeOK
        <5>3. QED BY <2>3, <5>1, <5>2
      <4>2. CASE performOneClaim(n)
        <5>1. stage'[n] \in {stage[n], "to reject", "to commit"}
          BY <4>2 DEF performOneClaim, Closes, Launches, TypeOK
        <5>2. QED BY <1>4, <2>3, <5>1
      <4>3. CASE CommitsWithVotes(n) \/ runObservingResultStage(n)
        BY <2>3, <4>3 DEF CommitsWithVotes, runObservingResultStage, Commits, Launches, TypeOK
      <4>4. CASE runTransactionsChecking(n)
        BY <1>4, <4>4 DEF runTransactionsChecking
      <4>5. CASE Restart(n)
        BY <1>4, <2>3, <4>5 DEF Restart, StageFromDisk, TypeOK
      <4>6. QED BY <4>1, <4>2, <4>3, <4>4, <4>5 DEF NodeStep
    <3>2. recorded[n] = "RejectedByObserving"
      BY <3>1 DEF runObservingRejectTransaction, StageInv, StageOf, Fits
    <3>3. block > Last /\ chain.claim # 0 /\ chain.votes = 0
      BY <3>2 DEF ToldInv, RecordedVerdict
    <3>4. Verdict!Reject(n)
      BY <1>1, <2>1, <2>3, <3>3 DEF Verdict!Reject
    <3>5. QED BY <3>4 DEF Verdict!Next
  <2>4. QED BY <1>4, <2>2, <2>3 DEF Decided
<1>5. QED BY <1>3, <1>4

\* When the first host is reliable, the nodes with their observers implement
\* what ObserversVerdict promises: when the last block is past, the claim and
\* the votes are there for good or nobody has them, and the nodes act on it.
THEOREM VerdictRefined == ASSUME Front \in Reliable PROVE Spec => ImplementsObserversVerdict
<1> DEFINE Inv == TypeInv /\ ChainInv /\ ToldInv /\ ClaimInv /\ PublishInv
<1>1. Init => Inv /\ Verdict!Init
  BY TypeInit, ChainInit, ToldInit, ClaimInit, PublishInit, VerdictInit
<1>2. Inv /\ [Next]_vars => Inv'
  BY TypeStep, ChainStep, ToldStep, ClaimStep, PublishStep
<1>3. Inv /\ Inv' /\ [Next]_vars => [Verdict!Next]_VerdictVars
  <2> SUFFICES ASSUME Inv, Inv', [Next]_vars PROVE [Verdict!Next]_VerdictVars
    OBVIOUS
  <2>1. ASSUME NEW i \in Observers, CatchUp(i) PROVE UNCHANGED VerdictVars
    BY <2>1 DEF CatchUp, VerdictVars, Decision
  <2>2. CASE UNCHANGED vars
    BY <2>2 DEF vars, external, VerdictVars, Decision
  <2>3. QED BY <2>1, <2>2, VerdictTick, VerdictNode DEF Next
<1>4. QED BY <1>1, <1>2, <1>3, PTL
     DEF Spec, ImplementsObserversVerdict, Verdict!Spec, Verdict!vars, VerdictVars

=============================================================================
