------------------------- MODULE PaymentReservation -------------------------
(***************************************************************************)
(* A payment from its first message to the public keys that open the vote   *)
(* (PaymentVoting goes on from there): the coordinator reserves its amount   *)
(* path by path and hop by hop, shortens or drops what cannot be had, fixes *)
(* the final amounts, and the nodes exchange receipts for them.             *)
(*                                                                         *)
(* A path is the sequence of its intermediate nodes; the receiver follows   *)
(* them.  The amount a trust line can still carry is any amount.  A message  *)
(* is received at most once, at any time, or never; a timer fires at any    *)
(* time.                                                                   *)
(***************************************************************************)
EXTENDS ReservationList

CONSTANTS Coordinator, Receiver, Intermediates,
          Amount,                     \* what the command asks to pay
          FirstPaths,                 \* the paths found at first
          RebuiltPaths,               \* what may be found later: several paths at a time
          MaxRebuildingAttempts,      \* kMaxRebuildingAttemptsCount
          MaxReceiverInaccessible,    \* kMaxReceiverInaccessible
          MaxMishaps,                 \* bounds the timeouts and refusals; 0: no bound
          TimelyRequests,             \* do requests arrive before the coordinator leaves their path?
          BlockNumberMissing          \* may the coordinator fail to learn the block number?

Nodes == Intermediates \cup {Receiver}
Peers == Nodes \cup {Coordinator}

ASSUME ConstantsAssumption ==
    /\ Coordinator \notin Nodes /\ Receiver \notin Intermediates
    /\ Amount \in Nat \ {0}
    /\ FirstPaths \in Seq(Seq(Intermediates)) /\ FirstPaths # <<>>
    /\ RebuiltPaths \subseteq Seq(Seq(Intermediates)) \ {<<>>}
    /\ {MaxRebuildingAttempts, MaxReceiverInaccessible, MaxMishaps} \subseteq Nat
    /\ {TimelyRequests, BlockNumberMissing} \subseteq BOOLEAN

VARIABLES co,      \* the coordinator's transaction
          tx,      \* the transaction of every other node
          msgs,    \* messages under way
          mishaps  \* how many there were (model only)

vars == <<co, tx, msgs, mishaps>>

-----------------------------------------------------------------------------
(* Nodes without a transaction, and paths *)

Idle == [role |-> "none", step |-> "none", await |-> {}, knows |-> FALSE, asked |-> FALSE,
         last |-> 0, res |-> <<>>, members |-> {}, hashes |-> {},
         receipts |-> [p \in Peers |-> 0], rejecting |-> FALSE]

\* intermediates() with the receiver that addPathForFurtherProcessing appends
NodeAt(route, i) == IF i > Len(route) THEN Receiver ELSE route[i]

Init ==
    /\ co = [stage |-> "start", queue |-> <<>>, paths |-> <<>>, own |-> <<>>, flow |-> 0,
             pos |-> 0, answered |-> <<>>, final |-> [n \in Nodes |-> <<>>], members |-> {},
             confirmed |-> {}, inaccessible |-> {}, news |-> FALSE, rebuilt |-> 0,
             missing |-> 0]
    /\ tx = [n \in Nodes |-> Idle]
    /\ msgs = {}
    /\ mishaps = 0

-----------------------------------------------------------------------------
(* Messages: how they are sent and taken *)

Mail(kind) == {m \in msgs : m.kind = kind}
MailOf(n, kind) == {m \in Mail(kind) : m.to = n /\ kind \in tx[n].await}

CoordinatorDoes(taken, c, sent) ==
    /\ co' = c
    /\ msgs' = (msgs \ taken) \cup sent
    /\ UNCHANGED tx

NodeDoes(n, taken, t, sent) ==
    /\ tx' = [tx EXCEPT ![n] = t]
    /\ msgs' = (msgs \ taken) \cup sent
    /\ UNCHANGED co

Request(from, to, path, amount, final) ==
    [kind |-> "request", from |-> from, to |-> to, path |-> path, amount |-> amount, final |-> final]
Answer(from, to, path, state, amount) ==
    [kind |-> "answer", from |-> from, to |-> to, path |-> path, state |-> state, amount |-> amount]
Extend(to, path, amount, next, final) ==
    [kind |-> "extend", to |-> to, path |-> path, amount |-> amount, next |-> next, final |-> final]
Extended(from, path, state, amount) ==
    [kind |-> "extended", from |-> from, path |-> path, state |-> state, amount |-> amount]
FinalPath(to, path, amount) ==
    [kind |-> "pathAmount", to |-> to, path |-> path, amount |-> amount]
TTLAnswer(to, goesOn) == [kind |-> "ttlAnswer", to |-> to, goesOn |-> goesOn]
Confirmation(from, ok) == [kind |-> "confirmation", from |-> from, ok |-> ok]

\* Every action is one or the other of these.
NoMishap == UNCHANGED mishaps
Mishap ==
    IF MaxMishaps = 0 THEN UNCHANGED mishaps
                      ELSE mishaps < MaxMishaps /\ mishaps' = mishaps + 1

-----------------------------------------------------------------------------
(* The coordinator: paths *)

Current == Head(co.queue)
Route == co.paths[Current]
OwnTotal(c) == MapThenSumSet(LAMBDA id : c.own[id], DOMAIN c.paths)
ToNode(c, n) == MapThenSumSet(LAMBDA id : c.own[id],
                              {id \in DOMAIN c.paths : NodeAt(c.paths[id], 1) = n})

\* what std::map::insert does with a new key
WithEntry(f, id, entry) == [i \in DOMAIN f \cup {id} |-> IF i = id THEN entry ELSE f[i]]

\* Mutant of WithPath: the next ID is the number of paths there are.
WithPathCounted(c, route) ==
    LET id == Cardinality(DOMAIN c.paths)
    IN  [c EXCEPT !.queue = Append(@, id), !.paths = WithEntry(@, id, route),
                      !.own = WithEntry(@, id, 0)]

\* addPathForFurtherProcessing: each path gets the lowest ID that is free.
WithPath(c, route) ==
    LET id == Min((0..Cardinality(DOMAIN c.paths)) \ DOMAIN c.paths)
    IN  [c EXCEPT !.queue = Append(@, id), !.paths = WithEntry(@, id, route),
                      !.own = WithEntry(@, id, 0)]

WithPaths(c, routes) ==
    LET w[k \in 0..Len(routes)] == IF k = 0 THEN c ELSE WithPath(w[k - 1], routes[k])
    IN  w[Len(routes)]

\* switchToNextPath erases a path that was left unusable.
Switched(c) ==
    LET stay == IF c.own[Head(c.queue)] > 0 THEN DOMAIN c.paths
                                            ELSE DOMAIN c.paths \ {Head(c.queue)}
    IN  [c EXCEPT !.stage = "choosing", !.queue = Tail(@), !.flow = 0, !.pos = 0, !.answered = <<>>,
                  !.paths = [id \in stay |-> @[id]], !.own = [id \in stay |-> @[id]]]

Dropped(c) == [c EXCEPT !.own[Current] = 0]

\* what dropReservationsOnPath tells the first n nodes of the path
DropMessages(n) == {FinalPath(Route[i], Current, 0) : i \in 1..n}

Ended(c) == [c EXCEPT !.stage = "ended", !.paths = <<>>, !.own = <<>>, !.queue = <<>>]

Reject(taken) ==
    CoordinatorDoes(taken, Ended(co), {TTLAnswer(n, FALSE) : n \in co.members})

-----------------------------------------------------------------------------
(* The coordinator: from the command to the first path *)

Start ==
    /\ NoMishap
    /\ co.stage = "start"
    /\ CoordinatorDoes({}, [WithPaths(co, FirstPaths) EXCEPT !.stage = "receiver"],
                       {[kind |-> "init", to |-> Receiver]})

ReceiverAnswers ==
    /\ NoMishap
    /\ co.stage = "receiver"
    /\ \E m \in Mail("initAnswer") :
          CoordinatorDoes({m}, IF m.ok THEN [co EXCEPT !.stage = "choosing", !.members = {Receiver}]
                                       ELSE Ended(co), {})

ReceiverSilent ==
    /\ Mishap
    /\ co.stage = "receiver"
    /\ CoordinatorDoes({}, Ended(co), {})

\* Mutant of ReserveOwn: what other paths carry is not taken off.
ReserveOwnAnew ==
    /\ NoMishap
    /\ co.stage = "choosing" /\ co.queue # <<>>
    /\ \E grant \in 1..Amount :
          LET first == NodeAt(Route, 1)
              final == IF Route = <<>> THEN <<>> ELSE co.final[first]
          IN  CoordinatorDoes({}, [co EXCEPT !.own[Current] = grant, !.flow = grant,
                                             !.stage = IF Route = <<>> THEN "direct" ELSE "neighbour"],
                              {Request(Coordinator, first, Current, grant, final)})

\* askNeighborToReserveAmount and tryReserveAmountDirectlyOnReceiver
ReserveOwn ==
    /\ NoMishap
    /\ co.stage = "choosing" /\ co.queue # <<>>
    /\ \E grant \in 1..(Amount - OwnTotal(co)) :
          LET first == NodeAt(Route, 1)
              final == IF Route = <<>> THEN <<>> ELSE co.final[first]
          IN  CoordinatorDoes({}, [co EXCEPT !.own[Current] = grant, !.flow = grant,
                                             !.stage = IF Route = <<>> THEN "direct" ELSE "neighbour"],
                              {Request(Coordinator, first, Current, grant, final)})

\* The line is not active, has no keys, or (then it is remembered) carries nothing.
CannotReserveOwn ==
    /\ Mishap
    /\ co.stage = "choosing" /\ co.queue # <<>>
    /\ \E news \in {co.news, Route # <<>>} :
          CoordinatorDoes({}, Switched([Dropped(co) EXCEPT !.news = @ \/ news]), {})

\* tryProcessNextPath when switchToNextPath finds none: buildPathsAgain
RebuildPaths ==
    /\ NoMishap
    /\ co.stage = "choosing" /\ co.queue = <<>>
    /\ co.rebuilt < MaxRebuildingAttempts /\ co.news
    /\ \E routes \in RebuiltPaths :
          /\ \A i \in 1..Len(routes) : ToSet(routes[i]) \cap co.inaccessible = {}
          /\ CoordinatorDoes({}, [WithPaths(co, routes) EXCEPT !.news = FALSE, !.rebuilt = @ + 1], {})

NoMorePaths ==
    /\ NoMishap
    /\ co.stage = "choosing" /\ co.queue = <<>>
    /\ Reject({})

-----------------------------------------------------------------------------
(* The coordinator: answers of the nodes on the path *)

\* addFinalConfigurationOnPath, and the next stage
PathFinished(c, taken, sent) ==
    LET entry   == PathAmount(Current, c.flow)
        passed  == ToSet(c.answered)
        times(n) == Cardinality({i \in 1..Len(c.answered) : c.answered[i] = n})
                      + (IF n = Receiver THEN 1 ELSE 0)
        done == [c EXCEPT !.members = @ \cup passed,
                          !.final = [n \in Nodes |-> @[n] \o [k \in 1..times(n) |-> entry]]]
    IN  CoordinatorDoes(taken, IF OwnTotal(c) = Amount THEN [done EXCEPT !.stage = "block"]
                                                       ELSE Switched(done), sent)

\* processNeighborAmountReservationResponse
NeighbourSilent ==
    /\ Mishap
    /\ co.stage = "neighbour"
    /\ CoordinatorDoes({}, Switched([Dropped(co) EXCEPT !.news = TRUE, !.inaccessible = @ \cup {Route[1]}]),
                       {TTLAnswer(Receiver, TRUE)})

NeighbourAnswers ==
    /\ NoMishap
    /\ co.stage = "neighbour"
    /\ \E m \in Mail("answer") :
          /\ m.to = Coordinator
          /\ \/ m.path # Current /\ CoordinatorDoes({m}, co, {})
             \/ m.path = Current /\ m.state = "closed" /\ Reject({m})
             \/ /\ m.path = Current /\ m.state = "rejected"
                /\ CoordinatorDoes({m}, Switched([Dropped(co) EXCEPT !.news = TRUE]), {})
             \/ m.path = Current /\ m.state = "accepted" /\ m.amount > co.flow /\ Reject({m})
             \/ /\ m.path = Current /\ m.state = "accepted" /\ m.amount <= co.flow
                /\ CoordinatorDoes({m},
                      [co EXCEPT !.stage = "remote", !.pos = 1, !.flow = m.amount,
                                 !.own[Current] = IF m.from = Route[1] THEN m.amount ELSE @],
                      {Extend(Route[1], Current, m.amount, NodeAt(Route, 2), co.final[NodeAt(Route, 2)])})

\* processNeighborFurtherReservationResponse and processRemoteNodeResponse
RemoteSilent ==
    /\ Mishap
    /\ co.stage = "remote"
    /\ CoordinatorDoes({}, Switched([Dropped(co) EXCEPT !.news = TRUE,
                                                        !.inaccessible = @ \cup {Route[co.pos]}]),
                       DropMessages(co.pos) \cup {TTLAnswer(Receiver, TRUE)})

NextInaccessible(m) ==
    LET next == NodeAt(Route, co.pos + 1)
        c == IF next = Receiver
             THEN [Dropped(co) EXCEPT !.missing = @ + 1]
             ELSE [Dropped(co) EXCEPT !.news = TRUE, !.inaccessible = @ \cup {next}]
    IN  IF c.missing >= MaxReceiverInaccessible
        THEN CoordinatorDoes({m}, Ended(co), DropMessages(co.pos - 1)
                                             \cup {TTLAnswer(n, FALSE) : n \in co.members})
        ELSE CoordinatorDoes({m}, Switched(c), DropMessages(co.pos - 1) \cup {TTLAnswer(Receiver, TRUE)})

NodeExtended(m) ==
    LET c == [co EXCEPT !.flow = m.amount, !.answered = Append(@, m.from),
                        !.own[Current] = IF co.pos > 1 \/ m.from = Route[1] THEN m.amount ELSE @]
        next == NodeAt(Route, co.pos + 2)
    IN  IF co.pos = Len(Route)
        THEN PathFinished(c, {m}, {FinalPath(Route[i], Current, m.amount) : i \in 1..Len(Route)})
        ELSE CoordinatorDoes({m}, [c EXCEPT !.pos = @ + 1],
                {Extend(Route[co.pos + 1], Current, m.amount, next, co.final[next])})

\* The first node of the path must be a neighbour; who answers is not checked otherwise.
NeighbourNodes == {Head(co.paths[id]) : id \in {i \in DOMAIN co.paths : co.paths[i] # <<>>}}

RemoteAnswers ==
    /\ NoMishap
    /\ co.stage = "remote"
    /\ \E m \in Mail("extended") :
          IF m.path # Current \/ (co.pos = 1 /\ m.from \notin NeighbourNodes)
          THEN CoordinatorDoes({m}, co, {})
          ELSE \/ m.state = "closed" /\ Reject({m})
               \/ m.state = "inaccessible" /\ NextInaccessible(m)
               \/ /\ m.state = "rejected"
                  /\ CoordinatorDoes({m}, Switched([Dropped(co) EXCEPT !.news = TRUE]),
                                     DropMessages(co.pos - 1) \cup {TTLAnswer(Receiver, TRUE)})
               \/ m.state = "accepted" /\ m.amount > co.flow /\ Reject({m})
               \/ m.state = "accepted" /\ m.amount <= co.flow /\ NodeExtended(m)

\* runDirectAmountReservationResponseProcessingStage, which looks at no path ID
DirectSilent ==
    /\ Mishap
    /\ co.stage = "direct"
    /\ IF co.missing + 1 >= MaxReceiverInaccessible
       THEN Reject({})
       ELSE CoordinatorDoes({}, Switched([Dropped(co) EXCEPT !.missing = @ + 1]), {})

DirectAnswers ==
    /\ NoMishap
    /\ co.stage = "direct"
    /\ \E m \in Mail("answer") :
          /\ m.to = Coordinator
          /\ \/ /\ m.state # "accepted"
                /\ CoordinatorDoes({m}, Switched([Dropped(co) EXCEPT !.news = TRUE]), {})
             \/ m.state = "accepted" /\ m.amount > co.flow /\ Reject({m})
             \/ /\ m.state = "accepted" /\ m.amount <= co.flow
                /\ PathFinished([co EXCEPT !.flow = m.amount,
                                           !.own[Current] = IF m.from = Receiver THEN m.amount ELSE @],
                                {m}, {})

-----------------------------------------------------------------------------
(* The coordinator: final configuration, confirmations, questions *)

\* sendFinalAmountsConfigurationToAllParticipants
SendFinalConfiguration ==
    /\ NoMishap
    /\ co.stage = "block"
    /\ IF Cardinality({id \in DOMAIN co.paths : co.paths[id] = <<>>}) > 1
       THEN Reject({})
       ELSE CoordinatorDoes({}, [co EXCEPT !.stage = "confirming"],
               {[kind |-> "final", to |-> n, list |-> co.final[n], members |-> co.members,
                 receipt |-> ToNode(co, n)] : n \in co.members})

\* resultUnexpectedError ends the transaction as it is.
NoBlockNumber ==
    /\ NoMishap
    /\ BlockNumberMissing
    /\ co.stage = "block"
    /\ CoordinatorDoes({}, [co EXCEPT !.stage = "ended"], {})

\* runFinalAmountsConfigurationConfirmation and propagateVotesListAndWaitForVotingResult
NotAllConfirm ==
    /\ Mishap
    /\ co.stage = "confirming"
    /\ Reject({})

NodeConfirms ==
    /\ NoMishap
    /\ co.stage = "confirming"
    /\ \E m \in Mail("confirmation") :
          LET confirmed == co.confirmed \cup {m.from}
          IN  \/ m.from \notin co.members /\ CoordinatorDoes({m}, co, {})
              \/ m.from \in co.members /\ ~m.ok /\ Reject({m})
              \/ /\ m.from \in co.members /\ m.ok /\ confirmed # co.members
                 /\ CoordinatorDoes({m}, [co EXCEPT !.confirmed = confirmed], {})
              \/ /\ m.from \in co.members /\ m.ok /\ confirmed = co.members
                 /\ CoordinatorDoes({m}, [co EXCEPT !.confirmed = confirmed, !.stage = "voting"],
                                    {[kind |-> "keys", to |-> n] : n \in co.members})

\* runTTLTransactionResponse
AnswerTTL ==
    /\ NoMishap
    /\ co.stage \in {"neighbour", "remote", "confirming", "voting"}
    /\ \E m \in Mail("ttlRequest") : CoordinatorDoes({m}, co, {TTLAnswer(m.from, m.from \in co.members)})

CoordinatorSteps ==
    Start \/ ReserveOwn \/ RebuildPaths \/ NoMorePaths \/ SendFinalConfiguration \/ NoBlockNumber

CoordinatorReceives ==
    ReceiverAnswers \/ NeighbourAnswers \/ RemoteAnswers \/ DirectAnswers \/ NodeConfirms \/ AnswerTTL

CoordinatorMishap ==
    ReceiverSilent \/ CannotReserveOwn \/ NeighbourSilent \/ RemoteSilent \/ DirectSilent \/ NotAllConfirm

-----------------------------------------------------------------------------
(* The other nodes: requests of the previous node *)

IsReceiver(n) == tx[n].role = "receiver"

\* what resultWaitForMessageTypes is given at each place
AfterReserving  == {"extend", "request", "final", "hash", "ttlAnswer"}
AfterExtending  == {"answer", "request", "pathAmount", "final", "hash", "ttlAnswer"}
Holding         == {"request", "pathAmount", "final", "hash", "ttlAnswer"}
AfterPath       == {"request", "final", "hash", "ttlAnswer"}
ReceiverWaiting == {"request", "ttlAnswer"}
Confirming(n)   == {"final", "hash", "ttlAnswer"} \cup (IF IsReceiver(n) THEN {"request"} ELSE {})

\* runInitializationStage of the receiver
ReceiveInit ==
    /\ NoMishap
    /\ LET n == Receiver
       IN  \E m \in Mail("init") :
             /\ tx[n].role = "none"
             /\ NodeDoes(n, {m}, [Idle EXCEPT !.role = "receiver", !.step = "reserving", !.knows = TRUE,
                                              !.await = ReceiverWaiting],
                         {[kind |-> "initAnswer", ok |-> TRUE]})

RefuseInit ==
    /\ Mishap
    /\ \E m \in Mail("init") :
           NodeDoes(Receiver, {m}, tx[Receiver], {[kind |-> "initAnswer", ok |-> FALSE]})

\* An intermediate node that holds nothing (any more) has no transaction.
Prolonged(t) ==
    IF t.res = <<>> THEN Idle ELSE [t EXCEPT !.step = "reserving", !.await = AfterPath]

\* sendErrorMessageOnPreviousNodeRequest, which leaves the receiver where it is
RequestRefused(n, m, t, state) ==
    NodeDoes(n, {m}, IF t.role = "receiver" THEN [t EXCEPT !.await = ReceiverWaiting] ELSE Prolonged(t),
             {Answer(n, m.from, m.path, state, 0)})

ReserveIncoming(n, m, t, grant) ==
    LET more     == [t EXCEPT !.res = Append(@, Reservation(m.path, m.from, "in", grant))]
        accepted == {Answer(n, m.from, m.path, "accepted", grant)}
        total    == Total(more.res)
    IN  IF t.role = "intermediate"
        THEN NodeDoes(n, {m}, [more EXCEPT !.last = m.path, !.step = "reserving",
                                           !.await = AfterReserving], accepted)
        ELSE \/ total > Amount /\ RequestRefused(n, m, [more EXCEPT !.rejecting = TRUE], "closed")
             \/ /\ total = Amount
                /\ NodeDoes(n, {m}, [more EXCEPT !.step = "confirming", !.asked = FALSE,
                                                 !.await = Confirming(n)], accepted)
             \/ total < Amount /\ NodeDoes(n, {m}, [more EXCEPT !.await = ReceiverWaiting], accepted)

\* The coordinator still works on the path.
OnTime(m) ==
    co.stage \in {"neighbour", "remote", "direct"} /\ Current = m.path

RequestsOf(n) ==
    {m \in Mail("request") : /\ m.to = n
                             /\ tx[n].role = "none" \/ "request" \in tx[n].await
                             /\ TimelyRequests => OnTime(m)}

\* A request launches a transaction where there is none.
Serving(n) ==
    IF tx[n].role = "none" THEN [Idle EXCEPT !.role = "intermediate"]
                           ELSE [tx[n] EXCEPT !.step = "reserving"]

\* runPreviousNeighborRequestProcessingStage; runAmountReservationStage of the receiver
ReceiveRequest(n) ==
    /\ NoMishap
    /\ \E m \in RequestsOf(n) :
           LET t       == Serving(n)
               updated == [t EXCEPT !.res = Updated(@, m.final)]
           IN  \/ UpdateThrows(t.res, m.final) /\ NodeDoes(n, {m}, Idle, {})
               \/ /\ ~UpdateThrows(t.res, m.final)
                  /\ ~UpdateComplete(t.res, m.final)
                  /\ RequestRefused(n, m, [updated EXCEPT !.rejecting = IsReceiver(n)], "closed")
               \/ /\ ~UpdateThrows(t.res, m.final)
                  /\ UpdateComplete(t.res, m.final)
                  /\ \E grant \in 1..m.amount : ReserveIncoming(n, m, updated, grant)

\* The line is not usable (found out first), or carries nothing (found out last).
RefuseRequest(n) ==
    /\ Mishap
    /\ \E m \in RequestsOf(n) :
           LET t == Serving(n)
           IN  \/ RequestRefused(n, m, t, "rejected")
               \/ /\ ~UpdateThrows(t.res, m.final) /\ UpdateComplete(t.res, m.final)
                  /\ RequestRefused(n, m, [t EXCEPT !.res = Updated(@, m.final)], "rejected")

-----------------------------------------------------------------------------
(* Intermediate nodes: the coordinator's request, the next node's answer *)

\* sendErrorMessageOnCoordinatorRequest, sendErrorMessageOnNextNodeResponse
PathRefused(n, taken, t, state) ==
    NodeDoes(n, taken, Prolonged([t EXCEPT !.res = WithoutPath(@, t.last)]),
             {Extended(n, t.last, state, 0)})

\* runCoordinatorRequestProcessingStage
ReceiveExtend(n) ==
    /\ NoMishap
    /\ \E m \in MailOf(n, "extend") :
           \E grant \in 1..m.amount :
               NodeDoes(n, {m}, [tx[n] EXCEPT !.knows = TRUE, !.last = m.path, !.step = "next",
                                              !.await = AfterExtending,
                                              !.res = Append(@, Reservation(m.path, m.next, "out", grant))],
                        {Request(n, m.next, m.path, grant, m.final)})

RefuseExtend(n) ==
    /\ Mishap
    /\ \E m \in MailOf(n, "extend") :
           PathRefused(n, {m}, [tx[n] EXCEPT !.knows = TRUE, !.last = m.path], "rejected")

\* runNextNeighborResponseProcessingStage
ReceiveAnswer(n) ==
    /\ NoMishap
    /\ tx[n].step = "next"
    /\ \E m \in MailOf(n, "answer") :
          LET t == tx[n]
          IN  \/ m.path # t.last /\ NodeDoes(n, {m}, t, {})
              \/ m.path = t.last /\ m.state # "accepted" /\ PathRefused(n, {m}, t, m.state)
              \/ /\ m.path = t.last /\ m.state = "accepted"
                 /\ IF ShorteningThrows(t.res, t.last, m.amount) THEN NodeDoes(n, {m}, Idle, {})
                    ELSE NodeDoes(n, {m}, [t EXCEPT !.res = Shortened(@, t.last, m.amount),
                                                    !.step = "reserving", !.await = Holding],
                                  {Extended(n, t.last, "accepted", m.amount)})

NextNodeSilent(n) ==
    /\ Mishap
    /\ tx[n].step = "next"
    /\ PathRefused(n, {}, tx[n], "inaccessible")

\* runFinalPathConfigurationProcessingStage
ReceiveFinalPath(n) ==
    /\ NoMishap
    /\ \E m \in MailOf(n, "pathAmount") :
           LET t == tx[n]
           IN  \/ ~t.knows /\ NodeDoes(n, {m}, Idle, {})
               \/ /\ t.knows /\ m.amount = 0
                  /\ NodeDoes(n, {m}, Prolonged([t EXCEPT !.res = WithoutPath(@, m.path)]), {})
               \/ /\ t.knows /\ m.amount > 0
                  /\ NodeDoes(n, {m}, IF ShorteningThrows(t.res, m.path, m.amount) THEN Idle
                                      ELSE [t EXCEPT !.res = Shortened(@, m.path, m.amount),
                                                     !.step = "reserving", !.await = AfterPath], {})

-----------------------------------------------------------------------------
(* Waiting, and asking the coordinator whether the payment goes on *)

AskTTL(n, await) ==
    NodeDoes(n, {}, [tx[n] EXCEPT !.asked = TRUE, !.await = await], {[kind |-> "ttlRequest", from |-> n]})

\* Mutant of TimerFires: a node asks again and again.
TimerFiresAsking(n) ==
    /\ Mishap
    /\ tx[n].step \in {"reserving", "confirming", "accepted"}
    /\ IF ~tx[n].knows THEN NodeDoes(n, {}, Idle, {}) ELSE AskTTL(n, tx[n].await)

\* The timeouts of the reservation, confirmation and voting stages.  A node that
\* asked before gives up; so does one that does not know whom to ask (it crashes
\* where it dereferences its coordinator).
TimerFires(n) ==
    /\ Mishap
    /\ tx[n].step \in {"reserving", "confirming", "accepted"}
    /\ IF tx[n].asked \/ ~tx[n].knows
       THEN NodeDoes(n, {}, Idle, {})
       ELSE AskTTL(n, CASE tx[n].step = "accepted"   -> {"keys", "ttlAnswer"}
                        [] tx[n].step = "confirming" -> Confirming(n)
                        [] tx[n].step = "reserving" /\ IsReceiver(n)  -> ReceiverWaiting
                        [] tx[n].step = "reserving" /\ ~IsReceiver(n) -> Holding)

\* "Continue" changes what is awaited; "Finish" ends the transaction.
ReceiveTTLAnswer(n) ==
    /\ NoMishap
    /\ \E m \in MailOf(n, "ttlAnswer") :
           LET t == tx[n]
           IN  IF t.step = "block" /\ IsReceiver(n)
               THEN NodeDoes(n, {m}, Idle, {Confirmation(n, FALSE)})
               ELSE \/ ~(t.knows /\ m.goesOn) /\ NodeDoes(n, {m}, Idle, {})
                    \/ /\ t.knows /\ m.goesOn
                       /\ NodeDoes(n, {m},
                             [t EXCEPT !.await =
                                 CASE t.step = "accepted"   -> {"keys", "ttlAnswer"}
                                   [] t.step = "block"      -> {"hash", "ttlAnswer"}
                                   [] t.step = "confirming" -> Confirming(n)
                                   [] t.step = "reserving" /\ IsReceiver(n)  -> ReceiverWaiting
                                   [] t.step \in {"reserving", "next"} /\ ~IsReceiver(n) -> Holding], {})

\* "Continue" after kMaxTransactionDuration
DurationOver(n) ==
    /\ Mishap
    /\ \E m \in MailOf(n, "ttlAnswer") : m.goesOn /\ NodeDoes(n, {m}, Idle, {})

-----------------------------------------------------------------------------
(* The final configuration, the receipts, the confirmation *)

Refuse(n, m) == NodeDoes(n, {m}, Idle, IF tx[n].knows THEN {Confirmation(n, FALSE)} ELSE {})

\* totalReservedIncomingAmountToNode is what the receipt must be for; no receipt is 0.
ReceiptFits(t, from, receipt) == TotalFrom(t.res, from) = receipt

PeersOf(t) == {t.res[i].peer : i \in 1..Len(t.res)}

\* runFinalReservationsCoordinatorConfirmation
ReceiveFinal(n) ==
    /\ NoMishap
    /\ \E m \in MailOf(n, "final") :
           LET t       == tx[n]
               updated == [t EXCEPT !.res = Updated(@, m.list), !.members = m.members,
                                    !.receipts[Coordinator] = m.receipt, !.step = "block",
                                    !.await = {"hash", "ttlAnswer"},
                                    !.asked = IF t.step = "confirming" THEN @ ELSE FALSE]
           IN  IF ~t.knows \/ UpdateThrows(t.res, m.list) THEN NodeDoes(n, {m}, Idle, {})
               ELSE \/ ~UpdateComplete(t.res, m.list) /\ Refuse(n, m)
                    \/ /\ UpdateComplete(t.res, m.list)
                       /\ IF IsReceiver(n) THEN ~OnlyIncoming(updated.res) /\ Refuse(n, m)
                                           ELSE ~PassedOn(updated.res) /\ NodeDoes(n, {m}, Idle, {})
                    \/ /\ UpdateComplete(t.res, m.list)
                       /\ IF IsReceiver(n) THEN OnlyIncoming(updated.res) ELSE PassedOn(updated.res)
                       /\ IF PeersOf(updated) \subseteq m.members \cup {Coordinator}
                             /\ ReceiptFits(updated, Coordinator, m.receipt)
                          THEN NodeDoes(n, {m}, updated, {})
                          ELSE Refuse(n, m)

\* Mutant of Confirm: the node still waits for the final amount of a path.
ConfirmAwaitingPaths(n, taken, t, sent) ==
    IF t.members \subseteq t.hashes
    THEN NodeDoes(n, taken, [t EXCEPT !.step = "accepted", !.asked = FALSE,
                                      !.await = {"keys", "ttlAnswer", "pathAmount"}],
                  sent \cup {Confirmation(n, TRUE)})
    ELSE NodeDoes(n, taken, Idle, sent \cup {Confirmation(n, FALSE)})

\* All hashes are there: checkAllPublicKeyHashesProperly, and the answer.
Confirm(n, taken, t, sent) ==
    IF t.members \subseteq t.hashes
    THEN NodeDoes(n, taken, [t EXCEPT !.step = "accepted", !.asked = FALSE, !.await = {"keys", "ttlAnswer"}],
                  sent \cup {Confirmation(n, TRUE)})
    ELSE NodeDoes(n, taken, Idle, sent \cup {Confirmation(n, FALSE)})

AllHashes(t) == Cardinality(t.hashes) = Cardinality(t.members)

\* The receipt for a node to which the first reservation goes out.
ReceiptFor(t, peer) ==
    LET withPeer == {i \in 1..Len(t.res) : t.res[i].peer = peer}
    IN  IF withPeer # {} /\ t.res[Min(withPeer)].dir = "out" THEN TotalWith(t.res, peer) ELSE 0

\* runCheckObservingBlockNumber
LearnBlockNumber(n) ==
    /\ NoMishap
    /\ tx[n].step = "block"
    /\ LET t == [tx[n] EXCEPT !.hashes = @ \cup {n}]
           sent == {[kind |-> "hash", from |-> n, to |-> p,
                     receipt |-> IF IsReceiver(n) THEN 0 ELSE ReceiptFor(t, p)] : p \in t.members \ {n}}
       IN  IF AllHashes(t) THEN Confirm(n, {}, t, sent)
           ELSE NodeDoes(n, {}, [t EXCEPT !.step = "confirming", !.await = {"hash", "ttlAnswer"}], sent)

\* The number does not come in time, or is not near the coordinator's.
BlockNumberWrong(n) ==
    /\ Mishap
    /\ tx[n].step = "block"
    /\ NodeDoes(n, {}, Idle, {Confirmation(n, FALSE)})

\* runFinalReservationsNeighborConfirmation
ReceiveHash(n) ==
    /\ NoMishap
    /\ \E m \in MailOf(n, "hash") :
           LET t == [tx[n] EXCEPT !.hashes = @ \cup {m.from}, !.receipts[m.from] = m.receipt,
                                  !.step = IF @ = "block" THEN @ ELSE "confirming"]
           IN  IF ~ReceiptFits(t, m.from, m.receipt) THEN Refuse(n, m)
               ELSE \/ /\ t.members = {}
                       /\ NodeDoes(n, {m}, [t EXCEPT !.await = {"final", "hash", "ttlAnswer"}], {})
                    \/ t.members # {} /\ t.step = "block" /\ NodeDoes(n, {m}, [t EXCEPT !.await = {"hash"}], {})
                    \/ t.members # {} /\ t.step # "block" /\ AllHashes(t) /\ Confirm(n, {m}, t, {})
                    \/ /\ t.members # {} /\ t.step # "block" /\ ~AllHashes(t)
                       /\ NodeDoes(n, {m}, [t EXCEPT !.await = {"hash", "ttlAnswer"}], {})

\* The receiver that should reject drops its reservations and goes on to vote.
ReceiveKeys(n) ==
    /\ NoMishap
    /\ \E m \in MailOf(n, "keys") :
           NodeDoes(n, {m}, [tx[n] EXCEPT !.step = "voting", !.await = {},
                                          !.res = IF tx[n].rejecting THEN <<>> ELSE @], {})

NodeReceives(n) ==
    \/ ReceiveRequest(n) \/ ReceiveExtend(n) \/ ReceiveAnswer(n) \/ ReceiveFinalPath(n)
    \/ ReceiveTTLAnswer(n) \/ ReceiveFinal(n) \/ ReceiveHash(n) \/ ReceiveKeys(n)

NodeTimeout(n) == TimerFires(n) \/ NextNodeSilent(n) \/ BlockNumberWrong(n)

NodeRefuses(n) ==
    RefuseRequest(n) \/ RefuseExtend(n) \/ DurationOver(n)

Next ==
    \/ CoordinatorSteps \/ CoordinatorReceives \/ CoordinatorMishap
    \/ ReceiveInit \/ RefuseInit
    \/ \E n \in Nodes : LearnBlockNumber(n) \/ NodeReceives(n) \/ NodeTimeout(n) \/ NodeRefuses(n)

Spec == Init /\ [][Next]_vars

\* The event loop does what is due, and timers fire.  Nothing is assumed of messages.
FairSpec ==
    /\ Spec
    /\ WF_vars(CoordinatorSteps) /\ WF_vars(CoordinatorMishap)
    /\ \A n \in Nodes : WF_vars(NodeTimeout(n))

-----------------------------------------------------------------------------
(* Properties *)

\* Types; a coordinator never asks for more than its command.
TypeOK ==
    /\ co.stage \in {"start", "receiver", "choosing", "neighbour", "remote", "direct", "block",
                     "confirming", "voting", "ended"}
    /\ co.members \subseteq Nodes /\ co.confirmed \subseteq co.members
    /\ OwnTotal(co) \in 0..Amount
    /\ \A n \in Nodes :
          /\ tx[n].role \in {"none", "intermediate", "receiver"}
          /\ \A i \in 1..Len(tx[n].res) :
                tx[n].res[i] \in [path : Nat, peer : Peers, dir : {"in", "out"}, amount : 1..Amount]
          /\ tx[n].hashes \subseteq Nodes /\ tx[n].members \subseteq Nodes

\* What a path of the coordinator, and all of them, ask of a node.
AskedOnPath(n, id) ==
    LET route == co.paths[id]
        before(i) == IF i = 1 THEN Coordinator ELSE route[i - 1]
    IN  {Reservation(id, before(i), "in", co.own[id]) :
            i \in {i \in 1..(Len(route) + 1) : NodeAt(route, i) = n}}
        \cup {Reservation(id, NodeAt(route, i + 1), "out", co.own[id]) :
            i \in {i \in 1..Len(route) : route[i] = n}}

AskedOf(n) == UNION {AskedOnPath(n, id) : id \in {id \in DOMAIN co.paths : co.own[id] > 0}}

\* When the vote opens, every node that is still in the payment holds exactly what
\* the coordinator has fixed: on each path the same amount over every line, at both
\* ends, up to the receiver, and nothing else; together it is the amount to pay.
\* The stages add to and take from the lists of each node one message at a time.
PathsAreReserved ==
    co.stage = "voting" =>
        /\ OwnTotal(co) = Amount
        /\ \A n \in co.members :
              tx[n].members # {} => /\ ToSet(tx[n].res) = AskedOf(n)
                                    /\ Len(tx[n].res) = Cardinality(AskedOf(n))

\* Who has heard of all the others has a receipt of each for just what it takes
\* from it: runFinalReservationsCoordinatorConfirmation and
\* runFinalReservationsNeighborConfirmation check one receipt each, in any order.
ReceiptsCoverReservations ==
    \A n \in Nodes :
        tx[n].members # {} /\ tx[n].members \subseteq tx[n].hashes =>
            \A p \in Peers : TotalFrom(tx[n].res, p) = tx[n].receipts[p]

\* What a node holds is not changed any more once the final amounts are there
\* (the note in runFinalAmountsConfigurationConfirmation of the receiver).
FinalReservationsStay ==
    [][\A n \in Nodes :
          tx[n].members # {} /\ tx'[n].members # {} => tx'[n].res = tx[n].res]_vars

\* A node holds a path once in each direction; rollBack, the final configuration
\* and checkReservationsDirections find reservations by the ID of their path.
PathsKeptApart ==
    \A n \in Nodes : \A i, j \in 1..Len(tx[n].res) :
        tx[n].res[i].path = tx[n].res[j].path /\ tx[n].res[i].dir = tx[n].res[j].dir => i = j

\* In the end only a payment that is put to the vote holds anything, whatever
\* messages were lost and however the others ended.
ReservationsReleased ==
    <>[](/\ \A n \in Nodes : tx[n].res # <<>> => tx[n].step = "voting" /\ co.stage = "voting"
         /\ OwnTotal(co) > 0 => co.stage = "voting")
=============================================================================
