--------------------------- MODULE TrustLineAudit ---------------------------
(***************************************************************************)
(* The audits of one trust line between its two ends.  Either end may start *)
(* one, also both at once; the messages between them may be lost, delayed,  *)
(* reordered or repeated, an end may restart, and a payment may hold        *)
(* reservations on the line meanwhile.                                      *)
(*                                                                          *)
(* Each end keeps its own view of the line in memory and the audits in its  *)
(* database; the last of those may still miss the contractor's signature.   *)
(* A signature is the terms it signs.  Keys suffice and databases work, so  *)
(* the only failing write is that of an audit number already taken.         *)
(***************************************************************************)
EXTENDS Integers, Sequences, FiniteSets

CONSTANTS
    Nodes,                    \* the two ends
    Greater,                  \* the end whose address is the greater one
    Payer,                    \* the end that pays over the line
    Initiators,               \* the ends whose users or audit rules ask for audits
    Requests,                 \* what they ask for
    TrustAmounts,             \* limits an end may set
    InitialTrust,             \* the limit each end gives in the first audit
    TransactionUUIDs,         \* of each end: its transactions alive or remembered at one time
    MaxAuditNumber,           \* bound: no audit starts beyond it
    kMaxCountSendingAttempts,
    kMaxPendingAttempts,
    MaxRestarts,              \* bound
    Payments                  \* bound: 0 or 1 payments

ASSUME AuditAssumption ==
    /\ IsFiniteSet(Nodes) /\ Cardinality(Nodes) = 2
    /\ Greater \in Nodes /\ Payer \in Nodes /\ Initiators \subseteq Nodes
    /\ TrustAmounts \subseteq Nat /\ 0 \in TrustAmounts
    /\ InitialTrust \in [Nodes -> TrustAmounts]
    /\ \A n, m \in Nodes : n # m => TransactionUUIDs[n] \cap TransactionUUIDs[m] = {}
    /\ Requests \subseteq [kind : {"set"}, amount : TrustAmounts]
                            \cup [kind : {"close", "audit"}, amount : {0}]
    /\ MaxAuditNumber \in Nat \ {0} /\ MaxRestarts \in Nat /\ Payments \in {0, 1}
    /\ kMaxCountSendingAttempts \in Nat \ {0} /\ kMaxPendingAttempts \in Nat \ {0}

VARIABLES
    line,      \* memory: the end's view of the trust line
    txs,       \* memory: its transactions that wait for something
    cache,     \* memory: ConfirmationResponseMessagesHandler, the last answer
    pinged,    \* memory: PingMessagesHandler has the contractor in its list
    audits,    \* database: the audits of the line, oldest first
    stored,    \* database: the state of the line
    receipt,   \* database: the number of the audit the payment's receipt is under
    reserved,  \* the payment holds a reservation at this end
    payment,   \* the progress of the payment
    net,       \* messages under way
    restarts   \* bound

vars == <<line, txs, cache, pinged, audits, stored, receipt, reserved, payment, net, restarts>>

-----------------------------------------------------------------------------
States == {"Active", "AuditPending", "ConflictResolving", "Archived"}
Other(n) == CHOOSE m \in Nodes : m # n

\* getOwnSerializedAuditData
OwnTerms(number, l) ==
    [number |-> number, outgoing |-> l.outgoing, incoming |-> l.incoming, balance |-> l.balance]

\* getContractorSerializedAuditData
ContractorTerms(number, l) ==
    [number |-> number, outgoing |-> l.incoming, incoming |-> l.outgoing, balance |-> -l.balance]

\* AuditHandler::getActualAuditFull
Actual(log) == log[Len(log)]
Numbers(log) == {log[i].terms.number : i \in 1..Len(log)}

Moved(n) == IF n = Payer THEN -1 ELSE 1
ReceiptsUnder(n, number) == IF receipt[n] = number THEN Moved(n) ELSE 0

\* TrustLinesManager::updateTrustLineFromStorage
FromStorage(n, l, log) ==
    LET actual == Actual(log).terms IN
    [l EXCEPT !.number = actual.number, !.outgoing = actual.outgoing, !.incoming = actual.incoming,
              !.balance = actual.balance + ReceiptsUnder(n, actual.number)]

isTrustLineEmpty(l) == l.outgoing = 0 /\ l.incoming = 0 /\ l.balance = 0

\* Mutant of isAuditWasCancelled: an audit still pending counts as cancelled.
isAuditWasCancelledIfPending(n, number) ==
    Actual(audits[n]).terms.number >= number \/ Actual(audits[n]).full

\* TrustLineKeychain::isAuditWasCancelled
isAuditWasCancelled(n, number) ==
    Actual(audits[n]).terms.number > number \/ Actual(audits[n]).full

NoAnswer == [id |-> "none", signed |-> <<>>]

\* Transactions that are still referred to keep their name.
UsedUUIDs == (UNION {{t.id : t \in txs[n]} \cup {cache[n].id} : n \in Nodes})
               \cup {m.id : m \in {k \in net : k.type # "pong"}}
FreshUUIDs(n) == TransactionUUIDs[n] \ UsedUUIDs

Transaction(n, q, number) ==
    [id |-> CHOOSE u \in FreshUUIDs(n) : TRUE, request |-> q, step |-> "pending", resumes |-> FALSE,
     number |-> number, signed |-> <<>>, sent |-> 0, waits |-> 0, contractorWaits |-> 0]

AuditMessage(n, t, l) ==
    [type |-> "audit", to |-> Other(n), id |-> t.id, copy |-> t.sent, number |-> t.number,
     outgoing |-> l.outgoing, incoming |-> l.incoming, signed |-> t.signed]
AuditResponse(n, id, state, terms) ==
    [type |-> "response", to |-> n, id |-> id, state |-> state, signed |-> terms]

Stops(n, t)      == txs' = [txs EXCEPT ![n] = @ \ {t}]
Becomes(n, t, u) == txs' = [txs EXCEPT ![n] = (@ \ {t}) \cup {u}]

\* setTrustLineState(ConflictResolving, ioTransaction)
Conflicts(n, t) ==
    /\ line' = [line EXCEPT ![n].state = "ConflictResolving"]
    /\ stored' = [stored EXCEPT ![n] = "ConflictResolving"]
    /\ Stops(n, t)

-----------------------------------------------------------------------------
First(n) == [number |-> 1, outgoing |-> InitialTrust[n],
             incoming |-> InitialTrust[Other(n)], balance |-> 0]

Init ==
    /\ line = [n \in Nodes |->
                 [state |-> "Active", number |-> 1, outgoing |-> First(n).outgoing,
                  incoming |-> First(n).incoming, balance |-> 0]]
    /\ audits = [n \in Nodes |-> <<[terms |-> First(n), full |-> TRUE]>>]
    /\ stored = [n \in Nodes |-> "Active"]
    /\ txs = [n \in Nodes |-> {}]
    /\ cache = [n \in Nodes |-> NoAnswer]
    /\ pinged = [n \in Nodes |-> FALSE]
    /\ receipt = [n \in Nodes |-> 0]
    /\ reserved = [n \in Nodes |-> FALSE]
    /\ payment = "none"
    /\ net = {}
    /\ restarts = 0

-----------------------------------------------------------------------------
(* The initiator: SetOutgoing, CloseIncoming and AuditSource transactions *)

\* setOutgoing and closeIncoming of TrustLinesManager throw a ValueError.
Refused(q, l) == \/ q.kind = "set" /\ q.amount = 0 /\ l.outgoing = 0
                 \/ q.kind = "close" /\ l.incoming = 0

Requested(q, l) == CASE q.kind = "set"   -> [l EXCEPT !.outgoing = q.amount]
                     [] q.kind = "close" -> [l EXCEPT !.incoming = 0]
                     [] q.kind = "audit" -> l

SavesOwnPart(n, t, l) ==
    LET asked == [Requested(t.request, l) EXCEPT !.state = "AuditPending", !.number = t.number]
        own   == OwnTerms(t.number, asked)
        u     == [t EXCEPT !.step = "response", !.signed = own, !.sent = 1]
    IN  /\ line' = [line EXCEPT ![n] = asked]
        /\ audits' = [audits EXCEPT ![n] = Append(@, [terms |-> own, full |-> FALSE])]
        /\ net' = net \cup {AuditMessage(n, u, asked)}
        /\ Becomes(n, t, u)

\* The line is left as found, in its previous state; the plain audit makes it
\* Active when its number is taken.
initializeAudit(n, t, l) ==
    \/ /\ Refused(t.request, l)
       /\ line' = [line EXCEPT ![n] = l]
       /\ Stops(n, t)
       /\ UNCHANGED <<audits, net>>
    \/ /\ ~Refused(t.request, l)
       /\ t.number \in Numbers(audits[n])
       /\ line' = [line EXCEPT ![n] =
                     [l EXCEPT !.state = IF t.request.kind = "audit" THEN "Active" ELSE @]]
       /\ Stops(n, t)
       /\ UNCHANGED <<audits, net>>
    \/ /\ ~Refused(t.request, l)
       /\ t.number \notin Numbers(audits[n])
       /\ SavesOwnPart(n, t, l)

\* All but SetOutgoing mark the line before they look for reservations.
runInitializationStage(n, q) ==
    LET t == Transaction(n, q, line[n].number + 1)
        marked == [line[n] EXCEPT !.state = "AuditPending"]
    IN  /\ n \in Initiators /\ q \in Requests
        /\ FreshUUIDs(n) # {}
        /\ line[n].number < MaxAuditNumber
        /\ line[n].state = "Active"
        /\ \/ /\ reserved[n]
              /\ line' = [line EXCEPT ![n] = marked]
              /\ Becomes(n, t, [t EXCEPT !.waits = 1])
              /\ UNCHANGED <<audits, net>>
           \/ /\ ~reserved[n]
              /\ initializeAudit(n, t, IF q.kind = "set" THEN line[n] ELSE marked)
        /\ UNCHANGED <<cache, pinged, stored, receipt, reserved, payment, restarts>>

\* The signature of the pending audit goes out once more, with the amounts the
\* line has now.  Without a pending audit a ValueError ends the transaction.
nextAttemptAudit(n, t) ==
    LET actual == Actual(audits[n])
        u      == [t EXCEPT !.step = "response", !.signed = actual.terms, !.sent = @ + 1]
    IN  \/ /\ actual.terms.number = t.number /\ ~actual.full
           /\ net' = net \cup {AuditMessage(n, u, line[n])}
           /\ Becomes(n, t, u)
        \/ /\ actual.terms.number # t.number \/ actual.full
           /\ Stops(n, t)
           /\ UNCHANGED net

\* runAuditPendingStage and runNextAttemptAuditPendingStage
runAuditPendingStage(n, t) ==
    /\ t.step = "pending"
    /\ \/ /\ line[n].state # "AuditPending"
          /\ Stops(n, t)
          /\ UNCHANGED <<line, audits, stored, net>>
       \/ /\ line[n].state = "AuditPending" /\ reserved[n]
          /\ t.waits + 1 > kMaxPendingAttempts
          /\ Conflicts(n, t)
          /\ UNCHANGED <<audits, net>>
       \/ /\ line[n].state = "AuditPending" /\ reserved[n]
          /\ t.waits + 1 <= kMaxPendingAttempts
          /\ Becomes(n, t, [t EXCEPT !.waits = @ + 1])
          /\ UNCHANGED <<line, audits, stored, net>>
       \/ /\ line[n].state = "AuditPending" /\ ~reserved[n] /\ t.resumes
          /\ nextAttemptAudit(n, t)
          /\ UNCHANGED <<line, audits, stored>>
       \/ /\ line[n].state = "AuditPending" /\ ~reserved[n] /\ ~t.resumes
          /\ initializeAudit(n, t, line[n])
          /\ UNCHANGED stored
    /\ UNCHANGED <<cache, pinged, receipt, reserved, payment, restarts>>

\* Mutant of ResponseTimeout: one attempt too many.
ResponseTimeoutTooLate(n, t) ==
    LET u == [t EXCEPT !.sent = @ + 1] IN
    /\ t.step = "response"
    /\ \/ /\ ~isAuditWasCancelled(n, t.number)
          /\ t.sent <= kMaxCountSendingAttempts
          /\ net' = net \cup {AuditMessage(n, u, line[n])}
          /\ Becomes(n, t, u)
          /\ UNCHANGED pinged
       \/ /\ isAuditWasCancelled(n, t.number) \/ t.sent > kMaxCountSendingAttempts
          /\ pinged' = [pinged EXCEPT ![n] = @ \/ ~isAuditWasCancelled(n, t.number)]
          /\ Stops(n, t)
          /\ UNCHANGED net
    /\ UNCHANGED <<line, cache, audits, stored, receipt, reserved, payment, restarts>>

\* No response within kWaitMillisecondsForResponse.
ResponseTimeout(n, t) ==
    LET u == [t EXCEPT !.sent = @ + 1] IN
    /\ t.step = "response"
    /\ \/ /\ isAuditWasCancelled(n, t.number)
          /\ Stops(n, t)
          /\ UNCHANGED <<pinged, net>>
       \/ /\ ~isAuditWasCancelled(n, t.number)
          /\ t.sent < kMaxCountSendingAttempts
          /\ net' = net \cup {AuditMessage(n, u, line[n])}
          /\ Becomes(n, t, u)
          /\ UNCHANGED pinged
       \/ /\ ~isAuditWasCancelled(n, t.number)
          /\ t.sent >= kMaxCountSendingAttempts
          /\ pinged' = [pinged EXCEPT ![n] = TRUE]
          /\ Stops(n, t)
          /\ UNCHANGED net
    /\ UNCHANGED <<line, cache, audits, stored, receipt, reserved, payment, restarts>>

\* The contractor has reservations: ask again after a while.
ContractorIsBusy(n, t) ==
    \/ /\ t.contractorWaits > kMaxPendingAttempts
       /\ Conflicts(n, t)
    \/ /\ t.contractorWaits <= kMaxPendingAttempts
       /\ Becomes(n, t, [t EXCEPT !.step = "contractorPending", !.sent = 0,
                                  !.contractorWaits = @ + 1])
       /\ UNCHANGED <<line, stored>>

Completed(l) == [l EXCEPT !.state = IF isTrustLineEmpty(l) THEN "Archived" ELSE "Active"]

\* Only AuditSource stores the state Active; all store Archived.
SavesContractorPart(n, t) ==
    LET i == CHOOSE j \in 1..Len(audits[n]) : audits[n][j].terms.number = t.number
        l == Completed(line[n])
    IN  /\ audits' = [audits EXCEPT ![n][i].full = TRUE]
        /\ line' = [line EXCEPT ![n] = l]
        /\ stored' = [stored EXCEPT ![n] = IF l.state = "Archived" \/ t.request.kind = "audit"
                                             THEN l.state ELSE @]
        /\ Stops(n, t)

\* runResponseProcessingStage: the response is checked against the line as it
\* is in memory now, whatever its state.
runResponseProcessingStage(n, t, m) ==
    /\ t.step = "response"
    /\ m.type = "response" /\ m.to = n /\ m.id = t.id
    /\ net' = net \ {m}
    /\ \/ /\ m.state = "ReservationsPresentOnTrustLine"
          /\ ContractorIsBusy(n, t)
          /\ UNCHANGED audits
       \/ /\ m.state \notin {"OK", "ReservationsPresentOnTrustLine"}
          /\ Conflicts(n, t)
          /\ UNCHANGED audits
       \/ /\ m.state = "OK" /\ m.signed # ContractorTerms(t.number, line[n])
          /\ Conflicts(n, t)
          /\ UNCHANGED audits
       \/ /\ m.state = "OK" /\ m.signed = ContractorTerms(t.number, line[n])
          /\ t.number \in Numbers(audits[n])
          /\ SavesContractorPart(n, t)
       \/ /\ m.state = "OK" /\ m.signed = ContractorTerms(t.number, line[n])
          /\ t.number \notin Numbers(audits[n])
          /\ IF t.request.kind = "audit"
               THEN Stops(n, t) /\ UNCHANGED <<line, stored>>
               ELSE Conflicts(n, t)
          /\ UNCHANGED audits
    /\ UNCHANGED <<cache, pinged, receipt, reserved, payment, restarts>>

runContractorPendingStage(n, t) ==
    /\ t.step = "contractorPending"
    /\ \/ /\ isAuditWasCancelled(n, t.number)
          /\ Stops(n, t)
          /\ UNCHANGED net
       \/ /\ ~isAuditWasCancelled(n, t.number)
          /\ net' = net \cup {AuditMessage(n, t, line[n])}
          /\ Becomes(n, t, [t EXCEPT !.step = "response"])
    /\ UNCHANGED <<line, cache, pinged, audits, stored, receipt, reserved, payment, restarts>>

\* PingMessagesHandler sends pings until a pong is processed, and the
\* contractor's Communicator answers each.
Ping(n) ==
    /\ pinged[n]
    /\ net' = net \cup {[type |-> "pong", to |-> n]}
    /\ UNCHANGED <<line, txs, cache, pinged, audits, stored, receipt, reserved, payment, restarts>>

\* PongReactionTransaction, and runNextAttemptStage of the audit it resumes
ResumedAudit == [kind |-> "audit", amount |-> 0]
ReceivePong(n) ==
    LET t == [Transaction(n, ResumedAudit, line[n].number)
                EXCEPT !.resumes = TRUE]
    IN  /\ [type |-> "pong", to |-> n] \in net
        /\ pinged' = [pinged EXCEPT ![n] = FALSE]
        /\ \/ /\ line[n].state # "AuditPending"
              /\ net' = net \ {[type |-> "pong", to |-> n]}
              /\ UNCHANGED txs
           \/ /\ line[n].state = "AuditPending" /\ FreshUUIDs(n) # {} /\ reserved[n]
              /\ net' = net \ {[type |-> "pong", to |-> n]}
              /\ Becomes(n, t, [t EXCEPT !.waits = 1])
           \/ /\ line[n].state = "AuditPending" /\ FreshUUIDs(n) # {} /\ ~reserved[n]
              /\ LET actual == Actual(audits[n])
                     u == [t EXCEPT !.step = "response", !.signed = actual.terms, !.sent = 1]
                 IN  IF actual.terms.number = t.number /\ ~actual.full
                       THEN /\ net' = (net \ {[type |-> "pong", to |-> n]})
                                        \cup {AuditMessage(n, u, line[n])}
                            /\ Becomes(n, t, u)
                       ELSE /\ net' = net \ {[type |-> "pong", to |-> n]}
                            /\ UNCHANGED txs
        /\ UNCHANGED <<line, cache, audits, stored, receipt, reserved, payment, restarts>>

-----------------------------------------------------------------------------
(* The contractor: AuditTargetTransaction *)

\* A simultaneous audit: the end with the smaller address gives up its own,
\* unless that one has signed nothing yet.
SuspendsOwn(n)  == line[n].state = "AuditPending" /\ Actual(audits[n]).full
CancelsOwn(n)   == line[n].state = "AuditPending" /\ ~Actual(audits[n]).full
WithoutLast(log) == SubSeq(log, 1, Len(log) - 1)

\* Mutant of AuditsAfterCancel: the own half stays in the database.
AuditsAfterCancelKept(n) == audits[n]
AuditsAfterCancel(n) == IF CancelsOwn(n) THEN WithoutLast(audits[n]) ELSE audits[n]

\* Mutant of LineAfterCancel: the line stays in its state.
LineAfterCancelUnused(n) ==
    IF CancelsOwn(n) THEN FromStorage(n, line[n], WithoutLast(audits[n])) ELSE line[n]
LineAfterCancel(n) ==
    IF CancelsOwn(n)
      THEN [FromStorage(n, line[n], WithoutLast(audits[n])) EXCEPT !.state = "Active"]
      ELSE IF SuspendsOwn(n) THEN [line[n] EXCEPT !.state = "Active"] ELSE line[n]

\* Mutant of Adopted: the contractor's limits are taken over unchanged.
AdoptedSwapped(l, m) == [l EXCEPT !.incoming = m.incoming, !.outgoing = m.outgoing]

\* setIncomingTrustLineAmount and closeOutgoingTrustLine
Adopted(l, m) ==
    [l EXCEPT !.incoming = m.outgoing, !.outgoing = IF m.incoming = 0 THEN 0 ELSE @]

Answer(n, m, state, terms) ==
    net' = (net \ {m}) \cup {AuditResponse(Other(n), m.id, state, terms)}

\* Mutant of Refusal: an audit already signed is not recognised.
RefusalOfRepeated(n, m, l) ==
    CASE l.state # "Active" -> "ErrorShouldBeRemovedFromQueue"
      [] l.state = "Active" /\ m.number # l.number + 1 -> "Audit_IncorrectNumber"
      [] l.state = "Active" /\ m.number = l.number + 1 /\ reserved[n]
           -> "ReservationsPresentOnTrustLine"
      [] OTHER -> "OK"

\* Why the contractor refuses: OK stands for no reason.
Refusal(n, m, l) ==
    CASE l.state # "Active" -> "ErrorShouldBeRemovedFromQueue"
      [] l.state = "Active" /\ m.number \notin {l.number, l.number + 1} -> "Audit_IncorrectNumber"
      [] l.state = "Active" /\ m.number \in {l.number, l.number + 1} /\ reserved[n]
           -> "ReservationsPresentOnTrustLine"
      [] OTHER -> "OK"

\* The audit is signed, or refused after the line took over its amounts.
SignsAudit(n, m, l, log) ==
    LET number  == l.number + 1
        adopted == Adopted(l, m)
        signed  == Completed([adopted EXCEPT !.number = number])
        own     == OwnTerms(number, adopted)
    IN  \/ /\ m.signed = ContractorTerms(number, adopted)
           /\ line' = [line EXCEPT ![n] = signed]
           /\ audits' = [audits EXCEPT ![n] = Append(log, [terms |-> own, full |-> TRUE])]
           /\ stored' = [stored EXCEPT ![n] = signed.state]
           /\ cache' = [cache EXCEPT ![n] = [id |-> m.id, signed |-> own]]
           /\ Answer(n, m, "OK", own)
        \/ /\ m.signed # ContractorTerms(number, adopted)
           /\ line' = [line EXCEPT ![n] = adopted]
           /\ audits' = [audits EXCEPT ![n] = log]
           /\ Answer(n, m, "ErrorShouldBeRemovedFromQueue", <<>>)
           /\ UNCHANGED <<stored, cache>>

AuditTarget(n, m) ==
    LET l   == LineAfterCancel(n)
        log == AuditsAfterCancel(n)
    IN  \/ /\ Refusal(n, m, l) # "OK"
           /\ line' = [line EXCEPT ![n] = l]
           /\ audits' = [audits EXCEPT ![n] = log]
           /\ Answer(n, m, Refusal(n, m, l), <<>>)
           /\ UNCHANGED <<stored, cache>>
        \/ /\ Refusal(n, m, l) = "OK" /\ m.number = l.number /\ Actual(log).full
           /\ line' = [line EXCEPT ![n] = l]
           /\ audits' = [audits EXCEPT ![n] = log]
           /\ cache' = [cache EXCEPT ![n] = [id |-> m.id, signed |-> Actual(log).terms]]
           /\ Answer(n, m, "OK", Actual(log).terms)
           /\ UNCHANGED stored
        \/ /\ Refusal(n, m, l) = "OK" /\ m.number = l.number /\ ~Actual(log).full
           /\ SignsAudit(n, m, l, WithoutLast(log))
        \/ /\ Refusal(n, m, l) = "OK" /\ m.number = l.number + 1
           /\ SignsAudit(n, m, l, log)

\* The Communicator answers a repeated message of one transaction from its
\* cache; the end with the greater address drops what crosses its own audit.
ReceiveAudit(n, m) ==
    /\ m.type = "audit" /\ m.to = n
    /\ \/ /\ cache[n].id = m.id
          /\ Answer(n, m, "OK", cache[n].signed)
          /\ UNCHANGED <<line, audits, stored, cache>>
       \/ /\ cache[n].id # m.id
          /\ line[n].state = "AuditPending" /\ n = Greater
          /\ net' = net \ {m}
          /\ UNCHANGED <<line, audits, stored, cache>>
       \/ /\ cache[n].id # m.id
          /\ ~(line[n].state = "AuditPending" /\ n = Greater)
          /\ AuditTarget(n, m)
    /\ UNCHANGED <<txs, pinged, receipt, reserved, payment, restarts>>

\* The cached answer outlives the attempts of its transaction, but for the one
\* more that an attempt after ReservationsPresentOnTrustLine has.
CacheExpires(n) ==
    /\ cache[n] # NoAnswer
    /\ \A t \in txs[Other(n)] :
          t.id = cache[n].id => t.contractorWaits > 0 /\ t.sent = kMaxCountSendingAttempts
    /\ cache' = [cache EXCEPT ![n] = NoAnswer]
    /\ UNCHANGED <<line, txs, pinged, audits, stored, receipt, reserved, payment, net, restarts>>

\* tryAttachMessageToTransaction finds no transaction that waits for it.
Discard(n, m) ==
    /\ m.type = "response" /\ m.to = n
    /\ \A t \in txs[n] : t.step = "response" => t.id # m.id
    /\ net' = net \ {m}
    /\ UNCHANGED <<line, txs, cache, pinged, audits, stored, receipt, reserved, payment, restarts>>

Lose(m) ==
    /\ net' = net \ {m}
    /\ UNCHANGED <<line, txs, cache, pinged, audits, stored, receipt, reserved, payment, restarts>>

-----------------------------------------------------------------------------
(* A payment of one unit over the line, from its reservations to its end *)

\* Mutant of CanReserve: the state of the line is not looked at.
CanReserveInAnyState(n) == IF n = Payer THEN line[n].incoming + line[n].balance >= 1
                                        ELSE line[n].outgoing - line[n].balance >= 1
CanReserve(n) ==
    /\ line[n].state = "Active"
    /\ IF n = Payer THEN line[n].incoming + line[n].balance >= 1
                    ELSE line[n].outgoing - line[n].balance >= 1

PayerReserves ==
    /\ Payments = 1 /\ payment = "none"
    /\ CanReserve(Payer)
    /\ payment' = "reserving"
    /\ reserved' = [reserved EXCEPT ![Payer] = TRUE]
    /\ UNCHANGED <<line, txs, cache, pinged, audits, stored, receipt, net, restarts>>

PayeeReserves ==
    LET n == Other(Payer) IN
    /\ payment = "reserving"
    /\ payment' = IF CanReserve(n) THEN "reserved" ELSE "cancelled"
    /\ reserved' = [reserved EXCEPT ![n] = CanReserve(n)]
    /\ UNCHANGED <<line, txs, cache, pinged, audits, stored, receipt, net, restarts>>

Decide ==
    /\ payment = "reserved"
    /\ payment' \in {"voted", "cancelled"}
    /\ UNCHANGED <<line, txs, cache, pinged, audits, stored, receipt, reserved, net, restarts>>

\* commit or rollBack of this end: useReservation or dropAmountReservation.  The
\* receipt has the number the audit had when the node signed it.
Finish(n) ==
    /\ reserved[n] /\ payment \in {"voted", "cancelled"}
    /\ reserved' = [reserved EXCEPT ![n] = FALSE]
    /\ IF payment = "voted"
         THEN /\ line' = [line EXCEPT ![n].balance = @ + Moved(n)]
              /\ receipt' = [receipt EXCEPT ![n] = line[n].number]
         ELSE UNCHANGED <<line, receipt>>
    /\ UNCHANGED <<txs, cache, pinged, audits, stored, payment, net, restarts>>

-----------------------------------------------------------------------------
\* TrustLinesManager::loadTrustLinesFromStorage.  The balance of a line whose
\* last audit is pending is left at zero.
Loaded(n) ==
    LET l == FromStorage(n, [line[n] EXCEPT !.state = stored[n]], audits[n]) IN
    IF Actual(audits[n]).full THEN l ELSE [l EXCEPT !.state = "AuditPending", !.balance = 0]

\* A payment that has not come to the vote is forgotten; a voted one reserves
\* again, for which the line has to be Active.
Restart(n) ==
    LET keeps == reserved[n] /\ payment \in {"reserved", "voted"} IN
    /\ restarts < MaxRestarts
    /\ restarts' = restarts + 1
    /\ keeps => Loaded(n).state = "Active"
    /\ line' = [line EXCEPT ![n] = Loaded(n)]
    /\ txs' = [txs EXCEPT ![n] = {}]
    /\ cache' = [cache EXCEPT ![n] = NoAnswer]
    /\ pinged' = [pinged EXCEPT ![n] = ~Actual(audits[n]).full]
    /\ reserved' = [reserved EXCEPT ![n] = keeps]
    /\ payment' = IF payment = "reserving" /\ reserved[n] THEN "cancelled" ELSE payment
    /\ UNCHANGED <<audits, stored, receipt, net>>

-----------------------------------------------------------------------------
Next ==
    \/ \E n \in Nodes :
          \/ \E q \in Requests : runInitializationStage(n, q)
          \/ \E t \in txs[n] :
                \/ runAuditPendingStage(n, t)
                \/ ResponseTimeout(n, t)
                \/ runContractorPendingStage(n, t)
                \/ \E m \in net : runResponseProcessingStage(n, t, m)
          \/ Ping(n) \/ ReceivePong(n)
          \/ \E m \in net : ReceiveAudit(n, m) \/ Discard(n, m)
          \/ CacheExpires(n) \/ Finish(n) \/ Restart(n)
    \/ \E m \in net : Lose(m)
    \/ PayerReserves \/ PayeeReserves \/ Decide

Spec == Init /\ [][Next]_vars

\* Timers fire and payments end; a message that is sent again and again gets
\* through at last while its sender still waits for the answer.
Awaited(n, m) == \E t \in txs[Other(n)] : t.step = "response" /\ t.id = m.id

Fairness ==
    /\ \A n \in Nodes :
          /\ WF_vars(\E t \in txs[n] : \/ runAuditPendingStage(n, t)
                                       \/ ResponseTimeout(n, t)
                                       \/ runContractorPendingStage(n, t))
          /\ WF_vars(Ping(n)) /\ WF_vars(CacheExpires(n)) /\ WF_vars(Finish(n))
          /\ WF_vars(\E m \in net : Discard(n, m))
          /\ SF_vars(ReceivePong(n))
          /\ SF_vars(\E m \in net : ReceiveAudit(n, m) /\ Awaited(n, m))
          /\ WF_vars(\E m \in net : ReceiveAudit(n, m))
          /\ SF_vars(\E t \in txs[n], m \in net : runResponseProcessingStage(n, t, m))
    /\ WF_vars(PayeeReserves \/ Decide)

FairSpec == Spec /\ Fairness

-----------------------------------------------------------------------------
AllTerms == [number : 1..MaxAuditNumber, outgoing : TrustAmounts, incoming : TrustAmounts,
             balance : {-1, 0, 1}]
NoTerms == {<<>>}
FullAudits(n) == IF Actual(audits[n]).full THEN audits[n] ELSE WithoutLast(audits[n])

\* The audits of an end have ascending numbers, and only the last may lack the
\* contractor's signature.
AuditsOK(log) ==
    /\ log \in Seq([terms : AllTerms, full : BOOLEAN]) /\ log # <<>>
    /\ \A i \in 1..Len(log) - 1 :
          log[i].full /\ log[i + 1].terms.number = log[i].terms.number + 1

TypeOK ==
    /\ line \in [Nodes -> [state : States, number : 1..MaxAuditNumber, outgoing : TrustAmounts,
                           incoming : TrustAmounts, balance : {-1, 0, 1}]]
    /\ \A n \in Nodes :
          /\ AuditsOK(audits[n])
          /\ \A t \in txs[n] :
                /\ t.id \in TransactionUUIDs[n] /\ t.request \in Requests \cup {ResumedAudit}
                /\ t.step \in {"pending", "response", "contractorPending"}
                /\ t.number \in 1..MaxAuditNumber /\ t.signed \in AllTerms \cup NoTerms
                /\ t.sent \in 0..kMaxCountSendingAttempts
                /\ t.waits \in 0..kMaxPendingAttempts
                /\ t.contractorWaits \in 0..kMaxPendingAttempts + 1
          /\ \A t, u \in txs[n] : t.id = u.id => t = u
          /\ cache[n].id \in TransactionUUIDs[Other(n)] \cup {"none"}
          /\ cache[n].signed \in AllTerms \cup NoTerms
    /\ pinged \in [Nodes -> BOOLEAN] /\ reserved \in [Nodes -> BOOLEAN]
    /\ stored \in [Nodes -> States] /\ receipt \in [Nodes -> 0..MaxAuditNumber]
    /\ payment \in {"none", "reserving", "reserved", "voted", "cancelled"}
    /\ restarts \in 0..MaxRestarts

\* While only one end asks for audits, and leaves limits that keep the line in
\* use, and no payment crosses them, no loss, repetition, delay or restart brings it into conflict.
NoConflict == \A n \in Nodes : line[n].state # "ConflictResolving"

\* An end is never left waiting for an audit that nobody works on: its line is
\* AuditPending only with an audit to be completed, in its database or in a
\* transaction that has yet to start it, or after it was asked for what the line
\* refuses: to close a side that is closed already, which leaves it so.
PendingIsOpen ==
    \A n \in Nodes : line[n].state = "AuditPending" =>
        \/ ~Actual(audits[n]).full
        \/ \E t \in txs[n] : t.step = "pending"
        \/ \E q \in Requests : Refused(q, line[n])

\* Two ends that use the line, and are not about to move its balance, agree on
\* the balance, whatever audits and payments crossed.
ActiveEndsAgree ==
    (\A n \in Nodes : line[n].state = "Active" /\ ~reserved[n]) =>
        \A n \in Nodes : line[n].balance = -line[Other(n)].balance

\* An end uses the line with the limits of its last audit only.
LimitsAreAudited ==
    \A n \in Nodes : line[n].state = "Active" =>
        LET actual == Actual(FullAudits(n)).terms IN
        line[n].outgoing = actual.outgoing /\ line[n].incoming = actual.incoming

\* The balance an end uses is the current one: what its payment moved, if that
\* was carried out (the comment on TrustLinesManager::balance).
BalanceIsCurrent ==
    \A n \in Nodes : line[n].state = "Active" =>
        line[n].balance = IF receipt[n] = 0 THEN 0 ELSE Moved(n)

\* An audit as the end with the greater address signs it.
GreaterTerms(n, t) ==
    IF n = Greater THEN t
    ELSE [number |-> t.number, outgoing |-> t.incoming, incoming |-> t.outgoing,
          balance |-> -t.balance]
Agreed(n) == [i \in 1..Len(FullAudits(n)) |-> GreaterTerms(n, audits[n][i].terms)]
Longer == CHOOSE n \in Nodes : Len(FullAudits(Other(n))) <= Len(FullAudits(n))

\* The audits with both signatures, numbered alike at the two ends, implement
\* the agreed sequence: an audit that one end holds with both signatures is
\* what the other signs or learns next, and is never dropped or replaced.
Abstract == INSTANCE AgreedAudits WITH
    Ends <- Nodes, Terms <- AllTerms,
    agreed <- Agreed(Longer), known <- [n \in Nodes |-> Len(FullAudits(n))]

ImplementsAgreedAudits == Abstract!Spec

\* An audit that was started is answered: the line comes out of AuditPending
\* however often messages get lost on the way.
PendingIsResolved ==
    \A n \in Nodes : line[n].state = "AuditPending" ~> line[n].state # "AuditPending"
=============================================================================
