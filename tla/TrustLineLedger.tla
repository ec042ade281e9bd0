-------------------------- MODULE TrustLineLedger --------------------------
(***************************************************************************)
(* One trust line of one node: the limits and the balance kept in memory by *)
(* TrustLinesManager, the reservations that payments hold on it, the audits *)
(* and payment receipts in the node's database, and the restart that builds *)
(* the former from the latter.                                              *)
(*                                                                          *)
(* A node runs one event loop, so a handler is atomic; a crash may fall     *)
(* between two handlers, and between the two database transactions of the   *)
(* coordinator's last handler (the step CoordinatorSigns is the first one). *)
(* Trust lines of one node meet only inside atomic handlers, and one is     *)
(* enough to tell the properties apart.  All the reservations a payment     *)
(* holds on the line have one direction and are kept as their total.        *)
(***************************************************************************)
EXTENDS Sums

CONSTANTS
    NPayments,            \* the payments that cross the line are 1..NPayments
    OutgoingPayments,     \* those that leave through it; the others come in
    CoordinatedPayments,  \* those this node coordinates
    TrustAmounts,         \* limits a side may set
    PaymentAmounts,       \* amounts one reservation request may ask for
    MaxPendingAttempts,   \* kMaxPendingAttempts
    YieldsToContractor,   \* own address < contractor's: the tie-break of audits
    ContractorAudits      \* what the contractor's audit messages may be

Payments == 1..NPayments
IncomingPayments == Payments \ OutgoingPayments

ASSUME LedgerAssumption ==
    /\ NPayments \in Nat \ {0}
    /\ OutgoingPayments \subseteq Payments
    /\ CoordinatedPayments \subseteq OutgoingPayments
    /\ TrustAmounts \subseteq Nat
    /\ PaymentAmounts \subseteq Nat \ {0}
    /\ MaxPendingAttempts \in Nat \ {0}
    /\ YieldsToContractor \in BOOLEAN
    /\ ContractorAudits \subseteq {"wrongNumber", "badSignature", "good"}

VARIABLES
    \* memory: TrustLinesManager, AmountReservationsHandler, the transactions
    state, incoming, outgoing, balance,
    reserved, phase, auditTx,
    \* database: trust_lines.state, audits, receipts, serialized transactions,
    \* payment_transactions
    storedState, fullAudit, pendingAudit, receipt, record, paid,
    \* the process stopped with exit(1)
    halted,
    \* ghost: what each payment has moved over the line, for the properties only
    settled

memory  == <<state, incoming, outgoing, balance>>
storage == <<storedState, fullAudit, pendingAudit, receipt, record, paid>>
vars    == <<memory, reserved, phase, auditTx, storage, halted, settled>>

-----------------------------------------------------------------------------
States == {"Active", "AuditPending", "ConflictResolving", "Archived"}
Phases == {"idle", "reserving", "receipted", "voted", "signed", "committed", "rejected"}

Nothing    == [t \in Payments |-> 0]
NoAudit    == [incoming |-> 0, outgoing |-> 0, balance |-> 0, present |-> FALSE]
Audit(i, o, b) == [incoming |-> i, outgoing |-> o, balance |-> b, present |-> TRUE]
Audits     == [incoming : Nat, outgoing : Nat, balance : Int, present : BOOLEAN]

\* The requests an audit transaction carries out: SetOutgoing, CloseIncoming,
\* and the plain audit of AuditSource.
Requests == [kind : {"set"}, amount : TrustAmounts]
              \cup [kind : {"close", "audit"}, amount : {0}]
NoRequest == [kind |-> "none", amount |-> 0]

Idle == [step |-> "none", request |-> NoRequest, attempts |-> 0]
AuditTxs == [step : {"none", "waiting", "sent"},
             request : Requests \cup {NoRequest}, attempts : 0..MaxPendingAttempts]

OutTotal(f) == SumOver(OutgoingPayments, f, NPayments)
InTotal(f)  == SumOver(IncomingPayments, f, NPayments)

\* Mutant of AvailableOutgoing: the balance with the wrong sign.
AvailableOutgoingWrongSign(i, b) == IF b < 0 /\ -b > i THEN 0 ELSE i - b

\* TrustLine::availableOutgoingAmount and availableIncomingAmount
AvailableOutgoing(i, b) == IF b < 0 /\ -b > i THEN 0 ELSE i + b
AvailableIncoming(o, b) == IF b > 0 /\ b > o THEN 0 ELSE o - b

\* Mutant of CanReserve: the reservations are not considered.
CanReserveAlone(t, a) ==
    IF t \in OutgoingPayments
      THEN a <= AvailableOutgoing(incoming, balance)
      ELSE a <= AvailableIncoming(outgoing, balance)

\* ...ConsideringReservations of TrustLinesManager, in the state Active
CanReserve(t, a) ==
    IF t \in OutgoingPayments
      THEN OutTotal(reserved) + a <= AvailableOutgoing(incoming, balance)
      ELSE InTotal(reserved) + a <= AvailableIncoming(outgoing, balance)

ReservationsPresent == \E t \in Payments : reserved[t] > 0

WithinLimits(b) == (b < 0 => -b <= incoming) /\ (b > 0 => b <= outgoing)

\* TrustLine::pay and acceptPayment: the balance after, and when they throw
\* OverflowError.
BalanceAfter(t) == IF t \in OutgoingPayments THEN balance - reserved[t]
                                             ELSE balance + reserved[t]
UseSucceeds(t) ==
    \/ /\ t \in OutgoingPayments
       /\ balance > 0 /\ BalanceAfter(t) > 0
    \/ /\ t \in IncomingPayments
       /\ balance < 0 /\ BalanceAfter(t) < 0
    \/ WithinLimits(BalanceAfter(t))

\* TrustLineKeychain::...CommittedReceiptsAmountsSum under the last full audit
Committed(rec) == [t \in Payments |->
                     IF rec[t] = 0 /\ t \in paid THEN receipt[t] ELSE 0]
StoredBalance == fullAudit.balance + InTotal(Committed(record)) - OutTotal(Committed(record))

-----------------------------------------------------------------------------
Init ==
    \E i \in TrustAmounts, o \in TrustAmounts :
        /\ i + o > 0
        /\ state = "Active" /\ incoming = i /\ outgoing = o /\ balance = 0
        /\ reserved = Nothing
        /\ phase = [t \in Payments |-> "idle"]
        /\ auditTx = Idle
        /\ storedState = "Active"
        /\ fullAudit = Audit(i, o, 0)
        /\ pendingAudit = NoAudit
        /\ receipt = Nothing /\ record = Nothing /\ paid = {}
        /\ halted = FALSE
        /\ settled = Nothing

-----------------------------------------------------------------------------
(* Payments *)

\* A path of payment t asks for amount a: reserveOutgoingAmount and
\* reserveIncomingAmount add one more reservation of the transaction.
Reserve(t, a) ==
    /\ phase[t] \in {"idle", "reserving"}
    /\ state = "Active"
    /\ CanReserve(t, a)
    /\ reserved' = [reserved EXCEPT ![t] = @ + a]
    /\ phase' = [phase EXCEPT ![t] = "reserving"]
    /\ UNCHANGED <<memory, auditTx, storage, settled>>

\* The final configuration shortens the reservation of a path, or drops the path.
Shorten(t, a) ==
    /\ phase[t] = "reserving"
    /\ a < reserved[t]
    /\ reserved' = [reserved EXCEPT ![t] = a]
    /\ UNCHANGED <<memory, phase, auditTx, storage, settled>>

\* The receipts of the payment are saved under the current audit number.
SaveReceipt(t) ==
    /\ phase[t] = "reserving"
    /\ reserved[t] > 0
    /\ receipt' = [receipt EXCEPT ![t] = reserved[t]]
    /\ phase' = [phase EXCEPT ![t] = "receipted"]
    /\ UNCHANGED <<memory, reserved, auditTx, storedState, fullAudit, pendingAudit,
                   record, paid, settled>>

\* The payment is given up before this node voted: reject, after
\* removeAllDataFromStorageConcerningTransaction or, on some timeouts, without it.
RejectBeforeVote(t, cleansStorage) ==
    /\ phase[t] \in {"reserving", "receipted"}
    /\ reserved' = [reserved EXCEPT ![t] = 0]
    /\ receipt' = IF cleansStorage THEN [receipt EXCEPT ![t] = 0] ELSE receipt
    /\ phase' = [phase EXCEPT ![t] = "rejected"]
    /\ UNCHANGED <<memory, auditTx, storedState, fullAudit, pendingAudit, record, paid, settled>>

\* runVotesCheckingStage: a participant serializes its reservations, signs and
\* records the payment, in one database transaction.
Vote(t) ==
    /\ t \notin CoordinatedPayments
    /\ phase[t] = "receipted"
    /\ record' = [record EXCEPT ![t] = reserved[t]]
    /\ paid' = paid \cup {t}
    /\ phase' = [phase EXCEPT ![t] = "voted"]
    /\ UNCHANGED <<memory, reserved, auditTx, storedState, fullAudit, pendingAudit,
                   receipt, settled>>

\* The coordinator has every vote, signs, and records the payment in a database
\* transaction of its own, before approve; it never serializes itself.
CoordinatorSigns(t) ==
    /\ t \in CoordinatedPayments
    /\ phase[t] = "receipted"
    /\ paid' = paid \cup {t}
    /\ phase' = [phase EXCEPT ![t] = "signed"]
    /\ UNCHANGED <<memory, reserved, auditTx, storedState, fullAudit, pendingAudit,
                   receipt, record, settled>>

\* Mutant of Commit: the serialized transaction is not deleted.
CommitKeepsRecord(t) ==
    /\ phase[t] \in {"voted", "signed"}
    /\ UseSucceeds(t)
    /\ balance' = BalanceAfter(t)
    /\ settled' = [settled EXCEPT ![t] = reserved[t]]
    /\ reserved' = [reserved EXCEPT ![t] = 0]
    /\ phase' = [phase EXCEPT ![t] = "committed"]
    /\ UNCHANGED <<state, incoming, outgoing, auditTx, storedState, fullAudit,
                   pendingAudit, receipt, record, paid>>

\* approve and commit: useReservation and dropAmountReservation for each
\* reservation, then deleteRecord of the serialized transaction.
Commit(t) ==
    /\ phase[t] \in {"voted", "signed"}
    /\ UseSucceeds(t)
    /\ balance' = BalanceAfter(t)
    /\ settled' = [settled EXCEPT ![t] = reserved[t]]
    /\ reserved' = [reserved EXCEPT ![t] = 0]
    /\ record' = [record EXCEPT ![t] = 0]
    /\ phase' = [phase EXCEPT ![t] = "committed"]
    /\ UNCHANGED <<state, incoming, outgoing, auditTx, storedState, fullAudit,
                   pendingAudit, receipt, paid>>

\* Mutant of RejectAfterVote: the receipts stay.
RejectAfterVoteKeepsReceipt(t) ==
    /\ phase[t] = "voted"
    /\ reserved' = [reserved EXCEPT ![t] = 0]
    /\ record' = [record EXCEPT ![t] = 0]
    /\ phase' = [phase EXCEPT ![t] = "rejected"]
    /\ UNCHANGED <<memory, auditTx, storedState, fullAudit, pendingAudit, receipt, paid, settled>>

\* Recovery or the observers say that the payment did not happen.
RejectAfterVote(t) ==
    /\ phase[t] = "voted"
    /\ reserved' = [reserved EXCEPT ![t] = 0]
    /\ receipt' = [receipt EXCEPT ![t] = 0]
    /\ record' = [record EXCEPT ![t] = 0]
    /\ phase' = [phase EXCEPT ![t] = "rejected"]
    /\ UNCHANGED <<memory, auditTx, storedState, fullAudit, pendingAudit, paid, settled>>

\* A payment under way, for everything but the coordinator's own last handler,
\* which the event loop does not interrupt.
PaymentStep ==
    \E t \in Payments :
        \/ \E a \in PaymentAmounts : Reserve(t, a)
        \/ \E a \in PaymentAmounts \cup {0} : Shorten(t, a)
        \/ SaveReceipt(t)
        \/ \E cleansStorage \in BOOLEAN : RejectBeforeVote(t, cleansStorage)
        \/ Vote(t)
        \/ CoordinatorSigns(t)
        \/ phase[t] = "voted" /\ Commit(t)
        \/ RejectAfterVote(t)

FinishCoordinator == \E t \in Payments : phase[t] = "signed" /\ Commit(t)

-----------------------------------------------------------------------------
(* Audits this node starts *)

\* Mutant of InitializeAudit: the own half of the audit is not saved.
InitializeAuditUnsaved(r) ==
    /\ state' = "AuditPending"
    /\ incoming' = IF r.kind = "close" THEN 0 ELSE incoming
    /\ outgoing' = IF r.kind = "set" THEN r.amount ELSE outgoing
    /\ auditTx' = [step |-> "sent", request |-> r, attempts |-> 0]
    /\ UNCHANGED pendingAudit

\* initializeAudit: the requested limits go to memory, the own half of the new
\* audit to the database.  A request that changes nothing throws ValueError:
\* SetOutgoing puts back the state it found, CloseIncoming leaves it.
InitializeAudit(r) ==
    IF \/ r.kind = "set" /\ r.amount = 0 /\ outgoing = 0
       \/ r.kind = "close" /\ incoming = 0
      THEN /\ state' = IF r.kind = "set" THEN state ELSE "AuditPending"
           /\ auditTx' = Idle
           /\ UNCHANGED <<incoming, outgoing, pendingAudit>>
      ELSE /\ state' = "AuditPending"
           /\ incoming' = IF r.kind = "close" THEN 0 ELSE incoming
           /\ outgoing' = IF r.kind = "set" THEN r.amount ELSE outgoing
           /\ pendingAudit' = Audit(incoming', outgoing', balance)
           /\ auditTx' = [step |-> "sent", request |-> r, attempts |-> 0]

\* Mutant of StartAudit: reservations do not make it wait.
StartAuditAtOnce(r) ==
    /\ auditTx = Idle
    /\ state = "Active"
    /\ InitializeAudit(r)
    /\ UNCHANGED <<balance, reserved, phase, storedState, fullAudit, receipt, record, paid, settled>>

\* runInitializationStage of the three transactions
StartAudit(r) ==
    /\ auditTx = Idle
    /\ state = "Active"
    /\ IF ReservationsPresent
         THEN /\ state' = "AuditPending"
              /\ auditTx' = [step |-> "waiting", request |-> r, attempts |-> 1]
              /\ UNCHANGED <<incoming, outgoing, pendingAudit>>
         ELSE InitializeAudit(r)
    /\ UNCHANGED <<balance, reserved, phase, storedState, fullAudit, receipt, record, paid, settled>>

\* Mutant of ContinueWaitingAudit: one attempt too many.
ContinueWaitingAuditTooLong ==
    /\ auditTx.step = "waiting"
    /\ IF state = "AuditPending" /\ ReservationsPresent /\ auditTx.attempts <= MaxPendingAttempts
         THEN /\ auditTx' = [auditTx EXCEPT !.attempts = @ + 1]
              /\ UNCHANGED state
         ELSE auditTx' = Idle /\ state' = "ConflictResolving"
    /\ UNCHANGED <<incoming, outgoing, balance, reserved, phase, storedState, fullAudit,
                   pendingAudit, receipt, record, paid, settled>>

\* runAuditPendingStage: every kPendingPeriod the transaction looks again, until
\* the reservations are gone or the attempts are spent.
ContinueWaitingAudit ==
    /\ auditTx.step = "waiting"
    /\ IF state # "AuditPending"
         THEN /\ auditTx' = Idle
              /\ UNCHANGED <<state, incoming, outgoing, pendingAudit, storedState>>
         ELSE IF ReservationsPresent
           THEN /\ UNCHANGED <<incoming, outgoing, pendingAudit>>
                /\ IF auditTx.attempts + 1 > MaxPendingAttempts
                     THEN /\ state' = "ConflictResolving"
                          /\ storedState' = "ConflictResolving"
                          /\ auditTx' = Idle
                     ELSE /\ auditTx' = [auditTx EXCEPT !.attempts = @ + 1]
                          /\ UNCHANGED <<state, storedState>>
           ELSE InitializeAudit(auditTx.request) /\ UNCHANGED storedState
    /\ UNCHANGED <<balance, reserved, phase, fullAudit, receipt, record, paid, settled>>

\* Mutant of AuditAccepted: the receipts stay with the new audit.
AuditAcceptedKeepsReceipts ==
    /\ auditTx.step = "sent"
    /\ pendingAudit = Audit(incoming, outgoing, balance)
    /\ auditTx' = Idle
    /\ fullAudit' = pendingAudit
    /\ pendingAudit' = NoAudit
    /\ state' = "Active"
    /\ UNCHANGED <<incoming, outgoing, balance, reserved, phase, storedState, receipt,
                   record, paid, settled>>

\* The contractor signed.  Its signature covers the limits and the balance of
\* the audit; it is checked against those in memory now.  The receipts that
\* follow belong to the new audit.
AuditAccepted ==
    /\ auditTx.step = "sent"
    /\ pendingAudit.present
    /\ auditTx' = Idle
    /\ IF pendingAudit = Audit(incoming, outgoing, balance)
         THEN /\ fullAudit' = pendingAudit
              /\ pendingAudit' = NoAudit
              /\ receipt' = Nothing
              /\ state' = IF incoming = 0 /\ outgoing = 0 /\ balance = 0
                            THEN "Archived" ELSE "Active"
              /\ storedState' = IF state' = "Archived" \/ auditTx.request.kind = "audit"
                                  THEN state' ELSE storedState
         ELSE /\ state' = "ConflictResolving"
              /\ storedState' = "ConflictResolving"
              /\ UNCHANGED <<fullAudit, pendingAudit, receipt>>
    /\ UNCHANGED <<incoming, outgoing, balance, reserved, phase, record, paid, settled>>

\* The contractor answered with an error, or had reservations for too long.
AuditRefused ==
    /\ auditTx.step = "sent"
    /\ pendingAudit.present
    /\ auditTx' = Idle
    /\ state' = "ConflictResolving"
    /\ storedState' = "ConflictResolving"
    /\ UNCHANGED <<incoming, outgoing, balance, reserved, phase, fullAudit, pendingAudit,
                   receipt, record, paid, settled>>

\* No answer to the last of the messages, or the audit was cancelled meanwhile.
AuditUnanswered ==
    /\ auditTx.step = "sent"
    /\ auditTx' = Idle
    /\ UNCHANGED <<memory, reserved, phase, storage, settled>>

\* AuditSource's runNextAttemptStage and nextAttemptAudit, started when the
\* contractor answers a ping: the pending audit is sent again with its signature.
NextAuditAttempt ==
    /\ auditTx = Idle
    /\ state = "AuditPending"
    /\ ~ReservationsPresent
    /\ pendingAudit.present
    /\ auditTx' = [step |-> "sent", request |-> [kind |-> "audit", amount |-> 0], attempts |-> 0]
    /\ UNCHANGED <<memory, reserved, phase, storage, settled>>

-----------------------------------------------------------------------------
(* Audits the contractor starts: AuditTargetTransaction::run *)

\* The lower address gives way: it deletes its half of the pending audit and
\* reads the line from the database again (updateTrustLineFromStorage).
Yielded == [incoming |-> IF pendingAudit.present THEN fullAudit.incoming ELSE incoming,
            outgoing |-> IF pendingAudit.present THEN fullAudit.outgoing ELSE outgoing,
            balance  |-> IF pendingAudit.present THEN StoredBalance ELSE balance]

\* Mutant of AuditTarget: the target does not look at its reservations.
AuditTargetAtOnce(audit, i, close) ==
    /\ state = "Active"
    /\ audit # "wrongNumber"
    /\ incoming' = i
    /\ outgoing' = IF close THEN 0 ELSE outgoing
    /\ pendingAudit' = NoAudit
    /\ fullAudit' = IF audit = "good" THEN Audit(incoming', outgoing', balance) ELSE fullAudit
    /\ receipt' = IF audit = "good" THEN Nothing ELSE receipt
    /\ UNCHANGED <<state, balance, storedState, reserved, phase, auditTx, record, paid, settled>>

\* The contractor audits the line with a new incoming limit i, or closes the
\* outgoing one (close).  Limits change in memory before the signature is
\* checked, and a bad signature does not put them back.
AuditTarget(audit, i, close) ==
    LET line == IF state = "AuditPending" THEN Yielded
                ELSE [incoming |-> incoming, outgoing |-> outgoing, balance |-> balance]
        handled == audit # "wrongNumber" /\ ~ReservationsPresent
        empty == incoming' = 0 /\ outgoing' = 0 /\ balance' = 0
    IN  /\ \/ state = "Active"
           \/ state = "AuditPending" /\ YieldsToContractor
        /\ balance' = line.balance
        /\ incoming' = IF handled THEN i ELSE line.incoming
        /\ outgoing' = IF handled /\ close THEN 0 ELSE line.outgoing
        /\ pendingAudit' = NoAudit
        /\ IF handled /\ audit = "good"
             THEN /\ fullAudit' = Audit(incoming', outgoing', balance')
                  /\ receipt' = Nothing
                  /\ state' = IF empty THEN "Archived" ELSE "Active"
                  /\ storedState' = state'
             ELSE /\ state' = "Active"
                  /\ UNCHANGED <<fullAudit, receipt, storedState>>
        /\ UNCHANGED <<reserved, phase, auditTx, record, paid, settled>>

-----------------------------------------------------------------------------
(* Crash and restart *)

\* loadTrustLinesFromStorage, then loadTransactionsFromStorage, whose constructor
\* reserves again what was serialized and stops the process when it cannot.
RestoredState == IF pendingAudit.present THEN "AuditPending" ELSE storedState

RestoreSucceeds ==
    \/ record = Nothing
    \/ /\ RestoredState = "Active"
       /\ OutTotal(record) <= AvailableOutgoing(fullAudit.incoming, StoredBalance)
       /\ InTotal(record) <= AvailableIncoming(fullAudit.outgoing, StoredBalance)

\* A coordinator is not serialized: one that had signed has left its receipt and
\* its payment record, and the restart counts them.
PhaseAfterRestart(t) ==
    CASE phase[t] = "signed" -> "committed"
      [] phase[t] \in {"reserving", "receipted"} -> "rejected"
      [] OTHER -> phase[t]

CrashAndRestart ==
    /\ state' = RestoredState
    /\ incoming' = IF pendingAudit.present THEN pendingAudit.incoming ELSE fullAudit.incoming
    /\ outgoing' = IF pendingAudit.present THEN pendingAudit.outgoing ELSE fullAudit.outgoing
    /\ balance' = IF pendingAudit.present THEN 0 ELSE StoredBalance
    /\ auditTx' = Idle
    /\ halted' = ~RestoreSucceeds
    /\ reserved' = IF halted' THEN Nothing ELSE record
    /\ phase' = [t \in Payments |-> PhaseAfterRestart(t)]
    /\ settled' = [t \in Payments |-> IF phase[t] = "signed" THEN receipt[t] ELSE settled[t]]
    /\ UNCHANGED storage

-----------------------------------------------------------------------------
AuditStep ==
    \/ \E r \in Requests : StartAudit(r)
    \/ ContinueWaitingAudit
    \/ AuditAccepted
    \/ AuditRefused
    \/ AuditUnanswered
    \/ NextAuditAttempt
    \/ \E audit \in ContractorAudits, i \in TrustAmounts, close \in BOOLEAN :
          AuditTarget(audit, i, close)

InsideCoordinator == \E t \in Payments : phase[t] = "signed"

Next ==
    /\ ~halted
    /\ \/ /\ \/ ~InsideCoordinator /\ (PaymentStep \/ AuditStep)
             \/ FinishCoordinator
          /\ halted' = FALSE
       \/ CrashAndRestart

Spec == Init /\ [][Next]_vars

-----------------------------------------------------------------------------
(* Properties *)

\* Every variable stays in its range.
TypeOK ==
    /\ state \in States /\ storedState \in States
    /\ incoming \in Nat /\ outgoing \in Nat /\ balance \in Int
    /\ reserved \in [Payments -> Nat]
    /\ phase \in [Payments -> Phases]
    /\ auditTx \in AuditTxs
    /\ fullAudit \in Audits /\ pendingAudit \in Audits
    /\ receipt \in [Payments -> Nat] /\ record \in [Payments -> Nat]
    /\ paid \subseteq Payments
    /\ halted \in BOOLEAN
    /\ settled \in [Payments -> Nat]

\* Concurrent payments never hold more than the line can carry: what is reserved
\* in a direction stays within what TrustLine::available... says, whatever
\* commits, audits and restarts come between a reservation and its use.
ReservedWithinLimits ==
    /\ OutTotal(reserved) <= AvailableOutgoing(incoming, balance)
    /\ InTotal(reserved) <= AvailableIncoming(outgoing, balance)

\* A payment this node has voted for can be carried out: pay and acceptPayment
\* do not throw OverflowError in commit, which nothing would undo.
CommitNeverOverflows ==
    \A t \in Payments : phase[t] \in {"voted", "signed"} /\ ~halted => UseSucceeds(t)

\* No money appears or is lost: while the line is usable its balance is the sum
\* of what the payments moved, across audits (which drop the receipts), crashes
\* between vote and commit, and audits cancelled by the contractor's.
BalanceIsHistory ==
    state = "Active" => balance = InTotal(settled) - OutTotal(settled)

\* The balance kept in memory while the line is usable is the one a restart
\* would compute from the audit, the receipts and the serialized transactions;
\* a coordinator that has signed and not committed is the exception.
MemoryMatchesStorage ==
    state = "Active" /\ ~InsideCoordinator => balance = StoredBalance

\* An audit that waits for the contractor's signature and a payment that holds
\* money never coexist, in memory or among the transactions to be recovered.
PendingAuditFreezesPayments ==
    pendingAudit.present => /\ ~ReservationsPresent
                            /\ record = Nothing
                            /\ ~InsideCoordinator

\* A restart can reserve again all that was serialized, unless an audit lost
\* patience with the reservations and left ConflictResolving in the database, or
\* an audit with a bad signature had moved the limits the payments counted on.
RestartHaltsOnlyAfterConflict ==
    [][halted' => \/ storedState = "ConflictResolving"
                  \/ <<incoming, outgoing>> # <<fullAudit.incoming, fullAudit.outgoing>>]_vars

\* A limit does not move under a reservation, by an audit of either side or by a
\* restart, except that a restart takes back what a bad signature has moved.
LimitsFixedWhileReserved ==
    [][ReservationsPresent /\ ReservationsPresent' =>
          \/ UNCHANGED <<incoming, outgoing>>
          \/ <<incoming', outgoing'>> = <<fullAudit.incoming, fullAudit.outgoing>>]_vars

\* A line that waits for an audit has one to wait for: only a request that asked
\* to close a side already closed leaves it in AuditPending with no audit at all.
StrandedOnlyByEmptyRequest ==
    state = "AuditPending" /\ auditTx = Idle /\ ~pendingAudit.present
        => incoming = 0 \/ outgoing = 0

\* The comment in the restoring constructor of BasePaymentTransaction: a reserve
\* that was serialized before the node dropped can be created again.
SerializedReserveIsRestored == ~halted
=============================================================================
