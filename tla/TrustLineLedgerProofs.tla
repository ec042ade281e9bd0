----------------------- MODULE TrustLineLedgerProofs -----------------------
(***************************************************************************)
(* Proofs about TrustLineLedger, for any number of payments and any amounts. *)
(* First the totals; then, layer by layer, what a payment holds in each      *)
(* phase (HoldsInv), that the reservations fit the line, that the balance is *)
(* its history, and that a restart finds the limits it had.  Each layer is   *)
(* inductive with those below it.                                            *)
(***************************************************************************)
EXTENDS TrustLineLedger, SumsProofs

-----------------------------------------------------------------------------
(* Totals of the payments of one direction *)

LEMMA TotalsAreInt ==
    ASSUME NEW f \in [Payments -> Int]
    PROVE  OutTotal(f) \in Int /\ InTotal(f) \in Int
BY LedgerAssumption, SumOverIsInt DEF OutTotal, InTotal, Payments

LEMMA TotalsAreNat ==
    ASSUME NEW f \in [Payments -> Nat]
    PROVE  /\ OutTotal(f) \in Nat /\ InTotal(f) \in Nat
           /\ \A t \in Payments : IF t \in OutgoingPayments THEN f[t] <= OutTotal(f)
                                                            ELSE f[t] <= InTotal(f)
<1>1. NPayments \in Nat
  BY LedgerAssumption
<1>2. OutTotal(f) \in Nat /\ \A t \in Payments : t \in OutgoingPayments => f[t] <= OutTotal(f)
  BY <1>1, SumOverIsNat DEF OutTotal, Payments
<1>3. InTotal(f) \in Nat /\ \A t \in Payments : t \in IncomingPayments => f[t] <= InTotal(f)
  BY <1>1, SumOverIsNat DEF InTotal, Payments
<1> QED  BY <1>2, <1>3 DEF IncomingPayments

LEMMA TotalsUpdate ==
    ASSUME NEW f \in [Payments -> Int], NEW g \in [Payments -> Int], NEW t \in Payments,
           \A u \in Payments : u # t => g[u] = f[u]
    PROVE  /\ t \in OutgoingPayments => /\ OutTotal(g) = OutTotal(f) + g[t] - f[t]
                                        /\ InTotal(g) = InTotal(f)
           /\ t \notin OutgoingPayments => /\ OutTotal(g) = OutTotal(f)
                                           /\ InTotal(g) = InTotal(f) + g[t] - f[t]
<1>1. /\ NPayments \in Nat /\ t \in 1..NPayments
      /\ f \in [1..NPayments -> Int] /\ g \in [1..NPayments -> Int]
      /\ \A u \in 1..NPayments : u # t => g[u] = f[u]
  BY LedgerAssumption DEF Payments
<1>2. ASSUME NEW S
      PROVE  /\ t \in S => SumOver(S, g, NPayments) = SumOver(S, f, NPayments) + g[t] - f[t]
             /\ t \notin S => SumOver(S, g, NPayments) = SumOver(S, f, NPayments)
  BY <1>1, SumOverUpdate
<1> QED  BY <1>2 DEF OutTotal, InTotal, IncomingPayments

LEMMA TotalsOfNothing ==
    ASSUME NEW f \in [Payments -> Int], \A t \in Payments : f[t] = 0
    PROVE  OutTotal(f) = 0 /\ InTotal(f) = 0
BY LedgerAssumption, SumOverZeros DEF OutTotal, InTotal, Payments

LEMMA TotalsMonotone ==
    ASSUME NEW f \in [Payments -> Int], NEW g \in [Payments -> Int],
           \A t \in Payments : f[t] <= g[t]
    PROVE  OutTotal(f) <= OutTotal(g) /\ InTotal(f) <= InTotal(g)
BY LedgerAssumption, SumOverMonotone DEF OutTotal, InTotal, Payments

-----------------------------------------------------------------------------
(* Types *)

\* The balance in the database is a number.
LEMMA StoredBalanceIsInt ==
    ASSUME TypeOK PROVE StoredBalance \in Int
<1>1. Committed(record) \in [Payments -> Int] /\ fullAudit.balance \in Int
  BY DEF TypeOK, Committed, Audits
<1>2. OutTotal(Committed(record)) \in Int /\ InTotal(Committed(record)) \in Int
  BY <1>1, TotalsAreInt
<1> QED  BY <1>1, <1>2 DEF StoredBalance

LEMMA RecordTypes ==
    /\ Nothing \in [Payments -> Nat]
    /\ NoAudit \in Audits
    /\ \A i, o \in Nat, b \in Int : Audit(i, o, b) \in Audits
    /\ Idle \in AuditTxs
BY LedgerAssumption DEF Nothing, NoAudit, Audits, Audit, Idle, AuditTxs, NoRequest

LEMMA InitType == Init => TypeOK
<1> SUFFICES ASSUME Init PROVE TypeOK
  OBVIOUS
<1>1. PICK i \in TrustAmounts, o \in TrustAmounts :
          /\ state = "Active" /\ incoming = i /\ outgoing = o /\ balance = 0
          /\ reserved = Nothing
          /\ phase = [t \in Payments |-> "idle"]
          /\ auditTx = Idle
          /\ storedState = "Active"
          /\ fullAudit = Audit(i, o, 0)
          /\ pendingAudit = NoAudit
          /\ receipt = Nothing /\ record = Nothing /\ paid = {}
          /\ halted = FALSE
          /\ settled = Nothing
  BY DEF Init
<1>2. i \in Nat /\ o \in Nat
  BY LedgerAssumption
<1>3. phase \in [Payments -> Phases] /\ state \in States /\ storedState \in States
  BY <1>1 DEF States, Phases
<1>4. balance \in Int /\ paid \subseteq Payments
  BY <1>1
<1>5. /\ reserved \in [Payments -> Nat] /\ receipt \in [Payments -> Nat]
      /\ record \in [Payments -> Nat] /\ settled \in [Payments -> Nat]
      /\ auditTx \in AuditTxs /\ pendingAudit \in Audits
  BY <1>1, RecordTypes
<1>6. incoming \in Nat /\ outgoing \in Nat /\ fullAudit \in Audits
  BY <1>1, <1>2, RecordTypes
<1>7. halted \in BOOLEAN
  BY <1>1, Zenon
<1> QED  BY <1>3, <1>4, <1>5, <1>6, <1>7 DEF TypeOK

\* TypeOK without halted, which Next and not the actions changes.
DataTypes ==
    /\ state \in States /\ storedState \in States
    /\ incoming \in Nat /\ outgoing \in Nat /\ balance \in Int
    /\ reserved \in [Payments -> Nat]
    /\ phase \in [Payments -> Phases]
    /\ auditTx \in AuditTxs
    /\ fullAudit \in Audits /\ pendingAudit \in Audits
    /\ receipt \in [Payments -> Nat] /\ record \in [Payments -> Nat]
    /\ paid \subseteq Payments
    /\ settled \in [Payments -> Nat]

LEMMA PaymentTypes ==
    ASSUME TypeOK, NEW t \in Payments,
           \/ \E a \in PaymentAmounts : Reserve(t, a)
           \/ \E a \in PaymentAmounts \cup {0} : Shorten(t, a)
           \/ SaveReceipt(t)
           \/ \E cleansStorage \in BOOLEAN : RejectBeforeVote(t, cleansStorage)
           \/ Vote(t)
           \/ CoordinatorSigns(t)
           \/ Commit(t)
           \/ RejectAfterVote(t)
    PROVE  DataTypes'
<1> USE DEF TypeOK, DataTypes, Phases, memory, storage
<1>0. PaymentAmounts \cup {0} \subseteq Nat
  BY LedgerAssumption
<1>1. ASSUME NEW a \in PaymentAmounts, Reserve(t, a) PROVE DataTypes'
  BY <1>0, <1>1 DEF Reserve
<1>2. ASSUME NEW a \in PaymentAmounts \cup {0}, Shorten(t, a) PROVE DataTypes'
  BY <1>0, <1>2 DEF Shorten
<1>3. CASE SaveReceipt(t)
  BY <1>3 DEF SaveReceipt
<1>4. ASSUME NEW cleansStorage \in BOOLEAN, RejectBeforeVote(t, cleansStorage)
      PROVE  DataTypes'
  BY <1>4 DEF RejectBeforeVote
<1>5. CASE Vote(t)
  BY <1>5 DEF Vote
<1>6. CASE CoordinatorSigns(t)
  BY <1>6 DEF CoordinatorSigns
<1>7. CASE Commit(t)
  BY <1>7 DEF Commit, BalanceAfter
<1>8. CASE RejectAfterVote(t)
  BY <1>8 DEF RejectAfterVote
<1> QED  BY <1>1, <1>2, <1>3, <1>4, <1>5, <1>6, <1>7, <1>8

LEMMA RequestTypes ==
    ASSUME NEW r \in Requests \cup {NoRequest}
    PROVE  /\ r.amount \in Nat
           /\ \A n \in 0..MaxPendingAttempts :
                 /\ [step |-> "waiting", request |-> r, attempts |-> n] \in AuditTxs
                 /\ [step |-> "sent", request |-> r, attempts |-> n] \in AuditTxs
<1>1. r.amount \in TrustAmounts \cup {0}
  <2>1. CASE r \in Requests
    BY <2>1 DEF Requests
  <2>2. CASE r = NoRequest
    BY <2>2 DEF NoRequest
  <2> QED  BY <2>1, <2>2
<1>2. TrustAmounts \subseteq Nat
  BY LedgerAssumption
<1>3. r.amount \in Nat
  BY <1>1, <1>2, 0 \in Nat, Zenon
<1>4. ASSUME NEW n \in 0..MaxPendingAttempts
      PROVE  /\ [step |-> "waiting", request |-> r, attempts |-> n] \in AuditTxs
             /\ [step |-> "sent", request |-> r, attempts |-> n] \in AuditTxs
  BY DEF AuditTxs
<1> QED  BY <1>3, <1>4

LEMMA InitializeAuditTypes ==
    ASSUME TypeOK, NEW r \in Requests \cup {NoRequest}, InitializeAudit(r)
    PROVE  /\ state' \in States /\ incoming' \in Nat /\ outgoing' \in Nat
           /\ auditTx' \in AuditTxs /\ pendingAudit' \in Audits
<1>1. 0 \in 0..MaxPendingAttempts
  BY LedgerAssumption
<1>2. CASE \/ r.kind = "set" /\ r.amount = 0 /\ outgoing = 0
           \/ r.kind = "close" /\ incoming = 0
  BY <1>2, RecordTypes DEF InitializeAudit, TypeOK, States
<1>3. CASE ~(\/ r.kind = "set" /\ r.amount = 0 /\ outgoing = 0
             \/ r.kind = "close" /\ incoming = 0)
  <2>1. /\ state' = "AuditPending"
        /\ incoming' = IF r.kind = "close" THEN 0 ELSE incoming
        /\ outgoing' = IF r.kind = "set" THEN r.amount ELSE outgoing
        /\ pendingAudit' = Audit(incoming', outgoing', balance)
        /\ auditTx' = [step |-> "sent", request |-> r, attempts |-> 0]
    BY <1>3, Zenon DEF InitializeAudit
  <2>2. incoming' \in Nat /\ outgoing' \in Nat /\ balance \in Int
    <3>1. incoming \in Nat /\ outgoing \in Nat /\ balance \in Int
      BY DEF TypeOK
    <3>2. r.amount \in Nat
      BY RequestTypes
    <3> QED  BY <2>1, <3>1, <3>2
  <2>3. auditTx' \in AuditTxs
    BY <1>1, <2>1, RequestTypes
  <2> QED  BY <2>1, <2>2, <2>3, RecordTypes DEF States
<1> QED  BY <1>2, <1>3

LEMMA AuditTypes ==
    ASSUME TypeOK, AuditStep
    PROVE  DataTypes'
<1> USE DEF TypeOK, DataTypes, States, memory, storage
<1>1. ASSUME NEW r \in Requests, StartAudit(r) PROVE DataTypes'
  <2>1. 1 \in 0..MaxPendingAttempts
    BY LedgerAssumption
  <2>2. CASE ReservationsPresent
    BY <1>1, <2>1, <2>2, RequestTypes DEF StartAudit
  <2>3. CASE ~ReservationsPresent
    BY <1>1, <2>3, InitializeAuditTypes DEF StartAudit
  <2> QED  BY <2>2, <2>3
<1>2. CASE ContinueWaitingAudit
  <2>1. CASE state # "AuditPending"
    BY <1>2, <2>1, RecordTypes DEF ContinueWaitingAudit
  <2>2. CASE state = "AuditPending" /\ ReservationsPresent
    <3>1. CASE auditTx.attempts + 1 > MaxPendingAttempts
      BY <1>2, <2>2, <3>1, RecordTypes DEF ContinueWaitingAudit
    <3>2. CASE ~(auditTx.attempts + 1 > MaxPendingAttempts)
      <4>1. /\ auditTx' = [auditTx EXCEPT !.attempts = @ + 1]
            /\ UNCHANGED <<memory, reserved, phase, storage, settled>>
        BY <1>2, <2>2, <3>2 DEF ContinueWaitingAudit
      <4>2. auditTx' \in AuditTxs
        BY <3>2, <4>1, LedgerAssumption DEF AuditTxs
      <4> QED  BY <4>1, <4>2
    <3> QED  BY <3>1, <3>2
  <2>3. CASE state = "AuditPending" /\ ~ReservationsPresent
    <3>1. auditTx.request \in Requests \cup {NoRequest}
      BY DEF AuditTxs
    <3> QED  BY <1>2, <2>3, <3>1, InitializeAuditTypes DEF ContinueWaitingAudit
  <2> QED  BY <2>1, <2>2, <2>3
<1>3. CASE AuditAccepted
  BY <1>3, RecordTypes DEF AuditAccepted
<1>4. CASE AuditRefused
  BY <1>4, RecordTypes DEF AuditRefused
<1>5. CASE AuditUnanswered
  BY <1>5, RecordTypes DEF AuditUnanswered
<1>6. CASE NextAuditAttempt
  BY <1>6, LedgerAssumption DEF NextAuditAttempt, AuditTxs, Requests
<1>7. ASSUME NEW audit \in ContractorAudits, NEW i \in TrustAmounts, NEW close \in BOOLEAN,
             AuditTarget(audit, i, close)
      PROVE  DataTypes'
  <2>1. i \in Nat /\ StoredBalance \in Int
    BY LedgerAssumption, StoredBalanceIsInt
  <2>2. incoming' \in Nat /\ outgoing' \in Nat /\ balance' \in Int
    BY <1>7, <2>1 DEF AuditTarget, Yielded, Audits
  <2>3. fullAudit' \in Audits /\ receipt' \in [Payments -> Nat]
    BY <1>7, <2>2, RecordTypes DEF AuditTarget
  <2> QED  BY <1>7, <2>2, <2>3, RecordTypes DEF AuditTarget
<1> QED  BY <1>1, <1>2, <1>3, <1>4, <1>5, <1>6, <1>7 DEF AuditStep

LEMMA RestartTypes ==
    ASSUME TypeOK, CrashAndRestart
    PROVE  DataTypes'
<1> USE DEF TypeOK, DataTypes
<1>1. state' \in States
  BY DEF CrashAndRestart, RestoredState, States
<1>2. incoming' \in Nat /\ outgoing' \in Nat /\ balance' \in Int
  BY StoredBalanceIsInt DEF CrashAndRestart, Audits
<1>3. reserved' \in [Payments -> Nat]
  BY RecordTypes DEF CrashAndRestart
<1>4. phase' \in [Payments -> Phases]
  <2>1. \A t \in Payments : PhaseAfterRestart(t) \in Phases
    BY DEF PhaseAfterRestart, Phases
  <2> QED  BY <2>1 DEF CrashAndRestart
<1>5. settled' \in [Payments -> Nat] /\ auditTx' \in AuditTxs
  BY RecordTypes DEF CrashAndRestart
<1>6. UNCHANGED storage
  BY DEF CrashAndRestart
<1> QED  BY <1>1, <1>2, <1>3, <1>4, <1>5, <1>6 DEF storage

LEMMA TypeStep == TypeOK /\ [Next]_vars => TypeOK'
<1> SUFFICES ASSUME TypeOK, [Next]_vars PROVE TypeOK'
  OBVIOUS
<1>1. CASE UNCHANGED vars
  BY <1>1 DEF vars, memory, storage, TypeOK
<1>2. CASE Next
  <2>1. DataTypes'
    BY <1>2, PaymentTypes, AuditTypes, RestartTypes DEF Next, PaymentStep, FinishCoordinator
  <2>2. halted' \in BOOLEAN
    BY <1>2, Zenon DEF Next, CrashAndRestart
  <2> QED  BY <2>1, <2>2 DEF TypeOK, DataTypes
<1> QED  BY <1>1, <1>2

\* Every variable stays in its range, for any number of payments and any limits.
THEOREM LedgerTypeCorrect == Spec => []TypeOK
BY InitType, TypeStep, PTL DEF Spec

-----------------------------------------------------------------------------
(* Payments and the audit that waits *)

Holding == {"receipted", "voted", "signed"}

\* What the database and the history say of a payment agrees with its phase.
PhasesMatchStorage ==
    \A t \in Payments :
        /\ phase[t] = "voted" <=> record[t] # 0
        /\ phase[t] \in {"voted", "signed"} => t \in paid
        /\ phase[t] \in {"idle", "reserving", "receipted"} => t \notin paid
        /\ phase[t] # "committed" => settled[t] = 0
        /\ phase[t] = "signed" => t \in OutgoingPayments

\* A payment that has saved its receipt holds that amount, one that has voted has
\* serialized it, one that is over holds nothing.
PhasesMatchReservations ==
    ~halted =>
        \A t \in Payments :
            /\ phase[t] \in Holding => reserved[t] > 0 /\ receipt[t] = reserved[t]
            /\ phase[t] = "voted" => record[t] = reserved[t]
            /\ phase[t] \in {"idle", "committed", "rejected"} => reserved[t] = 0

OneCoordinatorInside ==
    \A t, u \in Payments : phase[t] = "signed" /\ phase[u] = "signed" => t = u

\* While an audit waits for its signature no payment starts, and none holds.
PendingAuditAlone ==
    pendingAudit.present => /\ state \in {"AuditPending", "ConflictResolving"}
                            /\ ~halted
                            /\ \A t \in Payments : reserved[t] = 0

HoldsInv == /\ PhasesMatchStorage
            /\ PhasesMatchReservations
            /\ OneCoordinatorInside
            /\ PendingAuditAlone

LEMMA InitHolds == Init => HoldsInv
BY DEF Init, HoldsInv, PhasesMatchStorage, PhasesMatchReservations, OneCoordinatorInside,
       PendingAuditAlone, Nothing, NoAudit, Holding

\* With no reservations on the line every payment is before its receipt or over,
\* and nothing is serialized.
LEMMA NobodyHolds ==
    ASSUME TypeOK, HoldsInv, ~halted, ~ReservationsPresent
    PROVE  /\ \A t \in Payments : reserved[t] = 0 /\ record[t] = 0 /\ phase[t] \notin Holding
           /\ record = Nothing
<1>1. ASSUME NEW t \in Payments
      PROVE  reserved[t] = 0 /\ record[t] = 0 /\ phase[t] \notin Holding
  <2>1. reserved[t] = 0
    BY DEF ReservationsPresent, TypeOK
  <2>2. phase[t] \notin Holding
    BY <2>1 DEF HoldsInv, PhasesMatchReservations
  <2>3. record[t] = 0
    BY <2>2 DEF HoldsInv, PhasesMatchStorage, Holding
  <2> QED  BY <2>1, <2>2, <2>3
<1>2. record = Nothing
  BY <1>1 DEF TypeOK, Nothing
<1> QED  BY <1>1, <1>2

\* An audit that waits leaves nothing to be recovered.
LEMMA PendingAuditNobodyHolds ==
    ASSUME TypeOK, HoldsInv, pendingAudit.present
    PROVE  ~halted /\ ~ReservationsPresent
BY DEF HoldsInv, PendingAuditAlone, ReservationsPresent

LEMMA PaymentHolds ==
    ASSUME TypeOK, HoldsInv, ~halted, ~halted', NEW t \in Payments,
           \/ \E a \in PaymentAmounts : Reserve(t, a)
           \/ \E a \in PaymentAmounts \cup {0} : Shorten(t, a)
           \/ SaveReceipt(t)
           \/ \E cleansStorage \in BOOLEAN : RejectBeforeVote(t, cleansStorage)
           \/ Vote(t)
           \/ ~InsideCoordinator /\ CoordinatorSigns(t)
           \/ Commit(t)
           \/ RejectAfterVote(t)
    PROVE  HoldsInv'
<1> USE DEF TypeOK, HoldsInv, PhasesMatchStorage, PhasesMatchReservations,
            OneCoordinatorInside, PendingAuditAlone, Holding, memory, storage
<1>0. PaymentAmounts \cup {0} \subseteq Nat /\ CoordinatedPayments \subseteq OutgoingPayments
  BY LedgerAssumption
<1>1. ASSUME NEW a \in PaymentAmounts, Reserve(t, a) PROVE HoldsInv'
  BY <1>0, <1>1 DEF Reserve
<1>2. ASSUME NEW a \in PaymentAmounts \cup {0}, Shorten(t, a) PROVE HoldsInv'
  BY <1>0, <1>2 DEF Shorten
<1>3. CASE SaveReceipt(t)
  BY <1>3 DEF SaveReceipt
<1>4. ASSUME NEW cleansStorage \in BOOLEAN, RejectBeforeVote(t, cleansStorage)
      PROVE  HoldsInv'
  BY <1>4 DEF RejectBeforeVote
<1>5. CASE Vote(t)
  BY <1>5 DEF Vote
<1>6. CASE ~InsideCoordinator /\ CoordinatorSigns(t)
  BY <1>0, <1>6 DEF CoordinatorSigns, InsideCoordinator
<1>7. CASE Commit(t)
  BY <1>7 DEF Commit
<1>8. CASE RejectAfterVote(t)
  BY <1>8 DEF RejectAfterVote
<1> QED  BY <1>1, <1>2, <1>3, <1>4, <1>5, <1>6, <1>7, <1>8

\* What an audit leaves alone.
LEMMA AuditFrame ==
    ASSUME AuditStep
    PROVE  UNCHANGED <<reserved, phase, record, paid, settled>>
BY DEF AuditStep, StartAudit, ContinueWaitingAudit, AuditAccepted, AuditRefused,
       AuditUnanswered, NextAuditAttempt, AuditTarget, storage

\* An audit that drops receipts, or begins to wait, finds no reservations.
LEMMA AuditWaitsForReservations ==
    ASSUME TypeOK, HoldsInv, AuditStep
    PROVE  /\ receipt' # receipt => ~ReservationsPresent
           /\ pendingAudit' # pendingAudit /\ pendingAudit'.present => ~ReservationsPresent
           /\ pendingAudit'.present => state' \in {"AuditPending", "ConflictResolving"}
<1> USE DEF HoldsInv, PendingAuditAlone, NoAudit, memory, storage
<1>1. ASSUME NEW r \in Requests, StartAudit(r)
      PROVE  /\ receipt' = receipt
             /\ pendingAudit' # pendingAudit => ~ReservationsPresent
             /\ pendingAudit'.present => state' \in {"AuditPending", "ConflictResolving"}
  <2>1. CASE ReservationsPresent
    BY <1>1, <2>1 DEF StartAudit
  <2>2. CASE ~ReservationsPresent
    BY <1>1, <2>2 DEF StartAudit, InitializeAudit
  <2> QED  BY <2>1, <2>2
<1>2. CASE ContinueWaitingAudit
  <2>1. receipt' = receipt
    BY <1>2 DEF ContinueWaitingAudit
  <2>2. pendingAudit' # pendingAudit => ~ReservationsPresent
    BY <1>2 DEF ContinueWaitingAudit
  <2>3. pendingAudit'.present => state' \in {"AuditPending", "ConflictResolving"}
    BY <1>2 DEF ContinueWaitingAudit, InitializeAudit
  <2> QED  BY <2>1, <2>2, <2>3
<1>3. CASE AuditAccepted
  <2>1. pendingAudit.present
    BY <1>3 DEF AuditAccepted
  <2>2. ~ReservationsPresent
    BY <2>1, PendingAuditNobodyHolds
  <2>3. pendingAudit'.present => state' \in {"AuditPending", "ConflictResolving"}
    BY <1>3 DEF AuditAccepted
  <2> QED  BY <2>2, <2>3
<1>4. CASE AuditRefused \/ AuditUnanswered \/ NextAuditAttempt
  BY <1>4 DEF AuditRefused, AuditUnanswered, NextAuditAttempt
<1>5. ASSUME NEW audit \in ContractorAudits, NEW i \in TrustAmounts, NEW close \in BOOLEAN,
             AuditTarget(audit, i, close)
      PROVE  /\ receipt' # receipt => ~ReservationsPresent
             /\ ~pendingAudit'.present
  BY <1>5 DEF AuditTarget
<1> QED  BY <1>1, <1>2, <1>3, <1>4, <1>5 DEF AuditStep

LEMMA AuditHolds ==
    ASSUME TypeOK, HoldsInv, ~halted, ~halted', AuditStep
    PROVE  HoldsInv'
<1>1. UNCHANGED <<reserved, phase, record, paid, settled>>
  BY AuditFrame
<1>2. PhasesMatchStorage' /\ OneCoordinatorInside'
  BY <1>1 DEF HoldsInv, PhasesMatchStorage, OneCoordinatorInside
<1>3. PhasesMatchReservations'
  <2>1. CASE receipt' = receipt
    BY <1>1, <2>1 DEF HoldsInv, PhasesMatchReservations
  <2>2. CASE receipt' # receipt
    BY <1>1, <2>2, AuditWaitsForReservations, NobodyHolds
       DEF HoldsInv, PhasesMatchReservations, Holding
  <2> QED  BY <2>1, <2>2
<1>4. PendingAuditAlone'
  <2>1. CASE pendingAudit' = pendingAudit
    BY <1>1, <2>1, AuditWaitsForReservations DEF HoldsInv, PendingAuditAlone
  <2>2. CASE pendingAudit' # pendingAudit
    BY <1>1, <2>2, AuditWaitsForReservations, NobodyHolds DEF PendingAuditAlone
  <2> QED  BY <2>1, <2>2
<1> QED  BY <1>2, <1>3, <1>4 DEF HoldsInv

LEMMA RestartHolds ==
    ASSUME TypeOK, HoldsInv, ~halted, CrashAndRestart
    PROVE  HoldsInv'
<1>1. /\ UNCHANGED <<receipt, record, paid, pendingAudit>>
      /\ \A t \in Payments : phase'[t] = PhaseAfterRestart(t)
      /\ \A t \in Payments : settled'[t] = IF phase[t] = "signed" THEN receipt[t] ELSE settled[t]
      /\ ~halted' => reserved' = record
  BY DEF CrashAndRestart, storage
<1>2. PhasesMatchStorage'
  BY <1>1 DEF HoldsInv, PhasesMatchStorage, PhaseAfterRestart, TypeOK, Phases
<1>3. PhasesMatchReservations'
  <2> SUFFICES ASSUME ~halted', NEW t \in Payments
               PROVE  /\ phase'[t] \in Holding => reserved'[t] > 0 /\ receipt'[t] = reserved'[t]
                      /\ phase'[t] = "voted" => record'[t] = reserved'[t]
                      /\ phase'[t] \in {"idle", "committed", "rejected"} => reserved'[t] = 0
    BY DEF PhasesMatchReservations
  <2>1. reserved'[t] = record[t] /\ record'[t] = record[t] /\ receipt'[t] = receipt[t]
    BY <1>1
  <2>2. phase'[t] = "voted" \/ phase'[t] \in {"idle", "committed", "rejected"}
    BY <1>1 DEF PhaseAfterRestart, TypeOK, Phases
  <2>3. phase'[t] = "voted" <=> phase[t] = "voted"
    BY <1>1 DEF PhaseAfterRestart
  <2> QED  BY <2>1, <2>2, <2>3 DEF HoldsInv, PhasesMatchReservations, PhasesMatchStorage, Holding
<1>4. OneCoordinatorInside'
  BY <1>1 DEF OneCoordinatorInside, PhaseAfterRestart
<1>5. PendingAuditAlone'
  <2> SUFFICES ASSUME pendingAudit.present
               PROVE  /\ state' \in {"AuditPending", "ConflictResolving"}
                      /\ ~halted'
                      /\ \A t \in Payments : reserved'[t] = 0
    BY <1>1 DEF PendingAuditAlone
  <2>1. record = Nothing
    BY PendingAuditNobodyHolds, NobodyHolds
  <2>2. ~halted' /\ state' = "AuditPending"
    BY <2>1 DEF CrashAndRestart, RestoreSucceeds, RestoredState
  <2> QED  BY <1>1, <2>1, <2>2 DEF Nothing
<1> QED  BY <1>2, <1>3, <1>4, <1>5 DEF HoldsInv

LEMMA HoldsStep == TypeOK /\ HoldsInv /\ [Next]_vars => HoldsInv'
<1> SUFFICES ASSUME TypeOK, HoldsInv, [Next]_vars PROVE HoldsInv'
  OBVIOUS
<1>1. CASE UNCHANGED vars
  BY <1>1 DEF vars, memory, storage, HoldsInv, PhasesMatchStorage, PhasesMatchReservations,
              OneCoordinatorInside, PendingAuditAlone
<1>2. CASE Next
  <2>1. ~halted
    BY <1>2 DEF Next
  <2>2. CASE CrashAndRestart
    BY <2>1, <2>2, RestartHolds
  <2>3. CASE ~CrashAndRestart
    <3>1. ~halted'
      BY <1>2, <2>3 DEF Next
    <3> QED  BY <1>2, <2>1, <2>3, <3>1, PaymentHolds, AuditHolds
             DEF Next, PaymentStep, FinishCoordinator
  <2> QED  BY <2>2, <2>3
<1> QED  BY <1>1, <1>2

LEMMA HoldsAlways == Spec => [](TypeOK /\ HoldsInv)
<1>1. Init => TypeOK /\ HoldsInv
  BY InitType, InitHolds
<1>2. TypeOK /\ HoldsInv /\ [Next]_vars => (TypeOK /\ HoldsInv)'
  BY TypeStep, HoldsStep
<1> QED  BY <1>1, <1>2, PTL DEF Spec

\* An audit that waits for the contractor's signature (pendingAudit) and a
\* payment that holds money never coexist, in memory or among the payments to be
\* recovered: initializeAudit and AuditTargetTransaction look at the reservations.
THEOREM PendingAuditFreezes == Spec => []PendingAuditFreezesPayments
<1>1. TypeOK /\ HoldsInv => PendingAuditFreezesPayments
  <2> SUFFICES ASSUME TypeOK, HoldsInv, pendingAudit.present
               PROVE  ~ReservationsPresent /\ record = Nothing /\ ~InsideCoordinator
    BY DEF PendingAuditFreezesPayments
  <2> QED  BY PendingAuditNobodyHolds, NobodyHolds DEF InsideCoordinator, Holding
<1> QED  BY <1>1, HoldsAlways, PTL

-----------------------------------------------------------------------------
(* Reservations and limits *)

\* TrustLine::available...Amount: never negative, and a positive amount fits
\* exactly when it fits in limit and balance.
LEMMA AvailableAmounts ==
    ASSUME NEW i \in Nat, NEW b \in Int, NEW x \in Nat
    PROVE  /\ AvailableOutgoing(i, b) \in Nat /\ AvailableIncoming(i, b) \in Nat
           /\ x <= AvailableOutgoing(i, b) <=> x = 0 \/ x <= i + b
           /\ x <= AvailableIncoming(i, b) <=> x = 0 \/ x <= i - b
BY DEF AvailableOutgoing, AvailableIncoming

LEMMA NothingFits ==
    ASSUME NEW i \in Nat, NEW o \in Nat, NEW b \in Int,
           NEW f \in [Payments -> Int], \A t \in Payments : f[t] = 0
    PROVE  OutTotal(f) <= AvailableOutgoing(i, b) /\ InTotal(f) <= AvailableIncoming(o, b)
<1>1. OutTotal(f) = 0 /\ InTotal(f) = 0
  BY TotalsOfNothing
<1> QED  BY <1>1, AvailableAmounts

\* A step that only gives reservations back.
LEMMA ReleaseKeepsLimits ==
    ASSUME TypeOK, TypeOK', ReservedWithinLimits, UNCHANGED <<incoming, outgoing, balance>>,
           \A t \in Payments : reserved'[t] <= reserved[t]
    PROVE  ReservedWithinLimits'
<1>1. reserved \in [Payments -> Int] /\ reserved' \in [Payments -> Int]
  BY DEF TypeOK
<1>2. OutTotal(reserved') <= OutTotal(reserved) /\ InTotal(reserved') <= InTotal(reserved)
  BY <1>1, TotalsMonotone
<1>3. /\ OutTotal(reserved) \in Int /\ OutTotal(reserved') \in Int
      /\ InTotal(reserved) \in Int /\ InTotal(reserved') \in Int
  BY <1>1, TotalsAreInt
<1>4. AvailableOutgoing(incoming, balance) \in Nat /\ AvailableIncoming(outgoing, balance) \in Nat
  BY AvailableAmounts DEF TypeOK
<1> QED  BY <1>2, <1>3, <1>4 DEF ReservedWithinLimits

LEMMA ReserveKeepsLimits ==
    ASSUME TypeOK, TypeOK', ReservedWithinLimits, NEW t \in Payments,
           NEW a \in PaymentAmounts, Reserve(t, a)
    PROVE  ReservedWithinLimits'
<1>1. /\ reserved \in [Payments -> Int] /\ reserved' \in [Payments -> Int]
      /\ reserved'[t] = reserved[t] + a /\ \A u \in Payments : u # t => reserved'[u] = reserved[u]
      /\ a \in Nat /\ reserved[t] \in Nat
      /\ UNCHANGED <<incoming, outgoing, balance>>
      /\ CanReserve(t, a)
  BY LedgerAssumption DEF TypeOK, Reserve, memory
<1>2. /\ t \in OutgoingPayments => /\ OutTotal(reserved') = OutTotal(reserved) + a
                                   /\ InTotal(reserved') = InTotal(reserved)
      /\ t \notin OutgoingPayments => /\ OutTotal(reserved') = OutTotal(reserved)
                                      /\ InTotal(reserved') = InTotal(reserved) + a
  <2>1. OutTotal(reserved) \in Int /\ InTotal(reserved) \in Int
    BY <1>1, TotalsAreInt
  <2> QED  BY <1>1, <2>1, TotalsUpdate
<1> QED  BY <1>1, <1>2 DEF ReservedWithinLimits, CanReserve

\* What a payment holds fits in the limit, in the balance it meets.
LEMMA HeldFits ==
    ASSUME TypeOK, ReservedWithinLimits, NEW t \in Payments, reserved[t] > 0
    PROVE  IF t \in OutgoingPayments
             THEN OutTotal(reserved) <= incoming + balance /\ reserved[t] <= OutTotal(reserved)
             ELSE InTotal(reserved) <= outgoing - balance /\ reserved[t] <= InTotal(reserved)
<1>1. OutTotal(reserved) \in Nat /\ InTotal(reserved) \in Nat /\ reserved[t] \in Nat
  BY TotalsAreNat DEF TypeOK
<1>2. IF t \in OutgoingPayments THEN reserved[t] <= OutTotal(reserved)
                                ELSE reserved[t] <= InTotal(reserved)
  BY TotalsAreNat DEF TypeOK
<1>3. incoming \in Nat /\ outgoing \in Nat /\ balance \in Int
  BY DEF TypeOK
<1>4. /\ OutTotal(reserved) = 0 \/ OutTotal(reserved) <= incoming + balance
      /\ InTotal(reserved) = 0 \/ InTotal(reserved) <= outgoing - balance
  BY <1>1, <1>3, AvailableAmounts DEF ReservedWithinLimits
<1>5. CASE t \in OutgoingPayments
  <2>1. OutTotal(reserved) # 0
    BY <1>1, <1>2, <1>5
  <2> QED  BY <1>2, <1>4, <1>5, <2>1
<1>6. CASE t \notin OutgoingPayments
  <2>1. InTotal(reserved) # 0
    BY <1>1, <1>2, <1>6
  <2> QED  BY <1>2, <1>4, <1>6, <2>1
<1> QED  BY <1>5, <1>6

LEMMA CommitKeepsLimits ==
    ASSUME TypeOK, TypeOK', HoldsInv, ~halted, ReservedWithinLimits,
           NEW t \in Payments, Commit(t)
    PROVE  ReservedWithinLimits'
<1>1. /\ reserved \in [Payments -> Int] /\ reserved' \in [Payments -> Int]
      /\ reserved'[t] = 0 /\ \A u \in Payments : u # t => reserved'[u] = reserved[u]
      /\ UNCHANGED <<incoming, outgoing>>
      /\ balance' = IF t \in OutgoingPayments THEN balance - reserved[t] ELSE balance + reserved[t]
  BY DEF TypeOK, Commit, BalanceAfter
<1>2. reserved[t] > 0 /\ reserved[t] \in Nat
  BY DEF Commit, HoldsInv, PhasesMatchReservations, Holding, TypeOK
<1>3. /\ OutTotal(reserved) \in Nat /\ InTotal(reserved) \in Nat
      /\ OutTotal(reserved') \in Nat /\ InTotal(reserved') \in Nat
  BY TotalsAreNat DEF TypeOK
<1>4. /\ incoming \in Nat /\ outgoing \in Nat /\ balance \in Int /\ balance' \in Int
  BY DEF TypeOK
<1>5. /\ t \in OutgoingPayments => /\ OutTotal(reserved') = OutTotal(reserved) - reserved[t]
                                   /\ InTotal(reserved') = InTotal(reserved)
      /\ t \notin OutgoingPayments => /\ OutTotal(reserved') = OutTotal(reserved)
                                      /\ InTotal(reserved') = InTotal(reserved) - reserved[t]
  BY <1>1, <1>2, <1>3, TotalsUpdate
<1>6. /\ OutTotal(reserved') = 0 \/ OutTotal(reserved') <= incoming + balance'
      /\ InTotal(reserved') = 0 \/ InTotal(reserved') <= outgoing - balance'
  <2>1. /\ OutTotal(reserved) = 0 \/ OutTotal(reserved) <= incoming + balance
        /\ InTotal(reserved) = 0 \/ InTotal(reserved) <= outgoing - balance
    BY <1>3, <1>4, AvailableAmounts DEF ReservedWithinLimits
  <2>2. IF t \in OutgoingPayments
          THEN OutTotal(reserved) <= incoming + balance /\ reserved[t] <= OutTotal(reserved)
          ELSE InTotal(reserved) <= outgoing - balance /\ reserved[t] <= InTotal(reserved)
    BY <1>2, HeldFits
  <2>3. CASE t \in OutgoingPayments
    BY <1>1, <1>2, <1>3, <1>4, <1>5, <2>1, <2>2, <2>3
  <2>4. CASE t \notin OutgoingPayments
    BY <1>1, <1>2, <1>3, <1>4, <1>5, <2>1, <2>2, <2>4
  <2> QED  BY <2>3, <2>4
<1> QED  BY <1>1, <1>3, <1>4, <1>6, AvailableAmounts DEF ReservedWithinLimits

\* Neither side's audit touches the line under a reservation.
LEMMA AuditKeepsLine ==
    ASSUME TypeOK, HoldsInv, AuditStep, ReservationsPresent
    PROVE  UNCHANGED <<incoming, outgoing, balance>>
<1>1. ~pendingAudit.present
  BY PendingAuditNobodyHolds
<1> USE DEF memory
<1>2. ASSUME NEW r \in Requests, StartAudit(r) PROVE UNCHANGED <<incoming, outgoing, balance>>
  BY <1>2 DEF StartAudit
<1>3. CASE ContinueWaitingAudit
  BY <1>3 DEF ContinueWaitingAudit
<1>4. CASE AuditAccepted \/ AuditRefused \/ AuditUnanswered \/ NextAuditAttempt
  BY <1>4 DEF AuditAccepted, AuditRefused, AuditUnanswered, NextAuditAttempt
<1>5. ASSUME NEW audit \in ContractorAudits, NEW i \in TrustAmounts, NEW close \in BOOLEAN,
             AuditTarget(audit, i, close)
      PROVE  UNCHANGED <<incoming, outgoing, balance>>
  BY <1>1, <1>5 DEF AuditTarget, Yielded
<1> QED  BY <1>2, <1>3, <1>4, <1>5 DEF AuditStep

LEMMA AuditKeepsLimits ==
    ASSUME TypeOK, TypeOK', HoldsInv, ~halted, ReservedWithinLimits, AuditStep
    PROVE  ReservedWithinLimits'
<1>1. reserved' = reserved
  BY AuditFrame
<1>2. CASE ReservationsPresent
  BY <1>1, <1>2, AuditKeepsLine DEF ReservedWithinLimits
<1>3. CASE ~ReservationsPresent
  <2>1. \A t \in Payments : reserved'[t] = 0
    BY <1>1, <1>3, NobodyHolds
  <2>2. /\ incoming' \in Nat /\ outgoing' \in Nat /\ balance' \in Int
        /\ reserved' \in [Payments -> Int]
    BY DEF TypeOK
  <2> QED  BY <2>1, <2>2, NothingFits DEF ReservedWithinLimits
<1> QED  BY <1>2, <1>3

LEMMA RestartKeepsLimits ==
    ASSUME TypeOK, TypeOK', CrashAndRestart
    PROVE  ReservedWithinLimits'
<1>1. /\ incoming' \in Nat /\ outgoing' \in Nat /\ balance' \in Int
      /\ reserved' \in [Payments -> Int]
  BY DEF TypeOK
<1>2. CASE reserved' = Nothing
  BY <1>1, <1>2, NothingFits DEF Nothing, ReservedWithinLimits
<1>3. CASE reserved' # Nothing
  <2>1. RestoreSucceeds /\ reserved' = record /\ record # Nothing
    BY <1>3 DEF CrashAndRestart
  <2>2. ~pendingAudit.present
    BY <2>1 DEF RestoreSucceeds, RestoredState
  <2>3. incoming' = fullAudit.incoming /\ outgoing' = fullAudit.outgoing
        /\ balance' = StoredBalance
    BY <2>2 DEF CrashAndRestart
  <2> QED  BY <2>1, <2>3 DEF RestoreSucceeds, ReservedWithinLimits
<1> QED  BY <1>2, <1>3

LEMMA ReservedStep ==
    ASSUME TypeOK, TypeOK', HoldsInv, ReservedWithinLimits, [Next]_vars
    PROVE  ReservedWithinLimits'
<1>1. CASE UNCHANGED vars
  BY <1>1 DEF vars, memory, ReservedWithinLimits
<1>2. CASE CrashAndRestart
  BY <1>2, RestartKeepsLimits
<1>3. ASSUME ~halted, AuditStep PROVE ReservedWithinLimits'
  BY <1>3, AuditKeepsLimits
<1>4. ASSUME ~halted, NEW t \in Payments, Commit(t) PROVE ReservedWithinLimits'
  BY <1>4, CommitKeepsLimits
<1>5. ASSUME NEW t \in Payments, NEW a \in PaymentAmounts, Reserve(t, a)
      PROVE  ReservedWithinLimits'
  BY <1>5, ReserveKeepsLimits
<1>6. ASSUME NEW t \in Payments,
             \/ \E a \in PaymentAmounts \cup {0} : Shorten(t, a)
             \/ \E cleansStorage \in BOOLEAN : RejectBeforeVote(t, cleansStorage)
             \/ SaveReceipt(t) \/ Vote(t) \/ CoordinatorSigns(t) \/ RejectAfterVote(t)
      PROVE  ReservedWithinLimits'
  <2>0. PaymentAmounts \cup {0} \subseteq Nat
    BY LedgerAssumption
  <2>1. UNCHANGED <<incoming, outgoing, balance>>
    BY <1>6 DEF Shorten, RejectBeforeVote, SaveReceipt, Vote, CoordinatorSigns, RejectAfterVote,
                memory
  <2>2. \A u \in Payments : reserved'[u] <= reserved[u]
    BY <1>6, <2>0 DEF TypeOK, Shorten, RejectBeforeVote, SaveReceipt, Vote, CoordinatorSigns,
                      RejectAfterVote
  <2> QED  BY <2>1, <2>2, ReleaseKeepsLimits
<1> QED  BY <1>1, <1>2, <1>3, <1>4, <1>5, <1>6 DEF Next, PaymentStep, FinishCoordinator

LEMMA LedgerSafe == Spec => [](TypeOK /\ HoldsInv /\ ReservedWithinLimits)
<1>1. Init => ReservedWithinLimits
  <2> SUFFICES ASSUME Init PROVE ReservedWithinLimits
    OBVIOUS
  <2>1. TypeOK /\ reserved = Nothing
    BY InitType DEF Init
  <2>2. /\ incoming \in Nat /\ outgoing \in Nat /\ balance \in Int
        /\ reserved \in [Payments -> Int] /\ \A t \in Payments : reserved[t] = 0
    BY <2>1 DEF TypeOK, Nothing
  <2> QED  BY <2>2, NothingFits DEF ReservedWithinLimits
<1>2. TypeOK /\ HoldsInv /\ ReservedWithinLimits /\ [Next]_vars
        => (TypeOK /\ HoldsInv /\ ReservedWithinLimits)'
  BY TypeStep, HoldsStep, ReservedStep
<1>3. Init => TypeOK /\ HoldsInv /\ ReservedWithinLimits
  BY <1>1, InitType, InitHolds
<1> QED  BY <1>2, <1>3, PTL DEF Spec

\* What is reserved in a direction stays within what the line can carry, whatever
\* commits, audits (with good and bad signatures) and restarts come between a
\* reservation and its use.
THEOREM ReservationsFit == Spec => []ReservedWithinLimits
BY LedgerSafe, PTL

\* pay and acceptPayment never throw OverflowError for a payment this node has
\* voted for: commit is not stopped half way.
THEOREM CommitFits == Spec => []CommitNeverOverflows
<1>1. TypeOK /\ HoldsInv /\ ReservedWithinLimits => CommitNeverOverflows
  <2> SUFFICES ASSUME TypeOK, HoldsInv, ReservedWithinLimits, ~halted,
                      NEW t \in Payments, phase[t] \in {"voted", "signed"}
               PROVE  UseSucceeds(t)
    BY DEF CommitNeverOverflows
  <2>1. reserved[t] > 0 /\ reserved[t] \in Nat
    BY DEF HoldsInv, PhasesMatchReservations, Holding, TypeOK
  <2>2. /\ incoming \in Nat /\ outgoing \in Nat /\ balance \in Int
        /\ OutTotal(reserved) \in Nat /\ InTotal(reserved) \in Nat
    BY TotalsAreNat DEF TypeOK
  <2>3. CASE t \in OutgoingPayments
    <3>1. reserved[t] <= incoming + balance
      BY <2>1, <2>2, <2>3, HeldFits
    <3> QED  BY <2>1, <2>2, <2>3, <3>1 DEF UseSucceeds, BalanceAfter, WithinLimits
  <2>4. CASE t \notin OutgoingPayments
    <3>1. reserved[t] <= outgoing - balance
      BY <2>1, <2>2, <2>4, HeldFits
    <3> QED  BY <2>1, <2>2, <2>4, <3>1 DEF UseSucceeds, BalanceAfter, WithinLimits, IncomingPayments
  <2> QED  BY <2>3, <2>4
<1> QED  BY <1>1, LedgerSafe, PTL

-----------------------------------------------------------------------------
(* Limits, the states of the line, and the restart *)

\* A contractor whose audits carry good signatures or are refused for their number.
HonestContractor == "badSignature" \notin ContractorAudits

\* The limits in memory are those of the audit that waits, or else of the last.
LimitsMatchAudit ==
    IF pendingAudit.present
      THEN incoming = pendingAudit.incoming /\ outgoing = pendingAudit.outgoing
      ELSE incoming = fullAudit.incoming /\ outgoing = fullAudit.outgoing

\* An archived line is archived in memory too, carries nothing and waits for
\* nothing; a line that waits without an audit has an empty side.
StatesMatch ==
    /\ storedState \in {"Active", "ConflictResolving", "Archived"}
    /\ storedState = "Archived" => state = "Archived"
    /\ state = "Archived" => ~pendingAudit.present /\ \A t \in Payments : reserved[t] = 0
    /\ state = "AuditPending" /\ ~pendingAudit.present
         => auditTx.step = "waiting" \/ incoming = 0 \/ outgoing = 0

LEMMA LimitsStep ==
    ASSUME HonestContractor, TypeOK, HoldsInv, LimitsMatchAudit, [Next]_vars
    PROVE  LimitsMatchAudit'
<1> USE DEF LimitsMatchAudit, Audit, NoAudit, memory, storage
<1>1. CASE UNCHANGED vars
  BY <1>1 DEF vars
<1>2. CASE CrashAndRestart
  BY <1>2 DEF CrashAndRestart
<1>3. ASSUME NEW t \in Payments,
             \/ \E a \in PaymentAmounts : Reserve(t, a)
             \/ \E a \in PaymentAmounts \cup {0} : Shorten(t, a)
             \/ \E cleansStorage \in BOOLEAN : RejectBeforeVote(t, cleansStorage)
             \/ SaveReceipt(t) \/ Vote(t) \/ CoordinatorSigns(t) \/ Commit(t) \/ RejectAfterVote(t)
      PROVE  LimitsMatchAudit'
  BY <1>3 DEF Reserve, Shorten, RejectBeforeVote, SaveReceipt, Vote, CoordinatorSigns, Commit,
              RejectAfterVote
<1>4. ASSUME NEW r, InitializeAudit(r), UNCHANGED fullAudit PROVE LimitsMatchAudit'
  BY <1>4 DEF InitializeAudit
<1>5. ASSUME NEW r \in Requests, StartAudit(r) PROVE LimitsMatchAudit'
  <2>1. CASE ReservationsPresent
    BY <1>5, <2>1 DEF StartAudit
  <2>2. CASE ~ReservationsPresent
    BY <1>4, <1>5, <2>2 DEF StartAudit
  <2> QED  BY <2>1, <2>2
<1>6. CASE ContinueWaitingAudit
  <2>1. CASE state = "AuditPending" /\ ~ReservationsPresent
    <3>1. InitializeAudit(auditTx.request) /\ UNCHANGED fullAudit
      BY <1>6, <2>1 DEF ContinueWaitingAudit
    <3> QED  BY <1>4, <3>1
  <2>2. CASE ~(state = "AuditPending" /\ ~ReservationsPresent)
    BY <1>6, <2>2 DEF ContinueWaitingAudit
  <2> QED  BY <2>1, <2>2
<1>7. CASE AuditAccepted
  BY <1>7 DEF AuditAccepted
<1>8. CASE AuditRefused \/ AuditUnanswered \/ NextAuditAttempt
  BY <1>8 DEF AuditRefused, AuditUnanswered, NextAuditAttempt
<1>9. ASSUME NEW audit \in ContractorAudits, NEW i \in TrustAmounts, NEW close \in BOOLEAN,
             AuditTarget(audit, i, close)
      PROVE  LimitsMatchAudit'
  <2>1. audit = "good" \/ audit = "wrongNumber"
    BY LedgerAssumption DEF HonestContractor
  <2>2. CASE audit = "good" /\ ~ReservationsPresent
    BY <1>9, <2>2 DEF AuditTarget
  <2>3. CASE ~(audit = "good" /\ ~ReservationsPresent)
    <3>1. CASE pendingAudit.present
      <4>1. state # "Active"
        BY <3>1 DEF HoldsInv, PendingAuditAlone
      <4> QED  BY <1>9, <2>1, <2>3, <3>1, <4>1 DEF AuditTarget, Yielded
    <3>2. CASE ~pendingAudit.present
      BY <1>9, <2>1, <2>3, <3>2 DEF AuditTarget, Yielded
    <3> QED  BY <3>1, <3>2
  <2> QED  BY <2>2, <2>3
<1> QED  BY <1>1, <1>2, <1>3, <1>5, <1>6, <1>7, <1>8, <1>9
         DEF Next, PaymentStep, FinishCoordinator, AuditStep

LEMMA StatesStep ==
    ASSUME TypeOK, HoldsInv, StatesMatch, [Next]_vars
    PROVE  StatesMatch'
<1> USE DEF StatesMatch, Audit, NoAudit, memory, storage
<1>1. CASE UNCHANGED vars
  BY <1>1 DEF vars
<1>2. ASSUME CrashAndRestart, ~halted PROVE StatesMatch'
  <2>1. pendingAudit' = pendingAudit /\ storedState' = storedState /\ state' = RestoredState
    BY <1>2 DEF CrashAndRestart
  <2>2. ASSUME state' = "Archived", NEW t \in Payments PROVE reserved'[t] = 0
    <3>1. \A u \in Payments : reserved[u] = 0
      BY <2>1, <2>2 DEF RestoredState
    <3>2. record = Nothing
      BY <1>2, <3>1, NobodyHolds DEF ReservationsPresent
    <3> QED  BY <1>2, <3>2 DEF CrashAndRestart, Nothing
  <2> QED  BY <2>1, <2>2 DEF RestoredState
<1>3. ASSUME NEW t \in Payments, ~halted,
             \/ \E a \in PaymentAmounts : Reserve(t, a)
             \/ \E a \in PaymentAmounts \cup {0} : Shorten(t, a)
             \/ \E cleansStorage \in BOOLEAN : RejectBeforeVote(t, cleansStorage)
             \/ SaveReceipt(t) \/ Vote(t) \/ CoordinatorSigns(t) \/ Commit(t) \/ RejectAfterVote(t)
      PROVE  StatesMatch'
  <2>1. UNCHANGED <<state, incoming, outgoing, storedState, pendingAudit, auditTx>>
    BY <1>3 DEF Reserve, Shorten, RejectBeforeVote, SaveReceipt, Vote, CoordinatorSigns, Commit,
                RejectAfterVote
  <2>2. ASSUME state = "Archived", NEW u \in Payments PROVE reserved'[u] = 0
    <3>1. \A v \in Payments : reserved[v] = 0
      BY <2>2
    <3>2. PaymentAmounts \cup {0} \subseteq Nat
      BY LedgerAssumption
    <3> QED  BY <1>3, <2>2, <3>1, <3>2
             DEF Reserve, Shorten, RejectBeforeVote, SaveReceipt, Vote, CoordinatorSigns, Commit,
                 RejectAfterVote, TypeOK
  <2> QED  BY <2>1, <2>2
<1>4. ASSUME NEW r, InitializeAudit(r), UNCHANGED <<storedState, reserved>>, state # "Archived"
      PROVE  storedState # "Archived" => StatesMatch'
  BY <1>4 DEF InitializeAudit
<1>5. ASSUME NEW r \in Requests, StartAudit(r) PROVE StatesMatch'
  <2>1. CASE ReservationsPresent
    BY <1>5, <2>1 DEF StartAudit
  <2>2. CASE ~ReservationsPresent
    BY <1>4, <1>5, <2>2 DEF StartAudit
  <2> QED  BY <2>1, <2>2
<1>6. CASE ContinueWaitingAudit
  <2>1. CASE state = "AuditPending" /\ ~ReservationsPresent
    <3>1. InitializeAudit(auditTx.request) /\ UNCHANGED <<storedState, reserved>>
      BY <1>6, <2>1 DEF ContinueWaitingAudit
    <3> QED  BY <1>4, <2>1, <3>1
  <2>2. CASE state # "AuditPending"
    BY <1>6, <2>2 DEF ContinueWaitingAudit
  <2>3. CASE state = "AuditPending" /\ ReservationsPresent
    <3>1. UNCHANGED <<incoming, outgoing, pendingAudit, reserved>>
      BY <1>6, <2>3 DEF ContinueWaitingAudit
    <3>2. \/ state' = "ConflictResolving" /\ storedState' = "ConflictResolving"
          \/ /\ auditTx' = [auditTx EXCEPT !.attempts = @ + 1]
             /\ UNCHANGED <<state, storedState>>
      BY <1>6, <2>3 DEF ContinueWaitingAudit
    <3>3. auditTx.step = "waiting" /\ [auditTx EXCEPT !.attempts = @ + 1].step = auditTx.step
      BY <1>6 DEF ContinueWaitingAudit, TypeOK, AuditTxs
    <3> QED  BY <2>3, <3>1, <3>2, <3>3
  <2> QED  BY <2>1, <2>2, <2>3
<1>7. CASE AuditAccepted
  <2>1. /\ pendingAudit.present /\ \A t \in Payments : reserved[t] = 0
        /\ state # "Archived" /\ storedState # "Archived" /\ reserved' = reserved
    BY <1>7 DEF AuditAccepted, HoldsInv, PendingAuditAlone
  <2> QED  BY <1>7, <2>1 DEF AuditAccepted
<1>8. CASE AuditRefused \/ AuditUnanswered \/ NextAuditAttempt
  <2>1. CASE AuditRefused
    BY <2>1 DEF AuditRefused
  <2>2. CASE AuditUnanswered
    BY <2>2 DEF AuditUnanswered
  <2>3. CASE NextAuditAttempt
    BY <2>3 DEF NextAuditAttempt
  <2> QED  BY <1>8, <2>1, <2>2, <2>3
<1>9. ASSUME NEW audit \in ContractorAudits, NEW i \in TrustAmounts, NEW close \in BOOLEAN,
             AuditTarget(audit, i, close), ~halted
      PROVE  StatesMatch'
  <2>1. state # "Archived" /\ storedState # "Archived" /\ ~pendingAudit'.present /\ reserved' = reserved
    BY <1>9 DEF AuditTarget
  <2>2. state' \in {"Active", "Archived"} /\ storedState' \in {storedState, state'}
    BY <1>9 DEF AuditTarget
  <2>3. state' = "Archived" => ~ReservationsPresent
    BY <1>9 DEF AuditTarget
  <2>4. state' = "Archived" => \A t \in Payments : reserved'[t] = 0
    BY <1>9, <2>1, <2>3, NobodyHolds
  <2> QED  BY <2>1, <2>2, <2>4
<1> QED  BY <1>1, <1>2, <1>3, <1>5, <1>6, <1>7, <1>8, <1>9
         DEF Next, PaymentStep, FinishCoordinator, AuditStep

LEMMA StatesAlways == Spec => []StatesMatch
<1>1. Init => StatesMatch
  BY DEF Init, StatesMatch
<1>2. TypeOK /\ HoldsInv /\ StatesMatch /\ [Next]_vars => StatesMatch'
  BY StatesStep
<1> QED  BY <1>1, <1>2, HoldsAlways, PTL DEF Spec

\* A line left in AuditPending with no transaction and no audit has an empty side:
\* only the request to close a side already closed strands it.
THEOREM OnlyEmptyRequestStrands == Spec => []StrandedOnlyByEmptyRequest
<1>1. StatesMatch => StrandedOnlyByEmptyRequest
  BY DEF StatesMatch, StrandedOnlyByEmptyRequest, Idle
<1> QED  BY <1>1, StatesAlways, PTL

LEMMA LimitsAlways ==
    ASSUME HonestContractor PROVE Spec => []LimitsMatchAudit
<1>1. Init => LimitsMatchAudit
  BY DEF Init, LimitsMatchAudit, Audit, NoAudit
<1>2. TypeOK /\ HoldsInv /\ LimitsMatchAudit /\ [Next]_vars => LimitsMatchAudit'
  BY LimitsStep
<1> QED  BY <1>1, <1>2, HoldsAlways, PTL DEF Spec

\* With good signatures the limits under a reservation do not move at all.
LimitsStandWhileReserved ==
    [][ReservationsPresent /\ ReservationsPresent' => UNCHANGED <<incoming, outgoing>>]_vars

\* Under a reservation only a restart moves the limits.
LEMMA OnlyRestartMovesLimits ==
    ASSUME TypeOK, HoldsInv, [Next]_vars, ReservationsPresent, ReservationsPresent'
    PROVE  \/ UNCHANGED <<incoming, outgoing>>
           \/ incoming' = fullAudit.incoming /\ outgoing' = fullAudit.outgoing
<1>1. ~pendingAudit.present
  BY PendingAuditNobodyHolds
<1>2. CASE CrashAndRestart
  BY <1>1, <1>2 DEF CrashAndRestart
<1>3. CASE AuditStep
  BY <1>3, AuditKeepsLine
<1>4. CASE UNCHANGED vars
  BY <1>4 DEF vars, memory
<1>5. ASSUME NEW t \in Payments,
             \/ \E a \in PaymentAmounts : Reserve(t, a)
             \/ \E a \in PaymentAmounts \cup {0} : Shorten(t, a)
             \/ \E cleansStorage \in BOOLEAN : RejectBeforeVote(t, cleansStorage)
             \/ SaveReceipt(t) \/ Vote(t) \/ CoordinatorSigns(t) \/ Commit(t) \/ RejectAfterVote(t)
      PROVE  UNCHANGED <<incoming, outgoing>>
  BY <1>5 DEF Reserve, Shorten, RejectBeforeVote, SaveReceipt, Vote, CoordinatorSigns, Commit,
              RejectAfterVote, memory
<1> QED  BY <1>2, <1>3, <1>4, <1>5 DEF Next, PaymentStep, FinishCoordinator

\* A limit does not move under a reservation, by an audit of either side or by a
\* restart, except that a restart takes back what a bad signature has moved.
THEOREM LimitsFixed == Spec => LimitsFixedWhileReserved
<1>1. TypeOK /\ HoldsInv /\ [Next]_vars
        => [ReservationsPresent /\ ReservationsPresent' =>
              \/ UNCHANGED <<incoming, outgoing>>
              \/ <<incoming', outgoing'>> = <<fullAudit.incoming, fullAudit.outgoing>>]_vars
  BY OnlyRestartMovesLimits
<1> QED  BY <1>1, HoldsAlways, PTL DEF Spec, LimitsFixedWhileReserved

\* As long as the contractor's signatures are good, a limit never moves under a
\* reservation: not by an audit of either side and not by a restart.
THEOREM LimitsStand ==
    ASSUME HonestContractor PROVE Spec => LimitsStandWhileReserved
<1>1. ASSUME TypeOK, HoldsInv, LimitsMatchAudit, [Next]_vars,
             ReservationsPresent, ReservationsPresent'
      PROVE  UNCHANGED <<incoming, outgoing>>
  <2>1. ~pendingAudit.present
    BY <1>1, PendingAuditNobodyHolds
  <2> QED  BY <1>1, <2>1, OnlyRestartMovesLimits DEF LimitsMatchAudit
<1>2. TypeOK /\ HoldsInv /\ LimitsMatchAudit /\ [Next]_vars
        => [ReservationsPresent /\ ReservationsPresent' => UNCHANGED <<incoming, outgoing>>]_vars
  BY <1>1
<1> QED  BY <1>2, HoldsAlways, LimitsAlways, PTL DEF Spec, LimitsStandWhileReserved

-----------------------------------------------------------------------------
(* Balance, history and database *)

\* An audit transaction that waits for the reservations has saved no audit yet.
WaitingHasNoAudit == auditTx.step = "waiting" => ~pendingAudit.present

LEMMA WaitingStep ==
    ASSUME TypeOK, HoldsInv, WaitingHasNoAudit, [Next]_vars
    PROVE  WaitingHasNoAudit'
<1> USE DEF WaitingHasNoAudit, Idle, NoAudit, memory, storage
<1>1. CASE UNCHANGED vars
  BY <1>1 DEF vars
<1>2. CASE CrashAndRestart
  BY <1>2 DEF CrashAndRestart
<1>3. ASSUME NEW t \in Payments,
             \/ \E a \in PaymentAmounts : Reserve(t, a)
             \/ \E a \in PaymentAmounts \cup {0} : Shorten(t, a)
             \/ \E cleansStorage \in BOOLEAN : RejectBeforeVote(t, cleansStorage)
             \/ SaveReceipt(t) \/ Vote(t) \/ CoordinatorSigns(t) \/ Commit(t) \/ RejectAfterVote(t)
      PROVE  WaitingHasNoAudit'
  BY <1>3 DEF Reserve, Shorten, RejectBeforeVote, SaveReceipt, Vote, CoordinatorSigns, Commit,
              RejectAfterVote
<1>4. ASSUME NEW r, InitializeAudit(r) PROVE auditTx'.step # "waiting"
  BY <1>4 DEF InitializeAudit
<1>5. ASSUME NEW r \in Requests, StartAudit(r) PROVE WaitingHasNoAudit'
  <2>1. ~pendingAudit.present
    BY <1>5 DEF StartAudit, HoldsInv, PendingAuditAlone
  <2>2. CASE ReservationsPresent
    BY <1>5, <2>1, <2>2 DEF StartAudit
  <2>3. CASE ~ReservationsPresent
    BY <1>4, <1>5, <2>3 DEF StartAudit
  <2> QED  BY <2>2, <2>3
<1>6. CASE ContinueWaitingAudit
  <2>1. CASE state = "AuditPending" /\ ~ReservationsPresent
    BY <1>4, <1>6, <2>1 DEF ContinueWaitingAudit
  <2>2. CASE ~(state = "AuditPending" /\ ~ReservationsPresent)
    BY <1>6, <2>2 DEF ContinueWaitingAudit
  <2> QED  BY <2>1, <2>2
<1>7. CASE AuditAccepted \/ AuditRefused \/ AuditUnanswered \/ NextAuditAttempt
  <2>1. auditTx'.step # "waiting"
    BY <1>7 DEF AuditAccepted, AuditRefused, AuditUnanswered, NextAuditAttempt
  <2> QED  BY <2>1
<1>8. ASSUME NEW audit \in ContractorAudits, NEW i \in TrustAmounts, NEW close \in BOOLEAN,
             AuditTarget(audit, i, close)
      PROVE  WaitingHasNoAudit'
  BY <1>8 DEF AuditTarget
<1> QED  BY <1>1, <1>2, <1>3, <1>5, <1>6, <1>7, <1>8
         DEF Next, PaymentStep, FinishCoordinator, AuditStep

\* What the payments have moved, a coordinator that has signed included: a restart
\* counts its receipt.
Moved == [t \in Payments |-> IF phase[t] = "signed" THEN receipt[t] ELSE settled[t]]
Net(f) == InTotal(f) - OutTotal(f)

\* The balance is the history: in the database, and in memory or in the audit
\* that waits (a restart leaves 0 in memory beside it).
BalancesMatchHistory ==
    /\ StoredBalance = Net(Moved)
    /\ IF pendingAudit.present THEN pendingAudit.balance = Net(settled)
                               ELSE balance = Net(settled)

LEMMA NetUpdate ==
    ASSUME NEW f \in [Payments -> Int], NEW g \in [Payments -> Int], NEW t \in Payments,
           \A u \in Payments : u # t => g[u] = f[u]
    PROVE  /\ Net(f) \in Int /\ Net(g) \in Int
           /\ t \in OutgoingPayments => Net(g) = Net(f) - g[t] + f[t]
           /\ t \notin OutgoingPayments => Net(g) = Net(f) + g[t] - f[t]
<1>1. /\ OutTotal(f) \in Int /\ InTotal(f) \in Int /\ OutTotal(g) \in Int /\ InTotal(g) \in Int
      /\ f[t] \in Int /\ g[t] \in Int
  BY TotalsAreInt
<1>2. /\ t \in OutgoingPayments => /\ OutTotal(g) = OutTotal(f) + g[t] - f[t]
                                   /\ InTotal(g) = InTotal(f)
      /\ t \notin OutgoingPayments => /\ OutTotal(g) = OutTotal(f)
                                      /\ InTotal(g) = InTotal(f) + g[t] - f[t]
  BY TotalsUpdate
<1> QED  BY <1>1, <1>2 DEF Net

LEMMA HistoryTypes ==
    ASSUME TypeOK
    PROVE  /\ Committed(record) \in [Payments -> Int] /\ Moved \in [Payments -> Int]
           /\ settled \in [Payments -> Int]
           /\ fullAudit.balance \in Int /\ pendingAudit.balance \in Int
           /\ StoredBalance = fullAudit.balance + Net(Committed(record))
<1>1. /\ Committed(record) \in [Payments -> Int] /\ Moved \in [Payments -> Int]
      /\ settled \in [Payments -> Int]
      /\ fullAudit.balance \in Int /\ pendingAudit.balance \in Int
  BY DEF TypeOK, Committed, Moved, Audits
<1>2. OutTotal(Committed(record)) \in Int /\ InTotal(Committed(record)) \in Int
  BY <1>1, TotalsAreInt
<1>3. StoredBalance = fullAudit.balance + Net(Committed(record))
  BY <1>1, <1>2 DEF StoredBalance, Net
<1> QED  BY <1>1, <1>3

\* The same, a step later.
LEMMA HistoryTypesNext ==
    ASSUME TypeOK'
    PROVE  /\ Committed(record)' \in [Payments -> Int] /\ Moved' \in [Payments -> Int]
           /\ settled' \in [Payments -> Int]
           /\ fullAudit'.balance \in Int /\ pendingAudit'.balance \in Int
           /\ StoredBalance' = fullAudit'.balance + Net(Committed(record)')
<1>1. /\ Committed(record)' \in [Payments -> Int] /\ Moved' \in [Payments -> Int]
      /\ settled' \in [Payments -> Int]
      /\ fullAudit'.balance \in Int /\ pendingAudit'.balance \in Int
  BY DEF TypeOK, Committed, Moved, Audits
<1>2. OutTotal(Committed(record)') \in Int /\ InTotal(Committed(record)') \in Int
  BY <1>1, TotalsAreInt
<1>3. StoredBalance' = fullAudit'.balance + Net(Committed(record)')
  BY <1>1, <1>2 DEF StoredBalance, Net
<1> QED  BY <1>1, <1>3

\* A payment that moves as much in the history as its receipt counts in the
\* database keeps the two together.
LEMMA StoredBalanceFollows ==
    ASSUME TypeOK, TypeOK', StoredBalance = Net(Moved), fullAudit' = fullAudit,
           NEW t \in Payments,
           \A u \in Payments : u # t => /\ Committed(record)'[u] = Committed(record)[u]
                                        /\ Moved'[u] = Moved[u],
           Committed(record)'[t] - Committed(record)[t] = Moved'[t] - Moved[t]
    PROVE  StoredBalance' = Net(Moved')
<1> DEFINE c == Committed(record)
           cNext == Committed(record)'
<1>1. /\ c \in [Payments -> Int] /\ Moved \in [Payments -> Int] /\ fullAudit.balance \in Int
      /\ StoredBalance = fullAudit.balance + Net(c)
  BY HistoryTypes
<1>2. /\ cNext \in [Payments -> Int] /\ Moved' \in [Payments -> Int]
      /\ StoredBalance' = fullAudit.balance + Net(cNext)
  BY HistoryTypesNext
<1>3. /\ \A u \in Payments : u # t => cNext[u] = c[u] /\ Moved'[u] = Moved[u]
      /\ cNext[t] - c[t] = Moved'[t] - Moved[t]
  OBVIOUS
<1>4. c[t] \in Int /\ cNext[t] \in Int /\ Moved[t] \in Int /\ Moved'[t] \in Int
  BY <1>1, <1>2
<1> HIDE DEF c, cNext
<1>5. /\ Net(c) \in Int /\ Net(cNext) \in Int
      /\ t \in OutgoingPayments => Net(cNext) = Net(c) - cNext[t] + c[t]
      /\ t \notin OutgoingPayments => Net(cNext) = Net(c) + cNext[t] - c[t]
  BY <1>1, <1>2, <1>3, NetUpdate
<1>6. /\ Net(Moved) \in Int /\ Net(Moved') \in Int
      /\ t \in OutgoingPayments => Net(Moved') = Net(Moved) - Moved'[t] + Moved[t]
      /\ t \notin OutgoingPayments => Net(Moved') = Net(Moved) + Moved'[t] - Moved[t]
  BY <1>1, <1>2, <1>3, NetUpdate
<1> QED  BY <1>1, <1>2, <1>3, <1>4, <1>5, <1>6

\* Steps of a payment before its commit move nothing.
LEMMA QuietPaymentBalances ==
    ASSUME TypeOK, TypeOK', HoldsInv, ~halted, BalancesMatchHistory, NEW t \in Payments,
           \/ \E a \in PaymentAmounts : Reserve(t, a)
           \/ \E a \in PaymentAmounts \cup {0} : Shorten(t, a)
           \/ \E cleansStorage \in BOOLEAN : RejectBeforeVote(t, cleansStorage)
           \/ SaveReceipt(t) \/ Vote(t) \/ CoordinatorSigns(t) \/ RejectAfterVote(t)
    PROVE  BalancesMatchHistory'
<1>1. UNCHANGED <<balance, settled, fullAudit, pendingAudit>>
  BY DEF Reserve, Shorten, RejectBeforeVote, SaveReceipt, Vote, CoordinatorSigns, RejectAfterVote,
         memory, storage
<1>2. /\ \A u \in Payments : Committed(record)[u] = IF record[u] = 0 /\ u \in paid THEN receipt[u] ELSE 0
      /\ \A u \in Payments : Committed(record)'[u] = IF record'[u] = 0 /\ u \in paid' THEN receipt'[u] ELSE 0
      /\ \A u \in Payments : Moved[u] = IF phase[u] = "signed" THEN receipt[u] ELSE settled[u]
      /\ \A u \in Payments : Moved'[u] = IF phase'[u] = "signed" THEN receipt'[u] ELSE settled'[u]
  BY DEF Committed, Moved
<1>3. \A u \in Payments : u # t => /\ phase'[u] = phase[u] /\ receipt'[u] = receipt[u]
                                   /\ record'[u] = record[u] /\ (u \in paid' <=> u \in paid)
  BY DEF Reserve, Shorten, RejectBeforeVote, SaveReceipt, Vote, CoordinatorSigns, RejectAfterVote,
         memory, storage, TypeOK
<1>4. \A u \in Payments : u # t => /\ Committed(record)'[u] = Committed(record)[u]
                                   /\ Moved'[u] = Moved[u]
  BY <1>1, <1>2, <1>3
<1>5. /\ phase[t] = "voted" <=> record[t] # 0
      /\ phase[t] \in {"voted", "signed"} => t \in paid
      /\ phase[t] \in {"idle", "reserving", "receipted"} => t \notin paid
      /\ phase[t] # "committed" => settled[t] = 0
      /\ phase[t] \in Holding => reserved[t] > 0 /\ receipt[t] = reserved[t]
      /\ receipt[t] \in Int /\ reserved[t] \in Int
  BY DEF HoldsInv, PhasesMatchStorage, PhasesMatchReservations, TypeOK
<1>6. Committed(record)'[t] - Committed(record)[t] = Moved'[t] - Moved[t]
  <2>1. ASSUME \/ \E a \in PaymentAmounts : Reserve(t, a)
               \/ \E a \in PaymentAmounts \cup {0} : Shorten(t, a)
               \/ \E cleansStorage \in BOOLEAN : RejectBeforeVote(t, cleansStorage)
               \/ SaveReceipt(t)
        PROVE  /\ Committed(record)'[t] = 0 /\ Committed(record)[t] = 0
               /\ Moved'[t] = 0 /\ Moved[t] = 0
    <3>1. /\ phase[t] \in {"idle", "reserving", "receipted"} /\ paid' = paid
          /\ phase'[t] \in {"reserving", "receipted", "rejected"}
      BY <2>1 DEF Reserve, Shorten, RejectBeforeVote, SaveReceipt, storage, TypeOK
    <3> QED  BY <1>1, <1>2, <1>5, <3>1
  <2>2. CASE Vote(t)
    <3>1. /\ phase[t] = "receipted" /\ phase'[t] = "voted" /\ record'[t] = reserved[t]
          /\ reserved[t] > 0
      BY <1>5, <2>2 DEF Vote, TypeOK, Holding
    <3> QED  BY <1>1, <1>2, <1>5, <3>1
  <2>3. CASE CoordinatorSigns(t)
    <3>1. /\ phase[t] = "receipted" /\ phase'[t] = "signed" /\ record' = record /\ receipt' = receipt
          /\ t \in paid'
      BY <2>3 DEF CoordinatorSigns, TypeOK
    <3> QED  BY <1>1, <1>2, <1>5, <3>1
  <2>4. CASE RejectAfterVote(t)
    <3>1. /\ phase[t] = "voted" /\ phase'[t] = "rejected" /\ receipt'[t] = 0
      BY <2>4 DEF RejectAfterVote, TypeOK
    <3> QED  BY <1>1, <1>2, <1>5, <3>1
  <2> QED  BY <2>1, <2>2, <2>3, <2>4
<1>7. StoredBalance' = Net(Moved')
  BY <1>1, <1>4, <1>6, StoredBalanceFollows DEF BalancesMatchHistory
<1> QED  BY <1>1, <1>7 DEF BalancesMatchHistory

\* A commit moves the amount of its receipt, in memory and in the history.
LEMMA CommitBalances ==
    ASSUME TypeOK, TypeOK', HoldsInv, ~halted, BalancesMatchHistory, NEW t \in Payments, Commit(t)
    PROVE  BalancesMatchHistory'
<1>1. /\ phase[t] \in {"voted", "signed"} /\ phase'[t] = "committed"
      /\ record'[t] = 0 /\ receipt' = receipt /\ paid' = paid
      /\ fullAudit' = fullAudit /\ pendingAudit' = pendingAudit
      /\ settled'[t] = reserved[t]
      /\ balance' = IF t \in OutgoingPayments THEN balance - reserved[t] ELSE balance + reserved[t]
      /\ \A u \in Payments : u # t => /\ phase'[u] = phase[u] /\ record'[u] = record[u]
                                      /\ settled'[u] = settled[u]
  BY DEF Commit, BalanceAfter, TypeOK
<1>2. /\ phase[t] = "voted" <=> record[t] # 0
      /\ t \in paid /\ settled[t] = 0 /\ reserved[t] > 0 /\ receipt[t] = reserved[t]
      /\ reserved[t] \in Int
  BY <1>1 DEF HoldsInv, PhasesMatchStorage, PhasesMatchReservations, Holding, TypeOK
<1>3. /\ \A u \in Payments : Committed(record)[u] = IF record[u] = 0 /\ u \in paid THEN receipt[u] ELSE 0
      /\ \A u \in Payments : Committed(record)'[u] = IF record'[u] = 0 /\ u \in paid' THEN receipt'[u] ELSE 0
      /\ \A u \in Payments : Moved[u] = IF phase[u] = "signed" THEN receipt[u] ELSE settled[u]
      /\ \A u \in Payments : Moved'[u] = IF phase'[u] = "signed" THEN receipt'[u] ELSE settled'[u]
  BY DEF Committed, Moved
<1>4. \A u \in Payments : u # t => /\ Committed(record)'[u] = Committed(record)[u]
                                   /\ Moved'[u] = Moved[u]
  BY <1>1, <1>3
<1>5. Committed(record)'[t] - Committed(record)[t] = Moved'[t] - Moved[t]
  BY <1>1, <1>2, <1>3
<1>6. StoredBalance' = Net(Moved')
  BY <1>1, <1>4, <1>5, StoredBalanceFollows DEF BalancesMatchHistory
<1>7. ~pendingAudit.present
  BY <1>2 DEF HoldsInv, PendingAuditAlone
<1>8. balance' = Net(settled')
  <2>1. settled \in [Payments -> Int] /\ settled' \in [Payments -> Int] /\ balance \in Int
    BY DEF TypeOK
  <2>2. /\ Net(settled) \in Int
        /\ t \in OutgoingPayments => Net(settled') = Net(settled) - settled'[t] + settled[t]
        /\ t \notin OutgoingPayments => Net(settled') = Net(settled) + settled'[t] - settled[t]
    BY <1>1, <2>1, NetUpdate
  <2>3. balance = Net(settled)
    BY <1>7 DEF BalancesMatchHistory
  <2> QED  BY <1>1, <1>2, <2>1, <2>2, <2>3
<1> QED  BY <1>1, <1>6, <1>7, <1>8 DEF BalancesMatchHistory

\* With no reservations no coordinator is inside its last handler, and the
\* database agrees with the history.
LEMMA FreeLineBalances ==
    ASSUME TypeOK, HoldsInv, ~halted, ~ReservationsPresent, BalancesMatchHistory
    PROVE  Moved = settled /\ StoredBalance = Net(settled)
<1>1. \A t \in Payments : phase[t] # "signed"
  BY NobodyHolds DEF Holding
<1>2. Moved = settled
  BY <1>1 DEF Moved, TypeOK
<1> QED  BY <1>2 DEF BalancesMatchHistory

\* A new audit begins the receipts anew.
LEMMA NewAuditBalances ==
    ASSUME TypeOK, TypeOK', HoldsInv, ~halted, ~ReservationsPresent, BalancesMatchHistory, AuditStep,
           receipt' = Nothing, fullAudit'.balance = Net(settled)
    PROVE  StoredBalance' = Net(Moved')
<1>1. Moved' = settled
  <2>1. \A t \in Payments : phase'[t] # "signed"
    BY AuditFrame, NobodyHolds DEF Holding
  <2>2. settled' = settled /\ settled \in [Payments -> Nat]
    BY AuditFrame DEF TypeOK
  <2> QED  BY <2>1, <2>2 DEF Moved
<1>2. Net(Committed(record)') = 0
  <2>1. \A t \in Payments : Committed(record)'[t] = 0
    BY DEF Committed, Nothing
  <2>2. Committed(record)' \in [Payments -> Int]
    BY HistoryTypesNext
  <2>3. OutTotal(Committed(record)') = 0 /\ InTotal(Committed(record)') = 0
    BY <2>1, <2>2, TotalsOfNothing
  <2> QED  BY <2>3 DEF Net
<1> QED  BY <1>1, <1>2, HistoryTypesNext

\* An audit that leaves receipts and the last audit alone.
LEMMA SameReceiptsBalances ==
    ASSUME BalancesMatchHistory, AuditStep, receipt' = receipt, fullAudit' = fullAudit
    PROVE  StoredBalance' = Net(Moved')
BY AuditFrame DEF BalancesMatchHistory, StoredBalance, Committed, Moved, Net, OutTotal, InTotal

\* The own half of a new audit carries the balance of the line.
LEMMA InitializeAuditBalances ==
    ASSUME BalancesMatchHistory, NEW r, InitializeAudit(r), ~pendingAudit.present,
           UNCHANGED <<balance, settled>>, StoredBalance' = Net(Moved')
    PROVE  BalancesMatchHistory'
BY DEF BalancesMatchHistory, InitializeAudit, Audit

LEMMA AuditBalances ==
    ASSUME TypeOK, TypeOK', HoldsInv, ~halted, WaitingHasNoAudit, BalancesMatchHistory, AuditStep
    PROVE  BalancesMatchHistory'
<1>1. settled' = settled
  BY AuditFrame
<1>2. ASSUME NEW r \in Requests, StartAudit(r) PROVE BalancesMatchHistory'
  <2>1. ~pendingAudit.present /\ UNCHANGED <<balance, receipt, fullAudit>>
    BY <1>2 DEF StartAudit, HoldsInv, PendingAuditAlone
  <2>2. StoredBalance' = Net(Moved')
    BY <2>1, SameReceiptsBalances
  <2>3. CASE ReservationsPresent
    <3>1. pendingAudit' = pendingAudit
      BY <1>2, <2>3 DEF StartAudit
    <3> QED  BY <1>1, <2>1, <2>2, <3>1 DEF BalancesMatchHistory
  <2>4. CASE ~ReservationsPresent
    BY <1>1, <1>2, <2>1, <2>2, <2>4, InitializeAuditBalances DEF StartAudit
  <2> QED  BY <2>3, <2>4
<1>3. CASE ContinueWaitingAudit
  <2>1. ~pendingAudit.present /\ UNCHANGED <<balance, receipt, fullAudit>>
    BY <1>3 DEF ContinueWaitingAudit, WaitingHasNoAudit
  <2>2. StoredBalance' = Net(Moved')
    BY <2>1, SameReceiptsBalances
  <2>3. pendingAudit' = pendingAudit \/ InitializeAudit(auditTx.request)
    BY <1>3 DEF ContinueWaitingAudit
  <2>4. CASE pendingAudit' = pendingAudit
    BY <1>1, <2>1, <2>2, <2>4 DEF BalancesMatchHistory
  <2>5. CASE InitializeAudit(auditTx.request)
    BY <1>1, <2>1, <2>2, <2>5, InitializeAuditBalances
  <2> QED  BY <2>3, <2>4, <2>5
<1>4. CASE AuditAccepted
  <2>1. pendingAudit.present /\ balance' = balance
    BY <1>4 DEF AuditAccepted
  <2>2. ~ReservationsPresent /\ pendingAudit.balance = Net(settled)
    BY <2>1, PendingAuditNobodyHolds DEF BalancesMatchHistory
  <2>3. CASE pendingAudit = Audit(incoming, outgoing, balance)
    <3>1. /\ fullAudit' = pendingAudit /\ ~pendingAudit'.present /\ receipt' = Nothing
          /\ balance = pendingAudit.balance
      BY <1>4, <2>3 DEF AuditAccepted, NoAudit, Audit
    <3>2. StoredBalance' = Net(Moved')
      BY <2>2, <3>1, NewAuditBalances
    <3> QED  BY <1>1, <2>1, <2>2, <3>1, <3>2 DEF BalancesMatchHistory
  <2>4. CASE pendingAudit # Audit(incoming, outgoing, balance)
    <3>1. UNCHANGED <<fullAudit, pendingAudit, receipt>>
      BY <1>4, <2>4 DEF AuditAccepted
    <3>2. StoredBalance' = Net(Moved')
      BY <3>1, SameReceiptsBalances
    <3> QED  BY <1>1, <2>1, <3>1, <3>2 DEF BalancesMatchHistory
  <2> QED  BY <2>3, <2>4
<1>5. CASE AuditRefused \/ AuditUnanswered \/ NextAuditAttempt
  <2>1. UNCHANGED <<balance, fullAudit, pendingAudit, receipt>>
    BY <1>5 DEF AuditRefused, AuditUnanswered, NextAuditAttempt, memory, storage
  <2>2. StoredBalance' = Net(Moved')
    BY <2>1, SameReceiptsBalances
  <2> QED  BY <1>1, <2>1, <2>2 DEF BalancesMatchHistory
<1>6. ASSUME NEW audit \in ContractorAudits, NEW i \in TrustAmounts, NEW close \in BOOLEAN,
             AuditTarget(audit, i, close)
      PROVE  BalancesMatchHistory'
  <2>1. balance' = Net(settled)
    <3>1. CASE pendingAudit.present
      <4>1. state = "AuditPending"
        BY <1>6, <3>1 DEF AuditTarget, HoldsInv, PendingAuditAlone
      <4>2. balance' = StoredBalance
        BY <1>6, <3>1, <4>1 DEF AuditTarget, Yielded
      <4>3. ~ReservationsPresent
        BY <3>1, PendingAuditNobodyHolds
      <4> QED  BY <4>2, <4>3, FreeLineBalances
    <3>2. CASE ~pendingAudit.present
      BY <1>6, <3>2 DEF AuditTarget, Yielded, BalancesMatchHistory
    <3> QED  BY <3>1, <3>2
  <2>2. ~pendingAudit'.present
    BY <1>6 DEF AuditTarget, NoAudit
  <2>3. StoredBalance' = Net(Moved')
    <3>1. CASE receipt' = receipt /\ fullAudit' = fullAudit
      BY <3>1, SameReceiptsBalances
    <3>2. CASE ~(receipt' = receipt /\ fullAudit' = fullAudit)
      <4>1. ~ReservationsPresent /\ receipt' = Nothing /\ fullAudit'.balance = balance'
        BY <1>6, <3>2 DEF AuditTarget, Audit
      <4> QED  BY <2>1, <4>1, NewAuditBalances
    <3> QED  BY <3>1, <3>2
  <2> QED  BY <1>1, <2>1, <2>2, <2>3 DEF BalancesMatchHistory
<1> QED  BY <1>2, <1>3, <1>4, <1>5, <1>6 DEF AuditStep

LEMMA RestartBalances ==
    ASSUME TypeOK, TypeOK', HoldsInv, ~halted, BalancesMatchHistory, CrashAndRestart
    PROVE  BalancesMatchHistory'
<1>1. /\ UNCHANGED <<fullAudit, pendingAudit, receipt, record, paid>>
      /\ settled' = Moved
      /\ balance' = IF pendingAudit.present THEN 0 ELSE StoredBalance
      /\ \A t \in Payments : phase'[t] = PhaseAfterRestart(t)
  BY DEF CrashAndRestart, storage, Moved
<1>2. Moved' = Moved
  <2>1. \A t \in Payments : phase'[t] # "signed"
    BY <1>1 DEF PhaseAfterRestart
  <2>2. settled' \in [Payments -> Nat]
    BY DEF TypeOK
  <2>3. Moved' = settled'
    BY <2>1, <2>2 DEF Moved
  <2> QED  BY <1>1, <2>3
<1>3. StoredBalance' = StoredBalance
  BY <1>1 DEF StoredBalance, Committed, OutTotal, InTotal
<1>4. CASE pendingAudit.present
  <2>1. Moved = settled
    BY <1>4, PendingAuditNobodyHolds, FreeLineBalances
  <2> QED  BY <1>1, <1>2, <1>3, <1>4, <2>1 DEF BalancesMatchHistory, Net, OutTotal, InTotal
<1>5. CASE ~pendingAudit.present
  BY <1>1, <1>2, <1>3, <1>5 DEF BalancesMatchHistory, Net, OutTotal, InTotal
<1> QED  BY <1>4, <1>5

LEMMA InitBalances == Init => BalancesMatchHistory
<1> SUFFICES ASSUME Init PROVE BalancesMatchHistory
  OBVIOUS
<1>1. /\ receipt = Nothing /\ settled = Nothing /\ balance = 0 /\ pendingAudit = NoAudit
      /\ \A t \in Payments : phase[t] = "idle"
      /\ fullAudit.balance = 0 /\ TypeOK
  <2>1. PICK i \in TrustAmounts, o \in TrustAmounts : fullAudit = Audit(i, o, 0)
    BY DEF Init
  <2>2. fullAudit.balance = 0
    BY <2>1 DEF Audit
  <2>3. /\ receipt = Nothing /\ settled = Nothing /\ balance = 0 /\ pendingAudit = NoAudit
        /\ \A t \in Payments : phase[t] = "idle"
    BY DEF Init
  <2> QED  BY <2>2, <2>3, InitType
<1>2. \A f \in [Payments -> Int] : (\A t \in Payments : f[t] = 0) => Net(f) = 0
  BY TotalsOfNothing DEF Net
<1>3. Net(Committed(record)) = 0
  <2>1. \A t \in Payments : Committed(record)[t] = 0
    BY <1>1 DEF Committed, Nothing
  <2> QED  BY <1>1, <1>2, <2>1, HistoryTypes
<1>4. Net(Moved) = 0 /\ Net(settled) = 0
  <2>1. \A t \in Payments : Moved[t] = 0 /\ settled[t] = 0
    BY <1>1 DEF Moved, Nothing
  <2> QED  BY <1>1, <1>2, <2>1, HistoryTypes
<1>5. StoredBalance = 0
  BY <1>1, <1>3, HistoryTypes
<1> QED  BY <1>1, <1>4, <1>5 DEF BalancesMatchHistory, NoAudit

LEMMA BalancesStep ==
    ASSUME TypeOK, TypeOK', HoldsInv, WaitingHasNoAudit, BalancesMatchHistory, [Next]_vars
    PROVE  BalancesMatchHistory'
<1>1. CASE UNCHANGED vars
  BY <1>1 DEF vars, memory, storage, BalancesMatchHistory, StoredBalance, Committed, Moved, Net,
              OutTotal, InTotal
<1>2. CASE Next
  <2>1. ~halted
    BY <1>2 DEF Next
  <2>2. CASE CrashAndRestart
    BY <2>1, <2>2, RestartBalances
  <2>3. CASE AuditStep
    BY <2>1, <2>3, AuditBalances
  <2>4. ASSUME NEW t \in Payments, Commit(t) PROVE BalancesMatchHistory'
    BY <2>1, <2>4, CommitBalances
  <2>5. ASSUME NEW t \in Payments,
               \/ \E a \in PaymentAmounts : Reserve(t, a)
               \/ \E a \in PaymentAmounts \cup {0} : Shorten(t, a)
               \/ \E cleansStorage \in BOOLEAN : RejectBeforeVote(t, cleansStorage)
               \/ SaveReceipt(t) \/ Vote(t) \/ CoordinatorSigns(t) \/ RejectAfterVote(t)
        PROVE  BalancesMatchHistory'
    BY <2>1, <2>5, QuietPaymentBalances
  <2> QED  BY <1>2, <2>2, <2>3, <2>4, <2>5 DEF Next, PaymentStep, FinishCoordinator
<1> QED  BY <1>1, <1>2

LEMMA BalancesAlways ==
    Spec => [](TypeOK /\ HoldsInv /\ WaitingHasNoAudit /\ BalancesMatchHistory)
<1>1. Init => WaitingHasNoAudit
  BY DEF Init, WaitingHasNoAudit, Idle
<1>2. Init => TypeOK /\ HoldsInv /\ WaitingHasNoAudit /\ BalancesMatchHistory
  BY <1>1, InitType, InitHolds, InitBalances
<1>3. TypeOK /\ HoldsInv /\ WaitingHasNoAudit /\ BalancesMatchHistory /\ [Next]_vars
        => (TypeOK /\ HoldsInv /\ WaitingHasNoAudit /\ BalancesMatchHistory)'
  BY TypeStep, HoldsStep, WaitingStep, BalancesStep
<1> QED  BY <1>2, <1>3, PTL DEF Spec

\* No money appears or is lost: while the line is usable its balance is the sum of
\* what the payments moved, across audits, crashes between vote and commit, and
\* audits that are cancelled or badly signed.
THEOREM MoneyIsConserved == Spec => []BalanceIsHistory
<1>1. TypeOK /\ HoldsInv /\ BalancesMatchHistory => BalanceIsHistory
  BY DEF BalancesMatchHistory, HoldsInv, PendingAuditAlone, BalanceIsHistory, Net
<1> QED  BY <1>1, BalancesAlways, PTL

\* The balance in memory of a usable line is the one a restart computes from the
\* last audit, the receipts and the serialized payments, unless a coordinator is
\* between its signature and its commit.
THEOREM MemoryIsRecoverable == Spec => []MemoryMatchesStorage
<1>1. TypeOK /\ HoldsInv /\ BalancesMatchHistory => MemoryMatchesStorage
  <2> SUFFICES ASSUME TypeOK, HoldsInv, BalancesMatchHistory, state = "Active", ~InsideCoordinator
               PROVE  balance = StoredBalance
    BY DEF MemoryMatchesStorage
  <2>1. ~pendingAudit.present
    BY DEF HoldsInv, PendingAuditAlone
  <2>2. Moved = settled
    BY DEF Moved, InsideCoordinator, TypeOK
  <2> QED  BY <2>1, <2>2 DEF BalancesMatchHistory
<1> QED  BY <1>1, BalancesAlways, PTL

-----------------------------------------------------------------------------
(* The restart *)

\* What is serialized, with the balance the database gives, fits in the limits.
LEMMA SerializedFits ==
    ASSUME TypeOK, HoldsInv, ~halted, ReservedWithinLimits, BalancesMatchHistory,
           ~pendingAudit.present
    PROVE  /\ OutTotal(record) <= AvailableOutgoing(incoming, StoredBalance)
           /\ InTotal(record) <= AvailableIncoming(outgoing, StoredBalance)
<1>1. /\ reserved \in [Payments -> Nat] /\ record \in [Payments -> Nat]
      /\ incoming \in Nat /\ outgoing \in Nat /\ balance \in Int /\ StoredBalance \in Int
      /\ Moved \in [Payments -> Int] /\ settled \in [Payments -> Int]
  BY StoredBalanceIsInt, HistoryTypes DEF TypeOK
<1>2. /\ OutTotal(reserved) \in Nat /\ InTotal(reserved) \in Nat
      /\ OutTotal(record) \in Nat /\ InTotal(record) \in Nat
  BY <1>1, TotalsAreNat
<1>3. \A t \in Payments : record[t] = IF phase[t] = "voted" THEN reserved[t] ELSE 0
  BY <1>1 DEF HoldsInv, PhasesMatchStorage, PhasesMatchReservations
<1>4. /\ OutTotal(reserved) = 0 \/ OutTotal(reserved) <= incoming + balance
      /\ InTotal(reserved) = 0 \/ InTotal(reserved) <= outgoing - balance
  BY <1>1, <1>2, AvailableAmounts DEF ReservedWithinLimits
<1>5. balance = Net(settled) /\ StoredBalance = Net(Moved)
  BY DEF BalancesMatchHistory
<1>6. CASE \A t \in Payments : phase[t] # "signed"
  <2>1. StoredBalance = balance
    <3>1. Moved = settled
      BY <1>6, <1>1 DEF Moved
    <3> QED  BY <1>5, <3>1
  <2>2. \A t \in Payments : record[t] <= reserved[t]
    BY <1>1, <1>3
  <2>3. OutTotal(record) <= OutTotal(reserved) /\ InTotal(record) <= InTotal(reserved)
    BY <1>1, <2>2, TotalsMonotone
  <2>4. /\ OutTotal(record) = 0 \/ OutTotal(record) <= incoming + StoredBalance
        /\ InTotal(record) = 0 \/ InTotal(record) <= outgoing - StoredBalance
    BY <1>1, <1>2, <1>4, <2>1, <2>3
  <2> QED  BY <1>1, <1>2, <2>4, AvailableAmounts
<1>7. ASSUME NEW s \in Payments, phase[s] = "signed"
      PROVE  /\ OutTotal(record) <= AvailableOutgoing(incoming, StoredBalance)
             /\ InTotal(record) <= AvailableIncoming(outgoing, StoredBalance)
  <2> DEFINE rest == [reserved EXCEPT ![s] = 0]
  <2>1. /\ s \in OutgoingPayments /\ settled[s] = 0 /\ receipt[s] = reserved[s]
        /\ reserved[s] > 0 /\ reserved[s] \in Nat
    BY <1>7 DEF HoldsInv, PhasesMatchStorage, PhasesMatchReservations, Holding, TypeOK
  <2>2. StoredBalance = balance - reserved[s]
    <3>1. /\ Moved[s] = reserved[s]
          /\ \A u \in Payments : u # s => Moved[u] = settled[u]
      BY <1>7, <2>1 DEF Moved, HoldsInv, OneCoordinatorInside
    <3>2. Net(Moved) = Net(settled) - Moved[s] + settled[s] /\ Net(settled) \in Int
      BY <1>1, <2>1, <3>1, NetUpdate
    <3> QED  BY <1>1, <1>5, <2>1, <3>1, <3>2
  <2>3. /\ rest \in [Payments -> Nat] /\ rest[s] = 0
        /\ \A u \in Payments : u # s => rest[u] = reserved[u]
    BY <1>1
  <2>4. \A t \in Payments : record[t] <= rest[t]
    BY <1>1, <1>3, <1>7, <2>3
  <2> HIDE DEF rest
  <2>5. OutTotal(rest) = OutTotal(reserved) - reserved[s] /\ InTotal(rest) = InTotal(reserved)
    BY <1>1, <1>2, <2>1, <2>3, TotalsUpdate
  <2>6. OutTotal(record) <= OutTotal(rest) /\ InTotal(record) <= InTotal(rest)
    BY <1>1, <2>3, <2>4, TotalsMonotone
  <2>7. OutTotal(reserved) <= incoming + balance
    BY <2>1, HeldFits
  <2>8. /\ OutTotal(record) <= incoming + StoredBalance
        /\ InTotal(record) = 0 \/ InTotal(record) <= outgoing - StoredBalance
    BY <1>1, <1>2, <1>4, <2>1, <2>2, <2>5, <2>6, <2>7
  <2> QED  BY <1>1, <1>2, <2>8, AvailableAmounts
<1> QED  BY <1>6, <1>7

\* The start-up that follows a crash can reserve again whatever was serialized,
\* when ConflictResolving is not stored and the limits were those both ends signed.
LEMMA SerializedIsRestored ==
    ASSUME TypeOK, HoldsInv, StatesMatch, ReservedWithinLimits, BalancesMatchHistory,
           ~halted, CrashAndRestart, storedState # "ConflictResolving",
           incoming = fullAudit.incoming, outgoing = fullAudit.outgoing
    PROVE  ~halted'
<1> SUFFICES ASSUME ~RestoreSucceeds PROVE FALSE
  BY DEF CrashAndRestart
<1>1. PICK t \in Payments : record[t] # 0
  <2>1. record # Nothing
    BY DEF RestoreSucceeds
  <2> QED  BY <2>1 DEF Nothing, TypeOK
<1>2. reserved[t] # 0
  BY <1>1 DEF HoldsInv, PhasesMatchStorage, PhasesMatchReservations
<1>3. ~pendingAudit.present /\ storedState = "Active"
  BY <1>2 DEF HoldsInv, PendingAuditAlone, StatesMatch
<1>4. /\ OutTotal(record) <= AvailableOutgoing(incoming, StoredBalance)
      /\ InTotal(record) <= AvailableIncoming(outgoing, StoredBalance)
  BY <1>3, SerializedFits
<1> QED  BY <1>3, <1>4 DEF RestoreSucceeds, RestoredState

\* A start-up stops the process only when an audit that lost patience stored
\* ConflictResolving, or a bad signature had moved the limits in memory.
THEOREM HaltsOnlyAfterConflict == Spec => RestartHaltsOnlyAfterConflict
<1>1. ASSUME TypeOK, HoldsInv, StatesMatch, ReservedWithinLimits, BalancesMatchHistory,
             Next, halted'
      PROVE  \/ storedState = "ConflictResolving"
             \/ <<incoming, outgoing>> # <<fullAudit.incoming, fullAudit.outgoing>>
  <2>1. ~halted /\ CrashAndRestart
    BY <1>1 DEF Next
  <2> QED  BY <1>1, <2>1, SerializedIsRestored
<1>2. TypeOK /\ HoldsInv /\ StatesMatch /\ ReservedWithinLimits /\ BalancesMatchHistory
        /\ [Next]_vars
          => [halted' => \/ storedState = "ConflictResolving"
                         \/ <<incoming, outgoing>> # <<fullAudit.incoming, fullAudit.outgoing>>]_vars
  BY <1>1
<1> QED  BY <1>2, StatesAlways, LedgerSafe, BalancesAlways, PTL
         DEF Spec, RestartHaltsOnlyAfterConflict

\* With good signatures a process that stopped at its start has ConflictResolving
\* in its database.
THEOREM HonestHaltsOnlyAfterConflict ==
    ASSUME HonestContractor PROVE Spec => [](halted => storedState = "ConflictResolving")
<1> DEFINE Cause == halted => storedState = "ConflictResolving"
<1>1. Init => Cause
  BY DEF Init
<1>2. ASSUME TypeOK, HoldsInv, StatesMatch, LimitsMatchAudit, ReservedWithinLimits,
             BalancesMatchHistory, Cause, [Next]_vars
      PROVE  Cause'
  <2>1. CASE UNCHANGED vars
    BY <1>2, <2>1 DEF vars, storage
  <2>2. CASE Next /\ ~CrashAndRestart
    BY <2>2 DEF Next
  <2>3. CASE Next /\ CrashAndRestart
    <3>1. ~halted /\ storedState' = storedState
      BY <2>3 DEF Next, CrashAndRestart, storage
    <3>2. CASE pendingAudit.present
      <4>1. record = Nothing
        BY <1>2, <3>1, <3>2, PendingAuditNobodyHolds, NobodyHolds
      <4> QED  BY <2>3, <4>1 DEF CrashAndRestart, RestoreSucceeds
    <3>3. CASE ~pendingAudit.present
      BY <1>2, <2>3, <3>1, <3>3, SerializedIsRestored DEF LimitsMatchAudit
    <3> QED  BY <3>1, <3>2, <3>3
  <2> QED  BY <1>2, <2>1, <2>2, <2>3
<1> HIDE DEF Cause
<1>3. TypeOK /\ HoldsInv /\ StatesMatch /\ LimitsMatchAudit /\ ReservedWithinLimits
        /\ BalancesMatchHistory /\ Cause /\ [Next]_vars => Cause'
  BY <1>2
<1>4. Spec => []Cause
  BY <1>1, <1>3, StatesAlways, LimitsAlways, LedgerSafe, BalancesAlways, PTL DEF Spec
<1> QED  BY <1>4 DEF Cause
=============================================================================
