------------------------- MODULE TrustLineAuditProofs -------------------------
(***************************************************************************)
(* What holds of TrustLineAudit for any requests, amounts, bounds, losses,  *)
(* restarts and payments, while each end works on one audit at a time: the  *)
(* types, and that a line which waits for an audit has one to wait for.     *)
(***************************************************************************)
EXTENDS TrustLineAudit, FiniteSetTheorems, SequenceTheorems, TLAPS

\* Nothing in the code keeps an end from a second audit transaction of its own
\* while the first still runs; with two, an audit may be started on top of one
\* that the contractor has not signed.
OneAudit == \A n \in Nodes : \A t, u \in txs[n] : t = u

Lines  == [state : States, number : 1..MaxAuditNumber, outgoing : TrustAmounts,
           incoming : TrustAmounts, balance : {-1, 0, 1}]
Audits == [terms : AllTerms, full : BOOLEAN]
Txs(n) == [id : TransactionUUIDs[n], request : Requests \cup {ResumedAudit},
           step : {"pending", "response", "contractorPending"}, resumes : BOOLEAN,
           number : 1..MaxAuditNumber, signed : AllTerms \cup NoTerms,
           sent : 0..kMaxCountSendingAttempts, waits : 0..kMaxPendingAttempts,
           contractorWaits : 0..kMaxPendingAttempts + 1]

\* The audits of an end are numbered from 1, and all but the last are complete.
Full(log) == Actual(log).full
Complete(log) == \A i \in 1..Len(log) : log[i].full \/ (i > 1 /\ i = Len(log))
LogOK(log) ==
    /\ log \in Seq(Audits) /\ Len(log) > 0
    /\ \A i \in 1..Len(log) : log[i].terms.number = i
    /\ Complete(log)

\* The line has the number of the last audit, which is complete while the line is in
\* use or reserved.
LineOK(l, log, rs) ==
    /\ l \in Lines /\ l.number = Len(log)
    /\ l.state = "Active" \/ rs => Full(log)

\* A transaction that has yet to start its audit will start the next one, unless
\* the contractor was faster; one that has started it works on the last.
TxOK(n, t, l, log) ==
    /\ t \in Txs(n)
    /\ ~t.resumes => t.request \in Requests
    /\ IF t.step = "pending" THEN t.sent = 0 ELSE t.signed \in AllTerms
    /\ t.step # "pending" /\ ~Full(log) => t.number = Len(log)
    /\ t.step = "pending" /\ ~t.resumes =>
          /\ Full(log) /\ t.number <= Len(log) + 1
          /\ \/ l.state # "AuditPending" \/ t.number = Len(log) + 1
             \/ \E q \in Requests : Refused(q, l)

\* The balance counts a payment once: from the audit after its receipt on, or
\* with the receipt.
PaidOK(n, l, log, rc, rs) ==
    /\ rc \in Nat /\ rs \in BOOLEAN /\ l.balance \in {0, Moved(n)}
    /\ \A i \in 1..Len(log) : /\ log[i].terms.balance \in {0, Moved(n)}
                              /\ rc = 0 \/ i <= rc => log[i].terms.balance = 0
    /\ rc = 0 => l.balance = 0
    /\ rc # 0 => ~rs /\ rc <= Len(log) /\ (~Full(log) => rc < Len(log))

OpenOK(l, log, ts) ==
    l.state = "AuditPending" => \/ ~Full(log)
                                \/ \E t \in ts : t.step = "pending" /\ ~t.resumes
                                \/ \E q \in Requests : Refused(q, l)

EndOK(n, l, log, ts, rc, rs) ==
    /\ LogOK(log) /\ LineOK(l, log, rs) /\ PaidOK(n, l, log, rc, rs)
    /\ \A t \in ts : TxOK(n, t, l, log)
    /\ OpenOK(l, log, ts)

MessageOK(m) ==
    m.type = "audit" =>
        /\ m.to \in Nodes /\ m.id \in TransactionUUIDs[Other(m.to)]
        /\ m.outgoing \in TrustAmounts /\ m.incoming \in TrustAmounts /\ m.signed \in AllTerms

\* The maps of the two ends have an entry for each.
Ends(f) == f = [n \in Nodes |-> f[n]]
EndsInv ==
    /\ Ends(line) /\ Ends(audits) /\ Ends(txs) /\ Ends(receipt) /\ Ends(reserved)
    /\ \A n \in Nodes : EndOK(n, line[n], audits[n], txs[n], receipt[n], reserved[n])

NetInv == \A m \in net : MessageOK(m)

CacheInv ==
    /\ Ends(cache)
    /\ \A n \in Nodes : /\ cache[n].id \in TransactionUUIDs[Other(n)] \cup {"none"}
                         /\ cache[n].signed \in AllTerms \cup NoTerms

PaymentInv ==
    /\ payment \in {"none", "reserving", "reserved", "voted", "cancelled"}
    /\ \A n \in Nodes : receipt[n] # 0 => payment = "voted"

RestInv == /\ pinged \in [Nodes -> BOOLEAN] /\ restarts \in 0..MaxRestarts
           /\ stored \in [Nodes -> States \ {"AuditPending"}]

AuditInv == EndsInv /\ NetInv /\ CacheInv /\ PaymentInv /\ RestInv

-----------------------------------------------------------------------------
(* The two ends, the requests, and the values *)

LEMMA OtherEnd ==
    /\ \A n \in Nodes : Other(n) \in Nodes /\ Other(n) # n
    /\ \A n, m \in Nodes : m # n => m = Other(n)
    /\ \A n \in Nodes : Other(Other(n)) = n
<1>1. ASSUME NEW n \in Nodes
      PROVE  \E m \in Nodes : m # n /\ Nodes = {n, m}
  <2> DEFINE Rest == Nodes \ {n}
  <2>1. IsFiniteSet(Nodes) /\ Cardinality(Nodes) = 2
    BY AuditAssumption
  <2>2. IsFiniteSet(Rest) /\ Cardinality(Rest) = 1
    BY <2>1, FS_RemoveElement
  <2>3. PICK m : Rest = {m}
    <3> HIDE DEF Rest
    <3>1. QED BY <2>2, FS_Singleton
  <2>4. QED BY <2>3
<1>2. ASSUME NEW n \in Nodes PROVE Other(n) \in Nodes /\ Other(n) # n
  <2>1. \E m \in Nodes : m # n
    BY <1>1
  <2>2. QED BY <2>1 DEF Other
<1>3. ASSUME NEW n \in Nodes, NEW m \in Nodes, m # n PROVE m = Other(n)
  BY <1>1, <1>2, <1>3
<1>4. QED BY <1>2, <1>3

LEMMA ConstantTypes ==
    /\ 0 \in TrustAmounts /\ TrustAmounts \subseteq Nat
    /\ MaxAuditNumber \in Nat \ {0} /\ MaxRestarts \in Nat
    /\ kMaxCountSendingAttempts \in Nat \ {0} /\ kMaxPendingAttempts \in Nat \ {0}
    /\ Payer \in Nodes /\ Greater \in Nodes
    /\ \A n \in Nodes : Moved(n) \in {-1, 1} /\ InitialTrust[n] \in TrustAmounts
BY AuditAssumption DEF Moved

LEMMA RequestTypes ==
    ASSUME NEW q \in Requests \cup {ResumedAudit}
    PROVE  q.kind \in {"set", "close", "audit"} /\ q.amount \in TrustAmounts
<1>1. CASE q \in Requests
  BY <1>1, AuditAssumption
<1>2. CASE q = ResumedAudit
  BY <1>2, AuditAssumption DEF ResumedAudit
<1>3. QED BY <1>1, <1>2

\* A request changes the limits of a line and nothing else.
LEMMA RequestedLine ==
    ASSUME NEW q \in Requests, NEW l \in Lines
    PROVE  /\ Requested(q, l) \in Lines
           /\ Requested(q, l).state = l.state /\ Requested(q, l).number = l.number
           /\ Requested(q, l).balance = l.balance
<1>1. q.kind \in {"set", "close", "audit"} /\ q.amount \in TrustAmounts /\ 0 \in TrustAmounts
  BY RequestTypes, ConstantTypes
<1>2. CASE q.kind = "set"
  <2>1. Requested(q, l) = [l EXCEPT !.outgoing = q.amount]
    BY <1>2 DEF Requested
  <2>2. QED BY <1>1, <2>1 DEF Lines
<1>3. CASE q.kind = "close"
  <2>1. Requested(q, l) = [l EXCEPT !.incoming = 0]
    BY <1>3 DEF Requested
  <2>2. QED BY <1>1, <2>1 DEF Lines
<1>4. CASE q.kind = "audit"
  <2>1. Requested(q, l) = l
    BY <1>4 DEF Requested
  <2>2. QED BY <2>1
<1>5. QED BY <1>1, <1>2, <1>3, <1>4

-----------------------------------------------------------------------------
(* The audits of one end *)

LEMMA LastAudit ==
    ASSUME NEW log, LogOK(log)
    PROVE  /\ Len(log) \in Nat \ {0} /\ Actual(log) = log[Len(log)]
           /\ Actual(log) \in Audits /\ Actual(log).terms \in AllTerms
           /\ Actual(log).terms.number = Len(log) /\ Len(log) <= MaxAuditNumber
           /\ Full(log) \in BOOLEAN
           /\ \A i \in 1..Len(log) : log[i] \in Audits
<1>1. Len(log) \in Nat \ {0} /\ \A i \in 1..Len(log) : log[i] \in Audits
  BY LenProperties, ElementOfSeq DEF LogOK
<1>2. log[Len(log)] \in Audits /\ log[Len(log)].terms.number = Len(log)
  BY <1>1 DEF LogOK
<1>3. log[Len(log)].terms \in AllTerms /\ log[Len(log)].full \in BOOLEAN
  BY <1>2 DEF Audits
<1>4. Len(log) \in 1..MaxAuditNumber
  BY <1>2, <1>3 DEF AllTerms
<1>5. QED BY <1>1, <1>2, <1>3, <1>4, ConstantTypes DEF Actual, Full

LEMMA NumbersOf ==
    ASSUME NEW log, LogOK(log)
    PROVE  Numbers(log) = 1..Len(log)
<1>1. \A i \in 1..Len(log) : log[i].terms.number = i
  BY DEF LogOK
<1>2. QED BY <1>1 DEF Numbers

LEMMA AppendLog ==
    ASSUME NEW log, LogOK(log), Full(log),
           NEW a \in Audits, a.terms.number = Len(log) + 1
    PROVE  /\ LogOK(Append(log, a)) /\ Len(Append(log, a)) = Len(log) + 1
           /\ Actual(Append(log, a)) = a
           /\ \A i \in 1..Len(log) : Append(log, a)[i] = log[i]
<1> DEFINE new == Append(log, a)
<1>1. Len(log) \in Nat \ {0} /\ log \in Seq(Audits)
  BY LastAudit DEF LogOK
<1>2. /\ new \in Seq(Audits) /\ Len(new) = Len(log) + 1 /\ new[Len(log) + 1] = a
      /\ \A i \in 1..Len(log) : new[i] = log[i]
  BY <1>1, AppendProperties
<1>3. \A i \in 1..Len(new) : i \in 1..Len(log) \/ i = Len(log) + 1
  BY <1>1, <1>2
<1>4. \A i \in 1..Len(new) : new[i].terms.number = i
  BY <1>2, <1>3 DEF LogOK
<1>5. \A i \in 1..Len(log) : log[i].full
  <2>1. log[Len(log)].full
    BY DEF Full, Actual
  <2>2. QED BY <2>1 DEF LogOK, Complete
<1>6. Complete(new)
  BY <1>1, <1>2, <1>3, <1>5 DEF Complete
<1> HIDE DEF new
<1>7. QED BY <1>1, <1>2, <1>4, <1>6 DEF LogOK, Actual, new

LEMMA CancelledLog ==
    ASSUME NEW log, LogOK(log), ~Full(log)
    PROVE  /\ LogOK(WithoutLast(log)) /\ Full(WithoutLast(log))
           /\ Len(WithoutLast(log)) = Len(log) - 1
           /\ \A i \in 1..Len(log) - 1 : WithoutLast(log)[i] = log[i]
<1> DEFINE new == WithoutLast(log)
<1>1. Len(log) \in Nat \ {0} /\ log \in Seq(Audits) /\ \A i \in 1..Len(log) : log[i] \in Audits
  BY LastAudit DEF LogOK
<1>2. ~log[Len(log)].full
  BY DEF Full, Actual
<1>3. Len(log) > 1
  BY <1>1, <1>2 DEF LogOK, Complete
<1>4. /\ new \in Seq(Audits) /\ Len(new) = Len(log) - 1
      /\ \A i \in 1..Len(log) - 1 : new[i] = log[i]
  <2>1. \A i \in 1..Len(log) - 1 : log[i] \in Audits
    BY <1>1
  <2>2. QED BY <1>1, <1>3, <2>1, SubSeqProperties DEF WithoutLast
<1>5. \A i \in 1..Len(log) - 1 : log[i].full /\ log[i].terms.number = i
  BY <1>1 DEF LogOK, Complete
<1> HIDE DEF new
<1>6. LogOK(new)
  BY <1>1, <1>3, <1>4, <1>5 DEF LogOK, Complete
<1>7. Full(new)
  BY <1>1, <1>3, <1>4, <1>5 DEF Full, Actual
<1>8. QED BY <1>4, <1>6, <1>7 DEF new

LEMMA CompletedLog ==
    ASSUME NEW log, LogOK(log), NEW i \in 1..Len(log)
    PROVE  LET new == [log EXCEPT ![i].full = TRUE] IN
           /\ LogOK(new) /\ Len(new) = Len(log)
           /\ \A j \in 1..Len(log) : new[j].terms = log[j].terms
           /\ Full(log) \/ i = Len(log) => Full(new)
<1> DEFINE new == [log EXCEPT ![i].full = TRUE]
           a == [log[i] EXCEPT !.full = TRUE]
<1>1. Len(log) \in Nat \ {0} /\ log \in Seq(Audits) /\ \A j \in 1..Len(log) : log[j] \in Audits
  BY LastAudit DEF LogOK
<1>2. a \in Audits /\ a.terms = log[i].terms /\ a.full
  BY <1>1 DEF Audits
<1>3. new = [log EXCEPT ![i] = a]
  OBVIOUS
<1> HIDE DEF a, new
<1>4. /\ new \in Seq(Audits) /\ Len(new) = Len(log)
      /\ \A j \in 1..Len(log) : new[j] = IF j = i THEN a ELSE log[j]
  <2>1. /\ [log EXCEPT ![i] = a] \in Seq(Audits) /\ Len([log EXCEPT ![i] = a]) = Len(log)
        /\ \A j \in 1..Len(log) : [log EXCEPT ![i] = a][j] = IF j = i THEN a ELSE log[j]
    BY <1>1, <1>2, ExceptSeq
  <2>2. QED BY <1>3, <2>1
<1>5. \A j \in 1..Len(log) : new[j].terms = log[j].terms /\ (log[j].full => new[j].full)
  BY <1>2, <1>4
<1>6. LogOK(new)
  BY <1>1, <1>4, <1>5 DEF LogOK, Complete
<1>7. Full(log) \/ i = Len(log) => Full(new)
  BY <1>1, <1>2, <1>4, <1>5 DEF Full, Actual
<1>8. QED BY <1>4, <1>5, <1>6, <1>7 DEF new

-----------------------------------------------------------------------------
(* The balance, and what one end becomes *)

LEMMA PaidAppended ==
    ASSUME NEW n, NEW l, NEW log, NEW rc, LogOK(log), Full(log), PaidOK(n, l, log, rc, FALSE),
           NEW a \in Audits, a.terms.number = Len(log) + 1, a.terms.balance = l.balance,
           NEW l2, l2.balance = l.balance
    PROVE  PaidOK(n, l2, Append(log, a), rc, FALSE)
<1> DEFINE new == Append(log, a)
<1>1. /\ Len(new) = Len(log) + 1 /\ Actual(new) = a /\ Len(log) \in Nat \ {0}
      /\ \A i \in 1..Len(log) : new[i] = log[i]
  BY AppendLog, LastAudit
<1>2. new[Len(log) + 1] = a
  BY <1>1 DEF Actual
<1> HIDE DEF new
<1>3. rc \in Nat /\ (rc # 0 => rc <= Len(log)) /\ l2.balance \in {0, Moved(n)}
      /\ (rc = 0 => l2.balance = 0)
  BY DEF PaidOK
<1>4. ASSUME NEW i \in 1..Len(new)
      PROVE  /\ new[i].terms.balance \in {0, Moved(n)}
             /\ rc = 0 \/ i <= rc => new[i].terms.balance = 0
  <2>1. CASE i \in 1..Len(log)
    <3>1. /\ log[i].terms.balance \in {0, Moved(n)}
          /\ rc = 0 \/ i <= rc => log[i].terms.balance = 0
      BY <2>1 DEF PaidOK
    <3>2. QED BY <1>1, <2>1, <3>1
  <2>2. CASE i = Len(log) + 1
    <3>1. new[i].terms.balance = l.balance
      BY <1>2, <2>2
    <3>2. i <= rc => rc = 0
      BY <1>1, <1>3, <2>2
    <3>3. QED BY <1>3, <3>1, <3>2
  <2>3. QED BY <1>1, <2>1, <2>2
<1>5. rc # 0 => rc <= Len(new) /\ rc < Len(new)
  BY <1>1, <1>3
<1>6. QED BY <1>3, <1>4, <1>5 DEF PaidOK, new

\* A line read back from the database with the receipts.
LEMMA StoredLine ==
    ASSUME NEW n \in Nodes, NEW l \in Lines, NEW log, LogOK(log),
           NEW l0, NEW rs, PaidOK(n, l0, log, receipt[n], rs)
    PROVE  LET new == FromStorage(n, l, log) IN
           /\ new \in Lines /\ new.number = Len(log) /\ new.state = l.state
           /\ new.balance \in {0, Moved(n)} /\ (receipt[n] = 0 => new.balance = 0)
<1> DEFINE actual == Actual(log).terms
           b == actual.balance + ReceiptsUnder(n, actual.number)
           new == FromStorage(n, l, log)
<1>1. /\ actual \in AllTerms /\ actual.number = Len(log) /\ actual = log[Len(log)].terms
      /\ Len(log) \in Nat \ {0}
  BY LastAudit
<1>2. /\ actual.balance \in {0, Moved(n)} /\ Moved(n) \in {-1, 1} /\ receipt[n] \in Nat
      /\ receipt[n] = 0 \/ Len(log) <= receipt[n] => actual.balance = 0
  BY <1>1, ConstantTypes DEF PaidOK
<1>3. new = [l EXCEPT !.number = actual.number, !.outgoing = actual.outgoing,
                      !.incoming = actual.incoming, !.balance = b]
  BY DEF FromStorage
<1>4. ReceiptsUnder(n, actual.number) = IF receipt[n] = Len(log) THEN Moved(n) ELSE 0
  BY <1>1 DEF ReceiptsUnder
<1> HIDE DEF actual
<1>5. b \in {0, Moved(n)} /\ b \in {-1, 0, 1} /\ (receipt[n] = 0 => b = 0)
  BY <1>1, <1>2, <1>4
<1> HIDE DEF b, new
<1>6. /\ new \in Lines /\ new.number = actual.number /\ new.state = l.state
      /\ new.balance = b
  BY <1>1, <1>3, <1>5 DEF Lines, AllTerms
<1>7. QED BY <1>1, <1>5, <1>6 DEF new

\* A transaction stays in order when the contractor's audit is signed, or the own
\* one cancelled.
LEMMA TxKept ==
    ASSUME NEW n, NEW l, NEW log, NEW t, TxOK(n, t, l, log), LogOK(log),
           NEW l2, l2.state # "AuditPending",
           NEW log2, LogOK(log2), Full(log2), Full(log) => Len(log) <= Len(log2)
    PROVE  TxOK(n, t, l2, log2)
<1>1. Len(log) \in Nat /\ Len(log2) \in Nat
  BY LastAudit
<1>2. t.number \in Nat
  BY DEF TxOK, Txs
<1>3. t.step = "pending" /\ ~t.resumes => t.number <= Len(log2) + 1
  <2>1. t.step = "pending" /\ ~t.resumes => Full(log) /\ t.number <= Len(log) + 1
    BY DEF TxOK
  <2>2. QED BY <1>1, <1>2, <2>1
<1>4. /\ t \in Txs(n) /\ (~t.resumes => t.request \in Requests)
      /\ IF t.step = "pending" THEN t.sent = 0 ELSE t.signed \in AllTerms
  BY DEF TxOK
<1>5. QED BY <1>3, <1>4 DEF TxOK

LEMMA MessageSent ==
    ASSUME NEW n \in Nodes, NEW t, t.id \in TransactionUUIDs[n], t.signed \in AllTerms,
           NEW l \in Lines
    PROVE  MessageOK(AuditMessage(n, t, l))
<1>1. Other(n) \in Nodes /\ Other(Other(n)) = n
  BY OtherEnd
<1>2. l.outgoing \in TrustAmounts /\ l.incoming \in TrustAmounts
  BY DEF Lines
<1> DEFINE m == AuditMessage(n, t, l)
<1>3. /\ m.to = Other(n) /\ m.id = t.id /\ m.signed = t.signed
      /\ m.outgoing = l.outgoing /\ m.incoming = l.incoming
  BY DEF AuditMessage
<1> HIDE DEF m
<1>4. MessageOK(m)
  BY <1>1, <1>2, <1>3 DEF MessageOK
<1>5. QED BY <1>4 DEF m

LEMMA ResponseSent ==
    ASSUME NEW n, NEW id, NEW state, NEW terms
    PROVE  MessageOK(AuditResponse(n, id, state, terms))
BY DEF MessageOK, AuditResponse

\* What an end becomes that signs and sends its half of an audit.
LEMMA HalfSaved ==
    ASSUME NEW n \in Nodes, NEW l \in Lines, NEW log, LogOK(log), Full(log), l.number = Len(log),
           NEW rc, PaidOK(n, l, log, rc, FALSE),
           NEW t \in Txs(n), ~t.resumes, t.request \in Requests, t.number = Len(log) + 1,
           NEW asked, asked = [Requested(t.request, l) EXCEPT !.state = "AuditPending",
                                                              !.number = t.number],
           NEW own, own = OwnTerms(t.number, asked),
           NEW u, u = [t EXCEPT !.step = "response", !.signed = own, !.sent = 1]
    PROVE  /\ EndOK(n, asked, Append(log, [terms |-> own, full |-> FALSE]), {u}, rc, FALSE)
           /\ MessageOK(AuditMessage(n, u, asked))
<1> DEFINE r == Requested(t.request, l)
           a == [terms |-> own, full |-> FALSE]
           new == Append(log, a)
<1>1. r \in Lines /\ r.balance = l.balance
  BY RequestedLine
<1>2. t.number \in 1..MaxAuditNumber /\ Len(log) \in Nat
  BY LastAudit DEF Txs
<1> HIDE DEF r
<1>3. /\ asked \in Lines /\ asked.number = t.number /\ asked.balance = l.balance
      /\ asked.state = "AuditPending"
  <2>1. asked = [r EXCEPT !.state = "AuditPending", !.number = t.number]
    BY DEF r
  <2>2. QED BY <1>1, <1>2, <2>1 DEF Lines, States
<1>4. own \in AllTerms /\ own.number = t.number /\ own.balance = l.balance
  BY <1>2, <1>3 DEF OwnTerms, AllTerms, Lines
<1>5. a \in Audits /\ a.terms = own /\ a.full = FALSE
  BY <1>4 DEF Audits
<1> HIDE DEF a
<1>6. LogOK(new) /\ Len(new) = Len(log) + 1 /\ Actual(new) = a
  BY <1>4, <1>5, AppendLog
<1>7. PaidOK(n, asked, new, rc, FALSE)
  BY <1>3, <1>4, <1>5, PaidAppended
<1> HIDE DEF new
<1>8. ~Full(new)
  BY <1>5, <1>6 DEF Full
<1>9. /\ u \in Txs(n) /\ u.step = "response" /\ u.signed = own /\ u.number = t.number
      /\ u.resumes = t.resumes /\ u.request = t.request /\ u.id = t.id
  <2>1. 1 \in 0..kMaxCountSendingAttempts
    BY ConstantTypes
  <2>2. QED BY <1>4, <2>1 DEF Txs
<1>10. TxOK(n, u, asked, new)
  BY <1>4, <1>6, <1>9 DEF TxOK
<1>11. LineOK(asked, new, FALSE)
  BY <1>3, <1>6 DEF LineOK
<1>12. OpenOK(asked, new, {u})
  BY <1>8 DEF OpenOK
<1>13. EndOK(n, asked, new, {u}, rc, FALSE)
  BY <1>6, <1>7, <1>10, <1>11, <1>12 DEF EndOK
<1>14. u.id \in TransactionUUIDs[n]
  BY <1>9 DEF Txs
<1>15. MessageOK(AuditMessage(n, u, asked))
  BY <1>3, <1>4, <1>9, <1>14, MessageSent
<1>16. QED BY <1>13, <1>15 DEF new, a

\* What an end becomes that gets the contractor's half.
LEMMA HalfCompleted ==
    ASSUME NEW n \in Nodes, NEW l, NEW log, NEW ts, NEW rc, NEW rs, EndOK(n, l, log, ts, rc, rs),
           NEW t \in ts, t.step = "response", t.number \in 1..Len(log)
    PROVE  EndOK(n, Completed(l), [log EXCEPT ![t.number].full = TRUE], {}, rc, rs)
<1> DEFINE new == [log EXCEPT ![t.number].full = TRUE]
           c == Completed(l)
<1>1. /\ LogOK(log) /\ LineOK(l, log, rs) /\ PaidOK(n, l, log, rc, rs) /\ TxOK(n, t, l, log)
  BY DEF EndOK
<1>2. Full(log) \/ t.number = Len(log)
  BY <1>1 DEF TxOK
<1>3. /\ LogOK(new) /\ Len(new) = Len(log) /\ Full(new)
      /\ \A j \in 1..Len(log) : new[j].terms = log[j].terms
  BY <1>1, <1>2, CompletedLog
<1> HIDE DEF new
<1>4. /\ c \in Lines /\ c.state \in {"Archived", "Active"} /\ c.number = l.number
      /\ c.balance = l.balance
  <2>1. l \in Lines
    BY <1>1 DEF LineOK
  <2>2. QED BY <2>1 DEF Completed, Lines, States
<1> HIDE DEF c
<1>5. PaidOK(n, c, new, rc, rs)
  BY <1>1, <1>3, <1>4 DEF PaidOK
<1>6. LineOK(c, new, rs)
  BY <1>1, <1>3, <1>4 DEF LineOK
<1>7. OpenOK(c, new, {})
  BY <1>4 DEF OpenOK
<1>8. EndOK(n, c, new, {}, rc, rs)
  BY <1>3, <1>5, <1>6, <1>7 DEF EndOK
<1>9. QED BY <1>8 DEF new, c

\* What an end becomes that has its own audit suspended or cancelled.
LEMMA AfterCancel ==
    ASSUME NEW n \in Nodes,
           EndOK(n, line[n], audits[n], txs[n], receipt[n], reserved[n])
    PROVE  LET l == LineAfterCancel(n)
               log == AuditsAfterCancel(n)
           IN  /\ EndOK(n, l, log, txs[n], receipt[n], reserved[n])
               /\ l.state # "AuditPending" /\ (l.state = "Active" => Full(log))
<1> DEFINE rs == reserved[n]
           rc == receipt[n]
           l0 == line[n]
           log0 == audits[n]
           l == LineAfterCancel(n)
           log == AuditsAfterCancel(n)
<1>1. /\ LogOK(log0) /\ LineOK(l0, log0, rs) /\ PaidOK(n, l0, log0, rc, rs) /\ l0 \in Lines
      /\ \A t \in txs[n] : TxOK(n, t, l0, log0)
  BY DEF EndOK, LineOK
<1>2. CASE CancelsOwn(n)
  <2>1. l0.state = "AuditPending" /\ ~Full(log0)
    BY <1>2 DEF CancelsOwn, Full
  <2> DEFINE cut == WithoutLast(log0)
             back == FromStorage(n, l0, cut)
  <2>2. /\ LogOK(cut) /\ Full(cut) /\ Len(cut) = Len(log0) - 1 /\ Len(log0) \in Nat
        /\ \A i \in 1..Len(cut) : cut[i] = log0[i]
    BY <1>1, <2>1, CancelledLog, LastAudit
  <2>3. log = cut /\ l = [back EXCEPT !.state = "Active"]
    BY <1>2 DEF AuditsAfterCancel, LineAfterCancel
  <2> HIDE DEF cut, l, log
  <2>4. PaidOK(n, l0, cut, rc, rs)
    <3>1. rc \in Nat /\ (rc # 0 => ~rs /\ rc < Len(log0))
      BY <1>1, <2>1 DEF PaidOK
    <3>2. rc # 0 => rc <= Len(cut)
      BY <2>2, <3>1
    <3>3. \A i \in 1..Len(cut) : i \in 1..Len(log0)
      BY <2>2
    <3>4. QED BY <1>1, <2>2, <3>1, <3>2, <3>3 DEF PaidOK
  <2>5. /\ back \in Lines /\ back.number = Len(cut)
        /\ back.balance \in {0, Moved(n)} /\ (rc = 0 => back.balance = 0)
    BY <1>1, <2>2, <2>4, StoredLine
  <2> HIDE DEF back
  <2>6. /\ l \in Lines /\ l.number = Len(cut) /\ l.state = "Active" /\ l.balance = back.balance
    BY <2>3, <2>5 DEF Lines, States
  <2>7. PaidOK(n, l, cut, rc, rs)
    BY <2>4, <2>5, <2>6 DEF PaidOK
  <2>8. LineOK(l, cut, rs)
    BY <2>2, <2>6 DEF LineOK
  <2>9. \A t \in txs[n] : TxOK(n, t, l, cut)
    <3>1. SUFFICES ASSUME NEW t \in txs[n] PROVE TxOK(n, t, l, cut)
      OBVIOUS
    <3>2. QED BY <1>1, <2>1, <2>2, <2>6, TxKept
  <2>10. OpenOK(l, cut, txs[n])
    BY <2>6 DEF OpenOK
  <2>11. QED BY <2>2, <2>3, <2>6, <2>7, <2>8, <2>9, <2>10 DEF EndOK, l, log
<1>3. CASE SuspendsOwn(n)
  <2>1. l0.state = "AuditPending" /\ Full(log0)
    BY <1>3 DEF SuspendsOwn, Full
  <2>2. log = log0 /\ l = [l0 EXCEPT !.state = "Active"]
    BY <1>3 DEF AuditsAfterCancel, LineAfterCancel, SuspendsOwn, CancelsOwn
  <2> HIDE DEF l, log
  <2>3. /\ l \in Lines /\ l.number = l0.number /\ l.state = "Active" /\ l.balance = l0.balance
    BY <1>1, <2>2 DEF Lines, States
  <2>4. PaidOK(n, l, log0, rc, rs)
    BY <1>1, <2>3 DEF PaidOK
  <2>5. LineOK(l, log0, rs)
    BY <1>1, <2>1, <2>3 DEF LineOK
  <2>6. \A t \in txs[n] : TxOK(n, t, l, log0)
    <3>1. SUFFICES ASSUME NEW t \in txs[n] PROVE TxOK(n, t, l, log0)
      OBVIOUS
    <3>2. Len(log0) <= Len(log0)
      BY <1>1, LastAudit
    <3>3. QED BY <1>1, <2>1, <2>3, <3>2, TxKept
  <2>7. OpenOK(l, log0, txs[n])
    BY <2>3 DEF OpenOK
  <2>8. QED BY <1>1, <2>1, <2>2, <2>3, <2>4, <2>5, <2>6, <2>7 DEF EndOK, l, log
<1>4. CASE ~CancelsOwn(n) /\ ~SuspendsOwn(n)
  <2>1. l0.state # "AuditPending"
    BY <1>4 DEF CancelsOwn, SuspendsOwn
  <2>2. log = log0 /\ l = l0
    BY <1>4 DEF AuditsAfterCancel, LineAfterCancel
  <2>3. l0.state = "Active" => Full(log0)
    BY <1>1 DEF LineOK
  <2>4. QED BY <2>1, <2>2, <2>3
<1>5. QED BY <1>2, <1>3, <1>4

\* What an end becomes that signs the contractor's audit, or takes over its
\* amounts and then finds that they are not what was signed.
LEMMA ContractorSigned ==
    ASSUME NEW n \in Nodes, NEW l, NEW log, NEW ts, NEW rc, EndOK(n, l, log, ts, rc, FALSE),
           l.state = "Active", Full(log),
           NEW m, m.outgoing \in TrustAmounts, m.signed \in AllTerms,
           NEW adopted, adopted = Adopted(l, m),
           NEW own, own = OwnTerms(l.number + 1, adopted)
    PROVE  /\ EndOK(n, adopted, log, ts, rc, FALSE)
           /\ m.signed = ContractorTerms(l.number + 1, adopted) =>
                 /\ own \in AllTerms
                 /\ EndOK(n, Completed([adopted EXCEPT !.number = l.number + 1]),
                          Append(log, [terms |-> own, full |-> TRUE]), ts, rc, FALSE)
<1>1. /\ LogOK(log) /\ LineOK(l, log, FALSE) /\ PaidOK(n, l, log, rc, FALSE)
      /\ l \in Lines /\ l.number = Len(log) /\ Len(log) \in Nat
      /\ \A t \in ts : TxOK(n, t, l, log)
  BY LastAudit DEF EndOK, LineOK
<1>2. /\ adopted \in Lines /\ adopted.state = "Active" /\ adopted.number = l.number
      /\ adopted.balance = l.balance
  <2>1. 0 \in TrustAmounts
    BY ConstantTypes
  <2>2. QED BY <1>1, <2>1 DEF Adopted, Lines
<1>3. \A t \in ts : TxOK(n, t, adopted, log)
  <2>1. SUFFICES ASSUME NEW t \in ts PROVE TxOK(n, t, adopted, log)
    OBVIOUS
  <2>2. Len(log) <= Len(log) /\ adopted.state # "AuditPending"
    BY <1>1, <1>2
  <2>3. QED BY <1>1, <2>2, TxKept
<1>4. EndOK(n, adopted, log, ts, rc, FALSE)
  <2>1. LineOK(adopted, log, FALSE)
    BY <1>1, <1>2 DEF LineOK
  <2>2. PaidOK(n, adopted, log, rc, FALSE)
    BY <1>1, <1>2 DEF PaidOK
  <2>3. OpenOK(adopted, log, ts)
    BY <1>2 DEF OpenOK
  <2>4. QED BY <1>1, <1>3, <2>1, <2>2, <2>3 DEF EndOK
<1>5. ASSUME m.signed = ContractorTerms(l.number + 1, adopted)
      PROVE  /\ own \in AllTerms
             /\ EndOK(n, Completed([adopted EXCEPT !.number = l.number + 1]),
                      Append(log, [terms |-> own, full |-> TRUE]), ts, rc, FALSE)
  <2> DEFINE number == l.number + 1
             renumbered == [adopted EXCEPT !.number = number]
             c == Completed(renumbered)
             a == [terms |-> own, full |-> TRUE]
             new == Append(log, a)
  <2>1. number \in 1..MaxAuditNumber
    <3>1. m.signed.number = number
      BY <1>5 DEF ContractorTerms
    <3>2. m.signed.number \in 1..MaxAuditNumber
      BY DEF AllTerms
    <3>3. QED BY <3>1, <3>2
  <2> HIDE DEF number
  <2>2. own \in AllTerms /\ own.number = number /\ own.balance = l.balance
    <3>1. own = OwnTerms(number, adopted)
      BY DEF number
    <3>2. QED BY <1>2, <2>1, <3>1 DEF OwnTerms, AllTerms, Lines
  <2>3. /\ renumbered \in Lines /\ renumbered.number = number /\ renumbered.balance = l.balance
    BY <1>2, <2>1 DEF Lines
  <2> HIDE DEF renumbered
  <2>4. /\ c \in Lines /\ c.state \in {"Archived", "Active"} /\ c.number = number
        /\ c.balance = l.balance
    BY <2>3 DEF Completed, Lines, States
  <2> HIDE DEF c
  <2>5. a \in Audits /\ a.terms = own /\ a.full = TRUE
    BY <2>2 DEF Audits
  <2> HIDE DEF a
  <2>6. a.terms.number = Len(log) + 1
    BY <1>1, <2>2, <2>5 DEF number
  <2>7. LogOK(new) /\ Len(new) = Len(log) + 1 /\ Actual(new) = a
    BY <1>1, <2>5, <2>6, AppendLog
  <2>8. PaidOK(n, c, new, rc, FALSE)
    BY <1>1, <2>2, <2>4, <2>5, <2>6, PaidAppended
  <2> HIDE DEF new
  <2>9. Full(new)
    BY <2>5, <2>7 DEF Full
  <2>10. LineOK(c, new, FALSE)
    BY <1>1, <2>4, <2>7, <2>9 DEF LineOK, number
  <2>11. \A t \in ts : TxOK(n, t, c, new)
    <3>1. SUFFICES ASSUME NEW t \in ts PROVE TxOK(n, t, c, new)
      OBVIOUS
    <3>2. Len(log) <= Len(new) /\ c.state # "AuditPending"
      BY <1>1, <2>4, <2>7
    <3>3. QED BY <1>1, <2>7, <2>9, <3>2, TxKept
  <2>12. OpenOK(c, new, ts)
    BY <2>4 DEF OpenOK
  <2>13. EndOK(n, c, new, ts, rc, FALSE)
    BY <2>7, <2>8, <2>10, <2>11, <2>12 DEF EndOK
  <2>14. QED BY <2>2, <2>13 DEF new, a, c, renumbered, number
<1>6. QED BY <1>4, <1>5

-----------------------------------------------------------------------------
(* Steps of one end *)

\* One end changes, the other does not.
LEMMA EndChanges ==
    ASSUME EndsInv, NEW n \in Nodes, NEW l, NEW log, NEW ts, NEW rc, NEW rs,
           line' = [line EXCEPT ![n] = l], audits' = [audits EXCEPT ![n] = log],
           txs' = [txs EXCEPT ![n] = ts], receipt' = [receipt EXCEPT ![n] = rc],
           reserved' = [reserved EXCEPT ![n] = rs], EndOK(n, l, log, ts, rc, rs)
    PROVE  EndsInv'
<1>1. Ends(line) /\ Ends(audits) /\ Ends(txs) /\ Ends(receipt) /\ Ends(reserved)
  BY DEF EndsInv
<1>2. Ends(line)' /\ Ends(audits)' /\ Ends(txs)' /\ Ends(receipt)' /\ Ends(reserved)'
  BY <1>1 DEF Ends
<1>3. ASSUME NEW m \in Nodes
      PROVE  EndOK(m, line[m], audits[m], txs[m], receipt[m], reserved[m])'
  <2>1. EndOK(m, line'[m], audits'[m], txs'[m], receipt'[m], reserved'[m])
    <3>1. CASE m = n
      <4>1. /\ line'[m] = l /\ audits'[m] = log /\ txs'[m] = ts
            /\ receipt'[m] = rc /\ reserved'[m] = rs
        BY <1>1, <3>1 DEF Ends
      <4>2. QED BY <3>1, <4>1
    <3>2. CASE m # n
      <4>1. /\ line'[m] = line[m] /\ audits'[m] = audits[m] /\ txs'[m] = txs[m]
            /\ receipt'[m] = receipt[m] /\ reserved'[m] = reserved[m]
        BY <1>1, <3>2 DEF Ends
      <4>2. EndOK(m, line[m], audits[m], txs[m], receipt[m], reserved[m])
        BY DEF EndsInv
      <4>3. QED BY <4>1, <4>2
    <3>3. QED BY <3>1, <3>2
  <2>2. QED BY <2>1 DEF EndOK, LineOK, PaidOK, OpenOK, TxOK, Txs, Moved, Refused
<1>4. QED BY <1>2, <1>3 DEF EndsInv

LEMMA Same ==
    ASSUME NEW f, Ends(f), NEW n \in Nodes
    PROVE  f = [f EXCEPT ![n] = f[n]]
<1>1. f = [m \in Nodes |-> f[m]]
  BY DEF Ends
<1>2. QED BY <1>1

\* Only the transactions of one end change.
LEMMA TxsChange ==
    ASSUME EndsInv, NEW n \in Nodes, NEW ts, txs' = [txs EXCEPT ![n] = ts],
           UNCHANGED <<line, audits, receipt, reserved>>,
           EndOK(n, line[n], audits[n], ts, receipt[n], reserved[n])
    PROVE  EndsInv'
<1>1. Ends(line) /\ Ends(audits) /\ Ends(txs) /\ Ends(receipt) /\ Ends(reserved)
  BY DEF EndsInv
<1>2. Ends(line)' /\ Ends(audits)' /\ Ends(txs)' /\ Ends(receipt)' /\ Ends(reserved)'
  BY <1>1 DEF Ends
<1>3. ASSUME NEW m \in Nodes
      PROVE  EndOK(m, line[m], audits[m], txs[m], receipt[m], reserved[m])'
  <2>1. EndOK(m, line[m], audits[m], txs'[m], receipt[m], reserved[m])
    BY <1>1 DEF EndsInv, Ends
  <2>2. QED BY <2>1 DEF EndOK, LineOK, PaidOK, OpenOK, TxOK, Txs, Moved, Refused
<1>4. QED BY <1>2, <1>3 DEF EndsInv

\* Only the line and the audits of one end change.
LEMMA LineChanges ==
    ASSUME EndsInv, NEW n \in Nodes, NEW l, NEW log, line' = [line EXCEPT ![n] = l],
           audits' = [audits EXCEPT ![n] = log], UNCHANGED <<txs, receipt, reserved>>,
           EndOK(n, l, log, txs[n], receipt[n], reserved[n])
    PROVE  EndsInv'
<1>1. Ends(line) /\ Ends(audits) /\ Ends(txs) /\ Ends(receipt) /\ Ends(reserved)
  BY DEF EndsInv
<1>2. Ends(line)' /\ Ends(audits)' /\ Ends(txs)' /\ Ends(receipt)' /\ Ends(reserved)'
  BY <1>1 DEF Ends
<1>3. ASSUME NEW m \in Nodes
      PROVE  EndOK(m, line[m], audits[m], txs[m], receipt[m], reserved[m])'
  <2>1. EndOK(m, line'[m], audits'[m], txs[m], receipt[m], reserved[m])
    BY <1>1 DEF EndsInv, Ends
  <2>2. QED BY <2>1 DEF EndOK, LineOK, PaidOK, OpenOK, TxOK, Txs, Moved, Refused
<1>4. QED BY <1>2, <1>3 DEF EndsInv

LEMMA EndsStay ==
    ASSUME EndsInv, UNCHANGED <<line, audits, txs, receipt, reserved>>
    PROVE  EndsInv'
BY DEF EndsInv, Ends, EndOK, LineOK, PaidOK, OpenOK, TxOK, Txs, Moved, Refused

\* The end with its invariant, for the actions of one end.
LEMMA EndOf ==
    ASSUME EndsInv, NEW n \in Nodes
    PROVE  /\ EndOK(n, line[n], audits[n], txs[n], receipt[n], reserved[n])
           /\ LogOK(audits[n]) /\ LineOK(line[n], audits[n], reserved[n])
           /\ PaidOK(n, line[n], audits[n], receipt[n], reserved[n])
           /\ line[n] \in Lines /\ line[n].number = Len(audits[n])
           /\ line[n].number \in 1..MaxAuditNumber
           /\ \A t \in txs[n] : TxOK(n, t, line[n], audits[n]) /\ t \in Txs(n)
           /\ OpenOK(line[n], audits[n], txs[n])
           /\ Ends(line) /\ Ends(audits) /\ Ends(txs) /\ Ends(receipt) /\ Ends(reserved)
           /\ line = [line EXCEPT ![n] = line[n]] /\ audits = [audits EXCEPT ![n] = audits[n]]
           /\ txs = [txs EXCEPT ![n] = txs[n]] /\ receipt = [receipt EXCEPT ![n] = receipt[n]]
           /\ reserved = [reserved EXCEPT ![n] = reserved[n]]
<1>1. /\ EndOK(n, line[n], audits[n], txs[n], receipt[n], reserved[n])
      /\ Ends(line) /\ Ends(audits) /\ Ends(txs) /\ Ends(receipt) /\ Ends(reserved)
  BY DEF EndsInv
<1>2. /\ LogOK(audits[n]) /\ LineOK(line[n], audits[n], reserved[n])
      /\ PaidOK(n, line[n], audits[n], receipt[n], reserved[n])
      /\ \A t \in txs[n] : TxOK(n, t, line[n], audits[n])
      /\ OpenOK(line[n], audits[n], txs[n])
  BY <1>1 DEF EndOK
<1>3. line[n] \in Lines /\ line[n].number = Len(audits[n])
  BY <1>2 DEF LineOK
<1>4. line[n].number \in 1..MaxAuditNumber
  BY <1>3 DEF Lines
<1>5. \A t \in txs[n] : t \in Txs(n)
  BY <1>2 DEF TxOK
<1>6. /\ line = [line EXCEPT ![n] = line[n]] /\ audits = [audits EXCEPT ![n] = audits[n]]
      /\ txs = [txs EXCEPT ![n] = txs[n]] /\ receipt = [receipt EXCEPT ![n] = receipt[n]]
      /\ reserved = [reserved EXCEPT ![n] = reserved[n]]
  BY <1>1, Same
<1>7. QED BY <1>1, <1>2, <1>3, <1>4, <1>5, <1>6

\* The transactions of an end while it works on one audit.
LEMMA OnlyTransaction ==
    ASSUME EndsInv, OneAudit', NEW n \in Nodes, NEW t, NEW u, Becomes(n, t, u)
    PROVE  txs' = [txs EXCEPT ![n] = {u}]
<1>1. Ends(txs)
  BY DEF EndsInv
<1>2. txs' = [txs EXCEPT ![n] = (txs[n] \ {t}) \cup {u}]
  BY DEF Becomes
<1>3. txs'[n] = (txs[n] \ {t}) \cup {u}
  BY <1>1, <1>2 DEF Ends
<1>4. \A x, y \in txs'[n] : x = y
  BY DEF OneAudit
<1>5. (txs[n] \ {t}) \cup {u} = {u}
  BY <1>3, <1>4
<1>6. QED BY <1>2, <1>5

LEMMA NoTransaction ==
    ASSUME EndsInv, OneAudit, NEW n \in Nodes, NEW t \in txs[n], Stops(n, t)
    PROVE  txs' = [txs EXCEPT ![n] = {}] /\ txs[n] = {t}
<1>1. \A x \in txs[n] : x = t
  BY DEF OneAudit
<1>2. txs[n] \ {t} = {} /\ txs[n] = {t}
  BY <1>1
<1>3. QED BY <1>2 DEF Stops

\* Without its transactions an end is as good as before when its line is not
\* waiting, has its audit in the database, or was refused.
LEMMA Stopped ==
    ASSUME NEW n, NEW l, NEW log, NEW ts, NEW rc, NEW rs, EndOK(n, l, log, ts, rc, rs),
           l.state = "AuditPending" => ~Full(log) \/ \E q \in Requests : Refused(q, l)
    PROVE  EndOK(n, l, log, {}, rc, rs)
BY DEF EndOK, OpenOK

LEMMA InConflict ==
    ASSUME NEW n, NEW l, NEW log, NEW ts, NEW rc, NEW rs, EndOK(n, l, log, ts, rc, rs)
    PROVE  EndOK(n, [l EXCEPT !.state = "ConflictResolving"], log, {}, rc, rs)
<1> DEFINE c == [l EXCEPT !.state = "ConflictResolving"]
<1>1. LineOK(l, log, rs) /\ PaidOK(n, l, log, rc, rs) /\ LogOK(log) /\ l \in Lines
  BY DEF EndOK, LineOK
<1>2. /\ c \in Lines /\ c.state = "ConflictResolving" /\ c.number = l.number
      /\ c.balance = l.balance
  BY <1>1 DEF Lines, States
<1> HIDE DEF c
<1>3. LineOK(c, log, rs)
  BY <1>1, <1>2 DEF LineOK
<1>4. PaidOK(n, c, log, rc, rs)
  BY <1>1, <1>2 DEF PaidOK
<1>5. OpenOK(c, log, {})
  BY <1>2 DEF OpenOK
<1>6. EndOK(n, c, log, {}, rc, rs)
  BY <1>1, <1>3, <1>4, <1>5 DEF EndOK
<1>7. QED BY <1>6 DEF c

\* A line whose audit is not started: complete, and waiting only if refused.
LEMMA LeftAlone ==
    ASSUME NEW n, NEW l0, NEW log, NEW ts, NEW rc, NEW rs, EndOK(n, l0, log, ts, rc, rs),
           Full(log), NEW l \in Lines, l.number = l0.number, l.balance = l0.balance,
           l.state = "AuditPending" => \E q \in Requests : Refused(q, l),
           NEW t
    PROVE  EndOK(n, l, log, ts \ {t}, rc, rs)
<1> DEFINE left == ts \ {t}
<1>1. /\ LogOK(log) /\ LineOK(l0, log, rs) /\ PaidOK(n, l0, log, rc, rs)
      /\ \A u \in left : TxOK(n, u, l0, log)
  BY DEF EndOK
<1> HIDE DEF left
<1>2. LineOK(l, log, rs) /\ PaidOK(n, l, log, rc, rs)
  BY <1>1 DEF LineOK, PaidOK
<1>3. \A u \in left : TxOK(n, u, l, log)
  BY <1>1 DEF TxOK
<1>4. OpenOK(l, log, left)
  BY DEF OpenOK
<1>5. EndOK(n, l, log, left, rc, rs)
  BY <1>1, <1>2, <1>3, <1>4 DEF EndOK
<1>6. QED BY <1>5 DEF left

LEMMA Initialized ==
    ASSUME EndsInv, NetInv, OneAudit', NEW n \in Nodes,
           NEW t \in Txs(n), ~t.resumes, t.request \in Requests,
           Full(audits[n]), ~reserved[n], UNCHANGED <<receipt, reserved>>,
           NEW l \in Lines, l.number = line[n].number, l.balance = line[n].balance,
           l.state = "AuditPending" \/ (l.state = "Active" /\ t.request.kind = "set"),
           t.number <= Len(audits[n]) + 1,
           t.number = Len(audits[n]) + 1 \/ \E q \in Requests : Refused(q, l),
           initializeAudit(n, t, l)
    PROVE  EndsInv' /\ NetInv'
<1> DEFINE log == audits[n]
           rc == receipt[n]
<1>1. /\ EndOK(n, line[n], log, txs[n], rc, FALSE) /\ LogOK(log) /\ line[n].number = Len(log)
      /\ PaidOK(n, line[n], log, rc, FALSE)
      /\ receipt = [receipt EXCEPT ![n] = rc] /\ reserved = [reserved EXCEPT ![n] = FALSE]
      /\ audits = [audits EXCEPT ![n] = log]
  <2>1. reserved[n] = FALSE
    BY EndOf DEF PaidOK
  <2>2. QED BY <2>1, EndOf
<1>2. ASSUME NEW left \in Lines, line' = [line EXCEPT ![n] = left], UNCHANGED <<audits, net>>,
             left.number = line[n].number, left.balance = line[n].balance, Stops(n, t),
             left.state = "AuditPending" => \E q \in Requests : Refused(q, left)
      PROVE  EndsInv' /\ NetInv'
  <2>1. txs' = [txs EXCEPT ![n] = txs[n] \ {t}]
    BY <1>2 DEF Stops
  <2>2. EndOK(n, left, log, txs[n] \ {t}, rc, FALSE)
    BY <1>1, <1>2, LeftAlone
  <2>3. /\ line' = [line EXCEPT ![n] = left] /\ audits' = [audits EXCEPT ![n] = log]
        /\ receipt' = [receipt EXCEPT ![n] = rc] /\ reserved' = [reserved EXCEPT ![n] = FALSE]
    BY <1>1, <1>2
  <2> HIDE DEF log, rc
  <2>4. EndsInv'
    BY ZenonT(60), <2>1, <2>2, <2>3, EndChanges
  <2>5. QED BY <1>2, <2>4 DEF NetInv, MessageOK
<1>3. CASE /\ Refused(t.request, l) /\ line' = [line EXCEPT ![n] = l] /\ Stops(n, t)
           /\ UNCHANGED <<audits, net>>
  BY <1>2, <1>3
<1>4. CASE /\ t.number \in Numbers(log) /\ Stops(n, t) /\ UNCHANGED <<audits, net>>
           /\ line' = [line EXCEPT ![n] =
                         [l EXCEPT !.state = IF t.request.kind = "audit" THEN "Active" ELSE @]]
  <2> DEFINE left == [l EXCEPT !.state = IF t.request.kind = "audit" THEN "Active" ELSE @]
  <2>1. /\ left \in Lines /\ left.number = l.number /\ left.balance = l.balance
        /\ left.incoming = l.incoming /\ left.outgoing = l.outgoing
    BY DEF Lines, States
  <2>2. line' = [line EXCEPT ![n] = left]
    BY <1>4
  <2> HIDE DEF left
  <2>3. \E q \in Requests : Refused(q, l)
    <3>1. t.number # Len(log) + 1
      BY <1>1, <1>4, NumbersOf, LastAudit
    <3>2. QED BY <3>1
  <2>4. \E q \in Requests : Refused(q, left)
    BY <2>1, <2>3 DEF Refused
  <2>5. QED BY <1>2, <1>4, <2>1, <2>2, <2>4
<1>5. CASE t.number \notin Numbers(log) /\ SavesOwnPart(n, t, l)
  <2> DEFINE asked == [Requested(t.request, l) EXCEPT !.state = "AuditPending",
                                                      !.number = t.number]
             own   == OwnTerms(t.number, asked)
             u     == [t EXCEPT !.step = "response", !.signed = own, !.sent = 1]
             new   == Append(log, [terms |-> own, full |-> FALSE])
  <2>1. t.number = Len(log) + 1
    <3>1. t.number \notin 1..Len(log) /\ t.number \in 1..MaxAuditNumber /\ Len(log) \in Nat
      BY <1>1, <1>5, NumbersOf, LastAudit DEF Txs
    <3>2. QED BY <3>1, ConstantTypes
  <2>2. PaidOK(n, l, log, rc, FALSE)
    BY <1>1 DEF PaidOK
  <2>3. /\ EndOK(n, asked, new, {u}, rc, FALSE) /\ MessageOK(AuditMessage(n, u, asked))
    BY <1>1, <2>1, <2>2, HalfSaved
  <2>4. /\ line' = [line EXCEPT ![n] = asked] /\ audits' = [audits EXCEPT ![n] = new]
        /\ net' = net \cup {AuditMessage(n, u, asked)} /\ Becomes(n, t, u)
    BY <1>5 DEF SavesOwnPart
  <2> HIDE DEF asked, own, u, new
  <2>5. txs' = [txs EXCEPT ![n] = {u}]
    BY <2>4, OnlyTransaction
  <2>6. EndsInv'
    BY <1>1, <2>3, <2>4, <2>5, EndChanges
  <2>7. NetInv'
    BY <2>3, <2>4 DEF NetInv, MessageOK
  <2>8. QED BY <2>6, <2>7
<1>6. QED BY <1>3, <1>4, <1>5 DEF initializeAudit

-----------------------------------------------------------------------------
(* The actions of the initiator *)

LEMMA NewTransaction ==
    ASSUME NEW n \in Nodes, FreshUUIDs(n) # {}, NEW q \in Requests \cup {ResumedAudit},
           NEW number \in 1..MaxAuditNumber
    PROVE  LET t == Transaction(n, q, number) IN
           /\ t \in Txs(n) /\ t.request = q /\ t.number = number /\ t.step = "pending"
           /\ t.sent = 0 /\ t.resumes = FALSE /\ t.waits = 0
<1>1. (CHOOSE u \in FreshUUIDs(n) : TRUE) \in TransactionUUIDs[n]
  BY DEF FreshUUIDs
<1>2. 0 \in 0..kMaxCountSendingAttempts /\ 0 \in 0..kMaxPendingAttempts
      /\ 0 \in 0..kMaxPendingAttempts + 1
  BY ConstantTypes
<1>3. QED BY <1>1, <1>2 DEF Transaction, Txs, NoTerms

LEMMA StartsAudit ==
    ASSUME AuditInv, OneAudit', NEW n \in Nodes, NEW q \in Requests, runInitializationStage(n, q)
    PROVE  EndsInv' /\ NetInv'
<1> DEFINE t == Transaction(n, q, line[n].number + 1)
           marked == [line[n] EXCEPT !.state = "AuditPending"]
           log == audits[n]
           l0 == line[n]
<1>1. EndsInv /\ NetInv
  BY DEF AuditInv
<1>2. /\ LogOK(log) /\ LineOK(l0, log, reserved[n]) /\ l0 \in Lines /\ l0.number = Len(log)
      /\ PaidOK(n, l0, log, receipt[n], reserved[n])
      /\ EndOK(n, l0, log, txs[n], receipt[n], reserved[n])
      /\ l0.number \in 1..MaxAuditNumber
      /\ audits = [audits EXCEPT ![n] = log] /\ receipt = [receipt EXCEPT ![n] = receipt[n]]
      /\ reserved = [reserved EXCEPT ![n] = reserved[n]]
  BY <1>1, EndOf
<1>3. /\ FreshUUIDs(n) # {} /\ l0.number < MaxAuditNumber /\ l0.state = "Active"
      /\ UNCHANGED <<receipt, reserved>>
  BY DEF runInitializationStage
<1>4. l0.number + 1 \in 1..MaxAuditNumber /\ Full(log)
  <2>1. Full(log)
    BY <1>2, <1>3 DEF LineOK
  <2>2. l0.number \in Nat /\ l0.number >= 1 /\ l0.number < MaxAuditNumber /\ MaxAuditNumber \in Nat
    BY <1>2, <1>3, ConstantTypes
  <2> HIDE DEF l0, log
  <2>3. QED BY <2>1, <2>2
<1>5. /\ t \in Txs(n) /\ t.request = q /\ t.number = Len(log) + 1 /\ t.step = "pending"
      /\ t.sent = 0 /\ t.resumes = FALSE /\ t.waits = 0
  <2>1. l0.number + 1 = Len(log) + 1
    BY <1>2
  <2>2. l0.number + 1 \in 1..MaxAuditNumber /\ q \in Requests \cup {ResumedAudit}
    BY <1>4
  <2> HIDE DEF log
  <2>3. QED BY <1>3, <2>1, <2>2, NewTransaction DEF Transaction
<1>6. /\ marked \in Lines /\ marked.number = l0.number /\ marked.balance = l0.balance
      /\ marked.state = "AuditPending"
  BY <1>2 DEF Lines, States
<1>7. CASE /\ reserved[n] /\ line' = [line EXCEPT ![n] = marked]
           /\ Becomes(n, t, [t EXCEPT !.waits = 1]) /\ UNCHANGED <<audits, net>>
  <2> DEFINE u == [t EXCEPT !.waits = 1]
  <2>1. /\ u \in Txs(n) /\ u.request = q /\ u.number = Len(log) + 1 /\ u.step = "pending"
        /\ u.sent = 0 /\ u.resumes = FALSE
    <3>1. 1 \in 0..kMaxPendingAttempts
      BY ConstantTypes
    <3>2. QED BY <1>5, <3>1 DEF Txs
  <2> HIDE DEF t, marked
  <2>2. Becomes(n, t, u)
    BY <1>7
  <2> HIDE DEF u
  <2>3. txs' = [txs EXCEPT ![n] = {u}]
    BY <1>1, <2>2, OnlyTransaction
  <2>4. TxOK(n, u, marked, log)
    <3>1. u.number <= Len(log) + 1
      BY <1>2, <2>1, LastAudit
    <3>2. QED BY <1>4, <1>6, <2>1, <3>1 DEF TxOK
  <2>5. LineOK(marked, log, reserved[n]) /\ PaidOK(n, marked, log, receipt[n], reserved[n])
    BY <1>2, <1>4, <1>6 DEF LineOK, PaidOK
  <2>6. OpenOK(marked, log, {u})
    BY <2>1 DEF OpenOK
  <2>7. EndOK(n, marked, log, {u}, receipt[n], reserved[n])
    BY <1>2, <2>4, <2>5, <2>6 DEF EndOK
  <2>8. /\ line' = [line EXCEPT ![n] = marked] /\ audits' = [audits EXCEPT ![n] = log]
        /\ receipt' = [receipt EXCEPT ![n] = receipt[n]]
        /\ reserved' = [reserved EXCEPT ![n] = reserved[n]]
    BY <1>2, <1>3, <1>7
  <2> HIDE DEF log
  <2>9. EndsInv'
    BY <1>1, <2>3, <2>7, <2>8, EndChanges
  <2>10. NetInv'
    BY <1>1, <1>7 DEF NetInv, MessageOK
  <2>11. QED BY <2>9, <2>10
<1>8. CASE ~reserved[n] /\ initializeAudit(n, t, IF q.kind = "set" THEN l0 ELSE marked)
  <2> DEFINE l == IF q.kind = "set" THEN l0 ELSE marked
  <2>1. /\ l \in Lines /\ l.number = line[n].number /\ l.balance = line[n].balance
        /\ l.state = "AuditPending" \/ (l.state = "Active" /\ q.kind = "set")
    BY <1>2, <1>3, <1>6
  <2>2. t.number <= Len(log) + 1
    BY <1>2, <1>5, LastAudit
  <2>3. initializeAudit(n, t, l)
    BY <1>8
  <2> HIDE DEF t, l
  <2>4. QED BY <1>1, <1>3, <1>4, <1>5, <1>8, <2>1, <2>2, <2>3, Initialized
<1>9. QED BY <1>7, <1>8 DEF runInitializationStage

LEMMA NextAttempt ==
    ASSUME EndsInv, NetInv, OneAudit, OneAudit', NEW n \in Nodes, NEW t \in txs[n],
           t.step = "pending", t.resumes, nextAttemptAudit(n, t),
           UNCHANGED <<line, audits, receipt, reserved>>
    PROVE  EndsInv' /\ NetInv'
<1> DEFINE log == audits[n]
           l == line[n]
           actual == Actual(log)
           u == [t EXCEPT !.step = "response", !.signed = actual.terms, !.sent = @ + 1]
<1>1. /\ EndOK(n, l, log, txs[n], receipt[n], reserved[n]) /\ LogOK(log) /\ l \in Lines
      /\ LineOK(l, log, reserved[n]) /\ PaidOK(n, l, log, receipt[n], reserved[n])
      /\ TxOK(n, t, l, log) /\ t \in Txs(n) /\ OpenOK(l, log, txs[n])
  BY EndOf
<1>2. actual.terms \in AllTerms /\ actual.terms.number = Len(log)
  BY <1>1, LastAudit
<1>3. CASE /\ actual.terms.number = t.number /\ ~actual.full
           /\ net' = net \cup {AuditMessage(n, u, l)} /\ Becomes(n, t, u)
  <2>1. /\ u \in Txs(n) /\ u.step = "response" /\ u.signed = actual.terms /\ u.number = t.number
        /\ u.resumes = TRUE /\ u.id = t.id
    <3>1. t.sent = 0 /\ 0 + 1 \in 0..kMaxCountSendingAttempts
      BY <1>1, ConstantTypes DEF TxOK
    <3>2. t.resumes = TRUE
      BY <1>1 DEF Txs
    <3>3. QED BY <1>1, <1>2, <3>1, <3>2 DEF Txs
  <2>2. Becomes(n, t, u) /\ net' = net \cup {AuditMessage(n, u, l)}
    BY <1>3
  <2> HIDE DEF u
  <2>3. txs' = [txs EXCEPT ![n] = {u}]
    BY <2>2, OnlyTransaction
  <2>4. TxOK(n, u, l, log)
    BY <1>2, <1>3, <2>1 DEF TxOK
  <2>5. OpenOK(l, log, {u})
    BY <1>3 DEF OpenOK, Full
  <2>6. EndOK(n, l, log, {u}, receipt[n], reserved[n])
    BY <1>1, <2>4, <2>5 DEF EndOK
  <2>7. u.id \in TransactionUUIDs[n]
    BY <2>1 DEF Txs
  <2>8. MessageOK(AuditMessage(n, u, l))
    BY <1>1, <1>2, <2>1, <2>7, MessageSent
  <2>9. EndsInv'
    BY <2>3, <2>6, TxsChange
  <2>10. NetInv'
    BY <2>2, <2>8 DEF NetInv, MessageOK
  <2>11. QED BY <2>9, <2>10
<1>4. CASE Stops(n, t) /\ UNCHANGED net
  <2>1. txs' = [txs EXCEPT ![n] = {}] /\ txs[n] = {t}
    BY <1>4, NoTransaction
  <2>2. l.state = "AuditPending" => ~Full(log) \/ \E q \in Requests : Refused(q, l)
    BY <1>1, <2>1 DEF OpenOK
  <2>3. EndOK(n, l, log, {}, receipt[n], reserved[n])
    BY <1>1, <2>2, Stopped
  <2>4. EndsInv'
    BY <2>1, <2>3, TxsChange
  <2>5. QED BY <1>4, <2>4 DEF NetInv, MessageOK
<1>5. QED BY <1>3, <1>4 DEF nextAttemptAudit

\* A transaction goes on, or starts, as u.
LEMMA TxBecomes ==
    ASSUME EndsInv, OneAudit', NEW n \in Nodes, NEW t, NEW u, Becomes(n, t, u),
           UNCHANGED <<line, audits, receipt, reserved>>, TxOK(n, u, line[n], audits[n]),
           t.step = "pending" /\ ~t.resumes => u.step = "pending" /\ ~u.resumes
    PROVE  EndsInv'
<1>1. txs' = [txs EXCEPT ![n] = {u}]
  BY OnlyTransaction
<1>2. /\ LogOK(audits[n]) /\ LineOK(line[n], audits[n], reserved[n])
      /\ PaidOK(n, line[n], audits[n], receipt[n], reserved[n])
      /\ OpenOK(line[n], audits[n], txs[n]) /\ Ends(txs)
  BY EndOf
<1>3. \A x \in txs[n] : x = t \/ x = u
  <2>1. txs'[n] = {u} /\ txs'[n] = (txs[n] \ {t}) \cup {u}
    BY <1>1, <1>2 DEF Ends, Becomes
  <2>2. QED BY <2>1
<1>4. OpenOK(line[n], audits[n], {u})
  BY <1>2, <1>3 DEF OpenOK
<1>5. EndOK(n, line[n], audits[n], {u}, receipt[n], reserved[n])
  BY <1>2, <1>4 DEF EndOK
<1>6. QED BY <1>1, <1>5, TxsChange

\* A transaction ends, and the line does not wait for it.
LEMMA TxEnds ==
    ASSUME EndsInv, OneAudit, NEW n \in Nodes, NEW t \in txs[n], Stops(n, t),
           UNCHANGED <<line, audits, receipt, reserved>>,
           t.step # "pending" \/ t.resumes \/ line[n].state # "AuditPending"
    PROVE  EndsInv'
<1>1. txs' = [txs EXCEPT ![n] = {}] /\ txs[n] = {t}
  BY NoTransaction
<1>2. /\ EndOK(n, line[n], audits[n], txs[n], receipt[n], reserved[n])
      /\ OpenOK(line[n], audits[n], txs[n])
  BY EndOf
<1>3. line[n].state = "AuditPending" =>
          ~Full(audits[n]) \/ \E q \in Requests : Refused(q, line[n])
  BY <1>1, <1>2 DEF OpenOK
<1>4. EndOK(n, line[n], audits[n], {}, receipt[n], reserved[n])
  BY <1>2, <1>3, Stopped
<1>5. QED BY <1>1, <1>4, TxsChange

LEMMA ConflictArises ==
    ASSUME EndsInv, OneAudit, NEW n \in Nodes, NEW t \in txs[n], Conflicts(n, t),
           UNCHANGED <<audits, receipt, reserved>>
    PROVE  EndsInv'
<1> DEFINE l == [line[n] EXCEPT !.state = "ConflictResolving"]
           log == audits[n]
           rc == receipt[n]
           rs == reserved[n]
<1>1. txs' = [txs EXCEPT ![n] = {}]
  BY NoTransaction DEF Conflicts
<1>2. /\ EndOK(n, line[n], audits[n], txs[n], receipt[n], reserved[n])
      /\ audits = [audits EXCEPT ![n] = audits[n]] /\ receipt = [receipt EXCEPT ![n] = receipt[n]]
      /\ reserved = [reserved EXCEPT ![n] = reserved[n]]
  BY EndOf
<1>3. EndOK(n, l, log, {}, rc, rs)
  BY <1>2, InConflict
<1>4. /\ line' = [line EXCEPT ![n] = l] /\ audits' = [audits EXCEPT ![n] = log]
      /\ receipt' = [receipt EXCEPT ![n] = rc] /\ reserved' = [reserved EXCEPT ![n] = rs]
  BY <1>2 DEF Conflicts
<1> HIDE DEF l, log, rc, rs
<1>5. QED BY <1>1, <1>3, <1>4, EndChanges

LEMMA PendingStage ==
    ASSUME AuditInv, OneAudit, OneAudit', NEW n \in Nodes, NEW t \in txs[n],
           runAuditPendingStage(n, t)
    PROVE  EndsInv' /\ NetInv'
<1>1. EndsInv /\ NetInv
  BY DEF AuditInv
<1>2. TxOK(n, t, line[n], audits[n]) /\ t \in Txs(n) /\ line[n] \in Lines
  BY <1>1, EndOf
<1>3. t.step = "pending" /\ UNCHANGED <<receipt, reserved>>
  BY DEF runAuditPendingStage
<1>4. CASE /\ line[n].state # "AuditPending" /\ Stops(n, t)
           /\ UNCHANGED <<line, audits, stored, net>>
  <2>1. EndsInv'
    BY <1>1, <1>3, <1>4, TxEnds
  <2>2. QED BY <1>1, <1>4, <2>1 DEF NetInv, MessageOK
<1>5. CASE Conflicts(n, t) /\ UNCHANGED <<audits, net>>
  <2>1. EndsInv'
    BY <1>1, <1>3, <1>5, ConflictArises
  <2>2. QED BY <1>1, <1>5, <2>1 DEF NetInv, MessageOK
<1>6. CASE /\ t.waits + 1 <= kMaxPendingAttempts /\ Becomes(n, t, [t EXCEPT !.waits = @ + 1])
           /\ UNCHANGED <<line, audits, stored, net>>
  <2> DEFINE u == [t EXCEPT !.waits = @ + 1]
  <2>1. t.waits + 1 \in 0..kMaxPendingAttempts
    BY <1>2, <1>6, ConstantTypes DEF Txs
  <2>2. /\ u \in Txs(n) /\ u.step = t.step /\ u.resumes = t.resumes /\ u.sent = t.sent
        /\ u.request = t.request /\ u.number = t.number
    BY <1>2, <2>1 DEF Txs
  <2>3. Becomes(n, t, u)
    BY <1>6
  <2> HIDE DEF u
  <2>4. TxOK(n, u, line[n], audits[n])
    BY <1>2, <1>3, <2>2 DEF TxOK
  <2>5. EndsInv'
    BY <1>1, <1>3, <1>6, <2>2, <2>3, <2>4, TxBecomes
  <2>6. QED BY <1>1, <1>6, <2>5 DEF NetInv, MessageOK
<1>7. CASE t.resumes /\ nextAttemptAudit(n, t) /\ UNCHANGED <<line, audits, stored>>
  BY <1>1, <1>3, <1>7, NextAttempt
<1>8. CASE /\ line[n].state = "AuditPending" /\ ~reserved[n] /\ ~t.resumes
           /\ initializeAudit(n, t, line[n])
  <2>1. /\ Full(audits[n]) /\ t.number <= Len(audits[n]) + 1 /\ t.request \in Requests
        /\ t.number = Len(audits[n]) + 1 \/ \E q \in Requests : Refused(q, line[n])
    BY <1>2, <1>3, <1>8 DEF TxOK
  <2>2. QED BY <1>1, <1>2, <1>3, <1>8, <2>1, Initialized
<1>9. QED BY <1>4, <1>5, <1>6, <1>7, <1>8 DEF runAuditPendingStage

LEMMA NetKept ==
    ASSUME NetInv, NEW k, MessageOK(k), net' \subseteq net \cup {k}
    PROVE  NetInv'
BY DEF NetInv, MessageOK

LEMMA NetShrinks ==
    ASSUME NetInv, net' \subseteq net
    PROVE  NetInv'
BY DEF NetInv, MessageOK

LEMMA TimesOut ==
    ASSUME AuditInv, OneAudit, OneAudit', NEW n \in Nodes, NEW t \in txs[n], ResponseTimeout(n, t)
    PROVE  EndsInv' /\ NetInv'
<1>1. EndsInv /\ NetInv
  BY DEF AuditInv
<1>2. TxOK(n, t, line[n], audits[n]) /\ t \in Txs(n) /\ line[n] \in Lines
  BY <1>1, EndOf
<1>3. t.step = "response" /\ UNCHANGED <<line, audits, receipt, reserved>>
  BY DEF ResponseTimeout
<1>4. CASE Stops(n, t) /\ UNCHANGED net
  <2>1. EndsInv'
    BY <1>1, <1>3, <1>4, TxEnds
  <2>2. QED BY <1>1, <1>4, <2>1, NetShrinks
<1> DEFINE u == [t EXCEPT !.sent = @ + 1]
<1>5. CASE /\ t.sent < kMaxCountSendingAttempts
           /\ net' = net \cup {AuditMessage(n, u, line[n])} /\ Becomes(n, t, u)
  <2>1. t.sent + 1 \in 0..kMaxCountSendingAttempts
    BY <1>2, <1>5, ConstantTypes DEF Txs
  <2>2. /\ u \in Txs(n) /\ u.step = t.step /\ u.resumes = t.resumes /\ u.id = t.id
        /\ u.request = t.request /\ u.number = t.number /\ u.signed = t.signed
    BY <1>2, <2>1 DEF Txs
  <2>3. Becomes(n, t, u) /\ net' = net \cup {AuditMessage(n, u, line[n])}
    BY <1>5
  <2> HIDE DEF u
  <2>4. TxOK(n, u, line[n], audits[n])
    BY <1>2, <1>3, <2>2 DEF TxOK
  <2>5. EndsInv'
    BY <1>1, <1>3, <2>3, <2>4, TxBecomes
  <2>6. u.id \in TransactionUUIDs[n] /\ u.signed \in AllTerms
    BY <1>2, <1>3, <2>2 DEF Txs, TxOK
  <2>7. MessageOK(AuditMessage(n, u, line[n]))
    BY <1>2, <2>6, MessageSent
  <2>8. NetInv'
    BY <1>1, <2>3, <2>7, NetKept
  <2>9. QED BY <2>5, <2>8
<1>6. QED BY <1>4, <1>5 DEF ResponseTimeout

LEMMA AsksAgain ==
    ASSUME AuditInv, OneAudit, OneAudit', NEW n \in Nodes, NEW t \in txs[n],
           runContractorPendingStage(n, t)
    PROVE  EndsInv' /\ NetInv'
<1>1. EndsInv /\ NetInv
  BY DEF AuditInv
<1>2. TxOK(n, t, line[n], audits[n]) /\ t \in Txs(n) /\ line[n] \in Lines
  BY <1>1, EndOf
<1>3. t.step = "contractorPending" /\ UNCHANGED <<line, audits, receipt, reserved>>
  BY DEF runContractorPendingStage
<1>4. CASE Stops(n, t) /\ UNCHANGED net
  <2>1. EndsInv'
    BY <1>1, <1>3, <1>4, TxEnds
  <2>2. QED BY <1>1, <1>4, <2>1, NetShrinks
<1> DEFINE u == [t EXCEPT !.step = "response"]
<1>5. CASE net' = net \cup {AuditMessage(n, t, line[n])} /\ Becomes(n, t, u)
  <2>1. /\ u \in Txs(n) /\ u.step = "response" /\ u.resumes = t.resumes
        /\ u.request = t.request /\ u.number = t.number /\ u.signed = t.signed
    BY <1>2 DEF Txs
  <2>2. Becomes(n, t, u)
    BY <1>5
  <2> HIDE DEF u
  <2>3. TxOK(n, u, line[n], audits[n])
    BY <1>2, <1>3, <2>1 DEF TxOK
  <2>4. EndsInv'
    BY <1>1, <1>3, <2>2, <2>3, TxBecomes
  <2>5. t.id \in TransactionUUIDs[n] /\ t.signed \in AllTerms
    BY <1>2, <1>3 DEF Txs, TxOK
  <2>6. MessageOK(AuditMessage(n, t, line[n]))
    BY <1>2, <2>5, MessageSent
  <2>7. NetInv'
    BY <1>1, <1>5, <2>6, NetKept
  <2>8. QED BY <2>4, <2>7
<1>6. QED BY <1>4, <1>5 DEF runContractorPendingStage

LEMMA Resumes ==
    ASSUME AuditInv, OneAudit, OneAudit', NEW n \in Nodes, ReceivePong(n)
    PROVE  EndsInv' /\ NetInv'
<1> DEFINE t == [Transaction(n, ResumedAudit, line[n].number) EXCEPT !.resumes = TRUE]
           log == audits[n]
           actual == Actual(log)
           w == [t EXCEPT !.waits = 1]
           u == [t EXCEPT !.step = "response", !.signed = actual.terms, !.sent = 1]
           pong == [type |-> "pong", to |-> n]
<1>1. EndsInv /\ NetInv
  BY DEF AuditInv
<1>2. /\ line[n] \in Lines /\ line[n].number \in 1..MaxAuditNumber /\ LogOK(log)
      /\ line[n].number = Len(log)
  BY <1>1, EndOf
<1>3. UNCHANGED <<line, audits, receipt, reserved>>
  BY DEF ReceivePong
<1>4. CASE UNCHANGED txs /\ net' = net \ {pong}
  <2>1. EndsInv'
    BY <1>1, <1>3, <1>4, EndsStay
  <2>2. QED BY <1>1, <1>4, <2>1, NetShrinks
<1>5. ASSUME FreshUUIDs(n) # {}
      PROVE  /\ t \in Txs(n) /\ t.request = ResumedAudit /\ t.number = line[n].number
             /\ t.step = "pending" /\ t.sent = 0 /\ t.resumes = TRUE
  <2> DEFINE new == Transaction(n, ResumedAudit, line[n].number)
  <2>1. /\ new \in Txs(n) /\ new.request = ResumedAudit /\ new.number = line[n].number
        /\ new.step = "pending" /\ new.sent = 0
    <3>1. ResumedAudit \in Requests \cup {ResumedAudit} /\ line[n].number \in 1..MaxAuditNumber
      BY <1>2
    <3> HIDE DEF t, log
    <3>2. QED BY <1>5, <3>1, NewTransaction DEF Transaction
  <2> HIDE DEF new
  <2>2. t = [new EXCEPT !.resumes = TRUE]
    BY DEF new
  <2>3. QED BY <2>1, <2>2 DEF Txs
<1>6. CASE FreshUUIDs(n) # {} /\ net' = net \ {pong} /\ Becomes(n, t, w)
  <2>1. 1 \in 0..kMaxPendingAttempts
    BY ConstantTypes
  <2>2. t \in Txs(n) /\ t.step = "pending" /\ t.sent = 0 /\ t.resumes = TRUE
    BY <1>5, <1>6
  <2>3. w = [t EXCEPT !.waits = 1] /\ Becomes(n, t, w) /\ net' = net \ {pong}
    BY <1>6
  <2> HIDE DEF t, w, pong
  <2>4. w \in Txs(n) /\ w.step = "pending" /\ w.sent = 0 /\ w.resumes = TRUE
    BY <2>1, <2>2, <2>3 DEF Txs
  <2>5. TxOK(n, w, line[n], log)
    BY <2>4 DEF TxOK
  <2>6. EndsInv'
    BY <1>1, <1>3, <2>2, <2>3, <2>5, TxBecomes
  <2>7. QED BY <1>1, <2>3, <2>6, NetShrinks
<1>7. CASE /\ FreshUUIDs(n) # {} /\ actual.terms.number = t.number /\ ~actual.full
           /\ net' = (net \ {pong}) \cup {AuditMessage(n, u, line[n])} /\ Becomes(n, t, u)
  <2>1. 1 \in 0..kMaxCountSendingAttempts
    BY ConstantTypes
  <2>2. t \in Txs(n) /\ t.number = line[n].number /\ t.sent = 0 /\ t.resumes = TRUE
    BY <1>5, <1>7
  <2>3. actual.terms \in AllTerms
    BY <1>2, LastAudit
  <2>4. /\ u = [t EXCEPT !.step = "response", !.signed = actual.terms, !.sent = 1]
        /\ Becomes(n, t, u) /\ net' = (net \ {pong}) \cup {AuditMessage(n, u, line[n])}
    BY <1>7
  <2> HIDE DEF t, u, pong
  <2>5. /\ u \in Txs(n) /\ u.step = "response" /\ u.resumes = TRUE /\ u.signed = actual.terms
        /\ u.number = Len(log)
    BY <1>2, <2>1, <2>2, <2>3, <2>4 DEF Txs
  <2>6. TxOK(n, u, line[n], log)
    BY <2>3, <2>5 DEF TxOK
  <2>7. EndsInv'
    BY <1>1, <1>3, <2>2, <2>4, <2>6, TxBecomes
  <2>8. u.id \in TransactionUUIDs[n]
    BY <2>5 DEF Txs
  <2>9. MessageOK(AuditMessage(n, u, line[n]))
    BY <1>2, <2>3, <2>5, <2>8, MessageSent
  <2>10. NetInv'
    BY <1>1, <2>4, <2>9, NetKept
  <2>11. QED BY <2>7, <2>10
<1>8. QED BY <1>4, <1>6, <1>7 DEF ReceivePong

LEMMA CompletesAudit ==
    ASSUME EndsInv, OneAudit, NEW n \in Nodes, NEW t \in txs[n], t.step = "response",
           t.number \in Numbers(audits[n]), SavesContractorPart(n, t),
           UNCHANGED <<receipt, reserved>>
    PROVE  EndsInv'
<1> DEFINE log == audits[n]
           i == CHOOSE j \in 1..Len(log) : log[j].terms.number = t.number
           new == [log EXCEPT ![t.number].full = TRUE]
           c == Completed(line[n])
           rc == receipt[n]
           rs == reserved[n]
<1>1. /\ EndOK(n, line[n], log, txs[n], rc, rs) /\ LogOK(log)
      /\ receipt = [receipt EXCEPT ![n] = rc] /\ reserved = [reserved EXCEPT ![n] = rs]
  BY EndOf
<1>2. t.number \in 1..Len(log)
  BY <1>1, NumbersOf
<1>3. i = t.number
  <2>1. \A j \in 1..Len(log) : log[j].terms.number = j
    BY <1>1 DEF LogOK
  <2> HIDE DEF log
  <2>2. QED BY <1>2, <2>1
<1>4. EndOK(n, c, new, {}, rc, rs)
  BY <1>1, <1>2, HalfCompleted
<1>5. txs' = [txs EXCEPT ![n] = {}]
  BY NoTransaction DEF SavesContractorPart
<1>6. line' = [line EXCEPT ![n] = c]
  BY DEF SavesContractorPart
<1>7. audits' = [audits EXCEPT ![n] = new]
  <2>1. audits' = [audits EXCEPT ![n][i].full = TRUE]
    BY DEF SavesContractorPart
  <2> HIDE DEF i
  <2>2. QED BY <1>3, <2>1
<1>8. receipt' = [receipt EXCEPT ![n] = rc] /\ reserved' = [reserved EXCEPT ![n] = rs]
  BY <1>1
<1> HIDE DEF log, new, c, rc, rs, i
<1>9. QED BY <1>4, <1>5, <1>6, <1>7, <1>8, EndChanges

LEMMA Responds ==
    ASSUME AuditInv, OneAudit, OneAudit', NEW n \in Nodes, NEW t \in txs[n],
           NEW m \in net, runResponseProcessingStage(n, t, m)
    PROVE  EndsInv' /\ NetInv'
<1>1. EndsInv /\ NetInv
  BY DEF AuditInv
<1>2. TxOK(n, t, line[n], audits[n]) /\ t \in Txs(n)
  BY <1>1, EndOf
<1>3. t.step = "response" /\ UNCHANGED <<receipt, reserved>> /\ net' \subseteq net
  BY DEF runResponseProcessingStage
<1>4. NetInv'
  BY <1>1, <1>3, NetShrinks
<1>5. CASE Conflicts(n, t) /\ UNCHANGED audits
  BY <1>1, <1>3, <1>4, <1>5, ConflictArises
<1> DEFINE u == [t EXCEPT !.step = "contractorPending", !.sent = 0, !.contractorWaits = @ + 1]
<1>6. CASE /\ t.contractorWaits <= kMaxPendingAttempts /\ Becomes(n, t, u)
           /\ UNCHANGED <<line, stored>> /\ UNCHANGED audits
  <2>1. t.contractorWaits + 1 \in 0..kMaxPendingAttempts + 1 /\ 0 \in 0..kMaxCountSendingAttempts
    BY <1>2, <1>6, ConstantTypes DEF Txs
  <2>2. /\ u \in Txs(n) /\ u.step = "contractorPending" /\ u.resumes = t.resumes
        /\ u.request = t.request /\ u.number = t.number /\ u.signed = t.signed
    BY <1>2, <2>1 DEF Txs
  <2>3. Becomes(n, t, u)
    BY <1>6
  <2> HIDE DEF u
  <2>4. TxOK(n, u, line[n], audits[n])
    BY <1>2, <1>3, <2>2 DEF TxOK
  <2>5. EndsInv'
    BY <1>1, <1>3, <1>6, <2>3, <2>4, TxBecomes
  <2>6. QED BY <1>4, <2>5
<1>7. CASE t.number \in Numbers(audits[n]) /\ SavesContractorPart(n, t)
  BY <1>1, <1>3, <1>4, <1>7, CompletesAudit
<1>8. CASE Stops(n, t) /\ UNCHANGED <<line, stored>> /\ UNCHANGED audits
  BY <1>1, <1>3, <1>4, <1>8, TxEnds
<1>9. QED BY <1>5, <1>6, <1>7, <1>8 DEF runResponseProcessingStage, ContractorIsBusy

-----------------------------------------------------------------------------
(* The actions of the contractor, of the network, and of the payment *)

LEMMA Signs ==
    ASSUME EndsInv, NetInv, CacheInv, NEW n \in Nodes,
           NEW l, NEW log, EndOK(n, l, log, txs[n], receipt[n], FALSE),
           l.state = "Active", Full(log), ~reserved[n],
           NEW m \in net, m.type = "audit", m.to = n,
           SignsAudit(n, m, l, log), UNCHANGED <<txs, receipt, reserved>>
    PROVE  EndsInv' /\ NetInv' /\ CacheInv'
<1> DEFINE adopted == Adopted(l, m)
           number == l.number + 1
           own == OwnTerms(number, adopted)
           signed == Completed([adopted EXCEPT !.number = number])
           new == Append(log, [terms |-> own, full |-> TRUE])
<1>1. /\ m.outgoing \in TrustAmounts /\ m.signed \in AllTerms /\ m.id \in TransactionUUIDs[Other(n)]
  BY DEF NetInv, MessageOK
<1>2. reserved[n] = FALSE
  BY EndOf DEF PaidOK
<1>3. /\ EndOK(n, adopted, log, txs[n], receipt[n], FALSE)
      /\ m.signed = ContractorTerms(number, adopted) =>
            own \in AllTerms /\ EndOK(n, signed, new, txs[n], receipt[n], FALSE)
  BY ZenonT(60), <1>1, ContractorSigned
<1>4. NetInv'
  <2>1. \E s, k : net' \subseteq net \cup {AuditResponse(Other(n), m.id, s, k)}
    BY DEF SignsAudit, Answer
  <2>2. QED BY <2>1, ResponseSent, NetKept
<1>5. CASE /\ m.signed = ContractorTerms(number, adopted)
           /\ line' = [line EXCEPT ![n] = signed] /\ audits' = [audits EXCEPT ![n] = new]
           /\ cache' = [cache EXCEPT ![n] = [id |-> m.id, signed |-> own]]
  <2>1. own \in AllTerms /\ EndOK(n, signed, new, txs[n], receipt[n], reserved[n])
    BY <1>2, <1>3, <1>5
  <2>2. /\ line' = [line EXCEPT ![n] = signed] /\ audits' = [audits EXCEPT ![n] = new]
        /\ cache' = [cache EXCEPT ![n] = [id |-> m.id, signed |-> own]]
    BY <1>5
  <2> HIDE DEF signed, new, own, adopted, number
  <2>3. EndsInv'
    BY <2>1, <2>2, LineChanges
  <2>4. CacheInv'
    BY <1>1, <2>1, <2>2 DEF CacheInv, Ends
  <2>5. QED BY <1>4, <2>3, <2>4
<1>6. CASE /\ line' = [line EXCEPT ![n] = adopted] /\ audits' = [audits EXCEPT ![n] = log]
           /\ UNCHANGED <<stored, cache>>
  <2>1. EndOK(n, adopted, log, txs[n], receipt[n], reserved[n])
    BY <1>2, <1>3
  <2> HIDE DEF adopted
  <2>2. EndsInv'
    BY <1>6, <2>1, LineChanges
  <2>3. CacheInv'
    BY <1>6 DEF CacheInv, Ends
  <2>4. QED BY <1>4, <2>2, <2>3
<1>7. QED BY <1>5, <1>6 DEF SignsAudit

LEMMA NotRefused ==
    ASSUME NEW n, NEW m, NEW l, Refusal(n, m, l) = "OK"
    PROVE  l.state = "Active" /\ (m.number \in {l.number, l.number + 1} => ~reserved[n])
<1>1. CASE l.state # "Active"
  BY <1>1 DEF Refusal
<1>2. CASE l.state = "Active" /\ m.number \notin {l.number, l.number + 1}
  BY <1>2
<1>3. CASE l.state = "Active" /\ m.number \in {l.number, l.number + 1} /\ reserved[n]
  BY <1>3 DEF Refusal
<1>4. QED BY <1>1, <1>2, <1>3

LEMMA Targets ==
    ASSUME AuditInv, NEW n \in Nodes, NEW m \in net, m.type = "audit", m.to = n,
           AuditTarget(n, m), UNCHANGED <<txs, receipt, reserved>>
    PROVE  EndsInv' /\ NetInv' /\ CacheInv'
<1> DEFINE l == LineAfterCancel(n)
           log == AuditsAfterCancel(n)
<1>1. EndsInv /\ NetInv /\ CacheInv
  BY DEF AuditInv
<1>2. /\ EndOK(n, l, log, txs[n], receipt[n], reserved[n])
      /\ l.state = "Active" => Full(log)
  <2>1. EndOK(n, line[n], audits[n], txs[n], receipt[n], reserved[n])
    BY <1>1, EndOf
  <2>2. QED BY <2>1, AfterCancel
<1>3. LogOK(log) /\ Actual(log).terms \in AllTerms
  <2>1. LogOK(log)
    BY <1>2 DEF EndOK
  <2>2. QED BY <2>1, LastAudit
<1>4. m.id \in TransactionUUIDs[Other(n)]
  BY <1>1 DEF NetInv, MessageOK
<1>5. ASSUME line' = [line EXCEPT ![n] = l], audits' = [audits EXCEPT ![n] = log],
             NEW state, NEW terms, Answer(n, m, state, terms)
      PROVE  EndsInv' /\ NetInv'
  <2>1. NetInv'
    <3>1. net' \subseteq net \cup {AuditResponse(Other(n), m.id, state, terms)}
      BY <1>5 DEF Answer
    <3>2. QED BY <1>1, <3>1, ResponseSent, NetKept
  <2> HIDE DEF l, log
  <2>2. EndsInv'
    BY <1>1, <1>2, <1>5, LineChanges
  <2>3. QED BY <2>1, <2>2
<1>6. CASE /\ line' = [line EXCEPT ![n] = l] /\ audits' = [audits EXCEPT ![n] = log]
           /\ Answer(n, m, Refusal(n, m, l), <<>>) /\ UNCHANGED <<stored, cache>>
  <2>1. EndsInv' /\ NetInv'
    BY <1>5, <1>6
  <2>2. CacheInv'
    BY <1>1, <1>6 DEF CacheInv, Ends
  <2>3. QED BY <2>1, <2>2
<1>7. CASE /\ line' = [line EXCEPT ![n] = l] /\ audits' = [audits EXCEPT ![n] = log]
           /\ cache' = [cache EXCEPT ![n] = [id |-> m.id, signed |-> Actual(log).terms]]
           /\ Answer(n, m, "OK", Actual(log).terms)
  <2>1. EndsInv' /\ NetInv'
    BY <1>5, <1>7
  <2>2. CacheInv'
    <3> HIDE DEF log, l
    <3>1. QED BY <1>1, <1>3, <1>4, <1>7 DEF CacheInv, Ends
  <2>3. QED BY <2>1, <2>2
<1>8. CASE /\ Refusal(n, m, l) = "OK" /\ m.number = l.number /\ ~Actual(log).full
  BY <1>2, <1>8, NotRefused DEF Full
<1>9. CASE /\ Refusal(n, m, l) = "OK" /\ m.number = l.number + 1 /\ SignsAudit(n, m, l, log)
  <2>1. l.state = "Active" /\ ~reserved[n]
    BY <1>9, NotRefused
  <2>2. reserved[n] = FALSE
    BY <1>1, <2>1, EndOf DEF PaidOK
  <2>3. EndOK(n, l, log, txs[n], receipt[n], FALSE)
    BY <1>2, <2>2
  <2>4. SignsAudit(n, m, l, log) /\ Full(log)
    BY <1>2, <1>9, <2>1
  <2> HIDE DEF l, log
  <2>5. QED BY <1>1, <2>1, <2>3, <2>4, Signs
<1>10. QED BY <1>6, <1>7, <1>8, <1>9 DEF AuditTarget

LEMMA ReceivesAudit ==
    ASSUME AuditInv, NEW n \in Nodes, NEW m \in net, ReceiveAudit(n, m)
    PROVE  EndsInv' /\ NetInv' /\ CacheInv'
<1>1. EndsInv /\ NetInv /\ CacheInv
  BY DEF AuditInv
<1>2. UNCHANGED <<txs, receipt, reserved>> /\ m.type = "audit" /\ m.to = n
  BY DEF ReceiveAudit
<1>3. CASE Answer(n, m, "OK", cache[n].signed) /\ UNCHANGED <<line, audits, stored, cache>>
  <2>1. EndsInv'
    BY <1>1, <1>2, <1>3, EndsStay
  <2>2. net' \subseteq net \cup {AuditResponse(Other(n), m.id, "OK", cache[n].signed)}
    BY <1>3 DEF Answer
  <2>3. NetInv'
    BY <1>1, <2>2, ResponseSent, NetKept
  <2>4. CacheInv'
    BY <1>1, <1>3 DEF CacheInv, Ends
  <2>5. QED BY <2>1, <2>3, <2>4
<1>4. CASE net' = net \ {m} /\ UNCHANGED <<line, audits, stored, cache>>
  <2>1. EndsInv'
    BY <1>1, <1>2, <1>4, EndsStay
  <2>2. NetInv'
    BY <1>1, <1>4, NetShrinks
  <2>3. CacheInv'
    BY <1>1, <1>4 DEF CacheInv, Ends
  <2>4. QED BY <2>1, <2>2, <2>3
<1>5. CASE AuditTarget(n, m)
  BY <1>2, <1>5, Targets
<1>6. QED BY <1>3, <1>4, <1>5 DEF ReceiveAudit

\* A reservation is made on a line in use only, and its payment has left no
\* receipt yet.
LEMMA Reserves ==
    ASSUME EndsInv, NEW n \in Nodes, NEW rs \in BOOLEAN, receipt[n] = 0,
           rs => line[n].state = "Active",
           reserved' = [reserved EXCEPT ![n] = rs], UNCHANGED <<line, audits, txs, receipt>>
    PROVE  EndsInv'
<1>1. Ends(line) /\ Ends(audits) /\ Ends(txs) /\ Ends(receipt) /\ Ends(reserved)
  BY DEF EndsInv
<1>2. Ends(line)' /\ Ends(audits)' /\ Ends(txs)' /\ Ends(receipt)' /\ Ends(reserved)'
  BY <1>1 DEF Ends
<1>3. EndOK(n, line[n], audits[n], txs[n], receipt[n], rs)
  <2>1. /\ EndOK(n, line[n], audits[n], txs[n], receipt[n], reserved[n])
        /\ LineOK(line[n], audits[n], reserved[n])
        /\ PaidOK(n, line[n], audits[n], receipt[n], reserved[n])
    BY EndOf
  <2>2. LineOK(line[n], audits[n], rs)
    BY <2>1 DEF LineOK
  <2>3. PaidOK(n, line[n], audits[n], receipt[n], rs)
    BY <2>1 DEF PaidOK
  <2>4. QED BY <2>1, <2>2, <2>3 DEF EndOK
<1>4. ASSUME NEW m \in Nodes
      PROVE  EndOK(m, line[m], audits[m], txs[m], receipt[m], reserved[m])'
  <2>1. EndOK(m, line[m], audits[m], txs[m], receipt[m], reserved'[m])
    BY <1>1, <1>3 DEF EndsInv, Ends
  <2>2. QED BY <2>1 DEF EndOK, LineOK, PaidOK, OpenOK, TxOK, Txs, Moved, Refused
<1>5. QED BY <1>2, <1>4 DEF EndsInv

\* What an end becomes that carries out its payment.
LEMMA Paid ==
    ASSUME NEW n \in Nodes, NEW l, NEW log, NEW ts, NEW rc, EndOK(n, l, log, ts, rc, TRUE),
           NEW paid, paid = [l EXCEPT !.balance = @ + Moved(n)]
    PROVE  EndOK(n, paid, log, ts, l.number, FALSE)
<1>1. /\ LogOK(log) /\ LineOK(l, log, TRUE) /\ PaidOK(n, l, log, rc, TRUE) /\ l \in Lines
      /\ OpenOK(l, log, ts) /\ \A t \in ts : TxOK(n, t, l, log)
  BY DEF EndOK, LineOK
<1>2. Full(log) /\ l.number = Len(log) /\ Len(log) \in Nat \ {0}
  BY <1>1, LastAudit DEF LineOK
<1>3. /\ rc = 0 /\ l.balance = 0 /\ Moved(n) \in {-1, 1}
      /\ \A i \in 1..Len(log) : log[i].terms.balance = 0
  BY <1>1, ConstantTypes DEF PaidOK
<1>4. /\ paid \in Lines /\ paid.balance = Moved(n) /\ paid.number = l.number
      /\ paid.state = l.state /\ paid.incoming = l.incoming /\ paid.outgoing = l.outgoing
  BY <1>1, <1>3 DEF Lines
<1>5. LineOK(paid, log, FALSE)
  BY <1>1, <1>2, <1>4 DEF LineOK
<1>6. PaidOK(n, paid, log, l.number, FALSE)
  <2>1. l.number # 0 => l.number <= Len(log)
    BY <1>2
  <2>2. l.number # 0 /\ l.number \in Nat
    BY <1>2
  <2>3. QED BY <1>2, <1>3, <1>4, <2>1, <2>2 DEF PaidOK
<1>7. OpenOK(paid, log, ts)
  BY <1>1, <1>4 DEF OpenOK, Refused
<1>8. ASSUME NEW t \in ts PROVE TxOK(n, t, paid, log)
  <2>1. TxOK(n, t, l, log)
    BY <1>1
  <2>2. QED BY <1>4, <2>1 DEF TxOK, Refused
<1>9. QED BY <1>1, <1>5, <1>6, <1>7, <1>8 DEF EndOK

LEMMA Finishes ==
    ASSUME AuditInv, NEW n \in Nodes, Finish(n)
    PROVE  EndsInv' /\ NetInv'
<1>1. EndsInv /\ NetInv
  BY DEF AuditInv
<1>2. NetInv'
  BY <1>1, NetShrinks DEF Finish
<1>3. /\ EndOK(n, line[n], audits[n], txs[n], receipt[n], reserved[n])
      /\ PaidOK(n, line[n], audits[n], receipt[n], reserved[n])
      /\ audits = [audits EXCEPT ![n] = audits[n]] /\ txs = [txs EXCEPT ![n] = txs[n]]
      /\ Ends(line)
  BY <1>1, EndOf
<1>4. reserved[n] = TRUE /\ receipt[n] = 0
  BY <1>3 DEF Finish, PaidOK
<1>5. /\ reserved' = [reserved EXCEPT ![n] = FALSE] /\ UNCHANGED <<audits, txs>>
  BY DEF Finish
<1>6. CASE payment = "voted"
  <2> DEFINE paid == [line[n] EXCEPT !.balance = @ + Moved(n)]
             number == line[n].number
             log == audits[n]
             ts == txs[n]
  <2>1. EndOK(n, paid, log, ts, number, FALSE)
    <3>1. EndOK(n, line[n], log, ts, receipt[n], TRUE)
      BY <1>3, <1>4
    <3> HIDE DEF log, ts
    <3>2. QED BY <3>1, Paid
  <2>2. line' = [line EXCEPT ![n] = paid] /\ receipt' = [receipt EXCEPT ![n] = number]
    BY <1>6 DEF Finish
  <2>3. /\ line' = [line EXCEPT ![n] = paid] /\ receipt' = [receipt EXCEPT ![n] = number]
        /\ audits' = [audits EXCEPT ![n] = log] /\ txs' = [txs EXCEPT ![n] = ts]
        /\ reserved' = [reserved EXCEPT ![n] = FALSE]
    BY <1>3, <1>5, <2>2
  <2> HIDE DEF paid, number, log, ts
  <2>4. EndsInv'
    BY <1>1, <2>1, <2>3, EndChanges
  <2>5. QED BY <1>2, <2>4
<1>7. CASE payment # "voted"
  <2>1. UNCHANGED <<line, audits, txs, receipt>>
    BY <1>5, <1>7 DEF Finish
  <2>2. EndsInv'
    BY <1>1, <1>4, <1>5, <2>1, Reserves
  <2>3. QED BY <1>2, <2>2
<1>8. QED BY <1>6, <1>7

\* What an end is after its restart: only its database counts.
LEMMA LoadedLine ==
    ASSUME NEW n \in Nodes, EndOK(n, line[n], audits[n], txs[n], receipt[n], reserved[n]),
           stored[n] \in States \ {"AuditPending"},
           NEW rs \in BOOLEAN, rs => reserved[n] /\ Loaded(n).state = "Active"
    PROVE  EndOK(n, Loaded(n), audits[n], {}, receipt[n], rs)
<1> DEFINE l0 == line[n]
           log == audits[n]
           rc == receipt[n]
           asleep == [l0 EXCEPT !.state = stored[n]]
           l == FromStorage(n, asleep, log)
           new == Loaded(n)
<1>1. LogOK(log) /\ LineOK(l0, log, reserved[n]) /\ PaidOK(n, l0, log, rc, reserved[n])
  BY DEF EndOK
<1>2. asleep \in Lines /\ asleep.state = stored[n]
  BY <1>1 DEF LineOK, Lines
<1> HIDE DEF asleep
<1>3. /\ l \in Lines /\ l.number = Len(log) /\ l.state = stored[n]
      /\ l.balance \in {0, Moved(n)} /\ (rc = 0 => l.balance = 0)
  BY <1>1, <1>2, StoredLine
<1>4. new = IF Full(log) THEN l ELSE [l EXCEPT !.state = "AuditPending", !.balance = 0]
  BY DEF Loaded, Full, asleep
<1> HIDE DEF l, new
<1>5. /\ new \in Lines /\ new.number = Len(log)
      /\ new.balance \in {0, Moved(n)} /\ (rc = 0 => new.balance = 0)
      /\ IF Full(log) THEN new.state # "AuditPending" ELSE new.state = "AuditPending"
  BY <1>3, <1>4 DEF Lines, States
<1>6. rs => Full(log) /\ reserved[n]
  BY <1>5 DEF new
<1>7. LineOK(new, log, rs)
  BY <1>5, <1>6 DEF LineOK
<1>8. PaidOK(n, new, log, rc, rs)
  BY <1>1, <1>5, <1>6 DEF PaidOK
<1>9. OpenOK(new, log, {})
  BY <1>5 DEF OpenOK
<1>10. EndOK(n, new, log, {}, rc, rs)
  BY <1>1, <1>7, <1>8, <1>9 DEF EndOK
<1>11. QED BY <1>10 DEF new

LEMMA Restarts ==
    ASSUME AuditInv, NEW n \in Nodes, Restart(n)
    PROVE  EndsInv' /\ NetInv'
<1> DEFINE keeps == reserved[n] /\ payment \in {"reserved", "voted"}
           new == Loaded(n)
           log == audits[n]
           rc == receipt[n]
<1>1. EndsInv /\ NetInv /\ stored[n] \in States \ {"AuditPending"}
  BY DEF AuditInv, RestInv
<1>2. NetInv'
  BY <1>1, NetShrinks DEF Restart
<1>3. /\ EndOK(n, line[n], log, txs[n], rc, reserved[n])
      /\ PaidOK(n, line[n], log, rc, reserved[n])
      /\ audits = [audits EXCEPT ![n] = log] /\ receipt = [receipt EXCEPT ![n] = rc]
  BY <1>1, EndOf
<1>4. keeps \in BOOLEAN /\ (keeps => reserved[n] /\ new.state = "Active")
  BY <1>3 DEF Restart, PaidOK
<1>5. EndOK(n, new, log, {}, rc, keeps)
  <2> HIDE DEF keeps
  <2>1. QED BY <1>1, <1>3, <1>4, LoadedLine
<1>6. /\ line' = [line EXCEPT ![n] = new] /\ txs' = [txs EXCEPT ![n] = {}]
      /\ reserved' = [reserved EXCEPT ![n] = keeps] /\ UNCHANGED <<audits, receipt>>
  BY DEF Restart
<1>7. /\ line' = [line EXCEPT ![n] = new] /\ txs' = [txs EXCEPT ![n] = {}]
      /\ reserved' = [reserved EXCEPT ![n] = keeps]
      /\ audits' = [audits EXCEPT ![n] = log] /\ receipt' = [receipt EXCEPT ![n] = rc]
  BY <1>3, <1>6
<1> HIDE DEF keeps, new, log, rc
<1>8. EndsInv'
  BY <1>1, <1>5, <1>7, EndChanges
<1>9. QED BY <1>2, <1>8

LEMMA PaymentStarts ==
    ASSUME AuditInv, PayerReserves \/ PayeeReserves \/ Decide
    PROVE  EndsInv' /\ NetInv'
<1>1. EndsInv /\ NetInv /\ PaymentInv
  BY DEF AuditInv
<1>2. UNCHANGED <<line, audits, txs, receipt, net>>
  BY DEF PayerReserves, PayeeReserves, Decide
<1>3. NetInv'
  BY <1>1, <1>2, NetShrinks
<1>4. CASE PayerReserves
  <2>1. Payer \in Nodes /\ receipt[Payer] = 0 /\ line[Payer].state = "Active"
    BY <1>1, <1>4, ConstantTypes DEF PayerReserves, PaymentInv, CanReserve
  <2>2. reserved' = [reserved EXCEPT ![Payer] = TRUE]
    BY <1>4 DEF PayerReserves
  <2>3. EndsInv'
    BY <1>1, <1>2, <2>1, <2>2, Reserves
  <2>4. QED BY <1>3, <2>3
<1>5. CASE PayeeReserves
  <2> DEFINE n == Other(Payer)
             rs == CanReserve(n)
  <2>1. n \in Nodes
    BY ConstantTypes, OtherEnd
  <2>2. receipt[n] = 0
    BY <1>1, <1>5, <2>1 DEF PayeeReserves, PaymentInv
  <2>3. rs \in BOOLEAN /\ (rs => line[n].state = "Active")
    BY DEF CanReserve
  <2>4. reserved' = [reserved EXCEPT ![n] = rs]
    BY <1>5 DEF PayeeReserves
  <2> HIDE DEF n, rs
  <2>5. EndsInv'
    BY <1>1, <1>2, <2>1, <2>2, <2>3, <2>4, Reserves
  <2>6. QED BY <1>3, <2>5
<1>6. CASE Decide
  <2>1. UNCHANGED reserved
    BY <1>6 DEF Decide
  <2>2. EndsInv'
    BY <1>1, <1>2, <2>1, EndsStay
  <2>3. QED BY <1>3, <2>2
<1>7. QED BY <1>4, <1>5, <1>6

-----------------------------------------------------------------------------
(* The invariant of both ends *)

LEMMA RestKept ==
    ASSUME AuditInv, Next
    PROVE  RestInv'
<1>1. RestInv /\ EndsInv
  BY DEF AuditInv
<1>2. CASE UNCHANGED <<pinged, stored, restarts>>
  BY <1>1, <1>2 DEF RestInv
<1>3. ASSUME NEW n \in Nodes, NEW s \in States \ {"AuditPending"}, UNCHANGED <<pinged, restarts>>,
             stored' = [stored EXCEPT ![n] = s]
      PROVE  RestInv'
  BY <1>1, <1>3 DEF RestInv
<1>4. ASSUME NEW n \in Nodes, NEW b \in BOOLEAN, UNCHANGED <<stored, restarts>>,
             pinged' = [pinged EXCEPT ![n] = b]
      PROVE  RestInv'
  BY <1>1, <1>4 DEF RestInv
<1>5. ASSUME NEW n \in Nodes, NEW l, NEW c, c = Completed(l), l \in Lines
      PROVE  c.state \in {"Archived", "Active"}
  BY <1>5 DEF Completed, Lines
<1>6. \A n \in Nodes : stored[n] \in States \ {"AuditPending"}
  BY <1>1 DEF RestInv
<1>7. ASSUME NEW n \in Nodes, NEW t \in txs[n], runAuditPendingStage(n, t) PROVE RestInv'
  <2>1. UNCHANGED <<pinged, restarts>>
    BY <1>7 DEF runAuditPendingStage
  <2>2. UNCHANGED stored \/ stored' = [stored EXCEPT ![n] = "ConflictResolving"]
    BY <1>7 DEF runAuditPendingStage, Conflicts
  <2>3. QED BY <1>2, <1>3, <2>1, <2>2 DEF States
<1>8. ASSUME NEW n \in Nodes, NEW t \in txs[n], ResponseTimeout(n, t) PROVE RestInv'
  <2>1. UNCHANGED <<stored, restarts>>
    BY <1>8 DEF ResponseTimeout
  <2>2. UNCHANGED pinged \/ pinged' = [pinged EXCEPT ![n] = TRUE]
    BY <1>8 DEF ResponseTimeout
  <2>3. QED BY <1>2, <1>4, <2>1, <2>2
<1>9. ASSUME NEW n \in Nodes, NEW t \in txs[n], NEW m \in net, runResponseProcessingStage(n, t, m)
      PROVE  RestInv'
  <2>1. UNCHANGED <<pinged, restarts>>
    BY <1>9 DEF runResponseProcessingStage
  <2>2. CASE UNCHANGED stored \/ stored' = [stored EXCEPT ![n] = "ConflictResolving"]
    BY <1>2, <1>3, <2>1, <2>2 DEF States
  <2>3. CASE SavesContractorPart(n, t)
    <3> DEFINE c == Completed(line[n])
               s == IF c.state = "Archived" \/ t.request.kind = "audit" THEN c.state ELSE stored[n]
    <3>1. c.state \in {"Archived", "Active"}
      BY <1>1, <1>5, EndOf
    <3>2. stored' = [stored EXCEPT ![n] = s]
      BY <2>3 DEF SavesContractorPart
    <3> HIDE DEF c
    <3>3. s \in States \ {"AuditPending"}
      BY <1>6, <3>1 DEF States
    <3> HIDE DEF s
    <3>4. QED BY <1>3, <2>1, <3>2, <3>3
  <2>4. QED BY <1>9, <2>2, <2>3 DEF runResponseProcessingStage, ContractorIsBusy, Conflicts
<1>10. ASSUME NEW n \in Nodes, ReceivePong(n) PROVE RestInv'
  <2>1. UNCHANGED <<stored, restarts>> /\ pinged' = [pinged EXCEPT ![n] = FALSE]
    BY <1>10 DEF ReceivePong
  <2>2. QED BY <1>4, <2>1
<1>11. ASSUME NEW n \in Nodes, NEW m \in net, ReceiveAudit(n, m) PROVE RestInv'
  <2>1. UNCHANGED <<pinged, restarts>>
    BY <1>11 DEF ReceiveAudit
  <2>2. CASE UNCHANGED stored
    BY <1>2, <2>1, <2>2
  <2>3. ASSUME NEW log, SignsAudit(n, m, LineAfterCancel(n), log)
        PROVE  RestInv'
    <3> DEFINE l == LineAfterCancel(n)
               adopted == Adopted(l, m)
               renumbered == [adopted EXCEPT !.number = l.number + 1]
               c == Completed(renumbered)
    <3>1. l \in Lines
      <4>1. EndOK(n, line[n], audits[n], txs[n], receipt[n], reserved[n])
        BY <1>1, EndOf
      <4>2. EndOK(n, l, AuditsAfterCancel(n), txs[n], receipt[n], reserved[n])
        BY <4>1, AfterCancel
      <4>3. QED BY <4>2 DEF EndOK, LineOK
    <3>2. UNCHANGED stored \/ stored' = [stored EXCEPT ![n] = c.state]
      BY <2>3 DEF SignsAudit
    <3> HIDE DEF l
    <3>3. c.state \in {"Archived", "Active"}
      BY <3>1 DEF Completed, Adopted, Lines
    <3> HIDE DEF c
    <3>4. QED BY <1>2, <1>3, <2>1, <3>2, <3>3 DEF States
  <2>4. QED BY <1>11, <2>2, <2>3 DEF ReceiveAudit, AuditTarget
<1>12. ASSUME NEW n \in Nodes, Restart(n) PROVE RestInv'
  <2> DEFINE b == ~Actual(audits[n]).full
  <2>1. UNCHANGED stored /\ pinged' = [pinged EXCEPT ![n] = b]
    BY <1>12 DEF Restart
  <2>2. b \in BOOLEAN
    OBVIOUS
  <2> HIDE DEF b
  <2>3. restarts' \in 0..MaxRestarts
    BY <1>1, <1>12, ConstantTypes DEF Restart, RestInv
  <2>4. QED BY <1>1, <2>1, <2>2, <2>3 DEF RestInv
<1>13. ASSUME NEW n \in Nodes,
              \/ \E q \in Requests : runInitializationStage(n, q)
              \/ \E t \in txs[n] : runContractorPendingStage(n, t)
              \/ Ping(n) \/ CacheExpires(n) \/ Finish(n) \/ \E m \in net : Discard(n, m)
       PROVE  RestInv'
  BY <1>2, <1>13 DEF runInitializationStage, runContractorPendingStage, Ping, CacheExpires,
                     Finish, Discard
<1>14. CASE (\E m \in net : Lose(m)) \/ PayerReserves \/ PayeeReserves \/ Decide
  BY <1>2, <1>14 DEF Lose, PayerReserves, PayeeReserves, Decide
<1>15. QED BY <1>7, <1>8, <1>9, <1>10, <1>11, <1>12, <1>13, <1>14 DEF Next

LEMMA PaymentKept ==
    ASSUME AuditInv, Next
    PROVE  PaymentInv'
<1>1. PaymentInv /\ EndsInv
  BY DEF AuditInv
<1>2. CASE UNCHANGED <<receipt, payment>>
  BY <1>1, <1>2 DEF PaymentInv
<1>3. CASE PayerReserves \/ PayeeReserves \/ Decide
  BY <1>1, <1>3 DEF PayerReserves, PayeeReserves, Decide, PaymentInv
<1>4. ASSUME NEW n \in Nodes, Finish(n) PROVE PaymentInv'
  BY <1>1, <1>4 DEF Finish, PaymentInv
<1>5. ASSUME NEW n \in Nodes, Restart(n) PROVE PaymentInv'
  BY <1>1, <1>5 DEF Restart, PaymentInv
<1>6. ASSUME NEW n \in Nodes,
             \/ \E q \in Requests : runInitializationStage(n, q)
             \/ \E t \in txs[n] :
                   \/ runAuditPendingStage(n, t)
                   \/ ResponseTimeout(n, t)
                   \/ runContractorPendingStage(n, t)
                   \/ \E m \in net : runResponseProcessingStage(n, t, m)
             \/ Ping(n) \/ ReceivePong(n) \/ CacheExpires(n)
             \/ \E m \in net : ReceiveAudit(n, m) \/ Discard(n, m)
      PROVE  PaymentInv'
  <2>1. UNCHANGED <<receipt, payment>>
    BY <1>6 DEF runInitializationStage, runAuditPendingStage, ResponseTimeout,
                runContractorPendingStage, runResponseProcessingStage, Ping, ReceivePong,
                CacheExpires, ReceiveAudit, Discard
  <2>2. QED BY <1>2, <2>1
<1>7. CASE \E m \in net : Lose(m)
  BY <1>2, <1>7 DEF Lose
<1>8. QED BY <1>3, <1>4, <1>5, <1>6, <1>7 DEF Next

LEMMA CacheKept ==
    ASSUME AuditInv, Next
    PROVE  CacheInv'
<1>1. CacheInv
  BY DEF AuditInv
<1>2. CASE UNCHANGED cache
  BY <1>1, <1>2 DEF CacheInv, Ends
<1>3. ASSUME NEW n \in Nodes, NEW m \in net, ReceiveAudit(n, m) PROVE CacheInv'
  BY <1>3, ReceivesAudit
<1>4. ASSUME NEW n \in Nodes, CacheExpires(n) \/ Restart(n) PROVE CacheInv'
  <2>1. cache' = [cache EXCEPT ![n] = NoAnswer]
    BY <1>4 DEF CacheExpires, Restart
  <2>2. NoAnswer.id = "none" /\ NoAnswer.signed \in NoTerms
    BY DEF NoAnswer, NoTerms
  <2>3. QED BY <1>1, <2>1, <2>2 DEF CacheInv, Ends
<1>5. ASSUME NEW n \in Nodes,
             \/ \E q \in Requests : runInitializationStage(n, q)
             \/ \E t \in txs[n] :
                   \/ runAuditPendingStage(n, t)
                   \/ ResponseTimeout(n, t)
                   \/ runContractorPendingStage(n, t)
                   \/ \E m \in net : runResponseProcessingStage(n, t, m)
             \/ Ping(n) \/ ReceivePong(n) \/ Finish(n)
             \/ \E m \in net : Discard(n, m)
      PROVE  CacheInv'
  <2>1. UNCHANGED cache
    BY <1>5 DEF runInitializationStage, runAuditPendingStage, ResponseTimeout,
                runContractorPendingStage, runResponseProcessingStage, Ping, ReceivePong,
                Finish, Discard
  <2>2. QED BY <1>2, <2>1
<1>6. CASE (\E m \in net : Lose(m)) \/ PayerReserves \/ PayeeReserves \/ Decide
  BY <1>2, <1>6 DEF Lose, PayerReserves, PayeeReserves, Decide
<1>7. QED BY <1>3, <1>4, <1>5, <1>6 DEF Next

LEMMA InitAuditInv == Init => AuditInv
<1> SUFFICES ASSUME Init PROVE AuditInv
  OBVIOUS
<1>1. ASSUME NEW n \in Nodes
      PROVE  EndOK(n, line[n], audits[n], txs[n], receipt[n], reserved[n])
  <2> DEFINE a == [terms |-> First(n), full |-> TRUE]
             l == [state |-> "Active", number |-> 1, outgoing |-> First(n).outgoing,
                   incoming |-> First(n).incoming, balance |-> 0]
  <2>1. /\ line[n] = l /\ audits[n] = <<a>> /\ txs[n] = {} /\ receipt[n] = 0
        /\ reserved[n] = FALSE
    BY <1>1 DEF Init
  <2>2. First(n) \in AllTerms /\ First(n).number = 1 /\ First(n).balance = 0
    <3>1. InitialTrust[n] \in TrustAmounts /\ InitialTrust[Other(n)] \in TrustAmounts
      BY ConstantTypes, OtherEnd
    <3>2. 1 \in 1..MaxAuditNumber
      BY ConstantTypes
    <3>3. QED BY <3>1, <3>2 DEF First, AllTerms
  <2>3. l \in Lines /\ l.number = 1 /\ l.state = "Active" /\ l.balance = 0
    BY <2>2 DEF Lines, States, AllTerms
  <2>4. a \in Audits /\ a.terms = First(n) /\ a.full = TRUE
    BY <2>2 DEF Audits
  <2> HIDE DEF a, l
  <2>5. LogOK(<<a>>) /\ Len(<<a>>) = 1 /\ Full(<<a>>) /\ <<a>>[1] = a
    BY <2>2, <2>4 DEF LogOK, Complete, Full, Actual
  <2>6. LineOK(l, <<a>>, FALSE)
    BY <2>3, <2>5 DEF LineOK
  <2>7. PaidOK(n, l, <<a>>, 0, FALSE)
    BY <2>2, <2>3, <2>4, <2>5 DEF PaidOK
  <2>8. OpenOK(l, <<a>>, {})
    BY <2>3 DEF OpenOK
  <2>9. QED BY <2>1, <2>5, <2>6, <2>7, <2>8 DEF EndOK
<1>2. EndsInv
  <2>1. Ends(line) /\ Ends(audits) /\ Ends(txs) /\ Ends(receipt) /\ Ends(reserved)
    BY DEF Init, Ends
  <2>2. QED BY <1>1, <2>1 DEF EndsInv
<1>3. NetInv
  BY DEF Init, NetInv
<1>4. CacheInv
  BY DEF Init, CacheInv, Ends, NoAnswer, NoTerms
<1>5. PaymentInv
  BY DEF Init, PaymentInv
<1>6. RestInv
  BY ConstantTypes DEF Init, RestInv, States
<1>7. QED BY <1>2, <1>3, <1>4, <1>5, <1>6 DEF AuditInv

LEMMA AuditStep == AuditInv /\ OneAudit /\ OneAudit' /\ [Next]_vars => AuditInv'
<1> SUFFICES ASSUME AuditInv, OneAudit, OneAudit', [Next]_vars PROVE AuditInv'
  OBVIOUS
<1>1. CASE UNCHANGED vars
  <2>1. EndsInv' /\ NetInv'
    BY <1>1, EndsStay, NetShrinks DEF AuditInv, vars
  <2>2. CacheInv' /\ PaymentInv' /\ RestInv'
    BY <1>1 DEF AuditInv, CacheInv, Ends, PaymentInv, RestInv, vars
  <2>3. QED BY <2>1, <2>2 DEF AuditInv
<1>2. CASE Next
  <2>1. EndsInv /\ NetInv
    BY DEF AuditInv
  <2>2. ASSUME NEW n \in Nodes, NEW q \in Requests, runInitializationStage(n, q)
        PROVE  EndsInv' /\ NetInv'
    BY <2>2, StartsAudit
  <2>3. ASSUME NEW n \in Nodes, NEW t \in txs[n],
               \/ runAuditPendingStage(n, t) \/ ResponseTimeout(n, t)
               \/ runContractorPendingStage(n, t)
        PROVE  EndsInv' /\ NetInv'
    BY <2>3, PendingStage, TimesOut, AsksAgain
  <2>4. ASSUME NEW n \in Nodes, NEW t \in txs[n], NEW m \in net,
               runResponseProcessingStage(n, t, m)
        PROVE  EndsInv' /\ NetInv'
    BY <2>4, Responds
  <2>5. ASSUME NEW n \in Nodes, NEW m \in net, ReceiveAudit(n, m)
        PROVE  EndsInv' /\ NetInv'
    BY <2>5, ReceivesAudit
  <2>6. ASSUME NEW n \in Nodes, ReceivePong(n) \/ Finish(n) \/ Restart(n)
        PROVE  EndsInv' /\ NetInv'
    BY <2>6, Resumes, Finishes, Restarts
  <2>7. ASSUME NEW n \in Nodes, Ping(n)
        PROVE  EndsInv' /\ NetInv'
    <3>1. EndsInv'
      BY <2>1, <2>7, EndsStay DEF Ping
    <3>2. net' \subseteq net \cup {[type |-> "pong", to |-> n]}
      BY <2>7 DEF Ping
    <3>3. MessageOK([type |-> "pong", to |-> n])
      BY DEF MessageOK
    <3>4. QED BY <2>1, <3>1, <3>2, <3>3, NetKept
  <2>8. ASSUME NEW n \in Nodes, CacheExpires(n) \/ \E m \in net : Discard(n, m)
        PROVE  EndsInv' /\ NetInv'
    BY <2>1, <2>8, EndsStay, NetShrinks DEF CacheExpires, Discard
  <2>9. ASSUME NEW m \in net, Lose(m)
        PROVE  EndsInv' /\ NetInv'
    BY <2>1, <2>9, EndsStay, NetShrinks DEF Lose
  <2>10. ASSUME PayerReserves \/ PayeeReserves \/ Decide
         PROVE  EndsInv' /\ NetInv'
    BY <2>10, PaymentStarts
  <2>11. EndsInv' /\ NetInv'
    BY <1>2, <2>2, <2>3, <2>4, <2>5, <2>6, <2>7, <2>8, <2>9, <2>10 DEF Next
  <2>12. CacheInv' /\ PaymentInv' /\ RestInv'
    BY <1>2, CacheKept, PaymentKept, RestKept
  <2>13. QED BY <2>11, <2>12 DEF AuditInv
<1>3. QED BY <1>1, <1>2

LEMMA AuditInvIsOpen == AuditInv => PendingIsOpen
<1> SUFFICES ASSUME AuditInv PROVE PendingIsOpen
  OBVIOUS
<1>1. ASSUME NEW n \in Nodes PROVE OpenOK(line[n], audits[n], txs[n])
  BY EndOf DEF AuditInv
<1>2. QED BY <1>1 DEF PendingIsOpen, OpenOK, Full

LEMMA AuditInvTypes == AuditInv /\ OneAudit => TypeOK
<1> SUFFICES ASSUME AuditInv, OneAudit PROVE TypeOK
  OBVIOUS
<1>1. ASSUME NEW n \in Nodes
      PROVE  /\ line[n] \in Lines /\ LogOK(audits[n]) /\ receipt[n] \in 0..MaxAuditNumber
             /\ reserved[n] \in BOOLEAN /\ \A t \in txs[n] : t \in Txs(n)
             /\ Ends(line) /\ Ends(receipt) /\ Ends(reserved)
  <2>1. /\ LogOK(audits[n]) /\ PaidOK(n, line[n], audits[n], receipt[n], reserved[n])
        /\ line[n] \in Lines /\ \A t \in txs[n] : t \in Txs(n)
        /\ Ends(line) /\ Ends(receipt) /\ Ends(reserved)
    BY EndOf DEF AuditInv
  <2>2. Len(audits[n]) \in Nat /\ Len(audits[n]) <= MaxAuditNumber
    BY <2>1, LastAudit
  <2>3. /\ receipt[n] \in Nat /\ (receipt[n] # 0 => receipt[n] <= Len(audits[n]))
        /\ reserved[n] \in BOOLEAN
    BY <2>1 DEF PaidOK
  <2>4. QED BY <2>1, <2>2, <2>3, ConstantTypes
<1>2. ASSUME NEW n \in Nodes PROVE AuditsOK(audits[n])
  <2> DEFINE log == audits[n]
  <2>1. /\ log \in Seq(Audits) /\ Len(log) \in Nat \ {0}
        /\ \A i \in 1..Len(log) : log[i].terms.number = i /\ (log[i].full \/ (i > 1 /\ i = Len(log)))
    BY <1>1, LastAudit DEF LogOK, Complete
  <2>2. log # <<>>
    BY <2>1
  <2> HIDE DEF log
  <2>3. \A i \in 1..Len(log) - 1 :
           log[i].full /\ log[i + 1].terms.number = log[i].terms.number + 1
    BY <2>1
  <2>4. QED BY <2>1, <2>2, <2>3 DEF AuditsOK, Audits, log
<1>3. line \in [Nodes -> Lines] /\ receipt \in [Nodes -> 0..MaxAuditNumber]
      /\ reserved \in [Nodes -> BOOLEAN]
  <2>1. Ends(line) /\ Ends(receipt) /\ Ends(reserved)
    BY DEF AuditInv, EndsInv
  <2>2. QED BY <1>1, <2>1 DEF Ends
<1>4. \A n \in Nodes : \A t \in txs[n] :
          /\ t.id \in TransactionUUIDs[n] /\ t.request \in Requests \cup {ResumedAudit}
          /\ t.step \in {"pending", "response", "contractorPending"}
          /\ t.number \in 1..MaxAuditNumber /\ t.signed \in AllTerms \cup NoTerms
          /\ t.sent \in 0..kMaxCountSendingAttempts
          /\ t.waits \in 0..kMaxPendingAttempts
          /\ t.contractorWaits \in 0..kMaxPendingAttempts + 1
  BY <1>1 DEF Txs
<1>5. \A n \in Nodes : \A t, u \in txs[n] : t.id = u.id => t = u
  BY DEF OneAudit
<1>6. \A n \in Nodes : /\ cache[n].id \in TransactionUUIDs[Other(n)] \cup {"none"}
                       /\ cache[n].signed \in AllTerms \cup NoTerms
  BY DEF AuditInv, CacheInv
<1>7. /\ payment \in {"none", "reserving", "reserved", "voted", "cancelled"}
      /\ pinged \in [Nodes -> BOOLEAN] /\ restarts \in 0..MaxRestarts
      /\ stored \in [Nodes -> States]
  BY DEF AuditInv, PaymentInv, RestInv
<1>8. QED BY <1>2, <1>3, <1>4, <1>5, <1>6, <1>7 DEF TypeOK, Lines

\* Each end has one transaction at most, alive or remembered.
OneUUID == \A n \in Nodes : \A u, v \in TransactionUUIDs[n] : u = v

LEMMA FreshIsFirst ==
    ASSUME OneUUID, EndsInv, NEW n \in Nodes, FreshUUIDs(n) # {}
    PROVE  txs[n] = {}
<1>1. SUFFICES ASSUME NEW t \in txs[n] PROVE FALSE
  OBVIOUS
<1>2. t.id \in TransactionUUIDs[n]
  BY EndOf DEF Txs
<1>3. t.id \in UsedUUIDs
  <2>1. t.id \in {x.id : x \in txs[n]} \cup {cache[n].id}
    OBVIOUS
  <2>2. QED BY <2>1 DEF UsedUUIDs
<1>4. QED BY <1>2, <1>3 DEF FreshUUIDs, OneUUID

LEMMA OneAuditKept ==
    ASSUME OneUUID, AuditInv, OneAudit, [Next]_vars
    PROVE  OneAudit'
<1>1. EndsInv /\ Ends(txs)
  BY DEF AuditInv, EndsInv
<1>2. CASE UNCHANGED txs
  BY <1>2 DEF OneAudit
<1>3. ASSUME NEW n \in Nodes, NEW ts, txs' = [txs EXCEPT ![n] = ts], \A x, y \in ts : x = y
      PROVE  OneAudit'
  BY <1>1, <1>3 DEF OneAudit, Ends
<1>4. ASSUME NEW n \in Nodes, NEW t, Stops(n, t)
      PROVE  OneAudit'
  <2>1. txs' = [txs EXCEPT ![n] = txs[n] \ {t}]
    BY <1>4 DEF Stops
  <2>2. \A x, y \in txs[n] \ {t} : x = y
    BY DEF OneAudit
  <2>3. QED BY <1>3, <2>1, <2>2
<1>5. ASSUME NEW n \in Nodes, NEW t, NEW u, t \in txs[n] \/ txs[n] = {}, Becomes(n, t, u)
      PROVE  OneAudit'
  <2>1. txs' = [txs EXCEPT ![n] = (txs[n] \ {t}) \cup {u}]
    BY <1>5 DEF Becomes
  <2>2. \A x, y \in (txs[n] \ {t}) \cup {u} : x = y
    BY <1>5 DEF OneAudit
  <2>3. QED BY <1>3, <2>1, <2>2
<1>6. ASSUME NEW n \in Nodes, NEW q \in Requests, runInitializationStage(n, q)
      PROVE  OneAudit'
  <2>1. txs[n] = {}
    BY <1>1, <1>6, FreshIsFirst DEF runInitializationStage
  <2>2. \E t, u : Stops(n, t) \/ Becomes(n, t, u)
    BY <1>6 DEF runInitializationStage, initializeAudit, SavesOwnPart
  <2>3. QED BY <1>4, <1>5, <2>1, <2>2
<1>7. ASSUME NEW n \in Nodes, NEW t \in txs[n],
             \/ runAuditPendingStage(n, t) \/ ResponseTimeout(n, t)
             \/ runContractorPendingStage(n, t)
             \/ \E m \in net : runResponseProcessingStage(n, t, m)
      PROVE  OneAudit'
  <2>1. Stops(n, t) \/ \E u : Becomes(n, t, u)
    <3>1. CASE runAuditPendingStage(n, t)
      BY <3>1 DEF runAuditPendingStage, initializeAudit, SavesOwnPart, nextAttemptAudit, Conflicts
    <3>2. CASE ResponseTimeout(n, t) \/ runContractorPendingStage(n, t)
      BY <3>2 DEF ResponseTimeout, runContractorPendingStage
    <3>3. CASE \E m \in net : runResponseProcessingStage(n, t, m)
      BY <3>3 DEF runResponseProcessingStage, ContractorIsBusy, SavesContractorPart, Conflicts
    <3>4. QED BY <1>7, <3>1, <3>2, <3>3
  <2>2. QED BY <1>4, <1>5, <2>1
<1>8. ASSUME NEW n \in Nodes, ReceivePong(n) PROVE OneAudit'
  <2>1. UNCHANGED txs \/ (FreshUUIDs(n) # {} /\ \E t, u : Becomes(n, t, u))
    BY <1>8 DEF ReceivePong
  <2>2. QED BY <1>1, <1>2, <1>5, <2>1, FreshIsFirst
<1>9. ASSUME NEW n \in Nodes, Restart(n) PROVE OneAudit'
  <2>1. txs' = [txs EXCEPT ![n] = {}]
    BY <1>9 DEF Restart
  <2>2. QED BY <1>3, <2>1
<1>10. ASSUME NEW n \in Nodes,
              \/ Ping(n) \/ CacheExpires(n) \/ Finish(n)
              \/ \E m \in net : ReceiveAudit(n, m) \/ Discard(n, m)
       PROVE  OneAudit'
  <2>1. UNCHANGED txs
    BY <1>10 DEF Ping, CacheExpires, Finish, ReceiveAudit, Discard
  <2>2. QED BY <1>2, <2>1
<1>11. ASSUME (\E m \in net : Lose(m)) \/ PayerReserves \/ PayeeReserves \/ Decide
       PROVE  OneAudit'
  <2>1. UNCHANGED txs
    BY <1>11 DEF Lose, PayerReserves, PayeeReserves, Decide
  <2>2. QED BY <1>2, <2>1
<1>12. CASE UNCHANGED vars
  BY <1>2, <1>12 DEF vars
<1>13. CASE Next
  BY <1>6, <1>7, <1>8, <1>9, <1>10, <1>11, <1>13 DEF Next
<1>14. QED BY <1>12, <1>13

-----------------------------------------------------------------------------
(* The theorems *)

\* The parts of an end fit together after every handler and every restart.
THEOREM AuditInvariant == Spec /\ []OneAudit => []AuditInv
<1>1. QED BY InitAuditInv, AuditStep, PTL DEF Spec

\* The views, audits and transactions of the two ends stay within their types,
\* their audits numbered without a gap and none but the last incomplete, for any
\* requests, amounts, losses, repetitions, restarts and payments, while each end
\* works on one audit at a time.
THEOREM TypeCorrect == Spec /\ []OneAudit => []TypeOK
<1>1. QED BY AuditInvariant, AuditInvTypes, PTL

\* A line that waits for an audit has one to wait for, or was asked for what it
\* refuses, whatever crossed it: simultaneous audits, restarts between the two
\* halves, late and repeated answers, payments.
THEOREM PendingAlwaysOpen == Spec /\ []OneAudit => []PendingIsOpen
<1>1. QED BY AuditInvariant, AuditInvIsOpen, PTL

\* The same without a premise on the behaviour, as the runs have it: an end that
\* starts no transaction before the last is forgotten works on one audit at a
\* time by itself.
THEOREM OneTransactionEach ==
    ASSUME OneUUID
    PROVE  Spec => [](OneAudit /\ TypeOK /\ PendingIsOpen)
<1>1. Init => AuditInv /\ OneAudit
  BY InitAuditInv DEF Init, OneAudit
<1>2. AuditInv /\ OneAudit /\ [Next]_vars => (AuditInv /\ OneAudit)'
  BY OneAuditKept, AuditStep
<1>3. AuditInv /\ OneAudit => TypeOK /\ PendingIsOpen
  BY AuditInvTypes, AuditInvIsOpen
<1>4. QED BY <1>1, <1>2, <1>3, PTL DEF Spec

=============================================================================
