------------------------- MODULE AuditAgreementProofs -------------------------
(***************************************************************************)
(* That the two ends of a line keep the same audits: the audits with both   *)
(* signatures implement one agreed sequence, and two ends that use the line *)
(* agree on its balance.  Holds of any requests, amounts, bounds, losses    *)
(* and repetitions while each end works on one audit at a time and, of      *)
(* restarts and payments, at most one happens.                              *)
(* On a line that only one end audits, and over which no payment goes,      *)
(* there is no conflict, and the limits are those both ends signed.         *)
(***************************************************************************)
EXTENDS TrustLineAuditProofs

\* A restart during an audit forgets the balance a payment has moved.
RestartsOrPays == MaxRestarts = 0 \/ Payments = 0

Lesser == Other(Greater)

\* How many audits of an end have both signatures: all but a pending last one.
FullLen(log) == IF Full(log) THEN Len(log) ELSE Len(log) - 1

\* The same terms as the other end writes them.
Mirror(t) == [number |-> t.number, outgoing |-> t.incoming, incoming |-> t.outgoing,
              balance |-> -t.balance]

SameTerms(log, log2, k) == \A i \in 1..k : log2[i].terms = log[i].terms

\* A signature given as the contractor is that of an audit the end keeps.
Kept(log, s) == s.number \in 1..FullLen(log) /\ log[s.number].terms = s

\* A signature given as the initiator is at most one ahead of the audits with
\* both signatures; the greater end, which never cancels, still has its audit.
Asked(n, log, s) ==
    /\ s.number <= FullLen(log) + 1
    /\ n = Greater => s.number <= Len(log) /\ log[s.number].terms = s

MessageSigned(m, logs) ==
    /\ m.type = "audit" => Asked(Other(m.to), logs[Other(m.to)], m.signed)
    /\ m.type = "response" =>
          /\ m.to \in Nodes
          /\ m.state = "OK" /\ m.signed \in AllTerms => Kept(logs[Other(m.to)], m.signed)

SignedInv ==
    /\ \A m \in net : MessageSigned(m, audits)
    /\ \A n \in Nodes :
          /\ cache[n].signed \in AllTerms => Kept(audits[n], cache[n].signed)
          /\ \A t \in txs[n] : t.step # "pending" => Asked(n, audits[n], t.signed)

\* The greater end misses at most nothing the lesser has with both signatures,
\* its pending audit counted; the lesser end misses at most the last.
Agreeing(high, low) ==
    /\ FullLen(high) <= FullLen(low) + 1 /\ FullLen(low) <= Len(high)
    /\ \A i \in 1..FullLen(low) : high[i].terms = Mirror(low[i].terms)

AgreeInv == Agreeing(audits[Greater], audits[Lesser])

\* While an audit is pending the line is the one it was written from.
HalfOK(l, log) == ~Full(log) => Actual(log).terms = OwnTerms(Len(log), l)

\* The balance counts the payment from its receipt on.
CurrentOK(n, l, log, rc) ==
    rc # 0 => /\ l.balance = Moved(n)
              /\ \A i \in 1..Len(log) : i > rc => log[i].terms.balance = Moved(n)

LineOf(n, l, log, rc) == HalfOK(l, log) /\ CurrentOK(n, l, log, rc)
LineInv == \A n \in Nodes : LineOf(n, line[n], audits[n], receipt[n])

VotedInv ==
    /\ Payments = 0 => payment = "none"
    /\ payment = "reserving" => reserved[Payer]
    /\ payment = "reserved" => \A n \in Nodes : reserved[n]
    /\ payment = "voted" => \A n \in Nodes : reserved[n] \/ receipt[n] # 0

AgreementInv == SignedInv /\ AgreeInv /\ LineInv /\ VotedInv

-----------------------------------------------------------------------------
(* What a step does to the audits of the two ends *)

\* No audit with both signatures is lost, and none of the greater end at all.
Grown(n, log, log2) ==
    /\ FullLen(log2) >= FullLen(log) /\ SameTerms(log, log2, FullLen(log))
    /\ n = Greater => Len(log2) >= Len(log) /\ SameTerms(log, log2, Len(log))

\* At most one end gains at most one audit, the one behind if either is.
KnownStep(logs, logs2) ==
    \/ \A n \in Nodes : FullLen(logs2[n]) = FullLen(logs[n])
    \/ \E n \in Nodes : /\ FullLen(logs2[n]) = FullLen(logs[n]) + 1
                        /\ FullLen(logs[n]) <= FullLen(logs[Other(n)])
                        /\ FullLen(logs2[Other(n)]) = FullLen(logs[Other(n)])

LogStep == /\ \A n \in Nodes : Grown(n, audits[n], audits'[n])
           /\ KnownStep(audits, audits')
           /\ Agreeing(audits'[Greater], audits'[Lesser])

LEMMA TwoEnds ==
    /\ Greater \in Nodes /\ Lesser \in Nodes /\ Greater # Lesser
    /\ Other(Greater) = Lesser /\ Other(Lesser) = Greater
    /\ \A n \in Nodes : n = Greater \/ n = Lesser
<1>1. Greater \in Nodes
  BY ConstantTypes
<1>2. Lesser \in Nodes /\ Lesser # Greater /\ Other(Lesser) = Greater
  BY <1>1, OtherEnd DEF Lesser
<1>3. \A n \in Nodes : n = Greater \/ n = Lesser
  BY <1>1, OtherEnd DEF Lesser
<1>4. QED BY <1>1, <1>2, <1>3 DEF Lesser

LEMMA FullLenType ==
    ASSUME NEW log, LogOK(log)
    PROVE  /\ FullLen(log) \in Nat \ {0} /\ Len(log) \in Nat \ {0}
           /\ FullLen(log) <= Len(log) /\ Len(log) <= FullLen(log) + 1
           /\ Full(log) => FullLen(log) = Len(log)
           /\ ~Full(log) => FullLen(log) = Len(log) - 1
<1> DEFINE k == Len(log)
<1>1. k \in Nat \ {0}
  BY LastAudit
<1>2. CASE Full(log)
  BY <1>1, <1>2 DEF FullLen
<1>3. CASE ~Full(log)
  <2>1. ~log[Len(log)].full
    BY <1>3 DEF Full, Actual
  <2>2. k > 1
    BY <1>1, <2>1 DEF LogOK, Complete
  <2>3. FullLen(log) = k - 1
    BY <1>3 DEF FullLen
  <2> HIDE DEF k
  <2>4. FullLen(log) \in Nat \ {0} /\ FullLen(log) <= k /\ k <= FullLen(log) + 1
    BY <1>1, <2>2, <2>3
  <2>5. QED BY <1>1, <1>3, <2>3, <2>4 DEF k
<1>4. QED BY <1>2, <1>3

LEMMA LogsOf ==
    ASSUME EndsInv
    PROVE  Ends(audits) /\ \A n \in Nodes : LogOK(audits[n])
BY DEF EndsInv, EndOK

LEMMA LogChanged ==
    ASSUME EndsInv, NEW n \in Nodes, NEW log, audits' = [audits EXCEPT ![n] = log]
    PROVE  audits'[n] = log /\ \A x \in Nodes : x # n => audits'[x] = audits[x]
BY LogsOf DEF Ends

LEMMA NotLost ==
    ASSUME NEW n, NEW log, LogOK(log)
    PROVE  Grown(n, log, log)
BY FullLenType DEF Grown, SameTerms

LEMMA LogsStay ==
    ASSUME EndsInv, AgreeInv, UNCHANGED audits
    PROVE  LogStep
<1>1. \A n \in Nodes : Grown(n, audits[n], audits'[n])
  BY LogsOf, NotLost
<1>2. KnownStep(audits, audits')
  BY DEF KnownStep
<1>3. Agreeing(audits'[Greater], audits'[Lesser])
  BY DEF AgreeInv
<1>4. QED BY <1>1, <1>2, <1>3 DEF LogStep

\* An end changes its pending audit only.
LEMMA PendingChanges ==
    ASSUME EndsInv, AgreeInv, NEW n \in Nodes, NEW log, LogOK(log),
           audits' = [audits EXCEPT ![n] = log],
           Grown(n, audits[n], log), FullLen(log) = FullLen(audits[n])
    PROVE  LogStep
<1> DEFINE high == audits[Greater]
           low == audits[Lesser]
<1>1. audits'[n] = log /\ \A x \in Nodes : x # n => audits'[x] = audits[x]
  BY LogChanged
<1>2. \A x \in Nodes : LogOK(audits[x])
  BY LogsOf
<1>3. \A x \in Nodes : Grown(x, audits[x], audits'[x])
  BY <1>1, <1>2, NotLost
<1>4. \A x \in Nodes : FullLen(audits'[x]) = FullLen(audits[x])
  BY <1>1
<1>5. KnownStep(audits, audits')
  BY <1>4 DEF KnownStep
<1>6. Agreeing(high, low) /\ LogOK(high) /\ LogOK(low)
  BY <1>2, TwoEnds DEF AgreeInv
<1>7. CASE n = Greater
  <2>1. audits'[Greater] = log /\ audits'[Lesser] = low
    BY <1>1, <1>7, TwoEnds
  <2>2. Len(log) >= Len(high) /\ SameTerms(high, log, Len(high))
    BY <1>7 DEF Grown
  <2>3. FullLen(log) = FullLen(high)
    BY <1>7
  <2>4. FullLen(low) \in Nat /\ Len(high) \in Nat /\ Len(log) \in Nat
    BY <1>6, FullLenType
  <2> HIDE DEF high, low
  <2>5. Agreeing(log, low)
    BY <1>6, <2>2, <2>3, <2>4 DEF Agreeing, SameTerms
  <2>6. QED BY <1>3, <1>5, <2>1, <2>5 DEF LogStep
<1>8. CASE n = Lesser
  <2>1. audits'[Greater] = high /\ audits'[Lesser] = log
    BY <1>1, <1>8, TwoEnds
  <2>2. FullLen(log) = FullLen(low) /\ SameTerms(low, log, FullLen(low))
    BY <1>8 DEF Grown
  <2> HIDE DEF high, low
  <2>3. Agreeing(high, log)
    BY <1>6, <2>2 DEF Agreeing, SameTerms
  <2>4. QED BY <1>3, <1>5, <2>1, <2>3 DEF LogStep
<1>9. QED BY <1>7, <1>8, TwoEnds

\* An end gains the next audit: the greater end when it is not ahead, the lesser
\* what the greater has already.
LEMMA AuditGained ==
    ASSUME EndsInv, AgreeInv, NEW n \in Nodes, NEW log, LogOK(log),
           audits' = [audits EXCEPT ![n] = log],
           Grown(n, audits[n], log), FullLen(log) = FullLen(audits[n]) + 1,
           FullLen(audits[n]) <= FullLen(audits[Other(n)]),
           n = Lesser => /\ FullLen(log) <= Len(audits[Greater])
                         /\ audits[Greater][FullLen(log)].terms = Mirror(log[FullLen(log)].terms)
    PROVE  LogStep
<1> DEFINE high == audits[Greater]
           low == audits[Lesser]
<1>1. audits'[n] = log /\ \A x \in Nodes : x # n => audits'[x] = audits[x]
  BY LogChanged
<1>2. \A x \in Nodes : LogOK(audits[x])
  BY LogsOf
<1>3. \A x \in Nodes : Grown(x, audits[x], audits'[x])
  BY <1>1, <1>2, NotLost
<1>4. KnownStep(audits, audits')
  <2>1. Other(n) \in Nodes /\ Other(n) # n
    BY OtherEnd
  <2>2. FullLen(audits'[n]) = FullLen(audits[n]) + 1
    BY <1>1
  <2>3. FullLen(audits'[Other(n)]) = FullLen(audits[Other(n)])
    BY <1>1, <2>1
  <2>4. QED BY <2>2, <2>3 DEF KnownStep
<1>5. Agreeing(high, low) /\ LogOK(high) /\ LogOK(low)
  BY <1>2, TwoEnds DEF AgreeInv
<1>6. /\ FullLen(low) \in Nat \ {0} /\ FullLen(high) \in Nat \ {0} /\ Len(high) \in Nat
      /\ Len(log) \in Nat
  BY <1>5, FullLenType
<1>7. CASE n = Greater
  <2>1. audits'[Greater] = log /\ audits'[Lesser] = low
    BY <1>1, <1>7, TwoEnds
  <2>2. /\ Len(log) >= Len(high) /\ SameTerms(high, log, Len(high))
        /\ FullLen(log) = FullLen(high) + 1 /\ FullLen(high) <= FullLen(low)
    BY <1>7, TwoEnds DEF Grown
  <2> HIDE DEF high, low
  <2>3. Agreeing(log, low)
    BY <1>5, <1>6, <2>2 DEF Agreeing, SameTerms
  <2>4. QED BY <1>3, <1>4, <2>1, <2>3 DEF LogStep
<1>8. CASE n = Lesser
  <2>1. audits'[Greater] = high /\ audits'[Lesser] = log
    BY <1>1, <1>8, TwoEnds
  <2>2. /\ FullLen(log) = FullLen(low) + 1 /\ SameTerms(low, log, FullLen(low))
        /\ FullLen(log) <= Len(high) /\ high[FullLen(log)].terms = Mirror(log[FullLen(log)].terms)
    BY <1>8 DEF Grown
  <2> HIDE DEF high, low
  <2>3. \A i \in 1..FullLen(log) : i \in 1..FullLen(low) \/ i = FullLen(log)
    BY <1>6, <2>2
  <2>4. \A i \in 1..FullLen(log) : high[i].terms = Mirror(log[i].terms)
    BY <1>5, <2>2, <2>3 DEF Agreeing, SameTerms
  <2>5. FullLen(high) <= FullLen(log) + 1
    BY <1>5, <1>6, <2>2 DEF Agreeing
  <2>6. QED BY <1>3, <1>4, <2>1, <2>2, <2>4, <2>5 DEF LogStep, Agreeing
<1>9. QED BY <1>7, <1>8, TwoEnds

-----------------------------------------------------------------------------
(* What is promised stays true *)

LEMMA KeptStays ==
    ASSUME NEW n, NEW log, NEW log2, LogOK(log), LogOK(log2), Grown(n, log, log2),
           NEW s, Kept(log, s)
    PROVE  Kept(log2, s)
<1>1. FullLen(log) \in Nat /\ FullLen(log2) \in Nat
  BY FullLenType
<1>2. QED BY <1>1 DEF Grown, SameTerms, Kept

LEMMA AskedStays ==
    ASSUME NEW n, NEW log, NEW log2, LogOK(log), LogOK(log2), Grown(n, log, log2),
           NEW s \in AllTerms, Asked(n, log, s)
    PROVE  Asked(n, log2, s)
<1>1. /\ FullLen(log) \in Nat /\ FullLen(log2) \in Nat /\ Len(log) \in Nat /\ Len(log2) \in Nat
      /\ s.number \in Nat /\ s.number >= 1
  BY FullLenType, ConstantTypes DEF AllTerms
<1>2. QED BY <1>1 DEF Grown, SameTerms, Asked

-----------------------------------------------------------------------------
(* The agreed audits *)

LEMMA CompleteAudits ==
    ASSUME EndsInv, NEW n \in Nodes
    PROVE  Len(FullAudits(n)) = FullLen(audits[n])
<1>1. LogOK(audits[n])
  BY LogsOf
<1>2. CASE Full(audits[n])
  BY <1>2 DEF FullAudits, FullLen, Full
<1>3. CASE ~Full(audits[n])
  <2>1. FullAudits(n) = WithoutLast(audits[n])
    BY <1>3 DEF FullAudits, Full
  <2>2. QED BY <1>1, <1>3, <2>1, CancelledLog DEF FullLen
<1>4. QED BY <1>2, <1>3

LEMMA MirroredTerms ==
    ASSUME NEW n \in Nodes, NEW t \in AllTerms
    PROVE  GreaterTerms(n, t) \in AllTerms
<1>1. -t.balance \in {-1, 0, 1}
  BY DEF AllTerms
<1>2. QED BY <1>1 DEF GreaterTerms, AllTerms

LEMMA AgreedSequence ==
    EndsInv /\ AgreeInv =>
        /\ Agreed(Longer) \in Seq(AllTerms)
        /\ \A n \in Nodes :
              /\ FullLen(audits[n]) <= Len(Agreed(Longer)) /\ FullLen(audits[n]) \in Nat
              /\ \A i \in 1..FullLen(audits[n]) :
                    Agreed(Longer)[i] = GreaterTerms(n, audits[n][i].terms)
        /\ \E n \in Nodes : Len(Agreed(Longer)) = FullLen(audits[n])
        /\ [n \in Nodes |-> Len(FullAudits(n))] = [n \in Nodes |-> FullLen(audits[n])]
<1> SUFFICES ASSUME EndsInv, AgreeInv
             PROVE  /\ Agreed(Longer) \in Seq(AllTerms)
                    /\ \A n \in Nodes :
                          /\ FullLen(audits[n]) <= Len(Agreed(Longer)) /\ FullLen(audits[n]) \in Nat
                          /\ \A i \in 1..FullLen(audits[n]) :
                                Agreed(Longer)[i] = GreaterTerms(n, audits[n][i].terms)
                    /\ \E n \in Nodes : Len(Agreed(Longer)) = FullLen(audits[n])
                    /\ [n \in Nodes |-> Len(FullAudits(n))] = [n \in Nodes |-> FullLen(audits[n])]
  OBVIOUS
<1>1. \A n \in Nodes : /\ Len(FullAudits(n)) = FullLen(audits[n]) /\ FullLen(audits[n]) \in Nat
                        /\ \A i \in 1..FullLen(audits[n]) : audits[n][i].terms \in AllTerms
  <2>1. SUFFICES ASSUME NEW n \in Nodes
                 PROVE  /\ Len(FullAudits(n)) = FullLen(audits[n]) /\ FullLen(audits[n]) \in Nat
                        /\ \A i \in 1..FullLen(audits[n]) : audits[n][i].terms \in AllTerms
    OBVIOUS
  <2>2. /\ LogOK(audits[n]) /\ Len(FullAudits(n)) = FullLen(audits[n])
        /\ FullLen(audits[n]) \in Nat /\ FullLen(audits[n]) <= Len(audits[n])
        /\ Len(audits[n]) \in Nat
    BY LogsOf, CompleteAudits, FullLenType
  <2>3. \A i \in 1..Len(audits[n]) : audits[n][i] \in Audits
    BY <2>2, LastAudit
  <2>4. \A i \in 1..FullLen(audits[n]) : i \in 1..Len(audits[n])
    BY <2>2
  <2>5. QED BY <2>2, <2>3, <2>4 DEF Audits
<1>2. /\ Longer \in Nodes
      /\ \A n \in Nodes : FullLen(audits[n]) <= FullLen(audits[Longer])
  <2>1. \E n \in Nodes : Len(FullAudits(Other(n))) <= Len(FullAudits(n))
    <3>1. \/ Len(FullAudits(Lesser)) <= Len(FullAudits(Greater))
          \/ Len(FullAudits(Greater)) <= Len(FullAudits(Lesser))
      BY <1>1, TwoEnds
    <3>2. QED BY <3>1, TwoEnds
  <2>2. Longer \in Nodes /\ Len(FullAudits(Other(Longer))) <= Len(FullAudits(Longer))
    BY <2>1 DEF Longer
  <2>3. \A n \in Nodes : n = Longer \/ n = Other(Longer)
    BY <2>2, OtherEnd
  <2>4. QED BY <1>1, <2>2, <2>3, OtherEnd
<1> DEFINE k == FullLen(audits[Longer])
           A == Agreed(Longer)
<1>3. A = [i \in 1..k |-> GreaterTerms(Longer, audits[Longer][i].terms)] /\ k \in Nat
  BY <1>1, <1>2 DEF Agreed
<1>4. \A i \in 1..k : GreaterTerms(Longer, audits[Longer][i].terms) \in AllTerms
  BY <1>1, <1>2, MirroredTerms
<1>5. A \in Seq(AllTerms) /\ Len(A) = k
  <2> HIDE DEF k, A
  <2>1. QED BY <1>3, <1>4
<1>6. ASSUME NEW n \in Nodes, NEW i \in 1..FullLen(audits[n])
      PROVE  A[i] = GreaterTerms(n, audits[n][i].terms)
  <2>1. i \in 1..k /\ A[i] = GreaterTerms(Longer, audits[Longer][i].terms)
    <3>1. i \in 1..k
      BY <1>1, <1>2
    <3>2. QED BY <1>3, <3>1
  <2>2. CASE n = Longer
    BY <2>1, <2>2
  <2>3. CASE n # Longer
    <3>1. i \in 1..FullLen(audits[Lesser])
      BY <1>6, <2>1, <2>3, <1>2, TwoEnds
    <3>2. audits[Greater][i].terms = Mirror(audits[Lesser][i].terms)
      BY <3>1 DEF AgreeInv, Agreeing
    <3>3. /\ GreaterTerms(Greater, audits[Greater][i].terms) = audits[Greater][i].terms
          /\ GreaterTerms(Lesser, audits[Lesser][i].terms) = Mirror(audits[Lesser][i].terms)
      BY TwoEnds DEF GreaterTerms, Mirror
    <3>4. QED BY <1>2, <2>1, <2>3, <3>2, <3>3, TwoEnds
  <2>4. QED BY <2>2, <2>3
<1>7. [n \in Nodes |-> Len(FullAudits(n))] = [n \in Nodes |-> FullLen(audits[n])]
  BY <1>1
<1> HIDE DEF A
<1>8. QED BY <1>1, <1>2, <1>5, <1>6, <1>7 DEF A

\* The step of the agreed audits that a step of the ends is.
LEMMA AgreedStep ==
    ASSUME EndsInv, EndsInv', AgreeInv, LogStep
    PROVE  [Abstract!Next]_<<Agreed(Longer), [n \in Nodes |-> Len(FullAudits(n))]>>
<1> DEFINE A == Agreed(Longer)
           K == [n \in Nodes |-> FullLen(audits[n])]
<1>1. AgreeInv'
  BY DEF LogStep, AgreeInv, Agreeing, FullLen, Full, Actual, Lesser, Other, Mirror
<1>2. /\ A \in Seq(AllTerms) /\ [n \in Nodes |-> Len(FullAudits(n))] = K
      /\ \A n \in Nodes : FullLen(audits[n]) <= Len(A) /\ FullLen(audits[n]) \in Nat
      /\ \A n \in Nodes : \A i \in 1..FullLen(audits[n]) :
            A[i] = GreaterTerms(n, audits[n][i].terms)
      /\ \E n \in Nodes : Len(A) = FullLen(audits[n])
  BY AgreedSequence
<1>3. (EndsInv /\ AgreeInv =>
        /\ Agreed(Longer) \in Seq(AllTerms)
        /\ \A n \in Nodes :
              /\ FullLen(audits[n]) <= Len(Agreed(Longer)) /\ FullLen(audits[n]) \in Nat
              /\ \A i \in 1..FullLen(audits[n]) :
                    Agreed(Longer)[i] = GreaterTerms(n, audits[n][i].terms)
        /\ \E n \in Nodes : Len(Agreed(Longer)) = FullLen(audits[n])
        /\ [n \in Nodes |-> Len(FullAudits(n))] = [n \in Nodes |-> FullLen(audits[n])])'
  BY AgreedSequence, PTL
<1>4. /\ A' \in Seq(AllTerms) /\ [n \in Nodes |-> Len(FullAudits(n))]' = K'
      /\ \A n \in Nodes : (FullLen(audits[n]) <= Len(A))' /\ (FullLen(audits[n]) \in Nat)'
      /\ \A n \in Nodes : (\A i \in 1..FullLen(audits[n]) :
            A[i] = GreaterTerms(n, audits[n][i].terms))'
      /\ \E n \in Nodes : (Len(A) = FullLen(audits[n]))'
  BY <1>1, <1>3
<1> DEFINE B == Agreed(Longer)'
           k(n) == FullLen(audits[n])
           k2(n) == FullLen(audits'[n])
<1>5. /\ B \in Seq(AllTerms) /\ K' = [n \in Nodes |-> k2(n)]
      /\ \A n \in Nodes : k2(n) <= Len(B) /\ k2(n) \in Nat
      /\ \A n \in Nodes : \A i \in 1..k2(n) : B[i] = GreaterTerms(n, audits'[n][i].terms)
      /\ \E n \in Nodes : Len(B) = k2(n)
  BY <1>4 DEF FullLen, Full, Actual, GreaterTerms
<1>6. \A n \in Nodes : k2(n) >= k(n) /\ \A i \in 1..k(n) : audits'[n][i].terms = audits[n][i].terms
  BY DEF LogStep, Grown, SameTerms
<1>7. Len(A) \in Nat /\ Len(B) \in Nat
  BY <1>2, <1>5, LenProperties
<1>8. Len(B) >= Len(A) /\ \A i \in 1..Len(A) : B[i] = A[i]
  <2>1. PICK m \in Nodes : Len(A) = k(m)
    BY <1>2
  <2>2. k2(m) >= k(m) /\ k2(m) <= Len(B) /\ k2(m) \in Nat
    BY <1>5, <1>6
  <2>3. SUFFICES ASSUME NEW i \in 1..Len(A) PROVE B[i] = A[i]
    BY <1>7, <2>1, <2>2
  <2>4. i \in 1..k(m) /\ i \in 1..k2(m)
    BY <1>7, <2>1, <2>2
  <2>5. QED BY <1>2, <1>5, <1>6, <2>4
<1>9. Len(B) = Len(A) => B = A
  BY <1>2, <1>5, <1>8, SeqEqual
<1>10. CASE \A n \in Nodes : k2(n) = k(n)
  <2>1. K' = K
    BY <1>5, <1>10
  <2>2. PICK m \in Nodes : Len(B) = k2(m)
    BY <1>5
  <2>3. k(m) <= Len(A) /\ k(m) \in Nat
    BY <1>2
  <2>4. B = A
    BY <1>7, <1>8, <1>9, <1>10, <2>2, <2>3
  <2>5. QED BY <1>2, <1>4, <2>1, <2>4
<1>11. ASSUME NEW n \in Nodes, k2(n) = k(n) + 1, k(n) <= k(Other(n)), k2(Other(n)) = k(Other(n))
       PROVE  Abstract!Next
  <2> DEFINE o == Other(n)
  <2>1. o \in Nodes /\ o # n /\ \A x \in Nodes : x = n \/ x = o
    BY OtherEnd
  <2>2. k(n) \in Nat /\ k(o) \in Nat
    BY <1>2, <2>1
  <2>3. Len(A) = k(o)
    BY <1>2, <1>7, <1>11, <2>1, <2>2
  <2>4. K[n] = k(n) /\ K' = [K EXCEPT ![n] = @ + 1]
    BY <1>5, <1>11, <2>1
  <2>5. CASE k(n) < k(o)
    <3>1. Len(B) = Len(A)
      BY <1>5, <1>7, <1>8, <1>11, <2>1, <2>2, <2>3, <2>5
    <3>2. B = A
      BY <1>9, <3>1
    <3>3. Abstract!Learn(n)
      BY <1>2, <1>4, <2>3, <2>4, <2>5, <3>2 DEF Abstract!Learn
    <3>4. QED BY <3>3 DEF Abstract!Next
  <2>6. CASE k(n) = k(o)
    <3>1. Len(B) = Len(A) + 1
      <4>1. \A x \in Nodes : k2(x) <= k(n) + 1
        BY <1>11, <2>1, <2>2, <2>6
      <4>2. k2(n) <= Len(B)
        BY <1>5
      <4>3. PICK x \in Nodes : Len(B) = k2(x)
        BY <1>5
      <4>4. QED BY <1>7, <1>11, <2>2, <2>3, <2>6, <4>1, <4>2, <4>3
    <3>2. SubSeq(B, 1, Len(A)) = A
      <4>1. \A i \in 1..Len(A) : B[i] \in AllTerms
        BY <1>5, <1>7, <3>1, ElementOfSeq
      <4>2. /\ SubSeq(B, 1, Len(A)) \in Seq(AllTerms) /\ Len(SubSeq(B, 1, Len(A))) = Len(A)
            /\ \A i \in 1..Len(A) : SubSeq(B, 1, Len(A))[i] = B[i]
        <5>1. 1 \in 1..Len(A) + 1 /\ Len(A) \in 0..Len(B)
          BY <1>7, <3>1
        <5>2. QED BY <1>5, <1>7, <3>1, <4>1, <5>1, SubSeqProperties
      <4>3. QED BY <1>2, <1>8, <4>2, SeqEqual
    <3>3. \A x \in Nodes : K[x] = Len(A)
      BY <2>1, <2>3, <2>6
    <3>4. Abstract!Sign(n)
      BY <1>2, <1>4, <1>5, <2>4, <3>1, <3>2, <3>3 DEF Abstract!Sign
    <3>5. QED BY <3>4 DEF Abstract!Next
  <2>7. QED BY <1>11, <2>2, <2>5, <2>6
<1>12. QED
  BY <1>10, <1>11 DEF LogStep, KnownStep

-----------------------------------------------------------------------------
(* What the steps of an end promise *)

LEMMA LogsGrow ==
    ASSUME EndsInv, EndsInv', LogStep, NEW n \in Nodes
    PROVE  LogOK(audits[n]) /\ LogOK(audits'[n]) /\ Grown(n, audits[n], audits'[n])
BY DEF LogStep, EndsInv, EndOK, LogOK, Complete, Audits, AllTerms

\* The invariant of the signatures, in the state after a step.
LEMMA SignedAfter ==
    ASSUME \A m \in net' : MessageSigned(m, audits'),
           \A n \in Nodes :
              /\ cache'[n].signed \in AllTerms => Kept(audits'[n], cache'[n].signed)
              /\ \A t \in txs'[n] : t.step # "pending" => Asked(n, audits'[n], t.signed)
    PROVE  SignedInv'
BY DEF SignedInv, MessageSigned, Asked, Kept, FullLen, Full, Actual, AllTerms, Other

LEMMA MessageStays ==
    ASSUME EndsInv, EndsInv', LogStep, NetInv, NEW m \in net, MessageSigned(m, audits)
    PROVE  MessageSigned(m, audits')
<1>1. ASSUME m.type = "audit" PROVE Asked(Other(m.to), audits'[Other(m.to)], m.signed)
  <2>1. Other(m.to) \in Nodes /\ m.signed \in AllTerms
    BY <1>1, OtherEnd DEF NetInv, MessageOK
  <2>2. QED BY <1>1, <2>1, LogsGrow, AskedStays DEF MessageSigned
<1>2. ASSUME m.type = "response", m.state = "OK", m.signed \in AllTerms
      PROVE  Kept(audits'[Other(m.to)], m.signed)
  <2>1. Other(m.to) \in Nodes
    BY <1>2, OtherEnd DEF MessageSigned
  <2>2. QED BY <1>2, <2>1, LogsGrow, KeptStays DEF MessageSigned
<1>3. QED BY <1>1, <1>2 DEF MessageSigned

\* What is signed after a step: what was, and what the step itself signs.
LEMMA SignedStep ==
    ASSUME EndsInv, EndsInv', LogStep, NetInv, SignedInv,
           \A m \in net' : m \in net \/ MessageSigned(m, audits'),
           \A x \in Nodes :
              \/ cache'[x] = cache[x]
              \/ cache'[x].signed \in AllTerms => Kept(audits'[x], cache'[x].signed),
           \A x \in Nodes : \A t \in txs'[x] :
              \/ t.step = "pending" \/ Asked(x, audits'[x], t.signed)
              \/ \E u \in txs[x] : u.step # "pending" /\ u.signed = t.signed
    PROVE  SignedInv'
<1>1. ASSUME NEW m \in net' PROVE MessageSigned(m, audits')
  <2>1. m \in net => MessageSigned(m, audits)
    BY DEF SignedInv
  <2>2. QED BY <2>1, MessageStays
<1>2. ASSUME NEW x \in Nodes, cache'[x].signed \in AllTerms
      PROVE  Kept(audits'[x], cache'[x].signed)
  <2>1. cache[x].signed \in AllTerms => Kept(audits[x], cache[x].signed)
    BY DEF SignedInv
  <2>2. LogOK(audits[x]) /\ LogOK(audits'[x]) /\ Grown(x, audits[x], audits'[x])
    BY LogsGrow
  <2>3. CASE cache'[x] = cache[x]
    BY <1>2, <2>1, <2>2, <2>3, KeptStays
  <2>4. QED BY <1>2, <2>3
<1>3. ASSUME NEW x \in Nodes, NEW t \in txs'[x], t.step # "pending"
      PROVE  Asked(x, audits'[x], t.signed)
  <2>1. CASE \E u \in txs[x] : u.step # "pending" /\ u.signed = t.signed
    <3>1. PICK u \in txs[x] : u.step # "pending" /\ u.signed = t.signed
      BY <2>1
    <3>2. Asked(x, audits[x], t.signed)
      BY <3>1 DEF SignedInv
    <3>3. t.signed \in AllTerms
      BY <3>1, EndOf DEF TxOK
    <3>4. QED BY <3>2, <3>3, LogsGrow, AskedStays
  <2>2. QED BY <1>3, <2>1
<1>4. QED BY <1>1, <1>2, <1>3, SignedAfter

LEMMA OwnTxs ==
    ASSUME EndsInv, NEW n \in Nodes, NEW t, NEW u,
           Becomes(n, t, u) \/ Stops(n, t) \/ UNCHANGED txs,
           \/ u.step = "pending" \/ Asked(n, audits'[n], u.signed)
           \/ t \in txs[n] /\ t.step # "pending" /\ u.signed = t.signed
    PROVE  \A x \in Nodes : \A v \in txs'[x] :
              \/ v.step = "pending" \/ Asked(x, audits'[x], v.signed)
              \/ \E w \in txs[x] : w.step # "pending" /\ w.signed = v.signed
<1>1. Ends(txs)
  BY DEF EndsInv
<1>2. ASSUME NEW x \in Nodes, NEW v \in txs'[x] PROVE v \in txs[x] \/ (x = n /\ v = u)
  BY <1>1, <1>2 DEF Ends, Becomes, Stops
<1>3. SUFFICES ASSUME NEW x \in Nodes, NEW v \in txs'[x], v.step # "pending",
                      ~Asked(x, audits'[x], v.signed)
               PROVE  \E w \in txs[x] : w.step # "pending" /\ w.signed = v.signed
  OBVIOUS
<1>4. CASE v \in txs[x]
  BY <1>3, <1>4
<1>5. CASE x = n /\ v = u
  BY <1>3, <1>5
<1>6. QED BY <1>2, <1>4, <1>5

LEMMA NoTerm == <<>> \notin AllTerms
<1>1. SUFFICES ASSUME <<>> \in AllTerms PROVE FALSE
  OBVIOUS
<1>2. DOMAIN <<>> = {"number", "outgoing", "incoming", "balance"}
  BY <1>1 DEF AllTerms
<1>3. DOMAIN <<>> = {}
  OBVIOUS
<1>4. QED BY <1>2, <1>3

LEMMA MessageAsks ==
    ASSUME NEW n \in Nodes, NEW t, NEW l, NEW logs, Asked(n, logs[n], t.signed)
    PROVE  MessageSigned(AuditMessage(n, t, l), logs)
<1> DEFINE m == AuditMessage(n, t, l)
<1>1. m.type = "audit" /\ m.to = Other(n) /\ m.signed = t.signed /\ Other(m.to) = n
  BY OtherEnd DEF AuditMessage
<1> HIDE DEF m
<1>2. MessageSigned(m, logs)
  BY <1>1 DEF MessageSigned
<1>3. QED BY <1>2 DEF m

LEMMA ResponseSigns ==
    ASSUME NEW n \in Nodes, NEW id, NEW state, NEW s, NEW logs,
           state = "OK" /\ s \in AllTerms => Kept(logs[n], s)
    PROVE  MessageSigned(AuditResponse(Other(n), id, state, s), logs)
<1> DEFINE m == AuditResponse(Other(n), id, state, s)
<1>1. /\ m.type = "response" /\ m.to = Other(n) /\ m.to \in Nodes /\ Other(m.to) = n
      /\ m.signed = s /\ m.state = state
  BY OtherEnd DEF AuditResponse
<1> HIDE DEF m
<1>2. MessageSigned(m, logs)
  BY <1>1 DEF MessageSigned
<1>3. QED BY <1>2 DEF m

-----------------------------------------------------------------------------
(* The audits of one end, step by step *)

LEMMA Appended ==
    ASSUME NEW log, LogOK(log), Full(log), NEW a, LogOK(Append(log, a)), NEW n
    PROVE  LET new == Append(log, a) IN
           /\ Len(new) = Len(log) + 1 /\ Actual(new) = a
           /\ SameTerms(log, new, Len(log)) /\ Grown(n, log, new)
           /\ a.full => FullLen(new) = FullLen(log) + 1 /\ Kept(new, a.terms)
           /\ ~a.full => FullLen(new) = FullLen(log) /\ Asked(n, new, a.terms)
<1> DEFINE new == Append(log, a)
           k == Len(log)
<1>1. k \in Nat \ {0} /\ FullLen(log) = k
  BY FullLenType
<1>2. Len(new) = k + 1 /\ new[k + 1] = a /\ \A i \in 1..k : new[i] = log[i]
  <2>1. log \in Seq(Audits)
    BY DEF LogOK
  <2>2. QED BY <2>1
<1>3. LogOK(new) /\ Actual(new) = a /\ (Full(new) <=> a.full)
  BY <1>2 DEF Actual, Full
<1> HIDE DEF new, k
<1>4. SameTerms(log, new, k)
  BY <1>2 DEF SameTerms
<1>5. a.terms.number = k + 1
  <2>1. new[k + 1].terms.number = k + 1
    BY <1>1, <1>2, <1>3 DEF LogOK
  <2>2. QED BY <1>2, <2>1
<1>6. ASSUME a.full PROVE FullLen(new) = k + 1
  BY <1>2, <1>3, <1>6 DEF FullLen
<1>7. ASSUME ~a.full PROVE FullLen(new) = k
  BY <1>1, <1>2, <1>3, <1>7 DEF FullLen
<1>8. FullLen(new) >= k
  BY <1>1, <1>6, <1>7
<1>9. Grown(n, log, new)
  BY <1>1, <1>2, <1>4, <1>8 DEF Grown, k
<1>10. a.full => Kept(new, a.terms)
  BY <1>1, <1>2, <1>5, <1>6 DEF Kept
<1>11. ~a.full => Asked(n, new, a.terms)
  BY <1>1, <1>2, <1>5, <1>7 DEF Asked
<1>12. QED BY <1>1, <1>2, <1>3, <1>4, <1>6, <1>7, <1>9, <1>10, <1>11 DEF new, k

LEMMA HalfAsked ==
    ASSUME NEW log, LogOK(log), ~Full(log), NEW n
    PROVE  Asked(n, log, Actual(log).terms)
<1> DEFINE k == Len(log)
<1>1. /\ k \in Nat \ {0} /\ FullLen(log) = k - 1 /\ Actual(log).terms.number = k
      /\ Actual(log).terms = log[k].terms
  BY FullLenType, LastAudit
<1> HIDE DEF k
<1>2. k <= FullLen(log) + 1 /\ k <= k
  BY <1>1
<1>3. QED BY <1>1, <1>2 DEF Asked, k

\* The contractor's half makes a pending last audit complete, and no other.
LEMMA Filled ==
    ASSUME NEW n, NEW log, LogOK(log), NEW i \in 1..Len(log), Full(log) \/ i = Len(log)
    PROVE  LET new == [log EXCEPT ![i].full = TRUE] IN
           /\ LogOK(new) /\ Len(new) = Len(log) /\ FullLen(new) = Len(log)
           /\ SameTerms(log, new, Len(log)) /\ Grown(n, log, new)
<1> DEFINE new == [log EXCEPT ![i].full = TRUE]
           k == Len(log)
<1>1. k \in Nat /\ FullLen(log) <= k /\ FullLen(log) \in Nat
  BY FullLenType
<1>2. /\ LogOK(new) /\ Len(new) = k /\ \A j \in 1..k : new[j].terms = log[j].terms
      /\ Full(new)
  BY CompletedLog
<1> HIDE DEF new
<1>3. FullLen(new) = k
  BY <1>2 DEF FullLen
<1>4. SameTerms(log, new, k) /\ SameTerms(log, new, FullLen(log))
  BY <1>1, <1>2 DEF SameTerms
<1>5. Grown(n, log, new)
  BY <1>1, <1>2, <1>3, <1>4 DEF Grown
<1>6. QED BY <1>2, <1>3, <1>4, <1>5 DEF new

LEMMA Cancelled ==
    ASSUME EndsInv, NEW n \in Nodes, n = Greater => line[n].state # "AuditPending"
    PROVE  LET log == AuditsAfterCancel(n) IN
           /\ LogOK(log) /\ FullLen(log) = FullLen(audits[n]) /\ Grown(n, audits[n], log)
           /\ SameTerms(audits[n], log, FullLen(log))
<1> DEFINE log == audits[n]
           k == FullLen(log)
<1>1. LogOK(log) /\ k \in Nat
  BY LogsOf, FullLenType
<1>2. CASE CancelsOwn(n)
  <2> DEFINE cut == WithoutLast(log)
  <2>1. line[n].state = "AuditPending" /\ ~Full(log) /\ AuditsAfterCancel(n) = cut
    BY <1>2 DEF CancelsOwn, Full, AuditsAfterCancel
  <2>2. /\ LogOK(cut) /\ Full(cut) /\ Len(cut) = k
        /\ \A i \in 1..k : cut[i] = log[i]
    BY <1>1, <2>1, CancelledLog, FullLenType
  <2>3. FullLen(cut) = k
    BY <2>2 DEF FullLen
  <2> HIDE DEF cut
  <2>4. SameTerms(log, cut, k) /\ Grown(n, log, cut)
    BY <1>1, <2>1, <2>2, <2>3 DEF SameTerms, Grown
  <2>5. QED BY <2>1, <2>2, <2>3, <2>4
<1>3. CASE ~CancelsOwn(n)
  <2>1. AuditsAfterCancel(n) = log
    BY <1>3 DEF AuditsAfterCancel
  <2>2. QED BY <1>1, <2>1, NotLost DEF SameTerms
<1>4. QED BY <1>2, <1>3

-----------------------------------------------------------------------------
(* The actions of the initiator *)

\* Nothing is signed and no audit changes: messages are only lost, answered with
\* a refusal or sent as pongs, and transactions end or wait.
LEMMA NothingSigned ==
    ASSUME EndsInv, EndsInv', NetInv, SignedInv, AgreeInv, UNCHANGED audits,
           \A m \in net' : m \in net \/ m.type = "pong",
           \A x \in Nodes : cache'[x] = cache[x] \/ cache'[x] = NoAnswer,
           \A x \in Nodes : \A t \in txs'[x] :
              t.step = "pending" \/ \E u \in txs[x] : u.step # "pending" /\ u.signed = t.signed
    PROVE  LogStep /\ SignedInv'
<1>1. LogStep
  BY LogsStay
<1>2. \A m \in net' : m \in net \/ MessageSigned(m, audits')
  BY DEF MessageSigned
<1>3. \A x \in Nodes : \/ cache'[x] = cache[x]
                       \/ cache'[x].signed \in AllTerms => Kept(audits'[x], cache'[x].signed)
  BY NoTerm DEF NoAnswer
<1>4. QED BY <1>1, <1>2, <1>3, SignedStep

\* A transaction sends the signature of an audit it has started.
LEMMA AuditSent ==
    ASSUME EndsInv, EndsInv', NetInv, SignedInv, LogStep, UNCHANGED cache, NEW n \in Nodes,
           NEW t, NEW u, NEW v, NEW l, Asked(n, audits'[n], u.signed), u.signed = v.signed,
           Becomes(n, t, u), \A m \in net' : m \in net \/ m = AuditMessage(n, v, l)
    PROVE  SignedInv'
<1>1. MessageSigned(AuditMessage(n, v, l), audits')
  BY MessageAsks
<1>2. \A m \in net' : m \in net \/ MessageSigned(m, audits')
  BY <1>1
<1>3. \A x \in Nodes : \A w \in txs'[x] :
         \/ w.step = "pending" \/ Asked(x, audits'[x], w.signed)
         \/ \E y \in txs[x] : y.step # "pending" /\ y.signed = w.signed
  BY OwnTxs
<1>4. QED BY <1>2, <1>3, SignedStep

LEMMA TxGoesOn ==
    ASSUME EndsInv, EndsInv', NetInv, SignedInv, AgreeInv, UNCHANGED <<audits, cache>>,
           NEW n \in Nodes, NEW t, NEW u, Becomes(n, t, u) \/ Stops(n, t) \/ UNCHANGED txs,
           u.step = "pending" \/ (t \in txs[n] /\ t.step # "pending" /\ u.signed = t.signed),
           \A m \in net' : m \in net \/ m.type = "pong"
    PROVE  LogStep /\ SignedInv'
<1>1. Ends(txs)
  BY DEF EndsInv
<1>2. \A x \in Nodes : \A w \in txs'[x] :
         w.step = "pending" \/ \E y \in txs[x] : y.step # "pending" /\ y.signed = w.signed
  <2>1. ASSUME NEW x \in Nodes, NEW w \in txs'[x] PROVE w \in txs[x] \/ (x = n /\ w = u)
    BY <1>1, <2>1 DEF Ends, Becomes, Stops
  <2>2. QED BY <2>1
<1>3. QED BY <1>2, NothingSigned

LEMMA LogsAfter ==
    ASSUME EndsInv'
    PROVE  \A n \in Nodes : LogOK(audits'[n])
BY DEF EndsInv, EndOK, LogOK, Complete, Audits, AllTerms

LEMMA InitializedAgrees ==
    ASSUME EndsInv, EndsInv', NetInv, SignedInv, AgreeInv, UNCHANGED cache, NEW n \in Nodes,
           NEW t \in Txs(n), NEW l, Full(audits[n]), initializeAudit(n, t, l)
    PROVE  LogStep /\ SignedInv'
<1>1. CASE Stops(n, t) /\ UNCHANGED <<audits, net>>
  <2> DEFINE u == [step |-> "pending"]
  <2>1. u.step = "pending"
    OBVIOUS
  <2> HIDE DEF u
  <2>2. QED BY <1>1, <2>1, TxGoesOn
<1>2. CASE SavesOwnPart(n, t, l)
  <2> DEFINE asked == [Requested(t.request, l) EXCEPT !.state = "AuditPending",
                                                      !.number = t.number]
             own == OwnTerms(t.number, asked)
             u   == [t EXCEPT !.step = "response", !.signed = own, !.sent = 1]
             half == [terms |-> own, full |-> FALSE]
             log == audits[n]
             new == Append(log, half)
  <2>1. /\ audits' = [audits EXCEPT ![n] = new] /\ Becomes(n, t, u)
        /\ net' = net \cup {AuditMessage(n, u, asked)}
    BY <1>2 DEF SavesOwnPart
  <2> HIDE DEF asked
  <2>2. half.terms = own /\ ~half.full /\ u.signed = own
    BY DEF Txs
  <2>3. LogOK(log) /\ LogOK(new) /\ audits'[n] = new
    <3> HIDE DEF new
    <3>1. audits'[n] = new
      BY <2>1, LogChanged
    <3>2. QED BY <3>1, LogsOf, LogsAfter
  <2> HIDE DEF half, own, u
  <2>4. FullLen(new) = FullLen(log) /\ Grown(n, log, new) /\ Asked(n, new, own)
    BY <2>2, <2>3, Appended
  <2> HIDE DEF new, log
  <2>5. LogStep
    BY <2>1, <2>3, <2>4, PendingChanges DEF log
  <2>6. SignedInv'
    BY <2>1, <2>2, <2>3, <2>4, <2>5, AuditSent
  <2>7. QED BY <2>5, <2>6
<1>3. QED BY <1>1, <1>2 DEF initializeAudit

LEMMA StartAgrees ==
    ASSUME AuditInv, AuditInv', SignedInv, AgreeInv, NEW n \in Nodes, NEW q \in Requests,
           runInitializationStage(n, q)
    PROVE  LogStep /\ SignedInv'
<1> DEFINE t == Transaction(n, q, line[n].number + 1)
           l == IF q.kind = "set" THEN line[n] ELSE [line[n] EXCEPT !.state = "AuditPending"]
           w == [t EXCEPT !.waits = 1]
<1>1. EndsInv /\ EndsInv' /\ NetInv
  BY DEF AuditInv
<1>2. UNCHANGED cache /\ line[n].state = "Active" /\ FreshUUIDs(n) # {}
  BY DEF runInitializationStage
<1>3. Full(audits[n])
  BY <1>1, <1>2, EndOf DEF LineOK
<1>4. t \in Txs(n) /\ t.step = "pending"
  <2>1. line[n].number \in 1..MaxAuditNumber
    BY <1>1, EndOf
  <2>2. line[n].number < MaxAuditNumber
    BY DEF runInitializationStage
  <2> DEFINE number == line[n].number + 1
  <2>3. number \in 1..MaxAuditNumber /\ q \in Requests \cup {ResumedAudit}
    BY <2>1, <2>2, ConstantTypes
  <2> HIDE DEF number
  <2>4. Transaction(n, q, number) \in Txs(n) /\ Transaction(n, q, number).step = "pending"
    BY <1>2, <2>3, NewTransaction
  <2>5. QED BY <2>4 DEF number
<1>5. CASE Becomes(n, t, w) /\ UNCHANGED <<audits, net>>
  <2> HIDE DEF t
  <2>1. w.step = "pending"
    BY <1>4 DEF Txs
  <2>2. Becomes(n, t, w)
    BY <1>5
  <2> HIDE DEF w
  <2>3. QED BY <1>1, <1>2, <1>5, <2>1, <2>2, TxGoesOn DEF AuditInv
<1>6. CASE initializeAudit(n, t, l)
  <2> HIDE DEF t, l
  <2>1. QED BY <1>1, <1>2, <1>3, <1>4, <1>6, InitializedAgrees
<1>7. QED BY <1>5, <1>6 DEF runInitializationStage

LEMMA PendingAgrees ==
    ASSUME AuditInv, AuditInv', SignedInv, AgreeInv, NEW n \in Nodes, NEW t \in txs[n],
           runAuditPendingStage(n, t)
    PROVE  LogStep /\ SignedInv'
<1> DEFINE actual == Actual(audits[n])
           u == [t EXCEPT !.step = "response", !.signed = actual.terms, !.sent = @ + 1]
           w == [t EXCEPT !.waits = @ + 1]
<1>1. EndsInv /\ EndsInv' /\ NetInv
  BY DEF AuditInv
<1>2. t \in Txs(n) /\ TxOK(n, t, line[n], audits[n]) /\ LogOK(audits[n])
  BY <1>1, EndOf
<1>3. UNCHANGED cache /\ t.step = "pending"
  BY DEF runAuditPendingStage
<1>4. CASE Stops(n, t) /\ UNCHANGED <<audits, net>>
  BY <1>1, <1>3, <1>4, TxGoesOn
<1>5. CASE Becomes(n, t, w) /\ UNCHANGED <<audits, net>>
  <2>1. w.step = "pending"
    BY <1>2, <1>3 DEF Txs
  <2>2. Becomes(n, t, w)
    BY <1>5
  <2> HIDE DEF w
  <2>3. QED BY <1>1, <1>3, <1>5, <2>1, <2>2, TxGoesOn
<1>6. CASE /\ ~actual.full /\ net' = net \cup {AuditMessage(n, u, line[n])} /\ Becomes(n, t, u)
           /\ UNCHANGED audits
  <2>1. LogStep
    BY <1>1, <1>6, LogsStay
  <2>2. u.signed = actual.terms
    BY <1>2 DEF Txs
  <2>3. Becomes(n, t, u) /\ \A m \in net' : m \in net \/ m = AuditMessage(n, u, line[n])
    BY <1>6
  <2> HIDE DEF u
  <2>4. Asked(n, audits'[n], u.signed)
    BY <1>2, <1>6, <2>2, HalfAsked DEF Full
  <2>5. SignedInv'
    BY <1>1, <1>3, <2>1, <2>3, <2>4, AuditSent
  <2>6. QED BY <2>1, <2>5
<1>7. CASE ~t.resumes /\ initializeAudit(n, t, line[n])
  <2>1. Full(audits[n])
    BY <1>2, <1>3, <1>7 DEF TxOK
  <2>2. QED BY <1>1, <1>2, <1>3, <1>7, <2>1, InitializedAgrees
<1>8. QED BY <1>4, <1>5, <1>6, <1>7 DEF runAuditPendingStage, Conflicts, nextAttemptAudit

\* An attempt repeats the signature of the first.
LEMMA AttemptAgrees ==
    ASSUME AuditInv, AuditInv', SignedInv, AgreeInv, NEW n \in Nodes, NEW t \in txs[n],
           ResponseTimeout(n, t) \/ runContractorPendingStage(n, t)
    PROVE  LogStep /\ SignedInv'
<1>1. EndsInv /\ EndsInv' /\ NetInv
  BY DEF AuditInv
<1>2. t \in Txs(n)
  BY <1>1, EndOf
<1>3. UNCHANGED <<audits, cache>> /\ t.step # "pending"
  BY DEF ResponseTimeout, runContractorPendingStage
<1>4. Asked(n, audits'[n], t.signed) /\ LogStep
  BY <1>1, <1>3, LogsStay DEF SignedInv
<1>5. CASE Stops(n, t) /\ UNCHANGED net
  <2>1. \A m \in net' : m \in net \/ m.type = "pong"
    BY <1>5
  <2>2. t.step # "pending" /\ t.signed = t.signed
    BY <1>3
  <2>3. QED BY <1>1, <1>3, <1>5, <2>1, <2>2, TxGoesOn
<1>6. ASSUME NEW u, NEW v, u.signed = t.signed, v.signed = t.signed, Becomes(n, t, u),
             net' = net \cup {AuditMessage(n, v, line[n])}
      PROVE  SignedInv'
  <2>1. \A m \in net' : m \in net \/ m = AuditMessage(n, v, line[n])
    BY <1>6
  <2>2. Asked(n, audits'[n], u.signed) /\ u.signed = v.signed
    BY <1>4, <1>6
  <2>3. QED BY <1>1, <1>3, <1>4, <1>6, <2>1, <2>2, AuditSent
<1>7. CASE ResponseTimeout(n, t) /\ ~(Stops(n, t) /\ UNCHANGED net)
  <2> DEFINE u == [t EXCEPT !.sent = @ + 1]
  <2>1. u.signed = t.signed
    BY <1>2 DEF Txs
  <2>2. Becomes(n, t, u) /\ net' = net \cup {AuditMessage(n, u, line[n])}
    BY <1>7 DEF ResponseTimeout
  <2> HIDE DEF u
  <2>3. SignedInv'
    BY <1>6, <2>1, <2>2
  <2>4. QED BY <1>4, <2>3
<1>8. CASE runContractorPendingStage(n, t) /\ ~(Stops(n, t) /\ UNCHANGED net)
  <2> DEFINE u == [t EXCEPT !.step = "response"]
  <2>1. u.signed = t.signed
    BY <1>2 DEF Txs
  <2>2. Becomes(n, t, u) /\ net' = net \cup {AuditMessage(n, t, line[n])}
    BY <1>8 DEF runContractorPendingStage
  <2> HIDE DEF u
  <2>3. SignedInv'
    BY <1>6, <2>1, <2>2
  <2>4. QED BY <1>4, <2>3
<1>9. QED BY <1>5, <1>7, <1>8

LEMMA ResumedAgrees ==
    ASSUME AuditInv, AuditInv', SignedInv, AgreeInv, NEW n \in Nodes, ReceivePong(n)
    PROVE  LogStep /\ SignedInv'
<1> DEFINE t == [Transaction(n, ResumedAudit, line[n].number) EXCEPT !.resumes = TRUE]
           actual == Actual(audits[n])
           w == [t EXCEPT !.waits = 1]
           u == [t EXCEPT !.step = "response", !.signed = actual.terms, !.sent = 1]
           pong == [type |-> "pong", to |-> n]
<1>1. EndsInv /\ EndsInv' /\ NetInv /\ LogOK(audits[n])
  BY EndOf DEF AuditInv
<1>2. UNCHANGED <<audits, cache>>
  BY DEF ReceivePong
<1>3. w.step = "pending" /\ u.signed = actual.terms
  BY DEF Transaction
<1>4. CASE net' = net \ {pong} /\ (UNCHANGED txs \/ Becomes(n, t, w))
  <2>1. \A m \in net' : m \in net \/ m.type = "pong"
    BY <1>4
  <2> HIDE DEF t, w
  <2>2. QED BY <1>1, <1>2, <1>3, <1>4, <2>1, TxGoesOn
<1>5. CASE /\ ~actual.full /\ net' = (net \ {pong}) \cup {AuditMessage(n, u, line[n])}
           /\ Becomes(n, t, u)
  <2>1. LogStep
    BY <1>1, <1>2, LogsStay DEF AuditInv
  <2>2. \A m \in net' : m \in net \/ m = AuditMessage(n, u, line[n])
    BY <1>5
  <2> HIDE DEF t, u
  <2>3. Asked(n, audits'[n], u.signed)
    BY <1>1, <1>2, <1>3, <1>5, HalfAsked DEF Full
  <2>4. SignedInv'
    BY <1>1, <1>2, <1>5, <2>1, <2>2, <2>3, AuditSent
  <2>5. QED BY <2>1, <2>4
<1>6. QED BY <1>4, <1>5 DEF ReceivePong

LEMMA TermsMirrored ==
    ASSUME NEW l \in Lines, NEW number \in 1..MaxAuditNumber
    PROVE  /\ ContractorTerms(number, l) = Mirror(OwnTerms(number, l))
           /\ ContractorTerms(number, l) \in AllTerms /\ OwnTerms(number, l) \in AllTerms
           /\ ContractorTerms(number, l).number = number /\ OwnTerms(number, l).number = number
<1>1. l.outgoing \in TrustAmounts /\ l.incoming \in TrustAmounts /\ l.balance \in {-1, 0, 1}
  BY DEF Lines
<1>2. -l.balance \in {-1, 0, 1}
  BY <1>1
<1>3. ContractorTerms(number, l) \in AllTerms /\ OwnTerms(number, l) \in AllTerms
  BY <1>1, <1>2 DEF ContractorTerms, OwnTerms, AllTerms
<1>4. ContractorTerms(number, l) = Mirror(OwnTerms(number, l))
  BY DEF ContractorTerms, OwnTerms, Mirror
<1>5. ContractorTerms(number, l).number = number /\ OwnTerms(number, l).number = number
  BY DEF ContractorTerms, OwnTerms
<1>6. QED BY <1>3, <1>4, <1>5

\* The contractor's half completes the audit the contractor has signed.
LEMMA CompletionAgrees ==
    ASSUME EndsInv, EndsInv', AgreeInv, LineInv, NEW n \in Nodes,
           NEW t \in txs[n], t.step = "response", t.number \in Numbers(audits[n]),
           Kept(audits[Other(n)], ContractorTerms(t.number, line[n])), SavesContractorPart(n, t)
    PROVE  LogStep
<1> DEFINE log == audits[n]
           k == t.number
           i == CHOOSE j \in 1..Len(log) : log[j].terms.number = k
           new == [log EXCEPT ![k].full = TRUE]
           s == ContractorTerms(k, line[n])
           high == audits[Greater]
<1>1. /\ LogOK(log) /\ TxOK(n, t, line[n], log) /\ t \in Txs(n) /\ line[n] \in Lines
      /\ Len(log) \in Nat \ {0}
  BY EndOf, LastAudit
<1>2. k \in 1..Len(log) /\ k \in 1..MaxAuditNumber /\ (Full(log) \/ k = Len(log))
  BY <1>1, NumbersOf DEF TxOK, Txs
<1>3. i = k
  <2>1. \A j \in 1..Len(log) : log[j].terms.number = j
    BY <1>1 DEF LogOK
  <2> HIDE DEF log, k
  <2>2. QED BY <1>2, <2>1
<1>4. audits' = [audits EXCEPT ![n] = new]
  <2>1. audits' = [audits EXCEPT ![n][i].full = TRUE]
    BY DEF SavesContractorPart
  <2> HIDE DEF i, k
  <2>2. QED BY <1>3, <2>1
<1>5. /\ LogOK(new) /\ FullLen(new) = Len(log) /\ SameTerms(log, new, Len(log))
      /\ Grown(n, log, new)
  <2> HIDE DEF log, k
  <2>1. QED BY <1>1, <1>2, Filled
<1> HIDE DEF new, i
<1>6. CASE Full(log)
  <2>1. FullLen(new) = FullLen(log)
    BY <1>5, <1>6 DEF FullLen
  <2>2. QED BY <1>4, <1>5, <2>1, PendingChanges
<1>7. CASE ~Full(log)
  <2>1. k = Len(log) /\ FullLen(log) = k - 1 /\ FullLen(new) = k
    <3>1. k = Len(log)
      BY <1>2, <1>7
    <3>2. FullLen(log) = Len(log) - 1
      BY <1>7 DEF FullLen
    <3>3. QED BY <1>5, <3>1, <3>2
  <2>2. FullLen(new) = FullLen(log) + 1
    <3> HIDE DEF k, log
    <3>1. QED BY <1>1, <2>1
  <2>3. s = Mirror(OwnTerms(k, line[n])) /\ s.number = k
    BY <1>1, <1>2, TermsMirrored
  <2>4. k \in 1..FullLen(audits[Other(n)]) /\ audits[Other(n)][k].terms = s
    BY <2>3 DEF Kept
  <2>5. Other(n) \in Nodes /\ FullLen(audits[Other(n)]) \in Nat
        /\ FullLen(audits[Other(n)]) <= Len(audits[Other(n)]) /\ Len(audits[Other(n)]) \in Nat
    BY OtherEnd, LogsOf, FullLenType
  <2>6. FullLen(log) <= FullLen(audits[Other(n)])
    <3> HIDE DEF k, log
    <3>1. QED BY <1>1, <2>1, <2>4, <2>5
  <2>7. new[k].terms = OwnTerms(k, line[n])
    <3>1. log[k].terms = OwnTerms(k, line[n])
      BY <1>7, <2>1 DEF LineInv, LineOf, HalfOK, Actual
    <3>2. QED BY <1>2, <1>5, <2>1, <3>1 DEF SameTerms
  <2>8. n = Lesser => /\ FullLen(new) <= Len(high)
                      /\ high[FullLen(new)].terms = Mirror(new[FullLen(new)].terms)
    <3>1. SUFFICES ASSUME n = Lesser
                   PROVE  /\ FullLen(new) <= Len(high)
                          /\ high[FullLen(new)].terms = Mirror(new[FullLen(new)].terms)
      OBVIOUS
    <3>2. audits[Other(n)] = high
      BY <3>1, TwoEnds
    <3>3. k <= Len(high)
      BY <2>4, <2>5, <3>2
    <3>4. high[k].terms = Mirror(new[k].terms)
      BY <2>3, <2>4, <2>7, <3>2
    <3>5. QED BY <2>1, <3>3, <3>4
  <2> HIDE DEF log, k, s
  <2>9. QED BY <1>4, <1>5, <2>2, <2>6, <2>8, AuditGained DEF log
<1>8. QED BY <1>6, <1>7

LEMMA ResponseAgrees ==
    ASSUME AuditInv, AuditInv', SignedInv, AgreeInv, LineInv, NEW n \in Nodes, NEW t \in txs[n],
           NEW m \in net, runResponseProcessingStage(n, t, m)
    PROVE  LogStep /\ SignedInv'
<1>1. EndsInv /\ EndsInv' /\ NetInv
  BY DEF AuditInv
<1>2. t \in Txs(n) /\ line[n] \in Lines
  BY <1>1, EndOf
<1>3. /\ t.step = "response" /\ UNCHANGED cache /\ net' = net \ {m}
      /\ m.type = "response" /\ m.to = n
  BY DEF runResponseProcessingStage
<1>4. CASE UNCHANGED audits /\ Stops(n, t)
  <2>1. t.step # "pending" /\ t.signed = t.signed /\ \A x \in net' : x \in net \/ x.type = "pong"
    BY <1>3
  <2>2. QED BY <1>1, <1>3, <1>4, <2>1, TxGoesOn
<1> DEFINE u == [t EXCEPT !.step = "contractorPending", !.sent = 0, !.contractorWaits = @ + 1]
<1>5. CASE UNCHANGED audits /\ Becomes(n, t, u)
  <2>1. t.step # "pending" /\ u.signed = t.signed /\ \A x \in net' : x \in net \/ x.type = "pong"
    BY <1>2, <1>3 DEF Txs
  <2>2. Becomes(n, t, u)
    BY <1>5
  <2> HIDE DEF u
  <2>3. QED BY <1>1, <1>3, <1>5, <2>1, <2>2, TxGoesOn
<1>6. CASE /\ m.state = "OK" /\ m.signed = ContractorTerms(t.number, line[n])
           /\ t.number \in Numbers(audits[n]) /\ SavesContractorPart(n, t)
  <2>1. m.signed \in AllTerms
    BY <1>2, <1>6, TermsMirrored DEF Txs
  <2>2. Kept(audits[Other(n)], m.signed)
    BY <1>3, <1>6, <2>1 DEF SignedInv, MessageSigned
  <2>3. LogStep
    BY <1>1, <1>3, <1>6, <2>2, CompletionAgrees
  <2>4. Stops(n, t) /\ t.step # "pending"
    BY <1>3, <1>6 DEF SavesContractorPart
  <2>5. \A x \in Nodes : \A v \in txs'[x] :
           \/ v.step = "pending" \/ Asked(x, audits'[x], v.signed)
           \/ \E w \in txs[x] : w.step # "pending" /\ w.signed = v.signed
    BY <1>1, <2>4, OwnTxs
  <2>6. \A x \in net' : x \in net \/ MessageSigned(x, audits')
    BY <1>3
  <2>7. SignedInv'
    BY <1>1, <1>3, <2>3, <2>5, <2>6, SignedStep
  <2>8. QED BY <2>3, <2>7
<1>7. QED BY <1>4, <1>5, <1>6 DEF runResponseProcessingStage, ContractorIsBusy, Conflicts

-----------------------------------------------------------------------------
(* The actions of the contractor *)

LEMMA GrownTwice ==
    ASSUME NEW n, NEW log, NEW log2, NEW log3, LogOK(log), LogOK(log2), LogOK(log3),
           Grown(n, log, log2), Grown(n, log2, log3)
    PROVE  Grown(n, log, log3)
<1>1. /\ FullLen(log) \in Nat /\ FullLen(log2) \in Nat /\ FullLen(log3) \in Nat
      /\ Len(log) \in Nat /\ Len(log2) \in Nat /\ Len(log3) \in Nat
  BY FullLenType
<1>2. QED BY <1>1 DEF Grown, SameTerms

\* An answer that signs an audit signs one that the contractor keeps.
LEMMA AnswerAgrees ==
    ASSUME AuditInv, AuditInv', SignedInv, LogStep, UNCHANGED txs, NEW n \in Nodes,
           NEW m \in net, NEW state, NEW s, Answer(n, m, state, s),
           state = "OK" /\ s \in AllTerms => Kept(audits'[n], s),
           \/ UNCHANGED cache
           \/ state = "OK" /\ cache' = [cache EXCEPT ![n] = [id |-> m.id, signed |-> s]]
    PROVE  SignedInv'
<1>1. EndsInv /\ EndsInv' /\ NetInv /\ Ends(cache)
  BY DEF AuditInv, CacheInv
<1>2. MessageSigned(AuditResponse(Other(n), m.id, state, s), audits')
  BY ResponseSigns
<1>3. \A x \in net' : x \in net \/ MessageSigned(x, audits')
  BY <1>2 DEF Answer
<1>4. \A x \in Nodes : \/ cache'[x] = cache[x]
                       \/ cache'[x].signed \in AllTerms => Kept(audits'[x], cache'[x].signed)
  <2>1. CASE UNCHANGED cache
    BY <2>1
  <2>2. CASE state = "OK" /\ cache' = [cache EXCEPT ![n] = [id |-> m.id, signed |-> s]]
    <3>1. cache'[n].signed = s /\ \A x \in Nodes : x # n => cache'[x] = cache[x]
      BY <1>1, <2>2 DEF Ends
    <3>2. QED BY <2>2, <3>1
  <2>3. QED BY <2>1, <2>2
<1>5. \A x \in Nodes : \A t \in txs'[x] :
         \/ t.step = "pending" \/ Asked(x, audits'[x], t.signed)
         \/ \E u \in txs[x] : u.step # "pending" /\ u.signed = t.signed
  OBVIOUS
<1>6. QED BY <1>1, <1>3, <1>4, <1>5, SignedStep

\* The contractor signs the audit that follows the last of both signatures, and
\* that the initiator has signed.
LEMMA SignedAgrees ==
    ASSUME AuditInv, AuditInv', SignedInv, AgreeInv, UNCHANGED txs, NEW n \in Nodes,
           NEW m \in net, m.type = "audit", m.to = n,
           NEW l, NEW log, LogOK(log), Full(log), l.number = Len(log),
           FullLen(log) = FullLen(audits[n]), Grown(n, audits[n], log), SignsAudit(n, m, l, log)
    PROVE  LogStep /\ SignedInv'
<1> DEFINE number  == l.number + 1
           adopted == Adopted(l, m)
           own     == OwnTerms(number, adopted)
           a       == [terms |-> own, full |-> TRUE]
           new     == Append(log, a)
           high    == audits[Greater]
           low     == audits[Lesser]
<1>1. EndsInv /\ EndsInv' /\ NetInv
  BY DEF AuditInv
<1>2. CASE /\ audits' = [audits EXCEPT ![n] = log] /\ UNCHANGED cache
           /\ Answer(n, m, "ErrorShouldBeRemovedFromQueue", <<>>)
  <2>1. LogStep
    BY <1>1, <1>2, PendingChanges
  <2>2. <<>> \notin AllTerms
    BY NoTerm
  <2>3. QED BY <1>2, <2>1, <2>2, AnswerAgrees
<1>3. CASE /\ m.signed = ContractorTerms(number, adopted)
           /\ audits' = [audits EXCEPT ![n] = new] /\ Answer(n, m, "OK", own)
           /\ cache' = [cache EXCEPT ![n] = [id |-> m.id, signed |-> own]]
  <2>1. m.signed = Mirror(own) /\ m.signed.number = number
    BY <1>3 DEF ContractorTerms, OwnTerms, Mirror
  <2>2. a.terms = own /\ a.full
    OBVIOUS
  <2>3. LogOK(new) /\ audits'[n] = new
    <3> HIDE DEF new
    <3>1. audits'[n] = new
      BY <1>1, <1>3, LogChanged
    <3>2. QED BY <1>1, <3>1, LogsAfter
  <2>4. /\ audits' = [audits EXCEPT ![n] = new] /\ Answer(n, m, "OK", own)
        /\ cache' = [cache EXCEPT ![n] = [id |-> m.id, signed |-> own]]
    BY <1>3
  <2> HIDE DEF a, own, adopted
  <2>5. /\ Grown(n, log, new) /\ FullLen(new) = FullLen(log) + 1 /\ Kept(new, own)
        /\ Len(new) = Len(log) + 1 /\ Actual(new) = a
    BY <2>2, <2>3, Appended
  <2>6. FullLen(log) = Len(log) /\ number = FullLen(new)
    <3>1. FullLen(log) = Len(log)
      BY DEF FullLen
    <3> DEFINE k == Len(log)
    <3>2. FullLen(new) = k + 1 /\ number = k + 1
      BY <2>5, <3>1
    <3>3. QED BY <3>1, <3>2
  <2>7. new[number].terms = own
    <3>1. Len(new) = number /\ Actual(new) = new[Len(new)]
      BY <2>5 DEF Actual
    <3>2. QED BY <2>2, <2>5, <3>1
  <2> HIDE DEF new, number
  <2>8. Grown(n, audits[n], new)
    BY <1>1, <2>3, <2>5, GrownTwice, LogsOf
  <2>9. /\ LogOK(high) /\ LogOK(low)
        /\ FullLen(high) \in Nat /\ FullLen(low) \in Nat /\ Len(high) \in Nat
        /\ Len(high) <= FullLen(high) + 1 /\ FullLen(log) \in Nat
    BY <1>1, LogsOf, TwoEnds, FullLenType
  <2>10. Asked(Other(n), audits[Other(n)], m.signed)
    BY DEF SignedInv, MessageSigned
  <2>11. FullLen(new) = FullLen(audits[n]) + 1
    BY <2>5
  <2>12. CASE n = Lesser
    <3>1. number <= Len(high) /\ high[number].terms = m.signed /\ audits[Other(n)] = high
      BY <2>1, <2>10, <2>12, TwoEnds DEF Asked
    <3>2. FullLen(audits[n]) = FullLen(low)
      BY <2>12
    <3> HIDE DEF high, low
    <3> DEFINE k == FullLen(audits[n])
               o == FullLen(audits[Other(n)])
    <3>3. k <= o
      <4>1. o = FullLen(high) /\ k \in Nat /\ number = k + 1
        BY <2>6, <2>9, <2>11, <3>1, <3>2
      <4>2. number <= o + 1 /\ o \in Nat
        <5> DEFINE top == Len(high)
        <5>1. number <= top /\ top <= o + 1 /\ top \in Nat /\ o \in Nat
          BY <2>9, <3>1, <4>1
        <5> HIDE DEF top, o
        <5>2. QED BY <4>1, <5>1
      <4> HIDE DEF k, o
      <4>3. QED BY <4>1, <4>2
    <3>4. high[FullLen(new)].terms = Mirror(new[FullLen(new)].terms) /\ FullLen(new) <= Len(high)
      BY <2>1, <2>6, <2>7, <3>1
    <3>5. LogStep
      BY <1>1, <2>3, <2>4, <2>8, <2>11, <3>3, <3>4, AuditGained DEF high
    <3>6. QED BY <2>3, <2>4, <2>5, <3>5, AnswerAgrees
  <2>13. CASE n = Greater
    <3>1. number <= FullLen(low) + 1 /\ audits[Other(n)] = low
      BY <2>1, <2>10, <2>13, TwoEnds DEF Asked
    <3>2. FullLen(audits[n]) = FullLen(high)
      BY <2>13
    <3> HIDE DEF high, low
    <3> DEFINE k == FullLen(audits[n])
               o == FullLen(audits[Other(n)])
    <3>3. k <= o
      <4>1. k \in Nat /\ number = k + 1 /\ number <= o + 1 /\ o \in Nat
        BY <2>6, <2>9, <2>11, <3>1, <3>2
      <4> HIDE DEF k, o
      <4>2. QED BY <4>1
    <3>4. n # Lesser
      BY <2>13, TwoEnds
    <3>5. LogStep
      BY <1>1, <2>3, <2>4, <2>8, <2>11, <3>3, <3>4, AuditGained
    <3>6. QED BY <2>3, <2>4, <2>5, <3>5, AnswerAgrees
  <2>14. QED BY <2>12, <2>13, TwoEnds
<1>4. QED BY <1>2, <1>3 DEF SignsAudit

LEMMA TargetAgrees ==
    ASSUME AuditInv, AuditInv', SignedInv, AgreeInv, UNCHANGED txs, NEW n \in Nodes,
           NEW m \in net, m.type = "audit", m.to = n,
           n = Greater => line[n].state # "AuditPending", AuditTarget(n, m)
    PROVE  LogStep /\ SignedInv'
<1> DEFINE l   == LineAfterCancel(n)
           log == AuditsAfterCancel(n)
<1>1. EndsInv /\ EndsInv' /\ NetInv
  BY DEF AuditInv
<1>2. /\ EndOK(n, l, log, txs[n], receipt[n], reserved[n])
      /\ l.state = "Active" => Full(log)
  <2>1. EndOK(n, line[n], audits[n], txs[n], receipt[n], reserved[n])
    BY <1>1, EndOf
  <2>2. QED BY <2>1, AfterCancel
<1>3. l.number = Len(log)
  BY <1>2 DEF EndOK, LineOK
<1>4. /\ LogOK(log) /\ FullLen(log) = FullLen(audits[n]) /\ Grown(n, audits[n], log)
  BY <1>1, Cancelled
<1> HIDE DEF l, log
<1>5. CASE /\ audits' = [audits EXCEPT ![n] = log]
           /\ Answer(n, m, Refusal(n, m, l), <<>>) /\ UNCHANGED <<stored, cache>>
  <2>1. LogStep
    BY <1>1, <1>4, <1>5, PendingChanges
  <2>2. <<>> \notin AllTerms
    BY NoTerm
  <2>3. QED BY <1>5, <2>1, <2>2, AnswerAgrees
<1>6. CASE /\ audits' = [audits EXCEPT ![n] = log] /\ Actual(log).full
           /\ cache' = [cache EXCEPT ![n] = [id |-> m.id, signed |-> Actual(log).terms]]
           /\ Answer(n, m, "OK", Actual(log).terms)
  <2>1. LogStep
    BY <1>1, <1>4, <1>6, PendingChanges
  <2> DEFINE s == Actual(log).terms
             k == Len(log)
  <2>2. k \in Nat \ {0} /\ s = log[k].terms /\ s.number = k /\ FullLen(log) = k
    BY <1>4, <1>6, LastAudit, FullLenType DEF Full
  <2>3. audits'[n] = log
    BY <1>1, <1>6, LogChanged
  <2>4. /\ cache' = [cache EXCEPT ![n] = [id |-> m.id, signed |-> s]]
        /\ Answer(n, m, "OK", s)
    BY <1>6
  <2> HIDE DEF s, k
  <2>5. Kept(audits'[n], s)
    BY <2>2, <2>3 DEF Kept
  <2>6. QED BY <2>1, <2>4, <2>5, AnswerAgrees
<1>7. CASE Refusal(n, m, l) = "OK" /\ ~Actual(log).full
  BY <1>2, <1>7, NotRefused DEF Full
<1>8. CASE Refusal(n, m, l) = "OK" /\ SignsAudit(n, m, l, log)
  <2>1. Full(log)
    BY <1>2, <1>8, NotRefused
  <2>2. QED BY <1>3, <1>4, <1>8, <2>1, SignedAgrees
<1>9. QED BY <1>5, <1>6, <1>7, <1>8 DEF AuditTarget, l, log

LEMMA AuditAgrees ==
    ASSUME AuditInv, AuditInv', SignedInv, AgreeInv, NEW n \in Nodes, NEW m \in net,
           ReceiveAudit(n, m)
    PROVE  LogStep /\ SignedInv'
<1>1. EndsInv /\ EndsInv' /\ NetInv /\ UNCHANGED txs /\ m.type = "audit" /\ m.to = n
  BY DEF AuditInv, ReceiveAudit
<1>2. CASE Answer(n, m, "OK", cache[n].signed) /\ UNCHANGED <<audits, cache>>
  <2>1. LogStep
    BY <1>1, <1>2, LogsStay
  <2>2. cache[n].signed \in AllTerms => Kept(audits'[n], cache[n].signed)
    BY <1>2 DEF SignedInv
  <2>3. QED BY <1>1, <1>2, <2>1, <2>2, AnswerAgrees
<1>3. CASE net' = net \ {m} /\ UNCHANGED <<audits, cache>>
  <2>1. \A x \in net' : x \in net \/ x.type = "pong"
    BY <1>3
  <2>2. \A x \in Nodes : \A t \in txs'[x] :
           t.step = "pending" \/ \E u \in txs[x] : u.step # "pending" /\ u.signed = t.signed
    BY <1>1
  <2>3. QED BY <1>1, <1>3, <2>1, <2>2, NothingSigned
<1>4. CASE ~(line[n].state = "AuditPending" /\ n = Greater) /\ AuditTarget(n, m)
  BY <1>1, <1>4, TargetAgrees
<1>5. QED BY <1>2, <1>3, <1>4 DEF ReceiveAudit

\* Every step of the two ends keeps what is signed, and the agreement.
LEMMA SignedKept ==
    ASSUME AuditInv, AuditInv', SignedInv, AgreeInv, LineInv, [Next]_vars
    PROVE  LogStep /\ SignedInv'
<1>1. EndsInv /\ EndsInv' /\ NetInv /\ Ends(txs) /\ Ends(cache)
  BY DEF AuditInv, EndsInv, CacheInv
<1>2. ASSUME UNCHANGED audits, \A m \in net' : m \in net \/ m.type = "pong",
             \A x \in Nodes : cache'[x] = cache[x] \/ cache'[x] = NoAnswer,
             \A x \in Nodes : txs'[x] \subseteq txs[x]
      PROVE  LogStep /\ SignedInv'
  <2>1. \A x \in Nodes : \A t \in txs'[x] :
           t.step = "pending" \/ \E u \in txs[x] : u.step # "pending" /\ u.signed = t.signed
    BY <1>2
  <2>2. QED BY <1>1, <1>2, <2>1, NothingSigned
<1>3. CASE UNCHANGED <<audits, net, cache, txs>>
  BY <1>2, <1>3
<1>4. ASSUME NEW n \in Nodes, Ping(n) PROVE LogStep /\ SignedInv'
  BY <1>2, <1>4 DEF Ping
<1>5. ASSUME NEW n \in Nodes, CacheExpires(n) PROVE LogStep /\ SignedInv'
  <2>1. \A x \in Nodes : cache'[x] = cache[x] \/ cache'[x] = NoAnswer
    BY <1>1, <1>5 DEF CacheExpires, Ends
  <2>2. QED BY <1>2, <1>5, <2>1 DEF CacheExpires
<1>6. ASSUME NEW n \in Nodes, Restart(n) PROVE LogStep /\ SignedInv'
  <2>1. \A x \in Nodes : cache'[x] = cache[x] \/ cache'[x] = NoAnswer
    BY <1>1, <1>6 DEF Restart, Ends
  <2>2. \A x \in Nodes : txs'[x] \subseteq txs[x]
    BY <1>1, <1>6 DEF Restart, Ends
  <2>3. QED BY <1>2, <1>6, <2>1, <2>2 DEF Restart
<1>7. ASSUME NEW m \in net, Lose(m) \/ \E n \in Nodes : Discard(n, m) PROVE LogStep /\ SignedInv'
  BY <1>2, <1>7 DEF Lose, Discard
<1>8. ASSUME NEW n \in Nodes, Finish(n) PROVE LogStep /\ SignedInv'
  BY <1>3, <1>8 DEF Finish
<1>9. CASE PayerReserves \/ PayeeReserves \/ Decide
  BY <1>3, <1>9 DEF PayerReserves, PayeeReserves, Decide
<1>10. ASSUME NEW n \in Nodes, NEW q \in Requests, runInitializationStage(n, q)
       PROVE  LogStep /\ SignedInv'
  BY <1>10, StartAgrees
<1>11. ASSUME NEW n \in Nodes, NEW t \in txs[n],
              \/ runAuditPendingStage(n, t) \/ ResponseTimeout(n, t)
              \/ runContractorPendingStage(n, t)
       PROVE  LogStep /\ SignedInv'
  BY <1>11, PendingAgrees, AttemptAgrees
<1>12. ASSUME NEW n \in Nodes, NEW t \in txs[n], NEW m \in net, runResponseProcessingStage(n, t, m)
       PROVE  LogStep /\ SignedInv'
  BY <1>12, ResponseAgrees
<1>13. ASSUME NEW n \in Nodes, ReceivePong(n) PROVE LogStep /\ SignedInv'
  BY <1>13, ResumedAgrees
<1>14. ASSUME NEW n \in Nodes, NEW m \in net, ReceiveAudit(n, m) PROVE LogStep /\ SignedInv'
  BY <1>14, AuditAgrees
<1>15. CASE UNCHANGED vars
  BY <1>3, <1>15 DEF vars
<1>16. CASE Next
  BY <1>4, <1>5, <1>6, <1>7, <1>8, <1>9, <1>10, <1>11, <1>12, <1>13, <1>14, <1>16 DEF Next
<1>17. QED BY <1>15, <1>16

-----------------------------------------------------------------------------
(* The line and the audits of one end *)

LEMMA AmountsStay ==
    ASSUME NEW n, NEW l, NEW log, NEW rc, LineOf(n, l, log, rc),
           NEW l2, l2.outgoing = l.outgoing, l2.incoming = l.incoming, l2.balance = l.balance
    PROVE  LineOf(n, l2, log, rc)
<1>1. OwnTerms(Len(log), l2) = OwnTerms(Len(log), l)
  BY DEF OwnTerms
<1>2. QED BY <1>1 DEF LineOf, HalfOK, CurrentOK

\* The next audit has the balance of the line.
LEMMA AppendedLine ==
    ASSUME NEW n, NEW l, NEW log, NEW rc, LogOK(log), Full(log), LineOf(n, l, log, rc),
           NEW a, LogOK(Append(log, a)), NEW l2, l2.balance = l.balance,
           a.terms.balance = l.balance, ~a.full => a.terms = OwnTerms(Len(log) + 1, l2)
    PROVE  LineOf(n, l2, Append(log, a), rc)
<1> DEFINE new == Append(log, a)
           k == Len(log)
<1>1. k \in Nat /\ Len(new) = k + 1 /\ Actual(new) = a /\ SameTerms(log, new, k)
  BY Appended, LastAudit
<1>2. new[k + 1] = a
  BY <1>1 DEF Actual
<1>3. Full(new) <=> a.full
  BY <1>1 DEF Full
<1> HIDE DEF new
<1>4. HalfOK(l2, new)
  BY <1>1, <1>3 DEF HalfOK
<1>5. CurrentOK(n, l2, new, rc)
  <2>1. SUFFICES ASSUME rc # 0
                 PROVE  l2.balance = Moved(n) /\ \A i \in 1..Len(new) :
                            i > rc => new[i].terms.balance = Moved(n)
    BY DEF CurrentOK
  <2>2. l.balance = Moved(n) /\ \A i \in 1..k : i > rc => log[i].terms.balance = Moved(n)
    BY <2>1 DEF LineOf, CurrentOK
  <2> HIDE DEF k
  <2>3. \A i \in 1..Len(new) : i \in 1..k \/ i = k + 1
    BY <1>1
  <2>4. QED BY <1>1, <1>2, <2>2, <2>3 DEF SameTerms
<1>6. QED BY <1>4, <1>5 DEF LineOf, new

\* The contractor's half changes no audit's terms.
LEMMA FilledLine ==
    ASSUME NEW n, NEW l, NEW log, NEW rc, LogOK(log), LineOf(n, l, log, rc),
           NEW i \in 1..Len(log), Full(log) \/ i = Len(log)
    PROVE  LineOf(n, Completed(l), [log EXCEPT ![i].full = TRUE], rc)
<1> DEFINE new == [log EXCEPT ![i].full = TRUE]
           c == Completed(l)
<1>1. /\ Len(new) = Len(log) /\ Full(new) /\ \A j \in 1..Len(log) : new[j].terms = log[j].terms
  BY CompletedLog
<1>2. CurrentOK(n, l, new, rc)
  <2> HIDE DEF new
  <2>1. QED BY <1>1 DEF LineOf, CurrentOK
<1> HIDE DEF new
<1>3. c.outgoing = l.outgoing /\ c.incoming = l.incoming /\ c.balance = l.balance
  BY DEF Completed
<1> HIDE DEF c
<1>4. LineOf(n, l, new, rc)
  BY <1>1, <1>2 DEF LineOf, HalfOK
<1>5. QED BY <1>3, <1>4, AmountsStay DEF new, c

\* After a cancelled audit the line is that of the audit before.
LEMMA CancelledLine ==
    ASSUME EndsInv, LineInv, NEW n \in Nodes
    PROVE  LineOf(n, LineAfterCancel(n), AuditsAfterCancel(n), receipt[n])
<1> DEFINE l == line[n]
           log == audits[n]
           rc == receipt[n]
           k == Len(log)
<1>1. LogOK(log) /\ PaidOK(n, l, log, rc, reserved[n]) /\ l \in Lines /\ LineOf(n, l, log, rc)
  BY EndOf DEF LineInv
<1>2. CASE CancelsOwn(n)
  <2> DEFINE cut == WithoutLast(log)
             back == FromStorage(n, l, cut)
             new == [back EXCEPT !.state = "Active"]
  <2>1. ~Full(log) /\ AuditsAfterCancel(n) = cut /\ LineAfterCancel(n) = new
    BY <1>2 DEF CancelsOwn, Full, AuditsAfterCancel, LineAfterCancel
  <2>2. /\ LogOK(cut) /\ Full(cut) /\ Len(cut) = k - 1 /\ \A i \in 1..k - 1 : cut[i] = log[i]
    BY <1>1, <2>1, CancelledLog
  <2>3. k - 1 \in Nat \ {0} /\ k \in Nat /\ Actual(cut) = cut[k - 1]
        /\ Actual(cut).terms.number = k - 1
    <3>1. Len(cut) \in Nat \ {0} /\ Actual(cut) = cut[Len(cut)] /\ Actual(cut).terms.number = Len(cut)
      BY <2>2, LastAudit
    <3>2. k \in Nat
      BY <1>1, LastAudit
    <3>3. QED BY <2>2, <3>1, <3>2
  <2>4. Actual(cut).terms = log[k - 1].terms
    <3> HIDE DEF cut, k
    <3>1. QED BY <2>2, <2>3
  <2>5. new.balance = log[k - 1].terms.balance + (IF rc = k - 1 THEN Moved(n) ELSE 0)
    <3>1. new.balance = Actual(cut).terms.balance + ReceiptsUnder(n, Actual(cut).terms.number)
      BY <1>1 DEF FromStorage, Lines
    <3> HIDE DEF new, back, cut, k
    <3>2. QED BY <2>3, <2>4, <3>1 DEF ReceiptsUnder
  <2> HIDE DEF new, back, cut
  <2>6. CurrentOK(n, new, cut, rc)
    <3>1. SUFFICES ASSUME rc # 0
                   PROVE  new.balance = Moved(n) /\ \A i \in 1..Len(cut) :
                              i > rc => cut[i].terms.balance = Moved(n)
      BY DEF CurrentOK
    <3>2. /\ rc \in Nat /\ rc < k /\ Moved(n) \in Int
          /\ \A i \in 1..k : i <= rc => log[i].terms.balance = 0
      BY <1>1, <2>1, <3>1, ConstantTypes DEF PaidOK
    <3>3. \A i \in 1..k : i > rc => log[i].terms.balance = Moved(n)
      BY <1>1, <3>1 DEF LineOf, CurrentOK
    <3> HIDE DEF k, log, rc
    <3>4. k - 1 \in 1..k
      BY <2>3
    <3>5. CASE rc = k - 1
      <4>1. log[k - 1].terms.balance = 0
        BY <3>2, <3>4, <3>5
      <4>2. QED BY <2>2, <2>3, <2>5, <3>2, <3>5, <4>1
    <3>6. CASE rc # k - 1
      <4>1. rc < k - 1
        BY <2>3, <3>2, <3>6
      <4>2. log[k - 1].terms.balance = Moved(n)
        BY <3>3, <3>4, <4>1
      <4>3. \A i \in 1..k - 1 : i \in 1..k
        BY <2>3
      <4>4. QED BY <2>2, <2>5, <3>2, <3>3, <3>6, <4>2, <4>3
    <3>7. QED BY <3>5, <3>6
  <2>7. QED BY <2>1, <2>2, <2>6 DEF LineOf, HalfOK
<1>3. CASE ~CancelsOwn(n)
  <2> DEFINE new == LineAfterCancel(n)
  <2>1. AuditsAfterCancel(n) = log
    BY <1>3 DEF AuditsAfterCancel
  <2>2. new.outgoing = l.outgoing /\ new.incoming = l.incoming /\ new.balance = l.balance
    BY <1>1, <1>3 DEF LineAfterCancel, Lines
  <2> HIDE DEF new
  <2>3. LineOf(n, new, log, rc)
    BY <1>1, <2>2, AmountsStay
  <2>4. QED BY <2>1, <2>3 DEF new
<1>4. QED BY <1>2, <1>3

\* A restart reads the pending audit back, with no payment to be counted.
LEMMA LoadedOf ==
    ASSUME EndsInv, LineInv, NEW n \in Nodes, receipt[n] = 0
    PROVE  LineOf(n, Loaded(n), audits[n], receipt[n])
<1> DEFINE log == audits[n]
           terms == Actual(log).terms
           k == Len(log)
<1>1. LogOK(log) /\ PaidOK(n, line[n], log, receipt[n], reserved[n]) /\ line[n] \in Lines
  BY EndOf
<1>2. terms \in AllTerms /\ terms.number = k /\ terms = log[k].terms /\ k \in Nat \ {0}
  BY <1>1, LastAudit
<1>3. terms.balance = 0
  BY <1>1, <1>2 DEF PaidOK
<1>4. ASSUME ~Full(log)
      PROVE  terms = OwnTerms(k, Loaded(n))
  <2>1. /\ Loaded(n).outgoing = terms.outgoing /\ Loaded(n).incoming = terms.incoming
        /\ Loaded(n).balance = 0
    BY <1>1, <1>4 DEF Loaded, Full, FromStorage, Lines
  <2> HIDE DEF k, terms
  <2>2. QED BY <1>2, <1>3, <2>1 DEF OwnTerms, AllTerms
<1>5. QED BY <1>4 DEF LineOf, HalfOK, CurrentOK

-----------------------------------------------------------------------------
(* The lines, step by step *)

LEMMA LineChanged ==
    ASSUME EndsInv, LineInv, NEW n \in Nodes, NEW l, NEW log, NEW rc, line' = [line EXCEPT ![n] = l],
           audits' = [audits EXCEPT ![n] = log], receipt' = [receipt EXCEPT ![n] = rc],
           LineOf(n, l, log, rc)
    PROVE  LineInv'
<1>1. Ends(line) /\ Ends(audits) /\ Ends(receipt)
  BY DEF EndsInv
<1>2. ASSUME NEW x \in Nodes PROVE LineOf(x, line'[x], audits'[x], receipt'[x])
  <2>1. CASE x = n
    BY <1>1, <2>1 DEF Ends
  <2>2. CASE x # n
    BY <1>1, <2>2 DEF Ends, LineInv
  <2>3. QED BY <2>1, <2>2
<1>3. QED BY <1>2 DEF LineInv, LineOf, HalfOK, CurrentOK, Moved, Full, Actual, OwnTerms

LEMMA LinesStay ==
    ASSUME LineInv, UNCHANGED <<line, audits, receipt>>
    PROVE  LineInv'
BY DEF LineInv, LineOf, HalfOK, CurrentOK, Moved, Full, Actual, OwnTerms

LEMMA StateChanged ==
    ASSUME EndsInv, LineInv, NEW n \in Nodes, NEW l, line' = [line EXCEPT ![n] = l],
           UNCHANGED <<audits, receipt>>,
           l.outgoing = line[n].outgoing, l.incoming = line[n].incoming, l.balance = line[n].balance
    PROVE  LineInv'
<1>1. audits = [audits EXCEPT ![n] = audits[n]] /\ receipt = [receipt EXCEPT ![n] = receipt[n]]
  BY EndOf
<1>2. LineOf(n, line[n], audits[n], receipt[n])
  BY DEF LineInv
<1>3. LineOf(n, l, audits[n], receipt[n])
  BY <1>2, AmountsStay
<1>4. QED BY <1>1, <1>3, LineChanged

LEMMA InitializedLines ==
    ASSUME EndsInv, EndsInv', LineInv, NEW n \in Nodes, NEW t \in Txs(n), t.request \in Requests,
           NEW l \in Lines, l.outgoing = line[n].outgoing, l.incoming = line[n].incoming,
           l.balance = line[n].balance, Full(audits[n]), initializeAudit(n, t, l),
           UNCHANGED receipt
    PROVE  LineInv'
<1> DEFINE marked == [l EXCEPT !.state = IF t.request.kind = "audit" THEN "Active" ELSE @]
<1>1. CASE line' = [line EXCEPT ![n] = l] /\ UNCHANGED audits
  BY <1>1, StateChanged
<1>2. CASE line' = [line EXCEPT ![n] = marked] /\ UNCHANGED audits
  <2>1. /\ marked.outgoing = l.outgoing /\ marked.incoming = l.incoming
        /\ marked.balance = l.balance
    BY DEF Lines
  <2>2. line' = [line EXCEPT ![n] = marked]
    BY <1>2
  <2> HIDE DEF marked
  <2>3. QED BY <1>2, <2>1, <2>2, StateChanged
<1>3. CASE SavesOwnPart(n, t, l)
  <2> DEFINE asked == [Requested(t.request, l) EXCEPT !.state = "AuditPending",
                                                      !.number = t.number]
             own == OwnTerms(t.number, asked)
             half == [terms |-> own, full |-> FALSE]
             log == audits[n]
             rc == receipt[n]
             new == Append(log, half)
  <2>1. /\ audits' = [audits EXCEPT ![n] = new] /\ line' = [line EXCEPT ![n] = asked]
    BY <1>3 DEF SavesOwnPart
  <2>2. asked.balance = l.balance
    BY RequestedLine DEF Lines
  <2> HIDE DEF asked
  <2>3. half.terms = own /\ ~half.full /\ own.balance = l.balance /\ own.number = t.number
    BY <2>2 DEF OwnTerms
  <2>4. LogOK(log) /\ LogOK(new)
    <3> HIDE DEF new
    <3>1. audits'[n] = new
      BY <2>1, LogChanged
    <3>2. QED BY <3>1, LogsOf, LogsAfter
  <2>5. own = OwnTerms(Len(log) + 1, asked)
    <3>1. Len(new) = Len(log) + 1 /\ new[Len(log) + 1] = half
      <4>1. Len(log) \in Nat /\ log \in Seq(Audits)
        BY <2>4, LastAudit DEF LogOK
      <4> HIDE DEF half
      <4>2. QED BY <4>1, AppendProperties
    <3>2. new[Len(log) + 1].terms.number = Len(log) + 1
      <4>1. Len(log) + 1 \in 1..Len(new)
        BY <2>4, <3>1, LastAudit
      <4>2. QED BY <2>4, <4>1 DEF LogOK
    <3>3. t.number = Len(log) + 1
      <4> HIDE DEF half, new, own, log
      <4>1. QED BY <2>3, <3>1, <3>2
    <3>4. QED BY <3>3
  <2>6. LineOf(n, l, log, rc)
    <3>1. LineOf(n, line[n], log, rc)
      BY DEF LineInv
    <3>2. QED BY <3>1, AmountsStay
  <2> HIDE DEF half, own
  <2>7. LineOf(n, asked, new, rc)
    <3> HIDE DEF log, rc
    <3>1. QED BY <2>2, <2>3, <2>4, <2>5, <2>6, AppendedLine DEF log
  <2>8. receipt' = [receipt EXCEPT ![n] = rc]
    BY EndOf
  <2> HIDE DEF new, log, rc
  <2>9. QED BY <2>1, <2>7, <2>8, LineChanged
<1>4. QED BY <1>1, <1>2, <1>3 DEF initializeAudit

LEMMA StartLines ==
    ASSUME AuditInv, AuditInv', LineInv, NEW n \in Nodes, NEW q \in Requests,
           runInitializationStage(n, q)
    PROVE  LineInv'
<1> DEFINE t == Transaction(n, q, line[n].number + 1)
           marked == [line[n] EXCEPT !.state = "AuditPending"]
           l == IF q.kind = "set" THEN line[n] ELSE marked
<1>1. EndsInv /\ EndsInv' /\ line[n] \in Lines /\ Full(audits[n])
  BY EndOf DEF AuditInv, runInitializationStage, LineOK
<1>2. FreshUUIDs(n) # {} /\ UNCHANGED receipt
  BY DEF runInitializationStage
<1>3. t \in Txs(n) /\ t.request \in Requests
  <2>1. line[n].number \in 1..MaxAuditNumber
    BY <1>1, EndOf
  <2>2. line[n].number < MaxAuditNumber
    BY DEF runInitializationStage
  <2> DEFINE number == line[n].number + 1
  <2>3. number \in 1..MaxAuditNumber /\ q \in Requests \cup {ResumedAudit}
    BY <2>1, <2>2, ConstantTypes
  <2> HIDE DEF number
  <2>4. Transaction(n, q, number) \in Txs(n) /\ Transaction(n, q, number).request = q
    BY <1>2, <2>3, NewTransaction
  <2>5. QED BY <2>4 DEF number
<1>4. /\ marked \in Lines /\ marked.outgoing = line[n].outgoing
      /\ marked.incoming = line[n].incoming /\ marked.balance = line[n].balance
  BY <1>1 DEF Lines, States
<1>5. CASE line' = [line EXCEPT ![n] = marked] /\ UNCHANGED audits
  <2> HIDE DEF marked
  <2>1. QED BY <1>1, <1>2, <1>4, <1>5, StateChanged DEF marked
<1>6. CASE initializeAudit(n, t, l)
  <2>1. /\ l \in Lines /\ l.outgoing = line[n].outgoing
        /\ l.incoming = line[n].incoming /\ l.balance = line[n].balance
    BY <1>1, <1>4
  <2> HIDE DEF t, l
  <2>2. QED BY <1>1, <1>2, <1>3, <1>6, <2>1, InitializedLines
<1>7. QED BY <1>5, <1>6 DEF runInitializationStage

LEMMA ConflictLines ==
    ASSUME EndsInv, LineInv, NEW n \in Nodes, NEW t, Conflicts(n, t), UNCHANGED <<audits, receipt>>
    PROVE  LineInv'
<1> DEFINE l == [line[n] EXCEPT !.state = "ConflictResolving"]
<1>1. line[n] \in Lines
  BY EndOf
<1>2. /\ l.outgoing = line[n].outgoing /\ l.incoming = line[n].incoming
      /\ l.balance = line[n].balance
  BY <1>1 DEF Lines
<1>3. line' = [line EXCEPT ![n] = l]
  BY DEF Conflicts
<1> HIDE DEF l
<1>4. QED BY <1>2, <1>3, StateChanged

LEMMA PendingLines ==
    ASSUME AuditInv, AuditInv', LineInv, NEW n \in Nodes, NEW t \in txs[n],
           runAuditPendingStage(n, t)
    PROVE  LineInv'
<1>1. EndsInv /\ EndsInv' /\ UNCHANGED receipt
  BY DEF AuditInv, runAuditPendingStage
<1>2. t \in Txs(n) /\ TxOK(n, t, line[n], audits[n]) /\ line[n] \in Lines
  BY <1>1, EndOf
<1>3. CASE UNCHANGED <<line, audits>>
  BY <1>1, <1>3, LinesStay
<1>4. CASE Conflicts(n, t) /\ UNCHANGED audits
  BY <1>1, <1>4, ConflictLines
<1>5. CASE ~t.resumes /\ initializeAudit(n, t, line[n])
  <2>1. Full(audits[n]) /\ t.request \in Requests
    BY <1>2, <1>5 DEF TxOK, runAuditPendingStage
  <2>2. QED BY <1>1, <1>2, <1>5, <2>1, InitializedLines
<1>6. QED BY <1>3, <1>4, <1>5 DEF runAuditPendingStage

LEMMA ResponseLines ==
    ASSUME AuditInv, LineInv, NEW n \in Nodes, NEW t \in txs[n], NEW m \in net,
           runResponseProcessingStage(n, t, m)
    PROVE  LineInv'
<1>1. EndsInv /\ UNCHANGED receipt
  BY DEF AuditInv, runResponseProcessingStage
<1>2. CASE UNCHANGED <<line, audits>>
  BY <1>1, <1>2, LinesStay
<1>3. CASE Conflicts(n, t) /\ UNCHANGED audits
  BY <1>1, <1>3, ConflictLines
<1>4. CASE t.number \in Numbers(audits[n]) /\ SavesContractorPart(n, t)
  <2> DEFINE log == audits[n]
             i == CHOOSE j \in 1..Len(log) : log[j].terms.number = t.number
             new == [log EXCEPT ![i].full = TRUE]
             rc == receipt[n]
             c == Completed(line[n])
  <2>1. /\ LogOK(log) /\ TxOK(n, t, line[n], log) /\ LineOf(n, line[n], log, rc)
        /\ receipt' = [receipt EXCEPT ![n] = rc]
    BY <1>1, EndOf DEF LineInv
  <2>2. i \in 1..Len(log) /\ i = t.number
    <3>1. \A j \in 1..Len(log) : log[j].terms.number = j
      BY <2>1 DEF LogOK
    <3>2. t.number \in 1..Len(log)
      BY <1>4, <2>1, NumbersOf
    <3> HIDE DEF log
    <3>3. QED BY <3>1, <3>2
  <2>3. Full(log) \/ i = Len(log)
    BY <2>1, <2>2 DEF TxOK, runResponseProcessingStage
  <2>4. audits' = [audits EXCEPT ![n] = new] /\ line' = [line EXCEPT ![n] = c]
    BY <1>4 DEF SavesContractorPart
  <2> HIDE DEF i
  <2>5. LineOf(n, c, new, rc)
    <3> HIDE DEF log, rc
    <3>1. QED BY <2>1, <2>2, <2>3, FilledLine
  <2> HIDE DEF new, rc, c
  <2>6. QED BY <1>1, <2>1, <2>4, <2>5, LineChanged
<1>5. QED BY <1>2, <1>3, <1>4 DEF runResponseProcessingStage, ContractorIsBusy

LEMMA SignedLines ==
    ASSUME AuditInv, AuditInv', LineInv, NEW n \in Nodes, NEW m, NEW l, NEW log,
           LogOK(log), Full(log), l \in Lines, l.number = Len(log),
           LineOf(n, l, log, receipt[n]), SignsAudit(n, m, l, log), UNCHANGED receipt
    PROVE  LineInv'
<1> DEFINE number  == l.number + 1
           adopted == Adopted(l, m)
           own     == OwnTerms(number, adopted)
           a       == [terms |-> own, full |-> TRUE]
           new     == Append(log, a)
           rc      == receipt[n]
           renumbered == [adopted EXCEPT !.number = number]
           signed  == Completed(renumbered)
<1>1. EndsInv /\ EndsInv' /\ receipt' = [receipt EXCEPT ![n] = rc]
  BY EndOf DEF AuditInv
<1>2. adopted.balance = l.balance /\ renumbered.balance = l.balance /\ signed.balance = l.balance
  BY DEF Adopted, Completed, Lines
<1>3. CASE line' = [line EXCEPT ![n] = adopted] /\ audits' = [audits EXCEPT ![n] = log]
  <2> HIDE DEF adopted
  <2>1. LineOf(n, adopted, log, rc)
    BY <1>2 DEF LineOf, HalfOK, CurrentOK
  <2>2. QED BY <1>1, <1>3, <2>1, LineChanged
<1>4. CASE line' = [line EXCEPT ![n] = signed] /\ audits' = [audits EXCEPT ![n] = new]
  <2> HIDE DEF renumbered, adopted
  <2>1. own.balance = l.balance
    BY <1>2 DEF OwnTerms
  <2>2. a.full /\ a.terms.balance = l.balance
    BY <2>1
  <2>3. line' = [line EXCEPT ![n] = signed] /\ audits' = [audits EXCEPT ![n] = new]
    BY <1>4
  <2>4. LogOK(new)
    <3> HIDE DEF new
    <3>1. audits'[n] = new
      BY <1>1, <2>3, LogChanged
    <3>2. QED BY <1>1, <3>1, LogsAfter
  <2> HIDE DEF a, signed, rc
  <2>5. LineOf(n, signed, new, rc)
    BY <1>2, <2>2, <2>4, AppendedLine DEF rc
  <2> HIDE DEF new
  <2>6. QED BY <1>1, <2>3, <2>5, LineChanged
<1>5. QED BY <1>3, <1>4 DEF SignsAudit

LEMMA AuditLines ==
    ASSUME AuditInv, AuditInv', LineInv, NEW n \in Nodes, NEW m \in net, ReceiveAudit(n, m)
    PROVE  LineInv'
<1> DEFINE l   == LineAfterCancel(n)
           log == AuditsAfterCancel(n)
           rc  == receipt[n]
<1>1. EndsInv /\ UNCHANGED receipt
  BY DEF AuditInv, ReceiveAudit
<1>2. CASE UNCHANGED <<line, audits>>
  BY <1>1, <1>2, LinesStay
<1>3. /\ LineOf(n, l, log, rc) /\ receipt' = [receipt EXCEPT ![n] = rc]
  BY <1>1, EndOf, CancelledLine
<1>4. /\ LogOK(log) /\ l \in Lines /\ l.number = Len(log)
      /\ l.state = "Active" => Full(log)
  <2>1. EndOK(n, line[n], audits[n], txs[n], receipt[n], reserved[n])
    BY <1>1, EndOf
  <2>2. QED BY <2>1, AfterCancel DEF EndOK, LineOK
<1>5. CASE line' = [line EXCEPT ![n] = l] /\ audits' = [audits EXCEPT ![n] = log]
  <2> HIDE DEF l, log, rc
  <2>1. QED BY <1>1, <1>3, <1>5, LineChanged
<1>6. CASE Refusal(n, m, l) = "OK" /\ SignsAudit(n, m, l, log)
  <2>1. Full(log)
    BY <1>4, <1>6, NotRefused
  <2> HIDE DEF l, log
  <2>2. QED BY <1>1, <1>3, <1>4, <1>6, <2>1, SignedLines
<1>7. CASE Refusal(n, m, l) = "OK" /\ ~Actual(log).full
  BY <1>4, <1>7, NotRefused DEF Full
<1>8. QED BY <1>2, <1>5, <1>6, <1>7 DEF ReceiveAudit, AuditTarget

LEMMA FinishLines ==
    ASSUME AuditInv, LineInv, NEW n \in Nodes, Finish(n)
    PROVE  LineInv'
<1> DEFINE paid == [line[n] EXCEPT !.balance = @ + Moved(n)]
           log == audits[n]
           k == line[n].number
<1>1. EndsInv /\ reserved[n]
  BY DEF AuditInv, Finish
<1>2. /\ LogOK(log) /\ LineOK(line[n], log, reserved[n])
      /\ PaidOK(n, line[n], log, receipt[n], reserved[n]) /\ line[n] \in Lines
      /\ k = Len(log) /\ audits = [audits EXCEPT ![n] = log]
  BY <1>1, EndOf
<1>3. CASE payment = "voted"
  <2>1. line' = [line EXCEPT ![n] = paid] /\ receipt' = [receipt EXCEPT ![n] = k]
        /\ audits' = [audits EXCEPT ![n] = log]
    BY <1>2, <1>3 DEF Finish
  <2>2. line[n].balance = 0 /\ Moved(n) \in Int
    BY <1>1, <1>2, ConstantTypes DEF PaidOK
  <2>3. paid.balance = Moved(n)
    BY <1>2, <2>2 DEF Lines
  <2>4. Full(log)
    BY <1>1, <1>2 DEF LineOK
  <2> HIDE DEF paid
  <2>5. LineOf(n, paid, log, k)
    <3>1. k \in Nat /\ \A i \in 1..Len(log) : ~(i > k)
      BY <1>2, LastAudit
    <3>2. QED BY <2>3, <2>4, <3>1 DEF LineOf, HalfOK, CurrentOK
  <2> HIDE DEF log, k
  <2>6. QED BY <1>1, <2>1, <2>5, LineChanged
<1>4. CASE payment # "voted"
  <2>1. UNCHANGED <<line, audits, receipt>>
    BY <1>4 DEF Finish
  <2>2. QED BY <2>1, LinesStay
<1>5. QED BY <1>3, <1>4

LEMMA RestartLines ==
    ASSUME RestartsOrPays, AuditInv, LineInv, VotedInv, NEW n \in Nodes, Restart(n)
    PROVE  LineInv'
<1>1. EndsInv /\ PaymentInv /\ restarts \in 0..MaxRestarts
  BY DEF AuditInv, RestInv
<1>2. Payments = 0
  <2>1. restarts < MaxRestarts
    BY DEF Restart
  <2>2. QED BY <1>1, <2>1, ConstantTypes DEF RestartsOrPays
<1>3. receipt[n] = 0
  BY <1>1, <1>2 DEF PaymentInv, VotedInv
<1> DEFINE l == Loaded(n)
           log == audits[n]
           rc == receipt[n]
<1>4. LineOf(n, l, log, rc)
  BY <1>1, <1>3, LoadedOf
<1>5. /\ audits' = [audits EXCEPT ![n] = log] /\ receipt' = [receipt EXCEPT ![n] = rc]
      /\ line' = [line EXCEPT ![n] = l]
  BY <1>1, EndOf DEF Restart
<1> HIDE DEF l, log, rc
<1>6. QED BY <1>1, <1>4, <1>5, LineChanged

LEMMA LinesKept ==
    ASSUME RestartsOrPays, AuditInv, AuditInv', LineInv, VotedInv, [Next]_vars
    PROVE  LineInv'
<1>1. ASSUME UNCHANGED <<line, audits, receipt>> PROVE LineInv'
  BY <1>1, LinesStay
<1>2. ASSUME NEW n \in Nodes, NEW q \in Requests, runInitializationStage(n, q) PROVE LineInv'
  BY <1>2, StartLines
<1>3. ASSUME NEW n \in Nodes, NEW t \in txs[n], runAuditPendingStage(n, t) PROVE LineInv'
  BY <1>3, PendingLines
<1>4. ASSUME NEW n \in Nodes, NEW t \in txs[n],
             ResponseTimeout(n, t) \/ runContractorPendingStage(n, t)
      PROVE  LineInv'
  BY <1>1, <1>4 DEF ResponseTimeout, runContractorPendingStage
<1>5. ASSUME NEW n \in Nodes, NEW t \in txs[n], NEW m \in net, runResponseProcessingStage(n, t, m)
      PROVE  LineInv'
  BY <1>5, ResponseLines
<1>6. ASSUME NEW n \in Nodes, NEW m \in net, ReceiveAudit(n, m) PROVE LineInv'
  BY <1>6, AuditLines
<1>7. ASSUME NEW n \in Nodes, Finish(n) \/ Restart(n) PROVE LineInv'
  BY <1>7, FinishLines, RestartLines
<1>8. ASSUME NEW n \in Nodes,
             Ping(n) \/ ReceivePong(n) \/ CacheExpires(n) \/ \E m \in net : Discard(n, m)
      PROVE  LineInv'
  BY <1>1, <1>8 DEF Ping, ReceivePong, CacheExpires, Discard
<1>9. CASE (\E m \in net : Lose(m)) \/ PayerReserves \/ PayeeReserves \/ Decide
  BY <1>1, <1>9 DEF Lose, PayerReserves, PayeeReserves, Decide
<1>10. CASE UNCHANGED vars
  BY <1>1, <1>10 DEF vars
<1>11. CASE Next
  BY <1>2, <1>3, <1>4, <1>5, <1>6, <1>7, <1>8, <1>9, <1>11 DEF Next
<1>12. QED BY <1>10, <1>11

-----------------------------------------------------------------------------
(* The payment at its two ends *)

LEMMA VotesKept ==
    ASSUME AuditInv, VotedInv, [Next]_vars
    PROVE  VotedInv'
<1>1. EndsInv /\ PaymentInv /\ Ends(reserved) /\ Ends(receipt)
  BY DEF AuditInv, EndsInv
<1>2. ASSUME UNCHANGED <<payment, reserved, receipt>> PROVE VotedInv'
  BY <1>2 DEF VotedInv
<1>3. CASE PayerReserves
  <2>1. /\ Payments = 1 /\ payment' = "reserving" /\ UNCHANGED receipt
        /\ reserved' = [reserved EXCEPT ![Payer] = TRUE]
    BY <1>3 DEF PayerReserves
  <2>2. reserved'[Payer]
    BY <1>1, <2>1, ConstantTypes DEF Ends
  <2>3. QED BY <2>1, <2>2 DEF VotedInv
<1>4. CASE PayeeReserves
  <2> DEFINE n == Other(Payer)
  <2>1. /\ payment = "reserving" /\ payment' = (IF CanReserve(n) THEN "reserved" ELSE "cancelled")
        /\ reserved' = [reserved EXCEPT ![n] = CanReserve(n)] /\ UNCHANGED receipt
    BY <1>4 DEF PayeeReserves
  <2>2. n \in Nodes /\ n # Payer /\ \A x \in Nodes : x = n \/ x = Payer
    BY ConstantTypes, OtherEnd
  <2>3. Payments # 0 /\ reserved[Payer]
    BY <2>1 DEF VotedInv
  <2> HIDE DEF n
  <2>4. CASE CanReserve(n)
    <3>1. payment' = "reserved" /\ reserved'[n] /\ reserved'[Payer]
      BY <1>1, <2>1, <2>2, <2>3, <2>4, ConstantTypes DEF Ends
    <3>2. QED BY <2>2, <2>3, <3>1 DEF VotedInv
  <2>5. CASE ~CanReserve(n)
    <3>1. payment' = "cancelled"
      BY <2>1, <2>5
    <3>2. QED BY <2>3, <3>1 DEF VotedInv
  <2>6. QED BY <2>4, <2>5
<1>5. CASE Decide
  <2>1. payment = "reserved" /\ payment' \in {"voted", "cancelled"} /\ UNCHANGED <<reserved, receipt>>
    BY <1>5 DEF Decide
  <2>2. QED BY <2>1 DEF VotedInv
<1>6. ASSUME NEW n \in Nodes, Finish(n) PROVE VotedInv'
  <2>1. /\ reserved[n] /\ payment \in {"voted", "cancelled"} /\ payment' = payment
        /\ reserved' = [reserved EXCEPT ![n] = FALSE]
    BY <1>6 DEF Finish
  <2>2. CASE payment = "voted"
    <3>1. receipt' = [receipt EXCEPT ![n] = line[n].number]
      BY <1>6, <2>2 DEF Finish
    <3>2. line[n].number # 0
      <4>1. line[n].number \in 1..MaxAuditNumber
        BY <1>1, EndOf
      <4>2. QED BY <4>1
    <3>3. receipt'[n] # 0 /\ \A x \in Nodes : x # n => receipt'[x] = receipt[x]
                                                        /\ reserved'[x] = reserved[x]
      BY <1>1, <2>1, <3>1, <3>2 DEF Ends
    <3>4. QED BY <2>1, <2>2, <3>3 DEF VotedInv
  <2>3. CASE payment = "cancelled"
    BY <2>1, <2>3 DEF VotedInv
  <2>4. QED BY <2>1, <2>2, <2>3
<1>7. ASSUME NEW n \in Nodes, Restart(n) PROVE VotedInv'
  <2> DEFINE keeps == reserved[n] /\ payment \in {"reserved", "voted"}
  <2>1. /\ reserved' = [reserved EXCEPT ![n] = keeps] /\ UNCHANGED receipt
        /\ payment' = IF payment = "reserving" /\ reserved[n] THEN "cancelled" ELSE payment
    BY <1>7 DEF Restart
  <2>2. reserved'[n] = keeps /\ \A x \in Nodes : x # n => reserved'[x] = reserved[x]
    BY <1>1, <2>1 DEF Ends
  <2>3. CASE payment = "reserving" /\ reserved[n]
    BY <2>1, <2>3 DEF VotedInv
  <2>4. CASE ~(payment = "reserving" /\ reserved[n])
    <3>1. payment' = payment
      BY <2>1, <2>4
    <3>2. payment = "reserving" => n # Payer
      BY <2>4 DEF VotedInv
    <3>3. QED BY <2>1, <2>2, <3>1, <3>2, ConstantTypes DEF VotedInv
  <2>5. QED BY <2>3, <2>4
<1>8. ASSUME NEW n \in Nodes,
             \/ \E q \in Requests : runInitializationStage(n, q)
             \/ \E t \in txs[n] :
                   \/ runAuditPendingStage(n, t)
                   \/ ResponseTimeout(n, t)
                   \/ runContractorPendingStage(n, t)
                   \/ \E m \in net : runResponseProcessingStage(n, t, m)
             \/ Ping(n) \/ ReceivePong(n) \/ CacheExpires(n)
             \/ \E m \in net : ReceiveAudit(n, m) \/ Discard(n, m)
      PROVE  VotedInv'
  <2>1. UNCHANGED <<payment, reserved, receipt>>
    BY <1>8 DEF runInitializationStage, runAuditPendingStage, ResponseTimeout,
                runContractorPendingStage, runResponseProcessingStage, Ping, ReceivePong,
                CacheExpires, ReceiveAudit, Discard
  <2>2. QED BY <1>2, <2>1
<1>9. CASE \E m \in net : Lose(m)
  BY <1>2, <1>9 DEF Lose
<1>10. CASE UNCHANGED vars
  BY <1>2, <1>10 DEF vars
<1>11. CASE Next
  BY <1>3, <1>4, <1>5, <1>6, <1>7, <1>8, <1>9, <1>11 DEF Next
<1>12. QED BY <1>10, <1>11

-----------------------------------------------------------------------------
(* The invariant *)

LEMMA InitAgrees == Init => AgreementInv
<1> SUFFICES ASSUME Init PROVE AgreementInv
  OBVIOUS
<1> DEFINE a(n) == [terms |-> First(n), full |-> TRUE]
<1>1. \A n \in Nodes : /\ audits[n] = <<a(n)>> /\ Len(audits[n]) = 1 /\ audits[n][1] = a(n)
                        /\ Full(audits[n]) /\ FullLen(audits[n]) = 1
  BY DEF Init, Full, Actual, FullLen
<1>2. SignedInv
  <2>1. net = {} /\ \A n \in Nodes : cache[n] = NoAnswer /\ txs[n] = {}
    BY DEF Init
  <2>2. QED BY <2>1, NoTerm DEF SignedInv, NoAnswer
<1>3. AgreeInv
  <2>1. a(Greater).terms = Mirror(a(Lesser).terms)
    BY TwoEnds DEF First, Mirror
  <2>2. /\ FullLen(audits[Greater]) = 1 /\ FullLen(audits[Lesser]) = 1
        /\ Len(audits[Greater]) = 1
        /\ audits[Greater][1].terms = Mirror(audits[Lesser][1].terms)
    BY <1>1, <2>1, TwoEnds
  <2>3. QED BY <2>2 DEF AgreeInv, Agreeing
<1>4. LineInv
  <2>1. \A n \in Nodes : receipt[n] = 0
    BY DEF Init
  <2>2. QED BY <1>1, <2>1 DEF LineInv, LineOf, HalfOK, CurrentOK
<1>5. VotedInv
  BY DEF Init, VotedInv
<1>6. QED BY <1>2, <1>3, <1>4, <1>5 DEF AgreementInv

LEMMA AgreementStep ==
    ASSUME RestartsOrPays
    PROVE  AuditInv /\ AuditInv' /\ AgreementInv /\ [Next]_vars => AgreementInv' /\ LogStep
<1> SUFFICES ASSUME AuditInv, AuditInv', AgreementInv, [Next]_vars
             PROVE  AgreementInv' /\ LogStep
  OBVIOUS
<1>1. SignedInv /\ AgreeInv /\ LineInv /\ VotedInv
  BY DEF AgreementInv
<1>2. LogStep /\ SignedInv'
  BY <1>1, SignedKept
<1>3. AgreeInv'
  BY <1>2 DEF LogStep, AgreeInv, Agreeing, FullLen, Full, Actual, Lesser, Other, Mirror
<1>4. LineInv' /\ VotedInv'
  BY <1>1, LinesKept, VotesKept
<1>5. QED BY <1>2, <1>3, <1>4 DEF AgreementInv

LEMMA AgreedInit == AuditInv /\ AgreementInv /\ Init => Abstract!Init
<1> SUFFICES ASSUME AuditInv, AgreementInv, Init PROVE Abstract!Init
  OBVIOUS
<1>1. EndsInv /\ AgreeInv
  BY DEF AuditInv, AgreementInv
<1>2. \A n \in Nodes : FullLen(audits[n]) = 1
  BY DEF Init, FullLen, Full, Actual
<1>3. /\ Agreed(Longer) \in Seq(AllTerms) /\ Len(Agreed(Longer)) = 1
      /\ [n \in Nodes |-> Len(FullAudits(n))] = [n \in Nodes |-> 1]
  <2>1. /\ Agreed(Longer) \in Seq(AllTerms)
        /\ \E n \in Nodes : Len(Agreed(Longer)) = FullLen(audits[n])
        /\ [n \in Nodes |-> Len(FullAudits(n))] = [n \in Nodes |-> FullLen(audits[n])]
    BY <1>1, AgreedSequence
  <2>2. QED BY <1>2, <2>1
<1>4. QED BY <1>3 DEF Abstract!Init

LEMMA BalancesAgree ==
    ASSUME AuditInv, AgreementInv
    PROVE  ActiveEndsAgree /\ BalanceIsCurrent
<1>1. EndsInv /\ PaymentInv /\ LineInv /\ VotedInv
  BY DEF AuditInv, AgreementInv
<1>2. ASSUME NEW n \in Nodes
      PROVE  line[n].balance = IF receipt[n] = 0 THEN 0 ELSE Moved(n)
  <2>1. PaidOK(n, line[n], audits[n], receipt[n], reserved[n])
    BY <1>1, EndOf
  <2>2. CurrentOK(n, line[n], audits[n], receipt[n])
    BY <1>1 DEF LineInv, LineOf
  <2>3. QED BY <2>1, <2>2 DEF PaidOK, CurrentOK
<1>3. ASSUME \A n \in Nodes : ~reserved[n], NEW n \in Nodes
      PROVE  line[n].balance = -line[Other(n)].balance
  <2>1. Other(n) \in Nodes /\ Other(n) # n
    BY OtherEnd
  <2>2. CASE payment = "voted"
    <3>1. receipt[n] # 0 /\ receipt[Other(n)] # 0
      BY <1>1, <1>3, <2>1, <2>2 DEF VotedInv
    <3>2. line[n].balance = Moved(n) /\ line[Other(n)].balance = Moved(Other(n))
      BY <1>2, <2>1, <3>1
    <3>3. Moved(n) = -Moved(Other(n))
      <4>1. n = Payer <=> Other(n) # Payer
        BY <2>1, OtherEnd, ConstantTypes
      <4>2. QED BY <4>1 DEF Moved
    <3>4. QED BY <3>2, <3>3
  <2>3. CASE payment # "voted"
    <3>1. receipt[n] = 0 /\ receipt[Other(n)] = 0
      BY <1>1, <2>1, <2>3 DEF PaymentInv
    <3> DEFINE a == line[n].balance
               b == line[Other(n)].balance
    <3>2. a = 0 /\ b = 0
      BY <1>2, <2>1, <3>1
    <3> HIDE DEF a, b
    <3>3. a = -b
      <4>1. a \in Int /\ b \in Int
        BY <3>2
      <4>2. a + b = 0
        BY <3>2
      <4>3. \A x, y \in Int : x + y = 0 => x = -y
        OBVIOUS
      <4>4. QED BY <4>1, <4>2, <4>3
    <3>4. QED BY <3>3 DEF a, b
  <2>4. QED BY <2>2, <2>3
<1>4. ActiveEndsAgree
  BY <1>3 DEF ActiveEndsAgree
<1>5. BalanceIsCurrent
  BY <1>2 DEF BalanceIsCurrent
<1>6. QED BY <1>4, <1>5

-----------------------------------------------------------------------------
(* The theorems *)

\* What both ends keep with both signatures agrees, after whatever is lost or late.
THEOREM AgreementInvariant ==
    ASSUME RestartsOrPays
    PROVE  Spec /\ []OneAudit => []AgreementInv
<1>1. AuditInv /\ AuditInv' /\ AgreementInv /\ [Next]_vars => AgreementInv'
  BY AgreementStep
<1>2. QED BY <1>1, InitAgrees, AuditInvariant, PTL DEF Spec

\* The audits that both ends have signed are one agreed sequence, numbered alike
\* at the two ends, of which each end knows a prefix: no audit with both
\* signatures is dropped or replaced, none is signed twice with different terms,
\* and no end is ahead of the agreed sequence or more than one audit behind the
\* other's signature, whatever crossed, got lost, came late or was repeated.
THEOREM AuditsAreAgreed ==
    ASSUME RestartsOrPays
    PROVE  Spec /\ []OneAudit => ImplementsAgreedAudits
<1>1. AuditInv /\ AgreementInv /\ AuditInv' /\ [Next]_vars
         => [Abstract!Next]_<<Agreed(Longer), [n \in Nodes |-> Len(FullAudits(n))]>>
  <2> SUFFICES ASSUME AuditInv, AgreementInv, AuditInv', [Next]_vars
               PROVE  [Abstract!Next]_<<Agreed(Longer), [n \in Nodes |-> Len(FullAudits(n))]>>
    OBVIOUS
  <2>1. LogStep
    BY AgreementStep
  <2>2. EndsInv /\ EndsInv' /\ AgreeInv
    BY DEF AuditInv, AgreementInv
  <2>3. QED BY <2>1, <2>2, AgreedStep
<1>2. QED
  BY <1>1, InitAgrees, InitAuditInv, AgreedInit, AuditInvariant, AgreementInvariant, PTL
  DEF Spec, ImplementsAgreedAudits, Abstract!Spec

\* Two ends that use the line, with no reservation on it, have opposite balances,
\* and an end that uses it has the balance its payment left: the cancelled and
\* the simultaneous audit, and the repeated one, never bring an older balance back.
THEOREM BalancesAreCurrent ==
    ASSUME RestartsOrPays
    PROVE  Spec /\ []OneAudit => [](ActiveEndsAgree /\ BalanceIsCurrent)
<1>1. AuditInv /\ AgreementInv => ActiveEndsAgree /\ BalanceIsCurrent
  BY BalancesAgree
<1>2. QED BY <1>1, AuditInvariant, AgreementInvariant, PTL

\* The same of the runs: an end that starts no transaction before the last is
\* forgotten works on one audit at a time by itself.
THEOREM OneTransactionAgrees ==
    ASSUME RestartsOrPays, OneUUID
    PROVE  Spec => ImplementsAgreedAudits /\ [](ActiveEndsAgree /\ BalanceIsCurrent)
<1>1. Spec => []OneAudit
  BY OneTransactionEach, PTL
<1>2. QED BY <1>1, AuditsAreAgreed, BalancesAreCurrent, PTL

-----------------------------------------------------------------------------
(* A line on which one end asks for audits, no payment goes on, and the other end     *)
(* keeps the limit it gives: neither end comes into conflict, and a line in use has   *)
(* the limits of an audit with both signatures, for any limits, attempts and restarts *)
(* and whatever becomes of the messages.                                             *)

\* The end that may ask for audits, and the other.
Asker == CHOOSE n \in Nodes : Initiators \subseteq {n}
Answerer == Other(Asker)

OneEndAsks ==
    /\ Initiators \subseteq {Asker} /\ Asker \in Nodes
    /\ \A q \in Requests : q.kind # "close"
    /\ InitialTrust[Answerer] # 0
    /\ Payments = 0

\* The same terms as the other end writes them.
Mirrored(t, u) == /\ t.number = u.number /\ t.outgoing = u.incoming /\ t.incoming = u.outgoing

Signed(log, s) == s.number \in 1..Len(log) /\ log[s.number].terms = s

\* The line has the limits of the last audit, the pending one included.
LimitsOf(l, log) ==
    l.outgoing = Actual(log).terms.outgoing /\ l.incoming = Actual(log).terms.incoming

\* The end that is asked has no audit of its own, and goes on giving its limit.
AnswererOK(l, log, ts) ==
    /\ l.state = "Active" /\ ts = {} /\ l.outgoing = InitialTrust[Answerer] /\ LimitsOf(l, log)

\* The asker works on a pending audit, or waits for a pong to go on with it.
AskerOK(l, log, ts, ping) ==
    /\ l.state \in {"Active", "AuditPending"}
    /\ l.incoming = InitialTrust[Answerer] /\ LimitsOf(l, log)
    /\ ping => ts = {} /\ ~Full(log)
    /\ \A t \in ts : /\ t.step = "response" /\ ~Full(log) /\ t.id # "none"
                     /\ t.number = Len(log) /\ t.signed = Actual(log).terms
    /\ \A t, u \in ts : t = u

\* The answerer's audits are those of the asker, up to one that is pending.
SameAudits(log, log2) ==
    /\ Len(log2) <= Len(log) /\ Len(log) <= Len(log2) + 1
    /\ Full(log) => Len(log2) = Len(log)
    /\ \A j \in 1..Len(log2) : Mirrored(log[j].terms, log2[j].terms)

\* An audit is what the asker keeps; an agreement what the answerer keeps.  A
\* transaction that is alive gets no refusal, and no answer to another audit.
MessageFits(m, log, log2, ts) ==
    /\ m.type = "audit" =>
          /\ m.to = Answerer /\ m.id # "none" /\ Signed(log, m.signed)
          /\ m.number = m.signed.number
          /\ m.outgoing = m.signed.outgoing /\ m.incoming = m.signed.incoming
          /\ \A t \in ts : m.id = t.id => m.number = t.number
    /\ m.type = "response" =>
          /\ m.to = Asker
          /\ m.state = "OK" => m.signed \in AllTerms /\ Signed(log2, m.signed)
          /\ \A t \in ts : m.id = t.id => m.state = "OK" /\ m.signed.number = t.number

CacheFits(c, log2, ts) ==
    /\ c.id # "none" => c.signed \in AllTerms /\ Signed(log2, c.signed)
    /\ \A t \in ts : c.id = t.id => c.signed.number = t.number

QuietInv ==
    /\ payment = "none" /\ cache[Asker] = NoAnswer
    /\ \A n \in Nodes : ~reserved[n] /\ receipt[n] = 0 /\ stored[n] = "Active"

AskingOK(la, ga, ts, ping, ns) ==
    /\ AskerOK(la, ga, ts, ping)
    /\ [type |-> "pong", to |-> Asker] \in ns => ping

SharedOK(ga, ts, gc, ca, ns) ==
    /\ SameAudits(ga, gc) /\ CacheFits(ca, gc, ts)
    /\ \A m \in ns : MessageFits(m, ga, gc, ts)

OneSideInv ==
    /\ QuietInv
    /\ AnswererOK(line[Answerer], audits[Answerer], txs[Answerer])
    /\ AskingOK(line[Asker], audits[Asker], txs[Asker], pinged[Asker], net)
    /\ SharedOK(audits[Asker], txs[Asker], audits[Answerer], cache[Answerer], net)

-----------------------------------------------------------------------------
(* The two ends, and what their audits say *)

LEMMA Sides ==
    ASSUME OneEndAsks
    PROVE  /\ Asker \in Nodes /\ Answerer \in Nodes /\ Asker # Answerer
           /\ Other(Asker) = Answerer /\ Other(Answerer) = Asker
           /\ \A n \in Nodes : n = Asker \/ n = Answerer
           /\ InitialTrust[Answerer] \in Nat \ {0}
<1>1. Asker \in Nodes /\ InitialTrust[Answerer] # 0
  BY DEF OneEndAsks
<1>2. InitialTrust[Other(Asker)] \in TrustAmounts /\ TrustAmounts \subseteq Nat
  BY <1>1, OtherEnd, ConstantTypes
<1>3. QED BY <1>1, <1>2, OtherEnd DEF Answerer

\* With no payment every balance is zero.
LEMMA EndFacts ==
    ASSUME AuditInv, QuietInv, NEW n \in Nodes
    PROVE  /\ LogOK(audits[n]) /\ Len(audits[n]) \in Nat \ {0}
           /\ line[n] \in Lines /\ line[n].number = Len(audits[n]) /\ line[n].balance = 0
           /\ line[n].state = "Active" => Full(audits[n])
           /\ Actual(audits[n]) = audits[n][Len(audits[n])]
           /\ \A j \in 1..Len(audits[n]) :
                 /\ audits[n][j] \in Audits /\ audits[n][j].terms \in AllTerms
                 /\ audits[n][j].terms.number = j /\ audits[n][j].terms.balance = 0
           /\ Ends(line) /\ Ends(audits) /\ Ends(txs) /\ Ends(cache)
           /\ pinged \in [Nodes -> BOOLEAN] /\ stored \in [Nodes -> States]
<1>1. EndsInv /\ RestInv /\ CacheInv
  BY DEF AuditInv
<1>2. /\ LogOK(audits[n]) /\ LineOK(line[n], audits[n], reserved[n])
      /\ PaidOK(n, line[n], audits[n], receipt[n], reserved[n])
      /\ line[n] \in Lines /\ line[n].number = Len(audits[n])
      /\ Ends(line) /\ Ends(audits) /\ Ends(txs)
  BY <1>1, EndOf
<1>3. receipt[n] = 0
  BY DEF QuietInv
<1>4. line[n].balance = 0 /\ \A j \in 1..Len(audits[n]) : audits[n][j].terms.balance = 0
  BY <1>2, <1>3 DEF PaidOK
<1>5. line[n].state = "Active" => Full(audits[n])
  BY <1>2 DEF LineOK
<1>6. \A j \in 1..Len(audits[n]) : audits[n][j] \in Audits
  BY <1>2, LastAudit
<1>7. \A j \in 1..Len(audits[n]) : audits[n][j].terms \in AllTerms
  BY <1>6 DEF Audits
<1>8. \A j \in 1..Len(audits[n]) : audits[n][j].terms.number = j
  BY <1>2 DEF LogOK
<1>9. Len(audits[n]) \in Nat \ {0} /\ Actual(audits[n]) = audits[n][Len(audits[n])]
  BY <1>2, LastAudit
<1>10. Ends(cache) /\ pinged \in [Nodes -> BOOLEAN] /\ stored \in [Nodes -> States]
  BY <1>1 DEF CacheInv, RestInv
<1>11. QED BY <1>2, <1>4, <1>5, <1>6, <1>7, <1>8, <1>9, <1>10

LEMMA ZeroNegated == \A x : x = 0 => -x = 0
<1>1. \A x, y \in Int : x + y = 0 => -y = x
  OBVIOUS
<1>2. 0 \in Int /\ 0 + 0 = 0
  OBVIOUS
<1>3. -0 = 0
  BY <1>1, <1>2
<1>4. QED BY <1>3

\* What the contractor is to sign for a line without a balance.
LEMMA Expected ==
    ASSUME NEW t \in AllTerms, NEW l, l.balance = 0, NEW k, t.number = k, t.balance = 0
    PROVE  t = ContractorTerms(k, l) <=> t.outgoing = l.incoming /\ t.incoming = l.outgoing
<1>1. -(l.balance) = 0
  BY ZeroNegated
<1>2. ContractorTerms(k, l) = [number |-> k, outgoing |-> l.incoming,
                               incoming |-> l.outgoing, balance |-> 0]
  BY <1>1 DEF ContractorTerms
<1>3. t = [number |-> t.number, outgoing |-> t.outgoing, incoming |-> t.incoming,
           balance |-> t.balance]
  BY DEF AllTerms
<1>4. QED BY <1>2, <1>3

-----------------------------------------------------------------------------
(* The messages under way when something changes *)

Grows(log, log2) ==
    Len(log) <= Len(log2) /\ \A j \in 1..Len(log) : log2[j].terms = log[j].terms

\* A transaction has the name and number of one before.
Continues(t, ts) == \E u \in ts : u.id = t.id /\ u.number = t.number

LEMMA GrowsItself ==
    ASSUME NEW log, Len(log) \in Nat
    PROVE  Grows(log, log)
BY DEF Grows

LEMMA SignedStill ==
    ASSUME NEW log, NEW log2, NEW s, Len(log) \in Nat, Len(log2) \in Nat,
           Grows(log, log2), Signed(log, s)
    PROVE  Signed(log2, s)
<1> DEFINE k == Len(log)
           k2 == Len(log2)
<1>1. k \in Nat /\ k2 \in Nat /\ k <= k2 /\ s.number \in 1..k /\ log[s.number].terms = s
  BY DEF Grows, Signed
<1>2. log2[s.number].terms = log[s.number].terms
  BY <1>1 DEF Grows
<1> HIDE DEF k, k2
<1>3. s.number \in 1..k2
  BY <1>1
<1>4. QED BY <1>1, <1>2, <1>3 DEF Signed, k2

LEMMA MessageStillFits ==
    ASSUME NEW m, NEW ga, NEW ga2, NEW gc, NEW gc2, NEW ts, NEW ts2,
           Len(ga) \in Nat, Len(ga2) \in Nat, Len(gc) \in Nat, Len(gc2) \in Nat,
           MessageFits(m, ga, gc, ts), Grows(ga, ga2), Grows(gc, gc2),
           m.type # "pong" => \A t \in ts2 : m.id = t.id => Continues(t, ts)
    PROVE  MessageFits(m, ga2, gc2, ts2)
<1>1. CASE m.type = "audit"
  <2>1. Signed(ga2, m.signed)
    BY <1>1, SignedStill DEF MessageFits
  <2>2. QED BY <1>1, <2>1 DEF MessageFits, Continues
<1>2. CASE m.type = "response"
  <2>1. m.state = "OK" => Signed(gc2, m.signed)
    BY <1>2, SignedStill DEF MessageFits
  <2>2. QED BY <1>2, <2>1 DEF MessageFits, Continues
<1>3. QED BY <1>1, <1>2 DEF MessageFits

LEMMA CacheStillFits ==
    ASSUME NEW ca, NEW gc, NEW gc2, NEW ts, NEW ts2, Len(gc) \in Nat, Len(gc2) \in Nat,
           CacheFits(ca, gc, ts), Grows(gc, gc2),
           \A t \in ts2 : ca.id = t.id => Continues(t, ts)
    PROVE  CacheFits(ca, gc2, ts2)
<1>1. ca.id # "none" => Signed(gc2, ca.signed)
  BY SignedStill DEF CacheFits
<1>2. QED BY <1>1 DEF CacheFits, Continues

\* Messages get lost, and the asker's transactions go on or end.
LEMMA SharedStill ==
    ASSUME NEW ga, NEW gc, NEW ts, NEW ts2, NEW ca, NEW ns, NEW ns2, NEW x,
           Len(ga) \in Nat, Len(gc) \in Nat, SharedOK(ga, ts, gc, ca, ns),
           \A t \in ts2 : Continues(t, ts),
           ns2 \subseteq ns \cup {x}, MessageFits(x, ga, gc, ts2)
    PROVE  SharedOK(ga, ts2, gc, ca, ns2)
<1>1. Grows(ga, ga) /\ Grows(gc, gc)
  BY GrowsItself
<1>2. CacheFits(ca, gc, ts2)
  BY <1>1, CacheStillFits DEF SharedOK
<1>3. ASSUME NEW m \in ns PROVE MessageFits(m, ga, gc, ts2)
  BY <1>1, MessageStillFits DEF SharedOK
<1>4. QED BY <1>2, <1>3 DEF SharedOK

\* An audit message of a transaction on the asker's last audit.
LEMMA AuditFits ==
    ASSUME OneEndAsks, AuditInv, QuietInv, NEW ga, NEW gc, NEW ts, NEW t, NEW l,
           LogOK(ga), LimitsOf(l, ga), t.signed = Actual(ga).terms, t.number = Len(ga),
           t.id # "none", \A u \in ts : u.id = t.id => u.number = t.number
    PROVE  MessageFits(AuditMessage(Asker, t, l), ga, gc, ts)
<1> DEFINE m == AuditMessage(Asker, t, l)
<1>1. /\ m.type = "audit" /\ m.to = Answerer /\ m.id = t.id /\ m.number = t.number
      /\ m.outgoing = l.outgoing /\ m.incoming = l.incoming /\ m.signed = t.signed
  BY DEF AuditMessage, Answerer
<1>2. /\ Len(ga) \in Nat \ {0} /\ Actual(ga) = ga[Len(ga)]
      /\ Actual(ga).terms.number = Len(ga)
  BY LastAudit
<1> HIDE DEF m
<1>3. Len(ga) \in 1..Len(ga)
  BY <1>2
<1>4. Signed(ga, m.signed) /\ m.number = m.signed.number
  BY <1>1, <1>2, <1>3 DEF Signed
<1>5. m.outgoing = m.signed.outgoing /\ m.incoming = m.signed.incoming
  BY <1>1 DEF LimitsOf
<1>6. QED BY <1>1, <1>4, <1>5 DEF MessageFits, m
-----------------------------------------------------------------------------
(* The asker *)

LEMMA UnusedIsNew ==
    ASSUME OneEndAsks, QuietInv, NEW u, u \notin UsedUUIDs
    PROVE  /\ u # "none" /\ cache[Answerer].id # u
           /\ \A m \in net : m.type # "pong" => m.id # u
<1>1. ASSUME NEW n \in Nodes PROVE cache[n].id # u
  <2>1. cache[n].id \in {t.id : t \in txs[n]} \cup {cache[n].id}
    OBVIOUS
  <2>2. cache[n].id \in UsedUUIDs
    BY <2>1 DEF UsedUUIDs
  <2>3. QED BY <2>2
<1>2. ASSUME NEW m \in net, m.type # "pong" PROVE m.id # u
  <2>1. m.id \in {k.id : k \in {j \in net : j.type # "pong"}}
    BY <1>2
  <2>2. m.id \in UsedUUIDs
    BY <2>1 DEF UsedUUIDs
  <2>3. QED BY <2>2
<1>3. cache[Asker].id = "none"
  BY DEF QuietInv, NoAnswer
<1>4. QED BY <1>1, <1>2, <1>3, Sides

\* Its transactions go on, end or start; one message at most is sent.
GoOn(ts) == \A t \in ts : Continues(t, txs[Asker]) \/ t.id \notin UsedUUIDs
Sends(x) == net' \subseteq net \cup {x}

\* A step of the asker: its transactions go on, end or start, and its audits
\* grow by at most a pending one.
LEMMA AskerStep ==
    ASSUME OneEndAsks, AuditInv, OneSideInv, QuietInv', UNCHANGED cache,
           NEW l, NEW log, NEW ts, NEW x,
           line' = [line EXCEPT ![Asker] = l], audits' = [audits EXCEPT ![Asker] = log],
           txs' = [txs EXCEPT ![Asker] = ts],
           LogOK(log), Grows(audits[Asker], log), SameAudits(log, audits[Answerer]),
           GoOn(ts), Sends(x), MessageFits(x, log, audits[Answerer], ts),
           AskingOK(l, log, ts, pinged'[Asker], net')
    PROVE  OneSideInv'
<1> DEFINE ga == audits[Asker]
           gc == audits[Answerer]
           ca == cache[Answerer]
<1>1. Asker \in Nodes /\ Answerer \in Nodes /\ Asker # Answerer
  BY Sides
<1>2. /\ QuietInv /\ SharedOK(ga, txs[Asker], gc, ca, net)
      /\ AnswererOK(line[Answerer], gc, txs[Answerer])
  BY DEF OneSideInv
<1>3. Len(ga) \in Nat /\ Len(gc) \in Nat /\ Ends(line) /\ Ends(audits) /\ Ends(txs)
  BY <1>1, <1>2, EndFacts
<1>4. Len(log) \in Nat
  BY LastAudit
<1>5. line'[Asker] = l /\ audits'[Asker] = log /\ txs'[Asker] = ts
  BY <1>1, <1>3 DEF Ends
<1>6. line'[Answerer] = line[Answerer] /\ audits'[Answerer] = gc /\ txs'[Answerer] = txs[Answerer]
  BY <1>1, <1>3 DEF Ends
<1> HIDE DEF ga, gc, ca
<1>7. Grows(gc, gc) /\ Grows(ga, log)
  BY <1>3, GrowsItself DEF ga
<1>8. ASSUME NEW m \in net PROVE MessageFits(m, log, gc, ts)
  <2>1. MessageFits(m, ga, gc, txs[Asker])
    BY <1>2 DEF SharedOK
  <2>2. m.type # "pong" => \A t \in ts : m.id = t.id => Continues(t, txs[Asker])
    BY <1>2, UnusedIsNew DEF GoOn
  <2>3. QED BY <1>3, <1>4, <1>7, <2>1, <2>2, MessageStillFits
<1>9. CacheFits(ca, gc, ts)
  <2>1. CacheFits(ca, gc, txs[Asker])
    BY <1>2 DEF SharedOK
  <2>2. \A t \in ts : ca.id = t.id => Continues(t, txs[Asker])
    BY <1>2, UnusedIsNew DEF GoOn, ca
  <2>3. QED BY <1>3, <1>7, <2>1, <2>2, CacheStillFits
<1>10. SharedOK(log, ts, gc, ca, net')
  BY <1>8, <1>9 DEF SharedOK, Sends, gc
<1>11. cache'[Answerer] = ca
  BY DEF ca
<1>12. QED BY <1>2, <1>5, <1>6, <1>10, <1>11 DEF OneSideInv

LEMMA QuietStays ==
    ASSUME QuietInv, UNCHANGED <<payment, cache, reserved, receipt, stored>>
    PROVE  QuietInv'
BY DEF QuietInv

\* The last audit of the asker while it works on it.
LEMMA WorkingOn ==
    ASSUME OneEndAsks, AuditInv, OneSideInv, NEW t \in txs[Asker]
    PROVE  /\ txs[Asker] = {t} /\ t.step = "response" /\ ~Full(audits[Asker]) /\ t.id # "none"
           /\ t.number = Len(audits[Asker]) /\ t.signed = Actual(audits[Asker]).terms
           /\ line[Asker].state = "AuditPending" /\ ~pinged[Asker]
           /\ [type |-> "pong", to |-> Asker] \notin net /\ t \in Txs(Asker)
           /\ ~isAuditWasCancelled(Asker, t.number)
<1>1. AskingOK(line[Asker], audits[Asker], txs[Asker], pinged[Asker], net) /\ QuietInv
  BY DEF OneSideInv
<1>2. AskerOK(line[Asker], audits[Asker], txs[Asker], pinged[Asker])
  BY <1>1 DEF AskingOK
<1>3. /\ t.step = "response" /\ ~Full(audits[Asker]) /\ t.id # "none"
      /\ t.number = Len(audits[Asker]) /\ t.signed = Actual(audits[Asker]).terms
      /\ \A u \in txs[Asker] : u = t
  BY <1>2 DEF AskerOK
<1>4. /\ line[Asker].state = "Active" => Full(audits[Asker])
      /\ LogOK(audits[Asker]) /\ Len(audits[Asker]) \in Nat
  BY <1>1, Sides, EndFacts
<1>5. line[Asker].state = "AuditPending" /\ ~pinged[Asker]
  BY <1>2, <1>3, <1>4 DEF AskerOK
<1>6. [type |-> "pong", to |-> Asker] \notin net
  BY <1>1, <1>5 DEF AskingOK
<1>7. t \in Txs(Asker)
  <2>1. EndsInv
    BY DEF AuditInv
  <2>2. QED BY <2>1, Sides, EndOf
<1>8. ~isAuditWasCancelled(Asker, t.number)
  <2> DEFINE k == Len(audits[Asker])
  <2>1. Actual(audits[Asker]).terms.number = k /\ t.number = k /\ k \in Nat
    BY <1>3, <1>4, LastAudit
  <2>2. ~Actual(audits[Asker]).full
    BY <1>3 DEF Full
  <2> HIDE DEF k
  <2>3. ~(Actual(audits[Asker]).terms.number > t.number)
    BY <2>1
  <2>4. QED BY <2>2, <2>3 DEF isAuditWasCancelled
<1>9. QED BY <1>3, <1>5, <1>6, <1>7, <1>8

\* The asker sends its audit again, or waits for a pong.
LEMMA OneSideTimeout ==
    ASSUME OneEndAsks, AuditInv, OneSideInv, NEW t \in txs[Asker], ResponseTimeout(Asker, t)
    PROVE  OneSideInv'
<1> DEFINE u == [t EXCEPT !.sent = @ + 1]
           ga == audits[Asker]
           gc == audits[Answerer]
           x == AuditMessage(Asker, u, line[Asker])
           pong == [type |-> "pong", to |-> Asker]
<1>1. /\ txs[Asker] = {t} /\ t.step = "response" /\ ~Full(ga) /\ t.id # "none"
      /\ t.number = Len(ga) /\ t.signed = Actual(ga).terms
      /\ ~pinged[Asker] /\ pong \notin net /\ t \in Txs(Asker)
      /\ ~isAuditWasCancelled(Asker, t.number)
  BY WorkingOn
<1>2. /\ QuietInv /\ AskerOK(line[Asker], ga, txs[Asker], pinged[Asker])
      /\ SharedOK(ga, txs[Asker], gc, cache[Answerer], net)
  BY DEF OneSideInv, AskingOK
<1>3. /\ LogOK(ga) /\ Len(ga) \in Nat /\ Ends(txs) /\ Ends(line) /\ Ends(audits)
      /\ pinged \in [Nodes -> BOOLEAN] /\ Asker \in Nodes
  BY <1>2, Sides, EndFacts
<1>4. /\ UNCHANGED <<line, cache, audits, stored, receipt, reserved, payment>>
  BY DEF ResponseTimeout
<1>5. QuietInv'
  BY <1>2, <1>4, QuietStays
<1>6. /\ line' = [line EXCEPT ![Asker] = line[Asker]] /\ audits' = [audits EXCEPT ![Asker] = ga]
  BY <1>3, <1>4, Same
<1>7. Grows(ga, ga) /\ SameAudits(ga, gc) /\ LimitsOf(line[Asker], ga)
  BY <1>2, <1>3, GrowsItself DEF SharedOK, AskerOK
<1>8. CASE Becomes(Asker, t, u) /\ net' = net \cup {x} /\ UNCHANGED pinged
  <2>1. /\ u.id = t.id /\ u.number = t.number /\ u.signed = t.signed /\ u.step = t.step
    BY <1>1 DEF Txs
  <2>2. Becomes(Asker, t, u) /\ net' = net \cup {x}
    BY <1>8
  <2>3. x # pong
    BY DEF AuditMessage
  <2> HIDE DEF u
  <2>4. txs' = [txs EXCEPT ![Asker] = {u}]
    BY <1>1, <2>2 DEF Becomes
  <2>5. MessageFits(x, ga, gc, {u})
    BY <1>1, <1>2, <1>3, <1>7, <2>1, AuditFits
  <2>6. Continues(u, txs[Asker])
    BY <1>1, <2>1 DEF Continues
  <2>7. AskingOK(line[Asker], ga, {u}, pinged'[Asker], net')
    <3>1. AskerOK(line[Asker], ga, {u}, pinged[Asker])
      BY <1>1, <1>2, <2>1 DEF AskerOK
    <3>2. pong \notin net'
      BY <1>1, <2>2, <2>3
    <3>3. QED BY <1>8, <3>1, <3>2 DEF AskingOK
  <2>8. GoOn({u})
    BY <2>6 DEF GoOn
  <2>9. Sends(x) /\ UNCHANGED cache
    BY <1>4, <2>2 DEF Sends
  <2> HIDE DEF x
  <2>10. QED BY <1>3, <1>5, <1>6, <1>7, <2>4, <2>5, <2>7, <2>8, <2>9, AskerStep
<1>9. CASE Stops(Asker, t) /\ UNCHANGED net /\ pinged' = [pinged EXCEPT ![Asker] = TRUE]
  <2>1. txs' = [txs EXCEPT ![Asker] = {}] /\ pinged'[Asker]
    BY <1>1, <1>3, <1>9 DEF Stops
  <2>2. AskingOK(line[Asker], ga, {}, pinged'[Asker], net')
    BY <1>1, <1>2, <2>1 DEF AskingOK, AskerOK
  <2>3. MessageFits(pong, ga, gc, {}) /\ Sends(pong)
    BY <1>9 DEF MessageFits, Sends
  <2>4. GoOn({})
    BY DEF GoOn
  <2> HIDE DEF pong
  <2>5. UNCHANGED cache
    BY <1>4
  <2>6. QED BY <1>3, <1>5, <1>6, <1>7, <2>1, <2>2, <2>3, <2>4, <2>5, AskerStep
<1>10. QED BY <1>1, <1>8, <1>9 DEF ResponseTimeout
\* The line of either end stays in use: one of its limits is the answerer's.
LEMMA LineInUse ==
    ASSUME OneEndAsks, NEW l \in Lines, \/ l.incoming = InitialTrust[Answerer]
                                        \/ l.outgoing = InitialTrust[Answerer]
    PROVE  /\ Completed(l).state = "Active" /\ Completed(l).outgoing = l.outgoing
           /\ Completed(l).incoming = l.incoming
<1>1. ~isTrustLineEmpty(l)
  BY Sides DEF isTrustLineEmpty
<1>2. QED BY <1>1 DEF Completed, Lines

\* The answer to the last audit of the asker.
LEMMA AnswerFits ==
    ASSUME OneEndAsks, AuditInv, OneSideInv, NEW t \in txs[Asker], NEW m \in net,
           m.type = "response", m.id = t.id
    PROVE  /\ m.state = "OK" /\ m.signed = ContractorTerms(t.number, line[Asker])
           /\ Len(audits[Answerer]) = Len(audits[Asker])
<1> DEFINE ga == audits[Asker]
           gc == audits[Answerer]
           k == Len(ga)
           k2 == Len(gc)
<1>1. t.number = k
  BY WorkingOn
<1>2. /\ QuietInv /\ MessageFits(m, ga, gc, txs[Asker]) /\ SameAudits(ga, gc)
      /\ LimitsOf(line[Asker], ga)
  BY DEF OneSideInv, AskingOK, AskerOK, SharedOK
<1>3. /\ m.state = "OK" /\ m.signed \in AllTerms /\ m.signed.number = k
      /\ m.signed.number \in 1..k2 /\ gc[k].terms = m.signed
  BY <1>1, <1>2 DEF MessageFits, Signed
<1>4. /\ k \in Nat \ {0} /\ k2 \in Nat \ {0} /\ line[Asker].balance = 0
      /\ Actual(ga).terms = ga[k].terms
  BY <1>2, Sides, EndFacts
<1>5. k2 <= k /\ \A j \in 1..k2 : Mirrored(ga[j].terms, gc[j].terms)
  BY <1>2 DEF SameAudits
<1>6. \A j \in 1..k2 : gc[j].terms.balance = 0
  BY <1>2, Sides, EndFacts
<1>7. line[Asker].outgoing = ga[k].terms.outgoing /\ line[Asker].incoming = ga[k].terms.incoming
  BY <1>2, <1>4 DEF LimitsOf
<1> HIDE DEF k, k2
<1>8. k = k2 /\ k \in 1..k2
  BY <1>3, <1>4, <1>5
<1>9. m.signed.balance = 0 /\ Mirrored(ga[k].terms, m.signed)
  BY <1>3, <1>5, <1>6, <1>8
<1>10. m.signed.outgoing = line[Asker].incoming /\ m.signed.incoming = line[Asker].outgoing
  BY <1>7, <1>9 DEF Mirrored
<1>11. m.signed = ContractorTerms(k, line[Asker])
  BY <1>3, <1>4, <1>9, <1>10, Expected
<1>12. QED BY <1>1, <1>3, <1>8, <1>11 DEF k, k2

LEMMA OneSideResponds ==
    ASSUME OneEndAsks, AuditInv, OneSideInv, NEW t \in txs[Asker], NEW m \in net,
           runResponseProcessingStage(Asker, t, m)
    PROVE  OneSideInv'
<1> DEFINE ga == audits[Asker]
           gc == audits[Answerer]
           k == Len(ga)
           log == [ga EXCEPT ![k].full = TRUE]
           l == Completed(line[Asker])
           pong == [type |-> "pong", to |-> Asker]
<1>1. /\ txs[Asker] = {t} /\ t.number = k /\ ~pinged[Asker] /\ pong \notin net
  BY WorkingOn
<1>2. /\ QuietInv /\ AskerOK(line[Asker], ga, txs[Asker], pinged[Asker]) /\ SameAudits(ga, gc)
  BY DEF OneSideInv, AskingOK, SharedOK
<1>3. /\ LogOK(ga) /\ k \in Nat \ {0} /\ Ends(txs) /\ Ends(line) /\ Ends(audits)
      /\ line[Asker] \in Lines /\ Asker \in Nodes /\ stored \in [Nodes -> States]
      /\ Actual(ga) = ga[k]
  BY <1>2, Sides, EndFacts
<1>4. /\ m.state = "OK" /\ m.signed = ContractorTerms(t.number, line[Asker])
      /\ Len(gc) = Len(ga)
  BY AnswerFits DEF runResponseProcessingStage
<1>5. t.number \in Numbers(ga)
  BY <1>1, <1>3, NumbersOf
<1>6. /\ SavesContractorPart(Asker, t) /\ net' = net \ {m}
      /\ UNCHANGED <<cache, pinged, receipt, reserved, payment>>
  BY <1>4, <1>5 DEF runResponseProcessingStage
<1>7. k = CHOOSE j \in 1..Len(ga) : ga[j].terms.number = t.number
  <2>1. \A j \in 1..Len(ga) : ga[j].terms.number = j
    BY <1>3 DEF LogOK
  <2>2. k \in 1..Len(ga)
    BY <1>3
  <2> HIDE DEF k
  <2>3. \A j \in 1..Len(ga) : ga[j].terms.number = t.number <=> j = k
    BY <1>1, <2>1
  <2>4. QED BY <2>2, <2>3
<1>8. /\ LogOK(log) /\ Len(log) = k /\ \A j \in 1..k : log[j].terms = ga[j].terms
      /\ Full(log)
  <2>1. k \in 1..Len(ga)
    BY <1>3
  <2>2. QED BY <1>3, <2>1, CompletedLog
<1>9. l.state = "Active" /\ l.outgoing = line[Asker].outgoing /\ l.incoming = line[Asker].incoming
  BY <1>2, <1>3, LineInUse DEF AskerOK
<1>10. /\ audits' = [audits EXCEPT ![Asker] = log] /\ line' = [line EXCEPT ![Asker] = l]
       /\ txs' = [txs EXCEPT ![Asker] = {}]
       /\ stored' = [stored EXCEPT ![Asker] = IF l.state = "Archived" \/ t.request.kind = "audit"
                                               THEN l.state ELSE @]
  <2>1. audits' = [audits EXCEPT ![Asker][k].full = TRUE]
    BY <1>6, <1>7 DEF SavesContractorPart
  <2>2. audits' = [audits EXCEPT ![Asker] = log]
    BY <2>1
  <2>3. txs' = [txs EXCEPT ![Asker] = {}]
    BY <1>1, <1>6 DEF SavesContractorPart, Stops
  <2>4. QED BY <1>6, <2>2, <2>3 DEF SavesContractorPart
<1> HIDE DEF l, log
<1>11. QuietInv'
  <2>1. \A n \in Nodes : stored'[n] = "Active"
    BY <1>2, <1>3, <1>9, <1>10 DEF QuietInv
  <2>2. QED BY <1>2, <1>6, <2>1 DEF QuietInv
<1>12. k \in 1..k /\ Len(log) \in Nat /\ Len(gc) = Len(log)
  BY <1>3, <1>4, <1>8
<1>13. Actual(log).terms = Actual(ga).terms
  <2>1. Actual(log) = log[k]
    BY <1>8 DEF Actual
  <2>2. QED BY <1>3, <1>8, <1>12, <2>1
<1>14. LimitsOf(l, log)
  BY <1>2, <1>9, <1>13 DEF AskerOK, LimitsOf
<1>15. AskingOK(l, log, {}, pinged'[Asker], net')
  BY <1>1, <1>2, <1>6, <1>9, <1>14 DEF AskingOK, AskerOK
<1>16. Grows(ga, log)
  BY <1>3, <1>8 DEF Grows
<1>17. SameAudits(log, gc)
  <2> DEFINE k2 == Len(gc)
             k3 == Len(log)
  <2>1. k3 \in Nat /\ k2 = k3 /\ k2 = k
    BY <1>4, <1>12
  <2>2. \A j \in 1..k2 : Mirrored(ga[j].terms, gc[j].terms)
    BY <1>2 DEF SameAudits
  <2>3. \A j \in 1..k2 : Mirrored(log[j].terms, gc[j].terms)
    BY <1>8, <2>1, <2>2
  <2> HIDE DEF k2, k3, k
  <2>4. k2 <= k3 /\ k3 <= k2 + 1
    BY <2>1
  <2>5. QED BY <2>1, <2>3, <2>4 DEF SameAudits, k2, k3
<1>18. MessageFits(pong, log, gc, {}) /\ Sends(pong) /\ GoOn({}) /\ UNCHANGED cache
  BY <1>6 DEF MessageFits, Sends, GoOn
<1> HIDE DEF pong, k
<1>19. QED BY <1>8, <1>10, <1>11, <1>15, <1>16, <1>17, <1>18, AskerStep
\* A new transaction has a name that nothing refers to.
LEMMA FreshName ==
    ASSUME OneEndAsks, QuietInv, FreshUUIDs(Asker) # {}, NEW q, NEW number
    PROVE  LET t == Transaction(Asker, q, number) IN t.id \notin UsedUUIDs /\ t.id # "none"
<1> DEFINE t == Transaction(Asker, q, number)
<1>1. t.id = CHOOSE u \in FreshUUIDs(Asker) : TRUE
  BY DEF Transaction
<1>2. t.id \in FreshUUIDs(Asker)
  BY <1>1
<1>3. t.id \notin UsedUUIDs
  BY <1>2 DEF FreshUUIDs
<1>4. QED BY <1>3, UnusedIsNew

\* The line while the audit asked for is pending.
AskedLine(q, l, k) == [Requested(q, l) EXCEPT !.state = "AuditPending", !.number = k]

\* What the asker saves as its half: the limits it asks for.
LEMMA AskedHalf ==
    ASSUME OneEndAsks, NEW q \in Requests, NEW l \in Lines, NEW k \in 1..MaxAuditNumber,
           NEW asked, asked = AskedLine(q, l, k)
    PROVE  /\ asked.state = "AuditPending" /\ asked.incoming = l.incoming
           /\ OwnTerms(k, asked) \in AllTerms /\ OwnTerms(k, asked).number = k
           /\ OwnTerms(k, asked).outgoing = asked.outgoing
           /\ OwnTerms(k, asked).incoming = asked.incoming
<1> DEFINE r == Requested(q, l)
<1>1. r \in Lines /\ asked = [r EXCEPT !.state = "AuditPending", !.number = k]
  BY RequestedLine DEF AskedLine
<1>2. r.incoming = l.incoming
  <2>1. q.kind \in {"set", "close", "audit"} /\ q.kind # "close"
    BY RequestTypes DEF OneEndAsks
  <2>2. CASE q.kind = "set"
    BY <2>2 DEF Requested, Lines
  <2>3. CASE q.kind = "audit"
    BY <2>3 DEF Requested
  <2>4. QED BY <2>1, <2>2, <2>3
<1> HIDE DEF r
<1>3. /\ asked.state = "AuditPending" /\ asked.incoming = r.incoming
      /\ asked.outgoing = r.outgoing /\ asked.balance = r.balance
  BY <1>1 DEF Lines
<1>4. OwnTerms(k, asked) \in AllTerms
  BY <1>1, <1>3 DEF OwnTerms, AllTerms, Lines
<1>5. QED BY <1>2, <1>3, <1>4 DEF OwnTerms, r

LEMMA OneSideStarts ==
    ASSUME OneEndAsks, AuditInv, OneSideInv, NEW n \in Nodes, NEW q \in Requests,
           runInitializationStage(n, q)
    PROVE  OneSideInv'
<1> DEFINE ga == audits[Asker]
           gc == audits[Answerer]
           l0 == line[Asker]
           k == Len(ga)
           t == Transaction(Asker, q, l0.number + 1)
           marked == [l0 EXCEPT !.state = "AuditPending"]
           l == IF q.kind = "set" THEN l0 ELSE marked
           pong == [type |-> "pong", to |-> Asker]
<1>1. n = Asker
  BY DEF runInitializationStage, OneEndAsks
<1>2. /\ QuietInv /\ AskerOK(l0, ga, txs[Asker], pinged[Asker]) /\ SameAudits(ga, gc)
      /\ (pong \in net => pinged[Asker])
  BY DEF OneSideInv, AskingOK, SharedOK
<1>3. /\ LogOK(ga) /\ k \in Nat \ {0} /\ Ends(txs) /\ Ends(line) /\ Ends(audits)
      /\ l0 \in Lines /\ l0.number = k /\ Asker \in Nodes
      /\ (l0.state = "Active" => Full(ga))
  BY <1>2, Sides, EndFacts
<1>4. /\ FreshUUIDs(Asker) # {} /\ l0.number < MaxAuditNumber /\ l0.state = "Active"
      /\ UNCHANGED <<cache, pinged, stored, receipt, reserved, payment>>
  BY <1>1 DEF runInitializationStage
<1>5. initializeAudit(Asker, t, l)
  <2>1. ~reserved[Asker]
    BY <1>2, <1>3 DEF QuietInv
  <2>2. QED BY <1>1, <2>1 DEF runInitializationStage
<1>6. Full(ga) /\ txs[Asker] = {} /\ ~pinged[Asker] /\ pong \notin net
  BY <1>2, <1>3, <1>4 DEF AskerOK
<1>7. QuietInv'
  BY <1>2, <1>4, QuietStays
<1>8. /\ t.id \notin UsedUUIDs /\ t.id # "none" /\ t.number = k + 1 /\ t.request = q
      /\ k + 1 \in 1..MaxAuditNumber /\ t.step = "pending"
  <2>1. k < MaxAuditNumber /\ MaxAuditNumber \in Nat
    BY <1>3, <1>4, ConstantTypes
  <2>2. t.id \notin UsedUUIDs /\ t.id # "none"
    BY <1>2, <1>4, FreshName
  <2>3. t.number = k + 1 /\ t.request = q /\ t.step = "pending"
    BY <1>3 DEF Transaction
  <2> HIDE DEF k, t
  <2>4. k + 1 \in 1..MaxAuditNumber
    BY <1>3, <2>1
  <2>5. QED BY <2>2, <2>3, <2>4
<1>9. /\ l \in Lines /\ l.incoming = l0.incoming /\ l.outgoing = l0.outgoing
      /\ (q.kind = "set" => l = l0)
  BY <1>3 DEF Lines, States
<1>10. CASE Refused(q, l) /\ line' = [line EXCEPT ![Asker] = l] /\ Stops(Asker, t)
            /\ UNCHANGED <<audits, net>>
  <2>1. l = l0
    BY <1>9, <1>10 DEF Refused, OneEndAsks
  <2>2. txs' = [txs EXCEPT ![Asker] = {}]
    BY <1>6, <1>10 DEF Stops
  <2>3. line' = [line EXCEPT ![Asker] = l0] /\ audits' = [audits EXCEPT ![Asker] = ga]
    BY <1>3, <1>10, <2>1, Same
  <2>4. Grows(ga, ga)
    BY <1>3, GrowsItself
  <2>5. AskingOK(l0, ga, {}, pinged'[Asker], net')
    BY <1>2, <1>4, <1>6, <1>10 DEF AskingOK, AskerOK
  <2>6. MessageFits(pong, ga, gc, {}) /\ Sends(pong) /\ GoOn({}) /\ UNCHANGED cache
    BY <1>4, <1>10 DEF MessageFits, Sends, GoOn
  <2> HIDE DEF pong, t, l, marked
  <2>7. QED BY <1>2, <1>3, <1>7, <2>2, <2>3, <2>4, <2>5, <2>6, AskerStep
<1>11. CASE t.number \in Numbers(ga)
  <2>1. k + 1 \in 1..k
    BY <1>3, <1>8, <1>11, NumbersOf
  <2> HIDE DEF k
  <2>2. QED BY <1>3, <2>1
<1>12. CASE SavesOwnPart(Asker, t, l)
  <2> DEFINE asked == [Requested(q, l) EXCEPT !.state = "AuditPending", !.number = k + 1]
             own == OwnTerms(k + 1, asked)
             u == [t EXCEPT !.step = "response", !.signed = own, !.sent = 1]
             half == [terms |-> own, full |-> FALSE]
             log == Append(ga, half)
             x == AuditMessage(Asker, u, asked)
  <2>1. /\ asked.state = "AuditPending" /\ asked.incoming = l0.incoming /\ own \in AllTerms
        /\ own.number = k + 1 /\ own.outgoing = asked.outgoing /\ own.incoming = asked.incoming
    <3>1. l \in Lines /\ l.incoming = l0.incoming /\ k + 1 \in 1..MaxAuditNumber
      BY <1>8, <1>9
    <3> DEFINE j == k + 1
    <3>2. j \in 1..MaxAuditNumber /\ own = OwnTerms(j, asked) /\ j = k + 1
      BY <3>1
    <3>3. asked = AskedLine(q, l, j)
      BY DEF AskedLine
    <3> HIDE DEF k, l, l0, j, asked, own
    <3>4. QED BY <3>1, <3>2, <3>3, AskedHalf
  <2>2. /\ line' = [line EXCEPT ![Asker] = asked] /\ audits' = [audits EXCEPT ![Asker] = log]
        /\ net' = net \cup {x} /\ Becomes(Asker, t, u)
    BY <1>8, <1>12 DEF SavesOwnPart
  <2>3. u.id = t.id /\ u.step = "response" /\ u.number = k + 1 /\ u.signed = own
    BY <1>8 DEF Transaction
  <2>4. half \in Audits /\ half.terms = own /\ ~half.full
    BY <2>1 DEF Audits
  <2> HIDE DEF asked, own, t, u, l, half
  <2>5. /\ LogOK(log) /\ Len(log) = k + 1 /\ Actual(log) = half
        /\ \A j \in 1..k : log[j] = ga[j]
    BY <1>3, <1>6, <2>1, <2>4, AppendLog
  <2>6. txs' = [txs EXCEPT ![Asker] = {u}]
    BY <1>6, <2>2 DEF Becomes
  <2> HIDE DEF log
  <2>7. ~Full(log) /\ LimitsOf(asked, log) /\ Actual(log).terms = own
    BY <2>1, <2>4, <2>5 DEF Full, LimitsOf
  <2>8. Grows(ga, log) /\ SameAudits(log, gc)
    <3> DEFINE k2 == Len(gc)
               k3 == Len(log)
    <3>1. k2 = k /\ k3 = k + 1 /\ \A j \in 1..k2 : Mirrored(ga[j].terms, gc[j].terms)
      BY <1>2, <1>6, <2>5 DEF SameAudits
    <3>2. \A j \in 1..k2 : Mirrored(log[j].terms, gc[j].terms)
      BY <2>5, <3>1
    <3> HIDE DEF k, k2, k3
    <3>3. k2 <= k3 /\ k3 <= k2 + 1 /\ k <= k3
      BY <1>3, <3>1
    <3>4. SameAudits(log, gc)
      BY <2>7, <3>2, <3>3 DEF SameAudits, k2, k3
    <3>5. Grows(ga, log)
      BY <2>5, <3>3 DEF Grows, k, k3
    <3>6. QED BY <3>4, <3>5
  <2>9. MessageFits(x, log, gc, {u})
    <3>1. u.number = Len(log) /\ u.id # "none"
      BY <1>8, <2>3, <2>5
    <3> HIDE DEF k
    <3>2. QED BY <1>2, <2>3, <2>5, <2>7, <3>1, AuditFits
  <2>10. AskingOK(asked, log, {u}, pinged'[Asker], net')
    <3>1. x # pong
      BY DEF AuditMessage
    <3>2. pong \notin net' /\ ~pinged'[Asker]
      BY <1>4, <1>6, <2>2, <3>1
    <3>3. u.id # "none" /\ u.number = Len(log)
      BY <1>8, <2>3, <2>5
    <3>4. asked.incoming = InitialTrust[Answerer]
      BY <1>2, <2>1 DEF AskerOK
    <3>5. AskerOK(asked, log, {u}, pinged'[Asker])
      BY <2>1, <2>3, <2>7, <3>2, <3>3, <3>4 DEF AskerOK
    <3>6. QED BY <3>2, <3>5 DEF AskingOK
  <2>11. GoOn({u}) /\ Sends(x) /\ UNCHANGED cache
    BY <1>4, <1>8, <2>2, <2>3 DEF GoOn, Sends
  <2> HIDE DEF x
  <2>12. QED
    BY <1>7, <2>2, <2>5, <2>6, <2>8, <2>9, <2>10, <2>11, AskerStep
<1>13. QED BY <1>5, <1>8, <1>10, <1>11, <1>12 DEF initializeAudit
\* A pong makes the asker go on with its pending audit.
LEMMA OneSideResumes ==
    ASSUME OneEndAsks, AuditInv, OneSideInv, ReceivePong(Asker)
    PROVE  OneSideInv'
<1> DEFINE ga == audits[Asker]
           gc == audits[Answerer]
           l0 == line[Asker]
           t == [Transaction(Asker, ResumedAudit, l0.number) EXCEPT !.resumes = TRUE]
           actual == Actual(ga)
           u == [t EXCEPT !.step = "response", !.signed = actual.terms, !.sent = 1]
           pong == [type |-> "pong", to |-> Asker]
           x == AuditMessage(Asker, u, l0)
<1>1. /\ QuietInv /\ AskerOK(l0, ga, txs[Asker], pinged[Asker]) /\ SameAudits(ga, gc)
      /\ (pong \in net => pinged[Asker])
  BY DEF OneSideInv, AskingOK, SharedOK
<1>2. /\ LogOK(ga) /\ Len(ga) \in Nat /\ Ends(txs) /\ Ends(line) /\ Ends(audits)
      /\ l0.number = Len(ga) /\ Asker \in Nodes /\ pinged \in [Nodes -> BOOLEAN]
  BY <1>1, Sides, EndFacts
<1>3. /\ pong \in net /\ pinged' = [pinged EXCEPT ![Asker] = FALSE]
      /\ UNCHANGED <<line, cache, audits, stored, receipt, reserved, payment>>
  BY DEF ReceivePong
<1>4. pinged[Asker] /\ txs[Asker] = {} /\ ~Full(ga) /\ ~pinged'[Asker]
  BY <1>1, <1>2, <1>3 DEF AskerOK
<1>5. QuietInv' /\ UNCHANGED cache
  BY <1>1, <1>3, QuietStays
<1>6. line' = [line EXCEPT ![Asker] = l0] /\ audits' = [audits EXCEPT ![Asker] = ga]
  BY <1>2, <1>3, Same
<1>7. Grows(ga, ga)
  BY <1>2, GrowsItself
<1>8. CASE UNCHANGED txs /\ net' = net \ {pong}
  <2>1. txs' = [txs EXCEPT ![Asker] = {}]
    BY <1>2, <1>4, <1>8, Same
  <2>2. AskingOK(l0, ga, {}, pinged'[Asker], net')
    BY <1>1, <1>4, <1>8 DEF AskingOK, AskerOK
  <2>3. MessageFits(pong, ga, gc, {}) /\ Sends(pong) /\ GoOn({})
    BY <1>8 DEF MessageFits, Sends, GoOn
  <2> HIDE DEF pong
  <2>4. QED BY <1>1, <1>2, <1>5, <1>6, <1>7, <2>1, <2>2, <2>3, AskerStep
<1>9. CASE /\ FreshUUIDs(Asker) # {} /\ net' = (net \ {pong}) \cup {x} /\ Becomes(Asker, t, u)
  <2>1. /\ u.id = Transaction(Asker, ResumedAudit, l0.number).id /\ u.step = "response"
        /\ u.number = l0.number /\ u.signed = actual.terms
    BY DEF Transaction
  <2>2. u.id \notin UsedUUIDs /\ u.id # "none"
    BY <1>1, <1>9, <2>1, FreshName
  <2>3. net' = (net \ {pong}) \cup {x} /\ Becomes(Asker, t, u) /\ x # pong
    BY <1>9 DEF AuditMessage
  <2> HIDE DEF t, u
  <2>4. txs' = [txs EXCEPT ![Asker] = {u}]
    BY <1>4, <2>3 DEF Becomes
  <2>5. LimitsOf(l0, ga)
    BY <1>1 DEF AskerOK
  <2>6. MessageFits(x, ga, gc, {u})
    BY <1>1, <1>2, <2>1, <2>2, <2>5, AuditFits
  <2>7. AskingOK(l0, ga, {u}, pinged'[Asker], net')
    BY <1>1, <1>2, <1>4, <2>1, <2>2, <2>3 DEF AskingOK, AskerOK
  <2>8. GoOn({u}) /\ Sends(x)
    BY <2>2, <2>3 DEF GoOn, Sends
  <2> HIDE DEF x, pong
  <2>9. QED BY <1>1, <1>2, <1>5, <1>6, <1>7, <2>4, <2>6, <2>7, <2>8, AskerStep
<1>10. ~reserved[Asker]
  BY <1>1, <1>2 DEF QuietInv
<1>11. QED BY <1>8, <1>9, <1>10 DEF ReceivePong

\* A line that is loaded has the limits of the last audit in the database.
LEMMA LoadedLimits ==
    ASSUME AuditInv, QuietInv, NEW n \in Nodes
    PROVE  /\ LimitsOf(Loaded(n), audits[n])
           /\ Loaded(n).state = IF Full(audits[n]) THEN "Active" ELSE "AuditPending"
<1> DEFINE log == audits[n]
           l == FromStorage(n, [line[n] EXCEPT !.state = stored[n]], log)
<1>1. line[n] \in Lines /\ stored[n] = "Active"
  BY EndFacts DEF QuietInv
<1>2. /\ l.outgoing = Actual(log).terms.outgoing /\ l.incoming = Actual(log).terms.incoming
      /\ l.state = "Active"
  BY <1>1 DEF FromStorage, Lines
<1>3. CASE Full(log)
  <2>1. Loaded(n) = l
    BY <1>3 DEF Loaded, Full
  <2> HIDE DEF l
  <2>2. QED BY <1>2, <1>3, <2>1 DEF LimitsOf
<1>4. CASE ~Full(log)
  <2>1. Loaded(n) = [l EXCEPT !.state = "AuditPending", !.balance = 0]
    BY <1>4 DEF Loaded, Full
  <2>2. /\ Loaded(n).state = "AuditPending" /\ Loaded(n).outgoing = l.outgoing
        /\ Loaded(n).incoming = l.incoming
    BY <1>1, <2>1 DEF FromStorage, Lines
  <2> HIDE DEF l
  <2>3. QED BY <1>2, <1>4, <2>2 DEF LimitsOf
<1>5. QED BY <1>3, <1>4

LEMMA RestartIsQuiet ==
    ASSUME AuditInv, QuietInv, NEW n \in Nodes, Restart(n), UNCHANGED cache
    PROVE  QuietInv'
<1>1. /\ reserved' = [reserved EXCEPT ![n] = reserved[n] /\ payment \in {"reserved", "voted"}]
      /\ payment' = IF payment = "reserving" /\ reserved[n] THEN "cancelled" ELSE payment
      /\ UNCHANGED <<stored, receipt>>
  BY DEF Restart
<1>2. Ends(reserved) /\ payment = "none" /\ \A m \in Nodes : ~reserved[m]
  BY DEF AuditInv, EndsInv, QuietInv
<1>3. payment' = "none" /\ \A m \in Nodes : ~reserved'[m]
  BY <1>1, <1>2 DEF Ends
<1>4. QED BY <1>1, <1>3 DEF QuietInv

LEMMA AskerRestarts ==
    ASSUME OneEndAsks, AuditInv, OneSideInv, Restart(Asker)
    PROVE  OneSideInv'
<1> DEFINE ga == audits[Asker]
           gc == audits[Answerer]
           l == Loaded(Asker)
           pong == [type |-> "pong", to |-> Asker]
<1>1. /\ QuietInv /\ AskerOK(line[Asker], ga, txs[Asker], pinged[Asker]) /\ SameAudits(ga, gc)
      /\ (pong \in net => pinged[Asker])
  BY DEF OneSideInv, AskingOK, SharedOK
<1>2. /\ LogOK(ga) /\ Len(ga) \in Nat /\ Ends(txs) /\ Ends(line) /\ Ends(audits) /\ Ends(cache)
      /\ Asker \in Nodes /\ pinged \in [Nodes -> BOOLEAN]
  BY <1>1, Sides, EndFacts
<1>3. /\ line' = [line EXCEPT ![Asker] = l] /\ txs' = [txs EXCEPT ![Asker] = {}]
      /\ cache' = [cache EXCEPT ![Asker] = NoAnswer]
      /\ pinged' = [pinged EXCEPT ![Asker] = ~Full(ga)] /\ UNCHANGED <<audits, net>>
  BY DEF Restart, Full
<1>4. UNCHANGED cache
  BY <1>1, <1>2, <1>3, Same DEF QuietInv
<1>5. QuietInv'
  BY <1>1, <1>2, <1>4, RestartIsQuiet
<1>6. /\ LimitsOf(l, ga) /\ l.state \in {"Active", "AuditPending"}
  BY <1>1, <1>2, LoadedLimits
<1>7. l.incoming = InitialTrust[Answerer]
  BY <1>1, <1>6 DEF AskerOK, LimitsOf
<1> HIDE DEF l
<1>8. pinged'[Asker] = ~Full(ga) /\ (pinged[Asker] => ~Full(ga))
  BY <1>1, <1>2, <1>3 DEF AskerOK
<1>9. AskingOK(l, ga, {}, pinged'[Asker], net')
  BY <1>1, <1>3, <1>6, <1>7, <1>8 DEF AskingOK, AskerOK
<1>10. audits' = [audits EXCEPT ![Asker] = ga] /\ Grows(ga, ga)
  BY <1>2, <1>3, Same, GrowsItself
<1>11. MessageFits(pong, ga, gc, {}) /\ Sends(pong) /\ GoOn({})
  BY <1>3 DEF MessageFits, Sends, GoOn
<1> HIDE DEF pong
<1>12. QED BY <1>1, <1>2, <1>3, <1>4, <1>5, <1>9, <1>10, <1>11, AskerStep

-----------------------------------------------------------------------------
(* The answerer, and the messages *)

\* A step of the answerer, or of the messages.
LEMMA AnswererStep ==
    ASSUME OneEndAsks, AuditInv, OneSideInv, QuietInv', NEW l, NEW log, NEW ca, NEW x,
           line' = [line EXCEPT ![Answerer] = l], audits' = [audits EXCEPT ![Answerer] = log],
           cache' = [cache EXCEPT ![Answerer] = ca], UNCHANGED txs,
           pinged'[Asker] = pinged[Asker], LogOK(log), Grows(audits[Answerer], log),
           SameAudits(audits[Asker], log), AnswererOK(l, log, {}),
           CacheFits(ca, log, txs[Asker]),
           Sends(x), MessageFits(x, audits[Asker], log, txs[Asker]),
           x = [type |-> "pong", to |-> Asker] => pinged[Asker]
    PROVE  OneSideInv'
<1> DEFINE ga == audits[Asker]
           gc == audits[Answerer]
           ts == txs[Asker]
           pong == [type |-> "pong", to |-> Asker]
<1>1. Asker \in Nodes /\ Answerer \in Nodes /\ Asker # Answerer
  BY Sides
<1>2. /\ QuietInv /\ SharedOK(ga, ts, gc, cache[Answerer], net)
      /\ AskerOK(line[Asker], ga, ts, pinged[Asker]) /\ (pong \in net => pinged[Asker])
      /\ txs[Answerer] = {}
  BY DEF OneSideInv, AskingOK, AnswererOK
<1>3. /\ Len(ga) \in Nat /\ Len(gc) \in Nat
      /\ Ends(line) /\ Ends(audits) /\ Ends(txs) /\ Ends(cache)
  BY <1>1, <1>2, EndFacts
<1>4. Len(log) \in Nat
  BY LastAudit
<1>5. /\ line'[Answerer] = l /\ audits'[Answerer] = log /\ cache'[Answerer] = ca
      /\ line'[Asker] = line[Asker] /\ audits'[Asker] = ga /\ txs'[Asker] = ts
      /\ txs'[Answerer] = {}
  BY <1>1, <1>2, <1>3 DEF Ends
<1>6. AskingOK(line[Asker], ga, ts, pinged'[Asker], net')
  BY <1>2 DEF AskingOK, Sends
<1> HIDE DEF ga, gc, ts
<1>7. Grows(ga, ga) /\ Grows(gc, log)
  BY <1>3, GrowsItself DEF gc
<1>8. ASSUME NEW m \in net PROVE MessageFits(m, ga, log, ts)
  <2>1. MessageFits(m, ga, gc, ts)
    BY <1>2 DEF SharedOK
  <2>2. m.type # "pong" => \A t \in ts : m.id = t.id => Continues(t, ts)
    BY DEF Continues
  <2>3. QED BY <1>3, <1>4, <1>7, <2>1, <2>2, MessageStillFits
<1>9. MessageFits(x, ga, log, ts) /\ SameAudits(ga, log) /\ CacheFits(ca, log, ts)
  BY DEF ga, ts
<1>10. SharedOK(ga, ts, log, ca, net')
  BY <1>8, <1>9 DEF SharedOK, Sends
<1>11. QED BY <1>5, <1>6, <1>10 DEF OneSideInv

\* Nothing but messages and the pings of an end changes.
LEMMA MessagesMove ==
    ASSUME OneEndAsks, AuditInv, OneSideInv, NEW n \in Nodes,
           Sends([type |-> "pong", to |-> n]), n = Asker => pinged[Asker] \/ net' \subseteq net,
           UNCHANGED <<line, txs, cache, audits, stored, receipt, reserved, payment>>,
           pinged'[Asker] = pinged[Asker]
    PROVE  OneSideInv'
<1> DEFINE pong == [type |-> "pong", to |-> n]
           stray == [type |-> "pong", to |-> Answerer]
           l == line[Answerer]
           gc == audits[Answerer]
           ca == cache[Answerer]
<1>1. /\ QuietInv /\ AnswererOK(l, gc, {}) /\ SameAudits(audits[Asker], gc)
      /\ CacheFits(ca, gc, txs[Asker])
  BY DEF OneSideInv, AnswererOK, SharedOK
<1>2. /\ Asker # Answerer /\ Answerer \in Nodes /\ LogOK(gc) /\ Len(gc) \in Nat
      /\ Ends(line) /\ Ends(audits) /\ Ends(cache)
  BY <1>1, Sides, EndFacts
<1>3. QuietInv'
  BY <1>1, QuietStays
<1>4. /\ line' = [line EXCEPT ![Answerer] = l] /\ audits' = [audits EXCEPT ![Answerer] = gc]
      /\ cache' = [cache EXCEPT ![Answerer] = ca] /\ UNCHANGED txs
  BY <1>2, Same
<1>5. Grows(gc, gc)
  BY <1>2, GrowsItself
<1>6. MessageFits(pong, audits[Asker], gc, txs[Asker])
      /\ MessageFits(stray, audits[Asker], gc, txs[Asker])
  BY DEF MessageFits
<1>7. stray # [type |-> "pong", to |-> Asker]
  BY <1>2
<1>8. \/ Sends(stray)
      \/ pong = [type |-> "pong", to |-> Asker] => pinged[Asker]
  <2>1. CASE net' \subseteq net
    BY <2>1 DEF Sends
  <2>2. CASE n # Asker
    BY <2>2
  <2>3. CASE pinged[Asker]
    BY <2>3
  <2>4. QED BY <2>1, <2>2, <2>3
<1>9. Sends(pong)
  OBVIOUS
<1> HIDE DEF pong, stray, l, gc, ca
<1>10. CASE Sends(stray)
  BY <1>1, <1>2, <1>3, <1>4, <1>5, <1>6, <1>7, <1>10, AnswererStep DEF l, gc, ca
<1>11. CASE pong = [type |-> "pong", to |-> Asker] => pinged[Asker]
  BY <1>1, <1>2, <1>3, <1>4, <1>5, <1>6, <1>9, <1>11, AnswererStep DEF l, gc, ca
<1>12. QED BY <1>8, <1>10, <1>11
LEMMA CacheLost ==
    ASSUME OneEndAsks, AuditInv, OneSideInv
    PROVE  CacheFits(NoAnswer, audits[Answerer], txs[Asker])
<1>1. \A t \in txs[Asker] : t.id # "none"
  BY WorkingOn
<1>2. QED BY <1>1 DEF CacheFits, NoAnswer

LEMMA AnswererForgets ==
    ASSUME OneEndAsks, AuditInv, OneSideInv, CacheExpires(Answerer)
    PROVE  OneSideInv'
<1> DEFINE l == line[Answerer]
           gc == audits[Answerer]
           stray == [type |-> "pong", to |-> Answerer]
<1>1. QuietInv /\ AnswererOK(l, gc, {}) /\ SameAudits(audits[Asker], gc)
  BY DEF OneSideInv, AnswererOK, SharedOK
<1>2. /\ Asker # Answerer /\ Answerer \in Nodes /\ LogOK(gc) /\ Len(gc) \in Nat
      /\ Ends(line) /\ Ends(audits) /\ Ends(cache)
  BY <1>1, Sides, EndFacts
<1>3. /\ cache' = [cache EXCEPT ![Answerer] = NoAnswer]
      /\ UNCHANGED <<line, txs, pinged, audits, stored, receipt, reserved, payment, net>>
  BY DEF CacheExpires
<1>4. QuietInv'
  BY <1>1, <1>2, <1>3 DEF QuietInv, Ends
<1>5. /\ line' = [line EXCEPT ![Answerer] = l] /\ audits' = [audits EXCEPT ![Answerer] = gc]
      /\ UNCHANGED txs /\ pinged'[Asker] = pinged[Asker]
  BY <1>2, <1>3, Same
<1>6. Grows(gc, gc) /\ CacheFits(NoAnswer, gc, txs[Asker])
  BY <1>2, GrowsItself, CacheLost
<1>7. /\ MessageFits(stray, audits[Asker], gc, txs[Asker]) /\ Sends(stray)
      /\ stray # [type |-> "pong", to |-> Asker]
  BY <1>2, <1>3 DEF MessageFits, Sends
<1> HIDE DEF stray, l
<1>8. QED BY <1>1, <1>2, <1>3, <1>4, <1>5, <1>6, <1>7, AnswererStep

LEMMA AnswererRestarts ==
    ASSUME OneEndAsks, AuditInv, OneSideInv, Restart(Answerer)
    PROVE  OneSideInv'
<1> DEFINE l == Loaded(Answerer)
           gc == audits[Answerer]
           stray == [type |-> "pong", to |-> Answerer]
<1>1. /\ QuietInv /\ AnswererOK(line[Answerer], gc, txs[Answerer])
      /\ SameAudits(audits[Asker], gc)
  BY DEF OneSideInv, SharedOK
<1>2. /\ Asker # Answerer /\ Asker \in Nodes /\ Answerer \in Nodes /\ LogOK(gc)
      /\ Len(gc) \in Nat /\ Ends(line) /\ Ends(audits) /\ Ends(cache) /\ Ends(txs)
      /\ (line[Answerer].state = "Active" => Full(gc)) /\ pinged \in [Nodes -> BOOLEAN]
  BY <1>1, Sides, EndFacts
<1>3. /\ line' = [line EXCEPT ![Answerer] = l] /\ txs' = [txs EXCEPT ![Answerer] = {}]
      /\ cache' = [cache EXCEPT ![Answerer] = NoAnswer]
      /\ pinged' = [pinged EXCEPT ![Answerer] = ~Full(gc)] /\ UNCHANGED <<audits, net>>
      /\ reserved' = [reserved EXCEPT ![Answerer] =
                        reserved[Answerer] /\ payment \in {"reserved", "voted"}]
      /\ payment' = IF payment = "reserving" /\ reserved[Answerer] THEN "cancelled" ELSE payment
      /\ UNCHANGED <<stored, receipt>>
  BY DEF Restart, Full
<1>4. QuietInv'
  <2>1. Ends(reserved) /\ payment = "none" /\ \A m \in Nodes : ~reserved[m]
    BY <1>1 DEF AuditInv, EndsInv, QuietInv
  <2>2. payment' = "none" /\ \A m \in Nodes : ~reserved'[m]
    BY <1>3, <2>1 DEF Ends
  <2>3. cache'[Asker] = NoAnswer
    BY <1>1, <1>2, <1>3 DEF Ends, QuietInv
  <2>4. QED BY <1>1, <1>3, <2>2, <2>3 DEF QuietInv
<1>5. txs' = txs /\ audits' = [audits EXCEPT ![Answerer] = gc]
  BY <1>1, <1>2, <1>3, Same DEF AnswererOK
<1>6. pinged'[Asker] = pinged[Asker]
  BY <1>2, <1>3
<1>7. AnswererOK(l, gc, {})
  <2>1. LimitsOf(l, gc) /\ l.state = "Active"
    BY <1>1, <1>2, LoadedLimits DEF AnswererOK
  <2> HIDE DEF l
  <2>2. QED BY <1>1, <2>1 DEF AnswererOK, LimitsOf
<1>8. Grows(gc, gc) /\ CacheFits(NoAnswer, gc, txs[Asker])
  BY <1>2, GrowsItself, CacheLost
<1>9. /\ MessageFits(stray, audits[Asker], gc, txs[Asker]) /\ Sends(stray)
      /\ stray # [type |-> "pong", to |-> Asker]
  BY <1>2, <1>3 DEF MessageFits, Sends
<1> HIDE DEF stray, l
<1>10. QED BY <1>1, <1>2, <1>3, <1>4, <1>5, <1>6, <1>7, <1>8, <1>9, AnswererStep

\* The answerer signs the audit that is next.
LEMMA SignsNext ==
    ASSUME OneEndAsks, AuditInv, OneSideInv, NEW m \in net, m.type = "audit",
           m.number = Len(audits[Answerer]) + 1
    PROVE  LET l       == line[Answerer]
               number  == l.number + 1
               adopted == Adopted(l, m)
               own     == OwnTerms(number, adopted)
               half    == [terms |-> own, full |-> TRUE]
               log     == Append(audits[Answerer], half)
               signed  == Completed([adopted EXCEPT !.number = number])
           IN  /\ m.signed = ContractorTerms(number, adopted)
               /\ LogOK(log) /\ Grows(audits[Answerer], log) /\ SameAudits(audits[Asker], log)
               /\ AnswererOK(signed, log, {})
               /\ own \in AllTerms /\ own.number = m.number /\ Signed(log, own)
<1> DEFINE ga == audits[Asker]
           gc == audits[Answerer]
           l == line[Answerer]
           k == Len(gc)
           ka == Len(ga)
           number == l.number + 1
           adopted == Adopted(l, m)
           own == OwnTerms(number, adopted)
           half == [terms |-> own, full |-> TRUE]
           log == Append(gc, half)
           numbered == [adopted EXCEPT !.number = number]
           signed == Completed(numbered)
<1>1. /\ QuietInv /\ AnswererOK(l, gc, {}) /\ SameAudits(ga, gc)
      /\ MessageFits(m, ga, gc, txs[Asker])
      /\ LimitsOf(line[Asker], ga) /\ line[Asker].incoming = InitialTrust[Answerer]
  BY DEF OneSideInv, AnswererOK, AskingOK, AskerOK, SharedOK
<1>2. /\ LogOK(gc) /\ k \in Nat \ {0} /\ l \in Lines /\ l.number = k /\ l.balance = 0
      /\ Full(gc) /\ Asker \in Nodes
      /\ InitialTrust[Answerer] \in Nat \ {0}
  BY <1>1, Sides, EndFacts DEF AnswererOK
<1>3. /\ LogOK(ga) /\ ka \in Nat \ {0} /\ Actual(ga).terms = ga[ka].terms
      /\ \A j \in 1..ka : ga[j].terms.balance = 0 /\ ga[j].terms \in AllTerms
  BY <1>1, <1>2, EndFacts
<1>4. /\ m.signed.number = m.number /\ m.number \in 1..ka /\ ga[m.number].terms = m.signed
      /\ m.outgoing = m.signed.outgoing /\ m.incoming = m.signed.incoming
  BY <1>1 DEF MessageFits, Signed
<1>5. k <= ka /\ ka <= k + 1 /\ \A j \in 1..k : Mirrored(ga[j].terms, gc[j].terms)
  BY <1>1 DEF SameAudits
<1>6. m.number = k + 1 /\ number = k + 1
  BY <1>2
<1>7. ka = k + 1 /\ m.number = ka /\ number = ka /\ k + 1 \in Nat
  <2> HIDE DEF k, ka, number
  <2>1. QED BY <1>2, <1>3, <1>4, <1>5, <1>6
<1>8. m.signed \in AllTerms /\ m.signed.balance = 0 /\ m.signed.number = number
  BY <1>3, <1>4, <1>7
<1>9. m.incoming = InitialTrust[Answerer] /\ m.incoming # 0
  BY <1>1, <1>2, <1>3, <1>4, <1>7 DEF LimitsOf
<1>10. /\ adopted.incoming = m.outgoing /\ adopted.outgoing = InitialTrust[Answerer]
       /\ adopted.balance = 0 /\ adopted.state = "Active" /\ adopted \in Lines
  <2>1. m.outgoing \in TrustAmounts
    BY <1>4, <1>8 DEF AllTerms
  <2>2. adopted = [l EXCEPT !.incoming = m.outgoing, !.outgoing = l.outgoing]
    BY <1>9 DEF Adopted
  <2> HIDE DEF adopted
  <2>3. QED BY <1>1, <1>2, <2>1, <2>2 DEF Lines, AnswererOK
<1> HIDE DEF number, adopted, k, ka
<1>11. m.signed = ContractorTerms(number, adopted)
  BY <1>4, <1>8, <1>9, <1>10, Expected
<1>12. number \in 1..MaxAuditNumber
  BY <1>8 DEF AllTerms
<1>13. /\ own \in AllTerms /\ own.number = number /\ own.outgoing = adopted.outgoing
       /\ own.incoming = adopted.incoming
  BY <1>10, <1>12 DEF OwnTerms, AllTerms, Lines
<1> HIDE DEF own
<1>14. half \in Audits /\ half.terms = own /\ half.full
  BY <1>13 DEF Audits
<1> HIDE DEF half
<1>15. /\ LogOK(log) /\ Len(log) = k + 1 /\ Actual(log) = half
       /\ \A j \in 1..k : log[j] = gc[j]
  BY <1>2, <1>7, <1>13, <1>14, AppendLog DEF k
<1>16. log[k + 1] = half
  BY <1>15 DEF Actual
<1> HIDE DEF log
<1>17. Mirrored(ga[ka].terms, own)
  BY <1>4, <1>7, <1>8, <1>9, <1>10, <1>13 DEF Mirrored
<1>18. SameAudits(ga, log)
  <2>1. \A j \in 1..(k + 1) : j \in 1..k \/ j = k + 1
    BY <1>2
  <2>2. \A j \in 1..(k + 1) : Mirrored(ga[j].terms, log[j].terms)
    BY <1>5, <1>7, <1>14, <1>15, <1>16, <1>17, <2>1
  <2>3. k + 1 <= ka /\ ka <= (k + 1) + 1 /\ ka = k + 1
    BY <1>3, <1>7
  <2>4. QED BY <1>15, <2>2, <2>3 DEF SameAudits, ka
<1>19. Grows(gc, log)
  <2>1. k <= k + 1
    BY <1>2
  <2>2. QED BY <1>15, <2>1 DEF Grows, k
<1>20. numbered \in Lines /\ numbered.outgoing = adopted.outgoing
       /\ numbered.incoming = adopted.incoming
  BY <1>10, <1>12 DEF Lines
<1> HIDE DEF numbered
<1>21. AnswererOK(signed, log, {})
  <2>1. /\ signed.state = "Active" /\ signed.outgoing = adopted.outgoing
        /\ signed.incoming = adopted.incoming
    BY <1>10, <1>20, LineInUse
  <2> HIDE DEF signed
  <2>2. QED BY <1>10, <1>13, <1>14, <1>15, <2>1 DEF AnswererOK, LimitsOf
<1>22. Signed(log, own)
  <2>1. k + 1 \in 1..(k + 1) /\ own.number = k + 1
    BY <1>2, <1>7, <1>13
  <2>2. QED BY <1>14, <1>15, <1>16, <2>1 DEF Signed
<1>23. own.number = m.number
  BY <1>7, <1>13
<1>24. QED
  BY <1>11, <1>13, <1>15, <1>18, <1>19, <1>21, <1>22, <1>23
     DEF number, adopted, own, half, log, numbered
\* The answerer signs an audit, answers it again, or refuses one that its asker
\* does not wait for any more.
LEMMA AnswererReceives ==
    ASSUME OneEndAsks, AuditInv, OneSideInv, NEW n \in Nodes, NEW m \in net, ReceiveAudit(n, m)
    PROVE  OneSideInv'
<1> DEFINE ga == audits[Asker]
           gc == audits[Answerer]
           l == line[Answerer]
           ca == cache[Answerer]
           ts == txs[Asker]
           k == Len(gc)
           ka == Len(ga)
           pong == [type |-> "pong", to |-> Asker]
           X(state, terms) == AuditResponse(Asker, m.id, state, terms)
<1>1. m.type = "audit" /\ m.to = n /\ UNCHANGED <<txs, pinged, receipt, reserved, payment>>
  BY DEF ReceiveAudit
<1>2. /\ QuietInv /\ AnswererOK(l, gc, {}) /\ SameAudits(ga, gc) /\ CacheFits(ca, gc, ts)
      /\ MessageFits(m, ga, gc, ts)
  BY DEF OneSideInv, AnswererOK, SharedOK
<1>3. /\ n = Answerer /\ m.id # "none" /\ m.number \in 1..ka
      /\ \A t \in ts : m.id = t.id => m.number = t.number
  BY <1>1, <1>2 DEF MessageFits, Signed
<1>4. /\ Asker # Answerer /\ Other(Answerer) = Asker /\ Asker \in Nodes /\ Answerer \in Nodes
      /\ LogOK(gc) /\ k \in Nat \ {0} /\ Ends(line) /\ Ends(audits) /\ Ends(cache)
      /\ l.number = k /\ l.state = "Active" /\ Full(gc) /\ stored \in [Nodes -> States]
      /\ Actual(gc).terms = gc[k].terms /\ gc[k].terms \in AllTerms /\ gc[k].terms.number = k
  <2>1. k \in Nat \ {0} /\ l.state = "Active"
    BY <1>2, Sides, EndFacts DEF AnswererOK
  <2>2. k \in 1..k
    BY <2>1
  <2>3. QED BY <1>2, <2>1, <2>2, Sides, EndFacts
<1>5. ka \in Nat \ {0} /\ k <= ka /\ ka <= k + 1
  BY <1>2, <1>4, EndFacts DEF SameAudits
<1>6. \A t \in ts : m.id = t.id => m.number = ka
  BY <1>3, WorkingOn
<1>7. /\ line = [line EXCEPT ![Answerer] = l] /\ audits = [audits EXCEPT ![Answerer] = gc]
      /\ cache = [cache EXCEPT ![Answerer] = ca] /\ Grows(gc, gc)
  BY <1>4, Same, GrowsItself
<1>8. \A state, terms : X(state, terms) # pong
  BY DEF AuditResponse
<1>9. ASSUME NEW state, NEW terms, Answer(Answerer, m, state, terms)
      PROVE  Sends(X(state, terms))
  BY <1>4, <1>9 DEF Answer, Sends
\* An agreement with what the answerer keeps, to whoever waits for it.
<1>10. ASSUME NEW log, NEW terms \in AllTerms, Signed(log, terms),
              \A t \in ts : m.id = t.id => terms.number = t.number
       PROVE  /\ MessageFits(X("OK", terms), ga, log, ts)
              /\ CacheFits([id |-> m.id, signed |-> terms], log, ts)
  BY <1>10 DEF MessageFits, CacheFits, AuditResponse
<1>11. ASSUME UNCHANGED <<stored, cache>> PROVE QuietInv'
  BY <1>1, <1>2, <1>11, QuietStays
<1>12. ASSUME NEW answer, cache' = [cache EXCEPT ![Answerer] = answer],
              \/ UNCHANGED stored
              \/ stored' = [stored EXCEPT ![Answerer] = "Active"]
       PROVE  QuietInv'
  <2>1. cache'[Asker] = NoAnswer
    BY <1>2, <1>4, <1>12 DEF QuietInv, Ends
  <2>2. \A x \in Nodes : stored'[x] = "Active"
    BY <1>2, <1>4, <1>12 DEF QuietInv
  <2>3. QED BY <1>1, <1>2, <2>1, <2>2 DEF QuietInv
<1>13. CASE /\ ca.id = m.id /\ Answer(Answerer, m, "OK", ca.signed)
            /\ UNCHANGED <<line, audits, stored, cache>>
  <2>1. /\ ca.signed \in AllTerms /\ Signed(gc, ca.signed)
        /\ \A t \in ts : m.id = t.id => ca.signed.number = t.number
    BY <1>2, <1>3, <1>13 DEF CacheFits
  <2>2. MessageFits(X("OK", ca.signed), ga, gc, ts) /\ Sends(X("OK", ca.signed)) /\ QuietInv'
    BY <1>9, <1>10, <1>11, <1>13, <2>1
  <2>3. /\ line' = [line EXCEPT ![Answerer] = l] /\ audits' = [audits EXCEPT ![Answerer] = gc]
        /\ cache' = [cache EXCEPT ![Answerer] = ca]
    BY <1>7, <1>13
  <2> DEFINE x == X("OK", ca.signed)
  <2>4. x # pong
    BY <1>8
  <2> HIDE DEF x, l, ca
  <2>5. QED BY <1>1, <1>2, <1>4, <1>7, <2>2, <2>3, <2>4, AnswererStep DEF x
<1>14. CASE AuditTarget(Answerer, m)
  <2>1. LineAfterCancel(Answerer) = l /\ AuditsAfterCancel(Answerer) = gc
    BY <1>4 DEF LineAfterCancel, AuditsAfterCancel, CancelsOwn, SuspendsOwn
  <2>2. Refusal(Answerer, m, l) = "OK" \/ m.number \notin {k, k + 1}
    BY <1>2, <1>4 DEF Refusal, QuietInv
  <2>3. CASE /\ Refusal(Answerer, m, l) # "OK"
             /\ line' = [line EXCEPT ![Answerer] = l] /\ audits' = [audits EXCEPT ![Answerer] = gc]
             /\ Answer(Answerer, m, Refusal(Answerer, m, l), <<>>)
             /\ UNCHANGED <<stored, cache>>
    <3> DEFINE state == Refusal(Answerer, m, l)
               x == X(state, <<>>)
    <3>1. \A t \in ts : m.id # t.id
      <4> HIDE DEF k, ka
      <4>1. ka = k \/ ka = k + 1
        BY <1>4, <1>5
      <4>2. m.number # ka
        BY <2>2, <2>3, <4>1
      <4>3. QED BY <1>6, <4>2
    <3>2. MessageFits(x, ga, gc, ts)
      BY <2>3, <3>1 DEF MessageFits, AuditResponse
    <3>3. Sends(x) /\ x # pong /\ QuietInv'
      BY <1>8, <1>9, <1>11, <2>3
    <3>4. /\ line' = [line EXCEPT ![Answerer] = l] /\ audits' = [audits EXCEPT ![Answerer] = gc]
          /\ cache' = [cache EXCEPT ![Answerer] = ca]
      BY <1>7, <2>3
    <3> HIDE DEF x, l, ca
    <3>5. QED BY <1>1, <1>2, <1>4, <1>7, <3>2, <3>3, <3>4, AnswererStep
  <2>4. CASE /\ m.number = k
             /\ line' = [line EXCEPT ![Answerer] = l] /\ audits' = [audits EXCEPT ![Answerer] = gc]
             /\ cache' = [cache EXCEPT ![Answerer] = [id |-> m.id, signed |-> Actual(gc).terms]]
             /\ Answer(Answerer, m, "OK", Actual(gc).terms) /\ UNCHANGED stored
    <3> DEFINE own == Actual(gc).terms
               x == X("OK", own)
               answer == [id |-> m.id, signed |-> own]
    <3>1. own \in AllTerms /\ own.number = k /\ own = gc[k].terms /\ k \in 1..k
      BY <1>4
    <3>2. Signed(gc, own) /\ \A t \in ts : m.id = t.id => own.number = t.number
      BY <1>3, <2>4, <3>1 DEF Signed
    <3>3. MessageFits(x, ga, gc, ts) /\ CacheFits(answer, gc, ts)
      BY <1>10, <3>1, <3>2
    <3>4. Sends(x) /\ x # pong /\ QuietInv'
      BY <1>8, <1>9, <1>12, <2>4
    <3>5. /\ line' = [line EXCEPT ![Answerer] = l] /\ audits' = [audits EXCEPT ![Answerer] = gc]
          /\ cache' = [cache EXCEPT ![Answerer] = answer]
      BY <2>4
    <3> HIDE DEF x, answer, l, own
    <3>6. QED BY <1>1, <1>2, <1>4, <1>7, <3>3, <3>4, <3>5, AnswererStep
  <2>5. CASE m.number = k + 1 /\ SignsAudit(Answerer, m, l, gc)
    <3> DEFINE number == l.number + 1
               adopted == Adopted(l, m)
               own == OwnTerms(number, adopted)
               log == Append(gc, [terms |-> own, full |-> TRUE])
               signed == Completed([adopted EXCEPT !.number = number])
               x == X("OK", own)
               answer == [id |-> m.id, signed |-> own]
    <3>1. /\ m.signed = ContractorTerms(number, adopted)
          /\ LogOK(log) /\ Grows(gc, log) /\ SameAudits(ga, log) /\ AnswererOK(signed, log, {})
          /\ own \in AllTerms /\ own.number = m.number /\ Signed(log, own)
      BY <1>1, <2>5, SignsNext
    <3>2. /\ line' = [line EXCEPT ![Answerer] = signed]
          /\ audits' = [audits EXCEPT ![Answerer] = log]
          /\ stored' = [stored EXCEPT ![Answerer] = signed.state]
          /\ cache' = [cache EXCEPT ![Answerer] = answer]
          /\ Answer(Answerer, m, "OK", own)
      BY <2>5, <3>1 DEF SignsAudit
    <3> HIDE DEF signed, own, log, adopted, number
    <3>3. \A t \in ts : m.id = t.id => own.number = t.number
      BY <1>3, <3>1
    <3>4. MessageFits(x, ga, log, ts) /\ CacheFits(answer, log, ts)
      BY <1>10, <3>1, <3>3
    <3>5. signed.state = "Active"
      BY <3>1 DEF AnswererOK
    <3>6. Sends(x) /\ x # pong /\ QuietInv'
      BY <1>8, <1>9, <1>12, <3>2, <3>5
    <3> HIDE DEF x, answer
    <3>7. QED BY <1>1, <3>1, <3>2, <3>4, <3>6, AnswererStep
  <2>6. Actual(gc).full /\ k # k + 1
    BY <1>4 DEF Full
  <2>7. QED
    BY <1>4, <1>14, <2>1, <2>3, <2>4, <2>5, <2>6 DEF AuditTarget
<1>15. QED BY <1>3, <1>4, <1>13, <1>14 DEF ReceiveAudit

-----------------------------------------------------------------------------
(* Every step, and the theorem *)

LEMMA InitOneSide ==
    ASSUME OneEndAsks, Init
    PROVE  OneSideInv
<1> DEFINE log(n) == <<[terms |-> First(n), full |-> TRUE]>>
<1>1. /\ Asker \in Nodes /\ Answerer \in Nodes /\ Asker # Answerer
      /\ Other(Asker) = Answerer /\ Other(Answerer) = Asker
  BY Sides
<1>2. ASSUME NEW n \in Nodes
      PROVE  /\ audits[n] = log(n) /\ txs[n] = {} /\ cache[n] = NoAnswer /\ ~pinged[n]
             /\ line[n].state = "Active" /\ line[n].outgoing = InitialTrust[n]
             /\ line[n].incoming = InitialTrust[Other(n)]
             /\ ~reserved[n] /\ receipt[n] = 0 /\ stored[n] = "Active"
  BY DEF Init, First
<1>3. net = {} /\ payment = "none"
  BY DEF Init
<1>4. QuietInv
  BY <1>1, <1>2, <1>3 DEF QuietInv
<1>5. ASSUME NEW n \in Nodes
      PROVE  /\ Len(log(n)) = 1 /\ Actual(log(n)).terms = First(n) /\ Full(log(n))
             /\ log(n)[1].terms = First(n) /\ LimitsOf(line[n], log(n))
  BY <1>2 DEF Actual, Full, LimitsOf, First
<1>6. Mirrored(First(Asker), First(Answerer))
  BY <1>1 DEF Mirrored, First
<1>7. SameAudits(log(Asker), log(Answerer))
  <2>1. 1 <= 1 /\ 1 <= 1 + 1 /\ \A j \in 1..1 : j = 1
    OBVIOUS
  <2>2. \A j \in 1..1 : Mirrored(log(Asker)[j].terms, log(Answerer)[j].terms)
    BY <1>1, <1>5, <1>6, <2>1
  <2>3. Len(log(Asker)) = 1 /\ Len(log(Answerer)) = 1
    BY <1>1, <1>5
  <2> HIDE DEF log
  <2>4. QED BY <2>1, <2>2, <2>3 DEF SameAudits
<1>8. LimitsOf(line[Asker], log(Asker)) /\ LimitsOf(line[Answerer], log(Answerer))
  BY <1>1, <1>5
<1> HIDE DEF log
<1>9. AnswererOK(line[Answerer], audits[Answerer], txs[Answerer])
  BY <1>1, <1>2, <1>8 DEF AnswererOK
<1>10. AskingOK(line[Asker], audits[Asker], txs[Asker], pinged[Asker], net)
  BY <1>1, <1>2, <1>3, <1>8 DEF AskingOK, AskerOK
<1>11. SharedOK(audits[Asker], txs[Asker], audits[Answerer], cache[Answerer], net)
  BY <1>1, <1>2, <1>3, <1>7 DEF SharedOK, CacheFits, NoAnswer
<1>12. QED BY <1>4, <1>9, <1>10, <1>11 DEF OneSideInv

LEMMA OneSideStep ==
    ASSUME OneEndAsks, AuditInv, OneSideInv, [Next]_vars
    PROVE  OneSideInv'
<1> DEFINE Pong(n) == [type |-> "pong", to |-> n]
<1>1. /\ QuietInv /\ AnswererOK(line[Answerer], audits[Answerer], txs[Answerer])
      /\ \A n \in Nodes : n = Asker \/ n = Answerer
      /\ Asker \in Nodes /\ Answerer \in Nodes /\ Asker # Answerer
      /\ pinged \in [Nodes -> BOOLEAN]
  BY Sides, EndFacts DEF OneSideInv
<1>2. ASSUME NEW n \in Nodes, NEW t \in txs[n],
             \/ runAuditPendingStage(n, t) \/ ResponseTimeout(n, t)
             \/ runContractorPendingStage(n, t)
             \/ \E m \in net : runResponseProcessingStage(n, t, m)
      PROVE  OneSideInv'
  <2>1. n = Asker
    BY <1>1, <1>2 DEF AnswererOK
  <2>2. t.step = "response"
    BY <2>1, WorkingOn
  <2>3. QED
    BY <1>2, <2>1, <2>2, OneSideTimeout, OneSideResponds
       DEF runAuditPendingStage, runContractorPendingStage
<1>3. ASSUME NEW n \in Nodes, Ping(n) PROVE OneSideInv'
  <2>1. /\ pinged[n] /\ Sends(Pong(n))
        /\ UNCHANGED <<line, txs, cache, pinged, audits, stored, receipt, reserved, payment>>
    BY <1>3 DEF Ping, Sends
  <2>2. QED BY <2>1, MessagesMove
<1>4. ASSUME NEW n \in Nodes, ReceivePong(n) PROVE OneSideInv'
  <2>1. CASE n = Asker
    BY <1>4, <2>1, OneSideResumes
  <2>2. CASE n = Answerer
    <3>1. line[n].state = "Active"
      BY <1>1, <2>2 DEF AnswererOK
    <3>2. /\ net' = net \ {Pong(n)} /\ UNCHANGED txs
          /\ pinged' = [pinged EXCEPT ![n] = FALSE]
          /\ UNCHANGED <<line, cache, audits, stored, receipt, reserved, payment>>
      BY <1>4, <3>1 DEF ReceivePong
    <3>3. Sends(Pong(n)) /\ pinged'[Asker] = pinged[Asker] /\ n # Asker
      BY <1>1, <2>2, <3>2 DEF Sends
    <3>4. QED BY <3>2, <3>3, MessagesMove
  <2>3. QED BY <1>1, <2>1, <2>2
<1>5. ASSUME NEW n \in Nodes, (\E m \in net : Discard(n, m) \/ Lose(m)) \/ UNCHANGED vars
      PROVE  OneSideInv'
  <2>1. /\ net' \subseteq net
        /\ UNCHANGED <<line, txs, cache, pinged, audits, stored, receipt, reserved, payment>>
    BY <1>5 DEF Discard, Lose, vars
  <2>2. Sends(Pong(n)) /\ pinged'[Asker] = pinged[Asker]
    BY <2>1 DEF Sends
  <2>3. QED BY <2>1, <2>2, MessagesMove
<1>6. ASSUME NEW n \in Nodes, CacheExpires(n) PROVE OneSideInv'
  <2>1. n # Asker
    BY <1>1, <1>6 DEF CacheExpires, QuietInv
  <2>2. QED BY <1>1, <1>6, <2>1, AnswererForgets
<1>7. ASSUME NEW n \in Nodes, Restart(n) PROVE OneSideInv'
  BY <1>1, <1>7, AskerRestarts, AnswererRestarts
<1>8. ASSUME (\E n \in Nodes : Finish(n)) \/ PayerReserves \/ PayeeReserves \/ Decide
      PROVE  OneSideInv'
  BY <1>1, <1>8 DEF Finish, PayerReserves, PayeeReserves, Decide, QuietInv, OneEndAsks
<1>9. CASE UNCHANGED vars
  BY <1>1, <1>5, <1>9
<1>10. CASE Next
  BY <1>1, <1>2, <1>3, <1>4, <1>5, <1>6, <1>7, <1>8, <1>10, OneSideStarts, AnswererReceives
     DEF Next
<1>11. QED BY <1>9, <1>10

\* One transaction at a time follows: a pong is under way only for an end that
\* has none.
LEMMA OneAtATime ==
    ASSUME OneEndAsks, OneSideInv
    PROVE  OneAudit
<1>1. AskerOK(line[Asker], audits[Asker], txs[Asker], pinged[Asker])
  BY DEF OneSideInv, AskingOK
<1>2. AnswererOK(line[Answerer], audits[Answerer], txs[Answerer])
  BY DEF OneSideInv
<1>3. \A n \in Nodes : n = Asker \/ n = Answerer
  BY Sides
<1>4. QED BY <1>1, <1>2, <1>3 DEF OneAudit, AskerOK, AnswererOK

LEMMA OneSideFacts ==
    ASSUME OneEndAsks, AuditInv, OneSideInv
    PROVE  NoConflict /\ LimitsAreAudited
<1>1. /\ AskerOK(line[Asker], audits[Asker], txs[Asker], pinged[Asker]) /\ QuietInv
      /\ AnswererOK(line[Answerer], audits[Answerer], txs[Answerer])
      /\ \A n \in Nodes : n = Asker \/ n = Answerer
  BY Sides DEF OneSideInv, AskingOK
<1>2. NoConflict
  BY <1>1 DEF NoConflict, AskerOK, AnswererOK
<1>3. ASSUME NEW n \in Nodes, line[n].state = "Active"
      PROVE  LET actual == Actual(FullAudits(n)).terms IN
             line[n].outgoing = actual.outgoing /\ line[n].incoming = actual.incoming
  <2>1. Full(audits[n]) /\ LimitsOf(line[n], audits[n])
    BY <1>1, <1>3, EndFacts DEF AskerOK, AnswererOK
  <2>2. FullAudits(n) = audits[n]
    BY <2>1 DEF FullAudits, Full
  <2>3. QED BY <2>1, <2>2 DEF LimitsOf
<1>4. LimitsAreAudited
  BY <1>3 DEF LimitsAreAudited
<1>5. QED BY <1>2, <1>4

LEMMA OneSideAlways ==
    ASSUME OneEndAsks
    PROVE  Spec => [](AuditInv /\ OneSideInv)
<1>1. Init => AuditInv /\ OneSideInv
  BY InitAuditInv, InitOneSide
<1>2. OneSideInv => OneAudit
  BY OneAtATime
<1>3. AuditInv /\ OneSideInv /\ [Next]_vars => OneSideInv'
  BY OneSideStep
<1>4. AuditInv /\ OneAudit /\ OneAudit' /\ [Next]_vars => AuditInv'
  BY AuditStep
<1>5. QED BY <1>1, <1>2, <1>3, <1>4, PTL DEF Spec

\* While one end asks for audits, no payment goes on, and the other end keeps the
\* limit it gives, neither comes into conflict: for any limits, attempts and
\* restarts of either end, and whatever is lost, repeated or late.
THEOREM OneSideHasNoConflict ==
    ASSUME OneEndAsks
    PROVE  Spec => []NoConflict
<1>1. AuditInv /\ OneSideInv => NoConflict
  BY OneSideFacts
<1>2. QED BY <1>1, OneSideAlways, PTL

\* On such a line, an end whose line is in use has the limits of the last audit
\* with both signatures.
THEOREM OneSideLimitsAreAudited ==
    ASSUME OneEndAsks
    PROVE  Spec => []LimitsAreAudited
<1>1. AuditInv /\ OneSideInv => LimitsAreAudited
  BY OneSideFacts
<1>2. QED BY <1>1, OneSideAlways, PTL

\* On such a line no end works on two audits at once: a premise of the theorems
\* about agreement that needs no assumption on delivery here.
THEOREM OneSideOneAudit ==
    ASSUME OneEndAsks
    PROVE  Spec => []OneAudit
<1>1. OneSideInv => OneAudit
  BY OneAtATime
<1>2. QED BY <1>1, OneSideAlways, PTL

=============================================================================
