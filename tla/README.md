# A TLA+ verification of the GEO network client

The GEO client (`src/src/core`, C++) is a node of a network of mutual credit.
Two neighbours share a *trust line* with a limit in each direction and a balance;
a payment moves value from a *coordinator* to a *receiver* over several paths of
trust lines, in one transaction that all the nodes on the paths vote for. No
node is trusted by all others. What the nodes rely on are signatures: on audits
(limits and balance of a trust line, signed by both ends), on receipts (what a
payment moves over one line) and on votes (a payment as a whole). If the nodes
of a payment lose touch after they voted, *observers*, a chain of blocks, decide.

This directory holds TLA+ modules for the core of that system, the TLC models
that check them, and proofs of their main properties that TLAPS checks.

| module | what it is | instances | proofs |
|---|---|---|---|
| `TrustLineLedger` | one trust line of one node: limits, balance, reservations, audits, receipts, database, restart | `TrustLineLedger*.cfg` | `TrustLineLedgerProofs` |
| `TrustLineAudit` | the audits of one trust line between its two ends: crossing audits, lost messages, restarts, a payment | `TrustLineAudit*.cfg`, `MCTrustLineAudit` | `TrustLineAuditProofs`, `AuditAgreementProofs` |
| `AgreedAudits` | what the audits of a line promise its ends; `TrustLineAudit` implements it | | |
| `Sums` | totals of amounts over a set of payments | | `SumsProofs` |
| `PaymentVoting` | the final stages of a payment: confirmation, voting, recovery, observers, crashes | `PaymentVoting*.cfg`, `MCPaymentVoting` | `PaymentVotingProofs` |
| `PaymentReservation` | the first stages of a payment: paths reserved hop by hop, final amounts, receipts | `PaymentReservation*.cfg`, `MCPaymentReservation` | `PaymentReservationProofs`, `PaymentPathsProofs` |
| `ObservingHandler` | a payment before the observers: claims, checks and votes against a chain of blocks, hosts that lag or fail, restarts | `ObservingHandler*.cfg` | `ObservingHandlerProofs` |
| `ObserversVerdict` | what nodes and observers together promise; `ObservingHandler` implements it | | |
| `ReservationList` | the list of reservations a payment holds on a node, and the operations on it | | |
| `AtomicCommit` | what a payment promises its nodes; `PaymentVoting` implements it | | |

To run them: `tlc -config X.cfg M` and `tlapm M.tla` in this directory;
`PROJECT.json` lists the runs, with the module and the configuration of each.


## 1. The system

A node is one process with one event loop. *Transactions* (objects derived from
`BaseTransaction`) are state machines: the scheduler calls `run` when a message
of a type the transaction waits for arrives, when its timeout expires, or when a
resource it asked for is there. A call of `run` is a handler: no other handler
of the node runs before it returns. All transactions share the `TrustLinesManager`
of their equivalent (currency), and SQLite tables through `StorageHandler`.

### Components

**Trust line ledger and reservations** (`trust_lines/`, `payments/reservations/`).
State: for each contractor the line's state, incoming and outgoing limit, balance,
audit number; for each contractor a list of reservations (transaction, amount,
direction). Operations: reserve, shorten and drop a reservation, `useReservation`
(the balance moves), set a limit, load from and save to the database. Used by every
payment and audit of the node in turn. Correct if reservations never exceed what
the line can carry, a reservation once granted can be used, and the balance is
what payments moved.

**Audit transactions** (`transactions/trust_lines/`: `SetOutgoingTrustLine`,
`CloseIncomingTrustLine`, `AuditSource`, `AuditTarget`). Both ends agree on new
limits and on the balance, sign them, and start a new list of receipts. The
source waits until no payment holds a reservation, saves its half (the *pending
audit*), sends it, and completes it with the contractor's signature. Hard: both
ends may start; payments are under way; a crash leaves a pending audit; the retry
comes with the next ping. Correct if an audit never changes a limit under a
reservation, never loses or repeats what a payment moved, and ends.

**Receipts, audits and keychain** (`crypto/`). Stores and checks the signed data;
computes what the receipts of decided payments add up to. Correct if the balance
computed from the last full audit and the receipts that count is the one in memory.

**Payments** (`transactions/regular/payments/`: coordinator, intermediate node,
receiver, and their base). The coordinator reserves one path after another, hop
by hop, until the amount is collected; sends the final configuration; collects
public keys and sends them to all; collects a vote of each node; signs; sends
all votes back; commits. A participant that has voted and hears nothing asks the
others for the votes (recovery), a few times, and then the observers.
Hard: messages are lost, late and repeated; timeouts race answers; nodes crash
between stages; the last handler of the coordinator writes the database twice.
Correct if all nodes decide alike and for good, no voted payment is simply
cancelled, every node decides in the end, and both ends of each line on the way
move the same amount.

**Observing** (`observing/`). Claims payments before the observers, brings them
the votes when somebody else claimed, and lets the payment commit, or reject when
the last block for the claim passes without votes. Hard: the block is a race.

**Transactions manager** (`transactions/manager/`). Routes commands and messages,
starts transactions, and at start-up restores the serialized payments. Correct if
what is restored continues where it was.

**Transactions scheduler** (`transactions/scheduler/`). One handler at a time,
messages by type and transaction, timeouts. The modules take it as it is: that
is what makes a handler one action. A message that no transaction waits for is
dropped (`Discard` of `TrustLineAudit`, and the guards on types in `PaymentReservation`).

**Communicator** (`network/communicator/`). UDP: messages get lost. Audits are sent again
by their own transaction; `ConfirmationResponseMessagesHandler` keeps the last answer to a
contractor and repeats it for a message of the same transaction; `PingMessagesHandler`
sends pings to a contractor that did not answer, and its pong resumes the audit. The queue
of messages that need a confirmation carries only notifications of gateways.

**Cycle closing** (`CycleCloser*`, `cycles/`). Finds cycles of debts after a
payment and closes them with a payment of three to six nodes that follows the
same stages.

**Opening, key sharing, reset, conflict resolution** (`transactions/trust_lines/`).
Bring a line into use, renew its keys, repair it after a disagreement.

**Topology, maximum flow, path building** (`topology/`, `paths/`): propose paths
with their flow. **Storage** (`io/storage/`), **commands, events, contractors,
equivalents** and the rest are wiring.

### What is hard to test here

`PROJECT.json` lists each hazard at its line, with the properties that would catch
it. Most of them are of these kinds:

* several payments and audits meet on one line, between each other's messages;
* a crash between two database writes, or between a vote and its commit, and what
  the restart makes of the tables it finds;
* votes, status requests and answers that are lost, repeated or of an old attempt;
* a timeout that fires while the answer is on its way, in particular the last
  block for a claim;
* limits on attempts: the audit's pending attempts, the coordinator's resends, the
  recovery attempts.


## 2. `TrustLineLedger`: one trust line of one node

*State.* `state`, `incoming`, `outgoing`, `balance` are the fields of `TrustLine`;
`reserved[t]` is what payment `t` holds of it in `AmountReservationsHandler`;
`phase[t]` is the stage of the payment's transaction; `auditTx` is the own audit
transaction (waiting for reservations to go, or sent). The database: `storedState`
(the `trust_lines` table; limits and balance are not in it), `fullAudit` and
`pendingAudit` (the `audit` table: the last audit signed by both, and the own half
of a new one), `receipt[t]` (receipts under the current audit number),
`record[t]` (the serialized transaction and its reservations), `paid` (the
`payment_transactions` table). `halted`: the process ended with `exit(1)`.
`settled` is a ghost: what each payment has moved.

*Actions.* One per handler as far as it touches the line.

| action | code |
|---|---|
| `Reserve`, `Shorten` | `reserveOutgoingAmount`, `reserveIncomingAmount`, `shortageReservation` |
| `SaveReceipt`, `Vote`, `CoordinatorSigns` | the final configuration, `runVotesCheckingStage`, the coordinator's last vote |
| `Commit`, `RejectBeforeVote`, `RejectAfterVote` | `approve` and `commit`, `reject`, the observers' decision |
| `StartAudit`, `ContinueWaitingAudit` | `runInitializationStage`, `runAuditPendingStage` |
| `AuditAccepted`, `AuditRefused`, `AuditUnanswered`, `NextAuditAttempt` | the answers, the timeout, the retry after a ping |
| `AuditTarget` | `AuditTargetTransaction::run` |
| `CrashAndRestart` | `loadTrustLinesFromStorage`, `loadTransactionsFromStorage` |

The coordinator signs and commits in one handler but in two database transactions.
The step `CoordinatorSigns` is the first of them; while a payment is `"signed"`
no other action of the node is enabled (`InsideCoordinator`), only its commit or
a crash.

*Restart.* The balance in memory is 0 while an audit is pending; otherwise it is
the balance of the last full audit plus the receipts of payments that have a
payment record and are not serialized (`StoredBalance`). Serialized payments
reserve again; if the line refuses, the process exits (`RestoreSucceeds`).

*Abstractions.* The contractor's messages are inputs: an audit message is good,
badly signed or of the wrong number. All reservations a payment holds on the line
have one direction and are kept as their total: paths are simple, and a node
is entered and left over different lines. One own audit transaction exists at a
time; an answer that comes after the own half was dropped ends the transaction
(`AuditAccepted` and `AuditRefused` ask for a pending audit; the code may also go into
conflict there, which `TrustLineAudit` has).
`ConflictResolving` is the end of the line's life here: the resolver is not
modelled. Opening the line, its keys and its first audit are not modelled: the
line starts as `loadTrustLinesFromStorage` finds one that is in use: active, with a complete
audit, limits not both zero, and no balance. `AuditAccepted` of
`TrustLineLedger` covers the response handlers of the three audit transactions;
they differ in which states they store, which the action keeps.

### Runs

| run | question | distinct states |
|---|---|---|
| `ledger` | everything below, with limits 0 and 2, reservations of 1 and 2, three payments, badly signed audits | 1,328,307 |
| `ledger_restore` | can a restart always restore what was serialized? No: finding 1 | |

Properties: `ReservedWithinLimits`, `CommitNeverOverflows` (what was reserved can
be used), `BalanceIsHistory` (no money appears or is lost), `MemoryMatchesStorage`
(a restart would compute the balance there is), `PendingAuditFreezesPayments`,
`RestartHaltsOnlyAfterConflict`, `LimitsFixedWhileReserved` and
`StrandedOnlyByEmptyRequest` (a request to close what is closed throws after the
state was set to `AuditPending`; nothing but a restart or the contractor's audit
takes the line out of it).

*Bounds.* Three payments, two outgoing (one of them coordinated here) and one
incoming: two compete for one direction, and one gives back what they need, so
balances of both signs, zero, and at the limit occur. Amounts 1 and 2 against
limits 0 and 2: a request fits alone and not with another, and one payment can use a
line twice (two paths). Two pending attempts: the boundary is reached. Audits, badly
signed ones and those of the wrong number among them, and crashes are not bounded. The
proofs below need none of these bounds.

A badly signed audit leaves its limits in memory, and payments reserve and vote under them;
the database keeps the limits both ends signed. `LimitsFixedWhileReserved` and
`RestartHaltsOnlyAfterConflict` say what that can lead to, and that it can lead to nothing
else: a restart takes the limits back under a voted payment, and when the payment does not
fit in them any more, the process exits. With good signatures there is no such case
(`LimitsStand`, `HonestHaltsOnlyAfterConflict` in section 7). `ledger_restore` has good
signatures only, so that what it finds is due to the audit's attempts.

`CHECK_DEADLOCK FALSE`: a line may be archived, in conflict, or its process halted.


## 3. `PaymentVoting`: from the final configuration to the decision

*State.* `phase[n]` is the stage of node `n` (its `mStep`, and after the
transaction ended, its outcome); `up[n]`; the coordinator's `collected` and
`resends`; for a participant in recovery, whom it `asked`, who is left `toAsk`,
and the `attempts`; the database: `signed` (`payment_transactions`) and `saved`
(the votes). `msgs` holds every message ever sent. `claimed`, `published` and
`deadline` are what the observers know of the payment.

*Messages* stay in `msgs` and nobody has to receive them: a message may be lost,
delayed, repeated, and overtake others. Timeouts are enabled at any time.

*Actions.* `CoordinatorStep`: keys out, votes in, keys again, signature,
announcement, commit, or reject. `ParticipantStep`: confirm or refuse, vote or
refuse, give up before the vote, receive the votes, start recovery, ask the
coordinator, then the others, count the attempt. `Answers`: the
`VotesStatusResponsePaymentTransaction` of any node. `ObservingStep`: claim, commit
or reject on the observers' word, publish the votes. `DeadlinePasses`. `Crash` and
`Restart`: `PhaseFromDisk` says what the restart makes of a node: a participant
that signed goes to recovery, a coordinator that signed has committed (its
receipts count), and everybody else has forgotten the payment.

*Parameters that name assumptions.* `CrashInApprove`: the coordinator may crash
between its signature and its commit. `StorageMayFail`: its commit may throw.
`TimelyObservers`: the last block for a claim comes only when every node has
decided or claimed and the votes somebody keeps have been published. The code
does not enforce that: it is what the constants are chosen for (20 blocks, against
recovery of a few minutes). With `TimelyObservers = FALSE` the block comes any time.
Section 6 has the blocks and the timers that stand behind it.

*Abstractions.* Signatures are valid; a list of votes is complete or empty; the
participants' exchange of key hashes and receipts before `Accept` is one step; a
node confirms or refuses for reasons the model does not look at. As in the code, `resends`
starts at 1.

### Runs

| run | question | distinct states |
|---|---|---|
| `voting` | safety, that the protocol implements `AtomicCommit`, and that every node that has signed decides: two participants, two crashes, one resend, two recovery attempts | 228,198 |
| `voting_faults` | the block at any time, two crashes, also of a coordinator inside its last handler, and a database that refuses its commit: who may disagree, and when? | 235,642 |
| `voting_crash_in_approve` | finding 2 | |

*Bounds.* With two participants, one can commit while the other is cut off, and
each can recover from the coordinator or from the other. `AgreementAlways` is proved for
any number. Two attempts and one resend (in `voting`) reach both sides of each limit. Two
crashes hit two nodes, or one node twice, for instance in recovery and again
after it. In `voting_faults` the participants are interchangeable (`MCPaymentVoting`).
The proofs below need none of these bounds.

*Fairness* (`voting`, for `VotedIsDecided`). `WF` on the steps of each node: the event
loop runs what is due, and timers fire. `WF` on `Restart`: a node that crashed is
started again, at most `MaxCrashes` times. `WF` on the observing steps and on
`DeadlinePasses`: the handler polls the observers by timer, and blocks keep
coming. Nothing is assumed of messages between nodes: the property holds if all
of them are lost.

`CHECK_DEADLOCK FALSE`: a payment ends.


## 4. `PaymentReservation`: from the command to the vote

*State.* `co` is the coordinator's transaction: its stage, the paths by their ID
(`mPathsStats`) and the queue of those to try (`mPathIDs`), what it reserved for each
(`own`), the flow of the current path and the position on it, the nodes' final
configurations, participants, confirmations, and the counters of inaccessible receivers
and rebuilt paths. `tx[n]` is the transaction of an intermediate node or of the receiver:
its stage, the types of messages it waits for (`resultWaitForMessageTypes`; a message of
another type does not reach it), whether it knows the coordinator, whether it has asked
it (`mTTLRequestWasSend`), the list of reservations, and, from the final configuration on,
participants, hashes and receipts. `ReservationList` has the operations on the list, with
their order: an entry that is shortened goes to the end, and the path's ID is passed by
reference to the list that changes (`IdAfterErasing`).

*Messages* are received at most once, at any time, or never; they overtake each other.
A timer fires at any time. A node refuses at any request, as its line may be closed,
without keys, or full. The amount a line can still carry is any amount up to the request:
`TrustLineLedger` says what it is in the code.

| actions | code |
|---|---|
| `Start`, `ReceiverAnswers`, `ReserveOwn`, `NeighbourAnswers`, `RemoteAnswers`, `DirectAnswers` and their `...Silent` | the coordinator's stages up to the last path |
| `RebuildPaths`, `NoMorePaths` | `tryProcessNextPath`, `buildPathsAgain` |
| `SendFinalConfiguration`, `NoBlockNumber`, `NodeConfirms`, `NotAllConfirm`, `AnswerTTL` | final amounts, confirmations, questions whether the payment goes on |
| `ReceiveInit`, `ReceiveRequest`, `ReceiveExtend`, `ReceiveAnswer`, `ReceiveFinalPath`, and refusals | the nodes' reservation stages |
| `TimerFires`, `ReceiveTTLAnswer`, `DurationOver` | `runReservationProlongationStage` and its like |
| `ReceiveFinal`, `LearnBlockNumber`, `ReceiveHash`, `ReceiveKeys` | final configuration, block number, hashes with receipts, the keys that open the vote |

*Parameters that name assumptions.* `TimelyRequests`: a request for a path is received
only while the coordinator still works on that path. The code's timeouts are chosen for
that and cannot enforce it. Without it the receiver still takes a request after the final
configuration (`ReceiverPaymentTransaction.cpp:371`, with a note there to ignore it), replaces
its reservations by those of the request's list, and may confirm other amounts than its
receipts are for: `FinalReservationsStay` does not hold. So the run `reservation`, where
`TimelyRequests` is `TRUE`, says nothing of such a request. `BlockNumberMissing`:
the coordinator may not learn the block number. The run `reservation` allows it;
`reservation_liveness` does not, because with it `ReservationsReleased`
does not hold: a coordinator in that case ends with `resultUnexpectedError`
(`CoordinatorPaymentTransaction.cpp:1257`) without the `rollBack` that a reject has. `MaxMishaps` bounds timeouts
and refusals together; 0 is no bound.

`RebuiltPaths`: what `buildPathsAgain` may find, several paths at a time, is any set, less the
lists with a node that did not answer (`co.inaccessible`). The search also avoids the trust
lines that were refused and what the paths that are fixed already use
(`mRejectedTrustLines`, `addUsedAmount`); what it finds then is the choice from the set.

*Abstractions.* Nodes follow the protocol, signatures and keys are good. A receipt is its
amount. Block numbers agree or not. The pause of `switchToNextPath` is left out: messages
may be late anyway. A node that dereferences an unknown coordinator crashes, and has no
transaction then. What `PaymentVoting` models as `Accept` is here the whole exchange of
hashes and receipts; what it models after the keys is not in this module.

### Runs

| run | question | distinct states |
|---|---|---|
| `reservation` | do all nodes hold the same when the vote opens? Amount 2, nodes A and B, paths over A and B and over A alone, a path over B and A found later, one mishap | 429,051 |
| `reservation_liveness` | is everything released that is not voted on? A direct path and one over A, any mishaps, requests at any time | 268,174 |

Properties: `PathsAreReserved` (when the vote opens every node that is still in the
payment holds the coordinator's amount of each path, in and out, and nothing else, and
all is the amount of the command), `ReceiptsCoverReservations`, `FinalReservationsStay`
(what has a receipt does not change any more), `PathsKeptApart`, `ReservationsReleased`.
The protocol checks things more than once: the receiver counts its own total, receipts
are compared on both ends, the final configuration lists every path, incoming and outgoing
are compared. No receiver of the run comes to reject and goes on to the vote all the same
(`ReceiverPaymentTransaction.cpp:770`); `FinalReservationsDropped` in section 7 covers it.
Many single faults are masked by another check and end in a refusal.

*Bounds.* Two intermediate nodes used in either order, on two paths that share the
coordinator's line to A, with amount 2: paths that carry 1 and 1, that are shortened
midway, that share a node, that fail and whose ID is used again. The one mishap can be at
any place: it makes a path fail and another take its place, or the whole payment end.
Two mishaps need more states than a run of minutes has. The liveness run has no such
bound, in a smaller network.

*Fairness* (`reservation_liveness`). `WF` on what the coordinator
does by itself, on its timeouts, and on the timeouts of each node: timers fire. Nothing
is assumed of messages: all of them may be lost.

`CHECK_DEADLOCK FALSE`: a payment ends.


## 5. `TrustLineAudit`: the audits of a line between its two ends

*State.* `line[n]` is the `TrustLine` of end `n` (state, audit number, limits, balance).
`txs[n]` are its audit transactions that wait for something: `"pending"` for own
reservations to go, `"response"` for the contractor's answer, `"contractorPending"` to ask
a contractor with reservations again; a transaction started by a pong `resumes` an audit.
`cache[n]` is the last answer the `Communicator` can repeat, `pinged[n]` whether pings go
to the contractor. The database: `audits[n]`, the audits of the line, of which the last may
lack the contractor's signature; `stored[n]`, the line's state; `receipt[n]`, the audit
number the payment's receipt is under. `reserved` and `payment` are a payment of one unit
from end to end. `net` are the messages under way.

A signature is the terms it signs: number, both limits, balance, as seen from the signer.
What an end checks is then what the code checks: that the terms its contractor signed are
its own, mirrored.

| action | code |
|---|---|
| `runInitializationStage` | the stage of that name of `SetOutgoing`, `CloseIncoming`, `AuditSource`, with `initializeAudit` |
| `runAuditPendingStage`, `nextAttemptAudit` | the own reservations are looked at again; a pending audit is sent again |
| `ResponseTimeout`, `runResponseProcessingStage`, `ContractorIsBusy`, `runContractorPendingStage` | `runResponseProcessingStage` with and without an answer |
| `Ping`, `ReceivePong` | `PingMessagesHandler`, `PongReactionTransaction`, `runNextAttemptStage` |
| `ReceiveAudit` with `AuditTarget`, `Refusal`, `SignsAudit` | the `Communicator`'s cached answer, the routing of a crossing audit, `AuditTargetTransaction::run` |
| `CacheExpires`, `Discard`, `Lose` | clean-up of answers, messages nobody waits for, UDP |
| `PayerReserves`, `PayeeReserves`, `Decide`, `Finish` | what a payment does to the line |
| `Restart` | `loadTrustLinesFromStorage`; pings to contractors of pending audits |

*Messages* stay in `net` until received, overtake each other, and get lost at any moment.
A message is sent again as a copy of its own, so that an audit can arrive twice.

*Abstractions.* A transaction is constructed and run at once. Keys suffice, signatures are
good, and a write fails only where the audit number is taken. The first audit exists: the
states `Init` and `Reset` are left out, and gateways, too. A line in conflict stays there.
The UUIDs of transactions come from a small set for each end; one that is not referred to
any more, by a transaction, a message or a cached answer, is used again.

### Runs

| run | question | distinct states |
|---|---|---|
| `audit` | one end raises and lowers its limit and audits, either end restarts: no conflict, no limit without a signature, every audit is completed | 24,874 |
| `audit_crossing` | both ends start audits, a payment crosses them: do the balances mirror each other, does what both signed stay, does no end wait for nothing? | 496,932 |
| `audit_restart` | finding 4 | |

`NoConflict` says that no loss, repetition, delay or restart makes an end refuse for good
what the other one wants. It is a property of the requests of `audit`, in which one end
asks and the line stays in use; it does not hold in general, and the module does not claim
it. An audit that empties the line archives it at the contractor; if the answer is lost,
the contractor refuses the audit that is sent again (`AuditTargetTransaction.cpp:92`), and
the initiator goes into conflict. Conflicts also occur when both ends ask, and when a payment
outlasts the pending attempts.

`LimitsAreAudited`: the contractor takes over the limits of an audit before it looks at
the signature, and keeps them if it refuses. With one initiator and no payment it never
refuses so, and the property is about loss, repetition and restarts. With crossing audits
and a payment it does refuse, and the property does not hold; what the limits of a refused
audit do to payments is a question to the run `ledger`.

`PendingIsOpen` has an exception: a request for what the line has already throws. Closing does
so after the state was set to `AuditPending`, setting a limit of 0 after it waited in that state
for reservations. `StrandedOnlyByEmptyRequest` of the ledger is about it.

With one UUID for each end (`OneEach`), an end starts no transaction while its last one is alive
or remembered. Nothing in the code says so; see `OneAudit` in section 7 for what a second one
of the same end can do.

`ActiveEndsAgree` compares the ends when both use the line and neither is about to move its
balance. `ImplementsAgreedAudits` is the refinement: the audits with both signatures form one
sequence, of which one end may miss the last, and none is replaced. The end that drops its
own audit for a crossing one may do so only while the contractor has not signed it.

`PendingIsResolved`: an audit that was started comes to an end, by the answers, or by the
pings after the attempts.

*Bounds.* Audit numbers up to 3: two audits after the first, so that an old one can be
repeated while the next is under way. The end that gives no limit asks, and the other gives
a limit of 1, so that a payment of 1 by the former fits, once. Requests raise a limit to 2,
lower it to 0 (in `audit`, where the other limit keeps the line in use), close the other
side (in `audit_crossing`), or are a plain audit. Two attempts in `audit`, so that the same
transaction is repeated and answered from the cache; one in the others, where audits cross.
One restart in `audit`, of either end, at any moment. `kMaxPendingAttempts` is 1: a wait for
one period, and the conflict after it.

Branches that no run takes, or only in part: the failing write of a taken audit number in
`initializeAudit`, a number not in the database at an answer, a further period of
waiting within `kMaxPendingAttempts`. They are there because the code has them.

*Fairness* (`audit` only). `WF` on the timers of each end's transactions, on pings while the
contractor is in the list, on the expiry of a cached answer, on dropping what nobody waits
for, and on the payment's end: the event loop does what is due. `SF` on receiving a pong, on
receiving an audit while its transaction waits for the answer, and on receiving that answer:
a message that is sent again and again gets through at last. Without that the
line stays `AuditPending` as long as the contractor is not reached. Nothing is assumed of
restarts or of new audits.

`CHECK_DEADLOCK FALSE`: nobody has to ask for an audit.


## 6. `ObservingHandler`: a payment before the observers

The payment has been voted: the coordinator has committed, or given up, and each
participant waits for the votes. A coordinator that gave up has no payment record here; one
whose commit threw, or that crashed before it, does have one and is in `voting_faults` and
`voting_crash_in_approve`.

*State.* `stage[n]` is the payment at node `n`: voted (in time or in recovery), observing,
restarted (deserialized in the stage of being observed), uncertain, about to commit or to
reject in a transaction the handler launched, and decided. `serialized[n]` and `recorded[n]`
are the database: the serialized transaction, and `observing_state` of the payment's record.
`claims[n]`, `due[n]`, `checked[n]`, `checkIn[n]` are `mClaims`, `mCheckedTransactions` and
their timers. The observers are outside the repository and taken as the handler uses them:
`block` and `chain` (the last block; those with the claim and the votes), `pool` (what comes
into the next), `seen` (the block each host knows).

*Hosts.* A request may fail at a host that is not in `Reliable`; such a host may lag, too.
While a node is `offline` any of its requests may fail. Hosts are asked in order; one that
fails, or does not know of the payment, is passed over (`Answering`, `NoneAnswers`).

| action | code |
|---|---|
| `runObservingStage`, `ClaimsAfterRestart` | the stages of the transaction with `sendClaimRequestToObservers` |
| `sendClaimAgain`, `performOneClaim` | the same, with `getParticipantsVotes`, and the signals to `TransactionsManager` |
| `CommitsWithVotes`, `runObservingResultStage`, `runObservingRejectTransaction` | the decision, with `addTransactionForChecking` |
| `runTransactionsChecking` | the same, with `sendParticipantsVoteMessageToObservers` |
| `Restart` | the constructor, `initialObservingRequest`, `loadTransactionsFromStorage` |
| `Tick`, `CatchUp` | a block and the timers; a host that lags |

*Time* is counted in blocks of 60 seconds. A claim is looked at each block, whether its
period is 60 seconds or 30; a committed payment is checked each
`kTransactionCheckingSignalRepeatTime` (6 blocks in the code), or after one block if
something failed. What is due runs before the next block. `ClaimBy`: a participant that has
no votes by then has claimed; in the code that is the time of `kMaxRecoveryAttempts`
attempts. The assumption of the module, that `ClaimBy`, a period, and a short period for each
outage come to less than `kCountBlocksForClaiming` (20), is what the constants are chosen for.
It is exact: with equality the votes may come into the block after the last, and TLC finds
`PublishedInTime` violated.

*Abstractions.* One payment, so that the erasing of a claim inside the loop over the claims
does not occur. Votes are complete. What a host answers to a late claim that repeats one
taken in time is left open: both answers are possible. The block number for new payments
(`requestActualBlockNumber`) is in `PaymentReservation`.

### Runs

| run | question | distinct states |
|---|---|---|
| `observing` | two participants and a coordinator, a first host that is reliable and a second that is not, one outage, one restart | 183,897 |
| `observing_front` | finding 3: the first host is the unreliable one | |

Properties: `PublishedInTime` (votes some node has reach the observers before the last
block, if the payment was claimed), `RecordedVerdict` (what a node writes down as the
verdict, after which it does not check the payment again, is the verdict for good),
`ImplementsObserversVerdict` (claim, votes, deadline and decisions relate as
`ObserversVerdict` says; its `DeadlinePasses` is what `TimelyObservers` assumes in
`PaymentVoting`), `ClaimIsDecided`.

*Bounds.* Five blocks for a claim, with checks every two, a claim by block 1 and one outage:
the shortest that satisfies the assumption. Each of the
check, the claim and the last block can come before or after each other. One restart, of any
node, at any moment: in the first claim, between the verdict and its transaction, after it.

*Fairness* (for `ClaimIsDecided`). `WF` on the steps of each node and on blocks: timers
fire. `WF` on `CatchUp`. `SF` on the look at a claim that gets its answer: the host that took
the claim is not asked, so the other must answer some time when it is asked for ever.

Deadlock is checked: the timers never stop.


## 7. Proofs

Every theorem is checked by `tlapm` to its last leaf; none assumes anything but the
named assumptions on constants and what is said here. 17,031 obligations.

### The ledger (`TrustLineLedgerProofs`)

The properties of section 2 except the one finding 1 refutes, for any number of payments, any
limits and amounts, and any `MaxPendingAttempts`:
`LedgerTypeCorrect`, `ReservationsFit`, `CommitFits`, `MoneyIsConserved`,
`MemoryIsRecoverable`, `PendingAuditFreezes`, `OnlyEmptyRequestStrands`, `LimitsFixed` and
`HaltsOnlyAfterConflict`, whatever the contractor's audits are. If its signatures are good
(`HonestContractor`), the last two hold without their exceptions: `LimitsStand` and
`HonestHaltsOnlyAfterConflict`. That assumption is needed: a badly signed audit leaves its
limits in memory and the old ones in the database, so that the next restart moves them.

The argument. None of the invariants is inductive. `HoldsInv` says what a payment
in each phase has in memory and in the database (for instance: voted means a record,
a receipt, a payment record and a reservation, all of the same amount), that at most
one coordinator is inside its last handler, and that a pending audit is alone:
nothing reserved, nothing serialized. From it follows `PendingAuditFreezes`.
`ReservedWithinLimits` is inductive with it, and `CommitFits` follows: a
reservation is part of a total that fits, and the balance moves by it.
`BalancesMatchHistory` carries the history: the balance in the database is what the
payments that have receipts and records moved, and the balance in memory, or in the
pending audit while there is one, is what the payments settled. A full audit moves
everything settled into the audit and clears the receipts; that no payment is then
between its receipt and its commit is what `PendingAuditAlone` is for.
Only a restart moves limits under a reservation (`OnlyRestartMovesLimits`).
`LimitsMatchAudit` (with good signatures) ties the limits in memory to the audits.

`SumsProofs` proves what the totals need (a sum changes by the change of one summand,
is monotone, and bounds its summands). A sum is a recursive function; the induction
goes through the least counterexample, as the induction theorems of the library take
an operator as parameter, which the provers at hand do not instantiate.

### Voting (`PaymentVotingProofs`)

For any finite set of participants and any bounds:

* `TypeCorrect`, `DecisionFinal`: without assumptions;
* `VotesCompleteAlways`, `VotedNotCancelled`: if the coordinator is not interrupted
  in its last handler (`SoundCoordinator`: `CrashInApprove` and `StorageMayFail` are
  `FALSE`);
* `AgreementAlways`, and `Refinement` (`Spec => ImplementsAtomicCommit`): if the
  observers are timely, too;
* `DisagreementAlways`: without assumptions, nodes that disagree have a coordinator that was
  stopped in its last handler, or observers that missed the deadline.

The invariant has three parts. `TypeInv`: types, and that a node in recovery has an
attempt left. `VotesInv`: who signed is in a phase that remembers it; the coordinator
counts only votes that were given, and signs last; votes can be found anywhere (in a
database, in a message, at the observers) only once it is about to commit; who
committed keeps the votes. `AgreementInv`: a voted node rejects only when the block
has passed and the observers hold no votes, and then the coordinator has rejected,
so nobody has the votes or ever will. `FaultInv` is what holds even if the
coordinator is interrupted and the observers are late: it signs after all participants, it
announces before anybody has the votes, and a voted participant rejects after the last block only.

### The audits of a line (`TrustLineAuditProofs`)

For any requests, limits, attempts, restarts, and with or without the payment, however messages
are lost, repeated and reordered: `TypeCorrect` (with the audits of an end numbered without a
gap, and only the last without the contractor's signature) and `PendingAlwaysOpen`. Both say
`Spec /\ []OneAudit => ...`: an end works on one audit of its own at a time. The code does not
enforce it: a transaction that waits leaves the line to the contractor's audit, after which
the line is `Active` and a second one may start. TLC finds with two UUIDs for an end that the
first, whose number is then taken, sets the line `Active` over the unfinished half of
the second (`AuditSourceTransaction.cpp`), so that a third audit is started on top of it.
`OneTransactionEach` proves the premise for ends
that start no transaction before the last one is forgotten (`OneUUID`), as in the runs.

The argument. `EndOK` relates the parts of one end: the line has the number of the last audit;
an incomplete last audit excludes a line in use and a reservation; a transaction that has yet
to start its audit aims at the next number, or the line is not waiting for it any more, or the
request is one that the line refuses; one that has started it works on the last. The
balance counts the payment once: it is in no audit up to the one its receipt is under, and a
receipt is never under an incomplete audit; that keeps the balance a restart computes
within its type, and the one an end goes back to when it cancels its half. Of the messages the
invariant says only that an audit carries well-formed terms and comes from the other end:
nothing about their order. Each action changes one end (`LineChanges`, `TxBecomes`, `TxEnds`,
`EndChanges`), and what that end becomes is a lemma on values (`HalfSaved`, `HalfCompleted`,
`AfterCancel`, `ContractorSigned`, `Paid`, `LoadedLine`).

### What the ends agree on (`AuditAgreementProofs`)

For any requests, limits and attempts, and however messages are lost, repeated and reordered,
when either no end restarts or no payment crosses the line (`RestartsOrPays`), and each end works
on one audit of its own at a time (`[]OneAudit`): `AuditsAreAgreed`, the refinement of
`AgreedAudits`, and `BalancesAreCurrent`, which is `ActiveEndsAgree` and `BalanceIsCurrent`.
`OneTransactionAgrees` states them for `OneUUID`, with no premise on the behaviour.

The premise is needed for each of them. With a restart and a payment together, finding 4 breaks
the balances, and TLC finds a behaviour in which it breaks the refinement. Both ends
audit; the lesser end's half is signed by the greater, and then cancelled, because an old audit of
the greater end is delivered again. The payment moves the balance, and the lesser end starts the
audit anew, over the new balance. It restarts, which leaves its line with the balance 0 of the
cancelled half; the answer to that half is still under way, fits what is in memory, and completes
the new one. The two ends then hold audits of one number, each with both signatures, over
different balances.

The argument is about what is under way. `SignedInv`: a contractor's signature, in an answer or in
the cache for repeated requests, is of an audit that its signer keeps with both signatures. An
initiator's is of an audit at most one ahead of the contractor's log; if the greater
end gave it, it has that audit still, as that end never cancels. (The lesser end may have cancelled
its half, so nothing like this holds of its messages: the greater end that completes
such a half does so with terms the lesser end has not kept, until the answer arrives.)
`AgreeInv`: audits of one number that both have with both signatures mirror each other; those of
the lesser end are all in the log of the greater, which is at most one ahead. `LineInv` relates the
log to the line: an incomplete last audit has the terms of the line, and the balance counts the
payment from its receipt on. `VotedInv`: both ends have the receipt when the payment ends. What a
step does to the logs is one of a few changes (`Grown`, `KnownStep`: an end starts its half,
cancels it, or completes one that the other has or starts), and each of these maps to a step of
`AgreedAudits` or to none.

### One end asks (`AuditAgreementProofs`, last part)

`OneSideHasNoConflict` and `OneSideLimitsAreAudited` state `NoConflict` and `LimitsAreAudited` for a
line as in the run `audit` (`OneEndAsks`): one end starts all audits, asks for limits or plain
audits but not to close, the other end keeps the limit it gives, and no payment goes on. Limits,
attempts, restarts of either end and the number of transactions are arbitrary, and messages may be
lost, repeated and late. Section 5 says how each property fails without the premise: an audit that
empties the line, crossing audits, a payment.

The argument (`OneSideInv`). The end that is asked has no audit of its own, so its line stays in
use with its own limit. Its log is that of the asker, mirrored, without the asker's last audit if
that is still pending (`SameAudits`); so an audit that a live transaction sends is the contractor's
last, which it answers again, or the next, which it signs, and `AuditTarget` refuses neither.
Late audits of transactions that ended may be refused, and the refusal meets nobody. For this
the invariant follows the messages (`MessageFits`, `CacheFits`): an audit
carries terms the asker keeps, an agreement terms the answerer keeps, both with the limits under
that number; an answer with the name of a live transaction agrees, and to that transaction's
audit. New transactions have names that no message, transaction or cached answer has, which keeps
this when they start. A pong is under way for the asker only while it has a transaction to resume
and none is alive; that gives `OneAudit` (`OneSideOneAudit`), which the proofs above take as a
premise, for any number of names.

### Observing (`ObservingHandlerProofs`)

For any participants, hosts, reliable or not, periods, outages and restarts: `TypeCorrect` and
`VerdictsAreTrue`. The invariant (`ChainInv`, `ToldInv`) ties what nodes were told to what the
chain has: the votes only with the claim; a reliable host does not lag; a node gives up a claim
after the last block only, and is about to commit only with the votes in the chain.

If the first host is reliable (finding 3 is why): `PublishedAlways` and `VerdictRefined`
(`Spec => ImplementsObserversVerdict`). `ClaimInv` bounds the block by which a claim of an
undecided node is in the chain, by the outages so far; `ChecksInTime` the block by which a node
that committed looks for it. Each outage costs one short period, which is where the assumption
on the constants comes from.

### Reservations (`PaymentReservationProofs`)

For any nodes, paths, amount and bounds, and however messages are lost, late or overtake each
other: `TypeCorrect`, in whose `TypeOK` the coordinator never reserves more than its command, and
`FullAmountIsFixed`: from the final configuration to the vote its paths carry the command's amount,
no less. The types are not inductive. `StageOK` adds what each stage knows of the path at hand:
its flow is positive and at most what the coordinator holds for it, so that an answer can only
shorten it; `QueueOK`, that nothing is held for a path whose turn is yet to come, and that no path
is in the queue twice, so that a path that is tried adds to the total what it reserves; `MessageOK`,
that no message asks for, or grants, more than the command, as an answer of an earlier path
with the same ID may be taken for one of this.

`FinalReservationsAlwaysStay` and `FinalReservationsDropped` are about what a node holds once it has
the final configuration, for which it then signs receipts. The invariant (`FinalInv`): that
configuration goes out once to each node, after the last path; who has it waits for no message
about a path, so only a request could change its list; and a request that comes in time
(`TimelyRequests`) comes before it. Section 4 says how a late one does change it. There
remains the receiver that should reject: `ReceiveKeys` (`ReceiverPaymentTransaction.cpp:770`) drops
all it holds and goes on to the vote, as the return is missing. The first theorem therefore
says `[](~tx[Receiver].rejecting)`, which TLC finds in every state of the run's instance; the second
has no such premise and says that this is the only way in which final reservations change.

Totals over the paths are folds over a set in the model; `PathSum` and its lemmas relate them
to the sums of `SumsProofs`. The operations on the list (`Picked`, in `ReservationList`) and
`WithPaths` are recursive functions, which the provers can unfold.

### Paths kept apart (`PaymentPathsProofs`)

That a node holds a path once in each direction (`PathsKeptApart`) is what its `rollBack` and
`checkReservationsDirections` rely on. It does not hold without a premise (see below). Two
theorems say on what it depends, for any nodes, paths, amount and bounds, and whether
reservation requests come in time or not:

* `PathsApartUntilRebuilt`: it holds until paths are found anew (`[](co.rebuilt = 0)`), whatever
  is lost, late, refused or timed out;
* `PathsApartInTime`: it holds however often paths are found anew, if a request of the coordinator
  to go on with a path reaches a node only while the coordinator works on that path
  (`[][ExtendInTime]_vars`). Nothing is asked of answers, which may be taken for those of another
  path, or of the neighbours' requests. The code's timeouts are chosen for that, as
  for `TimelyRequests`, and do not enforce it.

The argument. `ApartInv` says that messages list fixed paths only, each path once with its final
amount, and never the one they are about; and that a node's list has an order (`Ordered`): first
paths that are fixed, with their final amounts, then open ones, of which there is at most one
entry in each direction, though the two may be of different paths. A request for a path drops the
open entries and adds one. A late message to shorten a path finds the final amount, or an open
entry; and the ID that entry gets, as the code erases the entry to which its reference points
(`IdAfterErasing`), is that of an entry behind it, so of an open path, too: this is why the order is
part of the invariant. What a node reserves when it is told to go on is for the path of the
message, which need not be that of its last request; that is harmless while the path is not
fixed (`TakesOpen`) and, after a request, only an incoming entry is open.

So each theorem has to show `TakesOpen`. In time, the path of the message is the coordinator's
current one, which is not fixed. Until paths are found anew, `OnceInv` shows it for late messages,
too: of each path there is at most one token, a message to go on, a node that does so, or its
answer; there is none of a path that is fixed, and none of a path still to come. When an ID is
used again a token of its first use may be left, and the property may fail.

The premise is needed. A path that is found later gets the smallest ID no path has at that moment
(`addPathForFurtherProcessing`, `CoordinatorPaymentTransaction.cpp:500`): the one of a path that
failed and was erased, while its messages may still be under way. In the behaviour TLC finds, B
does not answer in time on path 0 over A and B. Path 0 is now over A and C, and B's late refusal
is taken for that of C, whose message to go on is still under way. Paths are found again: 0, over C
and D, is fixed, and C is asked for path 1. There the message for the second path 0 reaches it, and
it reserves another outgoing amount for path 0, to the receiver (a `TODO` in
`IntermediateNodePaymentTransaction.cpp:269` is to check the path). At the final configuration
`checkReservationsDirections` finds two outgoing reservations for one path, and C refuses: no money
is lost, but a payment whose amount was collected fails. This is not one of the runs of
`PROJECT.json`, as no comment or test says that late messages of a path that failed do no harm. To
see it (40 steps, less than a minute), check `PathsKeptApart` of `MCPaymentReservation` with
`SPECIFICATION SpecLateB`, which keeps the behaviours of `Spec` in which B alone is late, as second
node of a path, or refuses, with `FirstPaths <- OverAB`, `RebuiltPaths <- OverC`,
`Intermediates = {"A", "B", "C", "D"}`, `MaxRebuildingAttempts = 2` (3 in the code),
`MaxMishaps = 2`, `TimelyRequests = TRUE`, `BlockNumberMissing = FALSE`, and the other constants as in
`PaymentReservation.cfg`.

### Only model-checked

`VotedIsDecided`, `ClaimIsDecided`, `PendingIsResolved`, `ReservationsReleased` and the other
liveness properties are out of the prover's reach. The findings are runs of TLC.

`PathsAreReserved` and `ReceiptsCoverReservations` relate the lists of all nodes to each other, and
are checked on TLC's instance only. Both need more than `PathsKeptApart`. A late shortening finds
nothing to change, since a request brings the final amounts of all earlier paths; but that the
amounts it brings are those the other end of the line has depends on every message about
the path. A hash that comes before the final configuration is compared with amounts that may still
shrink; it fits afterwards only if all configurations agree. See the plan.


## 8. Findings

1. `ledger_restore`. An audit that meets reservations for more than
   `kMaxPendingAttempts` periods stores `ConflictResolving`
   (`SetOutgoingTrustLineTransaction.cpp:170`). If the reservation belongs to a voted
   payment, and the node restarts, the payment cannot reserve again on that line and
   the constructor of `BasePaymentTransaction` ends the process, at every start.
2. `voting_crash_in_approve`. The coordinator records its signature, and commits, in
   two database transactions, and is not serialized between them
   (`CoordinatorPaymentTransaction.cpp:1772`). After a crash there its restart counts
   the receipts as paid, while nobody has the votes and the participants reject.
3. `observing_front`. `runTransactionsChecking` loops over the observers, and asks the first
   of them each time (`ObservingHandler.cpp:523`). While that host does not answer, nobody who
   committed learns of a claim, and the payment is rejected by those who claimed it, though
   other hosts answer. The warning after the loop says "Can't send request to all observers".
4. `audit_restart`. A restart leaves the balance of a line whose last audit is pending at 0
   (`TrustLinesManager.cpp:64`), although the pending audit and the receipts are in the
   database; `TrustLinesManager.h:171` says of `balance()`: "current balance on the trust
   line". Alone this does no harm, as the line cannot be used. When both ends audit, an
   answer is checked against the line as it is in memory, so that a signature the contractor
   gave before the payment, over a balance of 0, completes the audit; the line is used
   again, and the payment is forgotten at this end.

Finding 2 is against the comment in `runVotesConsistencyCheckingStage`: a node that voted
cannot simply cancel. The same comment speaks against the handler of exceptions in the
coordinator's `run` (`CoordinatorPaymentTransaction.cpp:90`): it cancels the payment at
the coordinator, also when the commit throws after the votes went out. The participants
agree among themselves in both cases (`voting_faults`, where
`StorageMayFail` is that exception).


## 9. Not modelled, and why

* That a payment ends `PaymentReservation` just where `PaymentVoting` starts is shown by
  reading, not by a refinement: `PathsAreReserved` is what the votes are about.
* Opening a line, key sharing and reset: `TrustLineAudit` starts after the first audit, and
  keys suffice. The conflict resolver: no code of the repository starts it after an audit
  (the handlers say `todo run conflict resolving TA`), so `ConflictResolving` is final.
* That `TrustLineLedger` with its contractor as input allows whatever `TrustLineAudit` does
  at one end is by reading: both translate the same handlers.
* Several claims at a time in `ObservingHandler`, and the scheduler's queues.
* The queue of messages that need a confirmation: only gateways' notifications use it.
* Cycle closing, which repeats the stages of a payment.
* Signatures, hashes and encoding: taken as good or bad. What a malformed list of votes
  does to `checkSignaturesAppropriate` is outside every module.
* Cycle discovery, maximum flow, path building: searches whose results are proposals
  that a payment checks again. SQLite, sockets, commands, logging: input and output;
  a database transaction is atomic, as SQLite's are.


## 10. Plan

1. More of `PaymentReservation`. On top of `PathsKeptApart`, `ReceiptsCoverReservations` and
   `PathsAreReserved`, with the amounts that requests list; and that a receiver does
   not reject, which `FinalReservationsAlwaysStay` has as a premise. Then an abstract
   specification (a payment reserves each path at both ends of each line, or releases
   it) that it implements, and a mapping of its last stages to `PaymentVoting`.
2. `NoConflict` and `LimitsAreAudited` on a line that both ends audit, one after the other.
3. The reset of a line (`ResetTrustLineSource`, `ResetTrustLineDestination`), in `TrustLineAudit`.
4. `ObservingHandler` with several payments: claims erased while others are looked at.
5. The scheduler, for the assumption that a handler is one step.
6. Cycle closing, as an instance of what 1 and `PaymentVoting` have in common.
7. Opening and key sharing.
