SPECIFICATION Spec
CONSTANTS
    NPayments = 3
    OutgoingPayments = {1, 2}
    CoordinatedPayments = {2}
    TrustAmounts = {0, 2}
    PaymentAmounts = {1, 2}
    MaxPendingAttempts = 2
    YieldsToContractor = TRUE
    ContractorAudits = {"wrongNumber", "badSignature", "good"}
INVARIANTS
    TypeOK
    ReservedWithinLimits
    CommitNeverOverflows
    BalanceIsHistory
    MemoryMatchesStorage
    PendingAuditFreezesPayments
    StrandedOnlyByEmptyRequest
PROPERTIES
    RestartHaltsOnlyAfterConflict
    LimitsFixedWhileReserved
CHECK_DEADLOCK FALSE
