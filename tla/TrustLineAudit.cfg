SPECIFICATION FairSpec
CONSTANTS
    a = a
    b = b
    a1 = a1
    b1 = b1
    b2 = b2
    Nodes = {a, b}
    Greater = a
    Payer = b
    Initiators = {b}
    Requests <- UpDownAndPlain
    TrustAmounts = {0, 1, 2}
    InitialTrust <- OneSide
    TransactionUUIDs <- OneAndTwo
    MaxAuditNumber = 3
    kMaxCountSendingAttempts = 2
    kMaxPendingAttempts = 1
    MaxRestarts = 1
    Payments = 0
INVARIANT TypeOK NoConflict LimitsAreAudited
PROPERTY PendingIsResolved
CHECK_DEADLOCK FALSE
