SPECIFICATION Spec
CONSTANTS
    a = a
    b = b
    a1 = a1
    b1 = b1
    b2 = b2
    Nodes = {a, b}
    Greater = a
    Payer = b
    Initiators = {a, b}
    Requests <- Up
    TrustAmounts = {0, 1, 2}
    InitialTrust <- OneSide
    TransactionUUIDs <- OneEach
    MaxAuditNumber = 3
    kMaxCountSendingAttempts = 1
    kMaxPendingAttempts = 1
    MaxRestarts = 1
    Payments = 1
INVARIANT BalanceIsCurrent
CHECK_DEADLOCK FALSE
