SPECIFICATION Spec
CONSTANTS
    Coordinator = c
    Participants = {p1, p2}
    MaxKeysResending = 1
    MaxRecoveryAttempts = 2
    MaxCrashes = 2
    CrashInApprove = TRUE
    StorageMayFail = TRUE
    TimelyObservers = FALSE
SYMMETRY Symmetry
INVARIANT DisagreementNeedsMissedDeadline
CHECK_DEADLOCK FALSE
