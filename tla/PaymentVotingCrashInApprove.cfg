SPECIFICATION Spec
CONSTANTS
    Coordinator = "c"
    Participants = {"p", "q"}
    MaxKeysResending = 1
    MaxRecoveryAttempts = 1
    MaxCrashes = 1
    CrashInApprove = TRUE
    StorageMayFail = FALSE
    TimelyObservers = TRUE
INVARIANT Agreement
CHECK_DEADLOCK FALSE
