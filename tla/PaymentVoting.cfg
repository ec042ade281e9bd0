SPECIFICATION FairSpec
CONSTANTS
    Coordinator = "c"
    Participants = {"p", "q"}
    MaxKeysResending = 2
    MaxRecoveryAttempts = 2
    MaxCrashes = 2
    CrashInApprove = FALSE
    StorageMayFail = FALSE
    TimelyObservers = TRUE
INVARIANTS
    TypeOK
    Agreement
    VotesAreComplete
PROPERTIES
    VotedIsNotSimplyCancelled
    DecisionIsFinal
    ImplementsAtomicCommit
    VotedIsDecided
CHECK_DEADLOCK FALSE
