SPECIFICATION FairSpec
CONSTANTS
    Coordinator = "c"
    Participants = {"p", "q"}
    NumberOfObservers = 2
    Reliable = {1}
    kCountBlocksForClaiming = 5
    kTransactionCheckingSignalRepeatTime = 2
    kTransactionCheckingSignalSmallRepeatTime = 1
    ClaimBy = 1
    MaxOutages = 1
    MaxRestarts = 1
INVARIANTS
    TypeOK
    PublishedInTime
    RecordedVerdict
PROPERTIES
    ImplementsObserversVerdict
    ClaimIsDecided
