SPECIFICATION Spec
CONSTANTS
    Coordinator = "c"
    Participants = {"p", "q"}
    NumberOfObservers = 2
    Reliable = {2}
    kCountBlocksForClaiming = 6
    kTransactionCheckingSignalRepeatTime = 2
    kTransactionCheckingSignalSmallRepeatTime = 1
    ClaimBy = 1
    MaxOutages = 0
    MaxRestarts = 0
INVARIANT PublishedInTime
