SPECIFICATION FairSpec
CONSTANTS
    Coordinator = "K"
    Receiver = "R"
    Intermediates = {"A"}
    Amount = 2
    FirstPaths <- DirectAndOne
    RebuiltPaths <- NoPaths
    MaxRebuildingAttempts = 1
    MaxReceiverInaccessible = 2
    MaxMishaps = 0
    TimelyRequests = FALSE
    BlockNumberMissing = FALSE
PROPERTY ReservationsReleased
CHECK_DEADLOCK FALSE
