SPECIFICATION Spec
CONSTANTS
    Coordinator = "K"
    Receiver = "R"
    Intermediates = {"A", "B"}
    Amount = 2
    FirstPaths <- OverA
    RebuiltPaths <- LongPath
    MaxRebuildingAttempts = 1
    MaxReceiverInaccessible = 2
    MaxMishaps = 1
    TimelyRequests = TRUE
    BlockNumberMissing = TRUE
INVARIANT TypeOK PathsAreReserved ReceiptsCoverReservations PathsKeptApart
PROPERTY FinalReservationsStay
CHECK_DEADLOCK FALSE
