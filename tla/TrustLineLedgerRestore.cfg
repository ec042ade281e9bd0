SPECIFICATION Spec
CONSTANTS
    NPayments = 3
    OutgoingPayments = {1, 2}
    CoordinatedPayments = {2}
    TrustAmounts = {0, 1, 2}
    PaymentAmounts = {1, 2}
    MaxPendingAttempts = 2
    YieldsToContractor = TRUE
    ContractorAudits = {"wrongNumber", "good"}
INVARIANT SerializedReserveIsRestored
CHECK_DEADLOCK FALSE
