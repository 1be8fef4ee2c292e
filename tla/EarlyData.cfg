SPECIFICATION Spec
CONSTANTS
    Shards = {"exact", "ahead", "alone"}
    Stores = {"shared", "private"}
    StoreOf <- MCStoreOf
    ClockAhead <- MCClockAhead
    MaxDrift = 1
    TICKET_LIFETIME_MS = 4
    MAX_TICKET_AGE_SKEW_MS = 1
    AgeModulus = 8
    AgeAdds = {7}
    RotateAfterMs = 3
    RotateAfterCount = 1
    MaxTime = 5
    MaxKeys = 3
    MaxTickets = 1
    MaxHellos = 1
    MaxResets = 1
INVARIANTS
    AcceptedOnce
    AcceptedPromptly
    OpensOneRotationBack
    PromptHelloIsAdmitted
CHECK_DEADLOCK FALSE
