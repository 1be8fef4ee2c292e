SPECIFICATION FairTrafficSpec
CONSTANTS
    MAX_KEY_UPDATES_WITHOUT_APP_DATA = 2
    MaxCalls = 2
    AEAD_CONFIDENTIALITY_LIMIT = 2
    MaxRecords = 4
    MaxFaults = 2
INVARIANTS
    RecordsOpen
    RequestsRemembered
    BudgetHolds
    NonceNeverReused
    FailsOnlyIfDisturbed
PROPERTIES
    ResponsesSent
    ImplementsChannel
    AllDelivered
CHECK_DEADLOCK FALSE
