SPECIFICATION FairSpec
CONSTANTS
    Configs <- MCRetryConfigs
    Tickets <- MCTickets
    Inputs <- MCInputs
    SuiteLists <- MCSuiteLists
    MaxPostHandshake = 1
INVARIANTS
    HonestServerIsAnswered
CHECK_DEADLOCK FALSE
