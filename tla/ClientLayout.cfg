SPECIFICATION FairSpec
CONSTANTS
    Configs <- MCLayoutConfigs
    Tickets <- MCTickets
    Inputs <- MCInputs
    SuiteLists <- MCSuiteLists
    MaxPostHandshake = 1
INVARIANTS
    LayoutCoversBothHellos
CHECK_DEADLOCK FALSE
