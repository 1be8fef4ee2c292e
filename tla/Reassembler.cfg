SPECIFICATION FairSpec
CONSTANTS
    HeaderLen = 2
    MAX_SIZE = 5
    Capacities = {1, 3}
    MAX_KEY_UPDATES_PER_RECORD = 2
    Epochs = {"Handshake", "Application"}
    NoEpoch = "None"
    Streams <- MCStreams
    MaxRecords = 4
INVARIANTS
    MessagesMatchStream
    WithinOneEpoch
    FailureIsDue
PROPERTIES
    CallReturns
CHECK_DEADLOCK FALSE
