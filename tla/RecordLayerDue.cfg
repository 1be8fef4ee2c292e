SPECIFICATION Spec
CONSTANTS
    AEAD_CONFIDENTIALITY_LIMIT = 2
    MaxRecords = 4
    MaxFaults = 1
INVARIANTS
    DueUpdateCanBeSealed
CHECK_DEADLOCK FALSE
