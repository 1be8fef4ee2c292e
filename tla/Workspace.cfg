SPECIFICATION Spec
CONSTANTS
    Slots = {s1, s2}
    MAX_PLAINTEXT_BODY = 1
    CertificateNeeded = 2
    FlightNeeded = 3
    IdentityNeeded = 1
    ParamsCapacity = 1
    Loans <- MCLoans
    MaxConnections = 2
    MaxFlights = 2
    MaxAsked = 4
SYMMETRY MCSymmetry
INVARIANTS
    TypeOK
    FlightsAreWhole
    OwnersAreSeparate
CHECK_DEADLOCK FALSE
