CONSTANTS
    MaxIncidents = 2
    MaxAcks = 1
CHECK_DEADLOCK FALSE
SPECIFICATION FairSpec
INVARIANTS
    TypeOK
    VerifiedSinceStart
    BlockedWhileDisconnected
PROPERTIES
    AckNeverForgotten
    Recovers
    AckHonouredWhilePolling
