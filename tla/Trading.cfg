CONSTANTS
    EntryQty = 2
    ExitAttempts = 2
    StopAttempts = 2
    MaxCandles = 2
    MaxOrders = 3
    MaxMoves = 1
    MaxFaults = 1
    MaxRebuilds = 1
    MaxEvents = 1
    Foreign = 1
SPECIFICATION Spec
INVARIANTS
    TypeOK
    OneSeller
    ExposureBounded
    RetryOnlyUnexecuted
    SwitchesOvertakenOnce
    StopOfThisPosition
