CONSTANTS
    EntryQty = 1
    ExitAttempts = 1
    StopAttempts = 2
    MaxCandles = 1
    MaxOrders = 5
    MaxMoves = 0
    MaxFaults = 1
    MaxRebuilds = 1
    MaxEvents = 1
    Foreign = 0
SPECIFICATION FairSpec
PROPERTIES
    PositionGuarded
