CONSTANTS
    EntryQty = 2
    ExitAttempts = 2
    StopAttempts = 2
    MaxCandles = 2
    MaxOrders = 3
    MaxMoves = 0
    MaxFaults = 0
    MaxRebuilds = 0
    MaxEvents = 0
    Foreign = 1
SPECIFICATION Spec
INVARIANT
    NeverDoubleSell
