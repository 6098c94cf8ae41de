CONSTANTS
    StartingBalance = 25
    Prices = {8, 12}
    Quantities = {2}
    LimitPct = 20
    MaxTrades = 3
    MaxDays = 2
SPECIFICATION Spec
INVARIANTS
    TypeOK
    CashIdentity
    NetQuantity
    HaltedExactlyOnLoss
