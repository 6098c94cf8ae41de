CONSTANTS
    o1 = o1
    trader = trader
    trader2 = trader2
    recon = recon
    Orders = {o1}
    Qty = 2
    Traders = {trader, trader2}
    Reconcilers = {recon}
    MaxFaults = 0
SPECIFICATION Spec
SYMMETRY Symmetry
INVARIANTS
    TypeOK
    ExecutionsCountedOnce
    TerminalAgreement
    ConflictsAreReal
    OneSubmissionPerIntent
PROPERTIES
    OnlyForward
