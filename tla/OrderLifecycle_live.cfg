CONSTANTS
    o1 = o1
    trader = trader
    trader2 = trader2
    recon = recon
    Orders = {o1}
    Qty = 1
    Traders = {trader}
    Reconcilers = {recon}
    MaxFaults = 2
SPECIFICATION FairSpec
INVARIANTS
    IInv
PROPERTIES
    SubmittingResolved
    LedgerConverges
