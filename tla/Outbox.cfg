CONSTANTS
    trading = trading
    recon = recon
    Nobody = Nobody
    Gone = Gone
    Workers = {trading, recon}
    MaxRows = 2
    Kinds = {"orders", "fills", "positions", "telegram"}
    MaxAttempts = 2
    MaxFaults = 1
SPECIFICATION FairSpec
INVARIANTS
    TypeOK
    SentMeansDelivered
    GivenUpForAReason
    OneDeliverer
PROPERTIES
    SentIsFinal
    FollowsPublished
    EveryRowSettles
    MirrorConverges
