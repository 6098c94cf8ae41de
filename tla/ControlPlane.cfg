CONSTANTS
    heartbeat = heartbeat
    MaxCommands = 2
    Slots = {heartbeat}
    MaxRuns = 1
    MaxChanges = 1
    MaxFaults = 1
SPECIFICATION FairSpec
INVARIANTS
    TypeOK
    AuditTrail
PROPERTIES
    SwitchesFollowOperator
    ShownConverges
