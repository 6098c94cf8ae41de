CONSTANTS
    MaxIncidents = 2
    MaxAcks = 1
CHECK_DEADLOCK FALSE
SPECIFICATION Spec
INVARIANTS
    StickyHalt
