SPECIFICATION Spec
CONSTANTS
    PageLimit = 2
    MaxPages = 1
    Lookback = 1
    Retention = 3
    NoCursor = NoCursor
    MaxLedger = 3
    MaxEvents = 2
    MaxPerLedger = 2
    MaxFaults = 0
INVARIANTS
    OneRowPerEvent
