SPECIFICATION FairSpec
CONSTANTS
    PageLimit = 1
    MaxPages = 2
    Lookback = 1
    Retention = 2
    NoCursor = NoCursor
    MaxLedger = 4
    MaxEvents = 3
    MaxPerLedger = 3
    MaxFaults = 2
INVARIANTS
    TypeOK
    NoGap
    FirstOfEach
    ExactBetweenTicks
    RowsInChainOrder
PROPERTIES
    PositionNeverRegresses
    Mirror
    EveryEventIngested
