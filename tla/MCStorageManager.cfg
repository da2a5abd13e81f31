SPECIFICATION FairSpec
CONSTANTS
    Groups <- MCOneGroup
    Times <- MCEdge
    MaxPresses = 2
    MaxKills = 2
    MaxCharts = 2
INVARIANTS
    TypeOK
    Conservation
    NothingLostUndisturbed
PROPERTIES
    LedgerSpec
    PressesSettle
CHECK_DEADLOCK FALSE
