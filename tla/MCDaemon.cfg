SPECIFICATION DaemonFairSpec
CONSTANTS
    Groups <- MCGroups
    Times <- MCTimes
    MaxPresses = 2
    MaxKills = 2
    MaxCharts = 1
    Modes <- MCEitherMode
    MaxXStops = 2
INVARIANTS
    DaemonTypeOK
    SameServer
PROPERTIES
    StorageSpec
    RetryConnects
    ForegroundSettles
CHECK_DEADLOCK FALSE
