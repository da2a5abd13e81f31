SPECIFICATION DaemonFairSpec
CONSTANTS
    Groups <- MCGroups
    Times <- MCTimes
    MaxPresses = 1
    MaxKills = 0
    MaxCharts = 0
    Modes <- MCBackground
    MaxXStops = 0
PROPERTY PressesSettle
CHECK_DEADLOCK FALSE
