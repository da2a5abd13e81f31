SPECIFICATION Spec
CONSTANTS
    IntMax = 7
    m_clusterSize = 3
    Clock <- MCClock
    MaxPresses = 3
    MaxKills = 2
    MaxCharts = 2
INVARIANTS
    TypeOK
    IndexKeepsCount
    QuarterCounts
CHECK_DEADLOCK FALSE
