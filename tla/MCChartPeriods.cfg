SPECIFICATION Spec
CONSTANTS
    Groups = {1, 2}
    Named = {1}
    ClusterSize = 900
    Tables <- MCOneTable
    Ranges <- MCDay
    DataRanges <- MCDataRanges
INVARIANT OwnPeriod
CHECK_DEADLOCK FALSE
