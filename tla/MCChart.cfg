SPECIFICATION Spec
CONSTANTS
    Groups = {1, 2}
    Named = {1}
    ClusterSize = 900
    Tables <- MCTables
    Ranges <- MCRanges
    DataRanges <- MCDataRanges
INVARIANTS
    TypeOK
    Accounted
    ChartComplete
    AllIsSum
    NeverLate
CHECK_DEADLOCK FALSE
