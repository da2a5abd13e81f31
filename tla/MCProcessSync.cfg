SPECIFICATION FairSpec
CONSTANTS
    Processes = 2
    MaxChanges = 2
INVARIANTS
    TypeOK
    WholeTreeSeen
PROPERTIES
    TreeNeverOlder
    TreeCatchesUp
    MatchEnds
