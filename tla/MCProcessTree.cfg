SPECIFICATION FairSpec
CONSTANTS
    Systems <- MCSystems
    Unreadable <- MCOne
    StackSize = 6
    MaxScans = 2
    MaxChanges = 2
INVARIANTS
    TypeOK
    TreeIsScan
    DescendantsExact
    DescendantsByBirth
    StandingFound
PROPERTIES
    DescentsEnd
    ScansEnd
CHECK_DEADLOCK FALSE
