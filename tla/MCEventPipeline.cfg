SPECIFICATION FairSpec
CONSTANTS
    w1 = w1
    w2 = w2
    Root = Root
    Windows <- MCWindows
    Places <- MCPlaces
    KeyCodes <- MCKeys
    Receivers = {1, 2}
    Selectors = {0, 1}
    MaxPresses = 2
    MaxChanges = 3
INVARIANTS
    TypeOK
    StaleHasNotice
    CountsPresses
PROPERTY QueuesDrain
CHECK_DEADLOCK FALSE
