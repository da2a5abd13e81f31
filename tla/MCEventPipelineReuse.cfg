SPECIFICATION Spec
CONSTANTS
    w1 = w1
    w2 = w2
    Root = Root
    Windows <- MCWindows
    Places <- MCPlaces
    KeyCodes <- MCKeys
    Receivers = {1}
    Selectors = {1}
    MaxPresses = 2
    MaxChanges = 3
INVARIANT UsesActualEntry
CHECK_DEADLOCK FALSE
