SPECIFICATION Spec
CONSTANTS
    Processes = 2
    MaxChanges = 1
INVARIANT NameOutlivesLock
