SPECIFICATION Spec
CONSTANTS
    Documents <- MCDocuments
    IntMax = 127
    WindowInfos <- MCWindows
    TerminalNames <- MCTerminals
INVARIANTS
    TypeOK
    GroupsAsWritten
    FirstRuleDecides
    NamelessNotCounted
    ShownUnderItsName
CHECK_DEADLOCK FALSE
