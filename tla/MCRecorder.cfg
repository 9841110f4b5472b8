SPECIFICATION FairSpec
CONSTANTS
    Lanes = {1, 2}
    Messages <- MCMessages
    MaxTime = 2
    MaxAge = 1
    MaxRows <- MCMaxRows
    MaxSessions = 2
INVARIANTS
    FinishedIsReadable
    AnchorIsTheNewest
    DiesOfTiesOnly
PROPERTIES
    Finishes
CHECK_DEADLOCK FALSE
