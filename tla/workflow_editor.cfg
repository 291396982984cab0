SPECIFICATION FairSpec
CONSTANTS
    a = a
    b = b
    c = c
    d = d
    Nothing = Nothing
    Workflows <- MCWorkflows
    Existing <- MCExisting
    MaxEdits = 3
    MaxFailures = 1
INVARIANTS
    
    UnsavedHasACause
PROPERTIES
    LossHasACause
    EditsAreStored
CHECK_DEADLOCK FALSE
