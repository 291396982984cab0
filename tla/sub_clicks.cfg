SPECIFICATION Spec
CONSTANTS
    click1 = click1
    click2 = click2
    other = other
    keyA = keyA
    keyB = keyB
    user = user
    skillA = skillA
    skillB = skillB
    provider = provider
    Submissions <- TwoClicks
    Keys <- MCKeys
    SlotKeys <- MCSlotKeys
    KeyOf <- MCKeyOf
    SlotKeyOf <- MCSlotKeyOf
    Limit <- WideLimit
    Faults <- FaultKinds
    MaxFaults = 2
INVARIANTS
    OneTaskPerKey
PROPERTIES
    ForeignClaimSurvives
CHECK_DEADLOCK FALSE
