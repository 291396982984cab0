SPECIFICATION FairSpec
CONSTANTS
    click1 = click1
    click2 = click2
    other = other
    keyA = keyA
    keyB = keyB
    user = user
    skillA = skillA
    skillB = skillB
    provider = provider
    Submissions <- TwoTasks
    Keys <- MCKeys
    SlotKeys <- MCSlotKeys
    KeyOf <- MCKeyOf
    SlotKeyOf <- MCSlotKeyOf
    Limit <- ProviderLimit
    Faults <- FaultKinds
    MaxFaults = 1
INVARIANTS
    AdmissionBound
    SlotsMatchHolders
PROPERTIES
    SlotsDrain
CHECK_DEADLOCK FALSE
