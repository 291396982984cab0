SPECIFICATION FairSpec
CONSTANTS
    gold = gold
    silver = silver
    first = first
    second = second
    recharge = recharge
    h1 = h1
    h2 = h2
    Nobody = Nobody
    NoLevel = NoLevel
    Orders <- MCOrders
    Handlers = {h1, h2}
    Levels <- BothLevels
    Level <- MCLevel
    Held = {gold}
    Length <- MCLength
    Bonus <- MCBonus
    Payloads <- MCPayloads
    MaxAttempts = 2
    MaxFaults = 1
INVARIANTS
    GrantedOnce
    BenefitIsPaid
PROPERTIES
    GrantedIsFinal
    TimeIsLostOnlyToStaleReads
    GenuinePaymentIsGranted
CHECK_DEADLOCK FALSE
