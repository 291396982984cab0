SPECIFICATION Spec
CONSTANTS
    gold = gold
    silver = silver
    first = first
    second = second
    recharge = recharge
    h1 = h1
    h2 = h2
    Nobody = Nobody
    NoLevel = NoLevel
    Orders <- OneRecharge
    Handlers = {h1, h2}
    Levels <- BothLevels
    Level <- MCLevel
    Held = {}
    Length <- MCLength
    Bonus <- MCBonus
    Payloads <- RechargePayloads
    MaxAttempts = 2
    MaxFaults = 0
PROPERTIES
    PaidWebhookGrants
CHECK_DEADLOCK FALSE
