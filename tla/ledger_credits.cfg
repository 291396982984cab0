SPECIFICATION Spec
CONSTANTS
    pay1 = pay1
    pay2 = pay2
    back1 = back1
    back2 = back2
    admin1 = admin1
    admin2 = admin2
    reward1 = reward1
    reward2 = reward2
    Consumes <- BothConsumes
    Refunds <- OneRefund
    Compensations <- OneAdmin
    Forced <- OneAdmin
    Credits <- BothRewards
    Of <- MCOf
    SourceOf <- MCSourceOf
    Amount <- MCAmount
    Opening = 3
    MaxAttempts = 1
INVARIANTS
    NeverOverdrawn
    CreditedOnce
PROPERTIES
    LockedRowsAreExact
CHECK_DEADLOCK FALSE
