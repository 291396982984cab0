SPECIFICATION Spec
CONSTANTS
    pay1 = pay1
    pay2 = pay2
    back1 = back1
    back2 = back2
    admin1 = admin1
    admin2 = admin2
    reward1 = reward1
    reward2 = reward2
    Consumes <- BothConsumes
    Refunds <- BothRefunds
    Compensations <- OneAdmin
    Forced <- Nobody
    Credits <- Nobody
    Of <- MCOf
    SourceOf <- MCSourceOf
    Amount <- MCAmount
    Opening = 3
    MaxAttempts = 2
INVARIANTS
    LedgerIsRunningSum
PROPERTIES
    IsAnAccount
CHECK_DEADLOCK FALSE
