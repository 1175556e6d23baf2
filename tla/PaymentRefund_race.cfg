SPECIFICATION Spec
CONSTANTS
    r1 = r1
    r2 = r2
    r3 = r3
    h1 = h1
    h2 = h2
    k1 = k1
    Refunds = {r1, r2, r3}
    Resolvers = {h1, h2}
    NoRefund = NoRefund
    Keys = {}
    NoKey = NoKey
    Paid <- OnePoolPayment
    Amounts = {2, 3}
    MaxFaults = 2
SYMMETRY Symmetry
INVARIANTS
    RefundsWithinPayment
    LossesExplain
    MoneyWithinLosses
PROPERTIES
    FreezeRefundsNone
