SPECIFICATION Spec
CONSTANTS
    r1 = r1
    r2 = r2
    r3 = r3
    h1 = h1
    h2 = h2
    k1 = k1
    Refunds = {r1, r2}
    Resolvers = {h1}
    NoRefund = NoRefund
    Keys = {k1}
    NoKey = NoKey
    Paid <- SplitPayment
    Amounts = {1, 3}
    MaxFaults = 0
SYMMETRY Symmetry
INVARIANTS
    VoidedNotPosted
