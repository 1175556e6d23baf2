SPECIFICATION Spec
CONSTANTS
    d1 = d1
    e1 = e1
    e2 = e2
    k1 = k1
    w1 = w1
    w2 = w2
    Deposits = {d1}
    Withdrawals = {}
    Endings = {e1, e2}
    NoMove = NoMove
    Keys = {k1}
    NoKey = NoKey
    Amounts = {1}
    OptionalOrigin = TRUE
    Explorer = FALSE
    MaxFaults = 0
CHECK_DEADLOCK FALSE
INVARIANT VoidedNotMoved
