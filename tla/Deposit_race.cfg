SPECIFICATION FairSpec
CONSTANTS
    d1 = d1
    w1 = w1
    w2 = w2
    e1 = e1
    e2 = e2
    k1 = k1
    Deposits = {d1}
    Withdrawals = {w1, w2}
    Endings = {e1, e2}
    NoMove = NoMove
    Keys = {k1}
    NoKey = NoKey
    Amounts = {1}
    OptionalOrigin = TRUE
    Explorer = TRUE
    MaxFaults = 1
CHECK_DEADLOCK FALSE
INVARIANTS TypeOK PostedHasMoved OneMovePerKey
PROPERTIES VerdictsLast PendingEnds EveryCallEnds
