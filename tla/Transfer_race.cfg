SPECIFICATION FairSpec
CONSTANTS
    t1 = t1
    t2 = t2
    r1 = r1
    r2 = r2
    e1 = e1
    e2 = e2
    k1 = k1
    Transfers = {t1, t2}
    Reversals = {}
    Endings = {e1, e2}
    NoMove = NoMove
    Scopes = {"both"}
    Keys = {k1}
    NoKey = NoKey
    Amounts = {2}
    Opening <- SmallOpening
    MaxTries = 3
    MaxSpent = 0
    MaxFaults = 0
INVARIANTS
    TypeOK
    LegsTogether
    OneMovePerKey
PROPERTIES
    EveryMoveEnds
    PendingEnds
