SPECIFICATION Spec
CONSTANTS
    t1 = t1
    t2 = t2
    r1 = r1
    r2 = r2
    e1 = e1
    e2 = e2
    k1 = k1
    Transfers = {t1}
    Reversals = {r1, r2}
    Endings = {e1}
    NoMove = NoMove
    Scopes = {"both"}
    Keys = {}
    NoKey = NoKey
    Amounts = {1, 2}
    Opening <- SmallOpening
    MaxTries = 3
    MaxSpent = 0
    MaxFaults = 0
SYMMETRY Symmetry
INVARIANTS
    OneReversalMoves
