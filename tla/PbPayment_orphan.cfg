SPECIFICATION Spec
CONSTANTS
    c1 = c1
    c2 = c2
    c3 = c3
    k1 = k1
    Word = 64
    Calls = {c1, c2}
    Keys = {k1}
    NoKey = NoKey
    Amounts = {2}
    Opening <- SmallOpening
    MaxTries = 3
    Credits = {1}
    MaxCredited = 0
    Reserve = 0
    MaxFaults = 1
SYMMETRY Symmetry
INVARIANTS
    ConservationWhenIdle
