SPECIFICATION Spec
CONSTANTS
    c1 = c1
    c2 = c2
    Calls <- TwoCalls
    Kids <- TwoKids
    Life = 3
    Margin = 1
    Leeway = 2
    Ttl = 3
    MaxTime = 8
SYMMETRY Symmetry
INVARIANTS
    TypeOK
    RefusedExpired
PROPERTIES
    ServedWithin
CHECK_DEADLOCK FALSE
