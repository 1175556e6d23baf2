SPECIFICATION FairSpec
CONSTANTS
    c1 = c1
    c2 = c2
    c3 = c3
    k1 = k1
    Word = 64
    Calls = {c1, c2}
    Keys = {k1}
    NoKey = NoKey
    Amounts = {0, 3}
    Opening <- SmallOpening
    MaxTries = 3
    Credits = {2}
    MaxCredited = 2
    Reserve = 2
    MaxFaults = 1
INVARIANTS
    TypeOK
    Conservation
    OneDebitPerKey
    OthersSpentFirst
    RetriesAreEarned
PROPERTIES
    FreezeAdmitsNone
    RefinesAccount
    EveryCallEnds
