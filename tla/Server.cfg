SPECIFICATION FairSpec
CONSTANTS
    q1 = q1
    q2 = q2
    q3 = q3
    m1 = m1
    m2 = m2
    Requests <- ThreeRequests
    Payments <- TwoPayments
    NoPayment = NoPayment
    PoolSize = 2
    MaxFound = 1
    MaxRestarts = 1
INVARIANTS
    TypeOK
    RowsHaveAccounts
    WaitCycleIsRefunds
PROPERTIES
    EveryRequestEnds
    EveryRoundEnds
CHECK_DEADLOCK FALSE
