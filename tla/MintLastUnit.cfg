SPECIFICATION FairSpec
CONSTANTS
    r1 = r1
    r2 = r2
    p1 = p1
    p2 = p2
    a1 = a1
    Burns = {r1, r2}
    TypeOf <- MCTypeOf
    Amount <- MCAmount
    Closed = {r2}
    FundATAMinAmount = 1
    TxIDs = {t1, t2, t3}
    NoTx = NoTx
    NoBurn = NoBurn
    EmissionStart = 1
    Minute = 2
    SpfPerMinute = 2
    TotalSupply = 3
    MaxTime = 5
    MaxFaults = 0
    StatusMayFail = FALSE
    ReadsMayRetry = FALSE
PROPERTIES
    EveryAcceptedIsCompleted
