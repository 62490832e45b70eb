SPECIFICATION Spec
CONSTANTS
    r1 = r1
    r2 = r2
    p1 = p1
    p2 = p2
    a1 = a1
    Burns = {p1, p2}
    TypeOf <- MCTypeOf
    Amount <- MCAmount
    Closed = {p2}
    FundATAMinAmount = 1
    TxIDs = {t1, t2, t3, t4}
    NoTx = NoTx
    NoBurn = NoBurn
    EmissionStart = 1
    Minute = 2
    SpfPerMinute = 2
    TotalSupply = 2
    MaxTime = 3
    MaxFaults = 1
    StatusMayFail = FALSE
    ReadsMayRetry = TRUE
PROPERTIES
    CompletedIsFinal
