SPECIFICATION Spec
CONSTANTS
    r1 = r1
    r2 = r2
    p1 = p1
    p2 = p2
    a1 = a1
    Burns = {r1, r2, p1}
    TypeOf <- MCTypeOf
    Amount <- MCAmount
    Closed = {p1}
    FundATAMinAmount = 1
    TxIDs = {t1, t2, t3, t4, t5}
    NoTx = NoTx
    NoBurn = NoBurn
    EmissionStart = 1
    Minute = 2
    SpfPerMinute = 2
    TotalSupply = 4
    MaxTime = 5
    MaxFaults = 3
    StatusMayFail = TRUE
    ReadsMayRetry = TRUE
SYMMETRY TxSymmetry
INVARIANTS
    MintedAtMostOnce
    MintedPrefix
    CompletedIsMinted
    OneInFlight
    EmissionRespected
    ScheduleExact
    EstimateIsEnough
