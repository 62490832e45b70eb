SPECIFICATION FairSpec
CONSTANTS
    r1 = r1
    r2 = r2
    p1 = p1
    p2 = p2
    a1 = a1
    Burns = {r1, r2, a1}
    TypeOf <- MCTypeOf
    Amount <- MCAmount
    Closed = {a1}
    FundATAMinAmount = 1
    TxIDs = {t1, t2, t3, t4}
    NoTx = NoTx
    NoBurn = NoBurn
    EmissionStart = 1
    Minute = 1
    SpfPerMinute = 2
    TotalSupply = 4
    MaxTime = 3
    MaxFaults = 2
    StatusMayFail = FALSE
    ReadsMayRetry = FALSE
INVARIANTS
    TypeOK
    NoOrphanMint
    NextInLine
    StartupSanity
PROPERTIES
    CompletedIsFinal
    LedgerSpec
    MintReturns
    StagesSpec
    AcceptedIsCompleted
