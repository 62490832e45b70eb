SPECIFICATION Spec
CONSTANTS
    p1 = p1
    p2 = p2
    p3 = p3
    q1 = q1
    q2 = q2
    q3 = q3
    addr = addr
    other = other
    Burns = {p1, p2, p3}
    NoBurn = NoBurn
    Amount <- MCHalfLimit
    Home <- MCHome
    Premined = {addr}
    AllowedMax <- MCAllowedMax
    Clients = {c1}
    QueueSizeLimit = 2
    TotalSupply = 2
    Confirmations = 1
    MaxHeight = 0
    MaxReorg = 0
    MaxFaults = 1
    RemovalMayRepeat = FALSE
    ReadsMayRetry = TRUE
SYMMETRY IntakeSymmetry
INVARIANTS
    PreminedWithinLimit
