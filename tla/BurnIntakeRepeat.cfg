SPECIFICATION Spec
CONSTANTS
    p1 = p1
    p2 = p2
    p3 = p3
    q1 = q1
    q2 = q2
    q3 = q3
    addr = addr
    other = other
    Burns = {p1, p2}
    NoBurn = NoBurn
    Amount <- MCAmount
    Home <- MCHome
    Premined = {addr}
    AllowedMax <- MCAllowedMax
    Clients = {c1}
    QueueSizeLimit = 2
    TotalSupply = 2
    Confirmations = 1
    MaxHeight = 2
    MaxReorg = 0
    MaxFaults = 1
    RemovalMayRepeat = TRUE
    ReadsMayRetry = FALSE
INVARIANTS
    PreminedAccounting
