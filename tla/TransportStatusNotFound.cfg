SPECIFICATION Spec
CONSTANTS
    b1 = b1
    b2 = b2
    c1 = c1
    c2 = c2
    Burns = {b1, b2}
    NoBurn = NoBurn
    Clients = {c1, c2}
    RetryErrorUnwraps = FALSE
    MaxFaults = 0
SYMMETRY StatusSymmetry
INVARIANTS
    EveryBurnHasStatus
