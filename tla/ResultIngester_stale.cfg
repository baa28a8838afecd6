SPECIFICATION Spec
CONSTANTS
    None = None
    Malformed = Malformed
    c1 = c1
    c2 = c2
    Requests = {r1, r2}
    Checks = {c1, c2}
    Elements <- MCElements
    ElementOf <- MCElementOf
    Batches <- MCBatches
    MaxPast = 1
    MaxFuture = 1
    MaxNow = 2
    MaxEdits = 1
    MaxFaults = 1
CHECK_DEADLOCK FALSE
INVARIANT ScoresOfLatestResults
