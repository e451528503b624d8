SPECIFICATION Spec
CONSTANTS
    Jobs = {j1, j2}
    Unhandled = {j2}
    Workers = {w1, w2}
    Serial = FALSE
    MaxRetry = 2
    Backoff = 1
    VisTout = 1
    HandlerMax = 1
    MaxDelay = 1
    MaxFaults = 2
    MaxCancels = 1
    LateCap = 1
    None = None
INVARIANTS Exclusive RetryBudget
