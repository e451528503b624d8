SPECIFICATION Spec
CONSTANTS
    Jobs = {j1, j2}
    Workers = {w1, w2}
    Unhandled = {j2}
    Serial = TRUE
    MaxRetry = 2
    Backoff = 1
    VisTout = 0
    HandlerMax = 1
    MaxDelay = 0
    MaxFaults = 1
    MaxCancels = 1
    LateCap = 1
    None = None
INVARIANT Deliveries
PROPERTIES AttemptsGrow AtLeastOnce EventuallySettled
