SPECIFICATION Spec
CONSTANTS
    Jobs = {j1}
    Workers = {w1, w2, w3}
    Unhandled = {}
    Serial = FALSE
    MaxRetry = 2
    Backoff = 1
    VisTout = 1
    HandlerMax = 2
    MaxDelay = 1
    MaxFaults = 0
    MaxCancels = 0
    LateCap = 1
    None = None
INVARIANT ReservationHolds
