SPECIFICATION Spec
CONSTANTS
    Jobs = {j1, j2}
    Workers = {w1, w2}
    MaxRetry = 2
    Backoff = 2
    VisTout = 2
    HandlerMax = 1
    MaxDelay = 1
    MaxFaults = 1
    MaxAttempts = 1
    MaxCopies = 3
    None = None
INVARIANT Safety
PROPERTIES EventuallySettled
