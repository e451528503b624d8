SPECIFICATION Spec
CONSTANTS
    Jobs = {j1, j2}
    Workers = {w1, w2}
    Unhandled = {j2}
    MaxRetry = 3
    Backoff = 1
    MaxDelay = 1
    MaxExits = 1
    RestCap = 2
    None = None
INVARIANT Safety
PROPERTIES AtLeastOnce EventuallySettled
