SPECIFICATION MCSpec
CONSTANTS
    Parts = {"breaker", "policies"}
    Callers = {c1, c2, c3}
    MaxRequests = 2
    OpenTimeout = 1
    ConsecutiveFailures = 2
    MinRequests = 2
    RatioNum = 2
    RatioDen = 3
    MaxCalls = 4
    Calls = {p1, p2}
    MaxAttempts = 2
    MaxConcurrent = 1
    MaxQueue = 1
    Burst = 1
    Cancellable = {p1}
    Keys = {}
    Procs = {}
    MaxTTL = 1
    MaxWrites = 1
    None = None
INVARIANTS Accounting PoliciesSafe
PROPERTIES OpenHolds Recovers SlotsComeBack
CHECK_DEADLOCK FALSE
