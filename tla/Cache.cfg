SPECIFICATION MCSpec
CONSTANTS
    Parts = {"cache"}
    Callers = {}
    MaxRequests = 2
    OpenTimeout = 1
    ConsecutiveFailures = 2
    MinRequests = 2
    RatioNum = 2
    RatioDen = 3
    MaxCalls = 4
    Calls = {}
    MaxAttempts = 2
    MaxConcurrent = 1
    MaxQueue = 1
    Burst = 1
    Cancellable = {}
    Keys = {k1}
    Procs = {p1, p2, p3}
    MaxTTL = 1
    MaxWrites = 1
    None = None
INVARIANT Flights
PROPERTIES NoRefill 
