SPECIFICATION MCSpec
CONSTANTS
    Stoppers = {s1, s2}
    MaxRuns = 3
    MaxStops = 4
    CancelAllowed = FALSE
    Tasks = {t1, t2}
    Runs = {r1, r2}
    Interval = 1
    Minute = 2
    Hour = 2
    Day = 2
    Week = 2
    Month = 5
    Every = 5
    AtHour = 1
    AtMinute = 1
    MaxRun = 14
    Horizon = 60
    Subs = {u1, u2}
    Publishers = {q1, q2}
    Buffer = 1
    MaxPublish = 1
    windowSize = 2
    MaxSeconds = 4
    MaxJobs = 2
    Grandchildren = {g1, g2}
INVARIANTS RestartSound TasksOnTime SubscribersServed ClocksKept 
PROPERTIES FreshStarts EverythingStops
CHECK_DEADLOCK FALSE
