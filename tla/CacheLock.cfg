SPECIFICATION Spec
CONSTANTS
    Keys = {k1}
    Procs = {p1, p2, p3}
    MaxTTL = 1
    MaxWrites = 1
    None = None
INVARIANT AddExcludes
