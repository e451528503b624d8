SPECIFICATION MCSpec
CONSTANTS
    NoValue = NoValue
    Parts = {"container", "app", "failed", "websocket", "events", "notifications", "database",
             "telescope", "tracing", "metrics", "migrator", "session", "onetime", "access", "throttle",
             "authz", "httpclient", "web", "grpc", "disk", "orm", "query", "seeder", "document",
             "tokens", "coercion", "execution", "spreading", "create", "alter", "form", "dive", "rule",
             "load", "heads", "search", "cut", "group", "pages"}
    Goroutines = {"g", "h"}
    Keys = {"a", "b", "c", "d", "u"}
    Kind <- MCKind
    Deps <- MCDeps
    MaxMakes = 3
    MaxBinds = 1
    Entries <- MCEntries
    Booters = {"p", "m", "q"}
    MaxBoots = 3
    Migrators = {"m", "n"}
    Source <- MCSource
    Enforcing = {"m"}
    MaxCommands = 3
    MaxFaults = 1
    Requests = {"r", "s"}
    User = "u"
    MaxIds = 3
    MaxRequests = 3
    Jobs = {"j", "k"}
    Operators = {"o", "p"}
    MaxFailures = 3
    Tokens = {"t", "u"}
    Callers = {"c", "d"}
    TTL = 1
    Logins = {"l", "m"}
    maxAttempts = 2
    Window = 2
    MaxHits = 6
    Conns = {"c", "d"}
    Channels = {"ch"}
    Procs = {"p", "q"}
    Outbox = 1
    MaxOps = 2
    Dispatchers = {"d", "e"}
    MaxListeners = 3
    MaxForgets = 1
    ChannelNames <- MCChannelNames
    MaxRegister = 2
    Names = {"x", "y"}
    Pools = {"1", "2", "3"}
    MaxLoggers = 1
    Capacity = 2
    maxNPlusRequests = 1
    Statements = {"q"}
    MaxEntries = 4
    Spans = {"a", "b", "c"}
    Enders = {"x", "y"}
    RingCapacity = 2
    MaxEnds = 3
    Adds = 2
    MaxRows = 2
    Size = 1
    Clients = {"a", "b"}
    MaxRetries = 1
    MaxBody = 1
    Guards = {"auth", "csrf"}
    MaxDecls = 4
    MaxWrites = 1
    Calls = {"a", "b"}
    HasAuth = TRUE
    RecoveryOption = FALSE
    Logging = FALSE
    Extra = 0
    Writers = {"w", "x", "y"}
    Paths = {"p", "q"}
    Chunks = 2
    MaxRegistrations = 2
INVARIANTS
    Resolution
    Startup
    Registries
    Telemetry
    
    
    
    
    
    
    
CHECK_DEADLOCK FALSE
