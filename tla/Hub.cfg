SPECIFICATION Spec
CONSTANTS
    Clients = {c1, c2}
    Channels = {room, news}
    PresenceChannels = {room}
    Procs = {p1}
    OutboxSize = 1
    Disconnect = TRUE
    MaxCalls = 2
    None = None
INVARIANTS Membership HookAddsUp
PROPERTIES TornDown
CHECK_DEADLOCK FALSE
