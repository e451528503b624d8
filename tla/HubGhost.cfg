SPECIFICATION Spec
CONSTANTS
    Clients = {c1, c2}
    Channels = {room, news}
    PresenceChannels = {room}
    Procs = {p1}
    OutboxSize = 1
    Disconnect = FALSE
    MaxCalls = 2
    None = None
INVARIANT NoGhosts
CHECK_DEADLOCK FALSE
