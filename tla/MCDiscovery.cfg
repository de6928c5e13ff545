CONSTANTS
    bcast = bcast
    local = local
    near = near
    lan = lan
    lo = lo
    Dest <- MCDest
    Daemon = {near}
    Addr = {lan, lo}
    Port = {p1, p2}
    Reach <- MCReach
    NameOf <- MCNameOf
    MaxRounds = 2
    MaxRestarts = 1
    MaxStale = 1
SPECIFICATION Spec
INVARIANTS NoGhosts NothingLost PrintedOnce
PROPERTY DiscoverEnds
