SPECIFICATION TunnelSpec
CONSTANTS
    Idle = 3
    Write = 2
    Drain = 1
    MaxRequests = 2
INVARIANT DrainBounded
