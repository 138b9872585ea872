SPECIFICATION TunnelFairSpec
CONSTANTS
    Idle = 3
    Write = 2
    Drain = 1
    MaxRequests = 2
INVARIANTS AnsweredInOrder RevocationTakesEffect IdleRelayEnds
PROPERTIES BusyRelayStays TunnelEnds
