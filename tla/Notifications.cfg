SPECIFICATION NotifyFairSpec
CONSTANTS
    alice = alice
    bob = bob
    a1 = a1
    a2 = a2
    NoConnection = NoConnection
    Users = {alice, bob}
    Connections = {a1, a2}
    UserOf <- MCUserOf
    Broadcasters = {r1, r2}
    MaxEvents = 2
    Capacity = 1
INVARIANTS NeverPanics
PROPERTIES InOrder BroadcastReturns
