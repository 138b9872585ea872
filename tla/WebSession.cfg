SPECIFICATION FairSpec
CONSTANTS
    Users = {ada, bob, guest}
    Admins = {ada, bob}
    Clients = {c1, c2, c3}
    None = None
    MaxLeaving = 2
    MaxFaults = 2
INVARIANTS ActsAsShown QuietWhenSignedOut LiveFeedAttached
PROPERTIES StreamRecovers SignOutEnds
