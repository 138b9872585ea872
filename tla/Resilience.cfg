SPECIFICATION FairSpec
CONSTANTS
    c1 = c1
    c2 = c2
    c3 = c3
    Callers <- ThreeCallers
    MaxConcurrency = 2
    Threshold = 2
    Cooldown = 2
INVARIANTS SlotsAccounted
PROPERTIES ProbeSpacing ImplementsContract Recovers
