SPECIFICATION Spec
CONSTANTS
    c1 = c1
    c2 = c2
    c3 = c3
    Callers <- TwoCallers
    MaxConcurrency = 2
    Threshold = 1
    Cooldown = 1
INVARIANT SingleProbe
