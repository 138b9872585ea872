SPECIFICATION Spec
CONSTANTS
    Policies = {p, q}
    None = None
    MaxClicks = 3
    MaxEdits = 2
    MaxTurns = 2
    MaxFaults = 0
CHECK_DEADLOCK FALSE
INVARIANTS SuggestionReachesItsDraft
