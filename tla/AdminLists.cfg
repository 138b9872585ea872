SPECIFICATION Spec
CONSTANTS
    Users = {ada, bob}
    MaxPolicies = 3
    Limit = 2
    MaxClicks = 5
INVARIANTS NoUserTwice RowsComplete
CHECK_DEADLOCK FALSE
