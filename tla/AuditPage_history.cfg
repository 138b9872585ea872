SPECIFICATION Spec
CONSTANTS
    Entries = {1, 2, 3}
    Old = {1, 2, 3}
    Senders = {"ada", "bob"}
    SenderOf <- MCSenderOf
    Whole = {3}
    Limit = 2
    None = None
    MaxClicks = 3
    MaxFaults = 1
CHECK_DEADLOCK FALSE
INVARIANTS CompleteHistory
