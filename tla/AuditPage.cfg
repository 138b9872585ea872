SPECIFICATION FairSpec
CONSTANTS
    Entries = {1, 2, 3}
    Old = {2}
    Senders = {"ada", "bob"}
    SenderOf <- MCSenderOf
    Whole = {3}
    Limit = 2
    None = None
    MaxClicks = 3
    MaxFaults = 1
CHECK_DEADLOCK FALSE
INVARIANTS RowsMatchFilter NewestFirst ReasonBelongs
PROPERTIES LoadingEnds
