SPECIFICATION FairSpec
CONSTANTS
    Runs = {r1, r2}
    First = r1
    Polls = {p1, p2}
    None = None
    MaxClicks = 3
INVARIANTS PollAlive
PROPERTIES PollingEnds RunEndShown
CHECK_DEADLOCK FALSE
