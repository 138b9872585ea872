SPECIFICATION Spec
CONSTANTS
    Runs = {r1, r2}
    First = r1
    Polls = {p1, p2}
    None = None
    MaxClicks = 2
INVARIANT PollsItsRun
CHECK_DEADLOCK FALSE
