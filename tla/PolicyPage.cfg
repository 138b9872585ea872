SPECIFICATION Spec
CONSTANTS
    Policies = {p, q}
    None = None
    MaxClicks = 3
    MaxEdits = 2
    MaxTurns = 2
    MaxFaults = 1
SYMMETRY MCSymmetry
CONSTRAINT MCTextsAndFaults
CHECK_DEADLOCK FALSE
INVARIANTS TextStaysHome SuggestionSentOnce
PROPERTIES PublishedIsReviewed TurnsKept
