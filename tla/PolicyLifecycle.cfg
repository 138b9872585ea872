SPECIFICATION LifecycleSpec
CONSTANTS
    Policies = {p1, p2, p3}
    Contents = {strict, lax}
    Users = {alice}
    Admins = {root, ops}
    Requests = {q1}
    Runs = {e1}
    None = None
SYMMETRY Symmetry
INVARIANTS DraftNeverAssigned TrailExplains
PROPERTIES PublishedFrozen
