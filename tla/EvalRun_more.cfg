SPECIFICATION FairSpec
CONSTANTS
    N = 3
    BatchSize = 2
    Capacity = 1
    Concurrency = 2
    Limits = {0, 2}
INVARIANTS TypeOK StatusSaysWhy
PROPERTIES ResultsFinal FetcherEnds
