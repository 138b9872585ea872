SPECIFICATION Spec
CONSTANTS
    N = 2
    BatchSize = 2
    Capacity = 1
    Concurrency = 1
    Limits = {0}
PROPERTY CompletedUncanceled
