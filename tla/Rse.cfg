CONSTANTS
    N = 3
    Group = 3
    HasClean = FALSE
    MaxWord = 9
SPECIFICATION Spec
INVARIANT Partitioned
INVARIANT CollectionsCounted
INVARIANT RestartExact
INVARIANT ValueFound
