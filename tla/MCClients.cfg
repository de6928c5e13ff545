CONSTANTS
    MaxSize = 2
    InlineMax = 1
    MaxWrites = 2
    PullRequests <- MCRequests
SPECIFICATION Spec
INVARIANTS PullIsExact MismatchHasACause AtomicSaveNeverTears EditIsKept UpdateLostNeedsRace
