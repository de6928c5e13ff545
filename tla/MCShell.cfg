CONSTANTS
    MaxOut = 2
    MaxIn = 3
    PipeCap = 1
    NetCap = 1
    PumpCap = 1
SPECIFICATION Spec
INVARIANTS ExitMeansAllOutput InputInOrder FailureHasACause CommandLeftNeedsFault
PROPERTY SessionEnds
