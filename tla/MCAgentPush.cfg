CONSTANTS
    a = a
    b = b
    Old = Old
    Nobody = Nobody
    Client <- MCClient
    R = 2
    IsDir <- MCIsDir
    Options <- MCOptions
    MaxDisconnects = 1
    MaxCrashes = 1
SPECIFICATION Spec
INVARIANTS DestinationIsWhole SuccessIsDelivered LossNeedsInterruption
PROPERTY EveryPushEnds
