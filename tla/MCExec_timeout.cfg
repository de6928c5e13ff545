CONSTANTS
    MaxOut = 3
    PipeCap = 3
    MaxChunk = 2
    SocketCap = 2
    JsonLen = 1
    MaxPayload = 5
SPECIFICATION Spec
INVARIANT TimeoutAlwaysReported
