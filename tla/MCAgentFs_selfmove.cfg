CONSTANTS
    Absent = Absent
    Dir = Dir
    Empty = Empty
    Torn = Torn
    NoSha = NoSha
    Nothing = Nothing
    c1 = c1
    c2 = c2
    old = old
    oldIn = oldIn
    x = x
    y = y
    Path <- MCPath
    Inode <- MCInode2
    Conn <- MCConn2
    Nonce <- MCNonce2
    Content <- MCContent
    Size <- MCSize
    Requests <- MCSelfMoveRequests
    InitTrees <- MCInitTrees
    InitData <- MCInitData
    MaxCrashes = 1
SPECIFICATION Spec
PROPERTY FailedMoveKeepsSource
