CONSTANTS
    None = None
    Absent = Absent
    Empty = Empty
    Torn = Torn
    p = p
    q = q
    a = a
    b = b
    c = c
    an = an
    bn = bn
    cn = cn
    dev = dev
    mine = mine
    Proc <- MCProc
    SockAddr <- MCSockAddr
    Name <- MCName
    DefaultName <- MCDefault
    DeviceName <- MCDevice
    Commands <- MCCommands
    InitFiles <- MCFiles
    MaxKills = 1
SPECIFICATION RegistrySpec
INVARIANTS SavedIsNormal UnreadableHasACause
PROPERTIES RewriteKeepsPrimary CommandsTakeEffect
