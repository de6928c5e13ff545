CONSTANTS
    N = 4
    Kind <- MCKind
    Size <- MCSize
    Base <- MCBase
    MaxReal = 4
    MaxChunk = 2
    Header = 1
SPECIFICATION Spec
INVARIANT PositionsAgree
PROPERTIES BothEnd Delivers
