CONSTANTS
    N = 4
    Kind <- MCKind
    Size <- MCSize
    Base <- MCBase
    MaxReal = 4
    MaxChunk = 2
    JsonLen = 2
SPECIFICATION Spec
INVARIANTS PositionsAgree StreamErrorsHaveACause
PROPERTIES BothEnd Delivers
