SPECIFICATION Spec
CONSTANTS
    Values = {a, b}
    Size = 4
    Modulus = 16
    Empty = Empty
    Threads = {1, 2}
    StackNodes = {n1, n2, n3}
    NoNode = NoNode
    Lists = {l, k}
    Nodes = {n1, n2, n3}
    Null = Null
    Tasks = {1, 2, 3, 4, 5, 6}
    Parent <- MCParent
    Unsigned = 8
    UseSize = 14
    IntRoom = 5
    HexRoom = 6
    Width = 8
    Ints <- MCInts
    Texts = {0, 2, 5, 9, 13}
    MaxAppends = 2
    Fractions <- MCFractions
    Exponents <- MCExponents
    Bits <- MCBits
    IntArgs <- MCIntArgs
    DoubleArgs <- MCDoubleArgs
    MaxArgs = 3
    BasicSizes = {1, 2, 4, 8}
    MaxStructs = 2
    MaxFields = 3
    Addresses = {128, 129, 130, 132, 136}
INVARIANTS
    ListInv
    SemaphoreInv
    TextInv
    NumbersInv
    LayoutInv
PROPERTIES
    IsFifo
    IsStack
    TreeReturns
CHECK_DEADLOCK FALSE
