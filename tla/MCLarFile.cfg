CONSTANTS
    a0 = a0
    a1 = a1
    a2 = a2
    a3 = a3
    d0 = d0
    NumLars = 4
    BaseAddr = {a0, a1, a2, a3}
    Addr0 = a0
    Data = {d0}
    Zero = d0
    DataType = {0}
    Type0 = 0
    DataOffset = {0}
    Offset0 = 0
SPECIFICATION Spec
SYMMETRY Symmetry
INVARIANTS
    RefCountsAreExact
    StackHoldsFreeTags
    OneElementPerLine
    PopsAndPushesFit
    DirtyElementsAreInUse
    LarInv
PROPERTY DirtyLineIsWrittenBack
