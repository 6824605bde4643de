\* LarFileSystem on two lines of two values.  Nothing is interchangeable: the power-up
\* address a0 and the line of zeros are special.
CONSTANTS
    NumLars = 4
    BaseAddr = {a0, a1}
    Addr0 = a0
    Data = {zero, d1}
    Zero = zero
    DataType = {0}
    Type0 = 0
    DataOffset = {0}
    Offset0 = 0
    NoAddr = NoAddr
SPECIFICATION SysSpec
INVARIANTS
    SysInv
    NoRequestIsIgnored
    SnapshotIsCurrent
    CleanLineEqualsMemory
    OneRequestAtATime
PROPERTY ImplementsFlatMemory
