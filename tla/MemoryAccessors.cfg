\* The smallest LAR file with two LARs that can alias (one of the three is dzero), on
\* two lines of two values; instructions are read from one of the lines.
CONSTANTS
    NumLars = 3
    BaseAddr = {a0, a1}
    Addr0 = a0
    Data = {zero, d1}
    Zero = zero
    DataType = {0}
    Type0 = 0
    DataOffset = {0}
    Offset0 = 0
    NoAddr = NoAddr
    InstrAddr = {a1}
SPECIFICATION AccessorsSpec
INVARIANT AccessorsInv
PROPERTY ImplementsLarFileSystem
