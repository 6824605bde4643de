\* The same with one value: what ends a load or store does not depend on the data.
CONSTANTS
    NumLars = 3
    BaseAddr = {a0, a1}
    Addr0 = a0
    Data = {zero}
    Zero = zero
    DataType = {0}
    Type0 = 0
    DataOffset = {0}
    Offset0 = 0
    NoAddr = NoAddr
    InstrAddr = {a1}
SPECIFICATION FairAccessorsSpec
PROPERTY LdStCompletes
