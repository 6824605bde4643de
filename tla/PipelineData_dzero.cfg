\* PipelineData with two LARs beside dzero, on two lines of two values, through one of
\* the three read ports.  One LAR goes back and forth between the lines, the other is
\* its alias on the power-up address.
CONSTANTS
    NumLars = 3
    BaseAddr = {a0, a1}
    Addr0 = a0
    Data = {zero, d1}
    Zero = zero
    DataType = {0}
    Type0 = 0
    DataOffset = {0}
    Offset0 = 0
    NoAddr = NoAddr
    Unknown = Unknown
    Ports = {"a"}
    Roaming = {1}
SPECIFICATION DataSpec
INVARIANT DzeroReadsZero
