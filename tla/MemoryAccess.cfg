\* MemoryAccessSystem on two lines of two values each.  Lines and values are
\* interchangeable, but no symmetry is used: liveness is checked.
CONSTANTS
    Addr = {a0, a1}
    Data = {d0, d1}
SPECIFICATION SysSpec
INVARIANTS
    SysInv
    AcceptedOnce
    OneDataAnswerPerEdge
PROPERTIES
    ImplementsMemoryPorts
    EveryClientIsAnswered
