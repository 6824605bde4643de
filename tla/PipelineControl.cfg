CONSTANTS
    NumAddrs = 8
    LineSize = 2
    NumLines = 2
    NoData = NoData
    Unresolved = Unresolved
    Programs <- MCPrograms
SPECIFICATION FairSpec
INVARIANTS
    PipeInv
    TakesInstrAtPc
    NothingReachesBusyWb
PROPERTIES
    FollowsProgramOrder
    KeepsFetching
