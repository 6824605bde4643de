CONSTANTS
    Programs <- MCPrograms
SPECIFICATION ToolchainSpec
CHECK_DEADLOCK FALSE
INVARIANTS
    SecondPassReplaysScopes
    PassesAgreeOnAddresses
    ReferencesResolveLexically
    RefusesExactlyBadPrograms
    ImageIsProgram
    CpuRunsTheSource
    ListingShowsTheSource
    ToolInv
