SPECIFICATION FairSpec
CONSTANTS
    Mutations = {m1}
    CatchUps = {c1}
    BootPasses = {}
    Keys = {1, 2}
    KeysOf <- MCKeysOf
    SoftDebt = 1
    HardDebt = 1
    MaxDebt = 1
    SliceBudget = 1
    MaxPolls = 1
    DeferBound = 1
    Maintenance = maintenance
    None = None
INVARIANT WriteProtected
PROPERTIES MutationEnds DuePassRuns
