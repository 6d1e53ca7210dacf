SPECIFICATION WIFairSpec
CONSTANTS
    Reg = {1, 2}
    Layer = {2}
    Path = {1, 2}
    Offer <- MCOffer
    Booted <- MCBooted
    MaxChanges = 3
    MaxDisk = 1
    MaxDeaths = 1
    BackendMayFail = TRUE
    NoMode = NoMode
    Absent = Absent
INVARIANT WatchesAccounted
PROPERTIES DegradedShown WatchesSettle
