SPECIFICATION FairSpec
CONSTANTS
    Files = {f1, f2}
    Texts = {a, b}
    BatchSize = 2
    MaxTime = 1
    MaxEdits = 2
    MaxFaults = 1
    None = None
INVARIANT PassRowsSound
PROPERTIES PassConverges Settles
