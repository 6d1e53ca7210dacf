SPECIFICATION FairSpec
CONSTANTS
    d1 = d1
    d2 = d2
    o1 = o1
    o2 = o2
    o3 = o3
    o4 = o4
    home = home
    repo = repo
    kBase = kBase
    kRepo = kRepo
    kOther = kOther
    a = a
    b = b
    Daemons = {d1, d2}
    Openers = {o1, o2, o3, o4}
    DaemonOf <- MCDaemonOf
    Asks <- MCAsks
    Dirs = {home, repo}
    Keys = {kBase, kRepo, kOther}
    DirOf <- MCDirOf
    ConfigOf <- MCConfigOf
    Embeds = {kBase}
    Base = kBase
    Watched = {kBase, kRepo}
    Copies = 4
    Current = 1
    Found <- MCFound
    BackedUp = {home}
    MaxFaults = 1
    None = None
INVARIANTS StoreAtHome OriginalKept
PROPERTY Refilled
