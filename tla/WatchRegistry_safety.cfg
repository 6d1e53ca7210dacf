SPECIFICATION Spec
CONSTANTS
    base = base
    r1 = r1
    k1 = k1
    k2 = k2
    b1 = b1
    b2 = b2
    wide = wide
    None = None
    Sources = {base, r1}
    Baseline = base
    Keys = {k1, k2}
    NameOf <- MCNameOf
    Bindings = {b1, b2, wide}
    BaselineBindings = {b1}
    FirstKey <- MCFirstKey
    Extra <- MCExtra
    Cfg <- MCCfg
    Offers <- MCOffers
    Layers <- MCLayers
    Waited = {r1}
    CatchUpLimit = 2
    MaxRuntime = 1
    MaxChanges = 2
    PumpMayDie = TRUE
    MaxRetargets = 1
INVARIANTS
    AdmissionExact PassOwned EventCovered NoLostWakeup
