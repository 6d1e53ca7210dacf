SPECIFICATION FairSpec
CONSTANTS
    f1 = f1
    f2 = f2
    None = None
    Reg = {1, 2}
    Corpus <- MCCorpus
    Path = {1, 2}
    File = {f1, f2}
    Under <- MCUnder
    Allows <- MCAllows
    Offer <- MCOffer
    Booted <- MCBooted
    MaxPending = 1
    MaxEdits = 2
    MaxRegs = 1
    MaxFaults = 1
INVARIANT EventRemembered
PROPERTY ChangeCovered
