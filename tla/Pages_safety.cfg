SPECIFICATION Spec
CONSTANTS
    root = root
    sub = sub
    top = top
    low = low
    hA = hA
    hB = hB
    hC = hC
    t1 = t1
    t2 = t2
    t3 = t3
    Blank = Blank
    StartMark = StartMark
    EndMark = EndMark
    None = None
    Words = {root, sub, top, low, hA, hB, hC, t1, t2, t3, Blank, StartMark, EndMark}
    Clients = {c1, c2}
    Pages = {top, low}
    Dirs = {root, sub}
    Root = root
    ParentDir <- MCParentDir
    Chain <- MCChain
    Order <- MCOrder
    Requests <- MCRequests
    MaxRequests = 4
    MaxFaults = 1
SYMMETRY Symmetry
INVARIANTS
    NoLostUpdate OutlineKept RowsAccounted LinksAccounted
