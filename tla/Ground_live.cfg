SPECIFICATION GRFairSpec
CONSTANTS
    f1 = f1
    f2 = f2
    c1 = c1
    c2 = c2
    r1 = r1
    Files = {f1, f2}
    Corpora = {c1, c2}
    CorpusOf <- MCCorpusOf
    Start <- MCStart
    Pages = {f2}
    Edited = {f2}
    Requests = {r1}
    Sound = {c1}
    Offers <- MCOffers
    Permits = 1
    FallbackMax = 1
    MaxTime = 1
    Nothing = Nothing
PROPERTIES NothingMissed HitsHonest RequestEnds
