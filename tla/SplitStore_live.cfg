SPECIFICATION FairSpec
CONSTANTS
  f1 = f1
  f2 = f2
  f3 = f3
  c1 = c1
  c2 = c2
  r1 = r1
  r2 = r2
  k1 = k1
  k2 = k2
  Files <- MCFiles
  Corpora = {c1, c2}
  Roots = {r1, r2}
  CorpusOf <- MCCorpusOf
  RootOf <- MCRootOf
  Keys = {k1, k2}
  NoKey = NoKey
  Offered <- MCOffered
  Writers = {w1, w2}
  Collector = collector
  Free = free
  GroupSize = 1
  MaxFaults = 1
INVARIANTS NoDanglingMap NoDuplicateContent ContentEmbedded
PROPERTIES ImplementsSearchIndex OrphansCollected
