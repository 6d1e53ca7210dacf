SPECIFICATION ShutdownSpec
CONSTANTS
  f1 = f1
  f2 = f2
  c1 = c1
  r1 = r1
  Files = {f1, f2}
  Corpora = {c1}
  Roots = {r1}
  CorpusOf <- MCCorpusOf
  RootOf <- MCRootOf
  Keys = {k1, k2}
  NoKey = NoKey
  Offered <- MCOffered
  Writers = {w1, w2}
  Collector = collector
  Free = free
  GroupSize = 1
  MaxFaults = 1
INVARIANT NoDanglingMap
