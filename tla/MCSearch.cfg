SPECIFICATION SearchSpec
CONSTANTS
  c1 = c1
  c2 = c2
  a1 = a1
  a2 = a2
  a3 = a3
  Clients = {c1, c2}
  Topics = {1, 2}
  Articles = {a1, a2, a3}
  Limit = 2
  MaxPostId = 3
  Searchers = {c1}
  MaxPageSize = 2
INVARIANTS TypeOK OnlyCutHidden SearchTypeOK NothingMissed NothingRepeated CursorSplits
PROPERTIES NeverRewinds
SYMMETRY MCSymmetry
