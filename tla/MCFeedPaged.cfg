SPECIFICATION Spec
CONSTANTS
  c1 = c1
  c2 = c2
  a1 = a1
  a2 = a2
  a3 = a3
  Clients = {c1}
  Topics = {1, 2}
  Articles = {a1, a2}
  Limit = 1
  MaxPostId = 2
INVARIANTS NothingHidden
SYMMETRY MCSymmetry
