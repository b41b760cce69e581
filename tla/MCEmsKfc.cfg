SPECIFICATION Spec
CONSTANTS
  c1 = c1
  c2 = c2
  c3 = c3
  c4 = c4
  c5 = c5
  Root = Root
  Null = Null
  Chunks <- MCChunks
  Sizes <- MCSizes
  NormalCnt <- MCNormalCnt
SYMMETRY Symmetry
INVARIANTS
  LinksAgree
  TreeOrdered
PROPERTIES
  ImplementsStore
