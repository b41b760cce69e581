SPECIFICATION Spec
CONSTANTS
  Files <- MCFiles
  WordMod = 256
  PageBytes = 64
  MaxPages = 4
  RefMax = 2
  Null = Null
INVARIANTS
  ReferencesResolve
  BlocksFreedOnce
  RelocationsApplied
  ShrinkKeepsData
CHECK_DEADLOCK FALSE
