SPECIFICATION Spec
CONSTANTS
  PageBytes = 4
  MaxPages = 4
  Programs <- MCPrograms
  Widths = {1, 2, 4}
  Traps <- MCTraps
  Blocks <- MCBlocks
  MaxDepth = 2
INVARIANTS
  TypeOK
  BoundsExact
  MemoryBacked
  AnswerHonest
PROPERTIES
  TrapStopsCall
  TrapReturns
