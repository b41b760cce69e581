SPECIFICATION Spec
CONSTANTS
  ValueTypes <- MCValueTypes
  MemOffsetType = "i64"
  TableIndexType = "i32"
  FuncTypes <- MCFuncTypes
  MaxCells <- MCMaxCells
  MaxBlocks <- MCMaxBlocks
  BlockTypes <- MCBlockTypes
  Depths <- MCDepths
  TableSizes <- MCTableSizes
VIEW StackView
INVARIANTS
  TypeOK
  OperandsWhole
  AnyOnlyAtBase
PROPERTIES
  LowerOperandsKept
  ImplementsTyping
CHECK_DEADLOCK FALSE
