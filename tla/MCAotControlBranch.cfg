SPECIFICATION Spec
CONSTANTS
  FuncTypes <- MCFuncTypes
  BlockTypes <- MCPairTypes
  Shapes <- MCShapes
  TableSizes <- MCTableSizes
  MaxOpen <- MCMaxOpen
  MaxOperands <- MCPairOperands
  None = None
VIEW StackView
CHECK_DEADLOCK FALSE
INVARIANT NothingAfterBranch
