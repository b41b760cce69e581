SPECIFICATION Spec
CONSTANTS
  FuncTypes <- MCFuncTypes
  BlockTypes <- MCBlockTypes
  Shapes <- MCShapes
  TableSizes <- MCTableSizes
  MaxOpen <- MCMaxOpen
  MaxOperands <- MCMaxOperands
  None = None
VIEW StackView
CHECK_DEADLOCK FALSE
INVARIANTS
  NeverFails
  OperandsAgree
  PhisMatchEdges
  EndsOnce
  ReachedOnly
  ReachableExact
