SPECIFICATION RSpecDefined
CONSTANTS
  HeapUnits <- MCHeapUnits
  WordUnits <- MCWordUnits
  Requests <- MCRequests
  Null = Null
INVARIANTS
  GrowthKeepsHeap
  AnswerCoversRequest
VIEW LayoutView
CHECK_DEADLOCK FALSE
