SPECIFICATION Spec
CONSTANTS
  HeapUnits <- MCHeapUnits
  WordUnits <- MCWordUnits
  Requests <- MCRequests
  Null = Null
INVARIANTS
  TypeOK
  WalkTilesHeap
  PinuseExact
  TagsReliable
  KfcExact
  AccountingExact
PROPERTIES
  ImplementsPool
