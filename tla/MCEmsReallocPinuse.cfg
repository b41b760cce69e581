SPECIFICATION RSpec
CONSTANTS
  HeapUnits <- MCHeapUnits
  WordUnits <- MCWordUnits
  Requests <- MCRequests
  Null = Null
INVARIANT PinuseExact
