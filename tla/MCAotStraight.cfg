SPECIFICATION Spec
CONSTANTS
  ByteBits = 2
  Fraction <- MCFraction
  Infinity <- MCInfinity
  Ieee <- MCIeee
  Targets <- MCTargets
  Samples <- MCSamples
  SwizzleIds <- MCSwizzleIds
  Addresses = {0, 3, 5}
  Offsets = {0, 2}
  InitialMemory <- MCInitialMemory
  Base = 1000
  FuncTypes <- MCFuncTypes
  Functions <- MCFunctions
  Imports <- MCImports
  Natives <- MCNatives
  TableInit <- MCTableInit
  TableSize = 14
  Answer <- MCAnswer
  Exports <- MCExports
  Blocks = {8, 16, 160}
  Arguments <- MCArguments
  LebBits = 4
  Bodies <- MCBodies
  LibcMemories <- MCLibcMemories
  LibcArguments <- MCLibcArguments
  PrintCalls <- MCPrintCalls
  TempFormat = 5
  StringBuffer = 1
  LongestString = 3
INVARIANTS
  IntegersAgree
  FloatsAgree
  VectorsAgree
  MemoryAgrees
  CallsAgree
  BlocksFound
  LibcAgrees
CHECK_DEADLOCK FALSE
