SPECIFICATION ZigSpec
CONSTANTS
  t1 = t1
  split = split
  NoRef = NoRef
  MaxHostCalls = 2
  MaxPerInvocation = 1
  RegistryCapacity = 3
  MaxOutputItems = 1
  MaxOutputBytes = 1
  InputLen = 2
  ResponseLen = 1
  MemoryBytes = 6
  NegativePtr = 8
  Ptrs = {0, 1, 2, 3, 4, 5}
  Lens = {0, 1, 2}
  Fuel = 15
  MaxDepth = 1
  MaxInvocations = 2
  RefShapes <- MCRefShapes
  Tokens <- MCTokens
  InvalidTokens = {}
  SplitTokens = {split}
  RunnerConfigs <- MCConfigs
  Outputs <- MCOutputs
INVARIANTS ZigTypeOK ZigNoMisuse ZigOneOwner CallsLeaveNothing
CHECK_DEADLOCK FALSE
