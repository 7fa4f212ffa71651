SPECIFICATION Spec
CONSTANTS
  t1 = t1
  bad = bad
  split = split
  NoRef = NoRef
  MaxHostCalls = 3
  MaxPerInvocation = 2
  RegistryCapacity = 3
  MaxOutputItems = 1
  MaxOutputBytes = 1
  InputLen = 1
  MemoryBytes = 2
  NegativePtr = 3
  Ptrs = {0, 1, 2, 3}
  Lens = {0, 1, 2}
  Fuel = 10
  MaxDepth = 2
  MaxInvocations = 2
  RefShapes <- MCRefShapes
  Tokens <- MCTokens
  InvalidTokens = {bad}
  SplitTokens = {split}
  RunnerConfigs <- MCConfigs
  Outputs <- MCOutputs
INVARIANTS TypeOK AnswersPaid ExhaustionIsFinal OwnershipBalanced EngineErrorsRelease
PROPERTIES RefsStable ImplementsContract EveryOperationEnds
CHECK_DEADLOCK FALSE
