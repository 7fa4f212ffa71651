\* Every directory of up to three files out of five, and malformed ones.
SPECIFICATION Spec
CONSTANTS
  u1 = u1
  u2 = u2
  wide = wide
  narrow = narrow
  refs = refs
  counts = counts
  recounts = recounts
  mixed = mixed
  broken = broken
  d1 = d1
  d2 = d2
  Urls = {u1, u2}
  NoUrl = NoUrl
  Requests <- MCRequests
  Files = {wide, narrow, refs, counts, recounts, mixed, broken}
  Content <- MCContent
  Trees <- MCTrees
  DomainLists <- MCDomainLists
  MaxRefs = 2
  NoCount = NoCount
  NoRule = NoRule
CHECK_DEADLOCK FALSE
INVARIANTS NothingRunsOnBadFixtures SuccessIsEarned AnswersNeedNoOrder
