\* Two commands for one directory.
SPECIFICATION Spec
CONSTANTS
  c1 = c1
  c2 = c2
  Commands = {c1, c2}
  User = user
  Arguments <- MCArguments
SYMMETRY Interchangeable
INVARIANTS SuccessIsWhole FailureLeavesNothing NoMixedProjects
PROPERTIES OlderEntriesLast
CHECK_DEADLOCK FALSE
