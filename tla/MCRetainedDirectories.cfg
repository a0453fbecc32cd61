SPECIFICATION Spec
CONSTANTS
  Dirs = {1, 2, 3, 4, 5, 6, 7, 8}
  Root <- Out
  Paths <- MCPaths
  Programs <- MCPrograms
  Earlier <- MCEarlier
  Temporary <- MCTemporary
  OtherNames = {"sub", "final"}
  Desk = Desk
  None = None
  MaxRetained = 2
  MaxMeddling = 3
INVARIANTS
  RetainedInPlace
  WrittenIsReachable
  FailsForCause
PROPERTIES
  OnlyTheTreeIsDeleted
