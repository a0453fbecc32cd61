SPECIFICATION Spec
CONSTANTS
  MaxRows = 3
  MaxTotalRows = 5
  Caches <- MCCaches
  Named <- MCNamed
  Paths <- MCPaths
  Texts <- MCTexts
  Images = {"some"}
  Validators = {v1, v2}
  Absent = Absent
  MaxDisturbances = 2
SYMMETRY MCSymmetry
INVARIANTS
  AcceptedIsOneMoment
  RefusedForCause
  TablesKeepTheBest
  SeenIsTheAccounts
