SPECIFICATION FairSpec
CONSTANT Actions <- AllActions
INVARIANTS
  CancelledNeverSucceeds
  VisibleReportIsWhole
PROPERTIES
  CancelStops
  ObservesOneDecision
CHECK_DEADLOCK TRUE
