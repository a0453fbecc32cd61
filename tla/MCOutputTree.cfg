CONSTANTS
  p1 = p1
  p2 = p2
  Processes = {p1, p2}
  MaxDirectories = 5
  MaxStarts = 3
  MaxEdits = 1
  MaxSwaps = 1
SPECIFICATION Spec
SYMMETRY Symmetry
INVARIANTS SealedReportIsWhole AnalysisIsWhole TablesAreOfTheSource
PROPERTIES ReportIsThereAlone FinishedReportStays
CHECK_DEADLOCK FALSE
