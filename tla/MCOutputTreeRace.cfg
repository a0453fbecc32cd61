CONSTANTS
  p1 = p1
  p2 = p2
  Processes = {p1, p2}
  MaxDirectories = 5
  MaxStarts = 3
  MaxEdits = 0
  MaxSwaps = 0
SPECIFICATION Spec
SYMMETRY Symmetry
PROPERTY ReportIsThere
CHECK_DEADLOCK FALSE
