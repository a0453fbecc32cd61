SPECIFICATION FairTokenSpec
CONSTANTS
  Main = main
  Readers = {r1}
  NoThread = none
  MaxSignals = 2
INVARIANTS
  EarlierSignalWins
PROPERTIES
  CallsReturn
  ImplementsDecision
CHECK_DEADLOCK TRUE
