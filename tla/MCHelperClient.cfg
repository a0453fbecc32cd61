SPECIFICATION FairSpec
CONSTANTS
  MaxRuns = 2
  MaxFrames <- MCMaxFrames
  Written = {"completed", "progress", "bad"}
  Capacity = 1
INVARIANTS
  ResultIsTheHelpers
  StoppedForCause
PROPERTIES
  RunsEnd
  ImplementsStream
