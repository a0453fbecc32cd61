SPECIFICATION CapturedSpec
CONSTANTS
  Kinds = {"snapshot", "archive", "export"}
  Main = "dio"
  Optional = {"wal"}
  Places = {"db", "root"}
  Versions = {"v1", "v2"}
  Firsts = {"v1"}
  Absent = Absent
  Archives <- MCArchives
  Exports <- MCExports
  MaxEdits = 2
  MaxMoves = 2
  Phones = {"p1", "p2"}
  NoPhone = "nobody"
  Installed <- MCInstalled
  MaxPlugs = 2
  MaxSwaps = 1
  MaxDisturbances = 2
  Held <- MCHeld
INVARIANTS
  OnlyCandidatesAreAsked
  SealedIsWhatThePhoneGave
  SealedIsOneMoment
  NothingIsDropped
PROPERTIES
  CaptureEnds
