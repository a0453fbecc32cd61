SPECIFICATION Spec
CONSTANTS
  Control = {"Manifest.db", "Status.plist"}
  Status = "Status.plist"
  Payload = {"p1", "p2"}
  Clients = {"native", "cli"}
  MaxEdits = 2
  MaxSwaps = 2
INVARIANTS
  CompleteIsOneMoment
  PlaintextIsOfConfirmed
  NothingIsDenied
  UntouchedIsAccepted
