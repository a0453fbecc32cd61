SPECIFICATION FairSpec
CONSTANTS
  MaxOps = 3
  Capacity = 1
  Sources = {1, 2}
  Scopes <- MCScopes
INVARIANTS
  SuccessIsValidated
  ReceiptIsOfSelection
  OutputIsFresh
  QuitLeavesNothing
  RecoveryWins
PROPERTIES
  GrantIsConfirmed
  CancellingEnds
