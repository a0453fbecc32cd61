SPECIFICATION Spec
CONSTANTS
  MaxOps = 1
  Capacity = 1
  Sources = {1}
  Scopes <- MCPrompt
INVARIANT CompletionWins
