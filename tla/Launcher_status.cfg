CONSTANTS
  Files <- MCFiles
  Keys = {"y", "n", "e", "nl"}
  TypedLines <- MCTypedLines
  MaxInterrupts = 2
SPECIFICATION Spec
INVARIANT StatusReflectsClients
