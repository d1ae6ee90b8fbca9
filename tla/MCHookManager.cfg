CONSTANTS
  on_open = on_open
  Handler <- MCHandler
  CodeSize = 6
  Size = 3
  CellsPerWord = 2
  MaxHooks = 2
  MaxMisread = 2
SPECIFICATION Spec
INVARIANTS HookInv UnhookedIsPristine
