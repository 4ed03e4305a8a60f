SPECIFICATION Spec
CONSTANTS
  Nameless = Nameless
  Unknown = Unknown
  None = None
  N = 3
  Applies = 1
  Tables <- MCTables
INVARIANTS RequiredFeatureAlive
