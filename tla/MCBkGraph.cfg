SPECIFICATION Spec
CONSTANTS
  Null = Null
  MaxOffset16 = 12
  MaxPasses = 4
  Blocks = 5
  Payloads = {0, 2}
  Depth = 2
  Chains = 4
  Heaps <- MCHeaps
INVARIANTS GraphTypeOK MinimalAfterMinimize OutputDecodes
PROPERTIES MeaningKept
