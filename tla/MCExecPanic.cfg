SPECIFICATION Spec
CONSTANTS
  MaxRuns = 2
  MaxOut = 1
  MaxChunks = 2
  None = None
INVARIANT NoPanic
