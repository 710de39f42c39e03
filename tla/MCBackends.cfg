SPECIFICATION Spec
CONSTANTS
  MaxRuns = 3
  None = None
INVARIANTS TypeOK EndsOnce
PROPERTY StoppedOrLimited
