SPECIFICATION Spec
CONSTANTS
  MaxRuns = 3
  None = None
PROPERTY StopReachesItsRun
