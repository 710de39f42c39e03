SPECIFICATION Spec
CONSTANTS
  MaxRuns = 2
  MaxOut = 1
  MaxChunks = 2
  None = None
INVARIANTS TypeOK AliveIsStoppable ResultIsMine SubmissionIsMine
PROPERTIES EndReachesThePage StopEndsTheRun
