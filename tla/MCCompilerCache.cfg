SPECIFICATION Spec
CONSTANTS
  j1 = j1
  j2 = j2
  j3 = j3
  cpp = cpp
  python = python
  Job <- ThreeJobs
  Compiler <- TwoCompilers
  None = None
  MaxChunks = 1
CHECK_DEADLOCK FALSE
INVARIANTS TypeOK FetchedOnce BarsAreDownloads
PROPERTIES EveryoneGetsATurn
