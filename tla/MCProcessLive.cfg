SPECIFICATION Spec
CONSTANTS
  Main = main
  t2 = t2
  t3 = t3
  None = none
  Thread <- TwoThreads
  Calls <- AllCalls
PROPERTIES
  EveryWaitEnds
  CancelStopsOneThread
\* A process that ended stays ended.
CHECK_DEADLOCK FALSE
