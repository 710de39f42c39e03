SPECIFICATION SafeSpec
CONSTANTS
  Main = main
  t2 = t2
  t3 = t3
  None = none
  Thread <- ThreeThreads
  Calls <- SafetyCalls
SYMMETRY SpawnedSymmetry
INVARIANTS
  TypeOK
  NoLostAnswer
  NoOrphanThread
  EndIsFinal
\* A process that ended stays ended.
CHECK_DEADLOCK FALSE
