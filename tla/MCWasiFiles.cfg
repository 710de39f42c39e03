SPECIFICATION Spec
CONSTANTS
  Name <- TwoNames
  Byte <- OneByte
  Path <- Paths
  Image <- Images
  Chunk <- Chunks
  NotDir = NotDir
  NoEnt = NoEnt
  Exist = Exist
  Zero = 0
  Given <- OnlyErr
  MaxFd = 4
  MaxOpen = 3
  MaxInodes = 3
  MaxData = 1
  None = None
INVARIANTS
  TypeOK
  Tree
  NoBadUnwrap
  LookupsAgree
PROPERTIES
  UnlinkedForGood
  FailureIsAdditive
\* A panic ends the process: see Next.
CHECK_DEADLOCK FALSE
