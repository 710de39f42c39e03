SPECIFICATION Spec
CONSTANTS
  a = a
  b = b
  ta = ta
  tb = tb
  Name <- TwoNames
  Disk0 <- OneFile
  Imports <- Drops
  Binary = Binary
  None = None
  MaxEdits = 2
  MaxOps = 2
CONSTRAINTS GivesTime FewInputs
CHECK_DEADLOCK FALSE
INVARIANTS TypeOK NothingLost PageAgrees
PROPERTIES RunSendsWhatWasTyped Settles
