SPECIFICATION Spec
CONSTANTS
  Reader <- TwoReaders
  NoReader = none
  Byte <- TwoBytes
  Delim = "nl"
  MaxBytes = 3
  MaxLen = 2
INVARIANTS
  TypeOK
  NoLostWakeup
  StreamIntact
PROPERTIES
  ImplementsChannel
\* A write to a closed pipe stops everything: see WriteClosed.
CHECK_DEADLOCK FALSE
