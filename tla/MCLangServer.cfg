SPECIFICATION Spec
CONSTANTS
  MaxSessions = 3
  MaxTalk = 1
  MaxNotes = 1
  None = None
CHECK_DEADLOCK FALSE
INVARIANTS TypeOK OneServer NoForeignMessage InitializeFirst
PROPERTIES ServerIsInitialized FailureIsShown
