\* A venue without a server-side deadline: absence waits for the margin.
CONSTANTS
  Orders = {o1, o2}
  Keys = {k1, k2}
  None = None
  DeadlineSent = FALSE
  AbsenceProvable = TRUE
  SendWindow = 1
  Reach = 1
  NetDelay = 1
  AbsenceAfter = 1
  Margin = 3
  Frozen = "killed"
  MaxTime = 4
  MaxGeneration = 1
  MaxTicks = 2
  MaxVersion = 1
  MaxCrashes = 1
SPECIFICATION Spec
SYMMETRY Symmetry
INVARIANTS NoOrderLost RecordedOnceAndTrue SentAtMostOnce
PROPERTIES OneUnresolvedOrder ImplementsLedger
CHECK_DEADLOCK FALSE
