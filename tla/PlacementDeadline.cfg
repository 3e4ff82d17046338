\* A venue that drops an order after its deadline: absence follows from it.
\* Under FairSpec, one order, through stops, restarts within an instant, a kill.
CONSTANTS
  Orders = {o1}
  Keys = {k1, k2}
  None = None
  DeadlineSent = TRUE
  AbsenceProvable = TRUE
  SendWindow = 1
  Reach = 1
  NetDelay = 0
  AbsenceAfter = 1
  Margin = 2
  Frozen = "killed"
  MaxTime = 2
  MaxGeneration = 2
  MaxTicks = 1
  MaxVersion = 1
  MaxCrashes = 1
SPECIFICATION FairSpec
PROPERTIES StoppedOrderNeverLeaves EventuallySettled
CHECK_DEADLOCK FALSE
