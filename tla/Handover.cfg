\* A stop job, two calls and a resync; five starts of Rails and of two Rust processes.
CONSTANTS
  StopJobs = {s1}
  Calls = {c1, c2}
  IndexBots = {b1}
  Processes = {p1, p2}
  None = None
  Again = FALSE
  MaxRows = 2
  MaxTime = 5
SPECIFICATION FairSpec
INVARIANTS OneEngine ActedOnce NothingLost HandedClean WindowClosed
PROPERTIES OwnershipHolds JournalEmpties
CHECK_DEADLOCK FALSE
