\* Two bots, one of another account; looks of one bot; an outbox of one notice.
CONSTANTS
  Bots = {1, 2}
  Theirs = {2}
  Batch = 1
  Capacity = 1
  MaxRaises = 2
  MaxCrashes = 1
SPECIFICATION FairSpec
INVARIANT AcceptedOnce
PROPERTIES NoNoticeLost NoticesLeave
CHECK_DEADLOCK FALSE
