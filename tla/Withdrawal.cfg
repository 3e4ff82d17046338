\* One rule, two destinations, two keys, three edits, two kills, under FairSpec.
SPECIFICATION FairSpec
CONSTANTS
  Rules = {r1}
  Destinations = {a, b}
  None = None
  MaxEvaluations = 2
  MaxEdits = 3
  MaxKeys = 2
  MaxCrashes = 2
INVARIANTS NoAttemptLost SentOnce LogIsTrue NothingAfterStop
PROPERTIES EvaluationsEnd ImplementsLedger
