SPECIFICATION Spec
CONSTANTS
  Rules = {r1}
  Destinations = {a, b}
  None = None
  MaxEvaluations = 2
  MaxEdits = 3
  MaxKeys = 2
  MaxCrashes = 1
INVARIANTS
  StopEndsNoEngine
