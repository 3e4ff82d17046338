\* Two calls, two Idempotency-Keys, three starts of the process.
CONSTANTS
  Requests = {r1, r2}
  Keys = {k1, k2}
  None = None
  Accounts = {TRUE, FALSE}
  MaxStarts = 3
SPECIFICATION Spec
SYMMETRY Symmetry
INVARIANTS AnswersAreTrue LinksNameTheirOwn
PROPERTIES PlacedStaysLogged ImplementsPromise
CHECK_DEADLOCK FALSE
