SPECIFICATION Spec
CONSTANTS
  Requests = {r1, r2}
  Codes = {c1, c2}
  NoCode = nocode
  MaxFailures = 5
  Window = 3
  Slowest = 1
  Ceiling = 18
  MaxRestarts = 1
INVARIANTS TypeOK LockIsEarned RacingBudget
PROPERTIES GuessesNeverUnlock LockClears
