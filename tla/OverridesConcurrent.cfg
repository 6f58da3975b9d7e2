CONSTANTS
  MaxOverrides = 2
  Horizon = 1
  MaxRangeDays = 0
  Parents = {p1, p2}
  Sessions = {s1, s2}
  RequestTtl = 1
  PlannedTtl = 1
  MaxNow = 1
  None = None
SYMMETRY Symmetry
SPECIFICATION Spec
INVARIANT CalendarShowsClaim
PROPERTIES DecidedIsFinal EndsByOverlap
