CONSTANTS
  MaxOverrides = 2
  Horizon = 2
  MaxRangeDays = 1
  Parents = {p1, p2}
  Sessions = {s1, s2, s3}
  RequestTtl = 1
  PlannedTtl = 1
  MaxNow = 0
  None = None
SYMMETRY Symmetry
SPECIFICATION ApproveAndStopSpec
INVARIANT NoDoubleBooking
