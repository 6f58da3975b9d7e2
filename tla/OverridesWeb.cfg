CONSTANTS
  MaxOverrides = 2
  Horizon = 2
  MaxRangeDays = 1
  Parents = {p1, p2}
  Sessions = {s1, s2}
  RequestTtl = 1
  PlannedTtl = 2
  MaxNow = 2
  None = None
SYMMETRY Symmetry
SPECIFICATION WebSpec
INVARIANTS TypeOK ActiveOwnsDays NoDoubleBooking Consent ConflictMeansRace
PROPERTY ImplementsCalendar
