CONSTANTS
  Parents = {p1, p2}
  Texts = {m1, m2, m3, m4}
  Threads = {t1, t2}
  Sessions = {s1}
  Words = {"swap", "yes"}
  None = None
SYMMETRY Symmetry
SPECIFICATION OrderlySpec
INVARIANTS ConfirmationIsNotConsent
CHECK_DEADLOCK FALSE
