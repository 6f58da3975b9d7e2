CONSTANTS
  Parents = {p1, p2}
  Texts = {m1, m2, m3, m4}
  Threads = {t1, t2}
  Sessions = {s1, s2}
  Words = {"swap", "yes"}
  None = None
SYMMETRY Symmetry
SPECIFICATION Spec
INVARIANTS OneTextOneEffect
PROPERTY ImplementsHandshake
CHECK_DEADLOCK FALSE
