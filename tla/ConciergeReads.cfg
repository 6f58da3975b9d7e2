CONSTANTS
  Parents = {p1, p2}
  Texts = {m1, m2, m3}
  Threads = {t1}
  Sessions = {s1}
  Words = {"swap", "chat", "yes"}
  None = None
SYMMETRY Symmetry
SPECIFICATION OrderlySpec
PROPERTIES ReadsStrandNobody
CHECK_DEADLOCK FALSE
