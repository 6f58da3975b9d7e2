CONSTANTS
  Parents = {p1, p2}
  Texts = {m1, m2, m3, m4}
  Threads = {t1, t2}
  Sessions = {s1}
  Words = {"swap", "chat", "yes", "deny", "stop", "start", "help"}
  None = None
SYMMETRY Symmetry
SPECIFICATION Spec
INVARIANTS TypeOK RoutedToAwaited NoDeadDraft
CHECK_DEADLOCK FALSE
