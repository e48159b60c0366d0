CONSTANTS
  b1 = b1
  b2 = b2
  Callers = {t1, t2}
  Bundles = {b1}
  Sessions = {s1, s2}
  Compatible <- MCOnePair
  Exclusive = FALSE
SPECIFICATION Spec
INVARIANT HeldIsLive
CHECK_DEADLOCK FALSE
