CONSTANTS
  b1 = b1
  b2 = b2
  Callers = {t1, t2}
  Bundles = {b1, b2}
  Sessions = {s1, s2, s3}
  Compatible <- MCCompatible
  Exclusive = TRUE
  a = a
  b = b
  u = u
  Pad = Pad
  Bos = Bos
  Eos = Eos
  Tokens = {a, b, u, Pad, Bos, Eos}
  Unassigned <- MCUnassigned
  Prompts <- MCPrompts
  PieceLength <- MCPieceLength
  Rooms = {0, 1, 2}
  Capacities = {1, 3}
  SizeMax = 6
  Garbage = Garbage
SYMMETRY MCSymmetry
SPECIFICATION ApiSpec
INVARIANTS
  HeldIsLive
  NothingLeaks
  SessionSeesWholeSequence
  AttentionSeesNewestTokens
PROPERTIES
  RefinesOwnership
  RetryReturnsThePiece
  RefinesSlidingWindow
CHECK_DEADLOCK FALSE
