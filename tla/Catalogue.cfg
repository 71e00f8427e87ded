SPECIFICATION Spec
CONSTANTS
  None = None
  a = a
  b = b
  c = c
  l1 = l1
  l2 = l2
  win = win
  WIN = WIN
  typo = typo
  Sessions = {s1, s2}
  Names = {a, b, c}
  Links = {l1, l2}
  Metrics = {win, WIN, typo}
  WellFormed = {win}
  Normalise <- MCNormalise
  Submitted <- MCSubmitted
  Rounds = {1, 2}
  CurrentRound = 2
  Start0 <- MCStart0
  Areas <- MCAreas
  MaxId = 3
  MaxRequests = 3
INVARIANT RemovalNamesItsBoard TablesHold
PROPERTY BackstopOnlyAfterRace CarriedOver
CHECK_DEADLOCK FALSE
