SPECIFICATION Spec
CONSTANTS
  b1 = b1
  Nothing = Nothing
  Tournaments = {t1, t2}
  Tabs = {b1}
  Fetches = {f1, f2}
  Streams = {x1, x2}
  Owner <- OneTab
  Connections = {c1, c2, c3}
  Writers = {w1}
  MAX_SUBSCRIBERS_PER_TOURNAMENT = 1
  MAX_TOTAL_SUBSCRIBERS = 2
  CHANNEL_CAPACITY = 1
  MaxWrites = 2
  MaxLoads = 2
SYMMETRY StreamSymmetry
INVARIANTS
  IInv
  HubAccounts
  BoardIsOfSelection
  HeardIsAsked
CHECK_DEADLOCK FALSE
