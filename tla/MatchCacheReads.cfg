SPECIFICATION Spec
CONSTANTS
  NoEntry = NoEntry
  NoName = NoName
  n1 = n1
  n2 = n2
  w1 = w1
  w2 = w2
  Names = {n1, n2}
  Tournaments = {t1}
  Readers = {r1, r2}
  Writers = {w1}
  May <- OnlyMatches
  MAX_LOAD_ATTEMPTS = 2
  MaxWrites = 2
  Cancellable = TRUE
SYMMETRY Symmetry
INVARIANTS
  TypeOK
  IInv
  ReadsSeeSettledWrites
  PushFollowsInvalidation
PROPERTIES
  NoValidEntryRemoved
  FeedSpec
CHECK_DEADLOCK FALSE
