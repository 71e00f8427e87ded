SPECIFICATION FairSpec
CONSTANTS
  NoEntry = NoEntry
  NoName = NoName
  n1 = n1
  n2 = n2
  w1 = w1
  w2 = w2
  Names = {n1, n2}
  Tournaments = {t1}
  Readers = {r1, r2}
  Writers = {w1}
  May <- AnyRequest
  MAX_LOAD_ATTEMPTS = 2
  MaxWrites = 1
  Cancellable = FALSE
INVARIANT AcceptedEntryIsCurrent
PROPERTIES
  ReadsReturn
  ChangesSettle
CHECK_DEADLOCK FALSE
