SPECIFICATION Spec
CONSTANTS
  NoEntry = NoEntry
  NoName = NoName
  n1 = n1
  n2 = n2
  w1 = w1
  w2 = w2
  Names = {n1, n2}
  Tournaments = {t1, t2}
  Readers = {r1}
  Writers = {w1, w2}
  May <- FirstEdits
  MAX_LOAD_ATTEMPTS = 1
  MaxWrites = 2
  Cancellable = FALSE
SYMMETRY Symmetry
INVARIANTS
  AcceptedEntryIsCurrent
  CurrencyInv
CHECK_DEADLOCK FALSE
