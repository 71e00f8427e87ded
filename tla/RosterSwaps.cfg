SPECIFICATION Spec
CONSTANTS
  m1 = m1
  m2 = m2
  s1 = s1
  s2 = s2
  a1 = a1
  a2 = a2
  Nobody = Nobody
  Managers = {m1}
  Registered = {m1}
  Sessions = {s1, s2}
  Owner <- OwnerTabs
  May <- MaySwaps
  Admins = {a1}
  AdminMay = {"advance", "window"}
  h1 = h1
  h2 = h2
  h3 = h3
  Heroes = {h1, h2, h3}
  RosterSize = 1
  SwapsPerRound = 1
  Capacities = {1}
  Statuses = {"LIVE"}
  MaxRound = 4
SYMMETRY HeroSymmetry
INVARIANTS
  LogReplays
  AllowanceKept
PROPERTIES
  BookSpec
  LockedMovesOnlyBySwap
