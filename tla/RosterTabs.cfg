SPECIFICATION Spec
CONSTANTS
  m1 = m1
  m2 = m2
  s1 = s1
  s2 = s2
  a1 = a1
  a2 = a2
  Nobody = Nobody
  Managers = {m1}
  Registered = {m1}
  Sessions = {s1, s2}
  Owner <- OwnerTabs
  May <- MayOwn
  Admins = {a1}
  AdminMay = {"advance", "window"}
  h1 = h1
  h2 = h2
  Heroes = {h1, h2}
  RosterSize = 1
  SwapsPerRound = 1
  Capacities = {1}
  Statuses = {"REGISTRATION_OPEN", "LIVE"}
  MaxRound = 2
SYMMETRY HeroSymmetry
INVARIANTS
  OneSubmissionPerRound
  LockedRosterIsComplete
