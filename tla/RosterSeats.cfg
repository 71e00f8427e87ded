SPECIFICATION FairSpec
CONSTANTS
  m1 = m1
  m2 = m2
  s1 = s1
  s2 = s2
  a1 = a1
  a2 = a2
  Nobody = Nobody
  Managers = {m1, m2}
  Registered = {}
  Sessions = {s1, s2}
  Owner <- OwnerTwo
  May <- MayJoin
  Admins = {a1}
  AdminMay = {"update"}
  h1 = h1
  Heroes = {h1}
  RosterSize = 1
  SwapsPerRound = 1
  Capacities = {1, 2}
  Statuses = {"REGISTRATION_OPEN", "LIVE"}
  MaxRound = 1
INVARIANT IInv
PROPERTIES
  BookSpec
  CapacityHeld
  RequestsEnd
