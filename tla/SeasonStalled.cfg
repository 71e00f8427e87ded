SPECIFICATION Spec
CONSTANTS
  None = None
  ann = ann
  bob = bob
  tab1 = tab1
  tab2 = tab2
  Managers = {ann, bob}
  Sessions = {tab1, tab2}
  Handle <- MCHandle
  Owner <- MCOwner
  May <- MCMay
  RosterSize = 2
  SwapsPerRound = 1
  CreditGrant = 5
  Prices <- MCPrices
  Droppable = {3}
  Books <- MCBooks
  Wishes <- MCWishes
  RoleForms <- MCRoleForms
  Settled <- MCSettled
  Fixtures <- MCFixtures
  Rules <- MCRules
  Past <- MCPast
  Statuses = {"LIVE", "COMPLETED"}
  MaxRound = 3
  MaxMatches = 2
  MaxRequests = 2
INVARIANT RolesStayComplete
CHECK_DEADLOCK FALSE
