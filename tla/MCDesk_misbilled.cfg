\* A charge by hand names an appointment of somebody else.
SPECIFICATION DeskSpec
CONSTANTS
  Handlers = {h1, h2}
  Null = Null
  c1 = c1
  c2 = c2
  pro1 = pro1
  adm1 = adm1
  rec1 = rec1
  Clients = {c1, c2}
  Owner = c1
  Pro = pro1
  RoleOf <- SomeRoles
  Known <- SomeKnown
  LedgerRequests <- SomeLedgerRequests
  DeskMenus <- SomeDeskMenus
  MaxCalls = 2
  Professionals = {pro1}
  Staff = {pro1, adm1, rec1}
  Resources = {}
  NoResource = NoResource
  Starts = {0}
  Durations = {1}
  Prices = {0}
  Nobody = Nobody
INVARIANT BilledToItsClient
CHECK_DEADLOCK FALSE
