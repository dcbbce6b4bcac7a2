\* The parts of the server, one at a time.
SPECIFICATION ServerSpec
CONSTANTS
  Handlers = {h1, h2}
  Null = Null
  \* accounts
  a1 = a1
  a2 = a2
  x1 = x1
  n1 = n1
  n2 = n2
  n3 = n3
  n4 = n4
  w1 = w1
  w2 = w2
  b1 = b1
  b2 = b2
  People = {a1, a2, c1, x1}
  Names = {n1, n3, n4}
  Passwords = {w1, w2}
  Handed = {w2}
  Stored <- SomePeople
  LoggedIn <- SomeSessions
  Absent = Absent
  MaxIdentity = 1
  MaxClient = 2
  MaxChange = 1
  Window = 1
  SweepAt = 2
  MaxKeys = 2
  Menus <- SomeMenus
  MaxTime = 1
  MaxRequests <- SomeMaxRequests
  \* desk
  c1 = c1
  c2 = c2
  pro1 = pro1
  adm1 = adm1
  rec1 = rec1
  Clients = {c1, c2}
  Owner = c1
  Pro = pro1
  RoleOf <- SomeRoles
  Known <- SomeKnown
  LedgerRequests <- SomeLedgerRequests
  DeskMenus <- SomeDeskMenus
  MaxCalls = 2
  Professionals = {pro1}
  Staff = {pro1, adm1, rec1}
  Resources = {}
  NoResource = NoResource
  Starts = {0}
  Durations = {1}
  Prices = {0}
  Nobody = Nobody
  \* entities
  Actors <- SomeActors
  Actor <- SomeActor
  Lasting <- SomeLasting
  FirstRows <- SomeRows
  FirstGrants <- SomeGrants
  References <- SomeReferences
  EntityMenus <- SomeEntityMenus
  MaxAsked = 2
  \* settings
  Days = {0, 1, 2}
  Missing = Missing
  MaxPatches = 2
  \* operations
  Runners = {r1, r2}
  Directories <- SomeDirectories
  Content <- SomeContent
  MaxRuns = 3
INVARIANTS
  ResetHolds
  AttemptsBounded
  LockoutNeedsARace
  CompletedIsBilledOnce
  EveryWriteIsAudited
  NoEditIsLost
  RowsStayInOneTenant
  OffersMatchTheirBlock
  WindowNeverInverted
  DeploymentsAgree
PROPERTIES
  NamesStick
  OwnersStick
  GrantAtWrite
CHECK_DEADLOCK FALSE
