\* Every screen under answers in any order, and every kind of list request.
SPECIFICATION ClientSpec
CONSTANTS
  Null = Null
  \* screens
  None = None
  Nothing = Nothing
  Rows = {r1, r2}
  Subjects = {s1, s2}
  Terms = {t1, t2}
  MaxEvents <- SomeMaxEvents
  \* lists
  Blank = Blank
  Bad = Bad
  Minutes = 2
  MaxSet = 2
  DefaultLimit = 4
  MaxLimit = 5
  MaxPage = 3
  ListRequests <- SomeListRequests
SYMMETRY AnyRow
INVARIANTS
  SettledPanelsAreCurrent
  FlagsEndWithTheirCalls
  WritesAreMeant
  FilterAndNegationSplit
  EveryReachableRowIsOnOnePage
CHECK_DEADLOCK FALSE
