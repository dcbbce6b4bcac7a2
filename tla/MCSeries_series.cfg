\* Three requests that create, edit, split, end, list and materialize.
SPECIFICATION Spec
CONSTANTS
  s1 = s1
  q1 = q1
  q2 = q2
  q3 = q3
  Stored = {s1}
  Requests = {q1, q2, q3}
  Rules <- TwoRules
  Patches <- SomePatches
  Days = {0, 1, 2}
  Times = {9, 10}
  Week = 1
  Free = Free
  OneOff = OneOff
  NoId = NoId
INVARIANTS
  RulesWellFormed
  OneRowPerOccurrence
  ListedOnce
  VettedClashIsForced
CONSTRAINT StartInOrder
CHECK_DEADLOCK FALSE
