\* One occurrence materialized on an otherwise empty calendar.
SPECIFICATION FairSpec
CONSTANTS
  s1 = s1
  q1 = q1
  q2 = q2
  q3 = q3
  Stored = {s1}
  Requests = {q1}
  Rules <- OneRule
  Patches <- SomePatches
  Days = {0, 1, 2}
  Times = {9, 10}
  Week = 1
  Free = Free
  OneOff = OneOff
  NoId = NoId
CHECK_DEADLOCK FALSE
PROPERTIES
  ForcedMeansConflict
