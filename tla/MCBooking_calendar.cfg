\* Three concurrent requests beside an appointment in a room.
SPECIFICATION Spec
CONSTANTS
  p1 = p1
  p2 = p2
  r1 = r1
  s1 = s1
  a = a
  b = b
  q1 = q1
  q2 = q2
  q3 = q3
  Professionals = {p1, p2}
  Resources = {r1}
  NoResource = NoResource
  Starts = {0}
  Durations = {1}
  Prices = {1}
  Staff = {s1}
  Nobody = Nobody
  Free = Free
  Seeds = {b}
  Requests = {q1, q2, q3}
  Calendars <- OneInRoom
  OtherConflicts = {FALSE}
  Cutoff = 1
  MaxNow = 0
INVARIANTS
  TypeOK
  VettedClashIsForced
  OverrideIsAttributed
  LocksMatchHandlers
  RecheckStillHolds
CONSTRAINT StartInOrder
CHECK_DEADLOCK FALSE
