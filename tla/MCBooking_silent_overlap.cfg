\* A confirmed overlap nobody forced.
SPECIFICATION Spec
CONSTANTS
  p1 = p1
  p2 = p2
  r1 = r1
  s1 = s1
  a = a
  b = b
  q1 = q1
  q2 = q2
  q3 = q3
  Professionals = {p1}
  Resources = {}
  NoResource = NoResource
  Starts = {0, 1}
  Durations = {1}
  Prices = {1}
  Staff = {s1}
  Nobody = Nobody
  Free = Free
  Seeds = {a}
  Requests = {q1, q2, q3}
  Calendars <- OnePending
  OtherConflicts = {FALSE}
  Cutoff = 1
  MaxNow = 0
INVARIANTS
  NoSilentOverlap
CHECK_DEADLOCK FALSE
