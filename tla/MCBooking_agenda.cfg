\* Two concurrent requests, placements that touch or overlap: refinement and liveness.
SPECIFICATION FairSpec
CONSTANTS
  p1 = p1
  p2 = p2
  r1 = r1
  s1 = s1
  a = a
  b = b
  q1 = q1
  q2 = q2
  q3 = q3
  Professionals = {p1, p2}
  Resources = {r1}
  NoResource = NoResource
  Starts = {0, 1}
  Durations = {1, 2}
  Prices = {1}
  Staff = {s1}
  Nobody = Nobody
  Free = Free
  Seeds = {b}
  Requests = {q1, q2}
  Calendars <- OneInRoom
  OtherConflicts = {FALSE, TRUE}
  Cutoff = 1
  MaxNow = 0
PROPERTIES
  ImplementsAgenda
  EveryRequestIsAnswered
CHECK_DEADLOCK FALSE
