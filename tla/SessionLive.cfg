\* Callbacks in order and none lost; no symmetry.
SPECIFICATION LiveSpec
CONSTANTS
  RowId = {r1, r2, r3}
  Sid = {s1}
  TaskId = {}
  Handler = {h1, h2}
  Root = {r1}
  RootAttempts <- AnyAttempt
  NoRow = NoRow
  NoSid = NoSid
  NoTask = NoTask
  Faults <- NoFault
  MaxFaults = 0
PROPERTIES EndedCallSettles MissIsFollowedUp
CHECK_DEADLOCK FALSE
