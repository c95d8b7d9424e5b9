\* Every fault, with fairness; no symmetry.
SPECIFICATION LiveSpec
CONSTANTS
  RowId = {r1}
  Sid = {s1, s2}
  TaskId = {t1, t2, t3}
  Dispatcher = {d1}
  User = {u1}
  NoRow = NoRow
  NoSid = NoSid
  NoTask = NoTask
  Ops <- AllOps
  Faults <- AllFaults
  MaxFaults = 1
PROPERTY DueIsDialled
CHECK_DEADLOCK FALSE
