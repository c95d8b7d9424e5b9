\* No fault at all; a callback replaces a row that is being dispatched.
SPECIFICATION Spec
CONSTANTS
  RowId = {r1}
  Sid = {s1, s2}
  TaskId = {t1, t2}
  Dispatcher = {d1}
  User = {u1}
  NoRow = NoRow
  NoSid = NoSid
  NoTask = NoTask
  Ops <- AllOps
  Faults <- NoFault
  MaxFaults = 0
PROPERTY NoCallAfterCancel
CHECK_DEADLOCK FALSE
