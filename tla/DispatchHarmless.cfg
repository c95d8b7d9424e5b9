\* Harmless faults, overlapping dispatchers; no operation cancels a dispatching row.
SPECIFICATION Spec
CONSTANTS
  RowId = {r1, r2}
  Sid = {s1, s2}
  TaskId = {t1, t2, t3}
  Dispatcher = {d1, d2}
  User = {u1}
  NoRow = NoRow
  NoSid = NoSid
  NoTask = NoTask
  Ops <- NoReplace
  Faults <- HarmlessFault
  MaxFaults = 1
SYMMETRY DispatchSymmetry
INVARIANTS AtMostOneCall CallIsRecorded
PROPERTIES ValidTransitions NoCallAfterCancel
CHECK_DEADLOCK FALSE
