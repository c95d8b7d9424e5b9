\* Two attempts of a chain dispatched and carried through, or a last attempt
\* with a cancellation.
SPECIFICATION LifecycleSpec
CONSTANTS
  RowId = {r1, r2, r3}
  Sid = {s1, s2, s3}
  TaskId = {t1, t2, t3}
  Dispatcher = {d1}
  User = {u1}
  Handler = {h1}
  Root = {r1}
  RootAttempts <- LateAttempts
  NoRow = NoRow
  NoSid = NoSid
  NoTask = NoTask
  Ops <- Cancels
  Faults <- NoFault
  SessionFaults <- NoFault
  MaxFaults = 0
SYMMETRY LifecycleSymmetry
INVARIANTS CancelledNeverTalks CallsPerChain
ACTION_CONSTRAINTS QuietRetry UserOnLastAttempt
CHECK_DEADLOCK FALSE
