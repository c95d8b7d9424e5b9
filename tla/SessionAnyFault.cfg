\* Every fault, one call; ids for two retries.
SPECIFICATION Spec
CONSTANTS
  RowId = {r1, r2, r3}
  Sid = {s1}
  TaskId = {}
  Handler = {h1, h2}
  Root = {r1}
  RootAttempts <- AnyAttempt
  NoRow = NoRow
  NoSid = NoSid
  NoTask = NoTask
  Faults <- AllFaults
  MaxFaults = 1
SYMMETRY SessionSymmetry
INVARIANTS TypeOK OneFollowUpPerMiss MissHasCause
PROPERTY ValidTransitions
CHECK_DEADLOCK FALSE
