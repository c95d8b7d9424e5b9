SPECIFICATION Spec
CONSTANTS
  Thread = {t1, t2}
  Message = {m1}
  Handler = {h1}
  Tool = {a1}
  Session = {s1, s2}
  Request = {q1, q2, q3}
  Run = {w1, w2}
  Editor = {e1}
  Visit = {v1, v2}
  Call = {c1}
  Phone = {ph1, ph2}
  Uid = {u1, u2}
  Service = {calendar, gmail}
  Title = {x1}
  Type = {morning}
  Zone = {0}
  MaxDrafts = 1
  MaxFaults = 1
  MaxGrants = 2
  MaxEdits = 1
  LastTick = 1
  MaxUses = 3
  MaxLinks = 1
  DailyCap = 1
  MaxRows = 1
INVARIANTS
  ServicesTypeOK
  
  LoginOwnsPhone
  ActedOnce
  UrgentCallsCapped
  StampsMatchStatus
PROPERTIES
  ClearedForCause
  DraftSettles
  PlannedEventually
CHECK_DEADLOCK FALSE
