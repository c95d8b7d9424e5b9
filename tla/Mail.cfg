SPECIFICATION Spec
CONSTANTS
  Thread = {t1}
  h1 = h1
  h2 = h2
  Handler = {h1, h2}
  Tool = {a1}
  Actor <- Everyone
  Message = {m1, m2}
  MaxRevisions = 1
  MaxDrafts = 2
  MaxFaults = 1
  MaxSessions = 2
  MaxPurges = 1
SYMMETRY MailSymmetry
INVARIANTS
  OneReplyPerThread
  DroppedIsNotSent
  SentIsRecorded
  CheckinAnsweredOnce
  OneConversation
CHECK_DEADLOCK FALSE
