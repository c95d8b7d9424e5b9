\* Nothing assumed: workers die anywhere, claims go stale at any moment.
SPECIFICATION LiveSpec
CONSTANTS
  k1 = k1
  k2 = k2
  a1 = a1
  a2 = a2
  a3 = a3
  a4 = a4
  Key = {k1}
  Attempt = {a1, a2, a3}
  NoAttempt = NoAttempt
  NoKey = NoKey
  Chunks <- OneFreeform
  CrashPoints <- LivePC
  Covered <- NoPoint
INVARIANTS FencedDelivery SentWasDelivered
PROPERTIES TerminalRowsFinal EveryDispatchSettles
CHECK_DEADLOCK FALSE
