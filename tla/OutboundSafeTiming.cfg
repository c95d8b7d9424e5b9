\* Claims outlive live workers, and no worker dies while calling Twilio.
SPECIFICATION Spec
CONSTANTS
  k1 = k1
  k2 = k2
  a1 = a1
  a2 = a2
  a3 = a3
  a4 = a4
  Key = {k1, k2}
  Attempt = {a1, a2, a3, a4}
  NoAttempt = NoAttempt
  NoKey = NoKey
  Chunks <- TwoFreeform
  CrashPoints <- BeforeLock
  Covered <- LivePC
INVARIANT AtMostOneMessage
PROPERTY ImplementsPromise
CHECK_DEADLOCK FALSE
