\* enabling a reminder in its retry chain
SPECIFICATION Spec
CONSTANTS
  remind = remind
  daily = daily
  At = {remind}
  Periodic = {}
  Delays = {0, 1, 2}
  RetryDelay = 1
  Period = 3
  MaxDue = 3
  MaxTime = 6
  MaxAttempt = 2
INVARIANTS
  OneTurnAtATime
