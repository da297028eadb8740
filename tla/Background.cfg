\* a reminder with or without a window and a periodic row, and the windows; fairness
SPECIFICATION BackgroundSpec
CONSTANTS
  remind = remind
  daily = daily
  hall = hall
  yard = yard
  At = {remind}
  Periodic = {daily}
  Delays = {0, 1, 2}
  RetryDelay = 1
  Period = 3
  MaxDue = 3
  MaxTime = 6
  MaxAttempt = 2
INVARIANTS
  TypeOK
  EnabledIsAlive
  WindowsAreOrderly
PROPERTIES
  TurnsStartInWindow
  NewKeyAfterError
  AtEnds
  EffectsInOrder
  WindowsEnd
