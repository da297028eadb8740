\* a task with any rules it may have, one on a device with rollover and trigger, and three
\* actions on their way, an agent's prompt offered twice at most
SPECIFICATION MCSpec
CONSTANTS
  stay = stay
  come = come
  go = go
  door = door
  camA = camA
  camB = camB
  lock = lock
  lamp = lamp
  Rule = {stay, come, go, door}
  Did = {camA, camB, lock}
  Direction <- MCDirection
  Source <- MCSource
  Steady <- MCSteady
  MayTime = {stay, come}
  MaxLen = 3
  Need = 3
  WithRollover = FALSE
  WithTrigger = FALSE
  MaxFires = 3
  Attempts = 2
INVARIANTS
  TypeOK
  LeavingIsFalse
  Paired
  OnCanEnd
  IotLeavingIsFalse
  HomeFollowsTask
PROPERTIES
  LayersStayTogether
  ExitSlipsOnlyFromUnknown
  AbsenceEnds
