\* a reconfiguration during the exit debounce
SPECIFICATION Spec
CONSTANTS
  stay = stay
  come = come
  go = go
  door = door
  camA = camA
  camB = camB
  lock = lock
  lamp = lamp
  Rule = {stay}
  Did = {camA}
  Direction <- MCDirection
  Source <- MCSource
  Steady <- MCSteady
  MayTime = {}
  MaxLen = 3
  Need = 2
  WithRollover = FALSE
  WithTrigger = FALSE
INVARIANTS
  SessionHeldIsOn
