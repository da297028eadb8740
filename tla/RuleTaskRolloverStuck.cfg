\* midnight during a timed session
SPECIFICATION Spec
CONSTANTS
  stay = stay
  come = come
  go = go
  door = door
  camA = camA
  camB = camB
  lock = lock
  lamp = lamp
  Rule = {stay}
  Did = {camA}
  Direction <- MCDirection
  Source <- MCSource
  Steady <- MCSteady
  MayTime = {stay}
  MaxLen = 3
  Need = 3
  WithRollover = TRUE
  WithTrigger = FALSE
INVARIANTS
  OnCanEnd
