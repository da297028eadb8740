\* duration ratio 2/3: an entry after the exit
SPECIFICATION FairSpec
CONSTANTS
  stay = stay
  come = come
  go = go
  door = door
  camA = camA
  camB = camB
  lock = lock
  lamp = lamp
  Rule = {stay}
  Did = {camA}
  Direction <- MCDirection
  Source <- MCSource
  Steady <- MCSteady
  MayTime = {stay}
  MaxLen = 3
  Need = 2
  WithRollover = FALSE
  WithTrigger = FALSE
PROPERTIES
  AbsenceEnds
