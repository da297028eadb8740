\* a day of two minutes, with a target or none
SPECIFICATION Spec
CONSTANTS
  Targets = {1, 2}
  MaxWork = 2
  MaxBack = 1
INVARIANT TrueMeansTold
