\* two rules that may compare one device; a day of three minutes with a target or none; a
\* camera with one watcher and one recording, changing four times
SPECIFICATION SourcesSpec
CONSTANTS
  Did = {lock}
  Rule = {r1, r2}
  None = None
  Targets = {1, 2}
  MaxWork = 3
  MaxBack = 1
  Watcher = {w1}
  Recorder = {c1}
  MaxMoves = 4
  MaxFaults = 1
  MaxIds = 4
INVARIANTS
  NoStaleRule
  DiagnosesCurrent
  MilestoneInStep
  NumbersAreOwn
PROPERTIES
  ViewSpec
  ReachIsTold
  PerceptionIsFed
