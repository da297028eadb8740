\* the platform side of single flight
SPECIFICATION Spec
CONSTANTS
  i1 = i1
  b1 = b1
  o1 = o1
  r1 = r1
  t1 = t1
  t2 = t2
  t3 = t3
  Event = {i1, b1}
  Session = {"main", "rule"}
  Task = {t1, t2, t3}
  Route <- MCRoute
  Kind <- MCKind
  Priority <- MCPriority
  Intra <- MCIntra
  MaxQueue = 2
  TTL = 1
  MaxTurns = 1
SYMMETRY TaskSymmetry
INVARIANT
  PlatformSingleFlight
