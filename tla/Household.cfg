\* two attempts of two ticks in a turn of the agent; an event lives for half a turn;
\* two managed homes and one that is not, a listener may take longer than its debounce
SPECIFICATION HouseholdSpec
CONSTANTS
  bulb = bulb
  mine = mine
  other = other
  v0 = v0
  v1 = v1
  None = None
  Managed = {"h1", "h2"}
  Foreign = {"f1"}
  Debounce = 2
  MaxSkew = 1
  MaxFire = 3
  MaxTrips = 2
  Did = {bulb}
  Homes = {mine, other}
  Value = {v0, v1}
  MaxTopUps = 1
  MaxRounds = 2
  MaxScope = 1
  MaxPushes = 2
  MaxMoves = 3
  MaxEvents = 2
  Attempt = 2
  Attempts = 2
  Margin = 1
  TTL = 2
  MaxBoots = 3
  MaxAhead = 1
CHECK_DEADLOCK FALSE
INVARIANTS
  ArrivalsGreeted
  LeavesFollow
  SubscriptionsFollow
PROPERTIES
  InvitedOnce
  GuardOnlyBehind
  AllRest
