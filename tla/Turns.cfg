SPECIFICATION TurnsSpec
CONSTANTS
  trip1 = trip1
  policy = policy
  travel = travel
  Tasks = {trip1, policy, travel}
  Role <- MCRole
  Needs <- MCNeeds
  Route <- MCRoute
  Profiled = {policy}
  Outcomes = {"success", "unavailable"}
  MaxRounds = 2
  MaxBatch = 2
  MaxRoleTasks = 1
  MaxChildren = 3
  Parallel = 1
  MaxVersion = 3
  MaxOwners = 2
  None = None
  Workers = {w1, w2}
  Sessions = {s1}
  Scopes = {p1, p2}
  Kinds = {"turn", "operation", "settings", "clear"}
  History = History
  User = User
  Slots = 1
  TTL = 3
  Interval = 1
  Late = 1
  Nobody = Nobody
INVARIANTS TypeOK EndedIsSettled SavedIsCommitted ScopesExclude
PROPERTIES ImplementsLedger TurnEnds ScopesEnd
CHECK_DEADLOCK FALSE
