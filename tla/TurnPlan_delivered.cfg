SPECIFICATION Spec
CONSTANTS
  trip1 = trip1
  policy = policy
  travel = travel
  Tasks = {trip1, policy, travel}
  Role <- MCRole
  Needs <- MCNeeds
  Route <- MCRoute
  Profiled = {policy}
  Outcomes = {"success", "unavailable"}
  MaxRounds = 2
  MaxBatch = 2
  MaxRoleTasks = 1
  MaxChildren = 3
  Parallel = 1
  MaxVersion = 3
  MaxOwners = 2
  None = None
INVARIANTS DeliveredIsSucceeded
CHECK_DEADLOCK FALSE
