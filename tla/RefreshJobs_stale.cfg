SPECIFICATION Spec
CONSTANTS
  Workers = {w1, w2}
  Jobs = {j1}
  Docs = {d1}
  MaxAttempts = 2
  None = None
CHECK_DEADLOCK FALSE
PROPERTIES StaleOwnersPublishNothing
