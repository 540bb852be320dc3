SPECIFICATION QueueSpec
CONSTANTS
  Workers = {w1, w2}
  Jobs = {j1}
  Docs = {d1}
  MaxAttempts = 2
  None = None
  t1 = t1
  t2 = t2
  Turns = {t1, t2}
  Evaluators = {e1, e2}
  Answers <- MCAnswers
  QueueSize = 1
  Batch = 1
  MaxTries = 2
  Nothing = Nothing
CHECK_DEADLOCK FALSE
PROPERTIES JobsAreHonest JobsFinish EvaluationsEnd
