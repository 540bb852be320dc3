SPECIFICATION Spec
CONSTANTS
  Sessions = {s1}
  Requests = {r1}
  Hashes = {h1}
  Owners = {o1, o2}
  x1 = x1
  x2 = x2
  Ops = {x1}
  Kind <- OnePreference
  f1 = f1
  Facts = {f1}
  Fact <- OneFact
  Copies = 1
  MaxSaves = 1
  Aging = FALSE
  Deletable = {}
  None = None
CHECK_DEADLOCK FALSE
INVARIANTS RetryFindsTranscript
