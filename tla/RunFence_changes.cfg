SPECIFICATION Spec
CONSTANTS
  Sessions = {s1}
  Requests = {r1}
  Hashes = {h1}
  Owners = {o1, o2}
  x1 = x1
  x2 = x2
  Ops = {x1, x2}
  Kind <- NewAndUpdate
  f1 = f1
  Facts = {f1}
  Fact <- OneFact
  Copies = 1
  MaxSaves = 2
  Aging = TRUE
  Deletable = {}
  None = None
CHECK_DEADLOCK FALSE
SYMMETRY Symmetry
INVARIANTS ReplayMatches ClaimsAreCommitted OneAnswer
