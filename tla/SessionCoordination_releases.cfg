SPECIFICATION SCSpec
CONSTANTS
  Workers = {w1}
  Sessions = {s1}
  Scopes = {p1, p2}
  Kinds = {"turn"}
  History = History
  User = User
  Slots = 1
  TTL = 3
  Interval = 1
  Late = 1
  Nobody = Nobody
SYMMETRY Symmetry
INVARIANTS LocalLockReleased
