SPECIFICATION StoredSpec
CONSTANTS
  Turns = {t1, t2}
  Deleters = {d1, d2}
  Requests = {r1, r2}
  Sessions = {s1}
  SessionOf <- OneSession
  MaxBegins = 3
  None = None
  OnboardingAnswers = {a1, a2}
  BrandTurns = {b1}
  ProfilePages = {g1, g2}
  MaxRevision = 3
  NoBrands = NoBrands
  Cities = {c1, c2}
  LastDay = 3
  MaxDays = 2
  MaxFields = 2
SYMMETRY Symmetry
INVARIANTS StoredTypes RequestsAreSound TranscriptIsDense OnlyDeletionsDeadlock TripCanBePlanned
PROPERTIES SavesKeepOthers
