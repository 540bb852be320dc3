SPECIFICATION Spec
CONSTANTS
  Requests = {r1, r2, r3}
  Files = {f1}
  MaxAttempts = 4
  Replies = {"recoverable", "card"}
  Nobody = Nobody
  p = p
  q = q
  Chunks <- MCChunks
  Ingests = {p, q}
  Searches = {s1, s2}
  Menu <- MCMenu
  Fingerprint <- MCPrint
  MaxBuilds = 2
  MaxCommits = 3
  MaxTries = 2
  CacheSize = 1
  MaxTurns = 3
  MaxBatches = 2
  RowLimit = 3
  Budget = 6
  Target = 6
  Workers = {w1, w2}
  MaxMedia = 2
  MaxPdfs = 1
  Limit = 1
  NPages = 2
  OcrPages = 1
  MaxRetries = 1
  OcrEnabled = TRUE
  Uploads = {u1, u2, u3}
  Names = {n1, n2, n3}
  Textless = {n3}
CHECK_DEADLOCK FALSE
SYMMETRY Symmetry
INVARIANTS
  TypeOK
  DoneIsStored CardsAreAnsweredInTurn
  ContextIsWhole
  QuotaHolds PagesAreTold
  ListedIsIndexed
PROPERTIES
  DeletedStaysEmpty
  IndexIsServed
