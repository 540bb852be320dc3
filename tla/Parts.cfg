SPECIFICATION Spec
CONSTANTS
  Files = {f, g}
  Sends = {q}
  Emails = {m, n}
  Invites = {x}
  Mailers = {m1, m2}
  Registrations = {r1, r2}
  MaxEntries = 1
  NoOne = NoOne
  Menu <- MCMenu
  MaxTokens = 4
  Overlap = 1
  MaxBlocks = 1
  MaxMore = 4
  Calls = {c1, c2, c3, c4}
  MaxWorkers = 1
  MaxPending = 1
  a = a
  b = b
  Lookups = {a, b}
  Weather = {b}
  Batches <- MCBatches
  MaxRounds = 4
  ReportRound = 3
  MaxCalls = 2
  MaxAttempts = 2
  Brands <- MCBrands
  Pairs = 2
  Endpoints = 2
  StationTries = 2
  MaxExternal = 9
  MaxPerType = 6
  Wishes <- MCWishes
  Known <- MCKnown
  Flaky <- MCFlaky
  t1 = t1
  Turns = {t1}
  Evaluators = {e1, e2}
  Answers <- MCAnswers
  QueueSize = 1
  Batch = 1
  MaxTries = 2
  Nothing = Nothing
SYMMETRY Symmetry
INVARIANTS
  TypeOK
  ReadyIsWhole AnswersSawTexts
  AccountsArePaid
  ChunksAreThePage
  PermitsMatchCalls LookupsAreSentOnce
  BoardIsHonest
  EvaluationsAreSound
CHECK_DEADLOCK FALSE
