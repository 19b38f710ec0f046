CONSTANTS
  Nil = Nil
  Calls = {d1, d2}
  RunKeys = {k1, k2}
  Bodies = {b1, b2}
  Limits = {2}
  MaxVersion = 2
  MaxQueued = 1
  MaxActive = 1
  Budget = 3
  MaxMonths = 1
  Minutes = {0, 2}
  Tenants = {o1, o2}
  Repositories = {p1, p2}
  TaskKeys = {t1}
  Contents = {x1, x2}
  Reports = {e1}
  Writers = {w1, w2}
  MaxRows = 2
  MaxBenchmarks = 1
  Runs = {a, b}
  Visits = {q1, q2, q3}
  TaskSetOf <- OwnTasks
  MaxIds = 4
  Publishers = {u1, u2}
  Starters = {s1}
  PageSize = 1
  MaxOthers = 1
  Callers = {c1, c2, c3}
  MaxRevocations = 1
  MaxTokens = 3
  Candidates = {1, 2, 3, 4}
  Metrics <- Measured
  Objectives <- Aims
  MaxTrials = 3
  MaxAttempts = 3
  MaxCost = 3
  Clients = {l1}
  Ids = {1, 2, 3, 4}
  PerMilli = 2
  Scanners = {n1, n2}
  Readers = {h1}
  RepositoryStates = {y1, y2}
  MaxTime = 2
SPECIFICATION ServicesSpec
SYMMETRY ServiceSymmetry
INVARIANTS
  OneOrderPerKey
  BudgetHolds
  CatalogueAgrees
  AnswersServe
  DuplicatesHaveACause
  TokensRecover
  RecommendationStands
  OnlyTheSameMillisecondIsMissed
  HistoryIsKept
CHECK_DEADLOCK FALSE
