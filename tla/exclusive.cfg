SPECIFICATION HistorySpec

CONSTANTS
  t1 = t1
  t2 = t2
  w1 = w1
  w2 = w2
  c1 = c1
  c2 = c2
  e1 = e1
  e2 = e2
  NoWorker = NoWorker
  NoTask = NoTask
  NoConn = NoConn
  Worker = {w1, w2}
  Task = {t1, t2}
  Conn = {c1, c2}
  Exec = {e1, e2}
  Host <- HostOne
  Native = {t1}
  Gated = {}
  RunMissed = {t2}
  DateTasks = {}
  NextRuns <- AllRecurring
  Loops = {t2}
  Parent <- NoParents
  Chained = {}
  Branching = {}
  Routers = {}
  FailureLimit = 2
  MaxRetries = 1
  BatchSize = 2
  NoticeLimit = 1
  Outcomes = {"ok", "fail"}
  UserOps = {}
  Faults = {}
  Mortal = {}
  Started = {w1, w2}
  Online = {}

SYMMETRY Symmetric
INVARIANTS
  NeverTwoExecutions
  ClaimInHand
PROPERTIES
  ImplementsLease
  ErrorIsEarned
