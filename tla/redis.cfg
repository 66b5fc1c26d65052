SPECIFICATION Spec

CONSTANTS
  t1 = t1
  t2 = t2
  w1 = w1
  w2 = w2
  c1 = c1
  c2 = c2
  e1 = e1
  e2 = e2
  NoWorker = NoWorker
  NoTask = NoTask
  NoConn = NoConn
  Worker = {w1}
  Task = {t1, t2}
  Conn = {c1, c2}
  Exec = {e1}
  Host <- HostOne
  Native = {t2}
  Gated = {}
  RunMissed = {t2}
  DateTasks = {}
  NextRuns <- AllRecurring
  Loops = {}
  Parent <- Pipeline
  Chained = {t2}
  Branching = {t2}
  Routers = {}
  FailureLimit = 1
  MaxRetries = 1
  BatchSize = 2
  NoticeLimit = 1
  Outcomes = {"ok"}
  UserOps = {}
  Faults = {"redis", "db", "disconnect", "timeout"}
  Mortal = {}
  Started = {w1}
  Online = {c1, c2}

SYMMETRY Connections
INVARIANTS
  SampledOnce
  CompletedOnce
