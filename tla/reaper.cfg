SPECIFICATION Spec

CONSTANTS
  t1 = t1
  t2 = t2
  w1 = w1
  w2 = w2
  c1 = c1
  c2 = c2
  e1 = e1
  e2 = e2
  NoWorker = NoWorker
  NoTask = NoTask
  NoConn = NoConn
  Worker = {w1, w2}
  Task = {t1}
  Conn = {c1, c2}
  Exec = {e1, e2}
  Host <- HostLast
  Native = {}
  Gated = {}
  RunMissed = {}
  DateTasks = {}
  NextRuns <- AllRecurring
  Loops = {}
  Parent <- NoParents
  Chained = {}
  Branching = {}
  Routers = {}
  FailureLimit = 1
  MaxRetries = 1
  BatchSize = 2
  NoticeLimit = 2
  Outcomes = {"ok"}
  UserOps = {}
  Faults = {"crash"}
  Mortal = {w1}
  Started = {w1, w2}
  Online = {c1, c2}

SYMMETRY Executions
PROPERTIES
  ReapsOnlyAbandoned
