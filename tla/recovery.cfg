SPECIFICATION FairSpec

CONSTANTS
  t1 = t1
  t2 = t2
  w1 = w1
  w2 = w2
  c1 = c1
  c2 = c2
  e1 = e1
  e2 = e2
  NoWorker = NoWorker
  NoTask = NoTask
  NoConn = NoConn
  Worker = {w1, w2}
  Task = {t1, t2}
  Conn = {c1}
  Exec = {e1}
  Host <- HostOne
  Native = {t1}
  Gated = {}
  RunMissed = {}
  DateTasks = {}
  NextRuns <- AllInvalid
  Loops = {}
  Parent <- NoParents
  Chained = {}
  Branching = {}
  Routers = {}
  FailureLimit = 1
  MaxRetries = 1
  BatchSize = 2
  NoticeLimit = 1
  Outcomes = {"ok", "fail"}
  UserOps = {}
  Faults = {"crash", "timeout", "db", "blank"}
  Mortal = {w1}
  Started = {w1, w2}
  Online = {c1}

PROPERTIES
  StuckTasksRecover
  ActiveTasksRun
  FailingTaskHalts
CHECK_DEADLOCK FALSE
