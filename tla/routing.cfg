SPECIFICATION RoutingFairSpec

CONSTANTS
  t1 = t1
  t2 = t2
  w1 = w1
  w2 = w2
  c1 = c1
  c2 = c2
  e1 = e1
  e2 = e2
  NoWorker = NoWorker
  NoTask = NoTask
  NoConn = NoConn
  Worker = {w1}
  Task = {t1, t2, t3}
  Conn = {c1}
  Exec = {e1}
  Host <- HostOne
  Native = {}
  Gated = {}
  RunMissed = {}
  DateTasks = {t2}
  NextRuns <- AllFuture
  Loops = {}
  Parent <- BranchesOf
  Chained = {}
  Branching = {}
  Routers = {t1, t3}
  FailureLimit = 1
  MaxRetries = 1
  BatchSize = 2
  NoticeLimit = 1
  Outcomes = {"ok", "fail"}
  UserOps = {}
  Faults = {"request"}
  Mortal = {}
  Started = {w1}
  Online = {c1}
  t3 = t3
  yes = yes
  no = no
  Misconfigured = {t3}
  Key = {yes, no}
  NoKey = NoKey
  KeyOf <- SameKey
  Client = {m1}
  m1 = m1

INVARIANTS
  RoutingTypeOK
  HaltedIsRoutable
PROPERTIES
  OneBranchPerRun
  ManualRouteOfHalted
  PickedBranchRuns
