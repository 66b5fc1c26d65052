SPECIFICATION Spec
CONSTANTS
  a1 = a1  a2 = a2  a3 = a3  x1 = x1  x2 = x2  x3 = x3
  Agent = {a1, a2, a3}  AgentName = {x1, x2, x3}  NameOf <- NamesOfAgents
  Choice = {k1, k2, k3}  NoChoice = NoChoice
  Cost = 4  Rate = 1  Capacity = 9  Second = 4  MaxLag = 2  LostLimit = 6
  n1 = n1  n2 = n2  l1 = l1  l2 = l2  l3 = l3  l4 = l4
  Node = {n1, n2}  Link = {l1, l2, l3, l4}  NodeOf <- NodesOfLinks
  MaxLinks = 2  LeakLimit = 1
  Id = {i1, i2, i3}  NoId = NoId  QuotaLimit = 1  Caller = {m1, m2}
  Items = 2  DependsOn <- BundleLinks
  Prompt = {p1, p2}  Upstream = {u1}  NoUpstream = NoUpstream  Editor = {m1, m2}
  Server = {s1, s2}  Event = {e1}  Hook = {h1, h2}
INVARIANTS
  CouncilTypeOK ConsensusIsPlurality
  LimiterTypeOK NeverTooStrict ExpiryGrantsNothing
    
  IntakeTypeOK QuotaOvershoot BundleKeepsShape
  VersionsTypeOK PromptsRecoverable
  DeliveryTypeOK OneCopyPerServer
PROPERTIES DrainAbandonsNothing ShutdownEnds
CHECK_DEADLOCK FALSE
