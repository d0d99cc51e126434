CONSTANTS
  m1 = m1
  d1 = d1
  alice = alice
  w1 = w1
  w2 = w2
  NoPlan = NoPlan
  NoParent = NoParent
  NotAString = NotAString
  NoPrincipal = NoPrincipal
  NoRequest = NoRequest
  Absent = Absent
  Plans <- MCPlans
  Labels <- MCLabels
  PlanList <- MCPlanList
  NameRank <- MCNameRank
  SizeRules <- MCSizeRules
  SLARules = {}
  InstanceIDs = {m1, d1}
  Workers = {w1, w2}
  Requests <- MCPlainRequests
  Principals = {alice}
  Reasons <- MCReasons
SPECIFICATION Spec
INVARIANTS ParentExists
