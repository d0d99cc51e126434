CONSTANTS
  m1 = m1
  d1 = d1
  b1 = b1
  w1 = w1
  w2 = w2
  w3 = w3
  p1 = p1
  alice = alice
  m = m1
  d = d1
  NoPlan = NoPlan
  NoParent = NoParent
  NotAString = NotAString
  NoPrincipal = NoPrincipal
  NoRequest = NoRequest
  NoPassword = NoPassword
  NoBinding = NoBinding
  Absent = Absent
  Plans <- MCPlans
  Labels <- MCLabels
  PlanList <- MCPlanList
  NameRank <- MCNameRank
  SizeRules = {}
  SLARules = {}
  InstanceIDs = {m1, d1}
  Workers = {w1}
  Requests <- MCAllRequests
  Principals = {alice}
  Reasons = {"Available"}
  BindingIDs = {b1}
  BindWorkers = {w2}
  Passwords = {p1}
  Orderly = FALSE
SPECIFICATION LifecycleSpec
PROPERTIES ImplementsBindings
