CONSTANTS
  i1 = i1
  alice = alice
  w1 = w1
  w2 = w2
  NoPlan = NoPlan
  NoParent = NoParent
  NotAString = NotAString
  NoPrincipal = NoPrincipal
  NoRequest = NoRequest
  Absent = Absent
  Plans <- MCPlans
  Labels <- MCLabels
  PlanList <- MCPlanList
  NameRank <- MCNameRank
  SizeRules <- MCSizeRules
  SLARules <- MCSLARules
  InstanceIDs = {i1}
  Workers = {w1, w2}
  Requests <- MCRequests
  Principals = {alice}
  Reasons <- MCReasons
SPECIFICATION FairSpec
INVARIANTS TypeOK LabelsMatchPlan ReportedPlanIsStored
PROPERTIES PlanChangesPermitted EveryRequestAnswered ImplementsRegistry
