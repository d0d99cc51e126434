CONSTANTS
  plan1 = plan1
  plan2 = plan2
  xrd1 = xrd1
  xrd2 = xrd2
  Compositions = {plan1, plan2}
  XRDs = {xrd1, xrd2}
  ServiceIDs = {"A", "B"}
  PlanLabels <- MCPlanLabels
  XRDLabels <- MCXRDLabels
  GVK <- MCGVK
  NameRank <- MCNameRank
  InstanceIDs = {i1}
  Workers = {w1}
  MaxTouched = 2
  NoPlan = NoPlan
  NoRequest = NoRequest
  Absent = Absent
SYMMETRY MCSymmetry
SPECIFICATION Spec
INVARIANTS TypeOK UntouchedIsOffered PlansOfTheirService UntouchedIsFound ReportedPlanIsRight
