SPECIFICATION FairSpec
CONSTANTS
  Environments <- Variants
  Requests = {r1, r2}
INVARIANTS
  TypeOK
  ExitTellsWhy
  ServesConfiguredOnly
PROPERTIES
  SignalStops
  FailureStops
\* The process ends.
CHECK_DEADLOCK FALSE
