SPECIFICATION Spec
CONSTANTS
  Me = Me
  A = A
  B = B
  C = C
  Routes <- MCRoutes
  MaxRoutes = 2
  ProbeSteps = 1
  FailTolerance = 20000
INVARIANTS TypeOK SameAmountCancelled IgnoredWasRefused
PROPERTIES QueryEnds
CHECK_DEADLOCK FALSE
