SPECIFICATION Spec
CONSTANTS
  Amounts <- MCAmounts
  Fees <- MCFees
  FeeLimit <- MCFeeLimit
  Hashes = {h1, h2}
  Nil = Nil
  MinAmount = 0
  StatFile = TRUE
  Faults <- MCNoFaults
  Pairs = {p1, p2}
  NoPair = NoPair
  Probing = FALSE
  MaxRoutes = 1
INVARIANTS CrashIsReported
CHECK_DEADLOCK FALSE
