SPECIFICATION Spec
CONSTANTS
  Amounts <- MCAmounts
  Fees <- MCFees
  FeeLimit <- MCFeeLimit
  Hashes = {h1, h2}
  Nil = Nil
  MinAmount = 0
  StatFile = TRUE
  Faults <- MCAllFaults
  Pairs = {p1}
  NoPair = NoPair
  Probing = TRUE
  MaxRoutes = 2
INVARIANTS TypeOK ExitCodeTold InvoiceFitsRoute FeeWithinLimit
PROPERTIES StopsWhenPaid SessionEnds
CHECK_DEADLOCK FALSE
