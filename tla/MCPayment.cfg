SPECIFICATION PaySpec
CONSTANTS
  Amounts <- MCAmounts
  Fees <- MCFees
  FeeLimit <- MCFeeLimit
  Hashes = {h1, h2, h3}
  Nil = Nil
  MinAmount = 0
  StatFile = TRUE
  Faults <- MCAllFaults
INVARIANTS CutOffInvoiceForgotten PaidInvoiceForgotten
PROPERTIES PayReturns
CHECK_DEADLOCK FALSE
