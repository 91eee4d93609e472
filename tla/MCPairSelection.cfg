SPECIFICATION Spec
CONSTANTS
  Pairs = {p1, p2, p3}
  NoPair = NoPair
  Amounts <- MCAmounts
  MinAmount = 0
  Expiry = 1
  Hops = {h1}
  MaxTime = 4
INVARIANTS PairsConserved SkipsRecentFailures GivesUpOnlyExhausted
PROPERTIES PickReturns ImplementsPool
CHECK_DEADLOCK FALSE
