SPECIFICATION Spec
CONSTANTS
  Amounts <- MCAmounts
  MinAmounts <- MCMinAmounts
  ProbeSteps = 4
  FailTolerance = 100000
INVARIANTS ResultWasAccepted Bracketed ResultNotTooSmall FindsTheLiquidity
PROPERTIES SearchEnds ImplementsSearch
CHECK_DEADLOCK FALSE
