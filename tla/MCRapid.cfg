SPECIFICATION Spec
CONSTANTS
  Amounts <- MCAmounts
  MinAmounts <- MCMinAmounts
  DefaultMin = 1
  Routes <- MCRoutes
  NoLimit = 1000
  Fees <- MCFees
  Rooms <- MCRooms
  Shifts <- MCShifts
  Spares <- MCSpares
  MaxPaid = 8
INVARIANTS WithinHigherCap SqueezedUnlessLeftEarly SummaryHasTheTotals
PROPERTIES DecreaseGoesDown RapidEnds
CHECK_DEADLOCK FALSE
