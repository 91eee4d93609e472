SPECIFICATION Spec
CONSTANTS
  Heights = 16
  Indexes = 2
  Positions = 4
  BlockHeight = 9
  Chans <- MCChans
  Capacity <- MCCapacity
  Peer <- MCPeer
  Files <- MCFiles
  CommandLines <- MCCommandLines
  LocalBalances <- MCLocalBalances
  Asked <- MCAsked
  Fees <- MCFees
  MaxPayments = 2
INVARIANTS TargetReserveAllows
CHECK_DEADLOCK FALSE
