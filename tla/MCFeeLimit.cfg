SPECIFICATION Spec
CONSTANTS
  Channels = {c1, c2}
  Amounts <- MCAmounts
  Policies <- MCPolicies
  Settings <- MCSettings
INVARIANTS WithinRate Economical
PROPERTIES LimitsNeverChange
