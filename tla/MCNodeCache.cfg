SPECIFICATION Spec
CONSTANTS
  Processes = {a, b}
  Nodes = {n1, n2}
  Lifetime = 1
  Interrupts = {a}
  Faults <- MCAllFaults
  MaxTime = 3
INVARIANTS TypeOK
PROPERTIES ImplementsShared LockIsGranted
CHECK_DEADLOCK FALSE
