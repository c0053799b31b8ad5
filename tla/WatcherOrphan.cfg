CONSTANTS
  u1 = u1
  None = None
  Nodes = {n1, n2}
  Deposits = {d1}
  Users = {u1}
  Owner <- OneOwner
  Satoshis <- OneSatoshi
  Confirmations = 1
  MaxEvents = 4
  Faults = {}
  MaxFaults = 1
SPECIFICATION Spec
CHECK_DEADLOCK FALSE
INVARIANT OrphansInactive
