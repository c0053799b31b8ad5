CONSTANTS
  u1 = u1
  None = None
  Nodes = {n1, n2}
  Deposits = {d1}
  Users = {u1}
  Owner <- OneOwner
  Satoshis <- OneSatoshi
  Confirmations = 1
  MaxEvents = 4
  Faults = {"reply"}
  MaxFaults = 1
SPECIFICATION FairSpec
CHECK_DEADLOCK FALSE
INVARIANT TableComplete
PROPERTIES
  ConfirmedRowsStay
  BuriedIsConfirmed
