CONSTANTS
  u1 = u1
  None = None
  Nodes = {n1, n2}
  Deposits = {d1}
  Users = {u1}
  Owner <- OneOwner
  Satoshis <- OneSatoshi
  Confirmations = 1
  MaxEvents = 4
  Faults = {"insert", "list", "mark", "delete", "call", "reply", "crash", "age"}
  MaxFaults = 2
SPECIFICATION Spec
SYMMETRY Symmetry
CHECK_DEADLOCK FALSE
INVARIANTS
  TypeOK
  MarksAreTrue
