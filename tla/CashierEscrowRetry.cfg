CONSTANTS
  u1 = u1
  u2 = u2
  k1 = k1
  k2 = k2
  k3 = k3
  d1 = d1
  o1 = o1
  o2 = o2
  None = None
  Users = {u1, u2}
  Refs = {k1, k2, k3, d1}
  Orders = {o1, o2}
  Procs = {p1, p2}
  Requests <- OrderRequests
  MaxCalls = 4
SPECIFICATION Spec
CHECK_DEADLOCK FALSE
PROPERTY EscrowRetryIsIdempotent
