CONSTANTS
  Nodes = {n1, n2, n3}
  MaxExpiries = 2
  None = None
  Orphan = Orphan
SPECIFICATION FairSpec
INVARIANTS
  AtMostOneLeader
PROPERTY SomebodyLeads
