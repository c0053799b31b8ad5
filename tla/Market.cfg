CONSTANTS
  Symbols = {s1, s2}
  FlushEvery = 2
  EventsPerMessage = 2
  MaxLog = 3
  MaxFaults = 2
  None = None
SPECIFICATION FairSpec
INVARIANTS
  SnapshotMatchesLog
  BooksMatchLog
  ReportsInOrder
PROPERTIES
  MessagesHandled
  DepthDelivered
