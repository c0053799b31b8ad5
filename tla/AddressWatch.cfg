\* Two requests for two usernames, with every fault at any step, and a chain of
\* two blocks; one event fits between the rescan and the loop.
CONSTANTS
  c1 = c1
  c2 = c2
  t1 = t1
  t2 = t2
  Calls = {c1, c2}
  Usernames = {alice, bob}
  None = None
  Txs = {t1, t2}
  Outputs <- MCOutputs
  Strange <- MCStrange
  Capacity = 1
  MaxBlocks = 2
SPECIFICATION WatchSpec
INVARIANTS
  StoredUsersLogIn
  NoOrphanLogins
  AnswersAreTrue
PROPERTIES
  RegisteredIsWatched
  PaymentsRecorded
CHECK_DEADLOCK FALSE
