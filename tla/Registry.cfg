\* Two overlapping creations beside an earlier one, reference data that
\* changes once, and a client that lists one instrument per page.
CONSTANTS
  Calls = {c1, c2}
  Requests <- MCRequests
  Stored <- MCStored
  Filters <- MCFilters
  Fixtures <- MCFixtures
  Squad <- MCSquad
  PropRules <- MCPropRules
  SoccerLeagues = {"EPL"}
  Expiries = {1, 2}
  HashRank <- MCHashRank
  PageSize = 1
  MaxTime = 1
  MaxChanges = 1
  MaxThreshold = 3
  Unset = Unset
SPECIFICATION Spec
SYMMETRY CallSymmetry
INVARIANTS
  RefusalsJustified
  AnswersAreTrue
  FromOneSnapshot
  ListsEachOnce
CHECK_DEADLOCK FALSE
