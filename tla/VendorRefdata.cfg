\* One league of every sport, an MLB doubleheader, a result that is corrected, one failure.
CONSTANTS
  Null = Null
  Seasons <- MCSeasons
  Sport <- MCSport
  Teams <- MCTeams
  Players <- MCPlayers
  Games <- MCGames
  LeagueOf <- MCLeagueOf
  ExternalID <- MCExternalID
  Code <- MCCode
  Home <- MCHome
  Away <- MCAway
  FirstDay <- MCFirstDay
  FirstTeam <- MCFirstTeam
  Position <- MCPosition
  LastName <- MCLastName
  Week <- MCWeek
  Page <- MCPage
  Box <- MCBox
  MaxSuffix = 1
  Days = 2
  MaxVersion = 2
  MaxMoves = 1
  MaxFaults = 1
SPECIFICATION Spec
INVARIANTS
  TypeOK
  FinalHasNumbers
PROPERTIES
  IdentityKept
  ResultsStand
  OverGetsFinal
  CatchesUp
