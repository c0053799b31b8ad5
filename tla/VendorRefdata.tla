--------------------------- MODULE VendorRefdata ---------------------------
(***************************************************************************)
(* vendor_refdata: one process copies teams, players, schedules and        *)
(* results from the sports vendors into the tables the registry reads.     *)
(* Two goroutines share the tables: the Populator goes through the leagues *)
(* and upserts what the vendors list, the EventFetcher looks for games     *)
(* that are over, writes the players' numbers and marks the game FINAL.    *)
(* Every request and every statement may fail; most failures are logged    *)
(* and passed over, some end the league or the game.                       *)
(*                                                                         *)
(* A row is found by (external_vendor, external_id).  The vendor may move  *)
(* a game, transfer a player, and correct a result already reported:       *)
(* result[g] counts its versions, 0 as long as the game is not over.       *)
(***************************************************************************)
EXTENDS SequencesExt, BoxScores

CONSTANTS
  Seasons,     \* what the vendors may have this year: the leagues, in the order
               \* Populator.RunOnce takes them, their games and players
  Sport,       \* of every league: "mlb", "soccer" or "nfl"
  Teams, Players, Games,
  LeagueOf,    \* league of every team, player and game
  ExternalID,  \* the vendor's id of every team, player and game
  Code,        \* the vendor's code of every team; "" if it has none
  Home, Away,  \* the teams of every game
  FirstDay,    \* the day each game is first announced for; 0 if no day is known yet
  FirstTeam,   \* the team each player starts with
  Position,    \* of every player; "" if it is none of those in the position map
  LastName,
  Week,        \* the NFL week of a game
  Page,        \* the page of the soccer listing a player is on
  Box,         \* Box[g][v][p]: the line of p in version v of the box score of g
  MaxSuffix,   \* UpsertPlayer tries MaxSuffix suffixes after the plain id
  Days, MaxVersion, MaxMoves, MaxFaults   \* bounds

SportOf(x) == Sport[LeagueOf[x]]

ASSUME NamesAssumption ==
  /\ Teams \intersect Players = {} /\ Games \intersect (Teams \union Players) = {}
  /\ Null \notin Teams \union Players \union Games
  /\ IsFiniteSet(Teams) /\ IsFiniteSet(Players) /\ IsFiniteSet(Games)

ASSUME BoundsAssumption ==
  {Days, MaxVersion} \subseteq Nat \ {0} /\ {MaxSuffix, MaxMoves, MaxFaults} \subseteq Nat

ASSUME LeaguesAssumption ==
  /\ Sport \in [DOMAIN Sport -> {"mlb", "soccer", "nfl"}]
  /\ LeagueOf \in [Teams \union Players \union Games -> DOMAIN Sport]
  /\ \A s \in Seasons : /\ s.leagues \in Seq(DOMAIN Sport) /\ s.leagues # << >>
                        /\ s.games \subseteq Games /\ s.players \subseteq Players

ASSUME VendorsAssumption ==
  /\ Home \in [Games -> Teams] /\ Away \in [Games -> Teams] /\ FirstTeam \in [Players -> Teams]
  /\ FirstDay \in [Games -> 0 .. Days]
  /\ DOMAIN Code = Teams /\ DOMAIN LastName = Players

(* The positions of the sport's map; "WR" stands for tight ends as well. *)
ASSUME PositionAssumption ==
  \A p \in Players :
    \/ Position[p] = ""
    \/ SportOf(p) = "mlb" /\ Position[p] \in {"BATTER", "PITCHER"}
    \/ SportOf(p) = "soccer" /\ Position[p] \in {"OUTFIELD", "KEEPER"}
    \/ SportOf(p) = "nfl" /\ Position[p] \in {"QB", "RB", "WR", "DEFENSE"}

(* The ids of a vendor's service tell its teams, players and games apart. *)
ASSUME ExternalIDAssumption ==
  \A S \in {Teams, Players, Games} : \A x, y \in S :
    SportOf(x) = SportOf(y) /\ ExternalID[x] = ExternalID[y] => x = y

ASSUME BoxAssumption ==
  \A g \in Games :
    /\ 1 .. MaxVersion \subseteq DOMAIN Box[g]
    /\ DOMAIN Box[g][1] \subseteq {p \in Players : SportOf(p) = SportOf(g)}
    /\ \A v \in DOMAIN Box[g] :
         /\ DOMAIN Box[g][v] = DOMAIN Box[g][1]
         /\ \A p \in DOMAIN Box[g][v] :
              Box[g][v][p] \in CASE SportOf(g) = "mlb"    -> mlbBoxscorePlayer
                                 [] SportOf(g) = "soccer" -> apFixturePlayer
                                 [] SportOf(g) = "nfl"    -> apNFLPlayer

VARIABLES
  season,   \* vendor: one of Seasons
  today,
  day,      \* vendor: the day each game is scheduled for
  roster,   \* vendor: the team of each player
  result,   \* vendor: version of each game's result, 0 before it is over
  moves,    \* changes of day and roster so far
  teams,    \* table teams: internal id, by external key
  players,  \* table players: internal id and team
  games,    \* table games: internal id, day, score and whether it is FINAL
  stats,    \* table game_player_stats: for a game and a player, values by prop type
  pop,      \* the Populator: leagues and requests to come, rows to be upserted
  fetch,    \* the EventFetcher: its games, and where it is with one of them
  missed,   \* lines passed over, as <<game, player>>
  faults    \* failures so far

vendor == <<season, today, day, roster, result, moves>>
tables == <<teams, players, games, stats>>
vars   == <<vendor, tables, pop, fetch, missed, faults>>

(* mlbVendor, soccerVendor and nflVendor: the last two are the same. *)
Key ==
  [x \in Teams \union Players \union Games |->
     <<IF SportOf(x) = "mlb" THEN "mlb_stats" ELSE "apisports", ExternalID[x]>>]

Keys(S) == {Key[x] : x \in S}

(* The requests and statements of a set fail. *)
Fail(S) == faults' = faults + Cardinality(S) /\ faults' <= MaxFaults

Fault == Fail({1})

-----------------------------------------------------------------------------
(* The vendors. *)

NewDay ==
  /\ today < Days
  /\ today' = today + 1
  /\ UNCHANGED <<season, day, roster, result, moves, tables, pop, fetch, missed, faults>>

Reschedule(g) ==
  /\ result[g] = 0 /\ moves < MaxMoves
  /\ \E d \in 1 .. Days \ {day[g]} : day' = [day EXCEPT ![g] = d]
  /\ moves' = moves + 1
  /\ UNCHANGED <<season, today, roster, result, tables, pop, fetch, missed, faults>>

Transfer(p) ==
  /\ moves < MaxMoves
  /\ \E t \in {t \in Teams : LeagueOf[t] = LeagueOf[p]} \ {roster[p]} :
       roster' = [roster EXCEPT ![p] = t]
  /\ moves' = moves + 1
  /\ UNCHANGED <<season, today, day, result, tables, pop, fetch, missed, faults>>

(* Of two games of the same teams on a day, MLB calls one the second. *)
GameNumber(g) ==
  LET earlier == {h \in season.games : /\ <<Home[h], Away[h], day[h]>> = <<Home[g], Away[g], day[g]>>
                                       /\ ExternalID[h] < ExternalID[g]}
  IN  1 + Cardinality(earlier)

(* The game ends. *)
Report(g) ==
  /\ day[g] \in 1 .. today
  /\ result[g] = 0
  /\ result' = [result EXCEPT ![g] = 1]
  /\ UNCHANGED <<season, today, day, roster, moves, tables, pop, fetch, missed, faults>>

(* Its score and box score are corrected. *)
Correct(g) ==
  /\ result[g] \in 1 .. MaxVersion - 1 /\ moves < MaxMoves
  /\ result' = [result EXCEPT ![g] = @ + 1]
  /\ moves' = moves + 1
  /\ UNCHANGED <<season, today, day, roster, tables, pop, fetch, missed, faults>>

-----------------------------------------------------------------------------
(* Internal ids. *)

makeTeamID(t) == <<LeagueOf[t], Code[t]>>

makePlayerID(p, t, suffix) == <<LeagueOf[t], Code[t], LastName[p], suffix>>

(* Mutant: no suffix for the second game of a day. *)
makeGameIDWithoutNumber(g, d, number) == <<LeagueOf[g], Code[Away[g]], Code[Home[g]], d, 1>>

makeGameID(g, d, number) == <<LeagueOf[g], Code[Away[g]], Code[Home[g]], d, number>>

(* The id of a row, and those a table holds. *)
IDs(table) == {table[k].id : k \in {k \in DOMAIN table : table[k] # Null}}

-----------------------------------------------------------------------------
(* The Populator: a league is a sequence of requests, whose responses are  *)
(* upserted row by row before the next request is made.                    *)

TeamsOf == [league \in DOMAIN Sport |-> SetToSeq({t \in Teams : LeagueOf[t] = league})]

Request(kind, arg) == [kind |-> kind, arg |-> arg]

RosterRequests(league) ==
  [i \in DOMAIN TeamsOf[league] |-> Request("roster", TeamsOf[league][i])]

FetchMLBRefData(league) ==
  <<Request("teams", Null)>> \o RosterRequests(league) \o <<Request("games", Null)>>

FetchSoccerRefData(league) ==
  LET pages == {Page[p] : p \in {p \in season.players : LeagueOf[p] = league}}
  IN  <<Request("teams", Null)>> \o [n \in 1 .. Cardinality(pages) |-> Request("page", n)]
      \o <<Request("games", Null)>>

FetchNFLRefData(league) ==
  LET weeks == {Week[g] : g \in {g \in season.games : LeagueOf[g] = league}}
  IN  <<Request("teams", Null)>> \o RosterRequests(league)
      \o [n \in 1 .. Cardinality(weeks) |-> Request("week", n)]

RefDataRequests(league) ==
  CASE Sport[league] = "mlb"    -> FetchMLBRefData(league)
    [] Sport[league] = "soccer" -> FetchSoccerRefData(league)
    [] Sport[league] = "nfl"    -> FetchNFLRefData(league)

(* Requests whose failure ends the league: no roster and no week does.     *)
EndsLeague(request) == request.kind \in {"teams", "page", "games"}

(* The rows of a response that are not skipped. *)
PlayerRow(p) == [of |-> p, team |-> roster[p]]

(* Players of a position that is in the map. *)
Placed(league) == {p \in season.players : LeagueOf[p] = league /\ Position[p] # ""}

fetchMLBRoster(t) == {PlayerRow(p) : p \in {p \in Placed("MLB") : roster[p] = t}}

fetchNFLRoster(t) == {PlayerRow(p) : p \in {p \in Placed("NFL") : roster[p] = t}}

soccerPage(league, n) ==
  {PlayerRow(p) : p \in {p \in Placed(league) : Page[p] = n /\ Code[roster[p]] # ""}}

GameRow(g, number) == [of |-> g, day |-> day[g], number |-> number]

HaveCodes(g) == Code[Home[g]] # "" /\ Code[Away[g]] # ""

Listed(league) == {g \in season.games : LeagueOf[g] = league /\ HaveCodes(g)}

(* A date that does not parse is passed over. *)
mlbSchedule(league) == {GameRow(g, GameNumber(g)) : g \in {g \in Listed(league) : day[g] # 0}}

(* A fixture without a date is stored with the timestamp 0. *)
soccerFixtures(league) == {GameRow(g, 1) : g \in Listed(league)}

fetchNFLWeek(league, n) == {GameRow(g, 1) : g \in {g \in Listed(league) : Week[g] = n /\ day[g] # 0}}

Rows(league, request) ==
  CASE request.kind = "roster" -> IF league = "MLB" THEN fetchMLBRoster(request.arg) ELSE fetchNFLRoster(request.arg)
    [] request.kind = "page"   -> soccerPage(league, request.arg)
    [] request.kind = "week"   -> fetchNFLWeek(league, request.arg)
    [] request.kind = "games"  -> IF league = "MLB" THEN mlbSchedule(league) ELSE soccerFixtures(league)

(* On to the next league when the last row of the last response is done. *)
Continue(leagues, requests, rows) ==
  IF requests = << >> /\ rows = {}
  THEN [leagues  |-> Tail(leagues), rows |-> {},
        requests |-> IF Len(leagues) > 1 THEN RefDataRequests(leagues[2]) ELSE << >>]
  ELSE [leagues |-> leagues, requests |-> requests, rows |-> rows]

Idle == [leagues |-> << >>, requests |-> << >>, rows |-> {}]

(* The ticker of Run. *)
Tick ==
  /\ pop = Idle
  /\ pop' = [leagues |-> season.leagues, requests |-> RefDataRequests(Head(season.leagues)), rows |-> {}]
  /\ UNCHANGED <<vendor, tables, fetch, missed, faults>>

(* INSERT ... ON CONFLICT (external_vendor, external_id) DO UPDATE the name, *)
(* team by team; a second team with the same code is an error, which is     *)
(* logged, as any statement that fails.                                     *)
UpsertTeams(listed, fail) ==
  LET new(i)   == /\ listed[i] \notin fail /\ teams[Key[listed[i]]] = Null
                  /\ makeTeamID(listed[i]) \notin IDs(teams)
      first(i) == \A j \in 1 .. i - 1 : new(j) => makeTeamID(listed[j]) # makeTeamID(listed[i])
      inserted == {listed[i] : i \in {i \in DOMAIN listed : new(i) /\ first(i)}}
  IN  [k \in DOMAIN teams |->
         IF k \in Keys(inserted) THEN [id |-> makeTeamID(CHOOSE t \in inserted : Key[t] = k)] ELSE teams[k]]

(* Only the Populator uses the teams, so that they are upserted with the      *)
(* request.                                                                   *)
GetTeams ==
  /\ pop.requests # << >> /\ Head(pop.requests).kind = "teams"
  /\ LET listed == TeamsOf[Head(pop.leagues)]
     IN  \E fail \in SUBSET ToSet(listed) : Fail(fail) /\ teams' = UpsertTeams(listed, fail)
  /\ pop' = Continue(pop.leagues, Tail(pop.requests), {})
  /\ UNCHANGED <<vendor, players, games, stats, fetch, missed>>

Get ==
  /\ pop.requests # << >> /\ pop.rows = {}
  /\ Head(pop.requests).kind # "teams"
  /\ pop' = Continue(pop.leagues, Tail(pop.requests), Rows(Head(pop.leagues), Head(pop.requests)))
  /\ UNCHANGED <<vendor, tables, fetch, missed, faults>>

(* The request fails, or the season cannot be stored before the first one. *)
GetFails ==
  /\ pop.requests # << >> /\ pop.rows = {}
  /\ Fault
  /\ pop' = Continue(pop.leagues, IF EndsLeague(Head(pop.requests)) THEN << >> ELSE Tail(pop.requests), {})
  /\ UNCHANGED <<vendor, tables, fetch, missed>>

RowDone(r) == pop' = Continue(pop.leagues, pop.requests, pop.rows \ {r})

(* The SELECT, then an UPDATE of the row found, or INSERTs until an id is free. *)
UpsertPlayer(r) ==
  LET p    == r.of
      team == makeTeamID(r.team)
      free == {s \in 0 .. MaxSuffix : makePlayerID(p, r.team, s) \notin IDs(players)}
      row  == players[Key[p]]
      upserted ==
        IF row # Null THEN [row EXCEPT !.team = team]
        ELSE IF free = {} THEN Null
        ELSE [id |-> makePlayerID(p, r.team, Min(free)), team |-> team]
  IN  /\ p \in Players
      /\ players' = IF team \in IDs(teams) THEN [players EXCEPT ![Key[p]] = upserted] ELSE players
      /\ RowDone(r)
      /\ UNCHANGED <<vendor, teams, games, stats, fetch, missed, faults>>

(* A new row; the id of another game, or a team not stored, is an error. *)
InsertedGame(r) ==
  LET id == makeGameID(r.of, r.day, r.number)
  IN  IF {makeTeamID(Home[r.of]), makeTeamID(Away[r.of])} \subseteq IDs(teams) /\ id \notin IDs(games)
      THEN [id |-> id, day |-> r.day, final |-> FALSE, score |-> 0]
      ELSE Null

(* Mutants: the conflict also sets id = EXCLUDED.id, or status = EXCLUDED.status. *)
UpsertedGameRenamed(r, row) ==
  IF row = Null THEN InsertedGame(r)
  ELSE [row EXCEPT !.day = r.day, !.id = makeGameID(r.of, r.day, r.number)]

UpsertedGameReopened(r, row) ==
  IF row = Null THEN InsertedGame(r) ELSE [row EXCEPT !.day = r.day, !.final = FALSE]

(* On a conflict of the external key only the day is updated, not the id and  *)
(* not the status.                                                            *)
UpsertedGame(r, row) == IF row = Null THEN InsertedGame(r) ELSE [row EXCEPT !.day = r.day]

UpsertGame(r) ==
  /\ r.of \in Games
  /\ games' = [games EXCEPT ![Key[r.of]] = UpsertedGame(r, @)]
  /\ RowDone(r)
  /\ UNCHANGED <<vendor, teams, players, stats, fetch, missed, faults>>

(* A statement fails, and is logged. *)
UpsertFails(r) ==
  /\ Fault
  /\ RowDone(r)
  /\ UNCHANGED <<vendor, tables, fetch, missed>>

Populator ==
  \/ Tick \/ GetTeams \/ Get \/ GetFails
  \/ \E r \in pop.rows : UpsertPlayer(r) \/ UpsertGame(r) \/ UpsertFails(r)

-----------------------------------------------------------------------------
(* The EventFetcher.  fetch.queue: the games of this run not yet finished; *)
(* seen: the version of the result a status answer gave; game: the one in  *)
(* hand; calls: the box score requests to come, as the players each lists; *)
(* sheet: the lines still to be written, as <<player, version>>.           *)

Resting ==
  [queue |-> {}, checked |-> FALSE, seen |-> [g \in Games |-> 0],
   game |-> Null, calls |-> << >>, sheet |-> {}]

Of(sport, S) == {g \in S : SportOf(g) = sport}

(* Mutant: only the games of today. *)
ListActiveGamesToday ==
  {g \in Games : /\ games[Key[g]] # Null
                 /\ Sport[games[Key[g]].id[1]] = SportOf(g)
                 /\ ~games[Key[g]].final
                 /\ games[Key[g]].day = today}

(* Games not FINAL that have begun.  The vendor is asked for the game the   *)
(* row's league says; without a game there is nothing to do.                *)
ListActiveGames ==
  {g \in Games : /\ games[Key[g]] # Null
                 /\ Sport[games[Key[g]].id[1]] = SportOf(g)
                 /\ ~games[Key[g]].final
                 /\ games[Key[g]].day <= today}

RunOnce ==
  /\ fetch = Resting
  /\ ListActiveGames # {}
  /\ fetch' = [fetch EXCEPT !.queue = ListActiveGames, !.checked = Of("mlb", ListActiveGames) = {}]
  /\ UNCHANGED <<vendor, tables, pop, missed, faults>>

(* Mutant: the game in hand is kept. *)
LeaveKeepsGame(queue) ==
  IF queue = {} THEN Resting
  ELSE [fetch EXCEPT !.queue = queue, !.checked = TRUE, !.calls = << >>, !.sheet = {}]

(* The game in hand is done, and after the last one the run. *)
Leave(queue) ==
  IF queue = {} THEN Resting
  ELSE [fetch EXCEPT !.queue = queue, !.checked = TRUE, !.game = Null, !.calls = << >>, !.sheet = {}]

(* FetchMLBResults: one status request for all MLB games. *)
BatchStatus ==
  /\ fetch.queue # {} /\ ~fetch.checked
  /\ LET mlb  == Of("mlb", fetch.queue)
         over == {g \in mlb : result[g] > 0}
         rest == (fetch.queue \ mlb) \union over
     IN  fetch' = IF rest = {} THEN Resting
                  ELSE [fetch EXCEPT !.queue = rest, !.checked = TRUE,
                                     !.seen = [g \in Games |-> IF g \in over THEN result[g] ELSE 0]]
  /\ UNCHANGED <<vendor, tables, pop, missed, faults>>

BatchStatusFails ==
  /\ fetch.queue # {} /\ ~fetch.checked
  /\ Fault
  /\ fetch' = Leave(fetch.queue \ Of("mlb", fetch.queue))
  /\ UNCHANGED <<vendor, tables, pop, missed>>

(* The players each box score request lists: soccer asks team by team. *)
BoxRequests(g) ==
  LET listed == DOMAIN Box[g][1]
      home   == {p \in listed : FirstTeam[p] = Home[g]}
  IN  IF SportOf(g) = "soccer" THEN <<home, listed \ home>> ELSE <<listed>>

(* MLB before soccer before NFL. *)
Turn(g) ==
  /\ g \in fetch.queue /\ fetch.checked /\ fetch.game = Null
  /\ SportOf(g) = "soccer" => Of("mlb", fetch.queue) = {}
  /\ SportOf(g) = "nfl" => Of("mlb", fetch.queue) \union Of("soccer", fetch.queue) = {}

TakeMLBGame(g) ==
  /\ Turn(g) /\ SportOf(g) = "mlb"
  /\ fetch' = [fetch EXCEPT !.game = g, !.calls = BoxRequests(g)]
  /\ UNCHANGED <<vendor, tables, pop, missed, faults>>

(* Soccer and NFL ask for every game; one that is not over is left. *)
GameDetail(g) ==
  /\ Turn(g)
  /\ fetch' = IF result[g] = 0 THEN Leave(fetch.queue \ {g})
              ELSE [fetch EXCEPT !.game = g, !.seen[g] = result[g], !.calls = BoxRequests(g)]
  /\ UNCHANGED <<vendor, tables, pop, missed, faults>>

fetchSoccerGameResult(g) == SportOf(g) = "soccer" /\ GameDetail(g)

fetchNFLGameResult(g) == SportOf(g) = "nfl" /\ GameDetail(g)

GameDetailFails(g) ==
  /\ Turn(g) /\ SportOf(g) # "mlb"
  /\ Fault
  /\ fetch' = Leave(fetch.queue \ {g})
  /\ UNCHANGED <<vendor, tables, pop, missed>>

Lines(S) == {<<fetch.game, p>> : p \in S}

(* fetchMLBBoxscore, fetchSoccerTeamStats, fetchNFLPlayerStats. *)
BoxScore ==
  /\ fetch.calls # << >> /\ fetch.sheet = {}
  /\ fetch' = [fetch EXCEPT !.calls = Tail(@), !.sheet = {<<p, result[fetch.game]>> : p \in Head(fetch.calls)}]
  /\ UNCHANGED <<vendor, tables, pop, missed, faults>>

(* fetchMLBBoxscore returns an error, of the request or of a lookup: the game *)
(* is left for the next run.                                                  *)
MLBBoxScoreFails ==
  /\ fetch.game # Null /\ SportOf(fetch.game) = "mlb"
  /\ fetch.calls # << >> \/ fetch.sheet # {}
  /\ Fault
  /\ fetch' = Leave(fetch.queue \ {fetch.game})
  /\ UNCHANGED <<vendor, tables, pop, missed>>

(* The others only log it: the request, or the rest of the sheet, is passed over. *)
StatsFail ==
  /\ fetch.game # Null /\ SportOf(fetch.game) # "mlb"
  /\ \/ /\ fetch.calls # << >> /\ fetch.sheet = {}
        /\ fetch' = [fetch EXCEPT !.calls = Tail(@)]
        /\ missed' = missed \union Lines(Head(fetch.calls))
     \/ /\ fetch.sheet # {}
        /\ fetch' = [fetch EXCEPT !.sheet = {}]
        /\ missed' = missed \union Lines({line[1] : line \in fetch.sheet})
  /\ Fault
  /\ UNCHANGED <<vendor, tables, pop>>

Writes(sport, l) ==
  CASE sport = "mlb" -> MLBWrites(l) [] sport = "soccer" -> SoccerWrites(l) [] sport = "nfl" -> NFLWrites(l)

LookupPlayerByExternal(p) == players[Key[p]]

(* One line: the lookup, which passes over a player not stored, and an     *)
(* upsert per number, of which those in fail are only logged.              *)
WriteLine(p, v) ==
  LET g == fetch.game
      writes == Writes(SportOf(g), Box[g][v][p])
  IN  /\ <<p, v>> \in fetch.sheet
      /\ fetch' = [fetch EXCEPT !.sheet = @ \ {<<p, v>>}]
      /\ IF LookupPlayerByExternal(p) = Null
         THEN missed' = missed \union Lines({p}) /\ UNCHANGED <<stats, faults>>
         ELSE \E fail \in SUBSET DOMAIN writes :
                /\ Fail(fail)
                /\ missed' = IF fail = {} THEN missed \ Lines({p}) ELSE missed \union Lines({p})
                /\ stats' = [stats EXCEPT ![<<Key[g], Key[p]>>] =
                               UpsertPlayerStat(@, [prop \in DOMAIN writes \ fail |-> writes[prop]])]
      /\ UNCHANGED <<vendor, teams, players, games, pop>>

(* The score is the one the status answer gave. *)
MarkGameFinal ==
  LET g == fetch.game
  IN  /\ g # Null /\ fetch.calls = << >> /\ fetch.sheet = {}
      /\ games' = [games EXCEPT ![Key[g]] = [@ EXCEPT !.final = TRUE, !.score = fetch.seen[g]]]
      /\ fetch' = Leave(fetch.queue \ {g})
      /\ UNCHANGED <<vendor, teams, players, stats, pop, missed, faults>>

MarkGameFinalFails ==
  /\ fetch.game # Null /\ fetch.calls = << >> /\ fetch.sheet = {}
  /\ Fault
  /\ fetch' = Leave(fetch.queue \ {fetch.game})
  /\ UNCHANGED <<vendor, tables, pop, missed>>

EventFetcher ==
  \/ RunOnce \/ BatchStatus \/ BatchStatusFails
  \/ \E g \in fetch.queue : 
       \/ TakeMLBGame(g)
       \/ fetchSoccerGameResult(g) \/ fetchNFLGameResult(g) \/ GameDetailFails(g)
  \/ BoxScore \/ MLBBoxScoreFails \/ StatsFail
  \/ \E line \in fetch.sheet : WriteLine(line[1], line[2])
  \/ MarkGameFinal \/ MarkGameFinalFails

-----------------------------------------------------------------------------
(* The process is restarted: the tables are all that remains. *)
Restart ==
  /\ Fault
  /\ <<pop, fetch>> # <<Idle, Resting>>
  /\ pop' = Idle
  /\ fetch' = Resting
  /\ UNCHANGED <<vendor, tables, missed>>

Init ==
  /\ season \in Seasons
  /\ today = 1
  /\ day = FirstDay
  /\ roster = FirstTeam
  /\ result = [g \in Games |-> 0]
  /\ moves = 0
  /\ teams = [k \in Keys(Teams) |-> Null]
  /\ players = [k \in Keys(Players) |-> Null]
  /\ games = [k \in Keys(Games) |-> Null]
  /\ stats = [k \in Keys(Games) \X Keys(Players) |-> << >>]
  /\ pop = Idle
  /\ fetch = Resting
  /\ missed = {}
  /\ faults = 0

Vendors ==
  \/ NewDay
  \/ \E g \in season.games : Reschedule(g) \/ Report(g) \/ Correct(g)
  \/ \E p \in season.players : Transfer(p)

Next == Vendors \/ Populator \/ EventFetcher \/ Restart

(* Both goroutines go on for ever; the vendors need not do anything. *)
Spec == Init /\ [][Next]_vars /\ WF_vars(Populator) /\ WF_vars(EventFetcher)

-----------------------------------------------------------------------------
TeamID == (DOMAIN Sport) \X Range(Code)
PlayerID == (DOMAIN Sport) \X Range(Code) \X Range(LastName) \X (0 .. MaxSuffix)
GameID == (DOMAIN Sport) \X Range(Code) \X Range(Code) \X (0 .. Days) \X Nat

TeamRecord == [id : TeamID]
PlayerRecord == [id : PlayerID, team : TeamID]
GameRecord == [id : GameID, day : 0 .. Days, final : BOOLEAN, score : 0 .. MaxVersion]

ASSUME NullAssumption == Null \notin TeamRecord /\ Null \notin PlayerRecord /\ Null \notin GameRecord

TypeOK ==
  /\ season \in Seasons
  /\ today \in 1 .. Days
  /\ day \in [Games -> 0 .. Days]
  /\ roster \in [Players -> Teams]
  /\ result \in [Games -> 0 .. MaxVersion]
  /\ moves \in 0 .. MaxMoves /\ faults \in 0 .. MaxFaults
  /\ teams \in [Keys(Teams) -> TeamRecord \union {Null}]
  /\ players \in [Keys(Players) -> PlayerRecord \union {Null}]
  /\ games \in [Keys(Games) -> GameRecord \union {Null}]
  /\ DOMAIN stats = Keys(Games) \X Keys(Players)
  /\ pop.leagues = << >> => pop = Idle
  /\ fetch.queue \subseteq Games /\ (fetch.game # Null => fetch.game \in fetch.queue)
  /\ missed \subseteq Games \X Players

Final(g) == games[Key[g]] # Null /\ games[Key[g]].final

(* A row, once stored, is never lost and never changes its internal id,     *)
(* which markets and stats refer to, and no two rows share one: UpsertGame  *)
(* and UpsertPlayer find a moved game or a transferred player by its        *)
(* external key, although its id, made afresh from the day or the team,     *)
(* would be another one by now.                                             *)
IdentityKept ==
  [][\A table \in {<<teams, teams'>>, <<players, players'>>, <<games, games'>>} :
       \A k \in DOMAIN table[1] :
         table[1][k] # Null => /\ table[2][k] # Null
                              /\ table[2][k].id = table[1][k].id
                              /\ \A j \in DOMAIN table[2] \ {k} :
                                   table[2][j] # Null => table[2][j].id # table[2][k].id]_vars

(* A FINAL game is settled: neither a later schedule of the Populator, nor  *)
(* an EventFetcher run that listed the game before, nor a correction by the *)
(* vendor changes its status, its score or a player's number.               *)
ResultsStand ==
  [][\A g \in Games :
       Final(g) =>
         /\ Final(g)' /\ games'[Key[g]].score = games[Key[g]].score
         /\ \A p \in Players : stats'[<<Key[g], Key[p]>>] = stats[<<Key[g], Key[p]>>]]_vars

(* MarkGameFinal comes after the numbers: in a FINAL game every positive    *)
(* number one of the vendor's box scores gives a player, for a prop his     *)
(* position has, is recorded as reported, unless his line was passed over.  *)
FinalHasNumbers ==
  \A g \in Games :
    Final(g) =>
      \A p \in DOMAIN Box[g][1] :
        \/ <<g, p>> \in missed
        \/ \E v \in 1 .. result[g] :
             Ordinary(Box[g][v][p], Position[p]) => Covers(stats[<<Key[g], Key[p]>>], Box[g][v][p], Position[p])

(* A stored game that is over becomes FINAL, whatever single requests or    *)
(* statements fail on the way, and also after a restart.  This is so while  *)
(* requests end, with an answer or an error (the http clients are made      *)
(* without a timeout: apisportsclient.go:32, mlbclient.go:18), and while no *)
(* NFL game has the key of a soccer game, as their shared vendor            *)
(* "apisports" allows (nfl.go:13, soccer.go:11): one row would then stand   *)
(* for two games.                                                           *)
OverGetsFinal ==
  <>[](\A g \in season.games : result[g] > 0 /\ games[Key[g]] # Null => Final(g))

(* What keeps a game out of the table: a team without a code, a day not     *)
(* known, or another game that has its id, made when that was on this day.  *)
Blocked(g) ==
  \/ ~HaveCodes(g)
  \/ day[g] = 0
  \/ \E k \in DOMAIN games \ {Key[g]} :
       /\ games[k] # Null /\ games[k].id = makeGameID(g, day[g], GameNumber(g))
       /\ games[k].day # day[g]

(* The tables catch up with the vendors: once these change no more, the     *)
(* Populator ends up with every game on its day and every player on his     *)
(* team, whatever failed before.  As for OverGetsFinal, requests end and no *)
(* NFL row has the key of a soccer row.                                     *)
CatchesUp ==
  <>[](/\ \A g \in season.games :
            \/ games[Key[g]] # Null /\ games[Key[g]].day = day[g]
            \/ games[Key[g]] = Null /\ Blocked(g)
       /\ \A p \in season.players :
            Position[p] # "" /\ Code[roster[p]] # "" =>
              players[Key[p]] # Null /\ players[Key[p]].team = makeTeamID(roster[p]))
=============================================================================
