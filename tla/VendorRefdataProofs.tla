------------------------- MODULE VendorRefdataProofs -------------------------
(***************************************************************************)
(* VendorRefdata proved for any leagues, teams, players, games and box     *)
(* scores: RefdataInv says what the Populator and the EventFetcher may     *)
(* rely on of the tables while the other one writes them, NumbersInv where *)
(* the numbers of every player of the game in hand are.                    *)
(***************************************************************************)
EXTENDS VendorRefdata, FiniteSetTheorems, WellFoundedInduction, TLAPS

PropTypes ==
  {"HOMERUNS", "HITS", "RBIS", "WALKS", "STRIKEOUTS", "EARNED_RUNS", "GOALS", "ASSISTS", "SAVES",
   "YELLOW_CARDS", "PASSING_YARDS", "TOUCHDOWNS", "INTERCEPTIONS", "RUSHING_YARDS", "RECEIVING_YARDS"}

-----------------------------------------------------------------------------
(* Box scores *)

(* Numbers are written for known props. *)
LEMMA OverlayProps ==
  ASSUME NEW f, NEW g, DOMAIN f \subseteq PropTypes, DOMAIN g \subseteq PropTypes
  PROVE  DOMAIN UpsertPlayerStat(f, g) \subseteq PropTypes
  BY DEF UpsertPlayerStat

LEMMA WritesProps ==
  ASSUME NEW sport \in {"mlb", "soccer", "nfl"}, NEW l
  PROVE  DOMAIN Writes(sport, l) \subseteq PropTypes
<1>1. DOMAIN MLBWrites(l) \subseteq PropTypes
  <2> DEFINE batting  == [HOMERUNS |-> l.batting.homeRuns, HITS |-> l.batting.hits,
                          RBIS |-> l.batting.rbi, WALKS |-> l.batting.baseOnBalls]
             pitching == [STRIKEOUTS |-> l.pitching.strikeOuts, EARNED_RUNS |-> l.pitching.earnedRuns,
                          WALKS |-> l.pitching.baseOnBalls]
             b == IF Positive(l.batting) THEN batting ELSE << >>
             p == IF Positive(l.pitching) THEN pitching ELSE << >>
  <2>1. DOMAIN b \subseteq PropTypes /\ DOMAIN p \subseteq PropTypes
    BY DEF PropTypes
  <2>2. MLBWrites(l) = UpsertPlayerStat(b, p)
    BY DEF MLBWrites
  <2> HIDE DEF b, p
  <2> QED
    BY <2>1, <2>2, OverlayProps
<1>2. DOMAIN SoccerWrites(l) \subseteq PropTypes
  BY DEF SoccerWrites, PropTypes
<1>3. DOMAIN NFLWrites(l) \subseteq PropTypes
  <2> DEFINE t == IF l.passing # Null
                  THEN [PASSING_YARDS |-> statInt(l.passing, "yards"), TOUCHDOWNS |-> statInt(l.passing, "tds"),
                        INTERCEPTIONS |-> statInt(l.passing, "interceptions")]
                  ELSE [TOUCHDOWNS |-> statInt(l.rushing, "tds") + statInt(l.receiving, "tds")]
             run == statInt(l.rushing, "yards")
             catch == statInt(l.receiving, "yards")
             r == IF run > 0 THEN [RUSHING_YARDS |-> run] ELSE << >>
             c == IF catch > 0 THEN [RECEIVING_YARDS |-> catch] ELSE << >>
  <2>1. DOMAIN t \subseteq PropTypes /\ DOMAIN r \subseteq PropTypes /\ DOMAIN c \subseteq PropTypes
    BY DEF PropTypes
  <2>2. NFLWrites(l) = UpsertPlayerStat(UpsertPlayerStat(t, r), c)
    BY DEF NFLWrites
  <2> HIDE DEF t, r, c
  <2> QED
    BY <2>1, <2>2, OverlayProps
<1> QED
  BY <1>1, <1>2, <1>3 DEF Writes

(* What covers a line still does when it is written over other numbers. *)
LEMMA OverlayCovers ==
  ASSUME NEW recorded, NEW writes, NEW l, NEW position, Covers(writes, l, position)
  PROVE  Covers(UpsertPlayerStat(recorded, writes), l, position)
<1> SUFFICES ASSUME NEW prop \in defaultPropRules[position],
                    Achieved(l, position)[prop] # Null, Achieved(l, position)[prop] > 0
             PROVE  /\ prop \in DOMAIN UpsertPlayerStat(recorded, writes)
                    /\ UpsertPlayerStat(recorded, writes)[prop] = Achieved(l, position)[prop]
  BY DEF Covers
<1>1. prop \in DOMAIN writes /\ writes[prop] = Achieved(l, position)[prop]
  BY DEF Covers
<1> QED
  BY <1>1 DEF UpsertPlayerStat

(* The groups of a line, and a number that comes last. *)
LEMMA Overlaid ==
  ASSUME NEW f, NEW g, NEW x
  PROVE  /\ x \in DOMAIN g => x \in DOMAIN UpsertPlayerStat(f, g) /\ UpsertPlayerStat(f, g)[x] = g[x]
         /\ x \in DOMAIN f /\ x \notin DOMAIN g =>
              x \in DOMAIN UpsertPlayerStat(f, g) /\ UpsertPlayerStat(f, g)[x] = f[x]
  BY DEF UpsertPlayerStat

LEMMA MLBCovers ==
  ASSUME NEW l \in mlbBoxscorePlayer, NEW position \in {"BATTER", "PITCHER"}, Ordinary(l, position)
  PROVE  Covers(MLBWrites(l), l, position)
<1> DEFINE batting  == [HOMERUNS |-> l.batting.homeRuns, HITS |-> l.batting.hits,
                        RBIS |-> l.batting.rbi, WALKS |-> l.batting.baseOnBalls]
           pitching == [STRIKEOUTS |-> l.pitching.strikeOuts, EARNED_RUNS |-> l.pitching.earnedRuns,
                        WALKS |-> l.pitching.baseOnBalls]
           b == IF Positive(l.batting) THEN batting ELSE << >>
           p == IF Positive(l.pitching) THEN pitching ELSE << >>
<1>1. MLBWrites(l) = UpsertPlayerStat(b, p)
  BY DEF MLBWrites
<1>2. CASE position = "BATTER"
  <2>1. p = << >>
    BY <1>2 DEF Ordinary
  <2>2. l.batting \in [homeRuns : Nat, hits : Nat, rbi : Nat, baseOnBalls : Nat]
    BY DEF mlbBoxscorePlayer
  <2>3. Positive(l.batting) \/ /\ ~(l.batting.homeRuns > 0) /\ ~(l.batting.hits > 0)
                               /\ ~(l.batting.rbi > 0) /\ ~(l.batting.baseOnBalls > 0)
    BY <2>2 DEF Positive
  <2>4. Covers(b, l, position)
    BY <1>2, <2>3 DEF Covers, defaultPropRules, Achieved
  <2>5. \A x : x \in DOMAIN b => x \in DOMAIN UpsertPlayerStat(b, p) /\ UpsertPlayerStat(b, p)[x] = b[x]
    BY <2>1, Overlaid
  <2> HIDE DEF b, p
  <2> QED
    BY <1>1, <2>4, <2>5 DEF Covers
<1>3. CASE position = "PITCHER"
  <2>2. l.pitching \in [strikeOuts : Nat, earnedRuns : Nat, baseOnBalls : Nat]
    BY DEF mlbBoxscorePlayer
  <2>3. Positive(l.pitching) \/ /\ ~(l.pitching.strikeOuts > 0) /\ ~(l.pitching.earnedRuns > 0)
                                /\ ~(l.pitching.baseOnBalls > 0)
    BY <2>2 DEF Positive
  <2>4. Covers(p, l, position)
    BY <1>3, <2>3 DEF Covers, defaultPropRules, Achieved
  <2> HIDE DEF b, p
  <2> QED
    BY <1>1, <2>4, OverlayCovers
<1> QED
  BY <1>2, <1>3

LEMMA SoccerCovers ==
  ASSUME NEW l \in apFixturePlayer, NEW position \in {"OUTFIELD", "KEEPER"}
  PROVE  Covers(SoccerWrites(l), l, position)
  BY DEF Covers, SoccerWrites, coerceNil, defaultPropRules, Achieved

LEMMA NFLCovers ==
  ASSUME NEW l \in apNFLPlayer, NEW position \in {"QB", "RB", "WR", "DEFENSE"}, Ordinary(l, position)
  PROVE  Covers(NFLWrites(l), l, position)
<1> DEFINE run == statInt(l.rushing, "yards")
           catch == statInt(l.receiving, "yards")
           thrown == [PASSING_YARDS |-> statInt(l.passing, "yards"), TOUCHDOWNS |-> statInt(l.passing, "tds"),
                      INTERCEPTIONS |-> statInt(l.passing, "interceptions")]
           others == [TOUCHDOWNS |-> statInt(l.rushing, "tds") + statInt(l.receiving, "tds")]
           t == IF l.passing # Null THEN thrown ELSE others
           r == IF run > 0 THEN [RUSHING_YARDS |-> run] ELSE << >>
           c == IF catch > 0 THEN [RECEIVING_YARDS |-> catch] ELSE << >>
           writes == UpsertPlayerStat(UpsertPlayerStat(t, r), c)
<1>1. NFLWrites(l) = writes
  BY DEF NFLWrites
<1>2. \A x \in {"PASSING_YARDS", "TOUCHDOWNS", "INTERCEPTIONS"} :
        x \in DOMAIN t => x \in DOMAIN writes /\ writes[x] = t[x]
  <2>1. \A x \in {"PASSING_YARDS", "TOUCHDOWNS", "INTERCEPTIONS"} : x \notin DOMAIN r /\ x \notin DOMAIN c
    OBVIOUS
  <2> HIDE DEF t, r, c
  <2> QED
    BY <2>1, Overlaid
<1>3. run > 0 => "RUSHING_YARDS" \in DOMAIN writes /\ writes["RUSHING_YARDS"] = run
  <2>1. run > 0 => "RUSHING_YARDS" \in DOMAIN r /\ r["RUSHING_YARDS"] = run
    OBVIOUS
  <2>2. "RUSHING_YARDS" \notin DOMAIN c
    OBVIOUS
  <2> HIDE DEF t, r, c
  <2> QED
    BY <2>1, <2>2, Overlaid
<1>4. catch > 0 => "RECEIVING_YARDS" \in DOMAIN writes /\ writes["RECEIVING_YARDS"] = catch
  <2>1. catch > 0 => "RECEIVING_YARDS" \in DOMAIN c /\ c["RECEIVING_YARDS"] = catch
    OBVIOUS
  <2> HIDE DEF t, r, c
  <2> QED
    BY <2>1, Overlaid
<1>5. CASE position = "QB"
  <2>1. l.passing # Null
    BY <1>5 DEF Ordinary
  <2>2. /\ \A x \in defaultPropRules[position] : x \in DOMAIN t /\ t[x] = Achieved(l, position)[x]
        /\ defaultPropRules[position] = {"PASSING_YARDS", "TOUCHDOWNS", "INTERCEPTIONS"}
    BY <1>5, <2>1 DEF defaultPropRules, Achieved
  <2> HIDE DEF t, writes
  <2> QED
    BY <1>1, <1>2, <2>2 DEF Covers
<1>6. CASE position \in {"RB", "WR"}
  <2>1. l.passing = Null
    BY <1>6 DEF Ordinary
  <2>2. "TOUCHDOWNS" \in DOMAIN t /\ t["TOUCHDOWNS"] = statInt(l.rushing, "tds") + statInt(l.receiving, "tds")
    BY <2>1
  <2>3. /\ Achieved(l, position)["TOUCHDOWNS"] = statInt(l.rushing, "tds") + statInt(l.receiving, "tds")
        /\ Achieved(l, position)["RUSHING_YARDS"] = run
        /\ Achieved(l, position)["RECEIVING_YARDS"] = catch
        /\ defaultPropRules[position] \subseteq {"RUSHING_YARDS", "TOUCHDOWNS", "RECEIVING_YARDS"}
    BY <1>6 DEF defaultPropRules, Achieved
  <2> HIDE DEF t, run, catch, writes
  <2> QED
    BY <1>1, <1>2, <1>3, <1>4, <2>2, <2>3 DEF Covers
<1>7. CASE position = "DEFENSE"
  BY <1>7 DEF Covers, defaultPropRules
<1> QED
  BY <1>5, <1>6, <1>7

(* What a sport's lines hold, and its positions. *)
LineOf(sport) ==
  CASE sport = "mlb" -> mlbBoxscorePlayer [] sport = "soccer" -> apFixturePlayer [] sport = "nfl" -> apNFLPlayer

PositionsOf(sport) ==
  CASE sport = "mlb" -> {"BATTER", "PITCHER"} [] sport = "soccer" -> {"OUTFIELD", "KEEPER"}
    [] sport = "nfl" -> {"QB", "RB", "WR", "DEFENSE"}

(* All numbers of an ordinary line are written: those of an MLB player who *)
(* both bats and pitches, of an NFL player listed in several groups.       *)
LEMMA WritesCover ==
  ASSUME NEW sport \in {"mlb", "soccer", "nfl"}, NEW l \in LineOf(sport),
         NEW position \in PositionsOf(sport), Ordinary(l, position), NEW recorded
  PROVE  Covers(UpsertPlayerStat(recorded, Writes(sport, l)), l, position)
<1>1. Covers(Writes(sport, l), l, position)
  <2>1. CASE sport = "mlb"
    BY <2>1, MLBCovers DEF Writes, LineOf, PositionsOf
  <2>2. CASE sport = "soccer"
    BY <2>2, SoccerCovers DEF Writes, LineOf, PositionsOf
  <2>3. CASE sport = "nfl"
    BY <2>3, NFLCovers DEF Writes, LineOf, PositionsOf
  <2> QED
    BY <2>1, <2>2, <2>3
<1> QED
  BY <1>1, OverlayCovers

-----------------------------------------------------------------------------
(* The types of the Populator *)

Kinds == {"teams", "roster", "page", "week", "games"}

Requests == [kind : Kinds, arg : Teams \union Nat \union {Null}]

PlayerRows == [of : {p \in Players : Position[p] # ""}, team : Teams]

GameRows == [of : Games, day : 0 .. Days, number : Nat]

PopRecords ==
  [leagues : Seq(DOMAIN Sport), requests : Seq(Requests), rows : SUBSET (PlayerRows \union GameRows)]

PopInv == pop \in PopRecords /\ (pop.leagues = << >> => pop = Idle)

VendorInv ==
  /\ season \in Seasons
  /\ today \in 1 .. Days
  /\ day \in [Games -> 0 .. Days]
  /\ roster \in [Players -> Teams]
  /\ result \in [Games -> 0 .. MaxVersion]
  /\ moves \in 0 .. MaxMoves

(* The images of a finite set; their number. *)
LEMMA ImageFinite ==
  ASSUME NEW S, IsFiniteSet(S), NEW f
  PROVE  Cardinality({f[x] : x \in S}) \in Nat
<1> DEFINE T == {f[x] : x \in S}
           g == [x \in S |-> f[x]]
<1>1. g \in Surjection(S, T)
  BY DEF Surjection
<1> QED
  BY <1>1, FS_Surjection, FS_CardinalityType

LEMMA TeamsOfType ==
  ASSUME NEW league \in DOMAIN Sport
  PROVE  \E n \in Nat : TeamsOf[league] \in [1 .. n -> Teams]
<1> DEFINE S == {t \in Teams : LeagueOf[t] = league}
<1>1. IsFiniteSet(S)
  BY NamesAssumption, FS_Subset
<1>2. Cardinality(S) \in Nat /\ ExistsBijection(1 .. Cardinality(S), S)
  BY <1>1, FS_CardinalityType
<1>3. \E f \in [1 .. Cardinality(S) -> S] : IsInjective(f)
  BY <1>2 DEF ExistsBijection, Bijection, Injection, IsInjective
<1>4. SetToSeq(S) \in [1 .. Cardinality(S) -> S]
  BY <1>3 DEF SetToSeq
<1>5. TeamsOf[league] = SetToSeq(S)
  BY DEF TeamsOf
<1> QED
  BY <1>2, <1>4, <1>5

LEMMA RosterRequestsType ==
  ASSUME NEW league \in DOMAIN Sport
  PROVE  RosterRequests(league) \in Seq(Requests)
<1>1. PICK n \in Nat : TeamsOf[league] \in [1 .. n -> Teams]
  BY TeamsOfType
<1>2. RosterRequests(league) = [i \in 1 .. n |-> Request("roster", TeamsOf[league][i])]
  BY <1>1 DEF RosterRequests
<1>3. \A i \in 1 .. n : Request("roster", TeamsOf[league][i]) \in Requests
  BY <1>1 DEF Request, Requests, Kinds
<1> QED
  BY <1>2, <1>3

LEMMA NumberedRequestsType ==
  ASSUME NEW n \in Nat, NEW kind \in Kinds
  PROVE  [i \in 1 .. n |-> Request(kind, i)] \in Seq(Requests)
<1>1. \A i \in 1 .. n : Request(kind, i) \in Requests
  BY DEF Request, Requests
<1> QED
  BY <1>1

LEMMA RefDataRequestsType ==
  ASSUME VendorInv, NEW league \in DOMAIN Sport
  PROVE  RefDataRequests(league) \in Seq(Requests)
<1>1. <<Request("teams", Null)>> \in Seq(Requests) /\ <<Request("games", Null)>> \in Seq(Requests)
  BY DEF Request, Requests, Kinds
<1>2. RosterRequests(league) \in Seq(Requests)
  BY RosterRequestsType
<1>3. season.games \subseteq Games /\ season.players \subseteq Players
  BY LeaguesAssumption DEF VendorInv
<1>4. FetchMLBRefData(league) \in Seq(Requests)
  BY <1>1, <1>2 DEF FetchMLBRefData
<1>5. FetchSoccerRefData(league) \in Seq(Requests)
  <2> DEFINE S == {p \in season.players : LeagueOf[p] = league}
             n == Cardinality({Page[p] : p \in S})
  <2>1. IsFiniteSet(S)
    BY <1>3, NamesAssumption, FS_Subset
  <2>2. n \in Nat
    BY <2>1, ImageFinite
  <2> HIDE DEF n
  <2>3. [i \in 1 .. n |-> Request("page", i)] \in Seq(Requests)
    BY <2>2, NumberedRequestsType DEF Kinds
  <2> QED
    BY <1>1, <2>3 DEF FetchSoccerRefData, n
<1>6. FetchNFLRefData(league) \in Seq(Requests)
  <2> DEFINE S == {g \in season.games : LeagueOf[g] = league}
             n == Cardinality({Week[g] : g \in S})
  <2>1. IsFiniteSet(S)
    BY <1>3, NamesAssumption, FS_Subset
  <2>2. n \in Nat
    BY <2>1, ImageFinite
  <2> HIDE DEF n
  <2>3. [i \in 1 .. n |-> Request("week", i)] \in Seq(Requests)
    BY <2>2, NumberedRequestsType DEF Kinds
  <2> QED
    BY <1>1, <1>2, <2>3 DEF FetchNFLRefData, n
<1> QED
  BY <1>4, <1>5, <1>6, LeaguesAssumption DEF RefDataRequests

LEMMA GameNumberType ==
  ASSUME VendorInv, NEW g
  PROVE  GameNumber(g) \in Nat
<1> DEFINE S == {h \in season.games : /\ <<Home[h], Away[h], day[h]>> = <<Home[g], Away[g], day[g]>>
                                      /\ ExternalID[h] < ExternalID[g]}
<1>1. season.games \subseteq Games
  BY LeaguesAssumption DEF VendorInv
<1>2. IsFiniteSet(S)
  BY <1>1, NamesAssumption, FS_Subset
<1>3. Cardinality(S) \in Nat
  BY <1>2, FS_CardinalityType
<1>4. GameNumber(g) = 1 + Cardinality(S)
  BY DEF GameNumber
<1> HIDE DEF S
<1> QED
  BY <1>3, <1>4

LEMMA RowsType ==
  ASSUME VendorInv, NEW league, NEW request \in Requests, request.kind # "teams"
  PROVE  Rows(league, request) \subseteq PlayerRows \union GameRows
<1>1. season.games \subseteq Games /\ season.players \subseteq Players
  BY LeaguesAssumption DEF VendorInv
<1>2. \A p \in season.players : Position[p] # "" => PlayerRow(p) \in PlayerRows
  BY <1>1 DEF VendorInv, PlayerRow, PlayerRows
<1>3. \A g \in season.games : GameRow(g, 1) \in GameRows /\ GameRow(g, GameNumber(g)) \in GameRows
  BY <1>1, GameNumberType DEF VendorInv, GameRow, GameRows
<1>4. \A t : fetchMLBRoster(t) \subseteq PlayerRows /\ fetchNFLRoster(t) \subseteq PlayerRows
  BY <1>2 DEF fetchMLBRoster, fetchNFLRoster, Placed
<1>5. \A n : soccerPage(league, n) \subseteq PlayerRows /\ fetchNFLWeek(league, n) \subseteq GameRows
  BY <1>2, <1>3 DEF soccerPage, fetchNFLWeek, Placed, Listed
<1>6. mlbSchedule(league) \subseteq GameRows /\ soccerFixtures(league) \subseteq GameRows
  BY <1>3 DEF mlbSchedule, soccerFixtures, Listed
<1>7. request.kind \in {"roster", "page", "week", "games"}
  BY DEF Requests, Kinds
<1> QED
  BY <1>4, <1>5, <1>6, <1>7 DEF Rows

LEMMA ContinueType ==
  ASSUME VendorInv, NEW leagues \in Seq(DOMAIN Sport), leagues # << >>, NEW requests \in Seq(Requests),
         NEW rows \in SUBSET (PlayerRows \union GameRows), pop' = Continue(leagues, requests, rows)
  PROVE  PopInv'
<1>1. CASE ~ (requests = << >> /\ rows = {})
  BY <1>1 DEF Continue, PopInv, PopRecords
<1>2. CASE requests = << >> /\ rows = {}
  <2> DEFINE next == IF Len(leagues) > 1 THEN RefDataRequests(leagues[2]) ELSE << >>
  <2>1. next \in Seq(Requests)
    BY RefDataRequestsType
  <2>2. Tail(leagues) \in Seq(DOMAIN Sport) /\ Len(Tail(leagues)) = Len(leagues) - 1
    OBVIOUS
  <2>3. Tail(leagues) = << >> => next = << >>
    <3>1. Len(<< >>) = 0 /\ Len(leagues) \in Nat
      OBVIOUS
    <3>2. Tail(leagues) = << >> => 0 = Len(leagues) - 1
      BY <2>2, <3>1, Zenon
    <3> QED
      BY <3>1, <3>2
  <2>4. pop' = [leagues |-> Tail(leagues), rows |-> {}, requests |-> next]
    BY <1>2 DEF Continue
  <2> HIDE DEF next
  <2>5. pop' \in PopRecords
    BY <2>1, <2>2, <2>4 DEF PopRecords
  <2>6. pop'.leagues = << >> => pop' = Idle
    <3>1. pop'.leagues = Tail(leagues)
      BY <2>4
    <3> QED
      BY <2>3, <2>4, <3>1 DEF Idle
  <2> QED
    BY <2>5, <2>6 DEF PopInv
<1> QED
  BY <1>1, <1>2

-----------------------------------------------------------------------------
(* The tables *)

UniqueIDs(table) ==
  \A j, k \in DOMAIN table :
    table[j] # Null /\ table[k] # Null /\ table[j].id = table[k].id => j = k

(* Rows are not lost and keep their ids. *)
Keeps(before, after) ==
  /\ DOMAIN after = DOMAIN before
  /\ \A k \in DOMAIN before : before[k] # Null => after[k] # Null /\ after[k].id = before[k].id

TablesInv ==
  /\ teams \in [Keys(Teams) -> TeamRecord \union {Null}] /\ UniqueIDs(teams)
  /\ players \in [Keys(Players) -> PlayerRecord \union {Null}] /\ UniqueIDs(players)
  /\ games \in [Keys(Games) -> GameRecord \union {Null}] /\ UniqueIDs(games)
  /\ DOMAIN stats = Keys(Games) \X Keys(Players)

LEMMA KeyType ==
  ASSUME NEW S \in {Teams, Players, Games}, NEW x \in S
  PROVE  Key[x] \in Keys(S)
  BY DEF Keys

LEMMA SportType ==
  ASSUME NEW x \in Teams \union Players \union Games
  PROVE  SportOf(x) \in {"mlb", "soccer", "nfl"}
  BY LeaguesAssumption DEF SportOf

LEMMA Same ==
  ASSUME NEW table
  PROVE  Keeps(table, table)
  BY DEF Keeps

(* One row changes: a new one has a fresh id, an old one keeps its id. *)
LEMMA RowChanges ==
  ASSUME NEW table, NEW k \in DOMAIN table, NEW row, UniqueIDs(table),
         table[k] # Null => row # Null /\ row.id = table[k].id,
         table[k] = Null /\ row # Null => row.id \notin IDs(table)
  PROVE  UniqueIDs([table EXCEPT ![k] = row]) /\ Keeps(table, [table EXCEPT ![k] = row])
<1> DEFINE new == [table EXCEPT ![k] = row]
<1>1. DOMAIN new = DOMAIN table /\ new[k] = row /\ \A j \in DOMAIN table \ {k} : new[j] = table[j]
  OBVIOUS
<1>2. ASSUME NEW j \in DOMAIN table, j # k, table[j] # Null, row # Null
      PROVE  table[j].id # row.id
  BY <1>2 DEF UniqueIDs, IDs
<1> HIDE DEF new
<1>3. UniqueIDs(new)
  BY <1>1, <1>2 DEF UniqueIDs
<1>4. Keeps(table, new)
  BY <1>1 DEF Keeps
<1> QED
  BY <1>3, <1>4 DEF new

LEMMA TeamIDType ==
  ASSUME NEW t \in Teams
  PROVE  makeTeamID(t) \in TeamID
  BY LeaguesAssumption, VendorsAssumption DEF makeTeamID, TeamID, Range

(* Of several new teams with one code the first is stored. *)
LEMMA TeamsUpserted ==
  ASSUME teams \in [Keys(Teams) -> TeamRecord \union {Null}], UniqueIDs(teams),
         NEW n \in Nat, NEW listed \in [1 .. n -> Teams], NEW fail
  PROVE  /\ UpsertTeams(listed, fail) \in [Keys(Teams) -> TeamRecord \union {Null}]
         /\ UniqueIDs(UpsertTeams(listed, fail))
         /\ Keeps(teams, UpsertTeams(listed, fail))
<1> DEFINE new(i)   == /\ listed[i] \notin fail /\ teams[Key[listed[i]]] = Null
                       /\ makeTeamID(listed[i]) \notin IDs(teams)
           first(i) == \A j \in 1 .. i - 1 : new(j) => makeTeamID(listed[j]) # makeTeamID(listed[i])
           inserted == {listed[i] : i \in {i \in DOMAIN listed : new(i) /\ first(i)}}
           chosen(k) == CHOOSE t \in inserted : Key[t] = k
           table == [k \in DOMAIN teams |->
                       IF k \in Keys(inserted) THEN [id |-> makeTeamID(chosen(k))] ELSE teams[k]]
<1>1. UpsertTeams(listed, fail) = table
  BY DEF UpsertTeams
<1>2. ASSUME NEW k \in Keys(inserted)
      PROVE  chosen(k) \in inserted /\ Key[chosen(k)] = k
  BY <1>2 DEF Keys
<1>3. ASSUME NEW t \in inserted
      PROVE  /\ t \in Teams /\ teams[Key[t]] = Null /\ makeTeamID(t) \notin IDs(teams)
             /\ makeTeamID(t) \in TeamID
  BY TeamIDType
<1>4. ASSUME NEW s \in inserted, NEW t \in inserted, makeTeamID(s) = makeTeamID(t)
      PROVE  s = t
  <2>1. PICK i \in 1 .. n : s = listed[i] /\ new(i) /\ first(i)
    OBVIOUS
  <2>2. PICK j \in 1 .. n : t = listed[j] /\ new(j) /\ first(j)
    OBVIOUS
  <2>3. ~ (i < j) /\ ~ (j < i)
    <3>1. ASSUME i < j PROVE FALSE
      <4>1. i \in 1 .. j - 1
        BY <3>1
      <4> QED
        BY <4>1, <2>1, <2>2, <1>4
    <3>2. ASSUME j < i PROVE FALSE
      <4>1. j \in 1 .. i - 1
        BY <3>2
      <4> QED
        BY <4>1, <2>1, <2>2, <1>4
    <3> QED
      BY <3>1, <3>2
  <2> QED
    BY <2>1, <2>2, <2>3
<1> HIDE DEF inserted
<1>5. table \in [Keys(Teams) -> TeamRecord \union {Null}]
  <2>1. ASSUME NEW k \in Keys(inserted) PROVE [id |-> makeTeamID(chosen(k))] \in TeamRecord
    BY <1>2, <1>3, <2>1 DEF TeamRecord
  <2> QED
    BY <2>1
<1>6. Keeps(teams, table)
  <2>1. ASSUME NEW k \in DOMAIN teams, teams[k] # Null PROVE k \notin Keys(inserted)
    BY <1>3, <2>1 DEF Keys
  <2> QED
    BY <2>1 DEF Keeps
<1>7. UniqueIDs(table)
  <2> SUFFICES ASSUME NEW j \in DOMAIN teams, NEW k \in DOMAIN teams,
                      table[j] # Null, table[k] # Null, table[j].id = table[k].id
               PROVE  j = k
    BY DEF UniqueIDs
  <2>1. \A i \in DOMAIN teams : i \in Keys(inserted) => table[i].id = makeTeamID(chosen(i))
    OBVIOUS
  <2>2. \A i \in DOMAIN teams : i \notin Keys(inserted) => table[i] = teams[i]
    OBVIOUS
  <2>3. \A i \in DOMAIN teams : teams[i] # Null => teams[i].id \in IDs(teams)
    BY DEF IDs
  <2> HIDE DEF table, chosen
  <2>4. CASE j \in Keys(inserted) /\ k \in Keys(inserted)
    BY <1>2, <1>4, <2>1, <2>4
  <2>5. CASE j \in Keys(inserted) /\ k \notin Keys(inserted)
    BY <1>2, <1>3, <2>1, <2>2, <2>3, <2>5
  <2>6. CASE j \notin Keys(inserted) /\ k \in Keys(inserted)
    BY <1>2, <1>3, <2>1, <2>2, <2>3, <2>6
  <2>7. CASE j \notin Keys(inserted) /\ k \notin Keys(inserted)
    BY <2>2, <2>7 DEF UniqueIDs
  <2> QED
    BY <2>4, <2>5, <2>6, <2>7
<1> QED
  BY <1>1, <1>5, <1>6, <1>7

LEMMA SmallestNat ==
  ASSUME NEW T \in SUBSET Nat, T # {}
  PROVE  \E m \in T : \A n \in T : m <= n
<1>1. IsWellFoundedOn(OpToRel(<, Nat), Nat)
  BY NatLessThanWellFounded
<1>2. PICK m \in T : \A n \in T : ~ (<<n, m>> \in OpToRel(<, Nat))
  BY <1>1, WFMin
<1>3. ASSUME NEW n \in T PROVE m <= n
  <2>1. ~ (n < m)
    BY <1>2 DEF OpToRel
  <2> QED
    BY <2>1
<1> QED
  BY <1>3

LEMMA MinIn ==
  ASSUME NEW T \in SUBSET Nat, T # {}
  PROVE  Min(T) \in T
<1>1. PICK m \in T : \A n \in T : m <= n
  BY SmallestNat
<1> QED
  BY <1>1 DEF Min

LEMMA PlayerIDType ==
  ASSUME NEW p \in Players, NEW t \in Teams, NEW s \in 0 .. MaxSuffix
  PROVE  makePlayerID(p, t, s) \in PlayerID
  BY LeaguesAssumption, VendorsAssumption DEF makePlayerID, PlayerID, Range

LEMMA GameIDType ==
  ASSUME NEW g \in Games, NEW d \in 0 .. Days, NEW number \in Nat
  PROVE  makeGameID(g, d, number) \in GameID
<1>1. Home[g] \in Teams /\ Away[g] \in Teams
  BY VendorsAssumption
<1>2. Code[Home[g]] \in Range(Code) /\ Code[Away[g]] \in Range(Code)
  BY <1>1, VendorsAssumption DEF Range
<1> QED
  BY <1>2, LeaguesAssumption DEF makeGameID, GameID

LEMMA RowKinds ==
  ASSUME PopInv, NEW r \in pop.rows
  PROVE  (r.of \in Players => r \in PlayerRows) /\ (r.of \in Games => r \in GameRows)
<1>1. r \in PlayerRows \union GameRows
  BY DEF PopInv, PopRecords
<1>2. r \in PlayerRows => r.of \in Players
  BY DEF PlayerRows
<1>3. r \in GameRows => r.of \in Games
  BY DEF GameRows
<1> QED
  BY <1>1, <1>2, <1>3, NamesAssumption

LEMMA PlayerUpserted ==
  ASSUME TablesInv, PopInv, NEW r \in pop.rows, UpsertPlayer(r)
  PROVE  TablesInv' /\ Keeps(players, players')
<1> DEFINE p    == r.of
           team == makeTeamID(r.team)
           free == {s \in 0 .. MaxSuffix : makePlayerID(p, r.team, s) \notin IDs(players)}
           row  == players[Key[p]]
           upserted ==
             IF row # Null THEN [row EXCEPT !.team = team]
             ELSE IF free = {} THEN Null
             ELSE [id |-> makePlayerID(p, r.team, Min(free)), team |-> team]
<1>1. p \in Players /\ r.team \in Teams
  BY RowKinds DEF UpsertPlayer, PlayerRows
<1>2. /\ players' = IF team \in IDs(teams) THEN [players EXCEPT ![Key[p]] = upserted] ELSE players
      /\ UNCHANGED <<teams, games, stats>>
  BY DEF UpsertPlayer
<1>3. team \in TeamID
  BY <1>1, TeamIDType
<1>4. Key[p] \in DOMAIN players /\ row \in PlayerRecord \union {Null}
  BY <1>1, KeyType DEF TablesInv
<1>5. free # {} => /\ makePlayerID(p, r.team, Min(free)) \in PlayerID
                   /\ makePlayerID(p, r.team, Min(free)) \notin IDs(players)
  <2>1. free \subseteq Nat
    BY BoundsAssumption
  <2>2. free # {} => Min(free) \in free
    BY <2>1, MinIn
  <2> QED
    BY <1>1, <2>2, PlayerIDType
<1> HIDE DEF free, team, row
<1>6. /\ upserted \in PlayerRecord \union {Null}
      /\ row # Null => upserted # Null /\ upserted.id = row.id
      /\ row = Null /\ upserted # Null => upserted.id \notin IDs(players)
  <2>1. CASE row # Null
    <3>1. row \in PlayerRecord
      BY <1>4, <2>1
    <3>2. upserted = [row EXCEPT !.team = team]
      BY <2>1
    <3>3. upserted \in PlayerRecord /\ upserted.id = row.id
      BY <1>3, <3>1, <3>2 DEF PlayerRecord
    <3> QED
      BY <2>1, <3>3, NullAssumption
  <2>2. CASE row = Null /\ free # {}
    <3>1. upserted = [id |-> makePlayerID(p, r.team, Min(free)), team |-> team]
      BY <2>2
    <3> QED
      BY <1>3, <1>5, <2>2, <3>1 DEF PlayerRecord
  <2>3. CASE row = Null /\ free = {}
    BY <2>3
  <2> QED
    BY <2>1, <2>2, <2>3
<1> HIDE DEF upserted
<1>7. CASE team \in IDs(teams)
  <2>1. players' = [players EXCEPT ![Key[p]] = upserted]
    BY <1>2, <1>7
  <2>2. UniqueIDs(players') /\ Keeps(players, players')
    BY <1>4, <1>6, <2>1, RowChanges DEF TablesInv, row
  <2>3. players' \in [Keys(Players) -> PlayerRecord \union {Null}]
    BY <1>6, <2>1 DEF TablesInv
  <2> QED
    BY <1>2, <2>2, <2>3 DEF TablesInv
<1>8. CASE team \notin IDs(teams)
  BY <1>2, <1>8, Same DEF TablesInv
<1> QED
  BY <1>7, <1>8

(* What a row says of the result stays, and a new one says nothing. *)
KeepsResults(before, after) ==
  \A k \in DOMAIN before :
    /\ before[k] # Null => after[k].final = before[k].final /\ after[k].score = before[k].score
    /\ before[k] = Null /\ after[k] # Null => ~after[k].final

LEMMA GameUpserted ==
  ASSUME TablesInv, PopInv, NEW r \in pop.rows, UpsertGame(r)
  PROVE  TablesInv' /\ Keeps(games, games') /\ KeepsResults(games, games')
<1> DEFINE k == Key[r.of]
           row == UpsertedGame(r, games[k])
<1>1. r.of \in Games /\ r.day \in 0 .. Days /\ r.number \in Nat
  BY RowKinds DEF UpsertGame, GameRows
<1>2. games' = [games EXCEPT ![k] = row] /\ UNCHANGED <<teams, players, stats>>
  BY DEF UpsertGame
<1>3. k \in DOMAIN games /\ games[k] \in GameRecord \union {Null}
  BY <1>1, KeyType DEF TablesInv
<1>4. CASE games[k] = Null
  <2>1. row \in GameRecord \union {Null} /\ (row # Null => row.id \notin IDs(games) /\ ~row.final)
    <3> DEFINE id == makeGameID(r.of, r.day, r.number)
    <3>1. id \in GameID
      BY <1>1, GameIDType
    <3>2. \/ row = Null
          \/ row = [id |-> id, day |-> r.day, final |-> FALSE, score |-> 0] /\ id \notin IDs(games)
      BY <1>4 DEF UpsertedGame, InsertedGame
    <3>3. 0 \in 0 .. MaxVersion
      BY BoundsAssumption
    <3> HIDE DEF id, row
    <3> DEFINE new == [id |-> id, day |-> r.day, final |-> FALSE, score |-> 0]
    <3>4. new \in GameRecord /\ new.id = id /\ ~new.final
      BY <1>1, <3>1, <3>3 DEF GameRecord
    <3> HIDE DEF new
    <3>5. row = Null \/ (row = new /\ id \notin IDs(games))
      BY <3>2 DEF new
    <3> QED
      BY <3>4, <3>5
  <2> HIDE DEF row
  <2>2. UniqueIDs(games') /\ Keeps(games, games')
    BY <1>2, <1>3, <1>4, <2>1, RowChanges DEF TablesInv
  <2>3. games' \in [Keys(Games) -> GameRecord \union {Null}]
    BY <1>2, <2>1 DEF TablesInv
  <2>4. KeepsResults(games, games')
    BY <1>2, <1>3, <1>4, <2>1 DEF KeepsResults
  <2> QED
    BY <1>2, <2>2, <2>3, <2>4 DEF TablesInv
<1>5. CASE games[k] # Null
  <2>1. games[k] \in GameRecord /\ row = [games[k] EXCEPT !.day = r.day]
    BY <1>3, <1>5 DEF UpsertedGame
  <2>2. /\ row \in GameRecord /\ row # Null
        /\ row.id = games[k].id /\ row.final = games[k].final /\ row.score = games[k].score
    BY <1>1, <2>1, NullAssumption DEF GameRecord
  <2> HIDE DEF row
  <2>3. UniqueIDs(games') /\ Keeps(games, games')
    BY <1>2, <1>3, <1>5, <2>2, RowChanges DEF TablesInv
  <2>4. games' \in [Keys(Games) -> GameRecord \union {Null}]
    BY <1>2, <2>2 DEF TablesInv
  <2>5. KeepsResults(games, games')
    BY <1>2, <1>3, <1>5, <2>2 DEF KeepsResults
  <2> QED
    BY <1>2, <2>3, <2>4, <2>5 DEF TablesInv
<1> QED
  BY <1>4, <1>5

-----------------------------------------------------------------------------
(* The EventFetcher *)

FetchRecords ==
  [queue : SUBSET Games, checked : BOOLEAN, seen : [Games -> 0 .. MaxVersion],
   game : Games \union {Null}, calls : Seq(SUBSET Players), sheet : SUBSET (Players \X (1 .. MaxVersion))]

(* g is stored as a game of its own sport, and not FINAL. *)
Waiting(g) ==
  games[Key[g]] # Null /\ Sport[games[Key[g]].id[1]] = SportOf(g) /\ ~games[Key[g]].final

(* The games listed stay as they were listed; that in hand is over, and    *)
(* what is left of its box score are players and versions it has.          *)
FetchInv ==
  /\ fetch \in FetchRecords
  /\ \A g \in fetch.queue : Waiting(g)
  /\ fetch.checked => \A g \in Of("mlb", fetch.queue) : result[g] > 0
  /\ fetch.game # Null => fetch.game \in fetch.queue /\ fetch.checked /\ result[fetch.game] > 0
  /\ fetch.game = Null => fetch.calls = << >> /\ fetch.sheet = {}
  /\ fetch.calls \in Seq(SUBSET DOMAIN Box[fetch.game][1])
  /\ \A line \in fetch.sheet : line[1] \in DOMAIN Box[fetch.game][1] /\ line[2] \in 1 .. result[fetch.game]

(* Within a sport the external key tells games, and players, apart. *)
LEMMA KeyOfSport ==
  ASSUME NEW S \in {Teams, Players, Games}, NEW x \in S, NEW y \in S,
         SportOf(x) = SportOf(y), Key[x] = Key[y]
  PROVE  x = y
<1>1. x \in Teams \union Players \union Games /\ y \in Teams \union Players \union Games
  OBVIOUS
<1>2. ExternalID[x] = ExternalID[y]
  BY <1>1 DEF Key
<1> QED
  BY <1>2, ExternalIDAssumption

LEMMA WaitingApart ==
  ASSUME NEW g \in Games, NEW h \in Games, Waiting(g), Waiting(h), Key[g] = Key[h]
  PROVE  g = h
<1>1. SportOf(g) = SportOf(h)
  BY DEF Waiting
<1> QED
  BY <1>1, KeyOfSport

LEMMA WaitingStays ==
  ASSUME TablesInv, Keeps(games, games'), KeepsResults(games, games'), NEW g \in Games, Waiting(g)
  PROVE  Waiting(g)'
<1>1. Key[g] \in DOMAIN games
  BY KeyType DEF TablesInv
<1>2. /\ games[Key[g]] # Null /\ games'[Key[g]] # Null
      /\ games'[Key[g]].id = games[Key[g]].id /\ games'[Key[g]].final = games[Key[g]].final
  BY <1>1 DEF Keeps, KeepsResults, Waiting
<1>3. Sport[games'[Key[g]].id[1]] = SportOf(g) /\ ~games'[Key[g]].final
  BY <1>2 DEF Waiting
<1> QED
  BY <1>2, <1>3 DEF Waiting, SportOf, Key

LEMMA RestingType ==
  ASSUME fetch' = Resting
  PROVE  FetchInv'
<1>1. Resting \in FetchRecords
  BY BoundsAssumption DEF Resting, FetchRecords
<1>2. /\ fetch'.queue = {} /\ fetch'.checked = FALSE /\ fetch'.game = Null
      /\ fetch'.calls = << >> /\ fetch'.sheet = {}
  BY DEF Resting
<1>3. << >> \in Seq(SUBSET DOMAIN Box[fetch.game][1])'
  OBVIOUS
<1> QED
  BY <1>1, <1>2, <1>3 DEF FetchInv, FetchRecords

LEMMA LeaveType ==
  ASSUME FetchInv, NEW queue \in SUBSET fetch.queue, result' = result, fetch' = Leave(queue),
         \A g \in queue : Waiting(g)', \A g \in Of("mlb", queue) : result[g] > 0
  PROVE  FetchInv'
<1>1. CASE queue = {}
  BY <1>1, RestingType DEF Leave
<1>2. CASE queue # {}
  <2>1. fetch' = [fetch EXCEPT !.queue = queue, !.checked = TRUE, !.game = Null, !.calls = << >>, !.sheet = {}]
    BY <1>2 DEF Leave
  <2>2. fetch \in FetchRecords
    BY DEF FetchInv
  <2>3. fetch' \in FetchRecords
    <3>1. /\ queue \in SUBSET Games /\ TRUE \in BOOLEAN /\ Null \in Games \union {Null}
          /\ << >> \in Seq(SUBSET Players) /\ {} \in SUBSET (Players \X (1 .. MaxVersion))
      BY <2>2 DEF FetchRecords
    <3> QED
      BY <2>1, <2>2, <3>1 DEF FetchRecords
  <2>4. /\ fetch'.queue = queue /\ fetch'.checked = TRUE /\ fetch'.game = Null
        /\ fetch'.calls = << >> /\ fetch'.sheet = {}
    BY <2>1, <2>2 DEF FetchRecords
  <2>5. << >> \in Seq(SUBSET DOMAIN Box[fetch.game][1])'
    OBVIOUS
  <2>6. (\A g \in Of("mlb", fetch.queue) : result[g] > 0)'
    BY <2>4 DEF Of, SportOf
  <2> QED
    BY <2>3, <2>4, <2>5, <2>6 DEF FetchInv, FetchRecords
<1> QED
  BY <1>1, <1>2

(* The vendors and the Populator leave it where it is. *)
LEMMA FetchUntouched ==
  ASSUME FetchInv, fetch' = fetch, \A g \in Games : result'[g] \in Nat /\ result[g] \in Nat /\ result'[g] >= result[g],
         \A g \in fetch.queue : Waiting(g)'
  PROVE  FetchInv'
<1>1. fetch.queue \subseteq Games
  BY DEF FetchInv, FetchRecords
<1>2. (fetch.checked => \A g \in Of("mlb", fetch.queue) : result[g] > 0)'
  <2>1. (fetch.checked => \A g \in fetch.queue : SportOf(g) = "mlb" => result[g] > 0)
    BY DEF FetchInv, Of
  <2>2. fetch.checked => \A g \in fetch.queue : SportOf(g) = "mlb" => result'[g] > 0
    BY <1>1, <2>1
  <2> QED
    BY <2>2 DEF Of, SportOf
<1>3. (fetch.game # Null => fetch.game \in fetch.queue /\ fetch.checked /\ result[fetch.game] > 0)'
  BY <1>1 DEF FetchInv
<1>4. fetch.game = Null => fetch.sheet = {}
  BY DEF FetchInv
<1>5. (\A line \in fetch.sheet : line[1] \in DOMAIN Box[fetch.game][1] /\ line[2] \in 1 .. result[fetch.game])'
  <2> SUFFICES ASSUME NEW line \in fetch.sheet
               PROVE  line[1] \in DOMAIN Box[fetch.game][1] /\ line[2] \in 1 .. result'[fetch.game]
    OBVIOUS
  <2>1. fetch.game \in Games
    BY <1>1, <1>4 DEF FetchInv
  <2> QED
    BY <2>1 DEF FetchInv
<1>6. (fetch \in FetchRecords)' /\ (fetch.calls \in Seq(SUBSET DOMAIN Box[fetch.game][1]))'
  BY DEF FetchInv, FetchRecords
<1>7. (\A g \in fetch.queue : Waiting(g))'
  OBVIOUS
<1>8. (fetch.game = Null => fetch.calls = << >> /\ fetch.sheet = {})'
  BY DEF FetchInv
<1> QED
  BY <1>2, <1>3, <1>5, <1>6, <1>7, <1>8 DEF FetchInv

LEMMA WaitingSame ==
  ASSUME games' = games, NEW g, Waiting(g)
  PROVE  Waiting(g)'
  BY DEF Waiting, SportOf, Key

LEMMA RunOnceType ==
  ASSUME FetchInv, RunOnce
  PROVE  FetchInv'
<1> DEFINE L == ListActiveGames
<1>1. /\ fetch = Resting /\ fetch' = [fetch EXCEPT !.queue = L, !.checked = Of("mlb", L) = {}]
      /\ games' = games /\ result' = result
  BY DEF RunOnce, vendor, tables
<1>2. L \subseteq Games /\ \A g \in L : Waiting(g)
  BY DEF ListActiveGames, Waiting
<1> HIDE DEF L
<1>3. \A g \in L : Waiting(g)'
  BY <1>1, <1>2, WaitingSame
<1>4. fetch \in FetchRecords
  BY DEF FetchInv
<1>5. /\ fetch.game = Null /\ fetch.calls = << >> /\ fetch.sheet = {}
  BY <1>1 DEF Resting
<1>6. /\ fetch'.queue = L /\ fetch'.checked = (Of("mlb", L) = {})
      /\ fetch'.game = Null /\ fetch'.calls = << >> /\ fetch'.sheet = {}
  BY <1>1, <1>4, <1>5 DEF FetchRecords
<1>7. fetch' \in FetchRecords
  BY <1>1, <1>2, <1>4 DEF FetchRecords
<1>8. << >> \in Seq(SUBSET DOMAIN Box[fetch.game][1])'
  OBVIOUS
<1>9. (fetch.checked => \A g \in Of("mlb", fetch.queue) : result[g] > 0)'
  BY <1>6 DEF Of, SportOf
<1> QED
  BY <1>3, <1>6, <1>7, <1>8, <1>9 DEF FetchInv

LEMMA BatchStatusType ==
  ASSUME VendorInv, FetchInv, BatchStatus
  PROVE  FetchInv'
<1> DEFINE mlb  == Of("mlb", fetch.queue)
           over == {g \in mlb : result[g] > 0}
           rest == (fetch.queue \ mlb) \union over
           seen == [g \in Games |-> IF g \in over THEN result[g] ELSE 0]
<1>1. /\ ~fetch.checked /\ result' = result /\ games' = games
      /\ fetch' = IF rest = {} THEN Resting
                  ELSE [fetch EXCEPT !.queue = rest, !.checked = TRUE, !.seen = seen]
  BY DEF BatchStatus, vendor, tables
<1>2. fetch \in FetchRecords /\ fetch.game = Null /\ fetch.calls = << >> /\ fetch.sheet = {}
  BY <1>1 DEF FetchInv
<1>3. rest \subseteq fetch.queue
  BY DEF Of
<1>4. seen \in [Games -> 0 .. MaxVersion]
  BY BoundsAssumption DEF VendorInv
<1>5. \A g \in rest : Waiting(g)'
  BY <1>1, <1>3, WaitingSame DEF FetchInv
<1>6. \A g \in Of("mlb", rest) : result[g] > 0
  BY DEF Of
<1> HIDE DEF rest, seen
<1>7. CASE rest = {}
  BY <1>1, <1>7, RestingType
<1>8. CASE rest # {}
  <2>1. fetch' = [fetch EXCEPT !.queue = rest, !.checked = TRUE, !.seen = seen]
    BY <1>1, <1>8
  <2>2. fetch' \in FetchRecords
    <3>1. rest \in SUBSET Games /\ TRUE \in BOOLEAN
      BY <1>2, <1>3 DEF FetchRecords
    <3> QED
      BY <1>2, <1>4, <2>1, <3>1 DEF FetchRecords
  <2>3. /\ fetch'.queue = rest /\ fetch'.checked = TRUE /\ fetch'.game = Null
        /\ fetch'.calls = << >> /\ fetch'.sheet = {}
    BY <1>2, <2>1 DEF FetchRecords
  <2>4. << >> \in Seq(SUBSET DOMAIN Box[fetch.game][1])'
    OBVIOUS
  <2>5. (\A g \in Of("mlb", fetch.queue) : result[g] > 0)'
    BY <1>1, <1>6, <2>3 DEF Of, SportOf
  <2> QED
    BY <1>5, <2>2, <2>3, <2>4, <2>5 DEF FetchInv
<1> QED
  BY <1>7, <1>8

(* A game is left for later. *)
LEMMA LeaveStep ==
  ASSUME FetchInv, NEW queue \in SUBSET fetch.queue, result' = result, games' = games, fetch' = Leave(queue),
         fetch.checked \/ Of("mlb", queue) = {}
  PROVE  FetchInv'
<1>1. \A g \in queue : Waiting(g)'
  BY WaitingSame DEF FetchInv
<1>2. \A g \in Of("mlb", queue) : result[g] > 0
  BY DEF FetchInv, Of
<1> QED
  BY <1>1, <1>2, LeaveType

LEMMA BoxRequestsType ==
  ASSUME NEW g \in Games
  PROVE  BoxRequests(g) \in Seq(SUBSET DOMAIN Box[g][1]) /\ DOMAIN Box[g][1] \subseteq Players
<1>1. DOMAIN Box[g][1] \subseteq Players
  BY BoxAssumption
<1> DEFINE listed == DOMAIN Box[g][1]
           home   == {p \in listed : FirstTeam[p] = Home[g]}
           S == SUBSET listed
<1>2. home \in S /\ listed \ home \in S /\ listed \in S
  OBVIOUS
<1>3. BoxRequests(g) = IF SportOf(g) = "soccer" THEN <<home, listed \ home>> ELSE <<listed>>
  BY DEF BoxRequests
<1> HIDE DEF home, listed, S
<1>4. BoxRequests(g) \in Seq(S)
  BY <1>2, <1>3
<1> QED
  BY <1>1, <1>4 DEF S, listed

(* A game that is over is taken in hand. *)
LEMMA TakeStep ==
  ASSUME VendorInv, FetchInv, result' = result, games' = games, NEW g \in fetch.queue, Turn(g),
         result[g] > 0, NEW seen \in [Games -> 0 .. MaxVersion],
         fetch' = [fetch EXCEPT !.game = g, !.seen = seen, !.calls = BoxRequests(g)]
  PROVE  FetchInv'
<1>1. fetch \in FetchRecords /\ g \in Games /\ fetch.checked /\ fetch.game = Null /\ fetch.sheet = {}
  BY DEF FetchInv, FetchRecords, Turn
<1>2. BoxRequests(g) \in Seq(SUBSET DOMAIN Box[g][1]) /\ DOMAIN Box[g][1] \subseteq Players
  BY <1>1, BoxRequestsType
<1>3. BoxRequests(g) \in Seq(SUBSET Players)
  BY <1>2
<1>4. fetch' \in FetchRecords
  BY <1>1, <1>3 DEF FetchRecords
<1>5. /\ fetch'.queue = fetch.queue /\ fetch'.checked = fetch.checked /\ fetch'.game = g
      /\ fetch'.calls = BoxRequests(g) /\ fetch'.sheet = {}
  BY <1>1 DEF FetchRecords
<1>6. (\A h \in fetch.queue : Waiting(h))'
  BY <1>5, WaitingSame DEF FetchInv
<1>7. (fetch.checked => \A h \in Of("mlb", fetch.queue) : result[h] > 0)'
  BY <1>5 DEF FetchInv, Of, SportOf
<1>8. g # Null
  BY <1>1, NamesAssumption
<1> QED
  BY <1>1, <1>2, <1>4, <1>5, <1>6, <1>7, <1>8 DEF FetchInv

LEMMA TakeMLBGameType ==
  ASSUME VendorInv, FetchInv, NEW g \in fetch.queue, TakeMLBGame(g)
  PROVE  FetchInv'
<1>1. /\ Turn(g) /\ SportOf(g) = "mlb" /\ fetch' = [fetch EXCEPT !.game = g, !.calls = BoxRequests(g)]
      /\ result' = result /\ games' = games
  BY DEF TakeMLBGame, vendor, tables
<1>2. result[g] > 0
  BY <1>1 DEF Turn, FetchInv, Of
<1>3. fetch \in FetchRecords /\ fetch.seen \in [Games -> 0 .. MaxVersion]
  BY DEF FetchInv, FetchRecords
<1>4. fetch' = [fetch EXCEPT !.game = g, !.seen = fetch.seen, !.calls = BoxRequests(g)]
  BY <1>1, <1>3 DEF FetchRecords
<1> QED
  BY <1>1, <1>2, <1>3, <1>4, TakeStep

LEMMA GameDetailType ==
  ASSUME VendorInv, FetchInv, NEW g \in fetch.queue, GameDetail(g)
  PROVE  FetchInv'
<1>1. /\ Turn(g) /\ result' = result /\ games' = games
      /\ fetch' = IF result[g] = 0 THEN Leave(fetch.queue \ {g})
                  ELSE [fetch EXCEPT !.game = g, !.seen[g] = result[g], !.calls = BoxRequests(g)]
  BY DEF GameDetail, vendor, tables
<1>2. CASE result[g] = 0
  BY <1>1, <1>2, LeaveStep DEF Turn
<1>3. CASE result[g] # 0
  <2>1. fetch \in FetchRecords /\ fetch.seen \in [Games -> 0 .. MaxVersion] /\ g \in Games
    BY DEF FetchInv, FetchRecords
  <2>2. result[g] \in 0 .. MaxVersion /\ result[g] > 0
    BY <1>3, <2>1, BoundsAssumption DEF VendorInv
  <2> DEFINE seen == [fetch.seen EXCEPT ![g] = result[g]]
  <2>3. seen \in [Games -> 0 .. MaxVersion]
    BY <2>1, <2>2
  <2>4. fetch' = [fetch EXCEPT !.game = g, !.seen = seen, !.calls = BoxRequests(g)]
    BY <1>1, <1>3, <2>1 DEF FetchRecords
  <2> HIDE DEF seen
  <2> QED
    BY <1>1, <2>2, <2>3, <2>4, TakeStep
<1> QED
  BY <1>2, <1>3

LEMMA HeadTail ==
  ASSUME NEW S, NEW q \in Seq(S), q # << >>
  PROVE  Head(q) \in S /\ Tail(q) \in Seq(S)
  OBVIOUS

LEMMA BoxScoreType ==
  ASSUME VendorInv, FetchInv, BoxScore
  PROVE  FetchInv'
<1> DEFINE g == fetch.game
           sheet == {<<p, result[g]>> : p \in Head(fetch.calls)}
<1>1. /\ fetch.calls # << >> /\ fetch.sheet = {} /\ result' = result /\ games' = games
      /\ fetch' = [fetch EXCEPT !.calls = Tail(@), !.sheet = sheet]
  BY DEF BoxScore, vendor, tables
<1>2. fetch \in FetchRecords /\ g # Null /\ g \in Games /\ fetch.calls \in Seq(SUBSET Players)
  BY <1>1 DEF FetchInv, FetchRecords
<1>3. result[g] > 0 /\ result[g] \in 1 .. MaxVersion
  BY <1>2, BoundsAssumption DEF FetchInv, VendorInv
<1>4. /\ fetch.calls \in Seq(SUBSET DOMAIN Box[g][1])
      /\ Head(fetch.calls) \subseteq DOMAIN Box[g][1] /\ Tail(fetch.calls) \in Seq(SUBSET DOMAIN Box[g][1])
  <2>1. fetch.calls \in Seq(SUBSET DOMAIN Box[g][1])
    BY DEF FetchInv
  <2>2. Head(fetch.calls) \in SUBSET DOMAIN Box[g][1] /\ Tail(fetch.calls) \in Seq(SUBSET DOMAIN Box[g][1])
    BY <1>1, <2>1, HeadTail
  <2> QED
    BY <2>1, <2>2
<1>5. Head(fetch.calls) \subseteq Players /\ Tail(fetch.calls) \in Seq(SUBSET Players)
  BY <1>1, <1>2
<1>6. sheet \in SUBSET (Players \X (1 .. MaxVersion))
  BY <1>3, <1>5
<1>7. \A line \in sheet : line[1] \in DOMAIN Box[g][1] /\ line[2] \in 1 .. result[g]
  BY <1>3, <1>4
<1> HIDE DEF sheet
<1>8. fetch' \in FetchRecords
  BY <1>1, <1>2, <1>5, <1>6 DEF FetchRecords
<1>9. /\ fetch'.queue = fetch.queue /\ fetch'.checked = fetch.checked /\ fetch'.game = g
      /\ fetch'.calls = Tail(fetch.calls) /\ fetch'.sheet = sheet
  BY <1>1, <1>2 DEF FetchRecords
<1>10. (\A h \in fetch.queue : Waiting(h))'
  BY <1>1, <1>9, WaitingSame DEF FetchInv
<1>11. (fetch.checked => \A h \in Of("mlb", fetch.queue) : result[h] > 0)'
  BY <1>1, <1>9 DEF FetchInv, Of, SportOf
<1>12. (fetch.game # Null => fetch.game \in fetch.queue /\ fetch.checked /\ result[fetch.game] > 0)'
  BY <1>1, <1>9 DEF FetchInv
<1> HIDE DEF g
<1> QED
  BY <1>1, <1>2, <1>4, <1>7, <1>8, <1>9, <1>10, <1>11, <1>12 DEF FetchInv

(* Requests or lines of the game in hand are done with. *)
LEMMA ProgressType ==
  ASSUME FetchInv, result' = result, games' = games, fetch.game # Null,
         NEW calls \in Seq(SUBSET Players), NEW sheet \in SUBSET fetch.sheet,
         calls = fetch.calls \/ (fetch.calls # << >> /\ calls = Tail(fetch.calls)),
         fetch' = [fetch EXCEPT !.calls = calls, !.sheet = sheet]
  PROVE  FetchInv'
<1> DEFINE g == fetch.game
<1>1. fetch \in FetchRecords /\ sheet \in SUBSET (Players \X (1 .. MaxVersion))
  BY DEF FetchInv, FetchRecords
<1>2. calls \in Seq(SUBSET DOMAIN Box[g][1])
  <2>1. fetch.calls \in Seq(SUBSET DOMAIN Box[g][1])
    BY DEF FetchInv
  <2> QED
    BY <2>1, HeadTail
<1>3. fetch' \in FetchRecords
  BY <1>1 DEF FetchRecords
<1>4. /\ fetch'.queue = fetch.queue /\ fetch'.checked = fetch.checked /\ fetch'.game = g
      /\ fetch'.calls = calls /\ fetch'.sheet = sheet
  BY <1>1 DEF FetchRecords
<1>5. (\A h \in fetch.queue : Waiting(h))'
  BY <1>4, WaitingSame DEF FetchInv
<1>6. (fetch.checked => \A h \in Of("mlb", fetch.queue) : result[h] > 0)'
  BY <1>4 DEF FetchInv, Of, SportOf
<1>7. (fetch.game # Null => fetch.game \in fetch.queue /\ fetch.checked /\ result[fetch.game] > 0)'
  BY <1>4 DEF FetchInv
<1>8. \A line \in sheet : line[1] \in DOMAIN Box[g][1] /\ line[2] \in 1 .. result[g]
  BY DEF FetchInv
<1>9. (\A line \in fetch.sheet : line[1] \in DOMAIN Box[fetch.game][1] /\ line[2] \in 1 .. result[fetch.game])'
  BY <1>4, <1>8
<1>10. (fetch.calls \in Seq(SUBSET DOMAIN Box[fetch.game][1]))'
  BY <1>2, <1>4
<1>11. (fetch.game = Null => fetch.calls = << >> /\ fetch.sheet = {})'
  BY <1>4
<1> QED
  BY <1>3, <1>5, <1>6, <1>7, <1>9, <1>10, <1>11 DEF FetchInv

LEMMA StatsFailType ==
  ASSUME FetchInv, StatsFail
  PROVE  FetchInv'
<1>1. fetch.game # Null /\ result' = result /\ games' = games
  BY DEF StatsFail, vendor, tables
<1>2. fetch \in FetchRecords /\ fetch.calls \in Seq(SUBSET Players)
  BY DEF FetchInv, FetchRecords
<1>3. CASE fetch.calls # << >> /\ fetch.sheet = {} /\ fetch' = [fetch EXCEPT !.calls = Tail(@)]
  <2>1. Tail(fetch.calls) \in Seq(SUBSET Players)
    BY <1>2, <1>3
  <2>2. fetch' = [fetch EXCEPT !.calls = Tail(fetch.calls), !.sheet = fetch.sheet]
    BY <1>2, <1>3 DEF FetchRecords
  <2> QED
    BY <1>1, <1>3, <2>1, <2>2, ProgressType
<1>4. CASE fetch' = [fetch EXCEPT !.sheet = {}]
  <2>1. fetch' = [fetch EXCEPT !.calls = fetch.calls, !.sheet = {}]
    BY <1>2, <1>4 DEF FetchRecords
  <2> QED
    BY <1>1, <1>2, <2>1, ProgressType
<1> QED
  BY <1>3, <1>4 DEF StatsFail

LEMMA WriteLineType ==
  ASSUME FetchInv, NEW p, NEW v, WriteLine(p, v)
  PROVE  FetchInv'
<1>1. /\ <<p, v>> \in fetch.sheet /\ fetch' = [fetch EXCEPT !.sheet = @ \ {<<p, v>>}]
      /\ result' = result /\ games' = games
  BY DEF WriteLine, vendor
<1>2. fetch.game # Null
  BY <1>1 DEF FetchInv
<1>3. fetch \in FetchRecords /\ fetch.calls \in Seq(SUBSET Players)
  BY DEF FetchInv, FetchRecords
<1>4. fetch' = [fetch EXCEPT !.calls = fetch.calls, !.sheet = fetch.sheet \ {<<p, v>>}]
  BY <1>1, <1>3 DEF FetchRecords
<1>5. fetch.sheet \ {<<p, v>>} \in SUBSET fetch.sheet
  OBVIOUS
<1> QED
  BY <1>1, <1>2, <1>3, <1>4, <1>5, ProgressType

LEMMA MarkGameFinalType ==
  ASSUME TablesInv, FetchInv, MarkGameFinal
  PROVE  /\ TablesInv' /\ FetchInv' /\ Keeps(games, games')
         /\ fetch.game \in Games /\ Waiting(fetch.game)
         /\ \A k \in DOMAIN games \ {Key[fetch.game]} : games'[k] = games[k]
<1> DEFINE g == fetch.game
           row == [games[Key[g]] EXCEPT !.final = TRUE, !.score = fetch.seen[g]]
<1>1. /\ g # Null /\ games' = [games EXCEPT ![Key[g]] = row]
      /\ fetch' = Leave(fetch.queue \ {g}) /\ result' = result
      /\ UNCHANGED <<teams, players, stats>>
  BY DEF MarkGameFinal, vendor
<1>2. g \in fetch.queue /\ g \in Games /\ fetch.checked /\ Waiting(g)
  BY <1>1 DEF FetchInv, FetchRecords
<1>3. Key[g] \in DOMAIN games /\ games[Key[g]] # Null /\ games[Key[g]] \in GameRecord
  BY <1>2, KeyType DEF TablesInv, Waiting
<1>4. fetch.seen[g] \in 0 .. MaxVersion
  BY <1>2 DEF FetchInv, FetchRecords
<1>5. row \in GameRecord /\ row.id = games[Key[g]].id
  BY <1>3, <1>4 DEF GameRecord
<1>6. row # Null
  BY <1>5, NullAssumption
<1> HIDE DEF row
<1>7. UniqueIDs(games') /\ Keeps(games, games')
  BY <1>1, <1>3, <1>5, <1>6, RowChanges DEF TablesInv
<1>8. games' \in [Keys(Games) -> GameRecord \union {Null}]
  BY <1>1, <1>5 DEF TablesInv
<1>9. TablesInv'
  BY <1>1, <1>7, <1>8 DEF TablesInv
<1>10. \A k \in DOMAIN games \ {Key[g]} : games'[k] = games[k]
  BY <1>1
<1>11. ASSUME NEW h \in fetch.queue \ {g}
       PROVE  Waiting(h)'
  <2>1. h \in Games /\ Waiting(h)
    BY DEF FetchInv, FetchRecords
  <2>2. Key[h] \in DOMAIN games /\ Key[h] # Key[g]
    BY <1>2, <2>1, KeyType, WaitingApart DEF TablesInv
  <2>3. games'[Key[h]] = games[Key[h]]
    BY <1>10, <2>2
  <2> QED
    BY <2>1, <2>3 DEF Waiting, SportOf, Key
<1>12. \A h \in Of("mlb", fetch.queue \ {g}) : result[h] > 0
  BY <1>2 DEF FetchInv, Of
<1>13. FetchInv'
  BY <1>1, <1>11, <1>12, LeaveType
<1> QED
  BY <1>2, <1>7, <1>9, <1>10, <1>13

-----------------------------------------------------------------------------
(* The invariant *)

RefdataInv ==
  /\ VendorInv /\ TablesInv /\ PopInv /\ FetchInv
  /\ faults \in 0 .. MaxFaults
  /\ missed \subseteq Games \X Players

LEMMA FaultsBounded ==
  ASSUME faults \in 0 .. MaxFaults, NEW S, IsFiniteSet(S), Fail(S)
  PROVE  faults' \in 0 .. MaxFaults
<1>1. Cardinality(S) \in Nat
  BY FS_CardinalityType
<1>2. faults' = faults + Cardinality(S) /\ faults' <= MaxFaults
  BY DEF Fail
<1>3. MaxFaults \in Nat
  BY BoundsAssumption
<1> QED
  BY <1>1, <1>2, <1>3

LEMMA FaultBounded ==
  ASSUME faults \in 0 .. MaxFaults, Fault
  PROVE  faults' \in 0 .. MaxFaults
<1>1. IsFiniteSet({1})
  BY FS_Singleton
<1> QED
  BY <1>1, FaultsBounded DEF Fault

LEMMA PropTypesFinite == IsFiniteSet(PropTypes)
<1> DEFINE f == [i \in 1 .. 15 |->
       CASE i = 1 -> "HOMERUNS" [] i = 2 -> "HITS" [] i = 3 -> "RBIS" [] i = 4 -> "WALKS"
         [] i = 5 -> "STRIKEOUTS" [] i = 6 -> "EARNED_RUNS" [] i = 7 -> "GOALS" [] i = 8 -> "ASSISTS"
         [] i = 9 -> "SAVES" [] i = 10 -> "YELLOW_CARDS" [] i = 11 -> "PASSING_YARDS"
         [] i = 12 -> "TOUCHDOWNS" [] i = 13 -> "INTERCEPTIONS" [] i = 14 -> "RUSHING_YARDS"
         [] i = 15 -> "RECEIVING_YARDS"]
<1>1. IsFiniteSet(1 .. 15)
  <2>1. 1 \in Int /\ 15 \in Int
    OBVIOUS
  <2> QED
    BY <2>1, FS_Interval
<1>2. f \in Surjection(1 .. 15, PropTypes)
  BY DEF PropTypes, Surjection
<1> QED
  BY <1>1, <1>2, FS_Surjection

Grows == \A g \in Games : result[g] \in Nat /\ result'[g] \in Nat /\ result'[g] >= result[g]

LEMMA VendorStep ==
  ASSUME RefdataInv, Vendors
  PROVE  VendorInv' /\ Grows /\ UNCHANGED <<tables, pop, fetch, missed, faults>>
<1>1. VendorInv /\ Days \in Nat /\ MaxVersion \in Nat \ {0} /\ MaxMoves \in Nat
  BY BoundsAssumption DEF RefdataInv
<1>2. season.games \subseteq Games /\ season.players \subseteq Players
  BY <1>1, LeaguesAssumption DEF VendorInv
<1>3. CASE NewDay
  BY <1>1, <1>3 DEF NewDay, VendorInv, Grows
<1>4. ASSUME NEW g \in season.games, Reschedule(g)
      PROVE  VendorInv' /\ Grows /\ UNCHANGED <<tables, pop, fetch, missed, faults>>
  BY <1>1, <1>2, <1>4 DEF Reschedule, VendorInv, Grows
<1>5. ASSUME NEW g \in season.games, Report(g)
      PROVE  VendorInv' /\ Grows /\ UNCHANGED <<tables, pop, fetch, missed, faults>>
  BY <1>1, <1>2, <1>5 DEF Report, VendorInv, Grows
<1>6. ASSUME NEW g \in season.games, Correct(g)
      PROVE  VendorInv' /\ Grows /\ UNCHANGED <<tables, pop, fetch, missed, faults>>
  BY <1>1, <1>2, <1>6 DEF Correct, VendorInv, Grows
<1>7. ASSUME NEW p \in season.players, Transfer(p)
      PROVE  VendorInv' /\ Grows /\ UNCHANGED <<tables, pop, fetch, missed, faults>>
  BY <1>1, <1>2, <1>7 DEF Transfer, VendorInv, Grows
<1> QED
  BY <1>3, <1>4, <1>5, <1>6, <1>7 DEF Vendors

(* What the Populator leaves alone, and what it may do to the tables. *)
PopulatorEffect ==
  /\ UNCHANGED <<vendor, stats, fetch, missed>>
  /\ TablesInv' /\ PopInv' /\ faults' \in 0 .. MaxFaults
  /\ Keeps(teams, teams') /\ Keeps(players, players')
  /\ Keeps(games, games') /\ KeepsResults(games, games')

LEMMA SameResults ==
  ASSUME NEW table
  PROVE  KeepsResults(table, table)
  BY DEF KeepsResults

LEMMA NothingStored ==
  ASSUME RefdataInv, UNCHANGED <<vendor, tables, fetch, missed>>, PopInv', faults' \in 0 .. MaxFaults
  PROVE  PopulatorEffect
<1>1. UNCHANGED <<teams, players, games, stats>>
  BY DEF tables
<1>2. TablesInv'
  BY <1>1 DEF RefdataInv, TablesInv
<1>3. /\ Keeps(teams, teams') /\ Keeps(players, players')
      /\ Keeps(games, games') /\ KeepsResults(games, games')
  BY <1>1, Same, SameResults
<1> QED
  BY <1>1, <1>2, <1>3 DEF PopulatorEffect

LEMMA TickStep ==
  ASSUME RefdataInv, Tick
  PROVE  PopulatorEffect
<1>1. season.leagues \in Seq(DOMAIN Sport) /\ season.leagues # << >>
  BY LeaguesAssumption DEF RefdataInv, VendorInv
<1>2. Head(season.leagues) \in DOMAIN Sport
  BY <1>1
<1>3. RefDataRequests(Head(season.leagues)) \in Seq(Requests)
  BY <1>2, RefDataRequestsType DEF RefdataInv
<1>4. /\ pop' = [leagues |-> season.leagues, requests |-> RefDataRequests(Head(season.leagues)), rows |-> {}]
      /\ UNCHANGED <<vendor, tables, fetch, missed, faults>>
  BY DEF Tick
<1>5. PopInv'
  BY <1>1, <1>3, <1>4 DEF PopInv, PopRecords
<1>6. faults' \in 0 .. MaxFaults
  BY <1>4 DEF RefdataInv
<1> QED
  BY <1>4, <1>5, <1>6, NothingStored

(* A request is taken from the list; what it brings is to be upserted. *)
LEMMA RequestTaken ==
  ASSUME RefdataInv, pop.requests # << >>
  PROVE  /\ pop.leagues \in Seq(DOMAIN Sport) /\ pop.leagues # << >> /\ Head(pop.leagues) \in DOMAIN Sport
         /\ Head(pop.requests) \in Requests /\ Tail(pop.requests) \in Seq(Requests)
<1>1. pop \in PopRecords
  BY DEF RefdataInv, PopInv
<1>2. pop.leagues \in Seq(DOMAIN Sport) /\ pop.requests \in Seq(Requests)
  BY <1>1 DEF PopRecords
<1>3. pop.leagues # << >>
  <2>1. SUFFICES ASSUME pop.leagues = << >> PROVE FALSE
    OBVIOUS
  <2>2. pop = Idle
    BY <2>1 DEF RefdataInv, PopInv
  <2>3. pop.requests = << >>
    BY <2>2 DEF Idle
  <2> QED
    BY <2>3
<1> QED
  BY <1>2, <1>3, HeadTail

LEMMA GetTeamsStep ==
  ASSUME RefdataInv, GetTeams
  PROVE  PopulatorEffect
<1>1. pop.requests # << >>
  BY DEF GetTeams
<1> DEFINE listed == TeamsOf[Head(pop.leagues)]
<1>2. PICK fail \in SUBSET ToSet(listed) : Fail(fail) /\ teams' = UpsertTeams(listed, fail)
  BY DEF GetTeams
<1>3. /\ pop' = Continue(pop.leagues, Tail(pop.requests), {})
      /\ UNCHANGED <<vendor, players, games, stats, fetch, missed>>
  BY DEF GetTeams
<1>4. PICK n \in Nat : listed \in [1 .. n -> Teams]
  BY <1>1, RequestTaken, TeamsOfType
<1> HIDE DEF listed
<1>5. IsFiniteSet(fail)
  <2>1. fail \subseteq Teams
    BY <1>4 DEF ToSet
  <2> QED
    BY <2>1, NamesAssumption, FS_Subset
<1>6. faults' \in 0 .. MaxFaults
  BY <1>2, <1>5, FaultsBounded DEF RefdataInv
<1>7. /\ teams' \in [Keys(Teams) -> TeamRecord \union {Null}] /\ UniqueIDs(teams')
      /\ Keeps(teams, teams')
  BY <1>2, <1>4, TeamsUpserted DEF RefdataInv, TablesInv
<1>8. TablesInv'
  BY <1>3, <1>7 DEF RefdataInv, TablesInv
<1>9. PopInv'
  <2>1. {} \in SUBSET (PlayerRows \union GameRows) /\ VendorInv
    BY DEF RefdataInv
  <2> QED
    BY <1>1, <1>3, <2>1, RequestTaken, ContinueType
<1>10. Keeps(players, players') /\ Keeps(games, games') /\ KeepsResults(games, games')
  BY <1>3, Same, SameResults
<1> QED
  BY <1>3, <1>6, <1>7, <1>8, <1>9, <1>10 DEF PopulatorEffect

LEMMA GetStep ==
  ASSUME RefdataInv, Get \/ GetFails
  PROVE  PopulatorEffect
<1>1. pop.requests # << >> /\ UNCHANGED <<vendor, tables, fetch, missed>>
  BY DEF Get, GetFails
<1>2. CASE Get
  <2>1. Rows(Head(pop.leagues), Head(pop.requests)) \in SUBSET (PlayerRows \union GameRows)
    BY <1>1, <1>2, RequestTaken, RowsType DEF Get, RefdataInv
  <2>2. PopInv'
    BY <1>1, <1>2, <2>1, RequestTaken, ContinueType DEF Get, RefdataInv
  <2>3. faults' \in 0 .. MaxFaults
    BY <1>2 DEF Get, RefdataInv
  <2> QED
    BY <1>1, <2>2, <2>3, NothingStored
<1>3. CASE GetFails
  <2> DEFINE rest == IF EndsLeague(Head(pop.requests)) THEN << >> ELSE Tail(pop.requests)
  <2>1. rest \in Seq(Requests) /\ pop' = Continue(pop.leagues, rest, {})
    BY <1>1, <1>3, RequestTaken DEF GetFails
  <2> HIDE DEF rest
  <2>2. PopInv'
    BY <1>1, <2>1, RequestTaken, ContinueType DEF RefdataInv
  <2>3. faults' \in 0 .. MaxFaults
    BY <1>3, FaultBounded DEF GetFails, RefdataInv
  <2> QED
    BY <1>1, <2>2, <2>3, NothingStored
<1> QED
  BY <1>2, <1>3

LEMMA RowDoneType ==
  ASSUME RefdataInv, NEW r \in pop.rows, RowDone(r)
  PROVE  PopInv'
<1>1. pop \in PopRecords
  BY DEF RefdataInv, PopInv
<1>2. /\ pop.leagues \in Seq(DOMAIN Sport) /\ pop.requests \in Seq(Requests)
      /\ pop.rows \ {r} \in SUBSET (PlayerRows \union GameRows)
  BY <1>1 DEF PopRecords
<1>3. pop.leagues # << >>
  <2>1. SUFFICES ASSUME pop.leagues = << >> PROVE FALSE
    OBVIOUS
  <2>2. pop = Idle
    BY <2>1 DEF RefdataInv, PopInv
  <2>3. pop.rows = {}
    BY <2>2 DEF Idle
  <2> QED
    BY <2>3
<1> QED
  BY <1>2, <1>3, ContinueType DEF RowDone, RefdataInv

LEMMA PopulatorStep ==
  ASSUME RefdataInv, Populator
  PROVE  PopulatorEffect
<1>1. ASSUME NEW r \in pop.rows, UpsertPlayer(r) PROVE PopulatorEffect
  <2>1. TablesInv' /\ Keeps(players, players')
    BY <1>1, PlayerUpserted DEF RefdataInv
  <2>2. RowDone(r) /\ UNCHANGED <<vendor, teams, games, stats, fetch, missed, faults>>
    BY <1>1 DEF UpsertPlayer
  <2>3. Keeps(teams, teams') /\ Keeps(games, games') /\ KeepsResults(games, games')
    BY <2>2, Same, SameResults
  <2>4. faults' \in 0 .. MaxFaults /\ PopInv'
    BY <1>1, <2>2, RowDoneType DEF RefdataInv
  <2> QED
    BY <2>1, <2>2, <2>3, <2>4 DEF PopulatorEffect
<1>2. ASSUME NEW r \in pop.rows, UpsertGame(r) PROVE PopulatorEffect
  <2>1. TablesInv' /\ Keeps(games, games') /\ KeepsResults(games, games')
    BY <1>2, GameUpserted DEF RefdataInv
  <2>2. RowDone(r) /\ UNCHANGED <<vendor, teams, players, stats, fetch, missed, faults>>
    BY <1>2 DEF UpsertGame
  <2>3. Keeps(teams, teams') /\ Keeps(players, players')
    BY <2>2, Same
  <2>4. faults' \in 0 .. MaxFaults /\ PopInv'
    BY <1>2, <2>2, RowDoneType DEF RefdataInv
  <2> QED
    BY <2>1, <2>2, <2>3, <2>4 DEF PopulatorEffect
<1>3. ASSUME NEW r \in pop.rows, UpsertFails(r) PROVE PopulatorEffect
  <2>1. RowDone(r) /\ Fault /\ UNCHANGED <<vendor, tables, fetch, missed>>
    BY <1>3 DEF UpsertFails
  <2>2. faults' \in 0 .. MaxFaults /\ PopInv'
    BY <1>3, <2>1, RowDoneType, FaultBounded DEF RefdataInv
  <2> QED
    BY <2>1, <2>2, NothingStored
<1> QED
  BY <1>1, <1>2, <1>3, TickStep, GetTeamsStep, GetStep DEF Populator

FetcherEffect ==
  /\ UNCHANGED <<vendor, teams, players, pop>>
  /\ TablesInv' /\ FetchInv' /\ faults' \in 0 .. MaxFaults
  /\ missed' \subseteq Games \X Players
  /\ Keeps(games, games')

(* A step of the EventFetcher that writes to no table. *)
LEMMA NothingWritten ==
  ASSUME RefdataInv, UNCHANGED <<vendor, tables, pop>>, FetchInv', faults' \in 0 .. MaxFaults,
         missed' \subseteq Games \X Players
  PROVE  FetcherEffect
<1>1. UNCHANGED <<teams, players, games, stats>>
  BY DEF tables
<1>2. TablesInv'
  BY <1>1 DEF RefdataInv, TablesInv
<1> QED
  BY <1>1, <1>2, Same DEF FetcherEffect

(* The steps that follow the queue. *)
LEMMA QueueStep ==
  ASSUME RefdataInv, RunOnce \/ BatchStatus \/ BatchStatusFails \/ BoxScore \/ MLBBoxScoreFails \/ MarkGameFinalFails
  PROVE  FetcherEffect
<1>1. UNCHANGED <<vendor, tables, pop, missed>>
  BY DEF RunOnce, BatchStatus, BatchStatusFails, BoxScore, MLBBoxScoreFails, MarkGameFinalFails
<1>2. games' = games /\ result' = result
  BY <1>1 DEF vendor, tables
<1>3. faults' \in 0 .. MaxFaults
  <2>1. faults' = faults \/ Fault
    BY DEF RunOnce, BatchStatus, BatchStatusFails, BoxScore, MLBBoxScoreFails, MarkGameFinalFails
  <2> QED
    BY <2>1, FaultBounded DEF RefdataInv
<1>4. VendorInv /\ FetchInv /\ missed' \subseteq Games \X Players
  BY <1>1 DEF RefdataInv
<1>5. FetchInv'
  <2>1. CASE RunOnce
    BY <1>4, <2>1, RunOnceType
  <2>2. CASE BatchStatus
    BY <1>4, <2>2, BatchStatusType
  <2>3. CASE BatchStatusFails
    <3> DEFINE queue == fetch.queue \ Of("mlb", fetch.queue)
    <3>1. queue \in SUBSET fetch.queue /\ Of("mlb", queue) = {}
      BY DEF Of
    <3>2. fetch' = Leave(queue)
      BY <2>3 DEF BatchStatusFails
    <3> HIDE DEF queue
    <3> QED
      BY <1>2, <1>4, <3>1, <3>2, LeaveStep
  <2>4. CASE BoxScore
    BY <1>4, <2>4, BoxScoreType
  <2>5. CASE MLBBoxScoreFails \/ MarkGameFinalFails
    <3> DEFINE queue == fetch.queue \ {fetch.game}
    <3>1. queue \in SUBSET fetch.queue /\ fetch.game # Null /\ fetch' = Leave(queue)
      BY <2>5 DEF MLBBoxScoreFails, MarkGameFinalFails
    <3>2. fetch.checked
      BY <1>4, <3>1 DEF FetchInv
    <3> HIDE DEF queue
    <3> QED
      BY <1>2, <1>4, <3>1, <3>2, LeaveStep
  <2> QED
    BY <2>1, <2>2, <2>3, <2>4, <2>5
<1> QED
  BY <1>1, <1>3, <1>4, <1>5, NothingWritten

LEMMA TurnStep ==
  ASSUME RefdataInv, NEW g \in fetch.queue,
         TakeMLBGame(g) \/ fetchSoccerGameResult(g) \/ fetchNFLGameResult(g) \/ GameDetailFails(g)
  PROVE  FetcherEffect
<1>1. UNCHANGED <<vendor, tables, pop, missed>>
  BY DEF TakeMLBGame, fetchSoccerGameResult, fetchNFLGameResult, GameDetail, GameDetailFails
<1>2. games' = games /\ result' = result
  BY <1>1 DEF vendor, tables
<1>3. faults' \in 0 .. MaxFaults
  <2>1. faults' = faults \/ Fault
    BY DEF TakeMLBGame, fetchSoccerGameResult, fetchNFLGameResult, GameDetail, GameDetailFails
  <2> QED
    BY <2>1, FaultBounded DEF RefdataInv
<1>4. VendorInv /\ FetchInv /\ missed' \subseteq Games \X Players
  BY <1>1 DEF RefdataInv
<1>5. FetchInv'
  <2>1. CASE TakeMLBGame(g)
    BY <1>4, <2>1, TakeMLBGameType
  <2>2. CASE fetchSoccerGameResult(g) \/ fetchNFLGameResult(g)
    BY <1>4, <2>2, GameDetailType DEF fetchSoccerGameResult, fetchNFLGameResult
  <2>3. CASE GameDetailFails(g)
    <3> DEFINE queue == fetch.queue \ {g}
    <3>1. queue \in SUBSET fetch.queue /\ fetch.checked /\ fetch' = Leave(queue)
      BY <2>3 DEF GameDetailFails, Turn
    <3> HIDE DEF queue
    <3> QED
      BY <1>2, <1>4, <3>1, LeaveStep
  <2> QED
    BY <2>1, <2>2, <2>3
<1> QED
  BY <1>1, <1>3, <1>4, <1>5, NothingWritten

LEMMA LinesType ==
  ASSUME FetchInv, fetch.game # Null, NEW S \in SUBSET Players
  PROVE  Lines(S) \subseteq Games \X Players
<1>1. fetch.game \in Games
  BY DEF FetchInv, FetchRecords
<1> QED
  BY <1>1 DEF Lines

LEMMA StatsFailStep ==
  ASSUME RefdataInv, StatsFail
  PROVE  FetcherEffect
<1>1. fetch.game # Null /\ Fault /\ UNCHANGED <<vendor, tables, pop>>
  BY DEF StatsFail
<1>2. FetchInv /\ missed \subseteq Games \X Players /\ fetch \in FetchRecords
  BY DEF RefdataInv, FetchInv
<1>3. PICK S \in SUBSET Players : missed' = missed \union Lines(S)
  <2>1. CASE fetch.calls # << >> /\ missed' = missed \union Lines(Head(fetch.calls))
    <3>1. fetch.calls \in Seq(SUBSET Players)
      BY <1>2 DEF FetchRecords
    <3>2. Head(fetch.calls) \in SUBSET Players
      BY <2>1, <3>1, HeadTail
    <3> QED
      BY <2>1, <3>2
  <2>2. CASE missed' = missed \union Lines({line[1] : line \in fetch.sheet})
    <3>1. {line[1] : line \in fetch.sheet} \in SUBSET Players
      BY <1>2 DEF FetchRecords
    <3> QED
      BY <2>2, <3>1
  <2> QED
    BY <2>1, <2>2 DEF StatsFail
<1>4. missed' \subseteq Games \X Players
  BY <1>1, <1>2, <1>3, LinesType
<1>5. faults' \in 0 .. MaxFaults
  BY <1>1, FaultBounded DEF RefdataInv
<1>6. FetchInv'
  BY <1>2, StatsFailType
<1> QED
  BY <1>1, <1>4, <1>5, <1>6, NothingWritten

LEMMA WriteLineStep ==
  ASSUME RefdataInv, NEW p, NEW v, WriteLine(p, v)
  PROVE  FetcherEffect
<1>1. <<p, v>> \in fetch.sheet /\ UNCHANGED <<vendor, teams, players, games, pop>>
  BY DEF WriteLine
<1>2. FetchInv /\ missed \subseteq Games \X Players /\ fetch \in FetchRecords
  BY DEF RefdataInv, FetchInv
<1>3. p \in Players /\ fetch.game # Null /\ fetch.game \in Games
  BY <1>1, <1>2 DEF FetchInv, FetchRecords
<1>4. Lines({p}) \subseteq Games \X Players
  BY <1>2, <1>3, LinesType
<1>5. missed' \subseteq Games \X Players
  BY <1>2, <1>4 DEF WriteLine
<1> DEFINE writes == Writes(SportOf(fetch.game), Box[fetch.game][v][p])
<1>6. IsFiniteSet(DOMAIN writes)
  <2>1. SportOf(fetch.game) \in {"mlb", "soccer", "nfl"}
    BY <1>3, SportType
  <2>2. DOMAIN writes \subseteq PropTypes
    BY <2>1, WritesProps
  <2> QED
    BY <2>2, PropTypesFinite, FS_Subset
<1>7. faults' = faults \/ \E fail \in SUBSET DOMAIN writes : Fail(fail)
  BY DEF WriteLine
<1> HIDE DEF writes
<1>8. faults' \in 0 .. MaxFaults
  BY <1>6, <1>7, FS_Subset, FaultsBounded DEF RefdataInv
<1>9. DOMAIN stats' = DOMAIN stats
  BY DEF WriteLine
<1>10. TablesInv'
  BY <1>1, <1>9 DEF RefdataInv, TablesInv
<1>11. FetchInv'
  BY <1>2, WriteLineType
<1> QED
  BY <1>1, <1>5, <1>8, <1>10, <1>11, Same DEF FetcherEffect

LEMMA FetcherStep ==
  ASSUME RefdataInv, EventFetcher
  PROVE  FetcherEffect
<1>1. CASE MarkGameFinal
  <2>1. TablesInv' /\ FetchInv' /\ Keeps(games, games')
    BY <1>1, MarkGameFinalType DEF RefdataInv
  <2>2. UNCHANGED <<vendor, teams, players, pop, missed, faults>>
    BY <1>1 DEF MarkGameFinal
  <2> QED
    BY <2>1, <2>2 DEF FetcherEffect, RefdataInv
<1> QED
  BY <1>1, QueueStep, TurnStep, StatsFailStep, WriteLineStep DEF EventFetcher

LEMMA Initially ==
  ASSUME Init
  PROVE  RefdataInv
<1>1. VendorInv
  BY BoundsAssumption, VendorsAssumption DEF Init, VendorInv
<1>2. TablesInv
  BY DEF Init, TablesInv, UniqueIDs
<1>3. Idle \in PopRecords
  BY DEF Idle, PopRecords
<1>4. PopInv
  BY <1>3 DEF Init, PopInv
<1>5. Resting \in FetchRecords
  BY BoundsAssumption DEF Resting, FetchRecords
<1>6. /\ fetch.queue = {} /\ fetch.checked = FALSE /\ fetch.game = Null
      /\ fetch.calls = << >> /\ fetch.sheet = {}
  BY DEF Init, Resting
<1>7. << >> \in Seq(SUBSET DOMAIN Box[fetch.game][1])
  OBVIOUS
<1>8. FetchInv
  BY <1>5, <1>6, <1>7 DEF Init, FetchInv
<1>9. faults \in 0 .. MaxFaults /\ missed \subseteq Games \X Players
  BY BoundsAssumption DEF Init
<1> QED
  BY <1>1, <1>2, <1>4, <1>8, <1>9 DEF RefdataInv

(* No step loses a row or changes its id. *)
RowsKept == Keeps(teams, teams') /\ Keeps(players, players') /\ Keeps(games, games')

LEMMA RefdataStep ==
  ASSUME RefdataInv, [Next]_vars
  PROVE  RefdataInv' /\ RowsKept
<1>1. CASE UNCHANGED vars
  <2>1. UNCHANGED <<season, today, day, roster, result, moves, teams, players, games, stats, pop, fetch, missed, faults>>
    BY <1>1 DEF vars, vendor, tables
  <2>2. VendorInv' /\ TablesInv' /\ PopInv'
    BY <2>1 DEF RefdataInv, VendorInv, TablesInv, PopInv
  <2>3. \A g \in fetch.queue : Waiting(g)'
    BY <2>1, WaitingSame DEF RefdataInv, FetchInv
  <2>4. \A g \in Games : result'[g] \in Nat /\ result[g] \in Nat /\ result'[g] >= result[g]
    BY <2>1 DEF RefdataInv, VendorInv
  <2>5. FetchInv'
    BY <2>1, <2>3, <2>4, FetchUntouched DEF RefdataInv
  <2> QED
    BY <2>1, <2>2, <2>5, Same DEF RefdataInv, RowsKept
<1>2. CASE Vendors
  <2>1. VendorInv' /\ Grows /\ UNCHANGED <<teams, players, games, stats, pop, fetch, missed, faults>>
    BY <1>2, VendorStep DEF tables
  <2>2. TablesInv' /\ PopInv'
    BY <2>1 DEF RefdataInv, TablesInv, PopInv
  <2>3. \A g \in fetch.queue : Waiting(g)'
    BY <2>1, WaitingSame DEF RefdataInv, FetchInv
  <2>4. FetchInv'
    BY <2>1, <2>3, FetchUntouched DEF RefdataInv, Grows
  <2> QED
    BY <2>1, <2>2, <2>4, Same DEF RefdataInv, RowsKept
<1>3. CASE Populator
  <2>1. PopulatorEffect
    BY <1>3, PopulatorStep
  <2>2. UNCHANGED <<season, today, day, roster, result, moves, fetch, missed>>
    BY <2>1 DEF PopulatorEffect, vendor
  <2>3. VendorInv'
    BY <2>2 DEF RefdataInv, VendorInv
  <2>4. fetch.queue \subseteq Games
    BY DEF RefdataInv, FetchInv, FetchRecords
  <2>5. \A g \in fetch.queue : Waiting(g)'
    BY <2>1, <2>4, WaitingStays DEF PopulatorEffect, RefdataInv, FetchInv
  <2>6. \A g \in Games : result'[g] \in Nat /\ result[g] \in Nat /\ result'[g] >= result[g]
    BY <2>2 DEF RefdataInv, VendorInv
  <2>7. FetchInv'
    BY <2>2, <2>5, <2>6, FetchUntouched DEF RefdataInv
  <2> QED
    BY <2>1, <2>2, <2>3, <2>7 DEF RefdataInv, RowsKept, PopulatorEffect
<1>4. CASE EventFetcher
  <2>1. FetcherEffect
    BY <1>4, FetcherStep
  <2>2. UNCHANGED <<season, today, day, roster, result, moves, pop, teams, players>>
    BY <2>1 DEF FetcherEffect, vendor
  <2>3. VendorInv' /\ PopInv'
    BY <2>2 DEF RefdataInv, VendorInv, PopInv
  <2>4. Keeps(teams, teams') /\ Keeps(players, players')
    BY <2>2, Same
  <2> QED
    BY <2>1, <2>3, <2>4 DEF RefdataInv, RowsKept, FetcherEffect
<1>5. CASE Restart
  <2>1. /\ Fault /\ pop' = Idle /\ fetch' = Resting
        /\ UNCHANGED <<season, today, day, roster, result, moves, teams, players, games, stats, missed>>
    BY <1>5 DEF Restart, vendor, tables
  <2>2. VendorInv' /\ TablesInv'
    BY <2>1 DEF RefdataInv, VendorInv, TablesInv
  <2>3. Idle \in PopRecords
    BY DEF Idle, PopRecords
  <2>4. PopInv'
    BY <2>1, <2>3 DEF PopInv
  <2>5. FetchInv'
    BY <2>1, RestingType
  <2>6. faults' \in 0 .. MaxFaults
    BY <2>1, FaultBounded DEF RefdataInv
  <2> QED
    BY <2>1, <2>2, <2>4, <2>5, <2>6, Same DEF RefdataInv, RowsKept
<1> QED
  BY <1>1, <1>2, <1>3, <1>4, <1>5 DEF Next

(* The invariant the others rest on.  The types of the tables depend on    *)
(* what the EventFetcher remembers: MarkGameFinal updates the row of a     *)
(* game listed long before, so a game listed must stay stored, not FINAL   *)
(* and of its sport while the Populator goes on upserting.                 *)
THEOREM RefdataInvariant == Spec => []RefdataInv
<1>1. Init => RefdataInv
  BY Initially
<1>2. RefdataInv /\ [Next]_vars => RefdataInv'
  BY RefdataStep
<1> QED
  BY <1>1, <1>2, PTL DEF Spec

(* The tables hold rows of their kind, failures stay within their bound,   *)
(* the game in hand is one of those listed, and an idle Populator has      *)
(* nothing left over: for any leagues, seasons and failures.               *)
THEOREM TypeCorrect == Spec => []TypeOK
<1>1. RefdataInv => TypeOK
  <2>1. ASSUME RefdataInv PROVE fetch.queue \subseteq Games
    BY <2>1 DEF RefdataInv, FetchInv, FetchRecords
  <2> QED
    BY <2>1 DEF RefdataInv, VendorInv, TablesInv, PopInv, FetchInv, TypeOK
<1> QED
  BY <1>1, RefdataInvariant, PTL

(* The ids that markets and stats refer to are never reused, changed or    *)
(* lost, whatever the vendors move and whatever fails.                     *)
THEOREM IdentityIsKept == Spec => IdentityKept
<1> DEFINE Kept(before, after) ==
      \A k \in DOMAIN before :
        before[k] # Null => /\ after[k] # Null
                            /\ after[k].id = before[k].id
                            /\ \A j \in DOMAIN after \ {k} : after[j] # Null => after[j].id # after[k].id
<1>1. ASSUME NEW before, NEW after, Keeps(before, after), UniqueIDs(after)
      PROVE  Kept(before, after)
  BY <1>1 DEF Keeps, UniqueIDs
<1>2. RefdataInv /\ [Next]_vars => Kept(teams, teams') /\ Kept(players, players') /\ Kept(games, games')
  <2>1. SUFFICES ASSUME RefdataInv, [Next]_vars
                 PROVE  Kept(teams, teams') /\ Kept(players, players') /\ Kept(games, games')
    OBVIOUS
  <2>2. UniqueIDs(teams') /\ UniqueIDs(players') /\ UniqueIDs(games') /\ RowsKept
    BY <2>1, RefdataStep DEF RefdataInv, TablesInv
  <2> HIDE DEF Kept
  <2> QED
    BY <2>2, <1>1 DEF RowsKept
<1>3. RefdataInv /\ [Next]_vars =>
        [\A table \in {<<teams, teams'>>, <<players, players'>>, <<games, games'>>} :
           \A k \in DOMAIN table[1] :
             table[1][k] # Null => /\ table[2][k] # Null
                                  /\ table[2][k].id = table[1][k].id
                                  /\ \A j \in DOMAIN table[2] \ {k} :
                                       table[2][j] # Null => table[2][j].id # table[2][k].id]_vars
  BY <1>2
<1> QED
  BY <1>3, RefdataInvariant, PTL DEF Spec, IdentityKept

-----------------------------------------------------------------------------
(* Results *)

(* Only MarkGameFinal touches what a row says of the result, and only      *)
(* WriteLine the numbers.                                                  *)
LEMMA ResultSteps ==
  ASSUME RefdataInv, [Next]_vars
  PROVE  /\ MarkGameFinal \/ (Keeps(games, games') /\ KeepsResults(games, games'))
         /\ stats' = stats \/ \E line \in fetch.sheet : WriteLine(line[1], line[2])
<1>1. ASSUME games' = games PROVE Keeps(games, games') /\ KeepsResults(games, games')
  BY <1>1, Same, SameResults
<1>2. CASE UNCHANGED vars
  BY <1>1, <1>2 DEF vars, tables
<1>3. CASE Vendors
  BY <1>1, <1>3, VendorStep DEF tables
<1>4. CASE Populator
  BY <1>4, PopulatorStep DEF PopulatorEffect
<1>5. CASE EventFetcher
  <2>1. CASE MarkGameFinal
    BY <2>1 DEF MarkGameFinal
  <2>2. CASE \E line \in fetch.sheet : WriteLine(line[1], line[2])
    <3>1. games' = games
      BY <2>2 DEF WriteLine
    <3> QED
      BY <1>1, <2>2, <3>1
  <2>3. CASE ~ MarkGameFinal /\ ~ \E line \in fetch.sheet : WriteLine(line[1], line[2])
    <3>1. UNCHANGED tables
      BY <1>5, <2>3 DEF EventFetcher, RunOnce, BatchStatus, BatchStatusFails, TakeMLBGame, fetchSoccerGameResult,
           fetchNFLGameResult, GameDetail, GameDetailFails, BoxScore, MLBBoxScoreFails, StatsFail, MarkGameFinalFails
    <3> QED
      BY <1>1, <3>1 DEF tables
  <2> QED
    BY <2>1, <2>2, <2>3
<1>6. CASE Restart
  BY <1>1, <1>6 DEF Restart, tables
<1> QED
  BY <1>2, <1>3, <1>4, <1>5, <1>6 DEF Next

LEMMA WaitingNotFinal ==
  ASSUME FetchInv, fetch.game # Null, NEW g \in Games, Final(g)
  PROVE  fetch.game \in Games /\ Key[g] # Key[fetch.game]
<1>1. fetch.game \in Games /\ Waiting(fetch.game)
  BY DEF FetchInv, FetchRecords
<1> QED
  BY <1>1 DEF Waiting, Final

(* The numbers of one game and one player are written at a time. *)
LEMMA OtherNumbersStay ==
  ASSUME FetchInv, TablesInv, NEW line \in fetch.sheet, WriteLine(line[1], line[2]),
         NEW g \in Games, NEW p \in Players, Key[g] # Key[fetch.game] \/ Key[p] # Key[line[1]]
  PROVE  stats'[<<Key[g], Key[p]>>] = stats[<<Key[g], Key[p]>>]
<1>1. <<Key[g], Key[p]>> \in DOMAIN stats
  BY KeyType DEF TablesInv
<1>2. stats' = stats \/ \E x : stats' = [stats EXCEPT ![<<Key[fetch.game], Key[line[1]]>>] = x]
  BY DEF WriteLine
<1>3. <<Key[g], Key[p]>> # <<Key[fetch.game], Key[line[1]]>>
  OBVIOUS
<1> QED
  BY <1>1, <1>2, <1>3

LEMMA ResultStays ==
  ASSUME RefdataInv, [Next]_vars, NEW g \in Games, Final(g)
  PROVE  /\ Final(g)' /\ games'[Key[g]].score = games[Key[g]].score
         /\ \A p \in Players : stats'[<<Key[g], Key[p]>>] = stats[<<Key[g], Key[p]>>]
<1>1. TablesInv /\ FetchInv /\ Key[g] \in DOMAIN games
  BY KeyType DEF RefdataInv, TablesInv
<1>2. games[Key[g]] # Null /\ games[Key[g]].final
  BY DEF Final
<1>3. games'[Key[g]] # Null /\ games'[Key[g]].final /\ games'[Key[g]].score = games[Key[g]].score
  <2>1. CASE Keeps(games, games') /\ KeepsResults(games, games')
    BY <1>1, <1>2, <2>1 DEF Keeps, KeepsResults
  <2>2. CASE MarkGameFinal
    <3>1. fetch.game # Null
      BY <2>2 DEF MarkGameFinal
    <3>2. Key[g] # Key[fetch.game]
      BY <1>1, <3>1, WaitingNotFinal
    <3>3. games'[Key[g]] = games[Key[g]]
      BY <1>1, <2>2, <3>2, MarkGameFinalType
    <3> QED
      BY <1>2, <3>3
  <2> QED
    BY <2>1, <2>2, ResultSteps
<1>4. ASSUME NEW p \in Players PROVE stats'[<<Key[g], Key[p]>>] = stats[<<Key[g], Key[p]>>]
  <2>1. CASE stats' = stats
    BY <2>1
  <2>2. ASSUME NEW line \in fetch.sheet, WriteLine(line[1], line[2])
        PROVE  stats'[<<Key[g], Key[p]>>] = stats[<<Key[g], Key[p]>>]
    <3>1. fetch.game # Null
      BY <1>1 DEF FetchInv
    <3> QED
      BY <1>1, <2>2, <3>1, WaitingNotFinal, OtherNumbersStay
  <2> QED
    BY <2>1, <2>2, ResultSteps
<1>5. Final(g)'
  BY <1>3 DEF Final, Key, SportOf
<1> QED
  BY <1>3, <1>4, <1>5

(* No step of either goroutine, of a vendor or of a restart touches the    *)
(* result or the numbers of a FINAL game: the EventFetcher works from a    *)
(* list made earlier, but a game on it cannot become FINAL behind its back.*)
THEOREM ResultsAreFinal == Spec => ResultsStand
<1>1. RefdataInv /\ [Next]_vars =>
        [\A g \in Games :
           Final(g) =>
             /\ Final(g)' /\ games'[Key[g]].score = games[Key[g]].score
             /\ \A p \in Players : stats'[<<Key[g], Key[p]>>] = stats[<<Key[g], Key[p]>>]]_vars
  BY ResultStays
<1> QED
  BY <1>1, RefdataInvariant, PTL DEF Spec, ResultsStand

-----------------------------------------------------------------------------
(* Numbers *)

(* No two games and no two players share an external key.  The code does   *)
(* not see to it: api-sports numbers soccer and NFL independently, and     *)
(* both are stored under the same vendor name.                             *)
DistinctKeys ==
  /\ \A g, h \in Games : Key[g] = Key[h] => g = h
  /\ \A p, q \in Players : Key[p] = Key[q] => p = q

(* p is done with in g: passed over, or covered as one version reports. *)
Recorded(g, p) ==
  \/ <<g, p>> \in missed
  \/ \E v \in 1 .. result[g] :
       Ordinary(Box[g][v][p], Position[p]) => Covers(stats[<<Key[g], Key[p]>>], Box[g][v][p], Position[p])

(* p is still to come: in a request not made yet, or in a line not written. *)
ToCome(p) ==
  (\E i \in DOMAIN fetch.calls : p \in fetch.calls[i]) \/ (\E line \in fetch.sheet : line[1] = p)

FinalRecorded == \A g \in Games : Final(g) => \A p \in DOMAIN Box[g][1] : Recorded(g, p)

InHandRecorded ==
  fetch.game # Null => \A p \in DOMAIN Box[fetch.game][1] : Recorded(fetch.game, p) \/ ToCome(p)

StoredPlaced ==
  \A k \in DOMAIN players : players[k] # Null => \E p \in Players : Key[p] = k /\ Position[p] # ""

NumbersInv == FinalRecorded /\ InHandRecorded /\ StoredPlaced

LEMMA ResultsGrow ==
  ASSUME RefdataInv, [Next]_vars
  PROVE  Grows
<1>1. ASSUME result' = result PROVE Grows
  BY <1>1 DEF RefdataInv, VendorInv, Grows
<1>2. CASE Vendors
  BY <1>2, VendorStep
<1>3. CASE Populator
  BY <1>1, <1>3, PopulatorStep DEF PopulatorEffect, vendor
<1>4. CASE EventFetcher
  BY <1>1, <1>4, FetcherStep DEF FetcherEffect, vendor
<1>5. CASE Restart \/ UNCHANGED vars
  BY <1>1, <1>5 DEF Restart, vars, vendor
<1> QED
  BY <1>2, <1>3, <1>4, <1>5 DEF Next

LEMMA RecordedStays ==
  ASSUME NEW g \in Games, NEW p, Grows, Recorded(g, p),
         stats'[<<Key[g], Key[p]>>] = stats[<<Key[g], Key[p]>>], <<g, p>> \in missed => <<g, p>> \in missed'
  PROVE  Recorded(g, p)'
<1>1. CASE <<g, p>> \in missed
  BY <1>1 DEF Recorded
<1>2. ASSUME NEW v \in 1 .. result[g],
             Ordinary(Box[g][v][p], Position[p]) => Covers(stats[<<Key[g], Key[p]>>], Box[g][v][p], Position[p])
      PROVE  Recorded(g, p)'
  <2>1. v \in 1 .. result'[g]
    BY <1>2 DEF Grows
  <2>2. Ordinary(Box[g][v][p], Position[p]) => Covers(stats'[<<Key[g], Key[p]>>], Box[g][v][p], Position[p])
    BY <1>2
  <2>3. \E w \in 1 .. result'[g] :
          Ordinary(Box[g][w][p], Position[p]) => Covers(stats'[<<Key[g], Key[p]>>], Box[g][w][p], Position[p])
    BY <2>1, <2>2
  <2> QED
    BY <2>3 DEF Recorded, Key, SportOf
<1> QED
  BY <1>1, <1>2 DEF Recorded

(* A line once passed over is forgotten only when it is written. *)
LEMMA MissedStays ==
  ASSUME RefdataInv, [Next]_vars, NEW g, NEW p, <<g, p>> \in missed, <<g, p>> \notin missed'
  PROVE  \E line \in fetch.sheet : WriteLine(line[1], line[2]) /\ g = fetch.game /\ p = line[1]
<1>1. missed' # missed
  OBVIOUS
<1>2. ~ Vendors /\ ~ Populator /\ ~ Restart /\ ~ UNCHANGED vars
  BY <1>1, VendorStep, PopulatorStep DEF PopulatorEffect, Restart, vars
<1>3. EventFetcher
  BY <1>2 DEF Next
<1>4. ~ StatsFail
  BY DEF StatsFail
<1>5. PICK line \in fetch.sheet : WriteLine(line[1], line[2])
  BY <1>1, <1>3, <1>4 DEF EventFetcher, RunOnce, BatchStatus, BatchStatusFails, TakeMLBGame, fetchSoccerGameResult,
     fetchNFLGameResult, GameDetail, GameDetailFails, BoxScore, MLBBoxScoreFails, MarkGameFinal, MarkGameFinalFails
<1>6. missed \ Lines({line[1]}) \subseteq missed'
  BY <1>5 DEF WriteLine
<1>7. <<g, p>> \in Lines({line[1]})
  BY <1>6
<1> QED
  BY <1>5, <1>7 DEF Lines

LEMMA StoredPlacedStep ==
  ASSUME RefdataInv, StoredPlaced, [Next]_vars
  PROVE  StoredPlaced'
<1>1. ASSUME players' = players PROVE StoredPlaced'
  BY <1>1 DEF StoredPlaced, Key, SportOf
<1>2. ASSUME NEW r \in pop.rows, UpsertPlayer(r) PROVE StoredPlaced'
  <2>1. r.of \in Players
    BY <1>2 DEF UpsertPlayer
  <2>2. Position[r.of] # ""
    BY <2>1, RowKinds DEF RefdataInv, PlayerRows
  <2>3. players' = players \/ \E x : players' = [players EXCEPT ![Key[r.of]] = x]
    BY <1>2 DEF UpsertPlayer
  <2>4. ASSUME NEW k \in DOMAIN players', players'[k] # Null
        PROVE  \E p \in Players : Key[p] = k /\ Position[p] # ""
    <3>1. CASE k = Key[r.of]
      BY <2>1, <2>2, <3>1
    <3>2. CASE k # Key[r.of]
      <4>1. k \in DOMAIN players /\ players'[k] = players[k]
        BY <2>3, <2>4, <3>2
      <4> QED
        BY <2>4, <4>1 DEF StoredPlaced
    <3> QED
      BY <3>1, <3>2
  <2> QED
    BY <2>4 DEF StoredPlaced, Key, SportOf
<1>3. CASE Vendors
  BY <1>1, <1>3, VendorStep DEF tables
<1>4. CASE Populator
  BY <1>1, <1>2, <1>4 DEF Populator, Tick, GetTeams, Get, GetFails, UpsertGame, UpsertFails, tables
<1>5. CASE EventFetcher
  BY <1>1, <1>5, FetcherStep DEF FetcherEffect
<1>6. CASE Restart \/ UNCHANGED vars
  BY <1>1, <1>6 DEF Restart, vars, tables
<1> QED
  BY <1>3, <1>4, <1>5, <1>6 DEF Next

(* One line: its player is passed over, or his numbers are now recorded. *)
LEMMA LineRecorded ==
  ASSUME RefdataInv, DistinctKeys, StoredPlaced, NEW p, NEW v, WriteLine(p, v)
  PROVE  Recorded(fetch.game, p)'
<1> DEFINE g == fetch.game
           l == Box[g][v][p]
           writes == Writes(SportOf(g), l)
           old == stats[<<Key[g], Key[p]>>]
<1>1. <<p, v>> \in fetch.sheet /\ result' = result
  BY DEF WriteLine, vendor
<1>2. FetchInv /\ TablesInv /\ fetch \in FetchRecords
  BY DEF RefdataInv, FetchInv
<1>3. g # Null /\ g \in Games /\ p \in Players
  BY <1>1, <1>2 DEF FetchInv, FetchRecords
<1>4. p \in DOMAIN Box[g][1] /\ v \in 1 .. result[g] /\ v \in 1 .. MaxVersion
  BY <1>1, <1>2 DEF FetchInv, FetchRecords
<1>5. fetch'.game = g
  <2>1. fetch' = [fetch EXCEPT !.sheet = @ \ {<<p, v>>}]
    BY DEF WriteLine
  <2> QED
    BY <1>2, <2>1 DEF FetchRecords
<1>6. ASSUME players[Key[p]] # Null, <<g, p>> \notin missed'
      PROVE  Ordinary(l, Position[p]) => Covers(stats'[<<Key[g], Key[p]>>], l, Position[p])
  <2>1. PICK fail \in SUBSET DOMAIN writes :
          /\ missed' = IF fail = {} THEN missed \ Lines({p}) ELSE missed \union Lines({p})
          /\ stats' = [stats EXCEPT ![<<Key[g], Key[p]>>] =
                         UpsertPlayerStat(@, [prop \in DOMAIN writes \ fail |-> writes[prop]])]
    BY <1>6 DEF WriteLine, LookupPlayerByExternal
  <2>2. fail = {}
    BY <1>6, <2>1 DEF Lines
  <2>3. <<Key[g], Key[p]>> \in DOMAIN stats
    BY <1>2, <1>3, KeyType DEF TablesInv
  <2> HIDE DEF writes
  <2> DEFINE w == [prop \in DOMAIN writes |-> writes[prop]]
  <2>4. [prop \in DOMAIN writes \ fail |-> writes[prop]] = w
    BY <2>2
  <2>5. UpsertPlayerStat(old, w) = UpsertPlayerStat(old, writes)
    BY DEF UpsertPlayerStat
  <2>6. stats'[<<Key[g], Key[p]>>] = UpsertPlayerStat(old, writes)
    BY <2>1, <2>3, <2>4, <2>5
  <2>7. SportOf(p) = SportOf(g) /\ l \in LineOf(SportOf(g))
    <3>1. v \in DOMAIN Box[g] /\ SportOf(p) = SportOf(g)
      BY <1>3, <1>4, BoxAssumption
    <3>2. p \in DOMAIN Box[g][v]
      BY <1>3, <1>4, <3>1, BoxAssumption
    <3>3. l \in CASE SportOf(g) = "mlb"    -> mlbBoxscorePlayer
                  [] SportOf(g) = "soccer" -> apFixturePlayer
                  [] SportOf(g) = "nfl"    -> apNFLPlayer
      BY <1>3, <3>1, <3>2, BoxAssumption
    <3> QED
      BY <3>1, <3>3 DEF LineOf
  <2>8. Position[p] # ""
    <3>1. Key[p] \in DOMAIN players
      BY <1>2, <1>3, KeyType DEF TablesInv
    <3>2. PICK q \in Players : Key[q] = Key[p] /\ Position[q] # ""
      BY <1>6, <3>1 DEF StoredPlaced
    <3>3. q = p
      BY <1>3, <3>2 DEF DistinctKeys
    <3> QED
      BY <3>2, <3>3
  <2>9. SportOf(g) \in {"mlb", "soccer", "nfl"}
    BY <1>3, SportType
  <2>10. Position[p] \in PositionsOf(SportOf(g))
    BY <1>3, <2>7, <2>8, <2>9, PositionAssumption DEF PositionsOf
  <2> HIDE DEF l, old
  <2>11. Ordinary(l, Position[p]) => Covers(UpsertPlayerStat(old, writes), l, Position[p])
    BY <2>7, <2>9, <2>10, WritesCover DEF writes
  <2> QED
    BY <2>6, <2>11
<1>7. ASSUME players[Key[p]] = Null PROVE <<g, p>> \in missed'
  BY <1>7 DEF WriteLine, LookupPlayerByExternal, Lines
<1>8. CASE <<g, p>> \in missed'
  BY <1>5, <1>8 DEF Recorded
<1>9. CASE <<g, p>> \notin missed'
  <2>1. Ordinary(Box[g][v][p], Position[p]) => Covers(stats'[<<Key[g], Key[p]>>], Box[g][v][p], Position[p])
    BY <1>6, <1>7, <1>9
  <2>2. v \in 1 .. result'[g]
    BY <1>1, <1>4
  <2>3. \E w \in 1 .. result'[g] :
          Ordinary(Box[g][w][p], Position[p]) => Covers(stats'[<<Key[g], Key[p]>>], Box[g][w][p], Position[p])
    BY <2>1, <2>2
  <2> QED
    BY <1>5, <2>3 DEF Recorded, Key, SportOf
<1> QED
  BY <1>8, <1>9

(* What is not the line being written stays recorded. *)
LEMMA OthersStayRecorded ==
  ASSUME RefdataInv, DistinctKeys, [Next]_vars, NEW g \in Games, NEW p \in Players, Recorded(g, p),
         \A line \in fetch.sheet : WriteLine(line[1], line[2]) => <<g, p>> # <<fetch.game, line[1]>>
  PROVE  Recorded(g, p)'
<1>1. Grows
  BY ResultsGrow
<1>2. <<g, p>> \in missed => <<g, p>> \in missed'
  BY MissedStays
<1>3. stats'[<<Key[g], Key[p]>>] = stats[<<Key[g], Key[p]>>]
  <2>1. CASE stats' = stats
    BY <2>1
  <2>2. ASSUME NEW line \in fetch.sheet, WriteLine(line[1], line[2])
        PROVE  stats'[<<Key[g], Key[p]>>] = stats[<<Key[g], Key[p]>>]
    <3>1. fetch.game \in Games /\ line[1] \in Players
      BY <2>2, NamesAssumption DEF RefdataInv, FetchInv, FetchRecords
    <3>2. g # fetch.game \/ p # line[1]
      BY <2>2
    <3>3. Key[g] # Key[fetch.game] \/ Key[p] # Key[line[1]]
      BY <3>1, <3>2 DEF DistinctKeys
    <3> QED
      BY <2>2, <3>3, OtherNumbersStay DEF RefdataInv
  <2> QED
    BY <2>1, <2>2, ResultSteps
<1> QED
  BY <1>1, <1>2, <1>3, RecordedStays

LEMMA FinalRecordedStep ==
  ASSUME RefdataInv, DistinctKeys, NumbersInv, [Next]_vars
  PROVE  FinalRecorded'
<1> SUFFICES ASSUME NEW g \in Games, Final(g)', NEW p \in DOMAIN Box[g][1]
             PROVE  Recorded(g, p)'
  BY DEF FinalRecorded
<1>1. p \in Players
  BY BoxAssumption
<1>2. CASE Final(g)
  <2>1. Recorded(g, p)
    BY <1>2 DEF NumbersInv, FinalRecorded
  <2>2. ASSUME NEW line \in fetch.sheet, WriteLine(line[1], line[2])
        PROVE  <<g, p>> # <<fetch.game, line[1]>>
    <3>1. fetch.game # Null
      BY <2>2 DEF RefdataInv, FetchInv
    <3> QED
      BY <1>2, <3>1, WaitingNotFinal DEF RefdataInv
  <2> QED
    BY <1>1, <2>1, <2>2, OthersStayRecorded
<1>3. CASE ~ Final(g)
  <2>1. Key[g] \in DOMAIN games
    BY KeyType DEF RefdataInv, TablesInv
  <2>2. games'[Key[g]] # Null /\ games'[Key[g]].final
    BY DEF Final, Key, SportOf
  <2>3. games'[Key[g]] # games[Key[g]]
    BY <1>3, <2>2 DEF Final
  <2>4. MarkGameFinal
    <3>1. ASSUME KeepsResults(games, games') PROVE FALSE
      BY <1>3, <2>1, <2>2, <3>1 DEF KeepsResults, Final
    <3> QED
      BY <3>1, ResultSteps
  <2>5. Key[g] = Key[fetch.game] /\ fetch.game \in Games
    BY <2>1, <2>3, <2>4, MarkGameFinalType DEF RefdataInv
  <2>6. g = fetch.game
    BY <2>5 DEF DistinctKeys
  <2>7. fetch.game # Null /\ fetch.calls = << >> /\ fetch.sheet = {}
    BY <2>4 DEF MarkGameFinal
  <2>8. Recorded(g, p) \/ ToCome(p)
    BY <2>6, <2>7 DEF NumbersInv, InHandRecorded
  <2>9. ~ ToCome(p)
    BY <2>7 DEF ToCome
  <2> QED
    BY <1>1, <2>7, <2>8, <2>9, OthersStayRecorded
<1> QED
  BY <1>2, <1>3

(* Every player of a box score is in one of the requests for it. *)
LEMMA BoxRequestsCover ==
  ASSUME NEW g, NEW p \in DOMAIN Box[g][1]
  PROVE  \E i \in DOMAIN BoxRequests(g) : p \in BoxRequests(g)[i]
<1> DEFINE listed == DOMAIN Box[g][1]
           home   == {q \in listed : FirstTeam[q] = Home[g]}
<1>1. BoxRequests(g) = IF SportOf(g) = "soccer" THEN <<home, listed \ home>> ELSE <<listed>>
  BY DEF BoxRequests
<1>2. p \in listed
  OBVIOUS
<1> HIDE DEF home, listed
<1>3. CASE SportOf(g) = "soccer" /\ p \in home
  <2>1. BoxRequests(g) = <<home, listed \ home>>
    BY <1>1, <1>3
  <2>2. 1 \in DOMAIN BoxRequests(g) /\ BoxRequests(g)[1] = home
    BY <2>1
  <2> QED
    BY <1>3, <2>2
<1>4. CASE SportOf(g) = "soccer" /\ p \notin home
  <2>1. BoxRequests(g) = <<home, listed \ home>>
    BY <1>1, <1>4
  <2>2. 2 \in DOMAIN BoxRequests(g) /\ BoxRequests(g)[2] = listed \ home
    BY <2>1
  <2> QED
    BY <1>2, <1>4, <2>2
<1>5. CASE SportOf(g) # "soccer"
  <2>1. BoxRequests(g) = <<listed>>
    BY <1>1, <1>5
  <2>2. 1 \in DOMAIN BoxRequests(g) /\ BoxRequests(g)[1] = listed
    BY <2>1
  <2> QED
    BY <1>2, <2>2
<1> QED
  BY <1>3, <1>4, <1>5

LEMMA HeadOrTail ==
  ASSUME NEW S, NEW q \in Seq(S), q # << >>, NEW i \in DOMAIN q
  PROVE  q[i] = Head(q) \/ \E j \in DOMAIN Tail(q) : q[i] = Tail(q)[j]
<1>1. DOMAIN q = 1 .. Len(q) /\ DOMAIN Tail(q) = 1 .. Len(q) - 1
  OBVIOUS
<1>2. CASE i = 1
  BY <1>2
<1>3. CASE i # 1
  <2>1. i - 1 \in DOMAIN Tail(q) /\ Tail(q)[i - 1] = q[i]
    BY <1>1, <1>3
  <2> QED
    BY <2>1
<1> QED
  BY <1>2, <1>3

(* The game in hand is left. *)
LEMMA LeaveForgets ==
  ASSUME FetchInv, NEW queue, fetch' = Leave(queue)
  PROVE  fetch'.game = Null
<1>1. fetch \in FetchRecords
  BY DEF FetchInv
<1> QED
  BY <1>1 DEF Leave, Resting, FetchRecords

(* Nothing is written, and the game in hand stays. *)
LEMMA InHandSame ==
  ASSUME FetchInv, InHandRecorded, Grows, stats' = stats, missed \subseteq missed', fetch'.game = fetch.game,
         \A p : ToCome(p) => ToCome(p)' \/ (fetch.game # Null /\ <<fetch.game, p>> \in missed')
  PROVE  InHandRecorded'
<1> SUFFICES ASSUME fetch.game # Null, NEW p \in DOMAIN Box[fetch.game][1]
             PROVE  Recorded(fetch.game, p)' \/ ToCome(p)'
  BY DEF InHandRecorded
<1>1. fetch.game \in Games
  BY DEF FetchInv, FetchRecords
<1>2. Recorded(fetch.game, p) \/ ToCome(p)
  BY DEF InHandRecorded
<1>3. ASSUME Recorded(fetch.game, p) PROVE Recorded(fetch.game, p)'
  <2> DEFINE g == fetch.game
  <2>1. g' = g
    OBVIOUS
  <2>2. PICK h \in Games : h = fetch.game
    BY <1>1
  <2>3. Recorded(h, p)'
    BY <1>3, <2>2, RecordedStays
  <2> QED
    BY <2>2, <2>3 DEF Recorded
<1>4. ASSUME <<fetch.game, p>> \in missed' PROVE Recorded(fetch.game, p)'
  BY <1>4 DEF Recorded
<1> QED
  BY <1>2, <1>3, <1>4

LEMMA InHandTaken ==
  ASSUME fetch'.calls = BoxRequests(fetch'.game)
  PROVE  InHandRecorded'
<1> SUFFICES ASSUME NEW p \in DOMAIN Box[fetch'.game][1]
             PROVE  ToCome(p)'
  BY DEF InHandRecorded
<1>1. PICK i \in DOMAIN BoxRequests(fetch'.game) : p \in BoxRequests(fetch'.game)[i]
  BY BoxRequestsCover
<1> QED
  BY <1>1 DEF ToCome

LEMMA InHandWritten ==
  ASSUME RefdataInv, DistinctKeys, NumbersInv, Grows, NEW line \in fetch.sheet, WriteLine(line[1], line[2])
  PROVE  InHandRecorded'
<1>1. FetchInv /\ TablesInv /\ fetch \in FetchRecords
  BY DEF RefdataInv, FetchInv
<1>2. line \in Players \X (1 .. MaxVersion) /\ line = <<line[1], line[2]>>
  BY <1>1 DEF FetchRecords
<1>3. fetch' = [fetch EXCEPT !.sheet = @ \ {line}]
  BY <1>2 DEF WriteLine
<1>4. fetch'.game = fetch.game /\ fetch'.calls = fetch.calls /\ fetch'.sheet = fetch.sheet \ {line}
  BY <1>1, <1>3 DEF FetchRecords
<1>5. fetch.game # Null /\ fetch.game \in Games
  BY <1>1 DEF FetchInv, FetchRecords
<1>6. PICK g \in Games : g = fetch.game
  BY <1>5
<1> SUFFICES ASSUME NEW p \in DOMAIN Box[g][1]
             PROVE  Recorded(fetch.game, p)' \/ ToCome(p)'
  BY <1>4, <1>6 DEF InHandRecorded
<1>7. CASE p = line[1]
  BY <1>7, LineRecorded DEF NumbersInv
<1>8. CASE p # line[1]
  <2>1. p \in Players
    BY BoxAssumption
  <2>2. ASSUME Recorded(g, p) PROVE Recorded(fetch.game, p)'
    <3>1. Key[p] # Key[line[1]]
      BY <1>2, <1>8, <2>1 DEF DistinctKeys
    <3>2. stats'[<<Key[g], Key[p]>>] = stats[<<Key[g], Key[p]>>]
      BY <1>1, <2>1, <3>1, OtherNumbersStay
    <3>3. missed \ Lines({line[1]}) \subseteq missed'
      BY DEF WriteLine
    <3>4. <<g, p>> \notin Lines({line[1]})
      BY <1>8 DEF Lines
    <3>5. Recorded(g, p)'
      BY <2>2, <3>2, <3>3, <3>4, RecordedStays
    <3> QED
      BY <1>4, <1>6, <3>5 DEF Recorded
  <2>3. ASSUME ToCome(p) PROVE ToCome(p)'
    BY <1>4, <1>8, <2>3 DEF ToCome
  <2> QED
    BY <1>5, <1>6, <2>2, <2>3 DEF NumbersInv, InHandRecorded
<1> QED
  BY <1>7, <1>8

LEMMA InHandStep ==
  ASSUME RefdataInv, DistinctKeys, NumbersInv, [Next]_vars
  PROVE  InHandRecorded'
<1>1. FetchInv /\ InHandRecorded /\ Grows /\ fetch \in FetchRecords
  BY ResultsGrow DEF RefdataInv, NumbersInv, FetchInv
<1>2. ASSUME fetch'.game = Null PROVE InHandRecorded'
  BY <1>2 DEF InHandRecorded
<1>3. ASSUME fetch' = fetch, stats' = stats, missed' = missed PROVE InHandRecorded'
  <2>1. \A p : ToCome(p) => ToCome(p)'
    BY <1>3 DEF ToCome
  <2> QED
    BY <1>1, <1>3, <2>1, InHandSame
<1>4. CASE Vendors
  BY <1>3, <1>4, VendorStep DEF tables
<1>5. CASE Populator
  BY <1>3, <1>5, PopulatorStep DEF PopulatorEffect
<1>6. CASE Restart
  BY <1>2, <1>6 DEF Restart, Resting
<1>7. CASE UNCHANGED vars
  BY <1>3, <1>7 DEF vars, tables
<1>8. CASE RunOnce
  <2>1. fetch = Resting /\ fetch.game = Null
    BY <1>8 DEF RunOnce, Resting
  <2>2. fetch'.game = Null
    BY <1>1, <1>8, <2>1 DEF RunOnce, FetchRecords
  <2> QED
    BY <1>2, <2>2
<1>9. CASE BatchStatus
  <2>1. fetch.game = Null
    BY <1>1, <1>9 DEF BatchStatus, FetchInv
  <2>2. fetch'.game = Null
    BY <1>1, <1>9, <2>1 DEF BatchStatus, FetchRecords, Resting
  <2> QED
    BY <1>2, <2>2
<1>10. CASE BatchStatusFails \/ MLBBoxScoreFails \/ MarkGameFinalFails \/ MarkGameFinal
  <2>1. \E queue : fetch' = Leave(queue)
    BY <1>10 DEF BatchStatusFails, MLBBoxScoreFails, MarkGameFinalFails, MarkGameFinal
  <2> QED
    BY <1>1, <1>2, <2>1, LeaveForgets
<1>11. ASSUME NEW g \in fetch.queue, TakeMLBGame(g) PROVE InHandRecorded'
  <2>1. fetch'.game = g /\ fetch'.calls = BoxRequests(g)
    BY <1>1, <1>11 DEF TakeMLBGame, FetchRecords
  <2> QED
    BY <2>1, InHandTaken
<1>12. ASSUME NEW g \in fetch.queue, GameDetail(g) PROVE InHandRecorded'
  <2>1. CASE result[g] = 0
    <3>1. fetch' = Leave(fetch.queue \ {g})
      BY <1>12, <2>1 DEF GameDetail
    <3> QED
      BY <1>1, <1>2, <3>1, LeaveForgets
  <2>2. CASE result[g] # 0
    <3>1. fetch'.game = g /\ fetch'.calls = BoxRequests(g)
      BY <1>1, <1>12, <2>2 DEF GameDetail, FetchRecords
    <3> QED
      BY <3>1, InHandTaken
  <2> QED
    BY <2>1, <2>2
<1>13. ASSUME NEW g \in fetch.queue, GameDetailFails(g) PROVE InHandRecorded'
  <2>1. fetch' = Leave(fetch.queue \ {g})
    BY <1>13 DEF GameDetailFails
  <2> QED
    BY <1>1, <1>2, <2>1, LeaveForgets
<1>14. fetch.calls \in Seq(SUBSET Players)
  BY <1>1 DEF FetchRecords
<1>15. CASE BoxScore
  <2> DEFINE sheet == {<<p, result[fetch.game]>> : p \in Head(fetch.calls)}
  <2>1. /\ fetch.calls # << >> /\ fetch.sheet = {} /\ stats' = stats /\ missed' = missed
        /\ fetch' = [fetch EXCEPT !.calls = Tail(@), !.sheet = sheet]
    BY <1>15 DEF BoxScore, tables
  <2>2. \A p \in Head(fetch.calls) : \E line \in sheet : line[1] = p
    <3> SUFFICES ASSUME NEW p \in Head(fetch.calls) PROVE \E line \in sheet : line[1] = p
      OBVIOUS
    <3>1. <<p, result[fetch.game]>> \in sheet /\ <<p, result[fetch.game]>>[1] = p
      OBVIOUS
    <3> QED
      BY <3>1
  <2> HIDE DEF sheet
  <2>3. fetch'.game = fetch.game /\ fetch'.calls = Tail(fetch.calls) /\ fetch'.sheet = sheet
    BY <1>1, <2>1 DEF FetchRecords
  <2>4. ASSUME NEW p, ToCome(p) PROVE ToCome(p)'
    <3>1. PICK i \in DOMAIN fetch.calls : p \in fetch.calls[i]
      BY <2>1, <2>4 DEF ToCome
    <3>2. p \in Head(fetch.calls) \/ \E j \in DOMAIN Tail(fetch.calls) : p \in Tail(fetch.calls)[j]
      BY <1>14, <2>1, <3>1, HeadOrTail
    <3> QED
      BY <2>2, <2>3, <3>2 DEF ToCome
  <2> QED
    BY <1>1, <2>1, <2>3, <2>4, InHandSame
<1>16. CASE StatsFail
  <2>1. stats' = stats /\ fetch.game # Null /\ missed \subseteq missed'
    BY <1>16 DEF StatsFail, tables
  <2>2. CASE /\ fetch.calls # << >> /\ fetch.sheet = {} /\ fetch' = [fetch EXCEPT !.calls = Tail(@)]
             /\ missed' = missed \union Lines(Head(fetch.calls))
    <3>1. fetch'.game = fetch.game /\ fetch'.calls = Tail(fetch.calls)
      BY <1>1, <2>2 DEF FetchRecords
    <3>2. ASSUME NEW p, ToCome(p) PROVE ToCome(p)' \/ <<fetch.game, p>> \in missed'
      <4>1. PICK i \in DOMAIN fetch.calls : p \in fetch.calls[i]
        BY <2>2, <3>2 DEF ToCome
      <4>2. p \in Head(fetch.calls) \/ \E j \in DOMAIN Tail(fetch.calls) : p \in Tail(fetch.calls)[j]
        BY <1>14, <2>2, <4>1, HeadOrTail
      <4>3. p \in Head(fetch.calls) => <<fetch.game, p>> \in missed'
        BY <2>2 DEF Lines
      <4> QED
        BY <3>1, <4>2, <4>3 DEF ToCome
    <3> QED
      BY <1>1, <2>1, <3>1, <3>2, InHandSame
  <2>3. CASE /\ fetch' = [fetch EXCEPT !.sheet = {}]
             /\ missed' = missed \union Lines({line[1] : line \in fetch.sheet})
    <3>1. fetch'.game = fetch.game /\ fetch'.calls = fetch.calls
      BY <1>1, <2>3 DEF FetchRecords
    <3>2. ASSUME NEW p, ToCome(p) PROVE ToCome(p)' \/ <<fetch.game, p>> \in missed'
      <4>1. (\E line \in fetch.sheet : line[1] = p) => <<fetch.game, p>> \in missed'
        BY <2>3 DEF Lines
      <4> QED
        BY <3>1, <3>2, <4>1 DEF ToCome
    <3> QED
      BY <1>1, <2>1, <3>1, <3>2, InHandSame
  <2> QED
    BY <1>16, <2>2, <2>3 DEF StatsFail
<1>17. ASSUME NEW line \in fetch.sheet, WriteLine(line[1], line[2]) PROVE InHandRecorded'
  BY <1>1, <1>17, InHandWritten
<1> QED
  BY <1>4, <1>5, <1>6, <1>7, <1>8, <1>9, <1>10, <1>11, <1>12, <1>13, <1>15, <1>16, <1>17
     DEF Next, EventFetcher, fetchSoccerGameResult, fetchNFLGameResult

(* When a game becomes FINAL, the numbers of every player in its box score *)
(* are recorded or his line was passed over, and stay so: for any box      *)
(* scores, corrections and failures, if no two games and no two players    *)
(* share an external key.  The invariant follows every player of the game  *)
(* in hand from the requests to the sheet to the stats.                    *)
THEOREM FinalGamesHaveNumbers ==
  ASSUME DistinctKeys
  PROVE  Spec => []FinalHasNumbers
<1>1. Init => NumbersInv
  <2> SUFFICES ASSUME Init PROVE NumbersInv
    OBVIOUS
  <2>1. \A g \in Games : ~ Final(g)
    BY KeyType DEF Init, Final
  <2>2. fetch.game = Null
    BY DEF Init, Resting
  <2>3. StoredPlaced
    BY DEF Init, StoredPlaced
  <2> QED
    BY <2>1, <2>2, <2>3 DEF NumbersInv, FinalRecorded, InHandRecorded
<1>2. RefdataInv /\ NumbersInv /\ [Next]_vars => NumbersInv'
  BY FinalRecordedStep, InHandStep, StoredPlacedStep DEF NumbersInv
<1>3. NumbersInv => FinalHasNumbers
  BY DEF NumbersInv, FinalRecorded, Recorded, FinalHasNumbers
<1> QED
  BY <1>1, <1>2, <1>3, RefdataInvariant, PTL DEF Spec

=============================================================================
