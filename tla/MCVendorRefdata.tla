-------------------------- MODULE MCVendorRefdata --------------------------
(***************************************************************************)
(* vendor_refdata with one league of every sport.  An MLB player and game  *)
(* have the external id of a soccer player and game.  NFL and soccer, who  *)
(* share a vendor, have different ids here: nothing in the code sees to    *)
(* that, and OverGetsFinal and CatchesUp depend on it.                     *)
(***************************************************************************)
EXTENDS VendorRefdata

MCSeasons ==
  {[leagues |-> <<"MLB">>, games |-> {"m1", "m2"}, players |-> {"judge"}],
   [leagues |-> <<"MLB", "EPL">>, games |-> {"e1"}, players |-> {"judge", "saka", "saka2"}],
   [leagues |-> <<"EPL", "NFL">>, games |-> {"e1", "n1"}, players |-> {"saka", "kelce"}]}
MCSport == "MLB" :> "mlb" @@ "EPL" :> "soccer" @@ "NFL" :> "nfl"
MCTeams == {"NYY", "BOS", "ARS", "CHE", "KC", "BUF"}
MCPlayers == {"judge", "saka", "saka2", "kelce"}
MCGames == {"m1", "m2", "e1", "n1"}

MCLeagueOf ==
  [x \in {"NYY", "BOS", "judge", "m1", "m2"} |-> "MLB"] @@ [x \in {"ARS", "CHE", "saka", "saka2", "e1"} |-> "EPL"]
  @@ [x \in {"KC", "BUF", "kelce", "n1"} |-> "NFL"]

MCExternalID ==
  [x \in {"NYY", "ARS", "judge", "saka", "m1", "e1"} |-> 1]
  @@ [x \in {"BOS", "CHE", "kelce", "m2", "n1"} |-> 2] @@ "KC" :> 3 @@ "BUF" :> 4 @@ "saka2" :> 3

MCCode == [t \in MCTeams |-> t]
MCHome == "m1" :> "NYY" @@ "m2" :> "NYY" @@ "e1" :> "ARS" @@ "n1" :> "KC"
MCAway == "m1" :> "BOS" @@ "m2" :> "BOS" @@ "e1" :> "CHE" @@ "n1" :> "BUF"
MCFirstDay == "n1" :> 0 @@ [g \in MCGames |-> 1]
MCFirstTeam == "judge" :> "NYY" @@ "saka" :> "ARS" @@ "saka2" :> "ARS" @@ "kelce" :> "KC"
MCPosition == "judge" :> "BATTER" @@ "saka" :> "OUTFIELD" @@ "saka2" :> "KEEPER" @@ "kelce" :> "RB"
MCLastName == "saka2" :> "saka" @@ [p \in MCPlayers |-> p]
MCWeek == [g \in MCGames |-> 1]
MCPage == "saka2" :> 2 @@ [p \in MCPlayers |-> 1]

Bat(hits) == [batting  |-> [homeRuns |-> 0, hits |-> hits, rbi |-> 0, baseOnBalls |-> 1],
              pitching |-> [strikeOuts |-> 0, earnedRuns |-> 0, baseOnBalls |-> 0]]
Shot(goals) == [goals |-> goals, assists |-> Null, saves |-> Null, yellow |-> 1]
Run(yards) == [passing |-> Null, rushing |-> [yards |-> yards, tds |-> 1], receiving |-> [yards |-> Null, tds |-> 1]]

MCBox ==
  [g \in {"m1", "m2"} |-> [v \in 1..2 |-> "judge" :> Bat(v - 1)]]
  @@ "e1" :> [v \in 1..2 |-> "saka" :> Shot(v)]
  @@ "n1" :> [v \in 1..2 |-> "kelce" :> Run(v)]
=============================================================================
