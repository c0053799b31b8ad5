----------------------------- MODULE MCRegistry -----------------------------
(* Registry for TLC: a baseball game, a soccer game announced later, and a *)
(* player who may change teams; requests of every kind.                    *)
EXTENDS Registry

MCFixtures ==
  "mlb" :> [league |-> "MLB", home |-> "LAD", away |-> "NYY", announced |-> TRUE] @@
  "epl" :> [league |-> "EPL", home |-> "ARS", away |-> "MCI", announced |-> FALSE]
MCSquad == "judge" :> [positions |-> {"BATTER"}, teams |-> {"NYY", "BOS"}]
MCPropRules == <<"MLB", "BATTER">> :> {"HITS"} @@ <<"EPL", "FORWARD">> :> {"GOALS"}

Outcome(g, o) == [predicate |-> "outcome", game |-> g, outcome |-> o]
Hits(cmp, t) == Prop("mlb", "judge", "HITS", cmp, t)

ValidRequests == <<
  <<Outcome("mlb", "WIN"), Hits("GT", 0)>>,
  <<Hits("GT", 0), Outcome("mlb", "WIN")>>,
  <<Outcome("mlb", "WIN")>>,
  <<Outcome("mlb", "WIN"), Outcome("epl", "DRAW")>>>>

InvalidRequests == <<
  <<>>,
  <<Outcome(Unset, "WIN")>>,
  <<Outcome("mlb", Unset)>>,
  <<Outcome("mlb", "DRAW")>>,
  <<Outcome("cup", "WIN")>>,
  <<Outcome("mlb", "WIN"), Outcome("mlb", "WIN")>>,
  <<Outcome("mlb", "WIN"), Outcome("mlb", "LOSS")>>,
  <<Hits("LT", 0)>>,
  <<Hits("GT", 1), Hits("LTE", 1)>>,
  <<Prop("mlb", "judge", "GOALS", "GT", 0)>>,
  <<Prop("epl", "judge", "HITS", "GT", 0)>>,
  <<Prop("mlb", "ruth", "HITS", "GT", 0)>>>>

AllRequests == ValidRequests \o InvalidRequests
MCRequests == Range(AllRequests)

(* Nothing, or one instrument, from before the game was given its expiry. *)
MCStored ==
  LET legs == <<Outcome("mlb", "WIN")>>
      ref == [games |-> "mlb" :> 2, team |-> "judge" :> "BOS"]
  IN  {<<>>, HashLegs(legs) :> [expiry |-> 2, created |-> 0,
                                legs |-> CollectLegs(legs, ref)]}

MCFilters == {
  [entity |-> Unset, league |-> Unset, active |-> FALSE],
  [entity |-> "mlb", league |-> "MLB", active |-> TRUE]}

(* The hashes of the ids in some order. *)
MCHashRank(id) == Min({i \in DOMAIN AllRequests : HashLegs(AllRequests[i]) = id})

CallSymmetry == Permutations(Calls)
=============================================================================
