----------------------------- MODULE BoxScores -----------------------------
(***************************************************************************)
(* The numbers vendor_refdata writes for one player of a game that is      *)
(* over, from the lines the vendors report, and what the product rules say *)
(* should be known about a player of a position.                           *)
(*                                                                         *)
(* A line holds Null where the vendor's field is absent, null or, for NFL, *)
(* a text that is not a number; an NFL line has a group only if the player *)
(* is listed in it.  What is written is a function from prop types.        *)
(***************************************************************************)
EXTENDS Integers

CONSTANT Null

Positive(group) == \E field \in DOMAIN group : group[field] > 0

(* A line of the MLB box score: absent fields are already 0. *)
mlbBoxscorePlayer ==
  [batting  : [homeRuns : Nat, hits : Nat, rbi : Nat, baseOnBalls : Nat],
   pitching : [strikeOuts : Nat, earnedRuns : Nat, baseOnBalls : Nat]]

(* What is recorded after some writes: ON CONFLICT (game_id, player_id,     *)
(* prop_type) the value is replaced.                                       *)
UpsertPlayerStat(recorded, writes) ==
  [prop \in DOMAIN recorded \union DOMAIN writes |->
     IF prop \in DOMAIN writes THEN writes[prop] ELSE recorded[prop]]

(* Pitching is written after batting, and its walks replace the batter's. *)
MLBWrites(l) ==
  LET batting  == [HOMERUNS |-> l.batting.homeRuns, HITS |-> l.batting.hits,
                   RBIS |-> l.batting.rbi, WALKS |-> l.batting.baseOnBalls]
      pitching == [STRIKEOUTS |-> l.pitching.strikeOuts, EARNED_RUNS |-> l.pitching.earnedRuns,
                   WALKS |-> l.pitching.baseOnBalls]
  IN  UpsertPlayerStat(IF Positive(l.batting) THEN batting ELSE << >>,
                       IF Positive(l.pitching) THEN pitching ELSE << >>)

apFixturePlayer ==
  LET number == Nat \union {Null} IN [goals : number, assists : number, saves : number, yellow : number]

coerceNil(v) == IF v = Null THEN 0 ELSE v

SoccerWrites(l) ==
  [GOALS |-> coerceNil(l.goals), ASSISTS |-> coerceNil(l.assists),
   SAVES |-> coerceNil(l.saves), YELLOW_CARDS |-> coerceNil(l.yellow)]

apNFLPlayer ==
  LET number == Int \union {Null}
  IN  [passing   : [yards : number, tds : number, interceptions : number] \union {Null},
       rushing   : [yards : number, tds : number] \union {Null},
       receiving : [yards : number, tds : number] \union {Null}]

(* A field of a group; 0 if the player is not in the group or it is not a number. *)
statInt(group, field) ==
  IF group = Null \/ group[field] = Null THEN 0 ELSE group[field]

(* Mutant: only the touchdowns of one group count. *)
NFLWritesOneGroup(l) ==
  [TOUCHDOWNS |-> IF l.rushing # Null THEN statInt(l.rushing, "tds") ELSE statInt(l.receiving, "tds"),
   RUSHING_YARDS |-> statInt(l.rushing, "yards"), RECEIVING_YARDS |-> statInt(l.receiving, "yards")]

(* Whoever is listed under Passing is taken for a quarterback. *)
NFLWrites(l) ==
  LET isQB      == l.passing # Null
      rushing   == statInt(l.rushing, "yards")
      receiving == statInt(l.receiving, "yards")
      thrown    == IF isQB
                   THEN [PASSING_YARDS |-> statInt(l.passing, "yards"), TOUCHDOWNS |-> statInt(l.passing, "tds"),
                         INTERCEPTIONS |-> statInt(l.passing, "interceptions")]
                   ELSE [TOUCHDOWNS |-> statInt(l.rushing, "tds") + statInt(l.receiving, "tds")]
  IN  UpsertPlayerStat(
        UpsertPlayerStat(thrown, IF rushing > 0 THEN [RUSHING_YARDS |-> rushing] ELSE << >>),
        IF receiving > 0 THEN [RECEIVING_YARDS |-> receiving] ELSE << >>)

-----------------------------------------------------------------------------
(* registry/internal/proprules.go: the props offered on a player, by position; *)
(* none on a defender.                                                         *)
defaultPropRules ==
  [BATTER   |-> {"HOMERUNS", "HITS", "RBIS", "WALKS"},
   PITCHER  |-> {"STRIKEOUTS", "EARNED_RUNS", "WALKS"},
   OUTFIELD |-> {"GOALS", "ASSISTS", "YELLOW_CARDS"},
   KEEPER   |-> {"GOALS", "ASSISTS", "SAVES", "YELLOW_CARDS"},
   QB       |-> {"PASSING_YARDS", "TOUCHDOWNS", "INTERCEPTIONS"},
   RB       |-> {"RUSHING_YARDS", "TOUCHDOWNS", "RECEIVING_YARDS"},
   WR       |-> {"RECEIVING_YARDS", "TOUCHDOWNS"},
   DEFENSE  |-> {}]

(* What a player did, read from his line field by field: the number each   *)
(* prop of his position is about.  A quarterback's touchdowns are passes.   *)
Achieved(l, position) ==
  CASE position = "BATTER" ->
         [HOMERUNS |-> l.batting.homeRuns, HITS |-> l.batting.hits,
          RBIS |-> l.batting.rbi, WALKS |-> l.batting.baseOnBalls]
    [] position = "PITCHER" ->
         [STRIKEOUTS |-> l.pitching.strikeOuts, EARNED_RUNS |-> l.pitching.earnedRuns,
          WALKS |-> l.pitching.baseOnBalls]
    [] position \in {"OUTFIELD", "KEEPER"} ->
         [GOALS |-> l.goals, ASSISTS |-> l.assists, SAVES |-> l.saves, YELLOW_CARDS |-> l.yellow]
    [] position = "QB" ->
         [PASSING_YARDS |-> statInt(l.passing, "yards"), TOUCHDOWNS |-> statInt(l.passing, "tds"),
          INTERCEPTIONS |-> statInt(l.passing, "interceptions")]
    [] position \in {"RB", "WR"} ->
         [RUSHING_YARDS |-> statInt(l.rushing, "yards"), RECEIVING_YARDS |-> statInt(l.receiving, "yards"),
          TOUCHDOWNS |-> statInt(l.rushing, "tds") + statInt(l.receiving, "tds")]

(* A player who did only what his position does: not a batter who pitched, *)
(* nor a runner who threw a pass.                                          *)
Ordinary(l, position) ==
  CASE position = "BATTER" -> ~Positive(l.pitching)
    [] position \in {"RB", "WR"} -> l.passing = Null
    [] position = "QB" -> l.passing # Null
    [] OTHER -> TRUE

(* The props of the position with a positive number are all in what was    *)
(* recorded, with that number.                                             *)
Covers(recorded, l, position) ==
  \A prop \in defaultPropRules[position] :
    LET number == Achieved(l, position)[prop]
    IN  number # Null /\ number > 0 => prop \in DOMAIN recorded /\ recorded[prop] = number
=============================================================================
