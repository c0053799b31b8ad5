------------------------------ MODULE Registry ------------------------------
(***************************************************************************)
(* registry/internal: instruments are created from legs, validated against *)
(* a cached snapshot of the reference data, stored under the hash of their *)
(* legs and listed page by page.  The reference data is written by         *)
(* vendor_refdata into the same database.                                  *)
(*                                                                         *)
(* SHA-256 over the serialised legs is taken to be injective: the hash of  *)
(* a leg is the leg, and the sorted, combined hash of legs without         *)
(* duplicates is the set of them.  HashRank orders these ids as their      *)
(* hexadecimal strings are ordered.                                        *)
(***************************************************************************)
EXTENDS Integers, Sequences, FiniteSets, SequencesExt

CONSTANTS
  Calls,         \* the CreateInstrument requests
  Requests,      \* the sequences of legs they may carry
  Stored,        \* what earlier requests may have left in the table of instruments
  Filters,       \* what a client may list
  Fixtures,      \* [game -> [league, home, away, announced]]
  Squad,         \* [player -> [positions, teams]]: the teams he may play for
  PropRules,     \* [<<league, position>> -> set of prop types]
  SoccerLeagues,
  Expiries,      \* expiry times a game may be given
  HashRank(_),
  PageSize,
  MaxTime,       \* bound on the clock
  MaxChanges,    \* bound on changes of the reference data
  MaxThreshold,  \* bound on the thresholds of RefusalsJustified
  Unset          \* the zero value: a name, an enumeration, a filter or a token left out

ASSUME ExpiriesAssumption == Expiries \subseteq Nat \ {0}
ASSUME PageAssumption == PageSize \in Nat \ {0}
ASSUME BoundsAssumption == {MaxTime, MaxChanges, MaxThreshold} \subseteq Nat
ASSUME RequestsAssumption == \A legs \in Requests : legs \in Seq(Range(legs))

Games == DOMAIN Fixtures
Players == DOMAIN Squad

(* An id of a team is not one of a game or a player; the zero value is none  *)
(* of the names used.                                                        *)
ASSUME SquadAssumption ==
  \A p \in Players : Squad[p].teams # {} /\ Squad[p].teams \cap (Games \cup Players) = {}
ASSUME UnsetAssumption ==
  /\ Unset \notin Games \cup Players \cup UNION Range(PropRules)
  /\ Unset \notin {"prop", "GT", "GTE", "LT", "LTE", "EQ", "new", "existed"}

VARIABLES
  games,        \* database: the expiry of every game of the table
  team,         \* database: the team of every player
  changes,      \* changes of the reference data so far
  cache,        \* RefCache.snapshot
  loading,      \* the snapshot that refresh is loading
  now,          \* the clock of the database
  instruments,  \* database: committed instruments with their legs, by id
  calls,        \* the state of each CreateInstrument
  listing       \* a client that follows page tokens

refdata == <<games, team, changes>>
vars == <<games, team, changes, cache, loading, now, instruments, calls, listing>>

-----------------------------------------------------------------------------
(* Validation *)

IsOutcome(leg) == leg.predicate = "outcome"
IsProp(leg) == leg.predicate = "prop"

(* Phase 1: what a leg must have, and props that are decided in advance. *)
ValidLeg(leg) ==
  /\ leg.game # Unset
  /\ leg.predicate # Unset
  /\ IsOutcome(leg) => leg.outcome # Unset
  /\ IsProp(leg) =>
       /\ Unset \notin {leg.player, leg.prop, leg.cmp}
       /\ leg.threshold >= 0
       /\ ~ (leg.cmp \in {"GTE", "LT"} /\ leg.threshold = 0)

ValidateStructural(legs) == legs # <<>> /\ \A i \in DOMAIN legs : ValidLeg(legs[i])

(* Mutant: both bounds inclusive, which the threshold itself satisfies. *)
ContradictsAtBound(a, b) ==
  \/ a.threshold = b.threshold /\ {a.cmp, b.cmp} \in {{"GT", "LTE"}, {"GTE", "LTE"}}
  \/ a.cmp = "EQ" /\ b.cmp = "EQ" /\ a.threshold # b.threshold

(* Two props of the same player, type and game that cannot both come true. *)
Contradicts(a, b) ==
  \/ a.threshold = b.threshold /\ {a.cmp, b.cmp} \in {{"GT", "LTE"}, {"GTE", "LT"}}
  \/ a.cmp = "EQ" /\ b.cmp = "EQ" /\ a.threshold # b.threshold

PropKey(leg) == <<leg.game, leg.player, leg.prop>>

(* Phase 2: duplicates and contradictions between legs. *)
ValidateCrossLeg(legs) ==
  \A i, j \in DOMAIN legs : i # j =>
    LET a == legs[i]
        b == legs[j]
    IN  /\ a # b
        /\ ~ (IsOutcome(a) /\ IsOutcome(b) /\ a.game = b.game)
        /\ ~ (IsProp(a) /\ IsProp(b) /\ PropKey(a) = PropKey(b) /\ Contradicts(a, b))

(* The roster of a game: the players of its two teams, in the snapshot. *)
PlayerInGame(ref, p, g) == ref.team[p] \in {Fixtures[g].home, Fixtures[g].away}

AllowedPropTypes(league, position) ==
  IF <<league, position>> \in DOMAIN PropRules THEN PropRules[<<league, position>>] ELSE {}

(* Phase 3: games, players and prop types, looked up in one snapshot. *)
ValidateEntities(legs, ref) ==
  \A i \in DOMAIN legs :
    LET leg == legs[i] IN
    /\ leg.game \in DOMAIN ref.games
    /\ IsOutcome(leg) =>
         leg.outcome # "DRAW" \/ Fixtures[leg.game].league \in SoccerLeagues
    /\ IsProp(leg) =>
         /\ leg.player \in DOMAIN ref.team
         /\ PlayerInGame(ref, leg.player, leg.game)
         /\ \E pos \in Squad[leg.player].positions :
              leg.prop \in AllowedPropTypes(Fixtures[leg.game].league, pos)

Valid(legs, ref) ==
  /\ ValidateStructural(legs)
  /\ ValidateCrossLeg(legs)
  /\ ValidateEntities(legs, ref)

-----------------------------------------------------------------------------
(* What is stored *)

HashLegs(legs) == Range(legs)

MaxExpiry(legs, ref) == Max({ref.games[legs[i].game] : i \in DOMAIN legs})

(* A row of instrument_legs with its rows of instrument_leg_entities. *)
LegRow(leg, ref) ==
  LET g == Fixtures[leg.game] IN
  [leg |-> leg,
   league |-> g.league,
   expiry |-> ref.games[leg.game],
   entities |-> {leg.game, g.home, g.away}
                  \cup IF IsProp(leg) THEN {leg.player, ref.team[leg.player]} ELSE {}]

CollectLegs(legs, ref) == {LegRow(legs[i], ref) : i \in DOMAIN legs}

(* The join of instruments and instrument_legs that Get reads; an           *)
(* instrument without legs is not found.                                    *)
Found(id) == id \in DOMAIN instruments /\ instruments[id].legs # {}
Get(id) == {row.leg : row \in instruments[id].legs}

NoRefData == [games |-> <<>>, team |-> <<>>]
NoRow == [expiry |-> 0, created |-> 0, legs |-> {}]

(* What the tables of games and players may hold. *)
GameTables == UNION {[G -> Expiries] : G \in SUBSET Games}
TeamTables == {t \in [Players -> UNION {Squad[p].teams : p \in Players}] :
                 \A p \in Players : t[p] \in Squad[p].teams}

(* The row is that of the instrument id, as made from a request and a        *)
(* snapshot that allowed it.                                                 *)
Describes(row, id) ==
  /\ row.created \in Nat
  /\ \E legs \in Requests, g \in GameTables, t \in TeamTables :
       LET ref == [games |-> g, team |-> t]
       IN  /\ Valid(legs, ref)
           /\ id = HashLegs(legs)
           /\ row.legs = CollectLegs(legs, ref)
           /\ row.expiry = MaxExpiry(legs, ref)

ASSUME StoredAssumption ==
  \A table \in Stored :
    IsFiniteSet(DOMAIN table) /\ \A id \in DOMAIN table : Describes(table[id], id)

(* Ids have distinct hashes, and none of them is the zero value. *)
ASSUME HashAssumption ==
  \A a, b \in {HashLegs(legs) : legs \in Requests} :
    a # Unset /\ HashRank(a) \in Int /\ (HashRank(a) = HashRank(b) => a = b)

-----------------------------------------------------------------------------
(* Reference data: the vendor feed writes it, RefCache loads it. *)

UpsertGame(g, e) ==
  /\ changes < MaxChanges
  /\ g \in DOMAIN games => games[g] # e
  /\ games' = [x \in DOMAIN games \cup {g} |-> IF x = g THEN e ELSE games[x]]
  /\ changes' = changes + 1
  /\ UNCHANGED <<team, cache, loading, now, instruments, calls, listing>>

UpsertPlayer(p, t) ==
  /\ changes < MaxChanges
  /\ t \in Squad[p].teams \ {team[p]}
  /\ team' = [team EXCEPT ![p] = t]
  /\ changes' = changes + 1
  /\ UNCHANGED <<games, cache, loading, now, instruments, calls, listing>>

(* loadRefFromDB is a query per table, each of its own time; the names and   *)
(* leagues of teams are not used here.                                       *)
LoadPlayers ==
  /\ loading = NoRefData
  /\ loading' = [NoRefData EXCEPT !.team = team]
  /\ UNCHANGED <<refdata, cache, now, instruments, calls, listing>>

(* The last query; refresh swaps the snapshot. *)
LoadGames ==
  /\ loading # NoRefData
  /\ cache' = [loading EXCEPT !.games = games]
  /\ loading' = NoRefData
  /\ UNCHANGED <<refdata, now, instruments, calls, listing>>

(* A query fails: the old snapshot, or none, stays. *)
RefreshFails ==
  /\ loading # NoRefData
  /\ loading' = NoRefData
  /\ UNCHANGED <<refdata, cache, now, instruments, calls, listing>>

Tick ==
  /\ now < MaxTime
  /\ now' = now + 1
  /\ UNCHANGED <<refdata, cache, loading, instruments, calls, listing>>

-----------------------------------------------------------------------------
(* CreateInstrument *)

(* Where a call is and what it has in hand. *)
CallAt(pc, legs, ref, row, answer) ==
  [pc |-> pc, legs |-> legs, ref |-> ref, row |-> row, answer |-> answer]

NewCall == CallAt("idle", <<>>, NoRefData, NoRow, Unset)

Update(c, call) == calls' = [calls EXCEPT ![c] = call]
Return(c, code) ==
  Update(c, CallAt("done", IF code = "Internal" THEN <<>> ELSE calls[c].legs,
                   NoRefData, NoRow, code))

Id(c) == HashLegs(calls[c].legs)

(* The request is checked against the snapshot of this moment ... *)
Validate(c, legs) ==
  /\ calls[c].pc = "idle"
  /\ Valid(legs, cache)
  /\ Update(c, CallAt("collect", legs, cache, NoRow, Unset))
  /\ UNCHANGED <<refdata, cache, loading, now, instruments, listing>>

(* ... or refused. *)
Refuse(c, legs) ==
  /\ calls[c].pc = "idle"
  /\ ~ Valid(legs, cache)
  /\ Update(c, CallAt("done", <<>>, NoRefData, NoRow, "InvalidArgument"))
  /\ UNCHANGED <<refdata, cache, loading, now, instruments, listing>>

(* Mutant: the legs are completed from the cache as it is by now. *)
CollectFromCache(c) ==
  /\ calls[c].pc = "collect"
  /\ LET row == [expiry |-> MaxExpiry(calls[c].legs, calls[c].ref), created |-> 0,
                 legs |-> CollectLegs(calls[c].legs, cache)]
     IN  Update(c, CallAt("begin", calls[c].legs, NoRefData, row, Unset))
  /\ UNCHANGED <<refdata, cache, loading, now, instruments, listing>>

(* The rows to store, from the snapshot of the validation, which RefCache    *)
(* may have replaced meanwhile.                                              *)
Collect(c) ==
  /\ calls[c].pc = "collect"
  /\ LET row == [expiry |-> MaxExpiry(calls[c].legs, calls[c].ref), created |-> 0,
                 legs |-> CollectLegs(calls[c].legs, calls[c].ref)]
     IN  Update(c, CallAt("begin", calls[c].legs, NoRefData, row, Unset))
  /\ UNCHANGED <<refdata, cache, loading, now, instruments, listing>>

(* The transaction starts; created_at will be this time. *)
Begin(c) ==
  /\ calls[c].pc = "begin"
  /\ LET row == [calls[c].row EXCEPT !.created = now]
     IN  Update(c, CallAt("select", calls[c].legs, NoRefData, row, Unset))
  /\ UNCHANGED <<refdata, cache, loading, now, instruments, listing>>

(* SELECT id: an instrument that is there is reported and left alone. *)
SelectExisting(c) ==
  /\ calls[c].pc = "select"
  /\ \/ Id(c) \in DOMAIN instruments /\ Return(c, "existed")
     \/ Id(c) \notin DOMAIN instruments /\ Update(c, [calls[c] EXCEPT !.pc = "insert"])
  /\ UNCHANGED <<refdata, cache, loading, now, instruments, listing>>

(* Mutant: no transaction, so the instrument is there before its legs. *)
InsertCommits(c) ==
  /\ calls[c].pc = "insert"
  /\ Id(c) \notin DOMAIN instruments
  /\ instruments' = [id \in DOMAIN instruments \cup {Id(c)} |->
                        IF id = Id(c) THEN [calls[c].row EXCEPT !.legs = {}] ELSE instruments[id]]
  /\ Update(c, [calls[c] EXCEPT !.pc = "commit"])
  /\ UNCHANGED <<refdata, cache, loading, now, listing>>

(* INSERT INTO instruments waits for a transaction that has inserted the     *)
(* same id, and fails when the id is committed.                              *)
InsertInstrument(c) ==
  /\ calls[c].pc = "insert"
  /\ \A d \in Calls : calls[d].pc = "commit" => Id(d) # Id(c)
  /\ \/ Id(c) \notin DOMAIN instruments /\ Update(c, [calls[c] EXCEPT !.pc = "commit"])
     \/ Id(c) \in DOMAIN instruments /\ Return(c, "Internal")
  /\ UNCHANGED <<refdata, cache, loading, now, instruments, listing>>

(* The legs and their entities, seen by nobody before the COMMIT; its reply  *)
(* may be lost.                                                              *)
Commit(c) ==
  /\ calls[c].pc = "commit"
  /\ instruments' = [id \in DOMAIN instruments \cup {Id(c)} |->
                        IF id = Id(c) THEN calls[c].row ELSE instruments[id]]
  /\ \E code \in {"new", "Internal"} : Return(c, code)
  /\ UNCHANGED <<refdata, cache, loading, now, listing>>

(* The database fails or the client gives up: the transaction is rolled back. *)
CreateFails(c) ==
  /\ calls[c].pc \in {"begin", "select", "insert", "commit"}
  /\ Return(c, "Internal")
  /\ UNCHANGED <<refdata, cache, loading, now, instruments, listing>>

-----------------------------------------------------------------------------
(* ListInstruments *)

(* One leg must match both the entity and the league. *)
Matches(id, f) ==
  /\ \E row \in instruments[id].legs :
       /\ f.entity \in row.entities \cup {Unset}
       /\ f.league \in {row.league, Unset}
  /\ f.active => instruments[id].expiry > now

(* (created_at, id) of a is before that of b. *)
Older(a, b) ==
  \/ instruments[a].created < instruments[b].created
  \/ instruments[a].created = instruments[b].created /\ HashRank(a) < HashRank(b)

(* ORDER BY created_at DESC, id DESC. *)
NewestFirst(S) ==
  [i \in 1 .. Cardinality(S) |-> CHOOSE id \in S : Cardinality({x \in S : Older(id, x)}) = i - 1]

NotListing == [pc |-> "idle", filter |-> Unset, token |-> Unset, seen |-> <<>>, due |-> {}]

(* A client starts to list; what is stored now is due to it. *)
ListStart(f) ==
  /\ listing.pc = "idle"
  /\ listing' = [pc |-> "pages", filter |-> f, token |-> Unset, seen |-> <<>>,
                  due |-> {id \in DOMAIN instruments : Matches(id, f)}]
  /\ UNCHANGED <<refdata, cache, loading, now, instruments, calls>>

(* Mutant: the token is that of the extra row. *)
PageTokenOfExtra(rows) == rows[PageSize + 1]

(* The token of the next page: the last row of this one. *)
PageToken(rows) == rows[PageSize]

(* The rows older than the token, newest first, one more than a page to see  *)
(* whether there is a next one.  A row stays as it is once committed, so the *)
(* Get of each row is part of the step.  A page that fails changes nothing.  *)
ListPage ==
  LET f == listing.filter
      rows == NewestFirst({id \in DOMAIN instruments :
                             Matches(id, f) /\ (listing.token = Unset \/ Older(id, listing.token))})
      more == Len(rows) > PageSize
  IN  /\ listing.pc = "pages"
      /\ listing' = [pc |-> IF more THEN "pages" ELSE "done",
                      filter |-> f,
                      token |-> IF more THEN PageToken(rows) ELSE Unset,
                      seen |-> listing.seen \o SubSeq(rows, 1, IF more THEN PageSize ELSE Len(rows)),
                      due |-> listing.due]
      /\ UNCHANGED <<refdata, cache, loading, now, instruments, calls>>

-----------------------------------------------------------------------------
(* Some games are in the table, the others are announced later. *)
Init ==
  /\ games \in [{g \in Games : Fixtures[g].announced} -> Expiries]
  /\ team = [p \in Players |-> CHOOSE t \in Squad[p].teams : TRUE]
  /\ changes = 0
  /\ cache = NoRefData
  /\ loading = NoRefData
  /\ now = 0
  /\ instruments \in Stored
  /\ calls = [c \in Calls |-> NewCall]
  /\ listing = NotListing

Next ==
  \/ \E g \in Games, e \in Expiries : UpsertGame(g, e)
  \/ \E p \in Players : \E t \in Squad[p].teams : UpsertPlayer(p, t)
  \/ LoadPlayers \/ LoadGames \/ RefreshFails
  \/ Tick
  \/ \E c \in Calls : \/ \E legs \in Requests : Validate(c, legs) \/ Refuse(c, legs)
                      \/ Collect(c) \/ Begin(c) \/ SelectExisting(c)
                      \/ InsertInstrument(c) \/ Commit(c) \/ CreateFails(c)
  \/ \E f \in Filters : ListStart(f)
  \/ ListPage

Spec == Init /\ [][Next]_vars

-----------------------------------------------------------------------------
(* What a prop says of the player's number v. *)
Holds(prop, v) ==
  CASE prop.cmp = "GT" -> v > prop.threshold
    [] prop.cmp = "GTE" -> v >= prop.threshold
    [] prop.cmp = "LT" -> v < prop.threshold
    [] prop.cmp = "LTE" -> v <= prop.threshold
    [] prop.cmp = "EQ" -> v = prop.threshold

Prop(g, p, type, cmp, t) ==
  [predicate |-> "prop", game |-> g, player |-> p, prop |-> type, cmp |-> cmp, threshold |-> t]

Props(g, p, type) ==
  {Prop(g, p, type, cmp, t) : cmp \in {"GT", "GTE", "LT", "LTE", "EQ"}, t \in -1..MaxThreshold}

Numbers == 0..MaxThreshold + 1

(* A bet that could be won and lost. *)
Open(prop) == prop.threshold >= 0 /\ {Holds(prop, v) : v \in Numbers} = BOOLEAN

(* Of the single props of this kind the open ones pass, and all pairs of     *)
(* them but those that no number satisfies.                                  *)
OpenPropsPass(g, p, type) ==
  LET good == {a \in Props(g, p, type) : Valid(<<a>>, cache)}
  IN  /\ good = {a \in Props(g, p, type) : Open(a)}
      /\ \A a, b \in good :
           \/ a = b
           \/ Valid(<<a, b>>, cache)
           \/ \A v \in Numbers : ~ (Holds(a, v) /\ Holds(b, v))

(* CreateInstrument refuses no bet that could be won and lost.  Whatever the *)
(* next request: of the single props on a player of a game, it refuses       *)
(* exactly those that hold for every number or for none, and of pairs of     *)
(* the others only those that no number satisfies.                           *)
RefusalsJustified ==
  (\A c \in Calls : calls[c].pc = "idle") =>
    \A g \in DOMAIN cache.games, p \in DOMAIN cache.team :
    \A pos \in Squad[p].positions :
    \A type \in AllowedPropTypes(Fixtures[g].league, pos) :
      PlayerInGame(cache, p, g) => OpenPropsPass(g, p, type)

(* What CreateInstrument answered is true ever after: an id it has given is  *)
(* found by GetInstrument with the legs of the request, all of them, and     *)
(* only one call is told that it created it, however calls with the same     *)
(* legs in any order overlap.                                                *)
AnswersAreTrue ==
  \A c \in Calls : calls[c].answer \in {"new", "existed"} =>
    /\ Found(Id(c)) /\ Get(Id(c)) = Id(c)
    /\ \A d \in Calls \ {c} :
         Id(c) = Id(d) => ~ (calls[c].answer = "new" /\ calls[d].answer = "new")

(* All that is stored of an instrument comes from one snapshot of the        *)
(* reference data, though RefCache may swap it in the middle of the call:    *)
(* its expiry is that of its last leg, and a player is filed under a team    *)
(* that plays in the game.                                                   *)
FromOneSnapshot ==
  \A id \in DOMAIN instruments :
    LET legs == instruments[id].legs IN
    /\ legs # {} => instruments[id].expiry = Max({row.expiry : row \in legs})
    /\ \A row \in legs : IsProp(row.leg) => row.entities \cap Squad[row.leg.player].teams \subseteq
                                               {Fixtures[row.leg.game].home, Fixtures[row.leg.game].away}

(* A client that follows the page tokens of ListInstruments to the end has   *)
(* been given every instrument that was stored when it began, unless it      *)
(* expired meanwhile, and none twice, while others are being created, some   *)
(* of them with an older created_at than the page it is at.                  *)
ListsEachOnce ==
  /\ \A i, j \in DOMAIN listing.seen : listing.seen[i] = listing.seen[j] => i = j
  /\ listing.pc = "done" =>
       \A id \in listing.due :
         \/ id \in Range(listing.seen)
         \/ listing.filter.active /\ instruments[id].expiry <= now
=============================================================================
