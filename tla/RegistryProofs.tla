--------------------------- MODULE RegistryProofs ---------------------------
(***************************************************************************)
(* Registry proved for any calls, requests, reference data and page size.  *)
(* RegistryInv follows a call from the snapshot of the reference data that *)
(* it took to the row it stores; ListOK says what a client that pages      *)
(* through the instruments has been given and what is still to come.       *)
(***************************************************************************)
EXTENDS Registry, FiniteSetTheorems, WellFoundedInduction, TLAPS

-----------------------------------------------------------------------------
(* Reference data *)

Snapshot(ref) ==
  \E g \in GameTables, t \in TeamTables : ref = [games |-> g, team |-> t]

RefInv ==
  /\ games \in GameTables
  /\ team \in TeamTables
  /\ cache = NoRefData \/ Snapshot(cache)
  /\ loading = NoRefData \/ \E t \in TeamTables : loading = [games |-> <<>>, team |-> t]
  /\ now \in Nat

(* A table gets a game, or another expiry for one. *)
LEMMA GameTableGrows ==
  ASSUME NEW table \in GameTables, NEW g \in Games, NEW e \in Expiries
  PROVE  [x \in DOMAIN table \cup {g} |-> IF x = g THEN e ELSE table[x]] \in GameTables
<1>1. PICK G \in SUBSET Games : table \in [G -> Expiries]
  BY DEF GameTables
<1>2. [x \in DOMAIN table \cup {g} |-> IF x = g THEN e ELSE table[x]] \in [G \cup {g} -> Expiries]
  BY <1>1
<1>3. G \cup {g} \in SUBSET Games
  OBVIOUS
<1> QED
  BY <1>2, <1>3 DEF GameTables

LEMMA TeamTableChanges ==
  ASSUME NEW table \in TeamTables, NEW p \in Players, NEW t \in Squad[p].teams
  PROVE  [table EXCEPT ![p] = t] \in TeamTables
  BY DEF TeamTables

(* The steps that change reference data, snapshots and time. *)
RefNext ==
  \/ \E g \in Games, e \in Expiries : UpsertGame(g, e)
  \/ \E p \in Players : \E t \in Squad[p].teams : UpsertPlayer(p, t)
  \/ LoadPlayers \/ LoadGames \/ RefreshFails
  \/ Tick

CallNext(c) ==
  \/ \E legs \in Requests : Validate(c, legs) \/ Refuse(c, legs)
  \/ Collect(c) \/ Begin(c) \/ SelectExisting(c)
  \/ InsertInstrument(c) \/ Commit(c) \/ CreateFails(c)

ListNext == ListPage \/ \E f \in Filters : ListStart(f)

LEMMA NextCases == Next <=> RefNext \/ (\E c \in Calls : CallNext(c)) \/ ListNext
  BY DEF Next, RefNext, CallNext, ListNext

LEMMA RefKeeps == RefNext => UNCHANGED <<instruments, calls, listing>>
  BY DEF RefNext, UpsertGame, UpsertPlayer, LoadPlayers, LoadGames, RefreshFails, Tick

LEMMA CallKeeps ==
  ASSUME NEW c \in Calls, CallNext(c)
  PROVE  UNCHANGED <<games, team, cache, loading, now, listing>>
  BY DEF CallNext, Validate, Refuse, Collect, Begin, SelectExisting, InsertInstrument, Commit,
         CreateFails, refdata

LEMMA ListKeeps == ListNext => UNCHANGED <<games, team, cache, loading, now, instruments, calls>>
  BY DEF ListNext, ListStart, ListPage, refdata

LEMMA RefStep == RefInv /\ [Next]_vars => RefInv'
<1> SUFFICES ASSUME RefInv, [Next]_vars PROVE RefInv'
  OBVIOUS
<1> USE DEF RefInv
<1>1. CASE UNCHANGED <<games, team, cache, loading, now>>
  BY <1>1 DEF Snapshot
<1>2. ASSUME NEW g \in Games, NEW e \in Expiries, UpsertGame(g, e) PROVE RefInv'
  <2>1. games' \in GameTables
    BY <1>2, GameTableGrows DEF UpsertGame
  <2> QED
    BY <1>2, <2>1 DEF UpsertGame, Snapshot
<1>3. ASSUME NEW p \in Players, NEW t \in Squad[p].teams, UpsertPlayer(p, t) PROVE RefInv'
  <2>1. team' \in TeamTables
    BY <1>3, TeamTableChanges DEF UpsertPlayer
  <2> QED
    BY <1>3, <2>1 DEF UpsertPlayer, Snapshot
<1>4. CASE LoadPlayers
  <2>1. loading' = [games |-> <<>>, team |-> team]
    BY <1>4 DEF LoadPlayers, NoRefData
  <2> QED
    BY <1>4, <2>1 DEF LoadPlayers, refdata, Snapshot
<1>5. CASE LoadGames
  <2>1. PICK t \in TeamTables : loading = [games |-> <<>>, team |-> t]
    BY <1>5 DEF LoadGames
  <2>2. cache' = [games |-> games, team |-> t]
    BY <1>5, <2>1 DEF LoadGames
  <2>3. Snapshot(cache)'
    BY <2>2 DEF Snapshot
  <2> QED
    BY <1>5, <2>3 DEF LoadGames, refdata
<1>6. CASE RefreshFails
  BY <1>6 DEF RefreshFails, refdata, Snapshot
<1>7. CASE Tick
  BY <1>7 DEF Tick, refdata, Snapshot
<1>8. ASSUME NEW c \in Calls, CallNext(c) PROVE RefInv'
  BY <1>1, <1>8, CallKeeps
<1>9. CASE ListNext
  BY <1>1, <1>9, ListKeeps
<1>10. CASE UNCHANGED vars
  BY <1>1, <1>10 DEF vars
<1> QED
  BY <1>2, <1>3, <1>4, <1>5, <1>6, <1>7, <1>8, <1>9, <1>10, NextCases DEF RefNext

-----------------------------------------------------------------------------
(* What is made of a request *)

(* Without a snapshot no request is valid: it names no game. *)
LEMMA NothingValidYet == \A legs \in Requests : ~ Valid(legs, NoRefData)
<1> SUFFICES ASSUME NEW legs \in Requests, Valid(legs, NoRefData) PROVE FALSE
  OBVIOUS
<1>1. legs # <<>> /\ \A i \in DOMAIN legs : legs[i].game \in DOMAIN NoRefData.games
  BY DEF Valid, ValidateStructural, ValidateEntities
<1>2. DOMAIN NoRefData.games = {}
  BY DEF NoRefData
<1>3. DOMAIN legs = {}
  BY <1>1, <1>2
<1>4. legs \in Seq(Range(legs))
  BY RequestsAssumption
<1> QED
  BY <1>1, <1>3, <1>4

(* The rows of a request carry its legs, ... *)
LEMMA RowsOfLegs ==
  ASSUME NEW legs, NEW ref
  PROVE  {row.leg : row \in CollectLegs(legs, ref)} = HashLegs(legs)
<1>1. \A i : LegRow(legs[i], ref).leg = legs[i]
  BY DEF LegRow
<1> QED
  BY <1>1 DEF CollectLegs, HashLegs, Range

(* ... and the expiries of their games. *)
LEMMA RowsExpire ==
  ASSUME NEW legs, NEW ref
  PROVE  {row.expiry : row \in CollectLegs(legs, ref)} = {ref.games[legs[i].game] : i \in DOMAIN legs}
<1>1. \A i : LegRow(legs[i], ref).expiry = ref.games[legs[i].game]
  BY DEF LegRow
<1> QED
  BY <1>1 DEF CollectLegs

LEMMA RowsNotEmpty ==
  ASSUME NEW legs \in Requests, NEW ref, Valid(legs, ref)
  PROVE  1 \in DOMAIN legs /\ CollectLegs(legs, ref) # {}
<1>1. legs \in Seq(Range(legs)) /\ legs # <<>>
  BY RequestsAssumption DEF Valid, ValidateStructural
<1>2. 1 \in DOMAIN legs
  BY <1>1
<1>3. LegRow(legs[1], ref) \in CollectLegs(legs, ref)
  BY <1>2 DEF CollectLegs
<1> QED
  BY <1>2, <1>3

(* A stored instrument is found with its legs. *)
LEMMA DescribedIsFound ==
  ASSUME NEW row, NEW id, Describes(row, id)
  PROVE  row.legs # {} /\ {r.leg : r \in row.legs} = id
<1>1. PICK legs \in Requests, g \in GameTables, t \in TeamTables :
        /\ Valid(legs, [games |-> g, team |-> t])
        /\ id = HashLegs(legs)
        /\ row.legs = CollectLegs(legs, [games |-> g, team |-> t])
  BY DEF Describes
<1> QED
  BY <1>1, RowsOfLegs, RowsNotEmpty

(* A player of a valid prop is filed under a team of the game. *)
LEMMA FiledUnderTeam ==
  ASSUME NEW g \in GameTables, NEW t \in TeamTables, NEW legs \in Requests, NEW i \in DOMAIN legs,
         Valid(legs, [games |-> g, team |-> t]), IsProp(legs[i])
  PROVE  LegRow(legs[i], [games |-> g, team |-> t]).entities \cap Squad[legs[i].player].teams
           \subseteq {Fixtures[legs[i].game].home, Fixtures[legs[i].game].away}
<1> DEFINE leg == legs[i]
           ref == [games |-> g, team |-> t]
<1>1. /\ leg.game \in DOMAIN ref.games
      /\ leg.player \in DOMAIN ref.team
      /\ PlayerInGame(ref, leg.player, leg.game)
  BY DEF Valid, ValidateEntities
<1>2. leg.game \in Games /\ leg.player \in Players
  BY <1>1 DEF GameTables, TeamTables
<1>3. t[leg.player] \in {Fixtures[leg.game].home, Fixtures[leg.game].away}
  BY <1>1 DEF PlayerInGame
<1>4. LegRow(leg, ref).entities = {leg.game, Fixtures[leg.game].home, Fixtures[leg.game].away}
                                    \cup {leg.player, t[leg.player]}
  BY DEF LegRow
<1>5. {leg.game, leg.player} \cap Squad[leg.player].teams = {}
  BY <1>2, SquadAssumption
<1> HIDE DEF leg, ref
<1>6. LegRow(leg, ref).entities \cap Squad[leg.player].teams
        \subseteq {Fixtures[leg.game].home, Fixtures[leg.game].away}
  BY <1>3, <1>4, <1>5
<1> QED
  BY <1>6 DEF leg, ref

LEMMA DescribedFromOne ==
  ASSUME NEW row, NEW id, Describes(row, id)
  PROVE  /\ row.expiry = Max({r.expiry : r \in row.legs})
         /\ \A r \in row.legs : IsProp(r.leg) =>
              r.entities \cap Squad[r.leg.player].teams \subseteq
                {Fixtures[r.leg.game].home, Fixtures[r.leg.game].away}
<1>1. PICK legs \in Requests, g \in GameTables, t \in TeamTables :
        /\ Valid(legs, [games |-> g, team |-> t])
        /\ id = HashLegs(legs)
        /\ row.legs = CollectLegs(legs, [games |-> g, team |-> t])
        /\ row.expiry = MaxExpiry(legs, [games |-> g, team |-> t])
  BY DEF Describes
<1> DEFINE ref == [games |-> g, team |-> t]
<1>2. row.expiry = Max({r.expiry : r \in row.legs})
  <2>1. {r.expiry : r \in row.legs} = {ref.games[legs[i].game] : i \in DOMAIN legs}
    BY <1>1, RowsExpire
  <2>2. row.expiry = Max({ref.games[legs[i].game] : i \in DOMAIN legs})
    BY <1>1 DEF MaxExpiry
  <2> HIDE DEF ref
  <2> QED
    BY <2>1, <2>2
<1>3. ASSUME NEW r \in row.legs, IsProp(r.leg)
      PROVE  r.entities \cap Squad[r.leg.player].teams \subseteq
               {Fixtures[r.leg.game].home, Fixtures[r.leg.game].away}
  <2>1. PICK i \in DOMAIN legs : r = LegRow(legs[i], ref)
    BY <1>1 DEF CollectLegs
  <2>2. r.leg = legs[i]
    BY <2>1 DEF LegRow
  <2> QED
    BY <1>1, <1>3, <2>1, <2>2, FiledUnderTeam
<1> QED
  BY <1>2, <1>3

-----------------------------------------------------------------------------
(* CreateInstrument *)

IsCall(x) == x = CallAt(x.pc, x.legs, x.ref, x.row, x.answer)
IsRow(row) == row = [expiry |-> row.expiry, created |-> row.created, legs |-> row.legs]

(* What a call has in hand: a request that its snapshot allows, then a row  *)
(* made from the two.                                                       *)
InHand(x) ==
  /\ IsCall(x)
  /\ x.pc = "collect" => Snapshot(x.ref) /\ x.legs \in Requests /\ Valid(x.legs, x.ref)
  /\ x.pc \in {"begin", "select", "insert", "commit"} =>
       Describes(x.row, HashLegs(x.legs)) /\ IsRow(x.row)
  /\ x.answer \in {"new", "existed"} => x.pc = "done"

(* Which ids are in the table: those of the answers, not those of the       *)
(* inserts that are not committed, which are all different.                 *)
InTable ==
  \A c \in Calls :
    /\ calls[c].pc = "commit" => Id(c) \notin DOMAIN instruments
    /\ calls[c].answer \in {"new", "existed"} => Id(c) \in DOMAIN instruments
    /\ \A d \in Calls \ {c} : Id(c) = Id(d) =>
         /\ ~ (calls[c].pc = "commit" /\ calls[d].pc = "commit")
         /\ ~ (calls[c].answer = "new" /\ calls[d].answer = "new")

CallsInv ==
  /\ calls = [c \in Calls |-> calls[c]]
  /\ \A c \in Calls : InHand(calls[c])

TableInv ==
  /\ IsFiniteSet(DOMAIN instruments)
  /\ \A id \in DOMAIN instruments : Describes(instruments[id], id)

LEMMA Unanswered == Unset \notin {"new", "existed"}
  BY UnsetAssumption

(* A call that goes on, or returns. *)
LEMMA UpdateTo ==
  ASSUME CallsInv, NEW c \in Calls, NEW x, Update(c, x), InHand(x)
  PROVE  /\ calls'[c] = x
         /\ \A d \in Calls \ {c} : calls'[d] = calls[d]
         /\ CallsInv'
<1>1. calls'[c] = x /\ (\A d \in Calls \ {c} : calls'[d] = calls[d]) /\ calls' = [d \in Calls |-> calls'[d]]
  BY DEF CallsInv, Update
<1> QED
  BY <1>1 DEF CallsInv

(* A call that has returned has nothing in hand. *)
LEMMA DoneInHand ==
  ASSUME NEW legs, NEW code
  PROVE  InHand(CallAt("done", legs, NoRefData, NoRow, code))
  BY DEF InHand, IsCall, CallAt

LEMMA ReturnFrom ==
  ASSUME CallsInv, NEW c \in Calls, NEW code, Return(c, code)
  PROVE  /\ \A d \in Calls \ {c} : calls'[d] = calls[d]
         /\ calls'[c].pc = "done" /\ calls'[c].answer = code
         /\ code # "Internal" => calls'[c].legs = calls[c].legs
         /\ CallsInv'
<1> DEFINE x == CallAt("done", IF code = "Internal" THEN <<>> ELSE calls[c].legs, NoRefData, NoRow, code)
<1>1. Update(c, x) /\ InHand(x)
  BY DoneInHand DEF Return
<1>2. x.pc = "done" /\ x.answer = code /\ (code # "Internal" => x.legs = calls[c].legs)
  BY DEF CallAt
<1> HIDE DEF x
<1> QED
  BY <1>1, <1>2, UpdateTo

(* A call that goes on at pc with the same row. *)
LEMMA GoesOn ==
  ASSUME CallsInv, NEW c \in Calls, calls[c].pc \in {"begin", "select", "insert", "commit"},
         NEW pc \in {"insert", "commit"}, Update(c, [calls[c] EXCEPT !.pc = pc])
  PROVE  /\ \A d \in Calls \ {c} : calls'[d] = calls[d]
         /\ calls'[c].pc = pc /\ calls'[c].answer = calls[c].answer /\ calls'[c].legs = calls[c].legs
         /\ calls'[c].answer \notin {"new", "existed"}
         /\ CallsInv'
<1> PICK n : n = calls[c]
  OBVIOUS
<1> DEFINE x == CallAt(pc, n.legs, n.ref, n.row, n.answer)
<1>1. InHand(n)
  BY DEF CallsInv
<1>2. [n EXCEPT !.pc = pc] = x
  BY <1>1 DEF InHand, IsCall, CallAt
<1>3. x.pc = pc /\ x.legs = n.legs /\ x.row = n.row /\ x.answer = n.answer /\ IsCall(x)
  BY DEF CallAt, IsCall
<1> HIDE DEF x
<1>4. InHand(x)
  BY <1>1, <1>3 DEF InHand
<1>5. Update(c, x)
  BY <1>2
<1>6. n.answer \notin {"new", "existed"}
  BY <1>1 DEF InHand
<1> QED
  BY <1>3, <1>4, <1>5, <1>6, UpdateTo

(* The rows a request makes describe its instrument. *)
LEMMA MadeFromOne ==
  ASSUME NEW legs \in Requests, NEW ref, Snapshot(ref), Valid(legs, ref), NEW row,
         row.created \in Nat, row.legs = CollectLegs(legs, ref), row.expiry = MaxExpiry(legs, ref)
  PROVE  Describes(row, HashLegs(legs))
  BY DEF Describes, Snapshot

(* Another created_at describes it as well. *)
LEMMA Dated ==
  ASSUME NEW row, NEW id, Describes(row, id), IsRow(row), NEW t \in Nat
  PROVE  LET new == [row EXCEPT !.created = t] IN Describes(new, id) /\ IsRow(new)
<1> DEFINE new == [row EXCEPT !.created = t]
<1>1. new = [expiry |-> row.expiry, created |-> t, legs |-> row.legs]
  BY DEF IsRow
<1>2. new.expiry = row.expiry /\ new.created = t /\ new.legs = row.legs /\ IsRow(new)
  BY <1>1 DEF IsRow
<1> HIDE DEF new
<1>3. Describes(new, id)
  BY <1>2 DEF Describes
<1> QED
  BY <1>2, <1>3 DEF new

-----------------------------------------------------------------------------
(* The steps of a call *)

LEMMA ValidateStep ==
  ASSUME RefInv, CallsInv, NEW c \in Calls, NEW legs \in Requests, Validate(c, legs)
  PROVE  /\ CallsInv' /\ \A d \in Calls \ {c} : calls'[d] = calls[d]
         /\ calls'[c].pc = "collect" /\ calls'[c].answer = Unset
<1> DEFINE x == CallAt("collect", legs, cache, NoRow, Unset)
<1>1. Update(c, x) /\ Valid(legs, cache)
  BY DEF Validate
<1>2. Snapshot(cache)
  BY <1>1, NothingValidYet DEF RefInv
<1>3. x.pc = "collect" /\ x.legs = legs /\ x.ref = cache /\ x.answer = Unset /\ IsCall(x)
  BY DEF CallAt, IsCall
<1> HIDE DEF x
<1>4. InHand(x)
  BY <1>1, <1>2, <1>3, Unanswered DEF InHand
<1> QED
  BY <1>1, <1>3, <1>4, UpdateTo

LEMMA CollectStep ==
  ASSUME CallsInv, NEW c \in Calls, Collect(c)
  PROVE  /\ CallsInv' /\ \A d \in Calls \ {c} : calls'[d] = calls[d]
         /\ calls'[c].pc = "begin" /\ calls'[c].answer = Unset
<1> PICK n : n = calls[c]
  OBVIOUS
<1> DEFINE row == [expiry |-> MaxExpiry(n.legs, n.ref), created |-> 0, legs |-> CollectLegs(n.legs, n.ref)]
           x == CallAt("begin", n.legs, NoRefData, row, Unset)
<1>1. Update(c, x) /\ n.pc = "collect"
  BY DEF Collect
<1>2. InHand(n)
  BY DEF CallsInv
<1>3. IsRow(row) /\ row.created = 0 /\ row.legs = CollectLegs(n.legs, n.ref)
        /\ row.expiry = MaxExpiry(n.legs, n.ref)
  BY DEF IsRow
<1>4. x.pc = "begin" /\ x.legs = n.legs /\ x.row = row /\ x.answer = Unset /\ IsCall(x)
  BY DEF CallAt, IsCall
<1> HIDE DEF row, x
<1>5. Describes(row, HashLegs(n.legs))
  BY <1>1, <1>2, <1>3, MadeFromOne DEF InHand
<1>6. InHand(x)
  BY <1>3, <1>4, <1>5, Unanswered DEF InHand
<1> QED
  BY <1>1, <1>4, <1>6, UpdateTo

LEMMA BeginStep ==
  ASSUME RefInv, CallsInv, NEW c \in Calls, Begin(c)
  PROVE  /\ CallsInv' /\ \A d \in Calls \ {c} : calls'[d] = calls[d]
         /\ calls'[c].pc = "select" /\ calls'[c].answer = Unset
<1> PICK n : n = calls[c]
  OBVIOUS
<1> DEFINE row == [n.row EXCEPT !.created = now]
           x == CallAt("select", n.legs, NoRefData, row, Unset)
<1>1. Update(c, x) /\ n.pc = "begin"
  BY DEF Begin
<1>2. InHand(n)
  BY DEF CallsInv
<1>3. IsRow(row) /\ Describes(row, HashLegs(n.legs))
  BY <1>1, <1>2, Dated DEF InHand, RefInv
<1>4. x.pc = "select" /\ x.legs = n.legs /\ x.row = row /\ x.answer = Unset /\ IsCall(x)
  BY DEF CallAt, IsCall
<1> HIDE DEF row, x
<1>5. InHand(x)
  BY <1>3, <1>4, Unanswered DEF InHand
<1> QED
  BY <1>1, <1>4, <1>5, UpdateTo

-----------------------------------------------------------------------------
(* The table and the answers *)

(* A step that promises nothing. *)
LEMMA QuietStep ==
  ASSUME InTable, NEW c \in Calls, \A d \in Calls \ {c} : calls'[d] = calls[d],
         calls'[c].pc # "commit", calls'[c].answer \notin {"new", "existed"},
         UNCHANGED instruments
  PROVE  InTable'
  BY DEF InTable, Id

LEMMA ExistedStep ==
  ASSUME InTable, NEW c \in Calls, \A d \in Calls \ {c} : calls'[d] = calls[d],
         calls'[c].pc = "done", calls'[c].answer = "existed", calls'[c].legs = calls[c].legs,
         Id(c) \in DOMAIN instruments, UNCHANGED instruments
  PROVE  InTable'
  BY DEF InTable, Id

(* The INSERT that finds no other. *)
LEMMA InsertStep ==
  ASSUME InTable, NEW c \in Calls, \A d \in Calls \ {c} : calls'[d] = calls[d],
         calls'[c].pc = "commit", calls'[c].answer \notin {"new", "existed"}, calls'[c].legs = calls[c].legs,
         \A d \in Calls : calls[d].pc = "commit" => Id(d) # Id(c),
         Id(c) \notin DOMAIN instruments, UNCHANGED instruments
  PROVE  InTable'
<1>1. Id(c)' = Id(c) /\ \A d \in Calls \ {c} : Id(d)' = Id(d)
  BY DEF Id
<1> QED
  BY <1>1 DEF InTable

LEMMA CommitTable ==
  ASSUME InTable, TableInv, CallsInv, NEW c \in Calls, Commit(c)
  PROVE  TableInv' /\ InTable' /\ CallsInv' /\ DOMAIN instruments \subseteq DOMAIN instruments'
         /\ \A id \in DOMAIN instruments : instruments'[id] = instruments[id]
<1>1. calls[c].pc = "commit" /\ InHand(calls[c]) /\ Id(c) \notin DOMAIN instruments
  BY DEF Commit, CallsInv, InTable
<1>2. PICK code \in {"new", "Internal"} : Return(c, code)
  BY DEF Commit
<1>3. /\ \A d \in Calls \ {c} : calls'[d] = calls[d]
      /\ calls'[c].pc = "done" /\ calls'[c].answer = code
      /\ code # "Internal" => calls'[c].legs = calls[c].legs
      /\ CallsInv'
  BY <1>2, ReturnFrom
<1>4. /\ DOMAIN instruments' = DOMAIN instruments \cup {Id(c)}
      /\ instruments'[Id(c)] = calls[c].row
      /\ \A id \in DOMAIN instruments : instruments'[id] = instruments[id]
  BY <1>1 DEF Commit
<1>5. Describes(calls[c].row, Id(c))
  BY <1>1 DEF InHand, Id
<1>6. IsFiniteSet(DOMAIN instruments')
  BY <1>4, FS_AddElement DEF TableInv
<1>7. TableInv'
  BY <1>4, <1>5, <1>6 DEF TableInv
<1>8. \A d \in Calls \ {c} : Id(d)' = Id(d)
  BY <1>3 DEF Id
<1>9. \A d \in Calls \ {c} : calls[d].pc = "commit" => Id(d) # Id(c)
  BY <1>1 DEF InTable
<1>10. \A d \in Calls \ {c} : calls[d].answer = "new" => Id(d) # Id(c)
  BY <1>1 DEF InTable
<1>11. code = "new" => Id(c)' = Id(c)
  BY <1>3 DEF Id
<1>12. InTable'
  BY <1>3, <1>4, <1>8, <1>9, <1>10, <1>11 DEF InTable
<1> QED
  BY <1>3, <1>4, <1>7, <1>12

(* The call and the table after any step of a call. *)
LEMMA CallStep ==
  ASSUME RefInv, CallsInv, TableInv, InTable, NEW c \in Calls, CallNext(c)
  PROVE  /\ CallsInv' /\ TableInv' /\ InTable'
         /\ DOMAIN instruments \subseteq DOMAIN instruments'
         /\ \A id \in DOMAIN instruments : instruments'[id] = instruments[id]
<1> DEFINE Goal == /\ CallsInv' /\ TableInv' /\ InTable'
                   /\ DOMAIN instruments \subseteq DOMAIN instruments'
                   /\ \A id \in DOMAIN instruments : instruments'[id] = instruments[id]
<1>0. ASSUME UNCHANGED instruments, CallsInv', InTable' PROVE Goal
  BY <1>0 DEF TableInv
<1>1. ASSUME NEW legs \in Requests, Validate(c, legs) PROVE Goal
  BY <1>0, <1>1, ValidateStep, QuietStep, Unanswered DEF Validate
<1>2. ASSUME NEW legs \in Requests, Refuse(c, legs) PROVE Goal
  <2>1. CallsInv' /\ (\A d \in Calls \ {c} : calls'[d] = calls[d])
          /\ calls'[c] = CallAt("done", <<>>, NoRefData, NoRow, "InvalidArgument")
    BY <1>2, UpdateTo, DoneInHand DEF Refuse
  <2>2. calls'[c].pc = "done" /\ calls'[c].answer = "InvalidArgument"
    BY <2>1 DEF CallAt
  <2> QED
    BY <1>0, <1>2, <2>1, <2>2, QuietStep DEF Refuse
<1>3. CASE Collect(c)
  BY <1>0, <1>3, CollectStep, QuietStep, Unanswered DEF Collect
<1>4. CASE Begin(c)
  BY <1>0, <1>4, BeginStep, QuietStep, Unanswered DEF Begin
<1>5. CASE SelectExisting(c)
  <2>1. CASE Id(c) \in DOMAIN instruments /\ Return(c, "existed")
    <3>1. /\ \A d \in Calls \ {c} : calls'[d] = calls[d]
          /\ calls'[c].pc = "done" /\ calls'[c].answer = "existed" /\ calls'[c].legs = calls[c].legs
          /\ CallsInv'
      BY <2>1, ReturnFrom
    <3>2. UNCHANGED instruments
      BY <1>5 DEF SelectExisting
    <3> QED
      BY <1>0, <2>1, <3>1, <3>2, ExistedStep
  <2>2. CASE Update(c, [calls[c] EXCEPT !.pc = "insert"])
    BY <1>0, <1>5, <2>2, GoesOn, QuietStep DEF SelectExisting
  <2> QED
    BY <1>5, <2>1, <2>2 DEF SelectExisting
<1>6. CASE InsertInstrument(c)
  <2>1. CASE Id(c) \notin DOMAIN instruments /\ Update(c, [calls[c] EXCEPT !.pc = "commit"])
    BY <1>0, <1>6, <2>1, GoesOn, InsertStep DEF InsertInstrument
  <2>2. CASE Return(c, "Internal")
    BY <1>0, <1>6, <2>2, ReturnFrom, QuietStep DEF InsertInstrument
  <2> QED
    BY <1>6, <2>1, <2>2 DEF InsertInstrument
<1>7. CASE Commit(c)
  BY <1>7, CommitTable
<1>8. CASE CreateFails(c)
  BY <1>0, <1>8, ReturnFrom, QuietStep DEF CreateFails
<1> QED
  BY <1>1, <1>2, <1>3, <1>4, <1>5, <1>6, <1>7, <1>8 DEF CallNext

(* The tables, the calls and the snapshots together. *)
RegistryInv == RefInv /\ CallsInv /\ TableInv /\ InTable

LEMMA RegistryInit == Init => RegistryInv
<1> SUFFICES ASSUME Init PROVE RegistryInv
  OBVIOUS
<1>1. RefInv
  <2>1. games \in GameTables
    BY DEF Init, GameTables
  <2>2. team \in TeamTables
    BY SquadAssumption DEF Init, TeamTables
  <2> QED
    BY <2>1, <2>2 DEF Init, RefInv
<1>2. \A c \in Calls : calls[c] = NewCall
  BY DEF Init
<1>3. NewCall.pc = "idle" /\ NewCall.answer = Unset /\ IsCall(NewCall)
  BY DEF NewCall, CallAt, IsCall
<1>4. InHand(NewCall)
  BY <1>3, Unanswered DEF InHand
<1>5. CallsInv
  BY <1>2, <1>4 DEF Init, CallsInv
<1>6. TableInv
  BY StoredAssumption DEF Init, TableInv
<1>7. InTable
  BY <1>2, <1>3, Unanswered DEF InTable
<1> QED
  BY <1>1, <1>5, <1>6, <1>7 DEF RegistryInv

LEMMA RegistryStep == RegistryInv /\ [Next]_vars => RegistryInv'
<1> SUFFICES ASSUME RegistryInv, [Next]_vars PROVE RegistryInv'
  OBVIOUS
<1>1. RefInv'
  BY RefStep DEF RegistryInv
<1>2. ASSUME UNCHANGED <<instruments, calls>> PROVE CallsInv' /\ TableInv' /\ InTable'
  BY <1>2 DEF RegistryInv, CallsInv, TableInv, InTable, Id
<1>3. ASSUME NEW c \in Calls, CallNext(c) PROVE CallsInv' /\ TableInv' /\ InTable'
  BY <1>3, CallStep DEF RegistryInv
<1>4. CallsInv' /\ TableInv' /\ InTable'
  BY <1>2, <1>3, NextCases, RefKeeps, ListKeeps DEF vars
<1> QED
  BY <1>1, <1>4 DEF RegistryInv

(* The invariant: whatever calls, refreshes and vendor changes interleave, a *)
(* call works on one snapshot and its answered id is in the table.           *)
THEOREM RegistryInvariant == Spec => []RegistryInv
  BY RegistryInit, RegistryStep, PTL DEF Spec

(* CreateInstrument answers truthfully, for any number of calls: an id it    *)
(* has given is stored with exactly the legs of the request, and is created  *)
(* once.                                                                     *)
THEOREM AnswersStayTrue == Spec => []AnswersAreTrue
<1>1. RegistryInv => AnswersAreTrue
  <2> SUFFICES ASSUME RegistryInv, NEW c \in Calls, calls[c].answer \in {"new", "existed"}
               PROVE  /\ Found(Id(c)) /\ Get(Id(c)) = Id(c)
                      /\ \A d \in Calls \ {c} :
                           Id(c) = Id(d) => ~ (calls[c].answer = "new" /\ calls[d].answer = "new")
    BY DEF AnswersAreTrue
  <2>1. Describes(instruments[Id(c)], Id(c)) /\ Id(c) \in DOMAIN instruments
    BY DEF RegistryInv, InTable, TableInv
  <2>2. Found(Id(c)) /\ Get(Id(c)) = Id(c)
    BY <2>1, DescribedIsFound DEF Found, Get
  <2> QED
    BY <2>2 DEF RegistryInv, InTable
<1> QED
  BY <1>1, RegistryInvariant, PTL

(* All that is stored of an instrument comes from one snapshot of the        *)
(* reference data, whatever the vendor changes between the steps of a call.  *)
THEOREM StoredFromOneSnapshot == Spec => []FromOneSnapshot
<1>1. RegistryInv => FromOneSnapshot
  BY DescribedFromOne DEF RegistryInv, TableInv, FromOneSnapshot
<1> QED
  BY <1>1, RegistryInvariant, PTL

-----------------------------------------------------------------------------
(* Refusals *)

Comparators == {"GT", "GTE", "LT", "LTE", "EQ"}

(* What CreateInstrument sees in a prop. *)
LEMMA PropFields ==
  ASSUME NEW g, NEW p, NEW type, NEW cmp, NEW t
  PROVE  LET a == Prop(g, p, type, cmp, t) IN
         /\ a.predicate = "prop" /\ a.game = g /\ a.player = p /\ a.prop = type
         /\ a.cmp = cmp /\ a.threshold = t /\ IsProp(a) /\ ~ IsOutcome(a)
  BY DEF Prop, IsProp, IsOutcome

(* When it says one thing and another of some number. *)
LEMMA HoldsTable ==
  ASSUME NEW a, a.cmp \in Comparators, a.threshold \in Int, NEW v \in Nat
  PROVE  /\ Holds(a, v) \in BOOLEAN
         /\ a.cmp = "GT" => (Holds(a, v) <=> v > a.threshold)
         /\ a.cmp = "GTE" => (Holds(a, v) <=> v >= a.threshold)
         /\ a.cmp = "LT" => (Holds(a, v) <=> v < a.threshold)
         /\ a.cmp = "LTE" => (Holds(a, v) <=> v <= a.threshold)
         /\ a.cmp = "EQ" => (Holds(a, v) <=> v = a.threshold)
<1>1. CASE a.cmp = "GT"
  BY <1>1 DEF Holds
<1>2. CASE a.cmp = "GTE"
  BY <1>2 DEF Holds
<1>3. CASE a.cmp = "LT"
  BY <1>3 DEF Holds
<1>4. CASE a.cmp = "LTE"
  BY <1>4 DEF Holds
<1>5. CASE a.cmp = "EQ"
  BY <1>5 DEF Holds
<1> QED
  BY <1>1, <1>2, <1>3, <1>4, <1>5 DEF Comparators

LEMMA BothValues ==
  ASSUME NEW a, NEW S, \A v \in S : Holds(a, v) \in BOOLEAN
  PROVE  {Holds(a, v) : v \in S} = BOOLEAN
           <=> (\E v \in S : Holds(a, v)) /\ (\E v \in S : ~ Holds(a, v))
  BY Zenon

(* A prop is open when it holds for some number and not for another. *)
LEMMA OpenProps ==
  ASSUME NEW a, a.cmp \in Comparators, a.threshold \in -1 .. MaxThreshold
  PROVE  Open(a) <=> a.threshold >= 0 /\ ~ (a.cmp \in {"GTE", "LT"} /\ a.threshold = 0)
<1> DEFINE N == 0 .. MaxThreshold + 1
           t == a.threshold
<1>1. MaxThreshold \in Nat /\ t \in Int /\ t <= MaxThreshold
  BY BoundsAssumption
<1>2. \A v \in N : v \in Nat
  BY <1>1
<1>3. \A v \in N : Holds(a, v) \in BOOLEAN
  BY <1>1, <1>2, HoldsTable
<1>4. {Holds(a, v) : v \in N} = BOOLEAN
        <=> (\E v \in N : Holds(a, v)) /\ (\E v \in N : ~ Holds(a, v))
  BY <1>3, BothValues
<1>5. ASSUME t >= 0 PROVE 0 \in N /\ t \in N /\ t + 1 \in N
  BY <1>1, <1>5
<1>6. ASSUME t >= 0
      PROVE  (\E v \in N : Holds(a, v)) /\ (\E v \in N : ~ Holds(a, v))
               <=> ~ (a.cmp \in {"GTE", "LT"} /\ t = 0)
  <2> HIDE DEF N
  <2>1. CASE a.cmp = "GT"
    <3>1. Holds(a, t + 1) /\ ~ Holds(a, 0)
      BY <1>1, <1>2, <1>5, <1>6, <2>1, HoldsTable
    <3> QED
      BY <1>5, <1>6, <2>1, <3>1
  <2>2. CASE a.cmp = "LTE"
    <3>1. ~ Holds(a, t + 1) /\ Holds(a, 0)
      BY <1>1, <1>2, <1>5, <1>6, <2>2, HoldsTable
    <3> QED
      BY <1>5, <1>6, <2>2, <3>1
  <2>3. CASE a.cmp = "EQ"
    <3>1. ~ Holds(a, t + 1) /\ Holds(a, t)
      BY <1>1, <1>2, <1>5, <1>6, <2>3, HoldsTable
    <3> QED
      BY <1>5, <1>6, <2>3, <3>1
  <2>4. CASE a.cmp = "GTE"
    <3>1. Holds(a, t) /\ (t # 0 => ~ Holds(a, 0)) /\ (t = 0 => \A v \in N : Holds(a, v))
      BY <1>1, <1>2, <1>5, <1>6, <2>4, HoldsTable
    <3> QED
      BY <1>5, <1>6, <2>4, <3>1
  <2>5. CASE a.cmp = "LT"
    <3>1. ~ Holds(a, t) /\ (t # 0 => Holds(a, 0)) /\ (t = 0 => \A v \in N : ~ Holds(a, v))
      BY <1>1, <1>2, <1>5, <1>6, <2>5, HoldsTable
    <3> QED
      BY <1>5, <1>6, <2>5, <3>1
  <2> QED
    BY <2>1, <2>2, <2>3, <2>4, <2>5 DEF Comparators
<1>7. t >= 0 /\ (\E v \in N : Holds(a, v)) /\ (\E v \in N : ~ Holds(a, v))
        <=> t >= 0 /\ ~ (a.cmp \in {"GTE", "LT"} /\ t = 0)
  BY <1>6
<1>8. Open(a) <=> t >= 0 /\ {Holds(a, v) : v \in N} = BOOLEAN
  BY DEF Open, Numbers
<1> HIDE DEF N, t
<1>9. Open(a) <=> t >= 0 /\ (\E v \in N : Holds(a, v)) /\ (\E v \in N : ~ Holds(a, v))
  BY <1>4, <1>8
<1>10. Open(a) <=> t >= 0 /\ ~ (a.cmp \in {"GTE", "LT"} /\ t = 0)
  BY <1>7, <1>9
<1> QED
  BY <1>10 DEF t

(* Contradicting props never hold together. *)
LEMMA ContradictionsExclude ==
  ASSUME NEW a, NEW b, {a.cmp, b.cmp} \subseteq Comparators, a.threshold \in Int, b.threshold \in Int,
         Contradicts(a, b), NEW v \in Nat
  PROVE  ~ (Holds(a, v) /\ Holds(b, v))
<1>1. CASE a.cmp = "EQ" /\ b.cmp = "EQ" /\ a.threshold # b.threshold
  BY <1>1, HoldsTable
<1>2. CASE a.threshold = b.threshold /\ {a.cmp, b.cmp} = {"GT", "LTE"}
  <2>1. (a.cmp = "GT" /\ b.cmp = "LTE") \/ (a.cmp = "LTE" /\ b.cmp = "GT")
    BY <1>2
  <2> QED
    BY <1>2, <2>1, HoldsTable
<1>3. CASE a.threshold = b.threshold /\ {a.cmp, b.cmp} = {"GTE", "LT"}
  <2>1. (a.cmp = "GTE" /\ b.cmp = "LT") \/ (a.cmp = "LT" /\ b.cmp = "GTE")
    BY <1>3
  <2> QED
    BY <1>3, <2>1, HoldsTable
<1> QED
  BY <1>1, <1>2, <1>3 DEF Contradicts

(* The props of RefusalsJustified, of a player in a game of the snapshot. *)
LEMMA PropValid ==
  ASSUME NEW gs \in GameTables, NEW ts \in TeamTables, NEW g \in DOMAIN gs, NEW p \in DOMAIN ts,
         NEW pos \in Squad[p].positions,
         NEW type \in AllowedPropTypes(Fixtures[g].league, pos),
         PlayerInGame([games |-> gs, team |-> ts], p, g)
  PROVE  LET ref == [games |-> gs, team |-> ts]
             Is(a) == \E cmp \in Comparators, t \in -1 .. MaxThreshold : a = Prop(g, p, type, cmp, t)
         IN  /\ \A a : Is(a) => (ValidLeg(a) <=> a.threshold >= 0 /\ ~ (a.cmp \in {"GTE", "LT"} /\ a.threshold = 0))
             /\ \A a : Is(a) => (Valid(<<a>>, ref) <=> ValidLeg(a))
             /\ \A a, b : Is(a) /\ Is(b) /\ ValidLeg(a) /\ ValidLeg(b) /\ a # b /\ ~ Valid(<<a, b>>, ref)
                            => Contradicts(a, b) \/ Contradicts(b, a)
<1> DEFINE ref == [games |-> gs, team |-> ts]
           Is(a) == \E cmp \in Comparators, t \in -1 .. MaxThreshold : a = Prop(g, p, type, cmp, t)
           Fits(a) == /\ a.game = g /\ a.player = p /\ a.prop = type /\ IsProp(a) /\ ~ IsOutcome(a)
                      /\ a.cmp \in Comparators /\ a.threshold \in Int /\ a.predicate = "prop"
<1>1. \A a : Is(a) => Fits(a)
  BY PropFields
<1>2. g \in Games /\ p \in Players
  BY DEF GameTables, TeamTables
<1>3. type \in UNION Range(PropRules)
  BY DEF AllowedPropTypes, Range
<1>4. Unset \notin {g, p, type} /\ Unset # "prop" /\ Unset \notin Comparators
  <2>1. Unset \notin Games \cup Players \cup UNION Range(PropRules)
    BY UnsetAssumption
  <2>2. Unset # "prop" /\ Unset \notin Comparators
    BY UnsetAssumption DEF Comparators
  <2> QED
    BY <1>2, <1>3, <2>1, <2>2
<1>5. \A a : Fits(a) => (ValidLeg(a) <=> a.threshold >= 0 /\ ~ (a.cmp \in {"GTE", "LT"} /\ a.threshold = 0))
  BY <1>4 DEF ValidLeg
<1>6. ASSUME NEW legs, \A i \in DOMAIN legs : Fits(legs[i])
      PROVE  ValidateEntities(legs, ref)
  <2> SUFFICES ASSUME NEW i \in DOMAIN legs
               PROVE  /\ legs[i].game \in DOMAIN ref.games
                      /\ ~ IsOutcome(legs[i])
                      /\ legs[i].player \in DOMAIN ref.team
                      /\ PlayerInGame(ref, legs[i].player, legs[i].game)
                      /\ \E q \in Squad[legs[i].player].positions :
                           legs[i].prop \in AllowedPropTypes(Fixtures[legs[i].game].league, q)
    BY DEF ValidateEntities
  <2>1. Fits(legs[i])
    BY <1>6
  <2>2. legs[i].game = g /\ legs[i].player = p /\ legs[i].prop = type /\ ~ IsOutcome(legs[i])
    BY <2>1
  <2> QED
    BY <2>2
<1> HIDE DEF ref, Is, Fits
<1>7. ASSUME NEW a, Fits(a) PROVE Valid(<<a>>, ref) <=> ValidLeg(a)
  <2>1. DOMAIN <<a>> = 1 .. 1 /\ <<a>>[1] = a
    OBVIOUS
  <2>2. ValidateEntities(<<a>>, ref)
    <3> DEFINE legs == <<a>>
    <3>1. \A i \in DOMAIN legs : Fits(legs[i])
      BY <1>7, <2>1
    <3> HIDE DEF legs
    <3>2. ValidateEntities(legs, ref)
      BY <1>6, <3>1
    <3> QED
      BY <3>2 DEF legs
  <2>3. ValidateCrossLeg(<<a>>)
    BY <2>1 DEF ValidateCrossLeg
  <2>4. ValidateStructural(<<a>>) <=> ValidLeg(a)
    BY <2>1 DEF ValidateStructural
  <2> QED
    BY <2>2, <2>3, <2>4 DEF Valid
<1>8. ASSUME NEW a, NEW b, Fits(a), Fits(b), ValidLeg(a), ValidLeg(b), a # b,
             ~ Contradicts(a, b), ~ Contradicts(b, a)
      PROVE  Valid(<<a, b>>, ref)
  <2>1. DOMAIN <<a, b>> = 1 .. 2 /\ <<a, b>>[1] = a /\ <<a, b>>[2] = b
    OBVIOUS
  <2>2. ValidateEntities(<<a, b>>, ref)
    <3> DEFINE legs == <<a, b>>
    <3>1. \A i \in DOMAIN legs : Fits(legs[i])
      BY <1>8, <2>1
    <3> HIDE DEF legs
    <3>2. ValidateEntities(legs, ref)
      BY <1>6, <3>1
    <3> QED
      BY <3>2 DEF legs
  <2>3. ~ IsOutcome(a) /\ ~ IsOutcome(b)
    BY <1>8 DEF Fits
  <2>4. ValidateCrossLeg(<<a, b>>)
    BY <1>8, <2>1, <2>3 DEF ValidateCrossLeg
  <2>5. ValidateStructural(<<a, b>>)
    BY <1>8, <2>1 DEF ValidateStructural
  <2> QED
    BY <2>2, <2>4, <2>5 DEF Valid
<1>9. \A a : Is(a) => (ValidLeg(a) <=> a.threshold >= 0 /\ ~ (a.cmp \in {"GTE", "LT"} /\ a.threshold = 0))
  BY <1>1, <1>5
<1>10. \A a : Is(a) => (Valid(<<a>>, ref) <=> ValidLeg(a))
  BY <1>1, <1>7
<1>11. \A a, b : Is(a) /\ Is(b) /\ ValidLeg(a) /\ ValidLeg(b) /\ a # b /\ ~ Valid(<<a, b>>, ref)
                   => Contradicts(a, b) \/ Contradicts(b, a)
  BY <1>1, <1>8
<1> QED
  BY <1>9, <1>10, <1>11 DEF ref, Is

LEMMA RefusalsFollow == RefInv => RefusalsJustified
<1> SUFFICES ASSUME RefInv,
                    NEW g \in DOMAIN cache.games, NEW p \in DOMAIN cache.team,
                    NEW pos \in Squad[p].positions,
                    NEW type \in AllowedPropTypes(Fixtures[g].league, pos),
                    PlayerInGame(cache, p, g)
             PROVE  OpenPropsPass(g, p, type)
  BY DEF RefusalsJustified
<1> DEFINE props == Props(g, p, type)
           good == {a \in props : Valid(<<a>>, cache)}
           Is(a) == \E cmp \in Comparators, t \in -1 .. MaxThreshold : a = Prop(g, p, type, cmp, t)
<1>1. cache # NoRefData
  BY DEF NoRefData
<1>2. PICK gs \in GameTables, ts \in TeamTables : cache = [games |-> gs, team |-> ts]
  BY <1>1 DEF RefInv, Snapshot
<1>3. g \in DOMAIN gs /\ p \in DOMAIN ts /\ PlayerInGame([games |-> gs, team |-> ts], p, g)
  BY <1>2
<1>4. /\ \A a : Is(a) => (ValidLeg(a) <=> a.threshold >= 0 /\ ~ (a.cmp \in {"GTE", "LT"} /\ a.threshold = 0))
      /\ \A a : Is(a) => (Valid(<<a>>, cache) <=> ValidLeg(a))
      /\ \A a, b : Is(a) /\ Is(b) /\ ValidLeg(a) /\ ValidLeg(b) /\ a # b /\ ~ Valid(<<a, b>>, cache)
                     => Contradicts(a, b) \/ Contradicts(b, a)
  BY <1>2, <1>3, PropValid
<1>5. \A a \in props : Is(a)
  BY DEF Comparators, Props
<1>6. \A a : Is(a) => a.cmp \in Comparators /\ a.threshold \in -1 .. MaxThreshold
  BY PropFields
<1>7. \A a : Is(a) => (Open(a) <=> a.threshold >= 0 /\ ~ (a.cmp \in {"GTE", "LT"} /\ a.threshold = 0))
  BY <1>6, OpenProps
<1>8. \A v \in Numbers : v \in Nat
  BY BoundsAssumption DEF Numbers
<1>9. \A a : Is(a) => a.threshold \in Int
  BY <1>6, BoundsAssumption
<1> HIDE DEF Is
<1>10. \A a \in props : Valid(<<a>>, cache) <=> Open(a)
  BY <1>4, <1>5, <1>7
<1>11. good = {a \in props : Open(a)}
  BY <1>10
<1>12. ASSUME NEW a \in good, NEW b \in good, a # b, ~ Valid(<<a, b>>, cache), NEW v \in Numbers
       PROVE  ~ (Holds(a, v) /\ Holds(b, v))
  <2>1. Is(a) /\ Is(b) /\ ValidLeg(a) /\ ValidLeg(b)
    BY <1>4, <1>5
  <2>2. Contradicts(a, b) \/ Contradicts(b, a)
    BY <1>4, <1>12, <2>1
  <2> QED
    BY <1>6, <1>8, <1>9, <2>1, <2>2, ContradictionsExclude
<1>13. \A a, b \in good : a = b \/ Valid(<<a, b>>, cache)
                            \/ \A v \in Numbers : ~ (Holds(a, v) /\ Holds(b, v))
  BY <1>12
<1> QED
  BY <1>11, <1>13 DEF OpenPropsPass

(* Validation refuses no bet that could be won and lost, for thresholds up   *)
(* to any bound, any reference data and whatever snapshot is cached.         *)
THEOREM RefusalsStayJustified == Spec => []RefusalsJustified
  BY RegistryInvariant, RefusalsFollow, PTL DEF RegistryInv

-----------------------------------------------------------------------------
(* The order of instruments *)

(* Every non-empty set of naturals has a smallest element. *)
LEMMA SmallestNat ==
  ASSUME NEW T \in SUBSET Nat, T # {}
  PROVE  \E m \in T : \A n \in T : m <= n
<1>1. IsWellFoundedOn(OpToRel(<, Nat), Nat)
  BY NatLessThanWellFounded
<1>2. PICK m \in T : \A n \in T : ~ (<<n, m>> \in OpToRel(<, Nat))
  BY <1>1, WFMin
<1>3. ASSUME NEW n \in T PROVE m <= n
  <2>1. ~ (n < m)
    BY <1>2 DEF OpToRel
  <2> QED
    BY <2>1
<1> QED
  BY <1>3

(* The largest of n expiries. *)
LEMMA LargestOf ==
  ASSUME NEW n \in Nat \ {0}, NEW f, \A i \in 1 .. n : f[i] \in Nat
  PROVE  \E i \in 1 .. n : \A j \in 1 .. n : f[i] >= f[j]
<1> DEFINE Top(k) == \E i \in 1 .. k : \A j \in 1 .. k : f[i] >= f[j]
           Bad == {k \in 1 .. n : ~ Top(k)}
<1>1. ASSUME Bad # {} PROVE FALSE
  <2>0. Bad \in SUBSET Nat
    OBVIOUS
  <2>1. PICK k \in Bad : \A m \in Bad : k <= m
    <3> HIDE DEF Bad
    <3> QED
      BY <1>1, <2>0, SmallestNat
  <2>2. k \in 1 .. n /\ ~ Top(k)
    OBVIOUS
  <2>3. k # 1
    BY <2>2
  <2>4. Top(k - 1)
    <3>1. k - 1 \in 1 .. n /\ ~ (k <= k - 1)
      BY <2>2, <2>3
    <3> QED
      BY <2>1, <3>1
  <2>5. PICK i \in 1 .. k - 1 : \A j \in 1 .. k - 1 : f[i] >= f[j]
    BY <2>4
  <2>6. \A j \in 1 .. k : j = k \/ j \in 1 .. k - 1
    BY <2>2
  <2>7. f[i] \in Nat /\ f[k] \in Nat /\ (\A j \in 1 .. k - 1 : f[j] \in Nat) /\ i \in 1 .. k /\ k \in 1 .. k
    BY <2>2
  <2>8. CASE f[i] >= f[k]
    BY <2>2, <2>5, <2>6, <2>7, <2>8
  <2>9. CASE f[k] >= f[i]
    <3>1. \A j \in 1 .. k : f[k] >= f[j]
      BY <2>5, <2>6, <2>7, <2>9
    <3> QED
      BY <2>2, <2>7, <3>1
  <2> QED
    BY <2>7, <2>8, <2>9
<1>2. n \in 1 .. n
  OBVIOUS
<1>3. Top(n)
  BY <1>1, <1>2
<1> QED
  BY <1>3

(* An instrument expires at some time. *)
LEMMA ExpiryIsTime ==
  ASSUME NEW row, NEW id, Describes(row, id)
  PROVE  row.expiry \in Nat
<1>1. PICK legs \in Requests, g \in GameTables, t \in TeamTables :
        /\ Valid(legs, [games |-> g, team |-> t])
        /\ row.expiry = MaxExpiry(legs, [games |-> g, team |-> t])
  BY DEF Describes
<1> DEFINE f == [i \in DOMAIN legs |-> g[legs[i].game]]
<1>2. PICK n \in Nat : DOMAIN legs = 1 .. n
  BY RequestsAssumption
<1>3. n # 0
  BY <1>1, <1>2, RowsNotEmpty
<1>4. \A i \in DOMAIN legs : legs[i].game \in DOMAIN g
  BY <1>1 DEF Valid, ValidateEntities
<1>5. \A i \in 1 .. n : f[i] \in Nat
  BY <1>2, <1>4, ExpiriesAssumption DEF GameTables
<1>6. row.expiry = Max({f[i] : i \in 1 .. n})
  <2>1. {f[i] : i \in 1 .. n} = {[games |-> g, team |-> t].games[legs[i].game] : i \in DOMAIN legs}
    BY <1>2
  <2> QED
    BY <1>1, <2>1 DEF MaxExpiry
<1> HIDE DEF f
<1>7. PICK i \in 1 .. n : \A j \in 1 .. n : f[i] >= f[j]
  BY <1>3, <1>5, LargestOf
<1>8. \E x \in {f[j] : j \in 1 .. n} : \A y \in {f[j] : j \in 1 .. n} : x >= y
  BY <1>7
<1>9. row.expiry \in {f[j] : j \in 1 .. n}
  BY <1>6, <1>8 DEF Max
<1> QED
  BY <1>5, <1>9

Ids == DOMAIN instruments

(* (created_at, id) orders the instruments of the table. *)
LEMMA OlderIsOrder ==
  ASSUME TableInv
  PROVE  /\ \A a \in Ids : ~ Older(a, a) /\ a # Unset
         /\ \A a, b \in Ids : a = b \/ Older(a, b) \/ Older(b, a)
         /\ \A a, b, c \in Ids : Older(a, b) /\ Older(b, c) => Older(a, c)
<1>1. \A a \in Ids : instruments[a].created \in Nat /\ a \in {HashLegs(legs) : legs \in Requests}
  BY DEF TableInv, Describes, Ids
<1>2. \A a \in Ids : HashRank(a) \in Int /\ a # Unset
  BY <1>1, HashAssumption
<1>3. \A a, b \in Ids : HashRank(a) = HashRank(b) => a = b
  BY <1>1, HashAssumption
<1> QED
  BY <1>1, <1>2, <1>3 DEF Older

(* How many are newer. *)
Newer(S, id) == {x \in S : Older(id, x)}
Rank(S, id) == Cardinality(Newer(S, id))

LEMMA RankOrders ==
  ASSUME TableInv, NEW S \in SUBSET Ids
  PROVE  /\ IsFiniteSet(S) /\ Cardinality(S) \in Nat
         /\ \A id \in S : Rank(S, id) \in 0 .. Cardinality(S) - 1
         /\ \A a, b \in S : Older(a, b) => Rank(S, b) < Rank(S, a)
<1>1. IsFiniteSet(S) /\ Cardinality(S) \in Nat
  BY FS_Subset, FS_CardinalityType DEF TableInv, Ids
<1>2. ASSUME NEW id \in S
      PROVE  IsFiniteSet(Newer(S, id)) /\ Rank(S, id) \in 0 .. Cardinality(S) - 1
  <2>1. Newer(S, id) \in SUBSET S /\ id \notin Newer(S, id)
    BY <1>2, OlderIsOrder DEF Newer
  <2>2. IsFiniteSet(Newer(S, id)) /\ Rank(S, id) \in Nat
    BY <1>1, <2>1, FS_Subset, FS_CardinalityType DEF Rank
  <2>3. Rank(S, id) <= Cardinality(S) /\ Rank(S, id) # Cardinality(S)
    BY <1>1, <1>2, <2>1, FS_Subset DEF Rank
  <2> QED
    BY <1>1, <2>2, <2>3
<1>3. ASSUME NEW a \in S, NEW b \in S, Older(a, b) PROVE Rank(S, b) < Rank(S, a)
  <2>1. Newer(S, b) \in SUBSET Newer(S, a)
    BY <1>3, OlderIsOrder DEF Newer
  <2>2. b \in Newer(S, a) /\ b \notin Newer(S, b)
    BY <1>3, OlderIsOrder DEF Newer
  <2>3. Rank(S, b) <= Rank(S, a) /\ Rank(S, b) # Rank(S, a)
    BY <1>2, <2>1, <2>2, FS_Subset DEF Rank
  <2>4. Rank(S, a) \in Int /\ Rank(S, b) \in Int
    BY <1>1, <1>2
  <2> QED
    BY <2>3, <2>4
<1> QED
  BY <1>1, <1>2, <1>3

(* The query returns every row once, the newest first. *)
LEMMA NewestFirstSorts ==
  ASSUME TableInv, NEW S \in SUBSET Ids
  PROVE  LET rows == NewestFirst(S) IN
         /\ rows \in Seq(S) /\ Len(rows) = Cardinality(S) /\ Len(rows) \in Nat
         /\ \A id \in S : \E i \in 1 .. Len(rows) : rows[i] = id
         /\ \A i, j \in 1 .. Len(rows) : i < j => Older(rows[j], rows[i])
<1> DEFINE n == Cardinality(S)
           T == 0 .. n - 1
           f == [id \in S |-> Rank(S, id)]
           rows == NewestFirst(S)
<1>1. IsFiniteSet(S) /\ n \in Nat
  BY RankOrders
<1>2. \A id \in S : Rank(S, id) \in T
  BY RankOrders
<1>3. \A a, b \in S : Rank(S, a) = Rank(S, b) => a = b
  <2> SUFFICES ASSUME NEW a \in S, NEW b \in S, Rank(S, a) = Rank(S, b), a # b PROVE FALSE
    OBVIOUS
  <2>1. Rank(S, a) < Rank(S, b) \/ Rank(S, b) < Rank(S, a)
    BY OlderIsOrder, RankOrders
  <2>2. Rank(S, a) \in Int
    BY <1>1, <1>2
  <2> QED
    BY <2>1, <2>2
<1>4. f \in Injection(S, T)
  BY <1>2, <1>3 DEF Injection, IsInjective
<1>5. IsFiniteSet(T) /\ Cardinality(T) = n
  BY <1>1, FS_Interval
<1>6. f \in Surjection(S, T)
  BY <1>4, <1>5, FS_Injection
<1>7. \A k \in T : \E id \in S : Rank(S, id) = k
  BY <1>6 DEF Surjection
<1>8. rows = [i \in 1 .. n |-> CHOOSE id \in S : Rank(S, id) = i - 1]
  BY DEF NewestFirst, Rank, Newer
<1>9. \A i \in 1 .. n : rows[i] \in S /\ Rank(S, rows[i]) = i - 1
  <2> SUFFICES ASSUME NEW i \in 1 .. n PROVE rows[i] \in S /\ Rank(S, rows[i]) = i - 1
    OBVIOUS
  <2>1. i - 1 \in T
    BY <1>1
  <2>2. rows[i] = CHOOSE id \in S : Rank(S, id) = i - 1
    BY <1>8
  <2> QED
    BY <1>7, <2>1, <2>2
<1>10. rows \in Seq(S) /\ Len(rows) = n
  <2>1. DOMAIN rows = 1 .. n /\ rows = [i \in 1 .. n |-> rows[i]]
    BY <1>8
  <2> QED
    BY <1>1, <1>9, <2>1
<1> HIDE DEF rows
<1>11. ASSUME NEW id \in S PROVE \E i \in 1 .. n : rows[i] = id
  <2>1. Rank(S, id) + 1 \in 1 .. n /\ (Rank(S, id) + 1) - 1 = Rank(S, id)
    BY <1>1, <1>2
  <2> QED
    BY <1>3, <1>9, <2>1
<1>12. ASSUME NEW i \in 1 .. n, NEW j \in 1 .. n, i < j PROVE Older(rows[j], rows[i])
  <2>1. rows[i] \in S /\ rows[j] \in S /\ Rank(S, rows[i]) = i - 1 /\ Rank(S, rows[j]) = j - 1
    BY <1>9
  <2>2. ~ (j - 1 < i - 1) /\ i - 1 # j - 1
    BY <1>1, <1>12
  <2>3. ~ Older(rows[i], rows[j])
    BY <2>1, <2>2, RankOrders
  <2>4. rows[i] # rows[j]
    BY <2>1, <2>2
  <2> QED
    BY <2>1, <2>3, <2>4, OlderIsOrder
<1> QED
  BY <1>1, <1>10, <1>11, <1>12 DEF rows

-----------------------------------------------------------------------------
(* ListInstruments *)

Gone(f, id) == f.active /\ instruments[id].expiry <= now

(* Where a client l that follows the tokens stands: what it has seen is as   *)
(* new as its token or newer, and what is due to it was seen, has expired or *)
(* is older.                                                                 *)
ListOK(l) ==
  /\ l.pc \in {"idle", "pages", "done"}
  /\ l.seen \in Seq(Ids) /\ l.due \subseteq Ids
  /\ \A i, j \in DOMAIN l.seen : l.seen[i] = l.seen[j] => i = j
  /\ \A id \in l.due : Matches(id, l.filter) \/ Gone(l.filter, id)
  /\ l.pc = "pages" =>
       /\ l.token = Unset => l.seen = <<>>
       /\ l.token # Unset => /\ l.token \in Ids
                             /\ \A i \in DOMAIN l.seen : l.seen[i] = l.token \/ Older(l.token, l.seen[i])
       /\ \A id \in l.due : \/ id \in Range(l.seen) \/ Gone(l.filter, id)
                            \/ l.token = Unset \/ Older(id, l.token)
  /\ l.pc = "done" => \A id \in l.due : id \in Range(l.seen) \/ Gone(l.filter, id)
  /\ l.pc = "idle" => l.seen = <<>>

(* A client is not disturbed by what is stored later, nor by time. *)
LEMMA ListUndisturbed ==
  ASSUME TableInv, ListOK(listing), UNCHANGED listing, now \in Nat, now' \in Nat, now <= now',
         Ids \subseteq Ids', \A id \in Ids : instruments'[id] = instruments[id]
  PROVE  ListOK(listing)'
<1> PICK l : l = listing
  OBVIOUS
<1>1. \A a, b \in Ids : Older(a, b)' <=> Older(a, b)
  BY DEF Older
<1>2. \A id \in Ids : instruments[id].expiry \in Nat
  BY ExpiryIsTime DEF TableInv, Ids
<1>3. \A id \in Ids : Gone(l.filter, id) => Gone(l.filter, id)'
  BY <1>2 DEF Gone
<1>4. \A id \in Ids : Matches(id, l.filter) => Matches(id, l.filter)' \/ Gone(l.filter, id)'
  BY <1>2 DEF Gone, Matches
<1>5. l.seen \in Seq(Ids')
  BY DEF ListOK
<1>6. l.due \subseteq Ids' /\ \A i \in DOMAIN l.seen : l.seen[i] \in Ids
  BY DEF ListOK
<1>7. listing' = l
  OBVIOUS
<1> QED
  BY <1>1, <1>3, <1>4, <1>5, <1>6, <1>7 DEF ListOK

LEMMA ListMoves ==
  ASSUME NEW n, ListOK(n), listing' = n, UNCHANGED <<instruments, now>>
  PROVE  ListOK(listing)'
<1>1. /\ Ids' = Ids
      /\ \A a, b : Older(a, b)' <=> Older(a, b)
      /\ \A f, id : Gone(f, id)' <=> Gone(f, id)
      /\ \A f, id : Matches(id, f)' <=> Matches(id, f)
  BY DEF Ids, Older, Gone, Matches
<1> QED
  BY <1>1 DEF ListOK

LEMMA ListStartStep ==
  ASSUME TableInv, NEW f, ListStart(f)
  PROVE  ListOK(listing)'
<1> DEFINE l == [pc |-> "pages", filter |-> f, token |-> Unset, seen |-> <<>>,
                 due |-> {id \in DOMAIN instruments : Matches(id, f)}]
<1>1. l.pc = "pages" /\ l.token = Unset /\ l.seen = <<>> /\ l.filter = f
        /\ l.due = {id \in Ids : Matches(id, f)}
  BY DEF Ids
<1>2. listing' = l /\ UNCHANGED <<instruments, now>>
  BY DEF ListStart
<1> HIDE DEF l
<1>3. ListOK(l)
  BY <1>1 DEF ListOK
<1> QED
  BY <1>2, <1>3, ListMoves

(* One page: k of the rows, all of them when they fit. *)
Appended(new, seen, rows, k) ==
  /\ \A i \in DOMAIN new :
       \/ i \in 1 .. Len(seen) /\ new[i] = seen[i]
       \/ i - Len(seen) \in 1 .. k /\ new[i] = rows[i - Len(seen)]
  /\ \A i \in 1 .. Len(seen) : i \in DOMAIN new /\ new[i] = seen[i]
  /\ \A i \in 1 .. k : Len(seen) + i \in DOMAIN new /\ new[Len(seen) + i] = rows[i]

LEMMA PageAppends ==
  ASSUME NEW S, NEW seen \in Seq(S), NEW rows \in Seq(S), NEW k \in 0 .. Len(rows)
  PROVE  LET new == seen \o SubSeq(rows, 1, k) IN new \in Seq(S) /\ Appended(new, seen, rows, k)
<1> PICK new : new = seen \o SubSeq(rows, 1, k)
  OBVIOUS
<1> PICK page : page = SubSeq(rows, 1, k)
  OBVIOUS
<1>1. page \in Seq(S) /\ Len(page) = k /\ \A i \in 1 .. k : page[i] = rows[i]
  OBVIOUS
<1> PICK m \in Nat : m = Len(seen)
  OBVIOUS
<1>2. new \in Seq(S) /\ Len(new) = m + k /\ DOMAIN new = 1 .. m + k /\ k \in Nat
  BY <1>1
<1>3. \A i \in 1 .. m + k : new[i] = IF i <= m THEN seen[i] ELSE page[i - m]
  BY <1>1
<1>4. \A i \in 1 .. m : i \in DOMAIN new /\ new[i] = seen[i]
  BY <1>2, <1>3
<1>5. \A i \in 1 .. k : m + i \in DOMAIN new /\ new[m + i] = rows[i]
  <2> SUFFICES ASSUME NEW i \in 1 .. k PROVE m + i \in DOMAIN new /\ new[m + i] = rows[i]
    OBVIOUS
  <2>1. m + i \in 1 .. m + k /\ ~ (m + i <= m) /\ (m + i) - m = i
    BY <1>2
  <2> QED
    BY <1>1, <1>2, <1>3, <2>1
<1>6. ASSUME NEW i \in DOMAIN new
      PROVE  \/ i \in 1 .. m /\ new[i] = seen[i]
             \/ i - m \in 1 .. k /\ new[i] = rows[i - m]
  <2>1. i \in 1 .. m \/ (i - m \in 1 .. k /\ ~ (i <= m))
    BY <1>2
  <2> QED
    BY <1>1, <1>2, <1>3, <2>1
<1> QED
  BY <1>2, <1>4, <1>5, <1>6 DEF Appended

LEMMA ListPageStep ==
  ASSUME TableInv, ListOK(listing), ListPage
  PROVE  ListOK(listing)'
<1> PICK l : l = listing
  OBVIOUS
<1> DEFINE S == {id \in DOMAIN instruments :
                   Matches(id, l.filter) /\ (l.token = Unset \/ Older(id, l.token))}
           rows == NewestFirst(S)
           more == Len(rows) > PageSize
           k == IF more THEN PageSize ELSE Len(rows)
<1> PICK seen : seen = l.seen \o SubSeq(rows, 1, k)
  OBVIOUS
<1> DEFINE n == [pc |-> IF more THEN "pages" ELSE "done", filter |-> l.filter,
               token |-> IF more THEN PageToken(rows) ELSE Unset, seen |-> seen, due |-> l.due]
<1>1. l.pc = "pages" /\ listing' = n /\ UNCHANGED <<instruments, now>>
  BY DEF ListPage
<1>2. /\ n.pc = IF more THEN "pages" ELSE "done"
      /\ n.filter = l.filter /\ n.due = l.due /\ n.seen = seen
      /\ n.token = IF more THEN PageToken(rows) ELSE Unset
  OBVIOUS
<1>3. S \in SUBSET Ids
  BY DEF Ids
<1>4. /\ rows \in Seq(S) /\ Len(rows) \in Nat
      /\ \A id \in S : \E i \in 1 .. Len(rows) : rows[i] = id
      /\ \A i, j \in 1 .. Len(rows) : i < j => Older(rows[j], rows[i])
  BY <1>3, NewestFirstSorts
<1>5. \A id \in S : id \in Ids /\ (l.token = Unset \/ Older(id, l.token))
  BY DEF Ids
<1>6. \A id \in l.due : id \in Range(l.seen) \/ Gone(l.filter, id) \/ id \in S
  <2> SUFFICES ASSUME NEW id \in l.due, id \notin Range(l.seen), ~ Gone(l.filter, id) PROVE id \in S
    OBVIOUS
  <2>1. id \in Ids /\ Matches(id, l.filter) /\ (l.token = Unset \/ Older(id, l.token))
    BY <1>1 DEF ListOK
  <2> QED
    BY <2>1 DEF Ids
<1>7. k \in 0 .. Len(rows) /\ (more => k = PageSize /\ k \in 1 .. Len(rows)) /\ (~ more => k = Len(rows))
  BY <1>4, PageAssumption
<1>8. PageToken(rows) = rows[PageSize]
  BY DEF PageToken
<1>9. l.seen \in Seq(Ids) /\ rows \in Seq(Ids) /\ Len(l.seen) \in Nat
  BY <1>3, <1>4 DEF ListOK
<1> HIDE DEF S, rows, more, k
<1>10. /\ seen \in Seq(Ids)
       /\ \A i \in DOMAIN seen :
            \/ i \in 1 .. Len(l.seen) /\ seen[i] = l.seen[i]
            \/ i - Len(l.seen) \in 1 .. k /\ seen[i] = rows[i - Len(l.seen)]
       /\ \A i \in 1 .. Len(l.seen) : i \in DOMAIN seen /\ seen[i] = l.seen[i]
       /\ \A i \in 1 .. k : Len(l.seen) + i \in DOMAIN seen /\ seen[Len(l.seen) + i] = rows[i]
  <2>1. seen \in Seq(Ids) /\ Appended(seen, l.seen, rows, k)
    BY <1>7, <1>9, PageAppends
  <2> QED
    BY <2>1 DEF Appended
<1> HIDE DEF n
<1>11. \A i \in 1 .. k : i \in 1 .. Len(rows) /\ rows[i] \in S /\ rows[i] \in Ids
  BY <1>4, <1>7, <1>9
<1>12. \A i \in 1 .. Len(l.seen) : i \in DOMAIN l.seen /\ l.seen[i] \in Ids
  BY <1>9
<1>13. \A i \in 1 .. Len(l.seen), j \in 1 .. k : Older(rows[j], l.seen[i])
  <2> SUFFICES ASSUME NEW i \in 1 .. Len(l.seen), NEW j \in 1 .. k PROVE Older(rows[j], l.seen[i])
    OBVIOUS
  <2>1. l.token # Unset
    BY <1>1, <1>12 DEF ListOK
  <2>2. l.token \in Ids /\ (l.seen[i] = l.token \/ Older(l.token, l.seen[i])) /\ Older(rows[j], l.token)
    BY <1>1, <1>5, <1>11, <1>12, <2>1 DEF ListOK
  <2> QED
    BY <1>11, <1>12, <2>2, OlderIsOrder
<1>14. \A i, j \in 1 .. k : rows[i] = rows[j] => i = j
  <2> SUFFICES ASSUME NEW i \in 1 .. k, NEW j \in 1 .. k, i < j PROVE rows[i] # rows[j]
    BY <1>7, <1>11
  <2>1. Older(rows[j], rows[i]) /\ rows[i] \in Ids
    BY <1>4, <1>11
  <2> QED
    BY <2>1, OlderIsOrder
<1>15. \A i, j \in 1 .. Len(l.seen) : l.seen[i] = l.seen[j] => i = j
  BY <1>12 DEF ListOK
<1>16. \A i, j \in DOMAIN seen : seen[i] = seen[j] => i = j
  <2> SUFFICES ASSUME NEW i \in DOMAIN seen, NEW j \in DOMAIN seen, seen[i] = seen[j] PROVE i = j
    OBVIOUS
  <2>1. i \in Nat /\ j \in Nat
    BY <1>10
  <2>2. \A a \in 1 .. Len(l.seen), b \in 1 .. k : l.seen[a] # rows[b]
    BY <1>11, <1>12, <1>13, OlderIsOrder
  <2>3. CASE i \in 1 .. Len(l.seen) /\ seen[i] = l.seen[i]
    <3>0. ~ (j - Len(l.seen) \in 1 .. k /\ seen[j] = rows[j - Len(l.seen)])
      BY <2>2, <2>3
    <3>1. j \in 1 .. Len(l.seen) /\ seen[j] = l.seen[j]
      BY <1>10, <3>0
    <3> QED
      BY <1>15, <2>3, <3>1
  <2>4. CASE i - Len(l.seen) \in 1 .. k /\ seen[i] = rows[i - Len(l.seen)]
    <3>0. ~ (j \in 1 .. Len(l.seen) /\ seen[j] = l.seen[j])
      BY <2>2, <2>4
    <3>1. j - Len(l.seen) \in 1 .. k /\ seen[j] = rows[j - Len(l.seen)]
      BY <1>10, <3>0
    <3>2. i - Len(l.seen) = j - Len(l.seen)
      BY <1>14, <2>4, <3>1
    <3> QED
      BY <1>9, <2>1, <3>2
  <2> QED
    BY <1>10, <2>3, <2>4
<1>17. \A id \in Range(l.seen) : id \in Range(seen)
  <2>1. DOMAIN l.seen = 1 .. Len(l.seen)
    BY <1>9
  <2> QED
    BY <1>10, <2>1 DEF Range
<1>18. \A i \in 1 .. k : rows[i] \in Range(seen)
  BY <1>10 DEF Range
<1>0. l.due \subseteq Ids /\ \A id \in l.due : Matches(id, l.filter) \/ Gone(l.filter, id)
  BY DEF ListOK
<1>19. ASSUME more PROVE ListOK(n)
  <2>1. n.pc = "pages" /\ n.token = rows[k] /\ k \in 1 .. k
    BY <1>2, <1>7, <1>8, <1>19
  <2>2. n.token \in Ids /\ n.token # Unset
    BY <1>11, <2>1, OlderIsOrder
  <2>3. \A i \in DOMAIN seen : seen[i] = rows[k] \/ Older(rows[k], seen[i])
    <3> SUFFICES ASSUME NEW i \in DOMAIN seen PROVE seen[i] = rows[k] \/ Older(rows[k], seen[i])
      OBVIOUS
    <3>1. CASE i \in 1 .. Len(l.seen) /\ seen[i] = l.seen[i]
      BY <1>13, <2>1, <3>1
    <3>2. CASE i - Len(l.seen) \in 1 .. k /\ seen[i] = rows[i - Len(l.seen)]
      <4>1. i - Len(l.seen) = k \/ i - Len(l.seen) < k
        BY <2>1, <3>2
      <4> QED
        BY <1>4, <1>11, <2>1, <3>2, <4>1
    <3> QED
      BY <1>10, <3>1, <3>2
  <2>4. ASSUME NEW id \in l.due
        PROVE  id \in Range(seen) \/ Gone(l.filter, id) \/ Older(id, rows[k])
    <3>1. CASE id \in S
      <4>1. PICK i \in 1 .. Len(rows) : rows[i] = id
        BY <1>4, <3>1
      <4>2. i \in 1 .. k \/ k < i
        BY <1>4, <1>7
      <4> QED
        BY <1>4, <1>11, <1>18, <2>1, <4>1, <4>2
    <3> QED
      BY <1>6, <1>17, <2>4, <3>1
  <2> QED
    <3>1. n.seen \in Seq(Ids) /\ n.due \subseteq Ids /\ n.pc = "pages" /\ n.token # Unset /\ n.token \in Ids
      BY <1>0, <1>2, <1>10, <2>1, <2>2
    <3>2. \A i, j \in DOMAIN n.seen : n.seen[i] = n.seen[j] => i = j
      BY <1>2, <1>16
    <3>3. \A id \in n.due : Matches(id, n.filter) \/ Gone(n.filter, id)
      BY <1>0, <1>2
    <3>4. \A i \in DOMAIN n.seen : n.seen[i] = n.token \/ Older(n.token, n.seen[i])
      BY <1>2, <2>1, <2>3
    <3>5. \A id \in n.due : id \in Range(n.seen) \/ Gone(n.filter, id) \/ Older(id, n.token)
      BY <1>2, <2>1, <2>4
    <3> QED
      BY <3>1, <3>2, <3>3, <3>4, <3>5 DEF ListOK
<1>20. ASSUME ~ more PROVE ListOK(n)
  <2>1. n.pc = "done"
    BY <1>2, <1>20
  <2>2. \A id \in l.due : id \in Range(seen) \/ Gone(l.filter, id)
    BY <1>4, <1>6, <1>7, <1>17, <1>18, <1>20
  <2> QED
    BY <1>0, <1>2, <1>10, <1>16, <2>1, <2>2 DEF ListOK
<1>21. ListOK(n)
  BY <1>19, <1>20
<1> QED
  BY <1>1, <1>21, ListMoves

ListInv == RegistryInv /\ ListOK(listing)

LEMMA ListInit == Init => ListInv
<1> SUFFICES ASSUME Init PROVE ListInv
  OBVIOUS
<1>1. NotListing.pc = "idle" /\ NotListing.seen = <<>> /\ NotListing.due = {}
  BY DEF NotListing
<1>2. ListOK(NotListing)
  BY <1>1 DEF ListOK
<1> QED
  BY <1>2, RegistryInit DEF ListInv, Init

LEMMA ListStep == ListInv /\ [Next]_vars => ListInv'
<1> SUFFICES ASSUME ListInv, [Next]_vars PROVE ListInv'
  OBVIOUS
<1>1. RegistryInv' /\ TableInv /\ now \in Nat /\ now' \in Nat
  BY RegistryStep DEF ListInv, RegistryInv, RefInv
<1>2. ASSUME UNCHANGED <<instruments, listing>>, now <= now' PROVE ListOK(listing)'
  BY <1>1, <1>2, ListUndisturbed DEF ListInv, Ids
<1>3. ASSUME RefNext PROVE ListOK(listing)'
  <2>1. now <= now'
    <3>1. CASE Tick
      BY <1>1, <3>1 DEF Tick
    <3>2. ASSUME ~ Tick PROVE UNCHANGED now
      BY <1>3, <3>2 DEF RefNext, UpsertGame, UpsertPlayer, LoadPlayers, LoadGames, RefreshFails
    <3> QED
      BY <1>1, <3>1, <3>2
  <2> QED
    BY <1>2, <1>3, <2>1, RefKeeps
<1>4. ASSUME NEW c \in Calls, CallNext(c) PROVE ListOK(listing)'
  <2>1. Ids \subseteq Ids' /\ \A id \in Ids : instruments'[id] = instruments[id]
    BY <1>4, CallStep DEF ListInv, RegistryInv, Ids
  <2>2. UNCHANGED listing /\ now <= now'
    BY <1>1, <1>4, CallKeeps
  <2> QED
    BY <1>1, <2>1, <2>2, ListUndisturbed DEF ListInv
<1>5. ASSUME ListNext PROVE ListOK(listing)'
  BY <1>1, <1>5, ListStartStep, ListPageStep DEF ListInv, ListNext
<1>6. ASSUME UNCHANGED vars PROVE ListOK(listing)'
  BY <1>1, <1>2, <1>6 DEF vars
<1> QED
  BY <1>1, <1>3, <1>4, <1>5, <1>6, NextCases DEF ListInv

(* A client that follows the page tokens is given everything that was stored *)
(* when it began and has not expired, and nothing twice, for any page size,  *)
(* any number of instruments and creations in any order meanwhile.           *)
THEOREM ListingIsComplete == Spec => []ListsEachOnce
<1>1. ListInv => ListsEachOnce
  BY DEF ListInv, ListOK, ListsEachOnce, Gone
<1> QED
  BY <1>1, ListInit, ListStep, PTL DEF Spec
=============================================================================
