--------------------------- MODULE WatcherProofs ---------------------------
(***************************************************************************)
(* Watcher proved for any nodes, deposits, amounts, faults and length of   *)
(* the chain: the table btc_deposits never claims what the cashier has not *)
(* done, keeps what is confirmed, and misses no deposit of the chain.  The *)
(* invariants say what a node may rely on between the query that listed a  *)
(* row, the call and the mark, while everybody else changes the table, and *)
(* what the events still before a node will do to it.                      *)
(***************************************************************************)
EXTENDS Watcher, SequenceTheorems, TLAPS

(* The state MarksAreTrue depends on. *)
Shape ==
  /\ rows \in [Deposits -> Row]
  /\ pc \in [Nodes -> Labels]
  /\ todo \in [Nodes -> SUBSET Deposits]
  /\ cur \in [Nodes -> Deposits \cup {None}]

(* The rows a node lists for cancelling or confirming were escrowed when   *)
(* it listed them, and the row it is about to mark has had its call.       *)
ListsAreTrue ==
  \A n \in Nodes :
    /\ pc[n] \in {"cancel", "confirm"} => \A d \in todo[n] : Done("depositEscrowed", d)
    /\ cur[n] # None => /\ pc[n] \in {"escrow", "cancel", "confirm"}
                        /\ Done(Operation[pc[n]], cur[n])

MarksInv == Shape /\ ListsAreTrue /\ MarksAreTrue

(* The events that nodes take from the chain. *)
EventsTyped ==
  /\ chain \in Seq(SUBSET Deposits)
  /\ log \in Seq([connected : BOOLEAN, height : Nat, txs : SUBSET Deposits])
  /\ pos \in [Nodes -> Nat]

(* A request that takes effect adds its key and no other. *)
LEMMA ApplyAddsKey ==
  ASSUME NEW r, Cashier!Apply(r) PROVE applied' = applied \cup {r}
  BY DEF Cashier!Apply

(* A request is known by its operation and its deposit: adding a key       *)
(* decides one request.                                                    *)
LEMMA KeyAdded ==
  ASSUME NEW op1, NEW d1 \in Deposits, applied' = applied \cup {Request(op1, d1)}
  PROVE  \A op, d : Done(op, d)' <=> Done(op, d) \/ (op = op1 /\ d = d1)
  BY DEF Done, Request

(* There is no row and no node at work. *)
LEMMA MarksInit == Init => MarksInv
  BY DepositsAssumption
  DEF Init, MarksInv, Shape, ListsAreTrue, MarksAreTrue, Done, NoRow, Row, Labels

(* A step that leaves the keys and the work of all nodes alone, and whose  *)
(* rows claim nothing new, keeps the invariant.                            *)
LEMMA RowsOnly ==
  ASSUME MarksInv, rows' \in [Deposits -> Row],
         \A d \in Deposits : /\ rows'[d].escrowed => rows[d].escrowed
                             /\ rows'[d].confirmed => rows[d].confirmed,
         UNCHANGED <<applied, todo, cur>>, pc' \in [Nodes -> Labels],
         \A n \in Nodes : pc'[n] = pc[n] \/ (cur[n] = None /\ pc'[n] \notin {"cancel", "confirm"})
  PROVE  MarksInv'
  BY DEF MarksInv, Shape, ListsAreTrue, MarksAreTrue, Done, Request
(* Insert keeps the flags of a row that is there, and starts with none. *)
LEMMA InsertedClaimsNothing ==
  ASSUME NEW row \in Row, NEW h \in Nat
  PROVE  /\ Inserted(row, h) \in Row
         /\ Inserted(row, h).escrowed => row.escrowed
         /\ Inserted(row, h).confirmed => row.confirmed
  BY DEF Inserted, Row, NoRow

(* A mark claims what its own call did, and nothing else. *)
LEMMA MarkedClaims ==
  ASSUME NEW row \in Row
  PROVE  /\ /\ Marked(row, "escrow") \in Row
            /\ Marked(row, "escrow").confirmed => row.confirmed
         /\ /\ Marked(row, "confirm") \in Row
            /\ Marked(row, "confirm").escrowed => row.escrowed
         /\ /\ Marked(row, "cancel") \in Row
            /\ ~Marked(row, "cancel").escrowed /\ ~Marked(row, "cancel").confirmed
<1>1. /\ Marked(row, "escrow") = IF row.present THEN [row EXCEPT !.escrowed = TRUE] ELSE row
      /\ Marked(row, "confirm") = IF row.present THEN [row EXCEPT !.confirmed = TRUE] ELSE row
      /\ Marked(row, "cancel") = NoRow
  BY DEF Marked
<1>2. NoRow \in Row /\ ~NoRow.escrowed /\ ~NoRow.confirmed
  BY DEF Row, NoRow
<1>3. /\ [row EXCEPT !.escrowed = TRUE] \in Row
      /\ [row EXCEPT !.escrowed = TRUE].confirmed = row.confirmed
  BY DEF Row
<1>4. /\ [row EXCEPT !.confirmed = TRUE] \in Row
      /\ [row EXCEPT !.confirmed = TRUE].escrowed = row.escrowed
  BY DEF Row
<1> QED
  BY <1>1, <1>2, <1>3, <1>4

(* The actions that do not talk to the cashier: block events, the table,   *)
(* leadership and restarts.                                                *)
LEMMA QuietStep ==
  ASSUME MarksInv, NEW n \in Nodes,
         pos[n] < Len(log) => NextEvent(n).height \in Nat,
         \/ TakeEvent(n) \/ Tick(n) \/ BecomeLeader(n) \/ Restart(n)
         \/ DeleteUnescrowed(n) \/ HandlerDone(n)
  PROVE  MarksInv'
<1> USE DEF MarksInv, Shape
<1>1. CASE BlockConnected(n)
  <2>1. PICK ok \in SUBSET NextEvent(n).txs :
          rows' = [d \in Deposits |-> IF d \in ok THEN Inserted(rows[d], NextEvent(n).height)
                                     ELSE rows[d]]
    BY <1>1 DEF BlockConnected
  <2>2. /\ rows' \in [Deposits -> Row]
        /\ \A d \in Deposits : /\ rows'[d].escrowed => rows[d].escrowed
                               /\ rows'[d].confirmed => rows[d].confirmed
    BY <1>1, <2>1, InsertedClaimsNothing DEF BlockConnected
  <2>3. cur[n] = None
    BY <1>1 DEF BlockConnected, ListsAreTrue
  <2> QED
    BY <1>1, <2>2, <2>3, RowsOnly DEF BlockConnected, Goto, Labels
<1>2. CASE BlockDisconnected(n)
  <2>1. cur[n] = None
    BY <1>2 DEF BlockDisconnected, ListsAreTrue
  <2> QED
    BY <1>2, <2>1, RowsOnly DEF BlockDisconnected, Goto, Labels, Row
<1>3. CASE DisconnectFails(n)
  BY <1>3, RowsOnly DEF DisconnectFails, database
<1>4. CASE Tick(n)
  <2>1. cur[n] = None
    BY <1>4 DEF Tick, ListsAreTrue
  <2> QED
    BY <1>4, <2>1, RowsOnly DEF Tick, Goto, Labels, database
<1>5. CASE BecomeLeader(n)
  BY <1>5, RowsOnly DEF BecomeLeader, database
<1>6. CASE Restart(n)
  <2>1. cur[n] = None
    BY <1>6 DEF Restart, ListsAreTrue
  <2> QED
    BY <1>6, <2>1, RowsOnly DEF Restart, Goto, Labels, database
<1>7. CASE DeleteUnescrowed(n)
  <2>1. cur[n] = None
    BY <1>7 DEF DeleteUnescrowed, ListsAreTrue
  <2>2. /\ rows' \in [Deposits -> Row]
        /\ \A d \in Deposits : /\ rows'[d].escrowed => rows[d].escrowed
                               /\ rows'[d].confirmed => rows[d].confirmed
    <3>1. NoRow \in Row /\ ~NoRow.escrowed /\ ~NoRow.confirmed
      BY DEF Row, NoRow
    <3>2. \A d \in Deposits : rows'[d] \in {rows[d], NoRow}
      BY <1>7 DEF DeleteUnescrowed
    <3>3. rows' \in [Deposits -> Row]
      BY <1>7, <3>1 DEF DeleteUnescrowed
    <3> QED
      BY <3>1, <3>2, <3>3
  <2> QED
    BY <1>7, <2>1, <2>2, RowsOnly DEF DeleteUnescrowed, BackToLoop, Goto, Labels
<1>8. CASE HandlerDone(n)
  BY <1>8, RowsOnly DEF HandlerDone, LoopOver, BackToLoop, Goto, Labels, database
<1> QED
  BY <1>1, <1>2, <1>3, <1>4, <1>5, <1>6, <1>7, <1>8 DEF TakeEvent

(* A call that takes effect confirms or cancels an escrowed deposit only.  *)
LEMMA CallKeepsMarks ==
  ASSUME MarksInv, NEW n \in Nodes, NEW d \in todo[n],
         pc[n] \in DOMAIN Operation, UNCHANGED rows,
         applied' = applied \cup {Request(Operation[pc[n]], d)}
  PROVE  MarksAreTrue'
<1> USE DEF MarksInv, Shape
<1>1. d \in Deposits
  OBVIOUS
<1>2. \A op, e : Done(op, e)' <=> Done(op, e) \/ (op = Operation[pc[n]] /\ e = d)
  BY <1>1, KeyAdded
<1>3. Operation[pc[n]] = "depositEscrowed" \/ Done("depositEscrowed", d)
  BY DEF Operation, ListsAreTrue
<1> QED
  BY <1>2, <1>3 DEF MarksAreTrue

(* The three queries, and the steps of the three loops. *)
LEMMA CashierStep ==
  ASSUME MarksInv, NEW n \in Nodes,
         \/ ListNotEscrowed(n) \/ ListReorgedEscrowed(n) \/ ListReadyToConfirm(n)
         \/ \E d \in Deposits : CallSucceeds(n, d) \/ CallRefused(n, d) \/ CallFails(n, d)
         \/ Mark(n)
  PROVE  MarksInv'
<1> USE DEF MarksInv, Shape
<1>1. CASE ListNotEscrowed(n)
  <2>1. cur[n] = None
    BY <1>1 DEF ListNotEscrowed, ListsAreTrue
  <2> QED
    BY <1>1, <2>1 DEF ListNotEscrowed, Listed, Goto, Labels, database,
                      ListsAreTrue, MarksAreTrue, Done, Request
<1>2. CASE ListReorgedEscrowed(n)
  <2>1. /\ \A d \in todo'[n] : d \in Deposits /\ rows[d].escrowed
        /\ \E found \in SUBSET Deposits : todo' = [todo EXCEPT ![n] = found]
        /\ cur[n] = None /\ cur' = cur
        /\ pc' = [pc EXCEPT ![n] = "cancel"]
        /\ UNCHANGED <<rows, applied>>
    BY <1>2 DEF ListReorgedEscrowed, Listed, LoopOver, Goto, database
  <2> QED
    BY <2>1 DEF Labels, ListsAreTrue, MarksAreTrue, Done, Request
<1>3. CASE ListReadyToConfirm(n)
  <2>1. /\ \A d \in todo'[n] : d \in Deposits /\ rows[d].escrowed
        /\ \E found \in SUBSET Deposits : todo' = [todo EXCEPT ![n] = found]
        /\ cur[n] = None /\ cur' = cur
        /\ pc' = [pc EXCEPT ![n] = "confirm"]
        /\ UNCHANGED <<rows, applied>>
    BY <1>3 DEF ListReadyToConfirm, Listed, LoopOver, Goto, database
  <2> QED
    BY <2>1 DEF Labels, ListsAreTrue, MarksAreTrue, Done, Request
<1>4. ASSUME NEW d \in Deposits, CallSucceeds(n, d) PROVE MarksInv'
  <2>1. applied' = applied \cup {Request(Operation[pc[n]], d)}
    BY <1>4, ApplyAddsKey DEF CallSucceeds
  <2>2. Shape'
    BY <1>4 DEF CallSucceeds, Took
  <2>3. ListsAreTrue'
    BY <1>4, <2>1 DEF CallSucceeds, Took, ListsAreTrue, Done, Request, Operation
  <2>4. MarksAreTrue'
    BY <1>4, <2>1, CallKeepsMarks DEF CallSucceeds
  <2> QED
    BY <2>2, <2>3, <2>4
<1>5. ASSUME NEW d \in Deposits, CallRefused(n, d) PROVE MarksInv'
  BY <1>5 DEF CallRefused, Took, database, ListsAreTrue, MarksAreTrue, Done, Request
<1>6. ASSUME NEW d \in Deposits, CallFails(n, d) PROVE MarksInv'
  <2>1. applied' = applied \/ applied' = applied \cup {Request(Operation[pc[n]], d)}
    BY <1>6, ApplyAddsKey DEF CallFails
  <2>2. Shape'
    BY <1>6 DEF CallFails, Took
  <2>3. ListsAreTrue'
    BY <1>6, <2>1 DEF CallFails, Took, ListsAreTrue, Done, Request, Operation
  <2>4. MarksAreTrue'
    <3>1. CASE applied' = applied
      BY <1>6, <3>1 DEF CallFails, MarksAreTrue, Done, Request
    <3>2. CASE applied' = applied \cup {Request(Operation[pc[n]], d)}
      BY <1>6, <3>2, CallKeepsMarks DEF CallFails
    <3> QED
      BY <2>1, <3>1, <3>2
  <2> QED
    BY <2>2, <2>3, <2>4
<1>7. CASE Mark(n)
  <2>1. /\ pc[n] \in {"escrow", "cancel", "confirm"}
        /\ cur[n] \in Deposits
        /\ Done(Operation[pc[n]], cur[n])
    BY <1>7 DEF Mark, ListsAreTrue
  <2>2. /\ Marked(rows[cur[n]], pc[n]) \in Row
        /\ Marked(rows[cur[n]], pc[n]).escrowed =>
             rows[cur[n]].escrowed \/ Done("depositEscrowed", cur[n])
        /\ Marked(rows[cur[n]], pc[n]).confirmed =>
             rows[cur[n]].confirmed \/ Done("confirmDeposit", cur[n])
    <3>1. rows[cur[n]] \in Row
      BY <2>1
    <3>2. CASE pc[n] = "escrow"
      BY <2>1, <3>1, <3>2, MarkedClaims DEF Operation
    <3>3. CASE pc[n] = "cancel"
      BY <2>1, <3>1, <3>3, MarkedClaims DEF Operation
    <3>4. CASE pc[n] = "confirm"
      BY <2>1, <3>1, <3>4, MarkedClaims DEF Operation
    <3> QED
      BY <2>1, <3>2, <3>3, <3>4
  <2>3. Shape'
    BY <1>7, <2>1, <2>2 DEF Mark
  <2>4. ListsAreTrue'
    BY <1>7 DEF Mark, ListsAreTrue, Done, Request
  <2>5. MarksAreTrue'
    BY <1>7, <2>1, <2>2 DEF Mark, MarksAreTrue, Done, Request
  <2> QED
    BY <2>3, <2>4, <2>5
<1> QED
  BY <1>1, <1>2, <1>3, <1>4, <1>5, <1>6, <1>7

(* The chain and the events stay typed. *)
LEMMA EventsStep == EventsTyped /\ [Next]_vars => EventsTyped'
<1> SUFFICES ASSUME EventsTyped, [Next]_vars PROVE EventsTyped'
  OBVIOUS
<1> USE DEF EventsTyped
<1>1. ASSUME NEW txs \in SUBSET (Deposits \ Mined), Mine(txs) PROVE EventsTyped'
  BY <1>1 DEF Mine, node
<1>2. CASE Disconnect
  BY <1>2 DEF Disconnect, node
<1>3. CASE UNCHANGED <<chain, log, pos>>
  BY <1>3
<1>4. ASSUME NEW n \in Nodes, TakeEvent(n) \/ Restart(n) PROVE EventsTyped'
  BY <1>4 DEF TakeEvent, BlockConnected, BlockDisconnected, DisconnectFails, Restart, world
<1>5. ASSUME NEW n \in Nodes, Tick(n) \/ Work(n) \/ BecomeLeader(n) \/ Crash(n)
      PROVE  UNCHANGED <<chain, log, pos>>
  BY <1>5 DEF Tick, Work, BecomeLeader, Crash, DeleteUnescrowed, ListNotEscrowed,
              ListReorgedEscrowed, ListReadyToConfirm, Listed, CallSucceeds, CallRefused,
              CallFails, Mark, HandlerDone, world
<1>6. ASSUME NEW d \in Deposits, Age(d) PROVE UNCHANGED <<chain, log, pos>>
  BY <1>6 DEF Age, world, node
<1>7. CASE UNCHANGED vars
  BY <1>7 DEF vars, world, node
<1> QED
  BY <1>1, <1>2, <1>3, <1>4, <1>5, <1>6, <1>7 DEF Next, Chain

(* One step of the chain, of a node or of time. *)
LEMMA MarksStep == EventsTyped /\ MarksInv /\ [Next]_vars => MarksInv'
<1> SUFFICES ASSUME EventsTyped, MarksInv, [Next]_vars PROVE MarksInv'
  OBVIOUS
<1>1. CASE UNCHANGED <<rows, applied, pc, todo, cur>>
  BY <1>1 DEF MarksInv, Shape, ListsAreTrue, MarksAreTrue, Done, Request
<1>2. CASE Chain
  BY <1>1, <1>2 DEF Chain, Mine, Disconnect, database, node
<1>3. ASSUME NEW d \in Deposits, Age(d) PROVE MarksInv'
  <2>1. /\ rows' \in [Deposits -> Row]
        /\ \A e \in Deposits : /\ rows'[e].escrowed => rows[e].escrowed
                               /\ rows'[e].confirmed => rows[e].confirmed
    BY <1>3 DEF Age, MarksInv, Shape, Row
  <2> QED
    BY <1>3, <2>1, RowsOnly DEF Age, node, MarksInv, Shape
<1>4. ASSUME NEW n \in Nodes,
             TakeEvent(n) \/ Tick(n) \/ BecomeLeader(n) \/ Restart(n)
             \/ DeleteUnescrowed(n) \/ HandlerDone(n)
      PROVE  MarksInv'
  <2>1. pos[n] < Len(log) => NextEvent(n).height \in Nat
    <3> SUFFICES ASSUME pos[n] < Len(log) PROVE log[pos[n] + 1].height \in Nat
      BY DEF NextEvent
    <3>1. pos[n] + 1 \in 1 .. Len(log)
      BY DEF EventsTyped
    <3>2. log[pos[n] + 1] \in [connected : BOOLEAN, height : Nat, txs : SUBSET Deposits]
      BY <3>1, ElementOfSeq DEF EventsTyped
    <3> QED
      BY <3>2
  <2> QED
    BY <1>4, <2>1, QuietStep
<1>5. ASSUME NEW n \in Nodes, Work(n) PROVE MarksInv'
  BY <1>4, <1>5, CashierStep DEF Work
<1>6. ASSUME NEW n \in Nodes, Crash(n) PROVE MarksInv'
  BY <1>6 DEF Crash, Goto, Labels, database, MarksInv, Shape, ListsAreTrue, MarksAreTrue,
              Done, Request
<1>7. CASE UNCHANGED vars
  BY <1>1, <1>7 DEF vars, database, node
<1> QED
  BY <1>2, <1>3, <1>4, <1>5, <1>6, <1>7 DEF Next

(* For any number of nodes and leaders, any reorgs and any faults of the   *)
(* database, the cashier and the processes: a row of btc_deposits that     *)
(* says escrowed or confirmed has the cashier's call behind it, and the    *)
(* cashier is never asked to settle a deposit it did not escrow.           *)
THEOREM MarksCorrect == Spec => []MarksAreTrue
<1>1. Init => EventsTyped
  BY DEF Init, EventsTyped
<1>2. MarksInv => MarksAreTrue
  BY DEF MarksInv
<1> QED
  BY <1>1, <1>2, MarksInit, EventsStep, MarksStep, PTL DEF Spec

-----------------------------------------------------------------------------
(* Types: the balances stay natural numbers *)

(* The cashier keeps no more in escrow than there is. *)
Funded ==
  /\ balance \in [Users -> [exists : BOOLEAN, gross : Nat, escrowed : Nat]]
  /\ \A u \in Users : balance[u].escrowed <= balance[u].gross

(* What is left of TypeOK. *)
Rest ==
  /\ leading \in [Nodes -> BOOLEAN]
  /\ at \in [Nodes -> Nat]
  /\ faults \in Nat

(* What the next block event of a node looks like. *)
LEMMA NextEventTyped ==
  ASSUME EventsTyped, NEW n \in Nodes, pos[n] < Len(log)
  PROVE  /\ pos[n] + 1 \in 1 .. Len(log)
         /\ NextEvent(n) \in [connected : BOOLEAN, height : Nat, txs : SUBSET Deposits]
<1>1. pos[n] + 1 \in 1 .. Len(log)
  BY DEF EventsTyped
<1> QED
  BY <1>1, ElementOfSeq DEF EventsTyped, NextEvent

(* A request of a node, if it takes effect, keeps the account funded: a     *)
(* confirmation or a cancellation finds its amount in escrow.               *)
LEMMA ApplyFunds ==
  ASSUME Funded, NEW op \in {"depositEscrowed", "confirmDeposit", "cancelDeposit"},
         NEW d \in Deposits, Cashier!Apply(Request(op, d))
  PROVE  Funded'
<1> DEFINE u == Owner[d]
           a == Satoshis[d]
           b == balance[u]
<1>1. u \in Users /\ a \in Nat
  BY DepositsAssumption
<1>2. b \in [exists : BOOLEAN, gross : Nat, escrowed : Nat] /\ b.escrowed <= b.gross
  BY <1>1 DEF Funded
<1>3. PICK g \in Nat, e \in Nat :
        /\ e <= g
        /\ balance' = [balance EXCEPT ![u] = [exists |-> TRUE, gross |-> g, escrowed |-> e]]
  <2>1. CASE op = "depositEscrowed"
    <3>1. balance' = [balance EXCEPT ![u] = [exists |-> TRUE, gross |-> b.gross + a,
                                             escrowed |-> b.escrowed + a]]
      BY <2>1, <1>1 DEF Cashier!Apply, Cashier!Move, Request, Funded
    <3>2. b.gross + a \in Nat /\ b.escrowed + a \in Nat /\ b.escrowed + a <= b.gross + a
      BY <1>1, <1>2
    <3> QED
      BY <3>1, <3>2
  <2>2. CASE op = "confirmDeposit"
    <3>1. /\ balance' = [balance EXCEPT ![u] = [exists |-> TRUE, gross |-> b.gross + 0,
                                                escrowed |-> b.escrowed + -a]]
          /\ b.escrowed >= a
      BY <2>2, <1>1 DEF Cashier!Apply, Cashier!Move, Request, Funded
    <3>2. b.gross + 0 \in Nat /\ b.escrowed + -a \in Nat /\ b.escrowed + -a <= b.gross + 0
      BY <1>1, <1>2, <3>1
    <3> QED
      BY <3>1, <3>2
  <2>3. CASE op = "cancelDeposit"
    <3>1. /\ balance' = [balance EXCEPT ![u] = [exists |-> TRUE, gross |-> b.gross + -a,
                                                escrowed |-> b.escrowed + -a]]
          /\ b.escrowed >= a
      BY <2>3, <1>1 DEF Cashier!Apply, Cashier!Move, Request, Funded
    <3>2. b.gross + -a \in Nat /\ b.escrowed + -a \in Nat /\ b.escrowed + -a <= b.gross + -a
      BY <1>1, <1>2, <3>1
    <3> QED
      BY <3>1, <3>2
  <2> QED
    BY <2>1, <2>2, <2>3
<1> HIDE DEF u, a, b
<1> QED
  BY <1>1, <1>3 DEF Funded

(* Only the two calls that reach the cashier change balances. *)
LEMMA FundedStep == MarksInv /\ Funded /\ [Next]_vars => Funded'
<1> SUFFICES ASSUME MarksInv, Funded, [Next]_vars PROVE Funded'
  OBVIOUS
<1>1. CASE UNCHANGED balance
  BY <1>1 DEF Funded
<1>2. ASSUME NEW n \in Nodes, NEW d \in Deposits, CallSucceeds(n, d) \/ CallFails(n, d)
      PROVE  Funded'
  <2>1. Operation[pc[n]] \in {"depositEscrowed", "confirmDeposit", "cancelDeposit"}
    BY <1>2 DEF CallSucceeds, CallFails, Operation
  <2>2. UNCHANGED balance \/ Cashier!Apply(Request(Operation[pc[n]], d))
    BY <1>2 DEF CallSucceeds, CallFails
  <2>3. PICK op \in {"depositEscrowed", "confirmDeposit", "cancelDeposit"} : op = Operation[pc[n]]
    BY <2>1
  <2> QED
    BY <1>1, <2>2, <2>3, ApplyFunds
<1>3. CASE Chain
  BY <1>1, <1>3 DEF Chain, Mine, Disconnect, database
<1>4. ASSUME NEW d \in Deposits, Age(d) PROVE Funded'
  BY <1>1, <1>4 DEF Age
<1>5. ASSUME NEW n \in Nodes, TakeEvent(n) \/ Tick(n) \/ BecomeLeader(n) \/ Restart(n) \/ Crash(n)
      PROVE  Funded'
  BY <1>1, <1>5 DEF TakeEvent, BlockConnected, BlockDisconnected, DisconnectFails, Tick,
                    BecomeLeader, Restart, Crash, database
<1>6. ASSUME NEW n \in Nodes, Work(n) PROVE Funded'
  BY <1>1, <1>2, <1>6 DEF Work, DeleteUnescrowed, ListNotEscrowed, ListReorgedEscrowed,
                         ListReadyToConfirm, Listed, CallRefused, Mark, HandlerDone, database
<1>7. CASE UNCHANGED vars
  BY <1>1, <1>7 DEF vars, database
<1> QED
  BY <1>3, <1>4, <1>5, <1>6, <1>7 DEF Next

(* Leadership, heights and the count of faults. *)
LEMMA RestStep == EventsTyped /\ Rest /\ [Next]_vars => Rest'
<1> SUFFICES ASSUME EventsTyped, Rest, [Next]_vars PROVE Rest'
  OBVIOUS
<1> USE DEF Rest
<1>1. CASE UNCHANGED <<leading, at, faults>>
  BY <1>1
<1>2. CASE Chain
  BY <1>1, <1>2 DEF Chain, Mine, Disconnect, node
<1>3. ASSUME NEW d \in Deposits, Age(d) PROVE Rest'
  BY <1>1, <1>3 DEF Age, node
<1>4. ASSUME NEW n \in Nodes, TakeEvent(n) PROVE Rest'
  <2>1. NextEvent(n).height \in Nat
    BY <1>4, NextEventTyped DEF TakeEvent, BlockConnected, BlockDisconnected, DisconnectFails
  <2>2. leading' = leading
    BY <1>4 DEF TakeEvent, BlockConnected, BlockDisconnected, DisconnectFails
  <2>3. faults' \in Nat
    BY <1>4 DEF TakeEvent, BlockConnected, BlockDisconnected, DisconnectFails, Fault
  <2>4. at' = at \/ at' = [at EXCEPT ![n] = NextEvent(n).height]
    BY <1>4 DEF TakeEvent, BlockConnected, BlockDisconnected, DisconnectFails
  <2> QED
    BY <2>1, <2>2, <2>3, <2>4
<1>5. ASSUME NEW n \in Nodes, Tick(n) \/ BecomeLeader(n) \/ Restart(n) \/ Crash(n) PROVE Rest'
  <2>1. CASE Tick(n) \/ Restart(n)
    BY <1>1, <2>1 DEF Tick, Restart
  <2>2. CASE BecomeLeader(n)
    BY <2>2 DEF BecomeLeader
  <2>3. CASE Crash(n)
    BY <2>3 DEF Crash, Fault
  <2> QED
    BY <1>5, <2>1, <2>2, <2>3
<1>6. ASSUME NEW n \in Nodes, Work(n) PROVE Rest'
  <2>1. leading' = leading
    BY <1>6 DEF Work, DeleteUnescrowed, ListNotEscrowed, ListReorgedEscrowed, ListReadyToConfirm,
                Listed, CallSucceeds, CallRefused, CallFails, Mark, HandlerDone
  <2>2. at' = at \/ at' = [at EXCEPT ![n] = 0]
    BY <1>6 DEF Work, DeleteUnescrowed, ListNotEscrowed, ListReorgedEscrowed, ListReadyToConfirm,
                Listed, CallSucceeds, CallRefused, CallFails, Mark, HandlerDone, BackToLoop
  <2>3. faults' = faults \/ faults' = faults + 1
    BY <1>6 DEF Work, DeleteUnescrowed, ListNotEscrowed, ListReorgedEscrowed, ListReadyToConfirm,
                Listed, CallSucceeds, CallRefused, CallFails, Mark, HandlerDone, Fault
  <2> QED
    BY <2>1, <2>2, <2>3
<1>7. CASE UNCHANGED vars
  BY <1>1, <1>7 DEF vars, node
<1> QED
  BY <1>2, <1>3, <1>4, <1>5, <1>6, <1>7 DEF Next

(* The invariants so far. *)
Typed == EventsTyped /\ MarksInv /\ Funded /\ Rest

LEMMA TypedInvariant == Spec => []Typed
<1>1. Init => Typed
  BY MarksInit DEF Init, Typed, EventsTyped, Funded, Rest, Cashier!Empty
<1>2. Typed /\ [Next]_vars => Typed'
  BY EventsStep, MarksStep, FundedStep, RestStep DEF Typed
<1> QED
  BY <1>1, <1>2, PTL DEF Spec

(* For any nodes, faults and reorgs the state of the watcher stays what the *)
(* code declares; above all, confirming and cancelling never make a balance *)
(* of the cashier negative.                                                 *)
THEOREM TypeCorrect == Spec => []TypeOK
<1>1. Typed => TypeOK
  BY DEF Typed, EventsTyped, MarksInv, Shape, Funded, Rest, TypeOK
<1> QED
  BY <1>1, TypedInvariant, PTL


-----------------------------------------------------------------------------
(* Confirmed rows stay *)

(* As long as no reorged row gets old there is nothing to cancel: no row   *)
(* is listed for it, so none is deleted by MarkCancelled.                  *)
NothingOld ==
  /\ \A d \in Deposits : rows[d].reorged # "old"
  /\ \A n \in Nodes : pc[n] = "cancel" => LoopOver(n)

(* The ways a step can change rows: the block events, and the marks of the *)
(* first and the last loop.                                                *)
LEMMA RowChanges ==
  ASSUME Typed, NothingOld, "age" \notin Faults, [Next]_vars
  PROVE  \/ UNCHANGED rows
         \/ \E n \in Nodes : BlockConnected(n)
         \/ \E n \in Nodes : BlockDisconnected(n)
         \/ \E n \in Nodes : DeleteUnescrowed(n)
         \/ \E n \in Nodes : /\ Mark(n) /\ pc[n] \in {"escrow", "confirm"} /\ cur[n] \in Deposits
                             /\ rows' = [rows EXCEPT ![cur[n]] = Marked(@, pc[n])]
<1>1. CASE UNCHANGED vars \/ Chain
  BY <1>1 DEF vars, Chain, Mine, Disconnect, database
<1>2. ASSUME NEW d \in Deposits, Age(d) PROVE FALSE
  BY <1>2 DEF Age
<1>3. ASSUME NEW n \in Nodes, TakeEvent(n) PROVE UNCHANGED rows \/ BlockConnected(n) \/ BlockDisconnected(n)
  BY <1>3 DEF TakeEvent, DisconnectFails, database
<1>4. ASSUME NEW n \in Nodes, Tick(n) \/ BecomeLeader(n) \/ Restart(n) \/ Crash(n) PROVE UNCHANGED rows
  BY <1>4 DEF Tick, BecomeLeader, Restart, Crash, database
<1>5. ASSUME NEW n \in Nodes, Work(n), ~Mark(n), ~DeleteUnescrowed(n) PROVE UNCHANGED rows
  BY <1>5 DEF Work, ListNotEscrowed, ListReorgedEscrowed, ListReadyToConfirm, Listed, CallSucceeds,
              CallRefused, CallFails, HandlerDone, database
<1>6. ASSUME NEW n \in Nodes, Mark(n)
      PROVE  /\ pc[n] \in {"escrow", "confirm"} /\ cur[n] \in Deposits
             /\ UNCHANGED rows \/ rows' = [rows EXCEPT ![cur[n]] = Marked(@, pc[n])]
  <2>1. cur[n] # None /\ pc[n] \in {"escrow", "cancel", "confirm"} /\ cur[n] \in Deposits
    BY <1>6 DEF Mark, Typed, MarksInv, Shape, ListsAreTrue
  <2>2. pc[n] # "cancel"
    BY <2>1 DEF NothingOld, LoopOver
  <2> QED
    BY <1>6, <2>1, <2>2 DEF Mark
<1> QED
  BY <1>1, <1>2, <1>3, <1>4, <1>5, <1>6 DEF Next

(* Insert, the two deletes and the two marks, row by row. *)
LEMMA RowFates ==
  ASSUME NEW row \in Row, NEW h \in Nat
  PROVE  /\ Inserted(row, h).reorged \in {row.reorged, "no"}
         /\ row.present => Inserted(row, h).confirmed = row.confirmed
         /\ row.present /\ row.reorged = "no" => Inserted(row, h) = row
         /\ ~(row.present /\ row.reorged = "no") =>
              /\ Inserted(row, h).present /\ Inserted(row, h).reorged = "no"
              /\ Inserted(row, h).height = h
         /\ \A loop \in {"escrow", "confirm"} :
              LET r == Marked(row, loop)
              IN  /\ r.present = row.present /\ r.reorged = row.reorged /\ r.height = row.height
                  /\ row.escrowed => r.escrowed
                  /\ row.confirmed => r.confirmed
<1>1. /\ Marked(row, "escrow") = IF row.present THEN [row EXCEPT !.escrowed = TRUE] ELSE row
      /\ Marked(row, "confirm") = IF row.present THEN [row EXCEPT !.confirmed = TRUE] ELSE row
  BY DEF Marked
<1>2. \A loop \in {"escrow", "confirm"} :
        LET r == Marked(row, loop)
        IN  /\ r.present = row.present /\ r.reorged = row.reorged /\ r.height = row.height
            /\ row.escrowed => r.escrowed
            /\ row.confirmed => r.confirmed
  BY <1>1 DEF Row
<1>3. /\ Inserted(row, h).reorged \in {row.reorged, "no"}
      /\ row.present => Inserted(row, h).confirmed = row.confirmed
      /\ row.present /\ row.reorged = "no" => Inserted(row, h) = row
      /\ ~(row.present /\ row.reorged = "no") =>
           /\ Inserted(row, h).present /\ Inserted(row, h).reorged = "no"
           /\ Inserted(row, h).height = h
  BY DEF Inserted, NoRow, Row
<1> QED
  BY <1>2, <1>3

(* A flag is set in a row that is there only. *)
FlagsNeedRow == \A d \in Deposits : rows[d].escrowed \/ rows[d].confirmed => rows[d].present

Uncancelled == NothingOld /\ FlagsNeedRow

(* What a step makes of each single row. *)
LEMMA RowBecomes ==
  ASSUME Typed, Uncancelled, "age" \notin Faults, [Next]_vars, NEW d \in Deposits
  PROVE  /\ rows'[d].reorged # "old"
         /\ rows'[d].escrowed \/ rows'[d].confirmed => rows'[d].present
         /\ rows[d].confirmed => rows'[d].confirmed
<1> USE DEF Uncancelled, NothingOld, FlagsNeedRow
<1>0. rows \in [Deposits -> Row] /\ rows[d] \in Row
  BY DEF Typed, MarksInv, Shape
<1>1. CASE UNCHANGED rows
  BY <1>1
<1>2. ASSUME NEW n \in Nodes, BlockConnected(n)
      PROVE  /\ rows'[d].reorged # "old"
             /\ rows'[d].escrowed \/ rows'[d].confirmed => rows'[d].present
             /\ rows[d].confirmed => rows'[d].confirmed
  <2>1. NextEvent(n).height \in Nat
    BY <1>2, NextEventTyped DEF BlockConnected, Typed
  <2>2. PICK h \in Nat : rows'[d] \in {rows[d], Inserted(rows[d], h)}
    BY <1>2, <2>1 DEF BlockConnected
  <2>3. CASE rows'[d] = rows[d]
    BY <2>3
  <2>4. CASE rows'[d] = Inserted(rows[d], h)
    BY <1>0, <2>4, RowFates
  <2> QED
    BY <2>2, <2>3, <2>4
<1>3. ASSUME NEW n \in Nodes, BlockDisconnected(n)
      PROVE  /\ rows'[d].reorged # "old"
             /\ rows'[d].escrowed \/ rows'[d].confirmed => rows'[d].present
             /\ rows[d].confirmed => rows'[d].confirmed
  <2>1. rows'[d] \in {rows[d], [rows[d] EXCEPT !.reorged = "recent"]}
    BY <1>3 DEF BlockDisconnected
  <2> QED
    BY <1>0, <2>1 DEF Row
<1>4. ASSUME NEW n \in Nodes, DeleteUnescrowed(n)
      PROVE  /\ rows'[d].reorged # "old"
             /\ rows'[d].escrowed \/ rows'[d].confirmed => rows'[d].present
             /\ rows[d].confirmed => rows'[d].confirmed
  <2>1. rows'[d] = rows[d] \/ (rows'[d] = NoRow /\ ~rows[d].confirmed)
    BY <1>4 DEF DeleteUnescrowed
  <2> QED
    BY <2>1 DEF NoRow
<1>5. ASSUME NEW n \in Nodes, pc[n] \in {"escrow", "confirm"}, cur[n] \in Deposits,
             rows' = [rows EXCEPT ![cur[n]] = Marked(@, pc[n])]
      PROVE  /\ rows'[d].reorged # "old"
             /\ rows'[d].escrowed \/ rows'[d].confirmed => rows'[d].present
             /\ rows[d].confirmed => rows'[d].confirmed
  <2>1. PICK loop \in {"escrow", "confirm"} : rows'[d] \in {rows[d], Marked(rows[d], loop)}
    BY <1>0, <1>5
  <2>2. CASE rows'[d] = rows[d]
    BY <2>2
  <2>3. CASE rows'[d] = Marked(rows[d], loop)
    <3>1. CASE rows[d].present
      BY <1>0, <2>3, <3>1, RowFates
    <3>2. CASE ~rows[d].present
      BY <2>3, <3>2 DEF Marked
    <3> QED
      BY <3>1, <3>2
  <2> QED
    BY <2>1, <2>2, <2>3
<1> QED
  BY <1>1, <1>2, <1>3, <1>4, <1>5, RowChanges DEF Uncancelled

(* Nothing is listed for cancelling, so nothing comes to be cancelled. *)
LEMMA UncancelledStep ==
  ASSUME "age" \notin Faults, Typed, Uncancelled, [Next]_vars PROVE Uncancelled'
<1> DEFINE Idle(n) == pc[n] = "cancel" => LoopOver(n)
<1>1. \A d \in Deposits : /\ rows'[d].reorged # "old"
                          /\ rows'[d].escrowed \/ rows'[d].confirmed => rows'[d].present
  BY RowBecomes
<1>2. ASSUME NEW n \in Nodes PROVE Idle(n)'
  <2>0. pc \in [Nodes -> Labels] /\ todo \in [Nodes -> SUBSET Deposits]
        /\ cur \in [Nodes -> Deposits \cup {None}]
    BY DEF Typed, MarksInv, Shape
  <2>1. Idle(n)
    BY DEF Uncancelled, NothingOld
  <2>2. CASE UNCHANGED <<pc, todo, cur>>
    BY <2>1, <2>2 DEF LoopOver
  <2>3. CASE Chain
    BY <2>2, <2>3 DEF Chain, Mine, Disconnect, node
  <2>4. ASSUME NEW d \in Deposits, Age(d) PROVE Idle(n)'
    BY <2>2, <2>4 DEF Age, node
  <2>5. ASSUME NEW m \in Nodes, TakeEvent(m) \/ Tick(m) \/ BecomeLeader(m) \/ Restart(m)
                                \/ DeleteUnescrowed(m) \/ HandlerDone(m)
        PROVE  Idle(n)'
    <3>1. UNCHANGED <<todo, cur>>
      BY <2>5 DEF TakeEvent, BlockConnected, BlockDisconnected, DisconnectFails, Tick, BecomeLeader,
                  Restart, DeleteUnescrowed, HandlerDone
    <3>2. pc' = pc \/ \E label \in Labels \ {"cancel"} : pc' = [pc EXCEPT ![m] = label]
      BY <2>5 DEF TakeEvent, BlockConnected, BlockDisconnected, DisconnectFails, Tick, BecomeLeader,
                  Restart, DeleteUnescrowed, HandlerDone, BackToLoop, Goto, Labels
    <3>3. pc'[n] = "cancel" => pc[n] = "cancel"
      BY <2>0, <3>2
    <3> QED
      BY <2>1, <3>1, <3>3 DEF LoopOver
  <2>6. ASSUME NEW m \in Nodes, ListNotEscrowed(m) \/ ListReorgedEscrowed(m) \/ ListReadyToConfirm(m)
        PROVE  Idle(n)'
    <3>1. CASE m # n
      BY <2>0, <2>1, <2>6, <3>1 DEF ListNotEscrowed, ListReorgedEscrowed, ListReadyToConfirm, Listed,
                                   Goto, LoopOver
    <3>2. CASE m = n /\ ListReorgedEscrowed(m)
      <4>1. todo' = [todo EXCEPT ![n] = {}] /\ cur' = cur /\ cur[n] = None
        BY <3>2 DEF ListReorgedEscrowed, Listed, LoopOver, Uncancelled, NothingOld
      <4> QED
        BY <2>0, <4>1 DEF LoopOver
    <3>3. CASE m = n /\ ~ListReorgedEscrowed(m)
      <4>1. pc'[n] # "cancel"
        BY <2>0, <2>6, <3>3 DEF ListNotEscrowed, ListReadyToConfirm, Listed, Goto
      <4> QED
        BY <4>1
    <3> QED
      BY <3>1, <3>2, <3>3
  <2>7. ASSUME NEW m \in Nodes, NEW d \in Deposits,
               CallSucceeds(m, d) \/ CallRefused(m, d) \/ CallFails(m, d)
        PROVE  Idle(n)'
    <3>1. pc' = pc /\ d \in todo[m]
          /\ todo' = [todo EXCEPT ![m] = @ \ {d}]
          /\ (cur' = cur \/ cur' = [cur EXCEPT ![m] = d])
      BY <2>7 DEF CallSucceeds, CallRefused, CallFails, Took
    <3>2. pc[n] = "cancel" => m # n
      BY <2>1, <3>1 DEF LoopOver
    <3> QED
      BY <2>0, <2>1, <3>1, <3>2 DEF LoopOver
  <2>8. ASSUME NEW m \in Nodes, Mark(m) PROVE Idle(n)'
    BY <2>0, <2>1, <2>8 DEF Mark, LoopOver
  <2>9. ASSUME NEW m \in Nodes, Crash(m) PROVE Idle(n)'
    BY <2>0, <2>1, <2>9 DEF Crash, Goto, LoopOver
  <2>10. CASE UNCHANGED vars
    BY <2>2, <2>10 DEF vars, node
  <2> QED
    BY <2>3, <2>4, <2>5, <2>6, <2>7, <2>8, <2>9, <2>10 DEF Next, Work
<1> QED
  BY <1>1, <1>2 DEF Uncancelled, NothingOld, FlagsNeedRow

(* While no reorged deposit gets old enough to be cancelled, a confirmed    *)
(* row of btc_deposits is never deleted and never reset: neither by the two *)
(* statements of DeleteFromHeight, nor by an Insert, nor by the mark of a   *)
(* leader that works off a stale list; for any number of nodes and leaders, *)
(* any reorgs and any other faults.                                         *)
THEOREM ConfirmedStay ==
  ASSUME "age" \notin Faults
  PROVE  Spec => ConfirmedRowsStay
<1>1. Init => Uncancelled
  BY DEF Init, Uncancelled, NothingOld, FlagsNeedRow, NoRow
<1>2. Typed /\ Uncancelled /\ [Next]_vars => Uncancelled'
  BY UncancelledStep
<1>3. Typed /\ Uncancelled /\ [Next]_vars
      => [\A d \in Deposits : rows[d].confirmed => rows'[d].confirmed]_rows
  BY RowBecomes
<1> QED
  BY <1>1, <1>2, <1>3, TypedInvariant, PTL DEF Spec, ConfirmedRowsStay


-----------------------------------------------------------------------------
(* The table is complete: what the log of block events says of the chain *)

(* Event j disconnects the block at height h. *)
Removes(j, h) == ~log[j].connected /\ log[j].height = h

(* The length of the chain before event j. *)
LengthBefore(j) == IF log[j].connected THEN log[j].height - 1 ELSE log[j].height

(* Event i connected a block that no later event has disconnected. *)
Standing(i) ==
  /\ log[i].connected
  /\ \A j \in i + 1 .. Len(log) : ~log[j].connected => log[j].height > log[i].height

(* The blocks of the chain are those of the standing events, *)
BlocksStand ==
  \A h \in 1 .. Len(chain) :
    \E i \in 1 .. Len(log) : Standing(i) /\ log[i].height = h /\ log[i].txs = chain[h]

StandingInChain ==
  \A i \in 1 .. Len(log) :
    Standing(i) => log[i].height \in 1 .. Len(chain) /\ chain[log[i].height] = log[i].txs

(* whose deposits are in no later block, *)
MinedOnce ==
  \A i, k \in 1 .. Len(log) :
    Standing(i) /\ k > i /\ log[k].connected => log[i].txs \cap log[k].txs = {}

(* and a chain that got shorter than h lost its block at height h before. *)
LostBlocks ==
  \A k \in 1 .. Len(log) : \A h \in 1 .. log[k].height :
    log[k].connected /\ Len(chain) < h => \E e \in k + 1 .. Len(log) : Removes(e, h)

LostBlocksBefore ==
  \A k, j \in 1 .. Len(log) : \A h \in 1 .. log[k].height :
    log[k].connected /\ k < j /\ LengthBefore(j) < h => \E e \in k + 1 .. j - 1 : Removes(e, h)

History == BlocksStand /\ StandingInChain /\ MinedOnce /\ LostBlocks /\ LostBlocksBefore

(* A new block event changes nothing about the earlier ones. *)
LEMMA LogGrows ==
  ASSUME EventsTyped, NEW e, log' = Append(log, e)
  PROVE  /\ Len(log') = Len(log) + 1
         /\ log'[Len(log) + 1] = e
         /\ \A i \in 1 .. Len(log) : log'[i] = log[i]
  BY DEF EventsTyped

LEMMA LogTyped ==
  ASSUME EventsTyped, NEW i \in 1 .. Len(log)
  PROVE  log[i].connected \in BOOLEAN /\ log[i].height \in Nat /\ log[i].txs \in SUBSET Deposits
<1>1. log[i] \in [connected : BOOLEAN, height : Nat, txs : SUBSET Deposits]
  BY ElementOfSeq DEF EventsTyped
<1> QED
  BY <1>1

(* A block is mined on top. *)
LEMMA HistoryMine ==
  ASSUME EventsTyped, History, NEW txs \in SUBSET (Deposits \ Mined), Mine(txs)
  PROVE  History'
<1>a. PICK m \in Nat, c \in Nat : m = Len(log) /\ c = Len(chain)
  BY DEF EventsTyped
<1>1. m \in Nat /\ c \in Nat /\ \A i \in 1 .. m : log[i].height \in Nat
  BY <1>a, LogTyped
<1>2. /\ Len(log') = m + 1
      /\ log'[m + 1] = [connected |-> TRUE, height |-> c + 1, txs |-> txs]
      /\ \A i \in 1 .. m : log'[i] = log[i]
  BY <1>a, LogGrows DEF Mine
<1>3. /\ Len(chain') = c + 1
      /\ chain'[c + 1] = txs
      /\ \A h \in 1 .. c : chain'[h] = chain[h]
  BY <1>a DEF Mine, EventsTyped
<1>4. \A i \in 1 .. m : Standing(i)' <=> Standing(i)
  BY <1>a, <1>1, <1>2 DEF Standing
<1>5. Standing(m + 1)'
  BY <1>a, <1>1, <1>2 DEF Standing
<1>6. \A j \in 1 .. m : LengthBefore(j)' = LengthBefore(j) /\ \A h : Removes(j, h)' <=> Removes(j, h)
  BY <1>2 DEF LengthBefore, Removes
<1>7. LengthBefore(m + 1)' = c
  BY <1>1, <1>2 DEF LengthBefore
<1>8. \A i \in 1 .. m : Standing(i) => log[i].txs \cap txs = {}
  BY <1>a DEF History, StandingInChain, Mined
<1>9. BlocksStand'
  <2> SUFFICES ASSUME NEW h \in 1 .. c + 1
               PROVE  \E i \in 1 .. m + 1 : Standing(i)' /\ log'[i].height = h /\ log'[i].txs = chain'[h]
    BY <1>2, <1>3 DEF BlocksStand
  <2>1. CASE h = c + 1
    BY <2>1, <1>1, <1>2, <1>3, <1>5
  <2>2. CASE h \in 1 .. c
    <3>1. PICK i \in 1 .. m : Standing(i) /\ log[i].height = h /\ log[i].txs = chain[h]
      BY <1>a, <2>2 DEF History, BlocksStand
    <3> QED
      BY <3>1, <2>2, <1>1, <1>2, <1>3, <1>4
  <2> QED
    BY <2>1, <2>2, <1>1
<1>10. StandingInChain'
  <2> SUFFICES ASSUME NEW i \in 1 .. m + 1, Standing(i)'
               PROVE  log'[i].height \in 1 .. c + 1 /\ chain'[log'[i].height] = log'[i].txs
    BY <1>2, <1>3 DEF StandingInChain
  <2>1. CASE i = m + 1
    BY <2>1, <1>1, <1>2, <1>3
  <2>2. CASE i \in 1 .. m
    <3>1. log[i].height \in 1 .. c /\ chain[log[i].height] = log[i].txs
      BY <1>a, <2>2, <1>4 DEF History, StandingInChain
    <3> QED
      BY <3>1, <2>2, <1>1, <1>2, <1>3
  <2> QED
    BY <2>1, <2>2, <1>1
<1>11. MinedOnce'
  <2> SUFFICES ASSUME NEW i \in 1 .. m + 1, NEW k \in 1 .. m + 1, Standing(i)', k > i, log'[k].connected
               PROVE  log'[i].txs \cap log'[k].txs = {}
    BY <1>2 DEF MinedOnce
  <2>1. i \in 1 .. m /\ Standing(i)
    BY <1>1, <1>4
  <2>2. CASE k = m + 1
    BY <2>1, <2>2, <1>2, <1>8
  <2>3. CASE k \in 1 .. m
    BY <1>a, <2>1, <2>3, <1>2 DEF History, MinedOnce
  <2> QED
    BY <2>2, <2>3, <1>1
<1>12. LostBlocks'
  <2> SUFFICES ASSUME NEW k \in 1 .. m + 1, NEW h \in 1 .. log'[k].height, log'[k].connected, c + 1 < h
               PROVE  \E e \in k + 1 .. m + 1 : Removes(e, h)'
    BY <1>2, <1>3 DEF LostBlocks
  <2>1. k \in 1 .. m
    BY <1>1, <1>2
  <2>2. PICK e \in k + 1 .. m : Removes(e, h)
    BY <1>a, <2>1, <1>1, <1>2 DEF History, LostBlocks
  <2>3. e \in 1 .. m /\ e \in k + 1 .. m + 1
    BY <2>1, <1>1
  <2> QED
    BY <2>2, <2>3, <1>6
<1>13. LostBlocksBefore'
  <2> SUFFICES ASSUME NEW k \in 1 .. m + 1, NEW j \in 1 .. m + 1, NEW h \in 1 .. log'[k].height,
                      log'[k].connected, k < j, LengthBefore(j)' < h
               PROVE  \E e \in k + 1 .. j - 1 : Removes(e, h)'
    BY <1>2 DEF LostBlocksBefore
  <2>1. k \in 1 .. m /\ log[k].connected /\ h \in 1 .. log[k].height
    BY <1>1, <1>2
  <2>2. PICK e \in k + 1 .. j - 1 : Removes(e, h)
    <3>1. CASE j = m + 1
      BY <1>a, <2>1, <3>1, <1>1, <1>7 DEF History, LostBlocks
    <3>2. CASE j \in 1 .. m
      BY <1>a, <2>1, <3>2, <1>6 DEF History, LostBlocksBefore
    <3> QED
      BY <3>1, <3>2, <1>1
  <2>3. e \in 1 .. m
    BY <2>1, <1>1
  <2> QED
    BY <2>2, <2>3, <1>6
<1> QED
  BY <1>9, <1>10, <1>11, <1>12, <1>13 DEF History

(* The top block is disconnected. *)
LEMMA HistoryDisconnect ==
  ASSUME EventsTyped, History, Disconnect
  PROVE  History'
<1>a. PICK m \in Nat, c \in Nat : m = Len(log) /\ c = Len(chain)
  BY DEF EventsTyped
<1>1. m \in Nat /\ c \in Nat /\ c > 0 /\ \A i \in 1 .. m : log[i].height \in Nat
  BY <1>a, LogTyped DEF Disconnect, EventsTyped
<1>2. /\ Len(log') = m + 1
      /\ log'[m + 1] = [connected |-> FALSE, height |-> c, txs |-> {}]
      /\ \A i \in 1 .. m : log'[i] = log[i]
  BY <1>a, LogGrows DEF Disconnect
<1>3. /\ Len(chain') = c - 1
      /\ \A h \in 1 .. c - 1 : chain'[h] = chain[h]
  BY <1>a, <1>1 DEF Disconnect, EventsTyped
<1>4. \A i \in 1 .. m : Standing(i)' <=> Standing(i) /\ log[i].height < c
  <2> SUFFICES ASSUME NEW i \in 1 .. m PROVE Standing(i)' <=> Standing(i) /\ log[i].height < c
    OBVIOUS
  <2>1. \A j \in i + 1 .. m + 1 : j = m + 1 \/ (j \in i + 1 .. m /\ j \in 1 .. m)
    OBVIOUS
  <2> QED
    BY <2>1, <1>a, <1>1, <1>2 DEF Standing
<1>5. ~Standing(m + 1)'
  BY <1>2 DEF Standing
<1>6. \A j \in 1 .. m : LengthBefore(j)' = LengthBefore(j) /\ \A h : Removes(j, h)' <=> Removes(j, h)
  BY <1>2 DEF LengthBefore, Removes
<1>7. LengthBefore(m + 1)' = c /\ Removes(m + 1, c)'
  BY <1>1, <1>2 DEF LengthBefore, Removes
<1>9. BlocksStand'
  <2> SUFFICES ASSUME NEW h \in 1 .. c - 1
               PROVE  \E i \in 1 .. m + 1 : Standing(i)' /\ log'[i].height = h /\ log'[i].txs = chain'[h]
    BY <1>2, <1>3 DEF BlocksStand
  <2>0. h \in 1 .. Len(chain)
    BY <1>a, <1>1
  <2>1. PICK i \in 1 .. m : Standing(i) /\ log[i].height = h /\ log[i].txs = chain[h]
    BY <1>a, <2>0 DEF History, BlocksStand
  <2> QED
    BY <2>1, <1>1, <1>2, <1>3, <1>4
<1>10. StandingInChain'
  <2> SUFFICES ASSUME NEW i \in 1 .. m + 1, Standing(i)'
               PROVE  log'[i].height \in 1 .. c - 1 /\ chain'[log'[i].height] = log'[i].txs
    BY <1>2, <1>3 DEF StandingInChain
  <2>1. i \in 1 .. m
    BY <1>1, <1>5
  <2>2. log[i].height \in 1 .. c - 1 /\ chain[log[i].height] = log[i].txs
    BY <1>a, <2>1, <1>1, <1>4 DEF History, StandingInChain
  <2> QED
    BY <2>1, <2>2, <1>2, <1>3
<1>11. MinedOnce'
  <2> SUFFICES ASSUME NEW i \in 1 .. m + 1, NEW k \in 1 .. m + 1, Standing(i)', k > i, log'[k].connected
               PROVE  log'[i].txs \cap log'[k].txs = {}
    BY <1>2 DEF MinedOnce
  <2>1. i \in 1 .. m /\ Standing(i)
    BY <1>1, <1>4, <1>5
  <2>2. k \in 1 .. m
    BY <1>1, <1>2
  <2> QED
    BY <1>a, <2>1, <2>2, <1>2 DEF History, MinedOnce
<1>12. LostBlocks'
  <2> SUFFICES ASSUME NEW k \in 1 .. m + 1, NEW h \in 1 .. log'[k].height, log'[k].connected, c - 1 < h
               PROVE  \E e \in k + 1 .. m + 1 : Removes(e, h)'
    BY <1>2, <1>3 DEF LostBlocks
  <2>1. k \in 1 .. m /\ log[k].connected /\ h \in 1 .. log[k].height
    BY <1>1, <1>2
  <2>2. CASE h = c
    BY <2>1, <2>2, <1>1, <1>7
  <2>3. CASE h # c
    <3>0. Len(chain) < h
      BY <1>a, <2>1, <2>3, <1>1
    <3>1. PICK e \in k + 1 .. m : Removes(e, h)
      BY <1>a, <2>1, <3>0 DEF History, LostBlocks
    <3>2. e \in 1 .. m /\ e \in k + 1 .. m + 1
      BY <2>1, <1>1
    <3> QED
      BY <3>1, <3>2, <1>6
  <2> QED
    BY <2>2, <2>3
<1>13. LostBlocksBefore'
  <2> SUFFICES ASSUME NEW k \in 1 .. m + 1, NEW j \in 1 .. m + 1, NEW h \in 1 .. log'[k].height,
                      log'[k].connected, k < j, LengthBefore(j)' < h
               PROVE  \E e \in k + 1 .. j - 1 : Removes(e, h)'
    BY <1>2 DEF LostBlocksBefore
  <2>1. k \in 1 .. m /\ log[k].connected /\ h \in 1 .. log[k].height
    BY <1>1, <1>2
  <2>2. PICK e \in k + 1 .. j - 1 : Removes(e, h)
    <3>1. CASE j = m + 1
      BY <1>a, <2>1, <3>1, <1>1, <1>7 DEF History, LostBlocks
    <3>2. CASE j \in 1 .. m
      BY <1>a, <2>1, <3>2, <1>6 DEF History, LostBlocksBefore
    <3> QED
      BY <3>1, <3>2, <1>1
  <2>3. e \in 1 .. m
    BY <2>1, <1>1
  <2> QED
    BY <2>2, <2>3, <1>6
<1> QED
  BY <1>9, <1>10, <1>11, <1>12, <1>13 DEF History

(* Nodes read the log and do not write it. *)
LEMMA ChainOrNode ==
  ASSUME [Next]_vars
  PROVE  UNCHANGED <<chain, log>> \/ (Chain /\ UNCHANGED <<database, node, faults>>)
<1>1. CASE Chain
  BY <1>1 DEF Chain, Mine, Disconnect
<1>2. ASSUME NEW d \in Deposits, Age(d) PROVE UNCHANGED <<chain, log>>
  BY <1>2 DEF Age, world
<1>3. ASSUME NEW n \in Nodes, TakeEvent(n) \/ Tick(n) \/ BecomeLeader(n) \/ Restart(n) \/ Crash(n)
      PROVE  UNCHANGED <<chain, log>>
  BY <1>3 DEF TakeEvent, BlockConnected, BlockDisconnected, DisconnectFails, Tick, BecomeLeader,
              Restart, Crash, world
<1>4. ASSUME NEW n \in Nodes, Work(n) PROVE UNCHANGED <<chain, log>>
  BY <1>4 DEF Work, DeleteUnescrowed, ListNotEscrowed, ListReorgedEscrowed, ListReadyToConfirm,
              Listed, CallSucceeds, CallRefused, CallFails, Mark, HandlerDone, world
<1>5. CASE UNCHANGED vars
  BY <1>5 DEF vars, world
<1> QED
  BY <1>1, <1>2, <1>3, <1>4, <1>5 DEF Next

LEMMA HistoryStep == EventsTyped /\ History /\ [Next]_vars => History'
<1> SUFFICES ASSUME EventsTyped, History, [Next]_vars PROVE History'
  OBVIOUS
<1>1. CASE UNCHANGED <<chain, log>>
  <2>1. \A i : Standing(i)' <=> Standing(i)
    BY <1>1 DEF Standing
  <2>2. \A j : LengthBefore(j)' = LengthBefore(j) /\ \A h : Removes(j, h)' <=> Removes(j, h)
    BY <1>1 DEF LengthBefore, Removes
  <2>3. BlocksStand' /\ StandingInChain' /\ MinedOnce'
    BY <1>1, <2>1 DEF History, BlocksStand, StandingInChain, MinedOnce
  <2>4. LostBlocks'
    BY <1>1, <2>2 DEF History, LostBlocks
  <2>5. LostBlocksBefore'
    BY <1>1, <2>2 DEF History, LostBlocksBefore
  <2> QED
    BY <2>3, <2>4, <2>5 DEF History
<1>2. CASE Chain
  BY <1>2, HistoryMine, HistoryDisconnect DEF Chain
<1> QED
  BY <1>1, <1>2, ChainOrNode

-----------------------------------------------------------------------------
(* The table is complete: what every node has done about the log *)

(* Statements of Insert and DeleteFromHeight succeed, no node stops and no *)
(* deposit is cancelled.                                                   *)
Careful == Faults \cap {"insert", "delete", "crash", "age"} = {}

(* Between its two deletes a node knows the height of the event it has     *)
(* just taken.                                                             *)
Following ==
  \A n \in Nodes :
    /\ pos[n] <= Len(log)
    /\ pc[n] # "down"
    /\ pc[n] = "deleteUnescrowed" => pos[n] \in 1 .. Len(log) /\ Removes(pos[n], at[n])

(* A step other than a block event: all nodes stay where they are in the   *)
(* log, and in DeleteFromHeight.                                           *)
InPlace ==
  /\ pos' = pos
  /\ \A n \in Nodes :
       /\ pc'[n] # "down"
       /\ pc'[n] = "deleteUnescrowed" <=> pc[n] = "deleteUnescrowed"
       /\ pc[n] = "deleteUnescrowed" => at'[n] = at[n]

LEMMA NodeSteps ==
  ASSUME Careful, Typed, Following, [Next]_vars
  PROVE  \/ \E n \in Nodes : BlockConnected(n)
         \/ \E n \in Nodes : BlockDisconnected(n)
         \/ \E n \in Nodes : DeleteUnescrowed(n)
         \/ InPlace
<1>0. /\ pc \in [Nodes -> Labels] /\ at \in [Nodes -> Nat]
      /\ \A n \in Nodes : pc[n] # "down"
  BY DEF Typed, MarksInv, Shape, Rest, Following
<1>1. CASE UNCHANGED node
  <2>1. pos' = pos /\ pc' = pc /\ at' = at
    BY <1>1 DEF node
  <2> QED
    BY <1>0, <2>1 DEF InPlace
<1>2. CASE Chain
  BY <1>1, <1>2 DEF Chain, Mine, Disconnect
<1>3. ASSUME NEW d \in Deposits, Age(d) PROVE FALSE
  BY <1>3 DEF Age, Careful
<1>4. ASSUME NEW n \in Nodes, TakeEvent(n) PROVE BlockConnected(n) \/ BlockDisconnected(n)
  BY <1>4 DEF TakeEvent, DisconnectFails, Fault, Careful
<1>5. ASSUME NEW n \in Nodes, Restart(n) \/ Crash(n) PROVE FALSE
  BY <1>0, <1>5 DEF Restart, Crash, Fault, Careful
<1>6. ASSUME NEW n \in Nodes, BecomeLeader(n) PROVE InPlace
  BY <1>0, <1>6 DEF BecomeLeader, InPlace
<1>7. ASSUME NEW n \in Nodes, Tick(n) PROVE InPlace
  BY <1>0, <1>7 DEF Tick, Goto, InPlace
<1>8. ASSUME NEW n \in Nodes, ListNotEscrowed(n) \/ ListReorgedEscrowed(n) \/ ListReadyToConfirm(n)
      PROVE  InPlace
  <2>1. /\ pos' = pos /\ at' = at /\ pc[n] # "deleteUnescrowed"
        /\ \E label \in {"escrow", "cancel", "confirm"} : pc' = [pc EXCEPT ![n] = label]
    BY <1>8 DEF ListNotEscrowed, ListReorgedEscrowed, ListReadyToConfirm, Listed, Goto
  <2> QED
    BY <1>0, <2>1 DEF InPlace
<1>9. ASSUME NEW n \in Nodes, NEW d \in Deposits,
             CallSucceeds(n, d) \/ CallRefused(n, d) \/ CallFails(n, d)
      PROVE  InPlace
  BY <1>0, <1>9 DEF CallSucceeds, CallRefused, CallFails, InPlace
<1>10. ASSUME NEW n \in Nodes, Mark(n) PROVE InPlace
  BY <1>0, <1>10 DEF Mark, InPlace
<1>11. ASSUME NEW n \in Nodes, HandlerDone(n) PROVE InPlace
  BY <1>0, <1>11 DEF HandlerDone, BackToLoop, Goto, InPlace
<1>12. CASE UNCHANGED vars
  BY <1>1, <1>12 DEF vars
<1> QED
  BY <1>2, <1>3, <1>4, <1>5, <1>6, <1>7, <1>8, <1>9, <1>10, <1>11, <1>12 DEF Next, Work

(* What the block events do, as far as it is needed below. *)
LEMMA EventEffects ==
  ASSUME Careful, Typed, NEW n \in Nodes, BlockConnected(n) \/ BlockDisconnected(n)
  PROVE  /\ pos[n] + 1 \in 1 .. Len(log) /\ pos' = [pos EXCEPT ![n] = @ + 1]
         /\ UNCHANGED <<chain, log>>
         /\ pc[n] = "loop" /\ \A m \in Nodes \ {n} : pc'[m] = pc[m] /\ at'[m] = at[m]
         /\ log[pos[n] + 1].connected =>
              /\ pc'[n] \in {"loop", "retryEscrows"}
              /\ rows' = [d \in Deposits |-> IF d \in log[pos[n] + 1].txs
                                             THEN Inserted(rows[d], log[pos[n] + 1].height)
                                             ELSE rows[d]]
         /\ ~log[pos[n] + 1].connected =>
              /\ pc'[n] = "deleteUnescrowed" /\ at'[n] = log[pos[n] + 1].height
              /\ rows' = [d \in Deposits |->
                            IF /\ rows[d].present /\ rows[d].height >= log[pos[n] + 1].height
                               /\ ~rows[d].confirmed /\ rows[d].escrowed
                            THEN [rows[d] EXCEPT !.reorged = "recent"] ELSE rows[d]]
<1>0. pc \in [Nodes -> Labels] /\ at \in [Nodes -> Nat] /\ pos \in [Nodes -> Nat]
  BY DEF Typed, MarksInv, Shape, Rest, EventsTyped
<1>1. /\ pos[n] < Len(log) /\ pos' = [pos EXCEPT ![n] = @ + 1] /\ UNCHANGED <<chain, log>>
      /\ pc[n] = "loop"
  BY DEF BlockConnected, BlockDisconnected, world
<1>2. pos[n] + 1 \in 1 .. Len(log)
  BY <1>1, NextEventTyped DEF Typed
<1>3. CASE BlockConnected(n)
  <2>1. log[pos[n] + 1].connected
    BY <1>3 DEF BlockConnected, NextEvent
  <2>2. rows' = [d \in Deposits |-> IF d \in log[pos[n] + 1].txs
                                    THEN Inserted(rows[d], log[pos[n] + 1].height) ELSE rows[d]]
    BY <1>3 DEF BlockConnected, NextEvent, Fault, Careful
  <2>3. (pc' = pc /\ at' = at) \/ \E h : /\ pc' = [pc EXCEPT ![n] = "retryEscrows"]
                                         /\ at' = [at EXCEPT ![n] = h]
    BY <1>3 DEF BlockConnected, Goto
  <2>4. \A m \in Nodes \ {n} : pc'[m] = pc[m] /\ at'[m] = at[m]
    BY <1>0, <2>3
  <2>5. pc'[n] \in {"loop", "retryEscrows"}
    BY <1>0, <1>1, <2>3
  <2> QED
    BY <1>1, <1>2, <2>1, <2>2, <2>4, <2>5
<1>4. CASE BlockDisconnected(n)
  <2>1. ~log[pos[n] + 1].connected
    BY <1>4 DEF BlockDisconnected, NextEvent
  <2>2. rows' = [d \in Deposits |->
                   IF /\ rows[d].present /\ rows[d].height >= log[pos[n] + 1].height
                      /\ ~rows[d].confirmed /\ rows[d].escrowed
                   THEN [rows[d] EXCEPT !.reorged = "recent"] ELSE rows[d]]
    BY <1>4 DEF BlockDisconnected, NextEvent
  <2>3. /\ pc' = [pc EXCEPT ![n] = "deleteUnescrowed"]
        /\ at' = [at EXCEPT ![n] = log[pos[n] + 1].height]
    BY <1>4 DEF BlockDisconnected, NextEvent, Goto
  <2> QED
    BY <1>0, <1>1, <1>2, <2>1, <2>2, <2>3
<1> QED
  BY <1>3, <1>4

(* The second statement of DeleteFromHeight. *)
LEMMA DeleteEffects ==
  ASSUME Careful, Typed, NEW n \in Nodes, DeleteUnescrowed(n)
  PROVE  /\ UNCHANGED <<chain, log, pos>>
         /\ pc[n] = "deleteUnescrowed" /\ pc'[n] = "loop"
         /\ \A m \in Nodes \ {n} : pc'[m] = pc[m] /\ at'[m] = at[m]
         /\ rows' = [d \in Deposits |->
                       IF /\ rows[d].present /\ rows[d].height >= at[n]
                          /\ ~rows[d].confirmed /\ ~rows[d].escrowed
                       THEN NoRow ELSE rows[d]]
<1>0. pc \in [Nodes -> Labels] /\ at \in [Nodes -> Nat]
  BY DEF Typed, MarksInv, Shape, Rest
<1>1. /\ UNCHANGED <<chain, log, pos>> /\ pc[n] = "deleteUnescrowed"
      /\ pc' = [pc EXCEPT ![n] = "loop"] /\ at' = [at EXCEPT ![n] = 0]
  BY DEF DeleteUnescrowed, BackToLoop, Goto, world
<1>2. rows' = [d \in Deposits |->
                 IF /\ rows[d].present /\ rows[d].height >= at[n]
                    /\ ~rows[d].confirmed /\ ~rows[d].escrowed
                 THEN NoRow ELSE rows[d]]
  BY DEF DeleteUnescrowed, Fault, Careful
<1> QED
  BY <1>0, <1>1, <1>2

(* Earlier events stay what they are, whatever happens. *)
LEMMA LogKept ==
  ASSUME Typed, [Next]_vars
  PROVE  /\ Len(log') \in Nat /\ Len(log') >= Len(log)
         /\ \A i \in 1 .. Len(log) : /\ log'[i] = log[i]
                                     /\ Standing(i)' => Standing(i)
                                     /\ \A h : Removes(i, h)' <=> Removes(i, h)
<1>0. Len(log) \in Nat
  BY DEF Typed, EventsTyped
<1>1. CASE UNCHANGED <<chain, log>>
  BY <1>0, <1>1 DEF Standing, Removes
<1>2. ASSUME NEW e, log' = Append(log, e)
      PROVE  /\ Len(log') \in Nat /\ Len(log') >= Len(log)
             /\ \A i \in 1 .. Len(log) : /\ log'[i] = log[i]
                                         /\ Standing(i)' => Standing(i)
                                         /\ \A h : Removes(i, h)' <=> Removes(i, h)
  <2>1. /\ Len(log') = Len(log) + 1
        /\ \A i \in 1 .. Len(log) : log'[i] = log[i]
    BY <1>2, LogGrows DEF Typed
  <2>2. ASSUME NEW i \in 1 .. Len(log), Standing(i)' PROVE Standing(i)
    BY <1>0, <2>1, <2>2 DEF Standing
  <2> QED
    BY <1>0, <2>1, <2>2 DEF Removes
<1>3. CASE Chain
  BY <1>2, <1>3 DEF Chain, Mine, Disconnect
<1> QED
  BY <1>1, <1>3, ChainOrNode

LEMMA FollowingStep ==
  ASSUME Careful, Typed, Following, [Next]_vars PROVE Following'
<1> SUFFICES ASSUME NEW m \in Nodes
             PROVE  /\ pos'[m] <= Len(log')
                    /\ pc'[m] # "down"
                    /\ pc'[m] = "deleteUnescrowed" => /\ pos'[m] \in 1 .. Len(log')
                                                      /\ ~log'[pos'[m]].connected
                                                      /\ log'[pos'[m]].height = at'[m]
  BY DEF Following, Removes
<1>0. pc \in [Nodes -> Labels] /\ at \in [Nodes -> Nat] /\ pos \in [Nodes -> Nat] /\ Len(log) \in Nat
  BY DEF Typed, MarksInv, Shape, Rest, EventsTyped
<1>1. /\ pos[m] <= Len(log)
      /\ pc[m] # "down"
      /\ pc[m] = "deleteUnescrowed" => /\ pos[m] \in 1 .. Len(log)
                                       /\ ~log[pos[m]].connected
                                       /\ log[pos[m]].height = at[m]
  BY DEF Following, Removes
<1>2. ASSUME NEW n \in Nodes, BlockConnected(n) \/ BlockDisconnected(n)
      PROVE  /\ pos'[m] <= Len(log')
             /\ pc'[m] # "down"
             /\ pc'[m] = "deleteUnescrowed" => /\ pos'[m] \in 1 .. Len(log')
                                               /\ ~log'[pos'[m]].connected
                                               /\ log'[pos'[m]].height = at'[m]
  <2>1. CASE m = n
    <3>1. /\ pos[m] + 1 \in 1 .. Len(log) /\ pos'[m] = pos[m] + 1 /\ log' = log
          /\ log[pos[m] + 1].connected => pc'[m] \in {"loop", "retryEscrows"}
          /\ ~log[pos[m] + 1].connected =>
               pc'[m] = "deleteUnescrowed" /\ at'[m] = log[pos[m] + 1].height
      BY <1>0, <1>2, <2>1, EventEffects
    <3> QED
      BY <1>0, <3>1
  <2>2. CASE m # n
    BY <1>0, <1>1, <1>2, <2>2, EventEffects
  <2> QED
    BY <2>1, <2>2
<1>3. ASSUME NEW n \in Nodes, DeleteUnescrowed(n)
      PROVE  /\ pos'[m] <= Len(log')
             /\ pc'[m] # "down"
             /\ pc'[m] = "deleteUnescrowed" => /\ pos'[m] \in 1 .. Len(log')
                                               /\ ~log'[pos'[m]].connected
                                               /\ log'[pos'[m]].height = at'[m]
  BY <1>0, <1>1, <1>3, DeleteEffects
<1>4. CASE InPlace
  <2>1. /\ Len(log') >= Len(log) /\ Len(log') \in Nat
        /\ \A i \in 1 .. Len(log) : log'[i] = log[i]
    BY LogKept
  <2> QED
    BY <1>0, <1>1, <1>4, <2>1 DEF InPlace
<1> QED
  BY <1>2, <1>3, <1>4, NodeSteps

(* A row that Insert leaves alone. *)
Active(d) == rows[d].present /\ rows[d].reorged = "no"

(* Node n inserted the row of d at event k and will remove it again in time: *)
(* of the disconnections since then it has taken none of a lower block, and  *)
(* the one of the block itself only if the row was marked escrowed between   *)
(* its two deletes, or is about to be deleted by the second.                 *)
Tends(n, k, d) ==
  /\ log[k].connected /\ log[k].height = rows[d].height /\ d \in log[k].txs
  /\ \A j \in k + 1 .. pos[n] :
       ~log[j].connected =>
         /\ log[j].height >= rows[d].height
         /\ log[j].height = rows[d].height =>
              rows[d].escrowed \/ (j = pos[n] /\ pc[n] = "deleteUnescrowed")

RowsTended ==
  \A d \in Deposits :
    Active(d) /\ ~rows[d].confirmed => \E n \in Nodes : \E k \in 1 .. pos[n] : Tends(n, k, d)

(* What every node has inserted is in the table, and no deletion that some   *)
(* node has still to do will take it.                                        *)
RowsStand ==
  \A i \in 1 .. Len(log) :
    Standing(i) /\ (\A n \in Nodes : pos[n] >= i) =>
      \A d \in log[i].txs : Active(d) /\ (rows[d].confirmed \/ rows[d].height <= log[i].height)

LEMMA TendsKept ==
  ASSUME Typed, Following, [Next]_vars, NEW n \in Nodes, NEW k \in 1 .. pos[n], NEW d \in Deposits,
         Tends(n, k, d), pos'[n] = pos[n],
         rows'[d].height = rows[d].height, rows[d].escrowed => rows'[d].escrowed,
         pc[n] = "deleteUnescrowed" => pc'[n] = "deleteUnescrowed"
  PROVE  Tends(n, k, d)'
<1>1. pos[n] \in Nat /\ pos[n] <= Len(log) /\ Len(log) \in Nat
  BY DEF Typed, EventsTyped, Following
<1>2. \A j \in k .. pos[n] : j \in 1 .. Len(log) /\ log'[j] = log[j]
  BY <1>1, LogKept
<1>3. \A j \in k + 1 .. pos[n] : j \in k .. pos[n]
  BY <1>1
<1>4. k \in k .. pos[n]
  BY <1>1
<1> QED
  BY <1>2, <1>3, <1>4 DEF Tends

(* A row that comes or stays is tended. *)
LEMMA TendedStep ==
  ASSUME Careful, Typed, Uncancelled, History, Following, RowsTended, [Next]_vars PROVE RowsTended'
<1> SUFFICES ASSUME NEW d \in Deposits, Active(d)', ~rows'[d].confirmed
             PROVE  \E n \in Nodes : \E k \in 1 .. pos'[n] : Tends(n, k, d)'
  BY DEF RowsTended
<1>0. /\ pos \in [Nodes -> Nat] /\ Len(log) \in Nat /\ rows \in [Deposits -> Row] /\ rows[d] \in Row
      /\ "age" \notin Faults /\ \A n \in Nodes : pos[n] <= Len(log)
  BY DEF Typed, MarksInv, Shape, EventsTyped, Careful, Following
<1>1. ASSUME Active(d), rows'[d].height = rows[d].height,
             rows[d].escrowed => rows'[d].escrowed, rows[d].confirmed => rows'[d].confirmed,
             InPlace
      PROVE  \E n \in Nodes : \E k \in 1 .. pos'[n] : Tends(n, k, d)'
  <2>1n. PICK n \in Nodes : \E k \in 1 .. pos[n] : Tends(n, k, d)
    BY <1>1 DEF RowsTended
  <2>1. PICK k \in 1 .. pos[n] : Tends(n, k, d)
    BY <2>1n
  <2> QED
    BY <1>1, <2>1, TendsKept DEF InPlace
<1>2. ASSUME NEW m \in Nodes, BlockConnected(m)
      PROVE  \E n \in Nodes : \E k \in 1 .. pos'[n] : Tends(n, k, d)'
  <2> DEFINE e == log[pos[m] + 1]
  <2>1. /\ pos[m] + 1 \in 1 .. Len(log) /\ pos' = [pos EXCEPT ![m] = @ + 1] /\ log' = log
        /\ pc[m] = "loop" /\ e.connected
        /\ \A n \in Nodes \ {m} : pc'[n] = pc[n]
        /\ rows' = [x \in Deposits |-> IF x \in e.txs THEN Inserted(rows[x], e.height) ELSE rows[x]]
    BY <1>2, EventEffects DEF BlockConnected, NextEvent
  <2>2. e.height \in Nat
    BY <2>1, LogTyped DEF Typed
  <2>3. CASE d \in e.txs /\ ~Active(d)
    <3>1. rows'[d].height = e.height
      BY <1>0, <2>1, <2>2, <2>3, RowFates DEF Active
    <3>2. pos'[m] = pos[m] + 1 /\ pos[m] + 1 \in 1 .. pos'[m]
      BY <1>0, <2>1
    <3>3. PICK k : k = pos[m] + 1
      OBVIOUS
    <3>4. Tends(m, k, d)'
      <4>1. \A j \in k + 1 .. pos'[m] : FALSE
        BY <1>0, <3>2, <3>3
      <4> QED
        BY <2>1, <2>3, <3>1, <3>3, <4>1 DEF Tends
    <3> QED
      BY <3>2, <3>3, <3>4
  <2>4. CASE ~(d \in e.txs /\ ~Active(d))
    <3>1. rows'[d] = rows[d]
      BY <1>0, <2>1, <2>2, <2>4, RowFates DEF Active
    <3>2n. PICK n \in Nodes : \E k \in 1 .. pos[n] : Tends(n, k, d)
      BY <3>1 DEF RowsTended, Active
    <3>2. PICK k \in 1 .. pos[n] : Tends(n, k, d)
      BY <3>2n
    <3>3. CASE n # m
      BY <1>0, <2>1, <3>1, <3>2, <3>3, TendsKept
    <3>4. CASE n = m
      <4>1. k \in 1 .. pos'[m]
        BY <1>0, <2>1, <3>4
      <4>2. \A j \in k + 1 .. pos'[m] : j \in k + 1 .. pos[m] \/ j = pos[m] + 1
        BY <1>0, <2>1, <3>4
      <4>3. Tends(m, k, d)'
        BY <2>1, <3>1, <3>2, <3>4, <4>2 DEF Tends
      <4> QED
        BY <4>1, <4>3
    <3> QED
      BY <3>3, <3>4
  <2> QED
    BY <2>3, <2>4
<1>3. ASSUME NEW m \in Nodes, BlockDisconnected(m)
      PROVE  \E n \in Nodes : \E k \in 1 .. pos'[n] : Tends(n, k, d)'
  <2> DEFINE e == log[pos[m] + 1]
  <2>1. /\ pos[m] + 1 \in 1 .. Len(log) /\ pos' = [pos EXCEPT ![m] = @ + 1] /\ log' = log
        /\ pc[m] = "loop" /\ pc'[m] = "deleteUnescrowed" /\ ~e.connected
        /\ \A n \in Nodes \ {m} : pc'[n] = pc[n]
        /\ rows' = [x \in Deposits |->
                      IF /\ rows[x].present /\ rows[x].height >= e.height
                         /\ ~rows[x].confirmed /\ rows[x].escrowed
                      THEN [rows[x] EXCEPT !.reorged = "recent"] ELSE rows[x]]
    BY <1>3, EventEffects DEF BlockDisconnected, NextEvent
  <2>2. e.height \in Nat
    BY <2>1, LogTyped DEF Typed
  <2>3. /\ rows'[d] = rows[d]
        /\ ~(rows[d].height >= e.height /\ rows[d].escrowed)
    <3>1. ~(rows[d].present /\ rows[d].height >= e.height /\ ~rows[d].confirmed /\ rows[d].escrowed)
      <4> SUFFICES ASSUME rows[d].present /\ rows[d].height >= e.height /\ ~rows[d].confirmed
                          /\ rows[d].escrowed
                   PROVE  FALSE
        OBVIOUS
      <4>1. rows'[d] = [rows[d] EXCEPT !.reorged = "recent"]
        BY <2>1
      <4>2. rows'[d].reorged = "recent"
        BY <1>0, <4>1 DEF Row
      <4> QED
        BY <4>2 DEF Active
    <3>2. rows'[d] = rows[d]
      BY <2>1, <3>1
    <3> QED
      BY <3>1, <3>2 DEF Active
  <2>4n. PICK n \in Nodes : \E k \in 1 .. pos[n] : Tends(n, k, d)
    BY <2>3 DEF RowsTended, Active
  <2>4. PICK k \in 1 .. pos[n] : Tends(n, k, d)
    BY <2>4n
  <2>5. CASE n # m
    BY <1>0, <2>1, <2>3, <2>4, <2>5, TendsKept
  <2>6. CASE n = m
    <3>1. k \in 1 .. pos'[m] /\ k \in 1 .. Len(log) /\ pos[m] + 1 > k
      BY <1>0, <2>1, <2>6
    <3>2. \A j \in k + 1 .. pos'[m] : j \in k + 1 .. pos[m] \/ j = pos[m] + 1
      BY <1>0, <2>1, <2>6
    <3>3. rows[d].height \in Nat /\ log[k].connected /\ log[k].height = rows[d].height
      BY <1>0, <2>4 DEF Tends, Row
    <3>4. e.height >= rows[d].height
      <4> SUFFICES ASSUME e.height < rows[d].height PROVE FALSE
        BY <2>2, <3>3
      <4>1. rows[d].height \in 1 .. log[k].height
        BY <2>2, <3>3
      <4>2. LengthBefore(pos[m] + 1) = e.height
        BY <2>1 DEF LengthBefore
      <4>3. PICK j \in 1 .. Len(log), h \in 1 .. log[k].height : j = pos[m] + 1 /\ h = rows[d].height
        BY <2>1, <4>1
      <4>4. PICK f \in k + 1 .. pos[m] : Removes(f, rows[d].height)
        <5>1. k < j /\ LengthBefore(j) < h
          BY <3>1, <4>2, <4>3
        <5>2. PICK f \in k + 1 .. j - 1 : Removes(f, h)
          BY <3>1, <3>3, <5>1 DEF History, LostBlocksBefore
        <5> QED
          BY <1>0, <4>3, <5>2
      <4>5. rows[d].escrowed
        BY <2>1, <2>4, <2>6, <4>4 DEF Tends, Removes
      <4> QED
        BY <2>2, <2>3, <3>3, <4>5
    <3>5. Tends(m, k, d)'
      <4>1. pos'[m] = pos[m] + 1
        BY <1>0, <2>1
      <4> QED
        BY <2>1, <2>3, <2>4, <2>6, <3>2, <3>4, <4>1 DEF Tends
    <3> QED
      BY <3>1, <3>5
  <2> QED
    BY <2>5, <2>6
<1>4. ASSUME NEW m \in Nodes, DeleteUnescrowed(m)
      PROVE  \E n \in Nodes : \E k \in 1 .. pos'[n] : Tends(n, k, d)'
  <2>1. /\ log' = log /\ pos' = pos
        /\ pc[m] = "deleteUnescrowed" /\ \A n \in Nodes \ {m} : pc'[n] = pc[n]
        /\ rows' = [x \in Deposits |->
                      IF /\ rows[x].present /\ rows[x].height >= at[m]
                         /\ ~rows[x].confirmed /\ ~rows[x].escrowed
                      THEN NoRow ELSE rows[x]]
    BY <1>4, DeleteEffects
  <2>2. /\ rows'[d] = rows[d]
        /\ ~(rows[d].height >= at[m] /\ ~rows[d].escrowed)
    BY <2>1 DEF Active, NoRow
  <2>3n. PICK n \in Nodes : \E k \in 1 .. pos[n] : Tends(n, k, d)
    BY <2>2 DEF RowsTended, Active
  <2>3. PICK k \in 1 .. pos[n] : Tends(n, k, d)
    BY <2>3n
  <2>4. CASE n # m
    BY <1>0, <2>1, <2>2, <2>3, <2>4, TendsKept
  <2>5. CASE n = m
    <3>1. Removes(pos[m], at[m]) /\ rows[d].height \in Nat
      BY <1>0, <2>1 DEF Following, Row
    <3>2. log[pos[m]].height = rows[d].height => rows[d].escrowed
      BY <2>2, <3>1 DEF Removes
    <3>3. Tends(m, k, d)'
      BY <2>1, <2>2, <2>3, <2>5, <3>2 DEF Tends
    <3> QED
      BY <2>1, <2>5, <3>3
  <2> QED
    BY <2>4, <2>5
<1>5. CASE /\ InPlace
           /\ ~(\E n \in Nodes : BlockConnected(n) \/ BlockDisconnected(n) \/ DeleteUnescrowed(n))
  <2>1. CASE UNCHANGED rows
    BY <1>1, <1>5, <2>1 DEF Active
  <2>2. ASSUME NEW n \in Nodes, pc[n] \in {"escrow", "confirm"}, cur[n] \in Deposits,
               rows' = [rows EXCEPT ![cur[n]] = Marked(@, pc[n])]
        PROVE  \E l \in Nodes : \E k \in 1 .. pos'[l] : Tends(l, k, d)'
    <3>1. PICK loop \in {"escrow", "confirm"} : rows'[d] \in {rows[d], Marked(rows[d], loop)}
      BY <1>0, <2>2
    <3>2. /\ rows'[d].present = rows[d].present /\ rows'[d].reorged = rows[d].reorged
          /\ rows'[d].height = rows[d].height
          /\ rows[d].escrowed => rows'[d].escrowed
          /\ rows[d].confirmed => rows'[d].confirmed
      <4>1. 0 \in Nat
        OBVIOUS
      <4> QED
        BY <1>0, <3>1, <4>1, RowFates
    <3> QED
      BY <1>1, <1>5, <3>2 DEF Active
  <2> QED
    BY <1>0, <1>5, <2>1, <2>2, RowChanges DEF Uncancelled
<1> QED
  BY <1>2, <1>3, <1>4, <1>5, NodeSteps

(* When the last node takes event i, an older row of a deposit of its block *)
(* cannot be in the way: whoever inserted it at a greater height has taken  *)
(* the disconnections before event i, and they removed it.                  *)
LEMMA NoStaleRow ==
  ASSUME Typed, History, Following, RowsTended,
         NEW i \in 1 .. Len(log), Standing(i), NEW d \in log[i].txs,
         \A n \in Nodes : pos[n] >= i - 1,
         Active(d), ~rows[d].confirmed
  PROVE  rows[d].height <= log[i].height
<1>0. /\ d \in Deposits /\ log[i].height \in Nat
      /\ pos \in [Nodes -> Nat] /\ Len(log) \in Nat /\ rows[d].height \in Nat
  BY LogTyped DEF Typed, MarksInv, Shape, EventsTyped, Row
<1> SUFFICES ASSUME rows[d].height > log[i].height PROVE FALSE
  BY <1>0
<1>1. PICK n \in Nodes : \E k \in 1 .. pos[n] : Tends(n, k, d)
  BY <1>0 DEF RowsTended
<1>2. PICK k \in 1 .. pos[n] : Tends(n, k, d)
  BY <1>1
<1>3. /\ k \in 1 .. Len(log) /\ log[k].connected /\ log[k].height = rows[d].height
      /\ d \in log[k].txs /\ pos[n] \in Nat /\ pos[n] >= i - 1
  BY <1>0, <1>2 DEF Tends, Following
<1>4. CASE k < i
  <2>1. PICK h \in 1 .. log[k].height : h = log[i].height
    BY <1>0, <1>3 DEF History, StandingInChain
  <2>2. LengthBefore(i) < h
    BY <1>0, <2>1 DEF LengthBefore, Standing
  <2>3. PICK f \in k + 1 .. i - 1 : Removes(f, h)
    BY <1>3, <1>4, <2>2 DEF History, LostBlocksBefore
  <2>4. f \in k + 1 .. pos[n]
    BY <1>3
  <2> QED
    BY <1>0, <1>2, <2>1, <2>3, <2>4 DEF Tends, Removes
<1>5. CASE k = i
  BY <1>0, <1>3, <1>5
<1>6. CASE k > i
  BY <1>3, <1>6 DEF History, MinedOnce
<1> QED
  BY <1>3, <1>4, <1>5, <1>6

LEMMA StandStep ==
  ASSUME Nodes # {}, Careful, Typed, Uncancelled, History, Following, RowsTended, RowsStand,
         [Next]_vars
  PROVE  RowsStand'
<1> SUFFICES ASSUME NEW i \in 1 .. Len(log'), Standing(i)', \A n \in Nodes : pos'[n] >= i,
                    NEW d \in log'[i].txs
             PROVE  Active(d)' /\ (rows'[d].confirmed \/ rows'[d].height <= log'[i].height)
  BY DEF RowsStand
<1>0. /\ pos \in [Nodes -> Nat] /\ Len(log) \in Nat /\ rows \in [Deposits -> Row]
      /\ "age" \notin Faults /\ \A n \in Nodes : pos[n] <= Len(log)
  BY DEF Typed, MarksInv, Shape, EventsTyped, Careful, Following
<1>1. i \in 1 .. Len(log) /\ log'[i] = log[i] /\ Standing(i)
  <2>1. i <= Len(log)
    <3>1. PICK n \in Nodes : pos'[n] >= i
      OBVIOUS
    <3>2. CASE UNCHANGED <<chain, log>>
      BY <3>2, <1>0
    <3>3. CASE UNCHANGED node
      <4>1. pos' = pos
        BY <3>3 DEF node
      <4> QED
        BY <1>0, <3>1, <4>1, LogKept
    <3> QED
      BY <3>2, <3>3, ChainOrNode
  <2>2. i \in 1 .. Len(log)
    BY <1>0, <2>1, LogKept
  <2> QED
    BY <2>2, LogKept
<1>2. /\ d \in Deposits /\ d \in log[i].txs /\ log[i].height \in Nat
      /\ rows[d] \in Row /\ rows[d].height \in Nat
  BY <1>0, <1>1, LogTyped DEF Typed, Row
<1>3. ASSUME \A n \in Nodes : pos[n] >= i
      PROVE  Active(d) /\ (rows[d].confirmed \/ rows[d].height <= log[i].height)
  BY <1>1, <1>2, <1>3 DEF RowsStand
<1>4. ASSUME NEW m \in Nodes, BlockConnected(m)
      PROVE  Active(d)' /\ (rows'[d].confirmed \/ rows'[d].height <= log[i].height)
  <2> DEFINE e == log[pos[m] + 1]
  <2>1. /\ pos[m] + 1 \in 1 .. Len(log) /\ pos' = [pos EXCEPT ![m] = @ + 1] /\ log' = log
        /\ e.connected
        /\ rows' = [x \in Deposits |-> IF x \in e.txs THEN Inserted(rows[x], e.height) ELSE rows[x]]
    BY <1>4, EventEffects DEF BlockConnected, NextEvent
  <2>2. e.height \in Nat
    BY <2>1, LogTyped DEF Typed
  <2>3. CASE \A n \in Nodes : pos[n] >= i
    <3>1. rows'[d] = rows[d]
      BY <1>2, <1>3, <2>1, <2>2, <2>3, RowFates DEF Active
    <3> QED
      BY <1>3, <2>3, <3>1 DEF Active
  <2>4. CASE ~(\A n \in Nodes : pos[n] >= i)
    <3>1. i = pos[m] + 1 /\ \A n \in Nodes : pos[n] >= i - 1
      BY <1>0, <1>1, <2>1, <2>4
    <3>2. rows'[d] = Inserted(rows[d], log[i].height)
      BY <1>2, <2>1, <3>1
    <3>3. CASE ~Active(d)
      BY <1>2, <3>2, <3>3, RowFates DEF Active
    <3>4. CASE Active(d)
      <4>1. rows'[d] = rows[d]
        BY <1>2, <3>2, <3>4, RowFates DEF Active
      <4>2. rows[d].confirmed \/ rows[d].height <= log[i].height
        BY <1>1, <1>2, <3>1, <3>4, NoStaleRow
      <4> QED
        BY <3>4, <4>1, <4>2 DEF Active
    <3> QED
      BY <3>3, <3>4
  <2> QED
    BY <2>3, <2>4
<1>5. ASSUME NEW m \in Nodes, BlockDisconnected(m)
      PROVE  Active(d)' /\ (rows'[d].confirmed \/ rows'[d].height <= log[i].height)
  <2> DEFINE e == log[pos[m] + 1]
  <2>1. /\ pos[m] + 1 \in 1 .. Len(log) /\ pos' = [pos EXCEPT ![m] = @ + 1] /\ log' = log
        /\ ~e.connected
        /\ rows' = [x \in Deposits |->
                      IF /\ rows[x].present /\ rows[x].height >= e.height
                         /\ ~rows[x].confirmed /\ rows[x].escrowed
                      THEN [rows[x] EXCEPT !.reorged = "recent"] ELSE rows[x]]
    BY <1>5, EventEffects DEF BlockDisconnected, NextEvent
  <2>2. e.height \in Nat
    BY <2>1, LogTyped DEF Typed
  <2>3. i # pos[m] + 1
    BY <1>1, <2>1 DEF Standing
  <2>4. \A n \in Nodes : pos[n] >= i
    BY <1>0, <1>1, <2>1, <2>3
  <2>5. pos[m] + 1 \in i + 1 .. Len(log)
    BY <1>0, <1>1, <2>1, <2>4
  <2>6. e.height > log[i].height
    BY <1>1, <2>1, <2>5 DEF Standing
  <2>7. rows'[d] = rows[d]
    BY <1>2, <1>3, <2>1, <2>2, <2>4, <2>6
  <2> QED
    BY <1>3, <2>4, <2>7 DEF Active
<1>6. ASSUME NEW m \in Nodes, DeleteUnescrowed(m)
      PROVE  Active(d)' /\ (rows'[d].confirmed \/ rows'[d].height <= log[i].height)
  <2>1. /\ log' = log /\ pos' = pos /\ pc[m] = "deleteUnescrowed"
        /\ rows' = [x \in Deposits |->
                      IF /\ rows[x].present /\ rows[x].height >= at[m]
                         /\ ~rows[x].confirmed /\ ~rows[x].escrowed
                      THEN NoRow ELSE rows[x]]
    BY <1>6, DeleteEffects
  <2>2. /\ pos[m] \in 1 .. Len(log) /\ ~log[pos[m]].connected
        /\ log[pos[m]].height = at[m] /\ at[m] \in Nat
    BY <2>1 DEF Following, Removes, Typed, Rest
  <2>3. pos[m] \in i + 1 .. Len(log)
    <3>1. pos[m] # i
      BY <1>1, <2>2 DEF Standing
    <3>2. pos[m] >= i
      BY <2>1
    <3> QED
      BY <1>0, <1>1, <2>2, <3>1, <3>2
  <2>4. at[m] > log[i].height
    BY <1>1, <2>2, <2>3 DEF Standing
  <2>5. rows'[d] = rows[d]
    BY <1>2, <1>3, <2>1, <2>2, <2>4
  <2> QED
    BY <1>3, <2>1, <2>5 DEF Active
<1>7. CASE /\ InPlace
           /\ ~(\E n \in Nodes : BlockConnected(n) \/ BlockDisconnected(n) \/ DeleteUnescrowed(n))
  <2>0. Active(d) /\ (rows[d].confirmed \/ rows[d].height <= log[i].height)
    BY <1>3, <1>7 DEF InPlace
  <2>1. CASE UNCHANGED rows
    BY <1>1, <2>0, <2>1 DEF Active
  <2>2. ASSUME NEW n \in Nodes, pc[n] \in {"escrow", "confirm"}, cur[n] \in Deposits,
               rows' = [rows EXCEPT ![cur[n]] = Marked(@, pc[n])]
        PROVE  Active(d)' /\ (rows'[d].confirmed \/ rows'[d].height <= log[i].height)
    <3>1. PICK loop \in {"escrow", "confirm"} : rows'[d] \in {rows[d], Marked(rows[d], loop)}
      BY <1>0, <1>2, <2>2
    <3>2. /\ rows'[d].present = rows[d].present /\ rows'[d].reorged = rows[d].reorged
          /\ rows'[d].height = rows[d].height
          /\ rows[d].confirmed => rows'[d].confirmed
      <4>1. 0 \in Nat
        OBVIOUS
      <4> QED
        BY <1>2, <3>1, <4>1, RowFates
    <3> QED
      BY <2>0, <3>2 DEF Active
  <2> QED
    BY <1>0, <1>1, <1>7, <2>1, <2>2, RowChanges DEF Uncancelled
<1> QED
  BY <1>1, <1>4, <1>5, <1>6, <1>7, NodeSteps

(* No deposit falls out of btc_deposits: once every node has handled every  *)
(* block event, each deposit of the chain has an active row, though nodes   *)
(* handle reorgs at different times and the one behind deletes and revives  *)
(* rows that others wrote for the new chain; for any number of nodes, any   *)
(* reorgs of any depth, any failures of queries, marks and cashier calls.   *)
(* The hypothesis is the one of BuriedIsConfirmed: Insert and               *)
(* DeleteFromHeight succeed, no node stops, nothing is cancelled.           *)
THEOREM TableStaysComplete ==
  ASSUME Nodes # {}, Careful
  PROVE  Spec => []TableComplete
<1>1. Init => Uncancelled /\ History /\ Following /\ RowsTended /\ RowsStand
  BY DEF Init, Uncancelled, NothingOld, FlagsNeedRow, NoRow, History, BlocksStand, StandingInChain,
         MinedOnce, LostBlocks, LostBlocksBefore, Following, RowsTended, RowsStand, Active
<1>2. Typed /\ Uncancelled /\ History /\ Following /\ RowsTended /\ RowsStand /\ [Next]_vars
      => (Uncancelled /\ History /\ Following /\ RowsTended /\ RowsStand)'
  <2>1. "age" \notin Faults
    BY DEF Careful
  <2> QED
    BY <2>1, UncancelledStep, HistoryStep, FollowingStep, TendedStep, StandStep DEF Typed
<1>3. Typed /\ History /\ RowsStand => TableComplete
  <2> SUFFICES ASSUME Typed, History, RowsStand, CaughtUp, NEW d \in Mined
               PROVE  rows[d].present /\ rows[d].reorged = "no"
    BY DEF TableComplete
  <2>1. PICK h \in 1 .. Len(chain) : d \in chain[h]
    BY DEF Mined
  <2>2. PICK i \in 1 .. Len(log) : Standing(i) /\ log[i].txs = chain[h]
    BY DEF History, BlocksStand
  <2>3. \A n \in Nodes : pos[n] >= i
    <3>1. Len(log) \in Nat
      BY DEF Typed, EventsTyped
    <3>2. \A n \in Nodes : pos[n] = Len(log)
      BY DEF CaughtUp
    <3>3. i \in Int /\ i <= Len(log)
      BY <2>2, <3>1
    <3> QED
      BY <3>1, <3>2, <3>3
  <2> QED
    BY <2>1, <2>2, <2>3 DEF RowsStand, Active
<1> QED
  BY <1>1, <1>2, <1>3, TypedInvariant, PTL DEF Spec
=============================================================================
