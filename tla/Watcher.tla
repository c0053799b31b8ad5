------------------------------ MODULE Watcher ------------------------------
(***************************************************************************)
(* The deposit watcher (btcwatcher/internal): several nodes follow the     *)
(* Bitcoin chain, share one btc_deposits table, and tell the cashier about *)
(* deposits.  Every node runs watcher.go's loop: it takes one block event  *)
(* or tick at a time, but the statements and the cashier calls it makes    *)
(* for it interleave with those of the other nodes, any of them may fail   *)
(* and most errors are ignored.                                            *)
(*                                                                         *)
(* The chain is shared.  log is the stream of block events every node's    *)
(* SPV client delivers; node n has handled the first pos[n] of them.  The  *)
(* cashier is its abstract specification, LedgerSpec.  Leadership is a     *)
(* flag that a node gains at any time and keeps until it stops, as         *)
(* LeaderElection shows.                                                   *)
(***************************************************************************)
EXTENDS Integers, Sequences

CONSTANTS
  Nodes,
  Deposits,       \* outputs (txid, vout) that pay a watched address
  Users,
  Owner,          \* user of every deposit
  Satoshis,       \* amount of every deposit
  Confirmations,  \* Config.Confirmations
  MaxEvents,      \* bound on the events of the chain
  Faults,         \* what may go wrong: see Fault
  MaxFaults,      \* bound on how often it does
  None

ASSUME DepositsAssumption ==
  /\ Owner \in [Deposits -> Users]
  /\ Satoshis \in [Deposits -> Nat \ {0}]
  /\ None \notin Deposits
ASSUME ConfirmationsAssumption == Confirmations \in Nat
ASSUME BoundsAssumption == MaxEvents \in Nat /\ MaxFaults \in Nat

VARIABLES
  chain,    \* blocks of the best chain, as the sets of deposits in them
  log,      \* block events so far
  pos,      \* events each node has handled
  rows,     \* table btc_deposits
  balance,  \* the cashier's accounts
  applied,  \* the cashier's idempotency keys, as requests
  leading,  \* LeaderElector.leading
  pc,       \* where each node is in its loop
  at,       \* height of the block event being handled; 0 for a tick
  todo,     \* rows of the last List query still to be worked on
  cur,      \* row whose cashier call succeeded and that is to be marked
  faults    \* faults so far

world    == <<chain, log>>
database == <<rows, balance, applied>>
node     == <<pos, leading, pc, at, todo, cur>>
vars     == <<world, database, node, faults>>

NoRow == [present |-> FALSE, height |-> 0, escrowed |-> FALSE, confirmed |-> FALSE,
          reorged |-> "no"]

(* reorged_at: NULL, or set less, or more, than ReorgCancelAge ago. *)
Row == [present : BOOLEAN, height : Nat, escrowed : BOOLEAN, confirmed : BOOLEAN,
        reorged : {"no", "recent", "old"}]

(* The cashier requests for deposit d; d stands for depositRef, txid:vout. *)
Request(op, d) == [op |-> op, id |-> d, user |-> Owner[d], amount |-> Satoshis[d]]

Cashier == INSTANCE LedgerSpec WITH
  held     <- {},
  Requests <- {Request(op, d) : op \in {"depositEscrowed", "confirmDeposit", "cancelDeposit"},
                                d \in Deposits}

(* A fault of this kind happens: a statement on btc_deposits fails         *)
(* ("insert", "list", "mark", "delete"), a cashier call fails before it    *)
(* did anything ("call") or after ("reply"), or a node stops ("crash").    *)
Fault(kind) ==
  /\ kind \in Faults
  /\ faults < MaxFaults
  /\ faults' = faults + 1

-----------------------------------------------------------------------------
(* The chain *)

Mined == UNION {chain[h] : h \in 1 .. Len(chain)}

Mine(txs) ==
  /\ Len(log) < MaxEvents
  /\ chain' = Append(chain, txs)
  /\ log' = Append(log, [connected |-> TRUE, height |-> Len(chain) + 1, txs |-> txs])
  /\ UNCHANGED <<database, node, faults>>

Disconnect ==
  /\ Len(log) < MaxEvents
  /\ chain # <<>>
  /\ chain' = SubSeq(chain, 1, Len(chain) - 1)
  /\ log' = Append(log, [connected |-> FALSE, height |-> Len(chain), txs |-> {}])
  /\ UNCHANGED <<database, node, faults>>

(* ReorgCancelAge passes for a soft-deleted row. *)
Age(d) ==
  /\ "age" \in Faults
  /\ rows[d].reorged = "recent"
  /\ rows' = [rows EXCEPT ![d].reorged = "old"]
  /\ UNCHANGED <<world, balance, applied, node, faults>>

-----------------------------------------------------------------------------
(* The loop: block events and ticks *)

Goto(n, label) == pc' = [pc EXCEPT ![n] = label]

BackToLoop(n) == Goto(n, "loop") /\ at' = [at EXCEPT ![n] = 0]

NextEvent(n) == log[pos[n] + 1]

(* Mutant: ON CONFLICT DO NOTHING. *)
InsertedOnce(row, height) ==
  IF ~row.present THEN [NoRow EXCEPT !.present = TRUE, !.height = height] ELSE row

(* TxStore.Insert: a new row, or a soft-deleted one made active again at   *)
(* the new height; an active row is left alone.                            *)
Inserted(row, height) ==
  IF ~row.present THEN [NoRow EXCEPT !.present = TRUE, !.height = height]
  ELSE IF row.reorged # "no" THEN [row EXCEPT !.height = height, !.reorged = "no"]
  ELSE row

(* handleBlockConnected inserts the deposits of the block; an Insert that  *)
(* fails is forgotten.  The leader goes on with the cashier.               *)
BlockConnected(n) ==
  /\ pc[n] = "loop"
  /\ pos[n] < Len(log)
  /\ NextEvent(n).connected
  /\ \E ok \in SUBSET NextEvent(n).txs :
       /\ IF ok = NextEvent(n).txs THEN UNCHANGED faults ELSE Fault("insert")
       /\ rows' = [d \in Deposits |-> IF d \in ok THEN Inserted(rows[d], NextEvent(n).height)
                                      ELSE rows[d]]
  /\ pos' = [pos EXCEPT ![n] = @ + 1]
  /\ IF leading[n]
       THEN Goto(n, "retryEscrows") /\ at' = [at EXCEPT ![n] = NextEvent(n).height]
       ELSE UNCHANGED <<pc, at>>
  /\ UNCHANGED <<world, balance, applied, leading, todo, cur>>

(* DeleteFromHeight, first statement: soft-delete what the cashier knows.  *)
BlockDisconnected(n) ==
  /\ pc[n] = "loop"
  /\ pos[n] < Len(log)
  /\ ~NextEvent(n).connected
  /\ rows' = [d \in Deposits |->
                IF /\ rows[d].present /\ rows[d].height >= NextEvent(n).height
                   /\ ~rows[d].confirmed /\ rows[d].escrowed
                THEN [rows[d] EXCEPT !.reorged = "recent"] ELSE rows[d]]
  /\ pos' = [pos EXCEPT ![n] = @ + 1]
  /\ at' = [at EXCEPT ![n] = NextEvent(n).height]
  /\ Goto(n, "deleteUnescrowed")
  /\ UNCHANGED <<world, balance, applied, leading, todo, cur, faults>>

(* The first statement fails: DeleteFromHeight returns, nothing is deleted. *)
DisconnectFails(n) ==
  /\ pc[n] = "loop"
  /\ pos[n] < Len(log)
  /\ ~NextEvent(n).connected
  /\ Fault("delete")
  /\ pos' = [pos EXCEPT ![n] = @ + 1]
  /\ UNCHANGED <<world, database, leading, pc, at, todo, cur>>

(* Mutant: every row from the height on is deleted. *)
DeleteAll(n) ==
  /\ pc[n] = "deleteUnescrowed"
  /\ rows' = [d \in Deposits |->
                IF rows[d].present /\ rows[d].height >= at[n] THEN NoRow ELSE rows[d]]
  /\ BackToLoop(n)
  /\ UNCHANGED <<world, balance, applied, pos, leading, todo, cur, faults>>

(* Mutant: off by one, the block below the disconnected one is deleted too. *)
DeleteOneTooLow(n) ==
  /\ pc[n] = "deleteUnescrowed"
  /\ rows' = [d \in Deposits |->
                IF /\ rows[d].present /\ rows[d].height >= at[n] - 1
                   /\ ~rows[d].confirmed /\ ~rows[d].escrowed
                THEN NoRow ELSE rows[d]]
  /\ BackToLoop(n)
  /\ UNCHANGED <<world, balance, applied, pos, leading, todo, cur, faults>>

(* Second statement: hard-delete the rest. *)
DeleteUnescrowed(n) ==
  /\ pc[n] = "deleteUnescrowed"
  /\ \/ /\ rows' = [d \in Deposits |->
                      IF /\ rows[d].present /\ rows[d].height >= at[n]
                         /\ ~rows[d].confirmed /\ ~rows[d].escrowed
                      THEN NoRow ELSE rows[d]]
        /\ UNCHANGED faults
     \/ Fault("delete") /\ UNCHANGED rows
  /\ BackToLoop(n)
  /\ UNCHANGED <<world, balance, applied, pos, leading, todo, cur>>

(* The cashier ticker fires: only the leader does something. *)
Tick(n) ==
  /\ pc[n] = "loop"
  /\ leading[n]
  /\ Goto(n, "retryEscrows")
  /\ UNCHANGED <<world, database, pos, leading, at, todo, cur, faults>>

-----------------------------------------------------------------------------
(* The leader's cashier work: list rows, then call and mark one by one *)

(* Every row of the last query was called for and marked. *)
LoopOver(n) == todo[n] = {} /\ cur[n] = None

(* A List query ran, or failed: its function returns and the loop goes on. *)
Listed(n, found, label) ==
  /\ \/ todo' = [todo EXCEPT ![n] = found] /\ UNCHANGED faults
     \/ todo' = [todo EXCEPT ![n] = {}] /\ Fault("list")
  /\ Goto(n, label)
  /\ UNCHANGED <<world, database, pos, leading, at, cur>>

ListNotEscrowed(n) ==
  /\ pc[n] = "retryEscrows"
  /\ Listed(n, {d \in Deposits : rows[d].present /\ ~rows[d].escrowed /\ rows[d].reorged = "no"},
            "escrow")

ListReorgedEscrowed(n) ==
  /\ pc[n] = "escrow" /\ at[n] = 0
  /\ LoopOver(n)
  /\ Listed(n, {d \in Deposits : rows[d].present /\ rows[d].escrowed /\ ~rows[d].confirmed
                                 /\ rows[d].reorged = "old"},
            "cancel")

(* currentHeight is the height of the block event or, on a tick, the tip   *)
(* the SPV client has synced to, which may be ahead of the events handled. *)
CurrentHeight(n) == IF at[n] = 0 THEN Len(chain) ELSE at[n]

ListReadyToConfirm(n) ==
  /\ LoopOver(n)
  /\ pc[n] = "cancel" \/ (pc[n] = "escrow" /\ at[n] # 0)
  /\ Listed(n, {d \in Deposits : rows[d].present /\ rows[d].escrowed /\ ~rows[d].confirmed
                                 /\ rows[d].reorged = "no"
                                 /\ CurrentHeight(n) - rows[d].height >= Confirmations},
            "confirm")

(* The cashier RPC that belongs to each of the three loops. *)
Operation == [escrow |-> "depositEscrowed", cancel |-> "cancelDeposit", confirm |-> "confirmDeposit"]

Took(n, d) == todo' = [todo EXCEPT ![n] = @ \ {d}]

(* Mutant: a retry is sent without the reference, and confirms again. *)
CallConfirmsAgain(n, d) ==
  /\ pc[n] \in DOMAIN Operation
  /\ d \in todo[n] /\ cur[n] = None
  /\ LET r == Request(Operation[pc[n]], d)
     IN  \/ Cashier!Apply(r)
         \/ r \in applied /\ UNCHANGED applied
            /\ Cashier!Move(Owner[d], 0, -Satoshis[d])
  /\ Took(n, d)
  /\ cur' = [cur EXCEPT ![n] = d]
  /\ UNCHANGED <<world, rows, pos, leading, pc, at, faults>>

(* The call succeeds, by taking effect now or as a replay of a key. *)
CallSucceeds(n, d) ==
  /\ pc[n] \in DOMAIN Operation
  /\ d \in todo[n] /\ cur[n] = None
  /\ LET r == Request(Operation[pc[n]], d)
     IN  \/ Cashier!Apply(r)
         \/ r \in applied /\ UNCHANGED <<balance, applied>>
  /\ Took(n, d)
  /\ cur' = [cur EXCEPT ![n] = d]
  /\ UNCHANGED <<world, rows, pos, leading, pc, at, faults>>

(* The cashier refuses: the account holds too little in escrow. *)
CallRefused(n, d) ==
  /\ pc[n] \in {"cancel", "confirm"}
  /\ d \in todo[n] /\ cur[n] = None
  /\ Request(Operation[pc[n]], d) \notin applied
  /\ balance[Owner[d]].escrowed < Satoshis[d]
  /\ Took(n, d)
  /\ UNCHANGED <<world, database, pos, leading, pc, at, cur, faults>>

(* Mutant: the row is marked although the call failed. *)
CallFailsButMarks(n, d) ==
  /\ pc[n] \in DOMAIN Operation
  /\ d \in todo[n] /\ cur[n] = None
  /\ Fault("call")
  /\ Took(n, d)
  /\ cur' = [cur EXCEPT ![n] = d]
  /\ UNCHANGED <<world, database, pos, leading, pc, at>>

(* The call fails; when only the reply is lost, it took effect. *)
CallFails(n, d) ==
  /\ pc[n] \in DOMAIN Operation
  /\ d \in todo[n] /\ cur[n] = None
  /\ \/ Fault("call") /\ UNCHANGED <<balance, applied>>
     \/ Fault("reply") /\ Cashier!Apply(Request(Operation[pc[n]], d))
  /\ Took(n, d)
  /\ UNCHANGED <<world, rows, pos, leading, pc, at, cur>>

(* MarkEscrowed, MarkConfirmed and MarkCancelled: by primary key, whatever *)
(* the row looks like by now.                                              *)
Marked(row, loop) ==
  CASE loop = "escrow"  -> IF row.present THEN [row EXCEPT !.escrowed = TRUE] ELSE row
    [] loop = "confirm" -> IF row.present THEN [row EXCEPT !.confirmed = TRUE] ELSE row
    [] loop = "cancel"  -> NoRow

Mark(n) ==
  /\ cur[n] # None
  /\ \/ rows' = [rows EXCEPT ![cur[n]] = Marked(@, pc[n])] /\ UNCHANGED faults
     \/ Fault("mark") /\ UNCHANGED rows
  /\ cur' = [cur EXCEPT ![n] = None]
  /\ UNCHANGED <<world, balance, applied, pos, leading, pc, at, todo>>

(* The last loop is done. *)
HandlerDone(n) ==
  /\ pc[n] = "confirm"
  /\ LoopOver(n)
  /\ BackToLoop(n)
  /\ UNCHANGED <<world, database, pos, leading, todo, cur, faults>>

-----------------------------------------------------------------------------
(* Leadership, crashes and restarts *)

BecomeLeader(n) ==
  /\ pc[n] # "down"
  /\ ~leading[n]
  /\ leading' = [leading EXCEPT ![n] = TRUE]
  /\ UNCHANGED <<world, database, pos, pc, at, todo, cur, faults>>

Crash(n) ==
  /\ pc[n] # "down"
  /\ Fault("crash")
  /\ Goto(n, "down")
  /\ leading' = [leading EXCEPT ![n] = FALSE]
  /\ at' = [at EXCEPT ![n] = 0]
  /\ todo' = [todo EXCEPT ![n] = {}]
  /\ cur' = [cur EXCEPT ![n] = None]
  /\ UNCHANGED <<world, database, pos>>

(* StartHeight is 0: the rescan starts at the current tip, and what        *)
(* happened to the chain in the meantime is never reported to the node.    *)
Restart(n) ==
  /\ pc[n] = "down"
  /\ Goto(n, "loop")
  /\ pos' = [pos EXCEPT ![n] = Len(log)]
  /\ UNCHANGED <<world, database, leading, at, todo, cur, faults>>

-----------------------------------------------------------------------------
Init ==
  /\ chain = <<>> /\ log = <<>>
  /\ pos = [n \in Nodes |-> 0]
  /\ rows = [d \in Deposits |-> NoRow]
  /\ balance = [u \in Users |-> Cashier!Empty]
  /\ applied = {}
  /\ leading = [n \in Nodes |-> FALSE]
  /\ pc = [n \in Nodes |-> "loop"]
  /\ at = [n \in Nodes |-> 0]
  /\ todo = [n \in Nodes |-> {}]
  /\ cur = [n \in Nodes |-> None]
  /\ faults = 0

Chain == Disconnect \/ \E txs \in SUBSET (Deposits \ Mined) : Mine(txs)

(* Node n takes the next block event from its channel ... *)
TakeEvent(n) ==
  \/ BlockConnected(n)
  \/ BlockDisconnected(n)
  \/ DisconnectFails(n)

(* ... and goes on with the handler it is in. *)
Work(n) ==
  \/ DeleteUnescrowed(n)
  \/ ListNotEscrowed(n)
  \/ ListReorgedEscrowed(n)
  \/ ListReadyToConfirm(n)
  \/ \E d \in Deposits : CallSucceeds(n, d) \/ CallRefused(n, d) \/ CallFails(n, d)
  \/ Mark(n)
  \/ HandlerDone(n)

Next ==
  \/ Chain
  \/ \E d \in Deposits : Age(d)
  \/ \E n \in Nodes :
       \/ TakeEvent(n)
       \/ Tick(n)
       \/ Work(n)
       \/ BecomeLeader(n)
       \/ Restart(n)
       \/ Crash(n)

Spec == Init /\ [][Next]_vars

(* When nobody leads, somebody wins the election. *)
Elect == (\A n \in Nodes : ~leading[n]) /\ \E n \in Nodes : BecomeLeader(n)

(* A handler runs to its end; the loop's select picks at random, so it     *)
(* starves neither the block channel nor the ticker; and there is a leader *)
(* in the end.  Nothing is assumed of the chain, of time or of faults.     *)
FairSpec ==
  /\ Spec
  /\ \A n \in Nodes : WF_vars(Work(n)) /\ SF_vars(TakeEvent(n)) /\ SF_vars(Tick(n))
  /\ WF_vars(Elect)
-----------------------------------------------------------------------------
(* Properties *)

Done(op, d) == Request(op, d) \in applied

Labels == {"down", "loop", "deleteUnescrowed", "retryEscrows", "escrow", "cancel", "confirm"}

TypeOK ==
  /\ chain \in Seq(SUBSET Deposits)
  /\ log \in Seq([connected : BOOLEAN, height : Nat, txs : SUBSET Deposits])
  /\ pos \in [Nodes -> Nat]
  /\ rows \in [Deposits -> Row]
  /\ balance \in [Users -> [exists : BOOLEAN, gross : Nat, escrowed : Nat]]
  /\ leading \in [Nodes -> BOOLEAN]
  /\ pc \in [Nodes -> Labels]
  /\ at \in [Nodes -> Nat]
  /\ todo \in [Nodes -> SUBSET Deposits]
  /\ cur \in [Nodes -> Deposits \cup {None}]
  /\ faults \in Nat

(* The table never runs ahead of the cashier: a row marked escrowed or     *)
(* confirmed was, whoever marked it and whatever happened to the row in    *)
(* between; and the cashier never confirms or cancels a deposit that it    *)
(* was not asked to escrow before.                                         *)
MarksAreTrue ==
  \A d \in Deposits :
    /\ rows[d].escrowed => Done("depositEscrowed", d)
    /\ rows[d].confirmed => Done("confirmDeposit", d)
    /\ Done("confirmDeposit", d) \/ Done("cancelDeposit", d) => Done("depositEscrowed", d)

(* No reorg takes a confirmed row away, with several leaders, lagging      *)
(* nodes and stale lists too, as long as no reorged deposit gets old       *)
(* enough to be cancelled.                                                 *)
ConfirmedRowsStay ==
  [][\A d \in Deposits : rows[d].confirmed => rows'[d].confirmed]_rows

(* No node has anything left to do about the chain. *)
CaughtUp == \A n \in Nodes : pc[n] = "loop" /\ pos[n] = Len(log)

(* No deposit falls out of the table: once every node has handled every    *)
(* block event, the deposits of the chain all have an active row.  Nodes   *)
(* handle a reorg at different times, and one that is behind deletes what  *)
(* another has just inserted for the new chain.                            *)
TableComplete ==
  CaughtUp => \A d \in Mined : rows[d].present /\ rows[d].reorged = "no"

(* The deposit has the confirmations that ListReadyToConfirm asks for. *)
Buried(d) == \E h \in 1 .. Len(chain) : d \in chain[h] /\ Len(chain) - h >= Confirmations

(* Money that stays in the chain arrives: a deposit that is and remains    *)
(* buried is confirmed to the user, through reorgs, lost replies and two   *)
(* leaders, if no node stops, no Insert fails and nothing is cancelled.    *)
BuriedIsConfirmed ==
  \A d \in Deposits : <>[]Buried(d) => <>Done("confirmDeposit", d)

-----------------------------------------------------------------------------
(* What the comments and deposit_orchestration_readme.md say *)

(* DeleteFromHeight "soft-deletes unconfirmed rows at or above height      *)
(* (reorg handling)": once every node has handled every block event, a     *)
(* deposit that is not in the chain has no active row that waits to be     *)
(* confirmed.                                                              *)
OrphansInactive ==
  CaughtUp =>
    \A d \in Deposits \ Mined :
      rows[d].present /\ ~rows[d].confirmed => rows[d].reorged # "no"
=============================================================================
