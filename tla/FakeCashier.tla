---------------------------- MODULE FakeCashier ----------------------------
(***************************************************************************)
(* cashier/internal/fake_cashier.go, the in-memory cashier the service is  *)
(* tested with, as functions of its state, next to the one over Postgres:  *)
(* what a test shows with the fake is worth as much as the two agree.      *)
(*                                                                         *)
(* f is the state of the fake: accounts, escrows and idempotencyKeys.  A   *)
(* call holds its mutex, and so is one step: a status and the next state.  *)
(***************************************************************************)
EXTENDS Cashier

Answer(status, f) == [status |-> status, state |-> f]

(* A map entry is created by the first access. *)
getOrCreate(f, u) ==
  [f EXCEPT !.accounts[u] = [exists |-> TRUE, gross |-> @.gross, escrowed |-> @.escrowed]]

Add(f, u, gross, escrowed) ==
  [f EXCEPT !.accounts[u] = [exists   |-> @.exists,
                             gross    |-> @.gross + gross,
                             escrowed |-> @.escrowed + escrowed]]

Remember(f, key) == [f EXCEPT !.keys = @ \cup {key}]

Spare(f, u) == f.accounts[u].gross - f.accounts[u].escrowed

FakeDeposit(f, r) ==
  LET g == getOrCreate(f, r.user)
  IN  IF Key(r) \in f.keys THEN Answer("replay", g)
      ELSE Answer("ok", Remember(Add(g, r.user, r.amount, 0), Key(r)))

(* Mutant: money in escrow may be withdrawn. *)
FakeWithdrawGross(f, r) ==
  CASE Key(r) \in f.keys                        -> Answer("replay", f)
    [] ~f.accounts[r.user].exists               -> Answer("unknown_user", f)
    [] f.accounts[r.user].gross < r.amount      -> Answer("insufficient_funds", f)
    [] OTHER -> Answer("ok", Remember(Add(f, r.user, -r.amount, 0), Key(r)))

FakeWithdraw(f, r) ==
  IF Key(r) \in f.keys THEN Answer("replay", f)
  ELSE IF ~f.accounts[r.user].exists THEN Answer("unknown_user", f)
  ELSE IF Spare(f, r.user) < r.amount THEN Answer("insufficient_funds", f)
  ELSE Answer("ok", Remember(Add(f, r.user, -r.amount, 0), Key(r)))

(* The order is looked up first, whatever money is left. *)
FakeEscrow(f, r) ==
  IF f.escrows[r.id] # NoEntry THEN Answer("ok", f)
  ELSE IF ~f.accounts[r.user].exists THEN Answer("unknown_user", f)
  ELSE IF Spare(f, r.user) < r.amount THEN Answer("insufficient_funds", f)
  ELSE Answer("ok", [Add(f, r.user, 0, r.amount) EXCEPT
                       !.escrows[r.id] = [user |-> r.user, amount |-> r.amount]])

FakeReleaseEscrow(f, r) ==
  LET e == f.escrows[r.id]
  IN  IF e = NoEntry THEN Answer("unknown_escrow", f)
      ELSE Answer("ok", [Add(f, e.user, 0, -e.amount) EXCEPT !.escrows[r.id] = NoEntry])

FakeDepositEscrowed(f, r) ==
  LET g == getOrCreate(f, r.user)
  IN  IF Key(r) \in f.keys THEN Answer("replay", g)
      ELSE Answer("ok", Remember(Add(g, r.user, r.amount, r.amount), Key(r)))

(* Nothing keeps escrowed from becoming negative. *)
FakeConfirmDeposit(f, r) ==
  IF Key(r) \in f.keys THEN Answer("replay", getOrCreate(f, r.user))
  ELSE IF ~f.accounts[r.user].exists THEN Answer("unknown_user", f)
  ELSE Answer("ok", Remember(Add(f, r.user, 0, -r.amount), Key(r)))

FakeCancelDeposit(f, r) ==
  IF Key(r) \in f.keys THEN Answer("replay", getOrCreate(f, r.user))
  ELSE IF ~f.accounts[r.user].exists THEN Answer("unknown_user", f)
  ELSE IF f.accounts[r.user].escrowed < r.amount THEN Answer("insufficient_funds", f)
  ELSE Answer("ok", Remember(Add(f, r.user, -r.amount, -r.amount), Key(r)))

FakeCall(f, r) ==
  IF r.op # "release" /\ r.amount <= 0 THEN Answer("invalid", f)
  ELSE CASE r.op = "deposit"         -> FakeDeposit(f, r)
         [] r.op = "withdraw"        -> FakeWithdraw(f, r)
         [] r.op = "escrow"          -> FakeEscrow(f, r)
         [] r.op = "release"         -> FakeReleaseEscrow(f, r)
         [] r.op = "depositEscrowed" -> FakeDepositEscrowed(f, r)
         [] r.op = "confirmDeposit"  -> FakeConfirmDeposit(f, r)
         [] r.op = "cancelDeposit"   -> FakeCancelDeposit(f, r)

-----------------------------------------------------------------------------
(* The fake with what the tables hold. *)
Mirror ==
  [accounts |-> [u \in Users |-> [exists   |-> accounts[u].exists,
                                  gross    |-> accounts[u].gross,
                                  escrowed |-> accounts[u].escrowed]],
   escrows  |-> entries,
   keys     |-> keys]

(* Where the fake is known to answer differently: an Escrow sent again when *)
(* the rest of the money is gone, a cancellation for a user without an      *)
(* account, and a confirmation or a release of more than is escrowed, which *)
(* the table's CHECK refuses.                                               *)
FakeDiffers(r) ==
  CASE r.op = "escrow"         -> entries[r.id] # NoEntry /\ Spare(Mirror, r.user) < r.amount
    [] r.op = "confirmDeposit" -> accounts[r.user].escrowed < r.amount
    [] r.op = "release"        ->
         entries[r.id] # NoEntry /\ accounts[entries[r.id].user].escrowed < entries[r.id].amount
    [] r.op = "cancelDeposit"  -> ~accounts[r.user].exists
    [] OTHER                   -> FALSE

(* The step that settles what the call of p answers: its return, a commit   *)
(* whose answer is lost, or the duplicate that makes Escrow a retry.        *)
Settles(p) ==
  \/ /\ resp[p] = "running" /\ pc[p] # "checkAvailable"
     /\ resp'[p] \notin {"running", "deadlock"}
     /\ resp'[p] = "unknown" => tables' # tables
  \/ pc[p] = "insertEntry" /\ pc'[p] = "checkAvailable"

(* The fake is a cashier: whenever a call of the real one is settled, amid   *)
(* whatever other calls, failures and retries, the fake in the same state    *)
(* gives the same answer and is then again in the same state, except for the *)
(* cases above.                                                              *)
FakeAgrees ==
  [][\A p \in Procs :
       Settles(p) /\ ~FakeDiffers(req[p]) =>
         LET answer == FakeCall(Mirror, req[p])
         IN  /\ answer.state = Mirror'
             /\ \/ answer.status = resp'[p]
                \/ answer.status = "ok" /\ resp'[p] \in {"unknown", "running"}]_vars
=============================================================================
