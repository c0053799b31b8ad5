------------------------------ MODULE Cashier ------------------------------
(***************************************************************************)
(* The cashier service over Postgres (cashier/internal/postgres_cashier.go *)
(* behind service.go).  Every RPC is one transaction of a few statements;  *)
(* RPCs run concurrently, in several replicas, and clients retry them: a   *)
(* call may fail between any two statements, and a commit may succeed      *)
(* without the client hearing of it.                                       *)
(*                                                                         *)
(* A process p runs one call, statement by statement.  accounts, keys and  *)
(* entries are the committed tables.  What a transaction has written is    *)
(* kept in seen[p] until it commits; the rows it wrote or selected FOR     *)
(* UPDATE stay locked (READ COMMITTED: a statement that meets a locked row *)
(* waits for the lock and then sees the committed row).                    *)
(***************************************************************************)
EXTENDS Integers, FiniteSetsExt

CONSTANTS
  Procs,     \* calls that can be in flight at the same time
  Users,
  Refs,      \* idempotency keys and deposit references, as clients spell them
  Orders,    \* order ids of escrow_entries
  Requests,  \* the requests clients send, again and again
  MaxCalls,  \* bound on the number of calls
  None       \* nobody: no lock holder, no owner of an entry

Keyed == {"deposit", "withdraw", "depositEscrowed", "confirmDeposit", "cancelDeposit"}

ASSUME RequestsAssumption ==
  \A r \in Requests :
    \/ r.op \in Keyed   /\ r.id \in Refs   /\ r.user \in Users /\ r.amount \in Nat
    \/ r.op = "escrow"  /\ r.id \in Orders /\ r.user \in Users /\ r.amount \in Nat
    \/ r.op = "release" /\ r.id \in Orders

(* ConfirmDeposit and CancelDeposit prefix the reference; the other three  *)
(* operations use the client's string as it is, in one name space.         *)
Key(r) ==
  <<CASE r.op = "confirmDeposit" -> "confirm:"
      [] r.op = "cancelDeposit"  -> "cancel:"
      [] OTHER                   -> "", r.id>>

(* Clients give different operations different keys, and an order id       *)
(* belongs to one user and one amount.                                     *)
ASSUME KeysAssumption ==
  \A r, s \in Requests : r.op \in Keyed /\ s.op \in Keyed /\ Key(r) = Key(s) => r = s
ASSUME OrdersAssumption ==
  \A r, s \in Requests :
    r.op = "escrow" /\ s.op = "escrow" /\ r.id = s.id => r = s
ASSUME NoneAssumption == None \notin Procs \cup Users

VARIABLES
  accounts,   \* table accounts
  keys,       \* table idempotency_keys
  entries,    \* table escrow_entries
  acctLock, keyLock, entryLock,  \* row locks: the process holding it
  pc,         \* next statement of the call
  req,        \* request of the call (kept after it returned)
  seen,       \* account row read, then written, by the transaction
  pre,        \* entry ReleaseEscrow read before its transaction
  resp,       \* how the last call of the process ended
  calls       \* calls made so far

tables == <<accounts, keys, entries>>
locks  == <<acctLock, keyLock, entryLock>>
vars   == <<tables, locks, pc, req, seen, pre, resp, calls>>

NoAccount == [exists |-> FALSE, gross |-> 0, escrowed |-> 0, version |-> 0]
NoEntry   == [user |-> None, amount |-> 0]
NoRequest == [op |-> "none"]

AllKeys == {"", "confirm:", "cancel:"} \X Refs

-----------------------------------------------------------------------------
(* Transactions *)

Unlocked(lock, p) == [x \in DOMAIN lock |-> IF lock[x] = p THEN None ELSE lock[x]]

(* The transaction ends and its locks are released. *)
EndTx(p) ==
  /\ acctLock' = Unlocked(acctLock, p)
  /\ keyLock' = Unlocked(keyLock, p)
  /\ entryLock' = Unlocked(entryLock, p)

(* The call returns status.  Every early return runs the deferred          *)
(* Rollback: nothing of the transaction reaches the tables.                *)
Return(p, status) ==
  /\ pc' = [pc EXCEPT ![p] = "idle"]
  /\ resp' = [resp EXCEPT ![p] = status]
  /\ seen' = [seen EXCEPT ![p] = NoAccount]
  /\ pre' = [pre EXCEPT ![p] = NoEntry]
  /\ EndTx(p)
  /\ UNCHANGED <<tables, req, calls>>

Goto(p, label) == pc' = [pc EXCEPT ![p] = label]

(* Rejected by the CHECK constraints of the table. *)
Checked(row) == row.gross >= 0 /\ row.escrowed >= 0 /\ row.gross >= row.escrowed

(* The account row the call works on. *)
UserOf(p) == IF req[p].op = "release" THEN pre[p].user ELSE req[p].user

(* Lock the account and keep row as what the transaction sees of it. *)
TakeAccount(p, row, label) ==
  /\ acctLock' = [acctLock EXCEPT ![UserOf(p)] = p]
  /\ seen' = [seen EXCEPT ![p] = row]
  /\ Goto(p, label)
  /\ UNCHANGED <<tables, keyLock, entryLock, req, pre, resp, calls>>

Plus(row, gross, escrowed) ==
  [exists |-> TRUE, gross |-> row.gross + gross, escrowed |-> row.escrowed + escrowed,
   version |-> IF row.exists THEN row.version + 1 ELSE 0]

-----------------------------------------------------------------------------
(* The calls *)

(* A client calls, for the first time or again.  A bad amount is refused   *)
(* before the database is touched.                                         *)
Invoke(p, r) ==
  /\ pc[p] = "idle"
  /\ calls < MaxCalls
  /\ calls' = calls + 1
  /\ req' = [req EXCEPT ![p] = r]
  /\ IF r.op # "release" /\ r.amount <= 0
       THEN /\ resp' = [resp EXCEPT ![p] = "invalid"]
            /\ UNCHANGED pc
       ELSE /\ resp' = [resp EXCEPT ![p] = "running"]
            /\ Goto(p, CASE r.op \in Keyed  -> "insertKey"
                         [] r.op = "escrow" -> "select"
                         [] OTHER           -> "preRead")
  /\ UNCHANGED <<tables, locks, seen, pre>>

(* Mutant: the key is looked up without waiting for one that is being      *)
(* inserted.                                                               *)
InsertKeyNoWait(p) ==
  /\ pc[p] = "insertKey"
  /\ Key(req[p]) \notin keys
  /\ keyLock' = [keyLock EXCEPT ![Key(req[p])] = p]
  /\ Goto(p, req[p].op)
  /\ UNCHANGED <<tables, acctLock, entryLock, req, seen, pre, resp, calls>>

(* withIdempotency: anchor the key.  An uncommitted key of another         *)
(* transaction is waited for; a committed one makes this call a replay,    *)
(* which reads the account and ends without a commit.                      *)
InsertKey(p) ==
  /\ pc[p] = "insertKey"
  /\ keyLock[Key(req[p])] = None
  /\ Key(req[p]) \notin keys
  /\ keyLock' = [keyLock EXCEPT ![Key(req[p])] = p]
  /\ Goto(p, req[p].op)
  /\ UNCHANGED <<tables, acctLock, entryLock, req, seen, pre, resp, calls>>

Replay(p) ==
  /\ pc[p] = "insertKey"
  /\ keyLock[Key(req[p])] = None
  /\ Key(req[p]) \in keys
  /\ Return(p, IF accounts[req[p].user].exists THEN "replay" ELSE "internal")

(* Deposit and DepositEscrowed: one INSERT ... ON CONFLICT DO UPDATE. *)
DepositUpsert(p) ==
  /\ pc[p] = "deposit"
  /\ acctLock[req[p].user] = None
  /\ TakeAccount(p, Plus(accounts[req[p].user], req[p].amount, 0), "commit")

DepositEscrowedUpsert(p) ==
  /\ pc[p] = "depositEscrowed"
  /\ acctLock[req[p].user] = None
  /\ TakeAccount(p, Plus(accounts[req[p].user], req[p].amount, req[p].amount), "commit")

(* Mutant: the table has no CHECK (escrowed >= 0). *)
ConfirmUpdateUnchecked(p) ==
  /\ pc[p] = "confirmDeposit"
  /\ accounts[req[p].user].exists
  /\ acctLock[req[p].user] = None
  /\ TakeAccount(p, Plus(accounts[req[p].user], 0, -req[p].amount), "commit")

(* ConfirmDeposit: UPDATE ... SET escrowed = escrowed - amount. *)
ConfirmUpdate(p) ==
  /\ pc[p] = "confirmDeposit"
  /\ LET row == accounts[req[p].user]
         new == Plus(row, 0, -req[p].amount)
     IN  \/ ~row.exists /\ Return(p, "unknown_user")
         \/ /\ row.exists
            /\ acctLock[req[p].user] = None
            /\ IF Checked(new) THEN TakeAccount(p, new, "commit") ELSE Return(p, "internal")

(* CancelDeposit: the UPDATE's WHERE clause skips an account whose         *)
(* escrowed is too small, without waiting for its lock.                    *)
CancelUpdate(p) ==
  /\ pc[p] = "cancelDeposit"
  /\ LET row == accounts[req[p].user]
         amt == req[p].amount
     IN  \/ ~(row.exists /\ row.escrowed >= amt) /\ Return(p, "insufficient_funds")
         \/ /\ row.exists /\ row.escrowed >= amt
            /\ acctLock[req[p].user] = None
            /\ TakeAccount(p, Plus(row, -amt, -amt), "commit")

(* Mutant: a plain SELECT, which locks nothing. *)
SelectWithoutLock(p) ==
  LET row == accounts[req[p].user]
  IN  IF ~row.exists \/ row.gross - row.escrowed < req[p].amount
      THEN Return(p, "insufficient_funds")
      ELSE /\ seen' = [seen EXCEPT ![p] = row]
           /\ Goto(p, "update")
           /\ UNCHANGED <<tables, locks, req, pre, resp, calls>>

(* Mutant: no Rollback on the early return for want of funds. *)
SelectWithoutRollback(p) ==
  /\ accounts[req[p].user].exists
  /\ acctLock[req[p].user] = None
  /\ acctLock' = [acctLock EXCEPT ![req[p].user] = p]
  /\ IF accounts[req[p].user].gross - accounts[req[p].user].escrowed < req[p].amount
     THEN /\ pc' = [pc EXCEPT ![p] = "idle"]
          /\ resp' = [resp EXCEPT ![p] = "insufficient_funds"]
          /\ UNCHANGED <<tables, keyLock, entryLock, req, seen, pre, calls>>
     ELSE /\ seen' = [seen EXCEPT ![p] = accounts[req[p].user]]
          /\ Goto(p, "update")
          /\ UNCHANGED <<tables, keyLock, entryLock, req, pre, resp, calls>>

(* Withdraw and Escrow: SELECT ... FOR UPDATE, then the funds check. *)
SelectForUpdate(p) ==
  LET row == accounts[req[p].user]
  IN  \/ ~row.exists /\ Return(p, "unknown_user")
      \/ /\ row.exists
         /\ acctLock[req[p].user] = None
         /\ IF row.gross - row.escrowed < req[p].amount
            THEN Return(p, "insufficient_funds")
            ELSE TakeAccount(p, row, "update")

WithdrawSelect(p) == pc[p] = "withdraw" /\ SelectForUpdate(p)

EscrowSelect(p) == pc[p] = "select" /\ SelectForUpdate(p)

(* UPDATE ... WHERE version = the version that was read. *)
VersionedUpdate(p, new, label) ==
  /\ pc[p] = "update"
  /\ IF accounts[UserOf(p)].version # seen[p].version
     THEN Return(p, "concurrent_modification")
     ELSE IF ~Checked(new) THEN Return(p, "internal")
     ELSE /\ seen' = [seen EXCEPT ![p] = new]
          /\ Goto(p, label)
          /\ UNCHANGED <<tables, locks, req, pre, resp, calls>>

WithdrawUpdate(p) ==
  /\ req[p].op = "withdraw"
  /\ VersionedUpdate(p, Plus(seen[p], -req[p].amount, 0), "commit")

EscrowUpdate(p) ==
  /\ req[p].op = "escrow"
  /\ VersionedUpdate(p, Plus(seen[p], 0, req[p].amount), "insertEntry")

ReleaseUpdate(p) ==
  /\ req[p].op = "release"
  /\ VersionedUpdate(p, Plus(seen[p], 0, -pre[p].amount), "commit")

(* Mutant: a duplicate entry is ignored and the update committed. *)
InsertEntryIgnoresDuplicate(p) ==
  /\ pc[p] = "insertEntry"
  /\ entryLock[req[p].id] = None
  /\ entryLock' = [entryLock EXCEPT ![req[p].id] = p]
  /\ Goto(p, "commit")
  /\ UNCHANGED <<tables, acctLock, keyLock, req, seen, pre, resp, calls>>

(* Escrow: INSERT INTO escrow_entries.  A duplicate rolls back what the    *)
(* transaction did and goes on to CheckAvailable, outside of it.           *)
InsertEntry(p) ==
  /\ pc[p] = "insertEntry"
  /\ entryLock[req[p].id] = None
  /\ IF entries[req[p].id] = NoEntry
     THEN /\ entryLock' = [entryLock EXCEPT ![req[p].id] = p]
          /\ Goto(p, "commit")
          /\ UNCHANGED <<tables, acctLock, keyLock, req, seen, pre, resp, calls>>
     ELSE /\ Goto(p, "checkAvailable")
          /\ seen' = [seen EXCEPT ![p] = NoAccount]
          /\ EndTx(p)
          /\ UNCHANGED <<tables, req, pre, resp, calls>>

(* CheckAvailable reads one row and never fails. *)
CheckAvailable(p) ==
  /\ pc[p] = "checkAvailable"
  /\ Return(p, "ok")

(* ReleaseEscrow: the read outside the transaction ... *)
PreRead(p) ==
  /\ pc[p] = "preRead"
  /\ \/ entries[req[p].id] = NoEntry /\ Return(p, "unknown_escrow")
     \/ /\ entries[req[p].id] # NoEntry
        /\ pre' = [pre EXCEPT ![p] = entries[req[p].id]]
        /\ Goto(p, "deleteEntry")
        /\ UNCHANGED <<tables, locks, req, seen, resp, calls>>

(* ... the DELETE, which finds the entry gone if another release won ... *)
DeleteEntry(p) ==
  /\ pc[p] = "deleteEntry"
  /\ \/ entries[req[p].id] = NoEntry /\ Return(p, "unknown_escrow")
     \/ /\ entries[req[p].id] # NoEntry
        /\ entryLock[req[p].id] = None
        /\ entryLock' = [entryLock EXCEPT ![req[p].id] = p]
        /\ Goto(p, "selectOwner")
        /\ UNCHANGED <<tables, acctLock, keyLock, req, seen, pre, resp, calls>>

(* ... and the account of the user that was read. *)
SelectOwner(p) ==
  /\ pc[p] = "selectOwner"
  /\ LET row == accounts[pre[p].user]
     IN  /\ row.exists => acctLock[pre[p].user] = None
         /\ IF row.exists THEN TakeAccount(p, row, "update") ELSE Return(p, "internal")

(* COMMIT: what the transaction wrote reaches the tables.  The client may  *)
(* not hear of it: the call then ends as "unknown".                        *)
Commit(p, status) ==
  /\ pc[p] = "commit"
  /\ accounts' = [accounts EXCEPT ![UserOf(p)] = seen[p]]
  /\ keys' = IF req[p].op \in Keyed THEN keys \cup {Key(req[p])} ELSE keys
  /\ entries' = CASE req[p].op = "escrow"  -> [entries EXCEPT ![req[p].id] =
                                                 [user |-> req[p].user, amount |-> req[p].amount]]
                  [] req[p].op = "release" -> [entries EXCEPT ![req[p].id] = NoEntry]
                  [] OTHER                 -> entries
  /\ pc' = [pc EXCEPT ![p] = "idle"]
  /\ resp' = [resp EXCEPT ![p] = status]
  /\ seen' = [seen EXCEPT ![p] = NoAccount]
  /\ pre' = [pre EXCEPT ![p] = NoEntry]
  /\ EndTx(p)
  /\ UNCHANGED <<req, calls>>

-----------------------------------------------------------------------------
(* Failures and deadlocks *)

(* The connection, the replica or the client's context is gone between two *)
(* statements: Postgres rolls the transaction back.                        *)
Fail(p) == pc[p] # "idle" /\ Return(p, "unknown")

(* The process whose row lock the next statement of p waits for.  It is    *)
(* None when the statement need not wait.                                  *)
Holder(p) ==
  CASE pc[p] = "insertKey"                      -> keyLock[Key(req[p])]
    [] pc[p] \in {"deposit", "depositEscrowed"} -> acctLock[req[p].user]
    [] pc[p] \in {"confirmDeposit", "withdraw", "select"} /\ accounts[req[p].user].exists
                                                -> acctLock[req[p].user]
    [] pc[p] = "cancelDeposit" /\ accounts[req[p].user].escrowed >= req[p].amount
                                                -> acctLock[req[p].user]
    [] pc[p] = "insertEntry"                    -> entryLock[req[p].id]
    [] pc[p] = "deleteEntry" /\ entries[req[p].id] # NoEntry
                                                -> entryLock[req[p].id]
    [] pc[p] = "selectOwner"                    -> acctLock[pre[p].user]
    [] OTHER                                    -> None

(* The processes of S wait for one another. *)
Deadlocked(S) == S # {} /\ {Holder(p) : p \in S} = S

(* Postgres breaks a cycle of waiting transactions by aborting one. *)
DeadlockAbort(p) ==
  /\ \E S \in SUBSET Procs : p \in S /\ Deadlocked(S)
  /\ Return(p, "deadlock")

-----------------------------------------------------------------------------
Init ==
  /\ accounts = [u \in Users |-> NoAccount]
  /\ keys = {}
  /\ entries = [o \in Orders |-> NoEntry]
  /\ acctLock = [u \in Users |-> None]
  /\ keyLock = [k \in AllKeys |-> None]
  /\ entryLock = [o \in Orders |-> None]
  /\ pc = [p \in Procs |-> "idle"]
  /\ req = [p \in Procs |-> NoRequest]
  /\ seen = [p \in Procs |-> NoAccount]
  /\ pre = [p \in Procs |-> NoEntry]
  /\ resp = [p \in Procs |-> "none"]
  /\ calls = 0

Statement(p) ==
  \/ InsertKey(p)
  \/ Replay(p)
  \/ DepositUpsert(p)
  \/ DepositEscrowedUpsert(p)
  \/ ConfirmUpdate(p)
  \/ CancelUpdate(p)
  \/ WithdrawSelect(p)
  \/ EscrowSelect(p)
  \/ WithdrawUpdate(p)
  \/ EscrowUpdate(p)
  \/ ReleaseUpdate(p)
  \/ InsertEntry(p)
  \/ CheckAvailable(p)
  \/ PreRead(p)
  \/ DeleteEntry(p)
  \/ SelectOwner(p)
  \/ \E status \in {"ok", "unknown"} : Commit(p, status)
  \/ DeadlockAbort(p)

Next ==
  \E p \in Procs :
    \/ \E r \in Requests : Invoke(p, r)
    \/ Statement(p)
    \/ Fail(p)

Spec == Init /\ [][Next]_vars

(* A call keeps executing its statements as long as they can run, and the  *)
(* deadlock detector runs.  Nothing is assumed of clients or of failures.  *)
FairSpec == Spec /\ \A p \in Procs : WF_vars(Statement(p))
-----------------------------------------------------------------------------
(* Properties *)

RowType   == [exists : BOOLEAN, gross : Nat, escrowed : Nat, version : Nat]
EntryType == [user : Users, amount : Nat] \cup {NoEntry}
Labels    == Keyed \cup {"idle", "insertKey", "select", "update", "insertEntry", "checkAvailable",
                         "preRead", "deleteEntry", "selectOwner", "commit"}
Statuses  == {"none", "running", "ok", "replay", "invalid", "unknown_user", "unknown_escrow",
              "insufficient_funds", "concurrent_modification", "internal", "deadlock", "unknown"}

TypeOK ==
  /\ accounts \in [Users -> RowType]
  /\ keys \subseteq AllKeys
  /\ entries \in [Orders -> EntryType]
  /\ acctLock \in [Users -> Procs \cup {None}]
  /\ keyLock \in [AllKeys -> Procs \cup {None}]
  /\ entryLock \in [Orders -> Procs \cup {None}]
  /\ pc \in [Procs -> Labels]
  /\ req \in [Procs -> Requests \cup {NoRequest}]
  /\ seen \in [Procs -> RowType]
  /\ pre \in [Procs -> EntryType]
  /\ resp \in [Procs -> Statuses]
  /\ calls \in Nat

(* What the committed requests and entries add up to. *)
Total(f, S) == MapThenSumSet(LAMBDA x : f[x], S)

AppliedFor(u, ops) == {r \in Requests : r.op \in ops /\ r.user = u /\ Key(r) \in keys}

Applied(u, ops) == Total([r \in AppliedFor(u, ops) |-> r.amount], AppliedFor(u, ops))

HeldFor(u) ==
  Total([o \in Orders |-> entries[o].amount], {o \in Orders : entries[o].user = u})

(* The books balance: an account holds exactly what the committed keys and *)
(* escrow entries say, whatever calls failed, ran twice or were aborted.   *)
BooksBalance ==
  \A u \in Users :
    /\ accounts[u].gross = Applied(u, {"deposit", "depositEscrowed"})
                           - Applied(u, {"withdraw", "cancelDeposit"})
    /\ accounts[u].escrowed = Applied(u, {"depositEscrowed"})
                              - Applied(u, {"confirmDeposit", "cancelDeposit"}) + HeldFor(u)

(* Every commit, of whatever interleaving of statements, failures and      *)
(* retries, is one step of the ledger: a key counts once, an escrow is     *)
(* held and released once, and the funds that Withdraw and Escrow checked  *)
(* statements ago are still there when they commit.                        *)
Ledger == INSTANCE LedgerSpec WITH
  balance <- [u \in Users |-> [exists   |-> accounts[u].exists,
                               gross    |-> accounts[u].gross,
                               escrowed |-> accounts[u].escrowed]],
  applied <- {r \in Requests : r.op \in Keyed /\ Key(r) \in keys},
  held    <- {r \in Requests : r.op = "escrow" /\ entries[r.id] # NoEntry}

ImplementsLedger == Ledger!Spec

(* The row locks do the work, as long as nobody confirms or cancels a      *)
(* deposit that was not escrowed (the cashier trusts its caller there):    *)
(* the optimistic version check never fails, a release never finds less in *)
(* escrow than its entry says, and a replayed key always finds an account. *)
NoInternalError == \A p \in Procs : resp[p] \notin {"concurrent_modification", "internal"}

(* Every call returns, deadlocks between an Escrow and a ReleaseEscrow of  *)
(* the same order included: no early return keeps a row locked.            *)
CallsReturn == \A p \in Procs : resp[p] = "running" ~> resp[p] # "running"

(* What the comment in Escrow says, "Duplicate order_id - idempotent retry; *)
(* return current snapshot": the retry of an escrow that is held is never   *)
(* refused for want of funds.                                               *)
EscrowRetryIsIdempotent ==
  [][\A p \in Procs :
       /\ req[p].op = "escrow" /\ resp[p] = "running"
       /\ resp'[p] = "insufficient_funds"
       => entries[req[p].id] = NoEntry]_vars
=============================================================================
