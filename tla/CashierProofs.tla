--------------------------- MODULE CashierProofs ---------------------------
(***************************************************************************)
(* The cashier proved for any number of concurrent calls, users, orders    *)
(* and requests.  CashierInv says of every call in flight which row locks  *)
(* it holds, and that what it read under them is still what the tables     *)
(* say; from it follow the type invariant, that every commit is one step   *)
(* of the ledger, that the books balance, that the version check of the    *)
(* UPDATEs never fails, and that the fake of the tests answers alike.      *)
(***************************************************************************)
EXTENDS FakeCashier, FiniteSetTheorems, WellFoundedInduction, TLAPS

(* The request of order o's entry e. *)
EntryOf(o, e) ==
  \E r \in Requests :
    /\ r.op = "escrow" /\ r.id = o /\ r.amount > 0
    /\ e = [user |-> r.user, amount |-> r.amount]

(* The row a call that reaches its COMMIT has written. *)
Written(p) ==
  LET row == accounts[UserOf(p)]
      amt == req[p].amount
  IN  CASE req[p].op = "deposit"         -> Plus(row, amt, 0)
        [] req[p].op = "depositEscrowed" -> Plus(row, amt, amt)
        [] req[p].op = "confirmDeposit"  -> Plus(row, 0, -amt)
        [] req[p].op = "cancelDeposit"   -> Plus(row, -amt, -amt)
        [] req[p].op = "withdraw"        -> Plus(row, -amt, 0)
        [] req[p].op = "escrow"          -> Plus(row, 0, amt)
        [] req[p].op = "release"         -> Plus(row, 0, -pre[p].amount)

(* Which request runs which statement. *)
Control(p) ==
  /\ pc[p] # "idle" => req[p] \in Requests /\ (req[p].op # "release" => req[p].amount > 0)
  /\ pc[p] = "insertKey" => req[p].op \in Keyed
  /\ pc[p] \in Keyed => req[p].op = pc[p]
  /\ pc[p] \in {"select", "insertEntry", "checkAvailable"} => req[p].op = "escrow"
  /\ pc[p] \in {"preRead", "deleteEntry", "selectOwner"} => req[p].op = "release"
  /\ pc[p] = "update" => req[p].op \in {"withdraw", "escrow", "release"}

HasKey(p)     == pc[p] \in Keyed \cup {"update", "commit"} /\ req[p].op \in Keyed
HasAccount(p) == pc[p] \in {"update", "insertEntry", "commit"}
HasEntry(p)   == \/ req[p].op = "escrow" /\ pc[p] = "commit"
                 \/ req[p].op = "release" /\ pc[p] \in {"selectOwner", "update", "commit"}

(* The row locks the call holds. *)
Locked(p) ==
  /\ HasKey(p) => keyLock[Key(req[p])] = p
  /\ HasAccount(p) => acctLock[UserOf(p)] = p
  /\ HasEntry(p) => entryLock[req[p].id] = p

(* What the locks protect: the key is new, the entry is there or not, and  *)
(* the account is the one the call computed with.                          *)
KeyFresh(p) == HasKey(p) => Key(req[p]) \notin keys

EntryFresh(p) ==
  /\ HasEntry(p) => entries[req[p].id] = IF req[p].op = "escrow" THEN NoEntry ELSE pre[p]
  /\ pc[p] \in {"deleteEntry", "selectOwner", "update", "commit"} /\ req[p].op = "release"
     => EntryOf(req[p].id, pre[p])

AccountFresh(p) ==
  /\ HasAccount(p) =>
       /\ seen[p] = IF pc[p] = "update" THEN accounts[UserOf(p)] ELSE Written(p)
       /\ Checked(seen[p])
       /\ req[p].op \notin {"deposit", "depositEscrowed"} => accounts[UserOf(p)].exists
       /\ req[p].op \in {"withdraw", "escrow"} =>
            accounts[UserOf(p)].gross - accounts[UserOf(p)].escrowed >= req[p].amount

Call(p) == Control(p) /\ Locked(p) /\ KeyFresh(p) /\ EntryFresh(p) /\ AccountFresh(p)

(* What the committed tables say of one another. *)
Tables ==
  /\ \A u \in Users : Checked(accounts[u])
  /\ \A r \in Requests : r.op \in Keyed /\ Key(r) \in keys => accounts[r.user].exists
  /\ \A o \in Orders : entries[o] # NoEntry =>
       EntryOf(o, entries[o]) /\ accounts[entries[o].user].exists

(* The inductive invariant. *)
CashierInv == TypeOK /\ Tables /\ \A p \in Procs : Call(p)
-----------------------------------------------------------------------------
(* Operators of the model *)

(* withIdempotency finds the key of a request in the table's key space. *)
LEMMA KeyType ==
  ASSUME NEW r \in Requests, r.op \in Keyed
  PROVE  Key(r) \in AllKeys
BY RequestsAssumption DEF Key, AllKeys, Keyed

(* A request names rows that exist or can exist. *)
LEMMA RequestType ==
  ASSUME NEW r \in Requests
  PROVE  /\ r.op \in Keyed \cup {"escrow", "release"}
         /\ r.op \in Keyed => r.id \in Refs
         /\ r.op \in {"escrow", "release"} => r.id \in Orders
         /\ r.op # "release" => r.user \in Users /\ r.amount \in Nat
BY RequestsAssumption DEF Keyed

(* An entry names a user of the system, and is not the missing one. *)
LEMMA EntryOfType ==
  ASSUME NEW o, NEW e, EntryOf(o, e)
  PROVE  /\ e.user \in Users /\ e.amount \in Nat /\ e.amount > 0
         /\ e \in EntryType /\ e # NoEntry
<1>1. PICK r \in Requests : /\ r.op = "escrow" /\ r.id = o /\ r.amount > 0
                            /\ e = [user |-> r.user, amount |-> r.amount]
  BY DEF EntryOf
<1>2. r.user \in Users /\ r.amount \in Nat
  BY <1>1, RequestType
<1> QED BY <1>1, <1>2 DEF EntryType, NoEntry

(* An order's entry is always the same one, whoever escrows it how often. *)
LEMMA EntryOfUnique ==
  ASSUME NEW o, NEW d, NEW e, EntryOf(o, d), EntryOf(o, e)
  PROVE  d = e
<1>1. PICK r \in Requests : /\ r.op = "escrow" /\ r.id = o
                            /\ d = [user |-> r.user, amount |-> r.amount]
  BY DEF EntryOf
<1>2. PICK s \in Requests : /\ s.op = "escrow" /\ s.id = o
                            /\ e = [user |-> s.user, amount |-> s.amount]
  BY DEF EntryOf
<1>3. r = s
  BY <1>1, <1>2, OrdersAssumption
<1> QED BY <1>1, <1>2, <1>3

(* The account a call has locked is one of the table's. *)
LEMMA OwnerType ==
  ASSUME CashierInv, NEW p \in Procs, pc[p] # "idle",
         pc[p] \notin {"preRead"}
  PROVE  UserOf(p) \in Users
<1>1. Control(p) /\ EntryFresh(p) /\ req[p] \in Requests
  BY DEF CashierInv, Call, Control
<1>2. CASE req[p].op = "release"
  <2>1. pc[p] \in {"deleteEntry", "selectOwner", "update", "commit"}
    BY <1>1, <1>2 DEF Control, CashierInv, TypeOK, Labels, Keyed
  <2>2. EntryOf(req[p].id, pre[p])
    BY <1>1, <1>2, <2>1 DEF EntryFresh
  <2> QED BY <1>2, <2>2, EntryOfType DEF UserOf
<1>3. CASE req[p].op # "release"
  BY <1>1, <1>3, RequestType DEF UserOf
<1> QED BY <1>2, <1>3

-----------------------------------------------------------------------------
(* Steps that leave the tables alone *)

(* A call of another process is not disturbed by a step that leaves the    *)
(* tables, its variables and its locks alone.                              *)
LEMMA Frame ==
  ASSUME CashierInv, NEW q \in Procs, UNCHANGED tables,
         pc'[q] = pc[q], req'[q] = req[q], seen'[q] = seen[q], pre'[q] = pre[q],
         \A u \in Users : acctLock[u] = q => acctLock'[u] = q,
         \A k \in AllKeys : keyLock[k] = q => keyLock'[k] = q,
         \A o \in Orders : entryLock[o] = q => entryLock'[o] = q
  PROVE  Call(q)'
<1>1. Call(q)
  BY DEF CashierInv
<1>2. UserOf(q)' = UserOf(q) /\ Written(q)' = Written(q)
  BY DEF UserOf, Written, tables
<1>3. Control(q)'
  BY <1>1 DEF Call, Control
<1>4. Locked(q)'
  <2>1. HasKey(q)' => keyLock'[Key(req[q])] = q
    <3>1. HasKey(q)' => HasKey(q) /\ req[q] \in Requests
      BY <1>1 DEF HasKey, Call, Control, Keyed
    <3> QED BY <1>1, <3>1, KeyType DEF Call, Locked, HasKey
  <2>2. HasAccount(q)' => acctLock'[UserOf(q)] = q
    <3>1. HasAccount(q)' => HasAccount(q) /\ UserOf(q) \in Users
      BY OwnerType DEF HasAccount
    <3> QED BY <1>1, <3>1 DEF Call, Locked
  <2>3. HasEntry(q)' => entryLock'[req[q].id] = q
    <3>1. HasEntry(q)' => HasEntry(q) /\ req[q].id \in Orders
      BY <1>1, RequestType DEF HasEntry, Call, Control
    <3> QED BY <1>1, <3>1 DEF Call, Locked
  <2> QED BY <1>2, <2>1, <2>2, <2>3 DEF Locked
<1>5. KeyFresh(q)'
  BY <1>1 DEF Call, KeyFresh, HasKey, tables
<1>6. EntryFresh(q)'
  BY <1>1 DEF Call, EntryFresh, HasEntry, tables
<1>7. AccountFresh(q)'
  BY <1>1, <1>2 DEF Call, AccountFresh, HasAccount, Checked, tables
<1> QED BY <1>3, <1>4, <1>5, <1>6, <1>7 DEF Call

(* What the tables say stays true while nothing is committed. *)
LEMMA TablesFrame ==
  ASSUME CashierInv, UNCHANGED tables
  PROVE  Tables'
BY DEF CashierInv, Tables, tables, Checked

(* A call that returns early, or is aborted, leaves nothing behind. *)
LEMMA ReturnInv ==
  ASSUME CashierInv, NEW p \in Procs, NEW status \in Statuses, Return(p, status)
  PROVE  CashierInv'
<1> USE DEF Return, EndTx, Unlocked
<1>1. TypeOK'
  BY NoneAssumption DEF CashierInv, TypeOK, tables, Labels, NoAccount, RowType, EntryType
<1>2. Call(p)'
  <2>1. pc'[p] = "idle"
    BY DEF CashierInv, TypeOK
  <2> QED BY <2>1 DEF Call, Control, Locked, HasKey, HasAccount, HasEntry, KeyFresh, EntryFresh,
                  AccountFresh, Keyed
<1>3. ASSUME NEW q \in Procs, q # p PROVE Call(q)'
  <2>1. pc'[q] = pc[q] /\ req'[q] = req[q] /\ seen'[q] = seen[q] /\ pre'[q] = pre[q]
    BY <1>3 DEF CashierInv, TypeOK
  <2>2. /\ \A u \in Users : acctLock[u] = q => acctLock'[u] = q
        /\ \A k \in AllKeys : keyLock[k] = q => keyLock'[k] = q
        /\ \A o \in Orders : entryLock[o] = q => entryLock'[o] = q
    BY <1>3 DEF CashierInv, TypeOK
  <2> QED BY <2>1, <2>2, Frame
<1>4. Tables'
  BY TablesFrame
<1> QED BY <1>1, <1>2, <1>3, <1>4 DEF CashierInv

(* A step of p that commits nothing and takes no lock from another call    *)
(* has to answer for p only.                                               *)
LEMMA LocalStep ==
  ASSUME CashierInv, NEW p \in Procs, UNCHANGED tables, TypeOK', Call(p)',
         \A q \in Procs : q # p =>
           pc'[q] = pc[q] /\ req'[q] = req[q] /\ seen'[q] = seen[q] /\ pre'[q] = pre[q],
         \A u \in Users : acctLock[u] \notin {p, None} => acctLock'[u] = acctLock[u],
         \A k \in AllKeys : keyLock[k] \notin {p, None} => keyLock'[k] = keyLock[k],
         \A o \in Orders : entryLock[o] \notin {p, None} => entryLock'[o] = entryLock[o]
  PROVE  CashierInv'
<1>1. ASSUME NEW q \in Procs, q # p PROVE Call(q)'
  <2>1. q # None
    BY NoneAssumption
  <2> QED BY <1>1, <2>1, Frame
<1>2. Tables'
  BY TablesFrame
<1> QED BY <1>1, <1>2 DEF CashierInv

LEMMA InvokeInv ==
  ASSUME CashierInv, NEW p \in Procs, NEW r \in Requests, Invoke(p, r)
  PROVE  CashierInv'
<1> USE DEF Invoke, Goto
<1>1. r.op \in Keyed \cup {"escrow", "release"} /\ (r.op # "release" => r.amount \in Nat)
  BY RequestType
<1>2. TypeOK'
  BY <1>1 DEF CashierInv, TypeOK, tables, locks, Labels, Statuses, Keyed
<1>3. Call(p)'
  <2>1. req'[p] = r /\ pc[p] = "idle"
    BY DEF CashierInv, TypeOK
  <2>2. CASE r.op # "release" /\ r.amount <= 0
    <3>1. pc'[p] = "idle"
      BY <2>1, <2>2
    <3> QED BY <3>1 DEF Call, Control, Locked, HasKey, HasAccount, HasEntry, KeyFresh, EntryFresh,
                    AccountFresh, Keyed
  <2>3. CASE ~(r.op # "release" /\ r.amount <= 0)
    <3>1. pc'[p] = IF r.op \in Keyed THEN "insertKey" ELSE IF r.op = "escrow" THEN "select" ELSE "preRead"
      BY <2>3, <1>1 DEF CashierInv, TypeOK, Keyed
    <3>2. Control(p)'
      BY <1>1, <2>1, <2>3, <3>1 DEF Control, Keyed
    <3> QED BY <3>1, <3>2 DEF Call, Locked, HasKey, HasAccount, HasEntry, KeyFresh, EntryFresh,
                    AccountFresh, Keyed
  <2> QED BY <2>2, <2>3
<1>4. UNCHANGED tables /\ UNCHANGED locks
  OBVIOUS
<1>5. \A q \in Procs : q # p =>
           pc'[q] = pc[q] /\ req'[q] = req[q] /\ seen'[q] = seen[q] /\ pre'[q] = pre[q]
  BY DEF CashierInv, TypeOK
<1> QED BY <1>2, <1>3, <1>4, <1>5, LocalStep DEF locks

(* The key is new and nobody else is inserting it. *)
LEMMA InsertKeyInv ==
  ASSUME CashierInv, NEW p \in Procs, InsertKey(p)
  PROVE  CashierInv'
<1> USE DEF InsertKey, Goto
<1>1. Control(p) /\ req[p] \in Requests /\ req[p].op \in Keyed /\ req[p].amount > 0
  BY DEF CashierInv, Call, Control, Keyed
<1>2. Key(req[p]) \in AllKeys
  BY <1>1, KeyType
<1>3. TypeOK'
  BY <1>1, <1>2 DEF CashierInv, TypeOK, tables, Labels
<1>4. Call(p)'
  <2>1. /\ pc'[p] = req[p].op /\ pc'[p] \in Keyed /\ req'[p] = req[p]
        /\ keyLock'[Key(req[p])] = p
    BY <1>1, <1>2 DEF CashierInv, TypeOK
  <2>2. Control(p)'
    BY <1>1, <2>1 DEF Control, Keyed
  <2>3. Locked(p)' /\ KeyFresh(p)'
    BY <2>1 DEF Locked, HasKey, HasAccount, HasEntry, KeyFresh, Keyed, tables
  <2>4. EntryFresh(p)' /\ AccountFresh(p)'
    BY <2>1 DEF EntryFresh, AccountFresh, HasAccount, HasEntry, Keyed
  <2> QED BY <2>2, <2>3, <2>4 DEF Call
<1>5. \A q \in Procs : q # p =>
           pc'[q] = pc[q] /\ req'[q] = req[q] /\ seen'[q] = seen[q] /\ pre'[q] = pre[q]
  BY DEF CashierInv, TypeOK
<1>6. \A k \in AllKeys : keyLock[k] \notin {p, None} => keyLock'[k] = keyLock[k]
  BY <1>2 DEF CashierInv, TypeOK
<1> QED BY <1>3, <1>4, <1>5, <1>6, LocalStep DEF tables

(* An account row that is free is locked, and with it what was computed    *)
(* from the row.                                                           *)
LEMMA TakeAccountInv ==
  ASSUME CashierInv, NEW p \in Procs, NEW row \in RowType, NEW label \in {"update", "commit"},
         TakeAccount(p, row, label), acctLock[UserOf(p)] = None, UserOf(p) \in Users,
         pc[p] # "idle",
         label = "update" => req[p].op \in {"withdraw", "escrow", "release"} /\ row = accounts[UserOf(p)],
         label = "commit" => req[p].op \in Keyed /\ row = Written(p),
         req[p].op \in Keyed => HasKey(p),
         req[p].op = "release" => pc[p] = "selectOwner",
         Checked(row),
         req[p].op \notin {"deposit", "depositEscrowed"} => accounts[UserOf(p)].exists,
         req[p].op \in {"withdraw", "escrow"} =>
            accounts[UserOf(p)].gross - accounts[UserOf(p)].escrowed >= req[p].amount
  PROVE  CashierInv'
<1> USE DEF TakeAccount, Goto
<1>1. Call(p)
  BY DEF CashierInv
<1>2. TypeOK'
  BY DEF CashierInv, TypeOK, tables, Labels
<1>3. /\ pc'[p] = label /\ seen'[p] = row /\ req' = req /\ pre' = pre
      /\ keyLock' = keyLock /\ entryLock' = entryLock /\ UNCHANGED tables
      /\ acctLock'[UserOf(p)] = p
  BY DEF CashierInv, TypeOK
<1>4. UserOf(p)' = UserOf(p) /\ Written(p)' = Written(p)
  BY <1>3 DEF UserOf, Written, tables
<1>5. Control(p)'
  BY <1>1, <1>3 DEF Call, Control, Keyed
<1>6. HasKey(p)' => HasKey(p)
  BY <1>3 DEF HasKey
<1>7. HasEntry(p)' => HasEntry(p)
  BY <1>3 DEF HasEntry, Keyed
<1>8. Locked(p)' /\ KeyFresh(p)'
  BY <1>1, <1>3, <1>4, <1>6, <1>7 DEF Call, Locked, KeyFresh, tables
<1>9. EntryFresh(p)'
  BY <1>1, <1>3, <1>7 DEF Call, EntryFresh, tables, Keyed
<1>10. AccountFresh(p)'
  BY <1>3, <1>4 DEF AccountFresh, tables, Checked
<1>11. Call(p)'
  BY <1>5, <1>8, <1>9, <1>10 DEF Call
<1>12. \A q \in Procs : q # p =>
           pc'[q] = pc[q] /\ req'[q] = req[q] /\ seen'[q] = seen[q] /\ pre'[q] = pre[q]
  BY DEF CashierInv, TypeOK
<1>13. \A u \in Users : acctLock[u] \notin {p, None} => acctLock'[u] = acctLock[u]
  BY DEF CashierInv, TypeOK
<1> QED BY <1>2, <1>3, <1>11, <1>12, <1>13, LocalStep

(* What a keyed statement knows when it runs. *)
LEMMA KeyedFacts ==
  ASSUME CashierInv, NEW p \in Procs, pc[p] \in Keyed
  PROVE  /\ req[p] \in Requests /\ req[p].op = pc[p] /\ pc[p] # "idle" /\ HasKey(p)
         /\ req[p].user \in Users /\ req[p].amount \in Nat /\ req[p].amount > 0
         /\ UserOf(p) = req[p].user
         /\ accounts[req[p].user] \in RowType /\ Checked(accounts[req[p].user])
<1>1. Control(p)
  BY DEF CashierInv, Call
<1>2. req[p] \in Requests /\ req[p].op = pc[p] /\ req[p].op # "release" /\ pc[p] # "idle"
  BY <1>1 DEF Control, Keyed
<1>3. req[p].user \in Users /\ req[p].amount \in Nat /\ req[p].amount > 0
  BY <1>1, <1>2, RequestType DEF Control
<1>4. accounts[req[p].user] \in RowType /\ Checked(accounts[req[p].user])
  BY <1>3 DEF CashierInv, TypeOK, Tables
<1> QED BY <1>2, <1>3, <1>4 DEF HasKey, UserOf

(* Money paid in leaves a row the table's CHECKs accept, and the row stays *)
(* a row.                                                                  *)
LEMMA PlusType ==
  ASSUME NEW row \in RowType, NEW g \in Int, NEW e \in Int, Checked(Plus(row, g, e))
  PROVE  Plus(row, g, e) \in RowType
BY DEF Plus, RowType, Checked

LEMMA DepositUpsertInv ==
  ASSUME CashierInv, NEW p \in Procs, DepositUpsert(p)
  PROVE  CashierInv'
<1> DEFINE row == Plus(accounts[req[p].user], req[p].amount, 0)
<1>1. pc[p] = "deposit" /\ pc[p] \in Keyed
  BY DEF DepositUpsert, Keyed
<1>2. Checked(row)
  BY <1>1, KeyedFacts DEF Plus, Checked, RowType
<1>3. row \in RowType
  BY <1>1, <1>2, KeyedFacts, PlusType
<1>4. row = Written(p)
  BY <1>1, KeyedFacts DEF Written
<1> QED BY <1>1, <1>2, <1>3, <1>4, KeyedFacts, TakeAccountInv DEF DepositUpsert

LEMMA DepositEscrowedUpsertInv ==
  ASSUME CashierInv, NEW p \in Procs, DepositEscrowedUpsert(p)
  PROVE  CashierInv'
<1> DEFINE row == Plus(accounts[req[p].user], req[p].amount, req[p].amount)
<1>1. pc[p] = "depositEscrowed" /\ pc[p] \in Keyed
  BY DEF DepositEscrowedUpsert, Keyed
<1>2. Checked(row)
  BY <1>1, KeyedFacts DEF Plus, Checked, RowType
<1>3. row \in RowType
  BY <1>1, <1>2, KeyedFacts, PlusType
<1>4. row = Written(p)
  BY <1>1, KeyedFacts DEF Written
<1> QED BY <1>1, <1>2, <1>3, <1>4, KeyedFacts, TakeAccountInv DEF DepositEscrowedUpsert

LEMMA ConfirmUpdateInv ==
  ASSUME CashierInv, NEW p \in Procs, ConfirmUpdate(p)
  PROVE  CashierInv'
<1> DEFINE row == Plus(accounts[req[p].user], 0, -req[p].amount)
<1>1. pc[p] = "confirmDeposit" /\ pc[p] \in Keyed
  BY DEF ConfirmUpdate, Keyed
<1>2. CASE Return(p, "unknown_user")
  BY <1>2, ReturnInv DEF Statuses
<1>3. CASE Return(p, "internal")
  BY <1>3, ReturnInv DEF Statuses
<1>4. CASE /\ accounts[req[p].user].exists /\ acctLock[req[p].user] = None
           /\ Checked(row) /\ TakeAccount(p, row, "commit")
  <2>1. row \in RowType
    BY <1>1, <1>4, KeyedFacts, PlusType
  <2>2. row = Written(p)
    BY <1>1, KeyedFacts DEF Written
  <2> HIDE DEF row
  <2> QED BY <1>1, <1>4, <2>1, <2>2, KeyedFacts, TakeAccountInv
<1> QED BY <1>2, <1>3, <1>4 DEF ConfirmUpdate

LEMMA CancelUpdateInv ==
  ASSUME CashierInv, NEW p \in Procs, CancelUpdate(p)
  PROVE  CashierInv'
<1> DEFINE row == Plus(accounts[req[p].user], -req[p].amount, -req[p].amount)
<1>1. pc[p] = "cancelDeposit" /\ pc[p] \in Keyed
  BY DEF CancelUpdate, Keyed
<1>2. CASE Return(p, "insufficient_funds")
  BY <1>2, ReturnInv DEF Statuses
<1>3. CASE /\ accounts[req[p].user].exists /\ accounts[req[p].user].escrowed >= req[p].amount
           /\ acctLock[req[p].user] = None /\ TakeAccount(p, row, "commit")
  <2>1. Checked(row)
    BY <1>1, <1>3, KeyedFacts DEF Plus, Checked, RowType
  <2>2. row \in RowType
    BY <1>1, <2>1, KeyedFacts, PlusType
  <2>3. row = Written(p)
    BY <1>1, KeyedFacts DEF Written
  <2> HIDE DEF row
  <2> QED BY <1>1, <1>3, <2>1, <2>2, <2>3, KeyedFacts, TakeAccountInv
<1> QED BY <1>2, <1>3 DEF CancelUpdate

(* SELECT ... FOR UPDATE, by a withdrawal or an escrow. *)
LEMMA SelectForUpdateInv ==
  ASSUME CashierInv, NEW p \in Procs, WithdrawSelect(p) \/ EscrowSelect(p)
  PROVE  CashierInv'
<1>1. SelectForUpdate(p) /\ pc[p] \in {"withdraw", "select"}
  BY DEF WithdrawSelect, EscrowSelect
<1>2. /\ Control(p) /\ req[p] \in Requests /\ pc[p] # "idle"
      /\ req[p].op = IF pc[p] = "select" THEN "escrow" ELSE "withdraw"
  BY <1>1 DEF CashierInv, Call, Control, Keyed
<1>3. req[p].user \in Users /\ req[p].amount \in Nat /\ UserOf(p) = req[p].user
  BY <1>1, <1>2, RequestType DEF UserOf
<1>4. accounts[req[p].user] \in RowType /\ Checked(accounts[req[p].user])
  BY <1>3 DEF CashierInv, TypeOK, Tables
<1>5. req[p].op \in Keyed => HasKey(p)
  BY <1>1, <1>2 DEF HasKey, Keyed
<1>6. CASE Return(p, "unknown_user") \/ Return(p, "insufficient_funds")
  BY <1>6, ReturnInv DEF Statuses
<1>7. CASE /\ accounts[req[p].user].exists /\ acctLock[req[p].user] = None
           /\ ~(accounts[req[p].user].gross - accounts[req[p].user].escrowed < req[p].amount)
           /\ TakeAccount(p, accounts[req[p].user], "update")
  <2>1. accounts[req[p].user].gross - accounts[req[p].user].escrowed >= req[p].amount
    BY <1>3, <1>4, <1>7 DEF RowType
  <2> QED BY <1>2, <1>3, <1>4, <1>5, <1>7, <2>1, TakeAccountInv
<1> QED BY <1>1, <1>6, <1>7 DEF SelectForUpdate

LEMMA SelectOwnerInv ==
  ASSUME CashierInv, NEW p \in Procs, SelectOwner(p)
  PROVE  CashierInv'
<1>1. /\ Control(p) /\ pc[p] = "selectOwner" /\ pc[p] # "idle" /\ req[p].op = "release"
      /\ pc[p] \notin {"preRead"} /\ req[p].op \notin Keyed
  BY DEF CashierInv, Call, Control, Keyed, SelectOwner
<1>2. UserOf(p) \in Users /\ UserOf(p) = pre[p].user
  BY <1>1, OwnerType DEF UserOf
<1>3. accounts[UserOf(p)] \in RowType /\ Checked(accounts[UserOf(p)])
  BY <1>2 DEF CashierInv, TypeOK, Tables
<1>4. CASE Return(p, "internal")
  BY <1>4, ReturnInv DEF Statuses
<1>5. CASE /\ accounts[UserOf(p)].exists /\ acctLock[UserOf(p)] = None
           /\ TakeAccount(p, accounts[UserOf(p)], "update")
  BY <1>1, <1>2, <1>3, <1>5, TakeAccountInv
<1> QED BY <1>2, <1>4, <1>5 DEF SelectOwner

(* The UPDATE after the SELECT.  The row is still the one that was read,   *)
(* so the version matches.                                                 *)
LEMMA VersionedUpdateInv ==
  ASSUME CashierInv, NEW p \in Procs, NEW g \in Int, NEW e \in Int,
         NEW label \in {"insertEntry", "commit"},
         VersionedUpdate(p, Plus(seen[p], g, e), label),
         label = IF req[p].op = "escrow" THEN "insertEntry" ELSE "commit",
         Plus(accounts[UserOf(p)], g, e) = Written(p)
  PROVE  CashierInv' /\ ~Return(p, "concurrent_modification")
<1> DEFINE new == Plus(seen[p], g, e)
<1>1. Call(p) /\ pc[p] = "update"
  BY DEF CashierInv, VersionedUpdate
<1>2. seen[p] = accounts[UserOf(p)]
  BY <1>1 DEF Call, AccountFresh, HasAccount
<1>3. ~Return(p, "concurrent_modification")
  <2>1. \/ Return(p, "internal")
        \/ Goto(p, label) /\ UNCHANGED resp /\ UNCHANGED pre
    BY <1>2 DEF VersionedUpdate
  <2>2. resp \in [Procs -> Statuses] /\ pc \in [Procs -> Labels]
    BY DEF CashierInv, TypeOK
  <2>3. CASE Return(p, "internal")
    BY <2>2, <2>3 DEF Return
  <2>4. CASE Goto(p, label)
    BY <2>2, <2>4 DEF Return, Goto
  <2> QED BY <2>1, <2>3, <2>4
<1>4. CASE Return(p, "internal")
  BY <1>3, <1>4, ReturnInv DEF Statuses
<1>5. CASE /\ Checked(new)
           /\ seen' = [seen EXCEPT ![p] = new]
           /\ Goto(p, label)
           /\ UNCHANGED <<tables, locks, req, pre, resp, calls>>
  <2>1. seen[p] \in RowType
    BY DEF CashierInv, TypeOK
  <2>2. new \in RowType
    BY <1>5, <2>1, PlusType
  <2>3. TypeOK'
    BY <1>5, <2>2 DEF CashierInv, TypeOK, tables, locks, Goto, Labels
  <2>4. /\ pc'[p] = label /\ seen'[p] = Written(p) /\ Checked(Written(p))
        /\ req' = req /\ pre' = pre /\ UNCHANGED tables /\ UNCHANGED locks
    BY <1>2, <1>5 DEF CashierInv, TypeOK, Goto
  <2>5. UserOf(p)' = UserOf(p) /\ Written(p)' = Written(p)
    BY <2>4 DEF UserOf, Written, tables
  <2>6. Control(p)'
    BY <1>1, <2>4 DEF Call, Control, Keyed
  <2>7. (HasKey(p)' => HasKey(p)) /\ (HasAccount(p)' => HasAccount(p)) /\ (HasEntry(p)' => HasEntry(p))
    BY <1>1, <2>4 DEF HasKey, HasAccount, HasEntry, Keyed
  <2>8. Locked(p)' /\ KeyFresh(p)'
    BY <1>1, <2>4, <2>5, <2>7 DEF Call, Locked, KeyFresh, tables, locks
  <2>9. EntryFresh(p)'
    BY <1>1, <2>4, <2>7 DEF Call, EntryFresh, tables
  <2>10. AccountFresh(p)'
    BY <1>1, <2>4, <2>5, <2>7 DEF Call, AccountFresh, tables, Checked
  <2>11. Call(p)'
    BY <2>6, <2>8, <2>9, <2>10 DEF Call
  <2>12. \A q \in Procs : q # p =>
           pc'[q] = pc[q] /\ req'[q] = req[q] /\ seen'[q] = seen[q] /\ pre'[q] = pre[q]
    BY <1>5 DEF CashierInv, TypeOK, Goto
  <2>13. CashierInv'
    BY <2>3, <2>4, <2>11, <2>12, LocalStep DEF locks
  <2> QED BY <1>3, <2>13
<1> QED BY <1>2, <1>4, <1>5 DEF VersionedUpdate

LEMMA UpdatesInv ==
  ASSUME CashierInv, NEW p \in Procs, WithdrawUpdate(p) \/ EscrowUpdate(p) \/ ReleaseUpdate(p)
  PROVE  CashierInv' /\ ~Return(p, "concurrent_modification")
<1>1. Call(p) /\ pc[p] = "update" /\ req[p] \in Requests
  BY DEF CashierInv, Call, Control, WithdrawUpdate, EscrowUpdate, ReleaseUpdate, VersionedUpdate
<1>2. req[p].op # "release" => req[p].amount \in Int /\ -req[p].amount \in Int
  BY <1>1, RequestType
<1>3. CASE WithdrawUpdate(p)
  <2>1. req[p].op = "withdraw" /\ VersionedUpdate(p, Plus(seen[p], -req[p].amount, 0), "commit")
    BY <1>3 DEF WithdrawUpdate
  <2>2. Plus(accounts[UserOf(p)], -req[p].amount, 0) = Written(p)
    BY <2>1 DEF Written
  <2> QED BY <1>2, <2>1, <2>2, VersionedUpdateInv
<1>4. CASE EscrowUpdate(p)
  <2>1. req[p].op = "escrow" /\ VersionedUpdate(p, Plus(seen[p], 0, req[p].amount), "insertEntry")
    BY <1>4 DEF EscrowUpdate
  <2>2. Plus(accounts[UserOf(p)], 0, req[p].amount) = Written(p)
    BY <2>1 DEF Written
  <2> QED BY <1>2, <2>1, <2>2, VersionedUpdateInv
<1>5. CASE ReleaseUpdate(p)
  <2>1. req[p].op = "release" /\ VersionedUpdate(p, Plus(seen[p], 0, -pre[p].amount), "commit")
    BY <1>5 DEF ReleaseUpdate
  <2>2. Plus(accounts[UserOf(p)], 0, -pre[p].amount) = Written(p)
    BY <2>1 DEF Written
  <2>3. EntryOf(req[p].id, pre[p])
    BY <1>1, <2>1 DEF Call, EntryFresh
  <2>4. -pre[p].amount \in Int
    BY <2>3, EntryOfType
  <2> QED BY <2>1, <2>2, <2>4, VersionedUpdateInv
<1> QED BY <1>3, <1>4, <1>5

(* The entry is new and nobody else is inserting or deleting it; or it is  *)
(* there, and the transaction ends.                                        *)
LEMMA InsertEntryInv ==
  ASSUME CashierInv, NEW p \in Procs, InsertEntry(p)
  PROVE  CashierInv'
<1> USE DEF InsertEntry, Goto
<1>1. /\ Call(p) /\ pc[p] = "insertEntry" /\ req[p] \in Requests /\ req[p].op = "escrow"
      /\ req[p].id \in Orders
  BY RequestType DEF CashierInv, Call, Control
<1>2. \A q \in Procs : q # p =>
           pc'[q] = pc[q] /\ req'[q] = req[q] /\ seen'[q] = seen[q] /\ pre'[q] = pre[q]
  BY DEF CashierInv, TypeOK
<1>3. CASE entries[req[p].id] = NoEntry
  <2>1. TypeOK'
    BY <1>1, <1>3 DEF CashierInv, TypeOK, tables, Labels
  <2>2. /\ pc'[p] = "commit" /\ req' = req /\ pre' = pre /\ seen' = seen
        /\ acctLock' = acctLock /\ keyLock' = keyLock /\ UNCHANGED tables
        /\ entryLock'[req[p].id] = p
    BY <1>1, <1>3 DEF CashierInv, TypeOK
  <2>3. UserOf(p)' = UserOf(p) /\ Written(p)' = Written(p)
    BY <2>2 DEF UserOf, Written, tables
  <2>4. Control(p)'
    BY <1>1, <2>2 DEF Call, Control, Keyed
  <2>5. Locked(p)' /\ KeyFresh(p)'
    BY <1>1, <2>2, <2>3 DEF Call, Locked, KeyFresh, HasKey, HasAccount, HasEntry, Keyed
  <2>6. EntryFresh(p)'
    BY <1>1, <1>3, <2>2 DEF EntryFresh, tables
  <2>7. AccountFresh(p)'
    BY <1>1, <2>2, <2>3 DEF Call, AccountFresh, HasAccount, tables, Checked
  <2>8. Call(p)'
    BY <2>4, <2>5, <2>6, <2>7 DEF Call
  <2>9. \A o \in Orders : entryLock[o] \notin {p, None} => entryLock'[o] = entryLock[o]
    BY <1>1, <1>3 DEF CashierInv, TypeOK
  <2> QED BY <1>2, <2>1, <2>2, <2>8, <2>9, LocalStep
<1>4. CASE entries[req[p].id] # NoEntry
  <2> USE DEF EndTx, Unlocked
  <2>1. TypeOK'
    <3>0. NoAccount \in RowType
      BY DEF NoAccount, RowType
    <3>1. seen' \in [Procs -> RowType]
      BY <1>4, <3>0 DEF CashierInv, TypeOK
    <3>2. pc' \in [Procs -> Labels]
      BY <1>4 DEF CashierInv, TypeOK, Labels
    <3>3. /\ acctLock' \in [Users -> Procs \cup {None}]
          /\ keyLock' \in [AllKeys -> Procs \cup {None}]
          /\ entryLock' \in [Orders -> Procs \cup {None}]
      BY <1>4 DEF CashierInv, TypeOK
    <3> QED BY <1>4, <3>1, <3>2, <3>3 DEF CashierInv, TypeOK, tables
  <2>2. pc'[p] = "checkAvailable" /\ req' = req /\ UNCHANGED tables
    BY <1>4 DEF CashierInv, TypeOK
  <2>3. Call(p)'
    BY <1>1, <2>2 DEF Call, Control, Locked, HasKey, HasAccount, HasEntry, KeyFresh, EntryFresh,
                  AccountFresh, Keyed
  <2>4. /\ \A u \in Users : acctLock[u] \notin {p, None} => acctLock'[u] = acctLock[u]
        /\ \A k \in AllKeys : keyLock[k] \notin {p, None} => keyLock'[k] = keyLock[k]
        /\ \A o \in Orders : entryLock[o] \notin {p, None} => entryLock'[o] = entryLock[o]
    BY <1>4 DEF CashierInv, TypeOK
  <2> QED BY <1>2, <2>1, <2>2, <2>3, <2>4, LocalStep
<1> QED BY <1>3, <1>4

(* What ReleaseEscrow reads outside its transaction is the order's entry,  *)
(* and stays so even if the entry is deleted and inserted again.           *)
LEMMA PreReadInv ==
  ASSUME CashierInv, NEW p \in Procs, PreRead(p)
  PROVE  CashierInv'
<1>1. /\ Call(p) /\ pc[p] = "preRead" /\ req[p] \in Requests /\ req[p].op = "release"
      /\ req[p].id \in Orders
  BY RequestType DEF CashierInv, Call, Control, PreRead
<1>2. CASE Return(p, "unknown_escrow")
  BY <1>2, ReturnInv DEF Statuses
<1>3. CASE /\ entries[req[p].id] # NoEntry
           /\ pre' = [pre EXCEPT ![p] = entries[req[p].id]]
           /\ Goto(p, "deleteEntry")
           /\ UNCHANGED <<tables, locks, req, seen, resp, calls>>
  <2>1. EntryOf(req[p].id, entries[req[p].id])
    BY <1>1, <1>3 DEF CashierInv, Tables
  <2>2. TypeOK'
    BY <1>1, <1>3 DEF CashierInv, TypeOK, tables, locks, Goto, Labels
  <2>3. /\ pc'[p] = "deleteEntry" /\ req' = req /\ pre'[p] = entries[req[p].id]
        /\ UNCHANGED tables /\ UNCHANGED locks
    BY <1>3 DEF CashierInv, TypeOK, Goto
  <2>4. Control(p)'
    BY <1>1, <2>3 DEF Call, Control, Keyed
  <2>5. EntryFresh(p)'
    BY <1>1, <2>1, <2>3 DEF EntryFresh, HasEntry
  <2>6. Call(p)'
    BY <1>1, <2>3, <2>4, <2>5 DEF Call, Locked, HasKey, HasAccount, HasEntry, KeyFresh, AccountFresh, Keyed
  <2>7. \A q \in Procs : q # p =>
           pc'[q] = pc[q] /\ req'[q] = req[q] /\ seen'[q] = seen[q] /\ pre'[q] = pre[q]
    BY <1>3 DEF CashierInv, TypeOK, Goto
  <2> QED BY <2>2, <2>3, <2>6, <2>7, LocalStep DEF locks
<1> QED BY <1>2, <1>3 DEF PreRead

LEMMA DeleteEntryInv ==
  ASSUME CashierInv, NEW p \in Procs, DeleteEntry(p)
  PROVE  CashierInv'
<1>1. /\ Call(p) /\ pc[p] = "deleteEntry" /\ req[p] \in Requests /\ req[p].op = "release"
      /\ req[p].id \in Orders
  BY RequestType DEF CashierInv, Call, Control, DeleteEntry
<1>2. CASE Return(p, "unknown_escrow")
  BY <1>2, ReturnInv DEF Statuses
<1>3. CASE /\ entries[req[p].id] # NoEntry
           /\ entryLock[req[p].id] = None
           /\ entryLock' = [entryLock EXCEPT ![req[p].id] = p]
           /\ Goto(p, "selectOwner")
           /\ UNCHANGED <<tables, acctLock, keyLock, req, seen, pre, resp, calls>>
  <2>1. EntryOf(req[p].id, entries[req[p].id]) /\ EntryOf(req[p].id, pre[p])
    BY <1>1, <1>3 DEF CashierInv, Tables, Call, EntryFresh
  <2>2. entries[req[p].id] = pre[p]
    BY <2>1, EntryOfUnique
  <2>3. TypeOK'
    BY <1>1, <1>3 DEF CashierInv, TypeOK, tables, Goto, Labels
  <2>4. /\ pc'[p] = "selectOwner" /\ req' = req /\ pre' = pre
        /\ acctLock' = acctLock /\ keyLock' = keyLock /\ UNCHANGED tables
        /\ entryLock'[req[p].id] = p
    BY <1>1, <1>3 DEF CashierInv, TypeOK, Goto
  <2>5. Control(p)'
    BY <1>1, <2>4 DEF Call, Control, Keyed
  <2>6. EntryFresh(p)'
    BY <1>1, <2>1, <2>2, <2>4 DEF EntryFresh, HasEntry, tables
  <2>7. Call(p)'
    BY <1>1, <2>4, <2>5, <2>6 DEF Call, Locked, HasKey, HasAccount, HasEntry, KeyFresh, AccountFresh, Keyed
  <2>8. \A q \in Procs : q # p =>
           pc'[q] = pc[q] /\ req'[q] = req[q] /\ seen'[q] = seen[q] /\ pre'[q] = pre[q]
    BY <1>3 DEF CashierInv, TypeOK, Goto
  <2>9. \A o \in Orders : entryLock[o] \notin {p, None} => entryLock'[o] = entryLock[o]
    BY <1>1, <1>3 DEF CashierInv, TypeOK
  <2> QED BY <2>3, <2>4, <2>7, <2>8, <2>9, LocalStep
<1> QED BY <1>2, <1>3 DEF DeleteEntry

-----------------------------------------------------------------------------
(* The commit *)

(* What a call that commits knows. *)
LEMMA CommitFacts ==
  ASSUME CashierInv, NEW p \in Procs, pc[p] = "commit"
  PROVE  /\ req[p] \in Requests /\ req[p].op \in Keyed \cup {"escrow", "release"}
         /\ req[p].op # "release" => req[p].user \in Users /\ req[p].amount \in Nat /\ req[p].amount > 0
         /\ UserOf(p) \in Users /\ acctLock[UserOf(p)] = p
         /\ seen[p] = Written(p) /\ seen[p] \in RowType /\ Checked(seen[p]) /\ seen[p].exists
         /\ req[p].op \in Keyed => /\ keyLock[Key(req[p])] = p /\ Key(req[p]) \notin keys
                                   /\ Key(req[p]) \in AllKeys
         /\ req[p].op \in {"escrow", "release"} =>
              req[p].id \in Orders /\ entryLock[req[p].id] = p
         /\ req[p].op = "escrow" => entries[req[p].id] = NoEntry
         /\ req[p].op = "release" => entries[req[p].id] = pre[p] /\ EntryOf(req[p].id, pre[p])
<1>1. Call(p)
  BY DEF CashierInv
<1>2. req[p] \in Requests /\ (req[p].op # "release" => req[p].amount > 0)
  BY <1>1 DEF Call, Control
<1>3. UserOf(p) \in Users
  BY OwnerType
<1>4. acctLock[UserOf(p)] = p /\ seen[p] = Written(p) /\ Checked(seen[p])
  BY <1>1 DEF Call, Locked, AccountFresh, HasAccount
<1>5. seen[p] \in RowType
  BY DEF CashierInv, TypeOK
<1>6. req[p].op \in Keyed \cup {"escrow", "release"}
  BY <1>2, RequestType
<1>7. seen[p].exists
  BY <1>4, <1>6 DEF Written, Plus, Keyed
<1>8. req[p].op \in Keyed => /\ keyLock[Key(req[p])] = p /\ Key(req[p]) \notin keys
                             /\ Key(req[p]) \in AllKeys
  BY <1>1, <1>2, KeyType DEF Call, Locked, KeyFresh, HasKey
<1>9. req[p].op \in {"escrow", "release"} => req[p].id \in Orders /\ entryLock[req[p].id] = p
  BY <1>1, <1>2, RequestType DEF Call, Locked, HasEntry
<1>10. /\ req[p].op = "escrow" => entries[req[p].id] = NoEntry
       /\ req[p].op = "release" => entries[req[p].id] = pre[p] /\ EntryOf(req[p].id, pre[p])
  BY <1>1 DEF Call, EntryFresh, HasEntry
<1>11. req[p].op # "release" => req[p].user \in Users /\ req[p].amount \in Nat
  BY <1>2, RequestType
<1> QED BY <1>2, <1>3, <1>4, <1>5, <1>6, <1>7, <1>8, <1>9, <1>10, <1>11

(* What a commit does to the tables, row by row. *)
LEMMA CommitEffect ==
  ASSUME CashierInv, NEW p \in Procs, NEW status, Commit(p, status)
  PROVE  /\ pc[p] = "commit"
         /\ accounts' \in [Users -> RowType] /\ accounts'[UserOf(p)] = seen[p]
         /\ \A u \in Users : u # UserOf(p) => accounts'[u] = accounts[u]
         /\ keys' \subseteq AllKeys
         /\ keys' = IF req[p].op \in Keyed THEN keys \cup {Key(req[p])} ELSE keys
         /\ entries' \in [Orders -> EntryType]
         /\ \A o \in Orders : ~(req[p].op \in {"escrow", "release"} /\ o = req[p].id)
                              => entries'[o] = entries[o]
         /\ req[p].op = "escrow" => /\ EntryOf(req[p].id, entries'[req[p].id])
                                    /\ entries'[req[p].id].user = UserOf(p)
         /\ req[p].op = "release" => entries'[req[p].id] = NoEntry
<1>1. pc[p] = "commit"
  BY DEF Commit
<1>2. accounts' \in [Users -> RowType] /\ accounts'[UserOf(p)] = seen[p]
  BY <1>1, CommitFacts DEF Commit, CashierInv, TypeOK
<1>3. \A u \in Users : u # UserOf(p) => accounts'[u] = accounts[u]
  BY <1>1 DEF Commit, CashierInv, TypeOK
<1>4. keys' = IF req[p].op \in Keyed THEN keys \cup {Key(req[p])} ELSE keys
  BY DEF Commit
<1>5. keys' \subseteq AllKeys
  BY <1>1, <1>4, CommitFacts DEF CashierInv, TypeOK
<1>6. entries \in [Orders -> EntryType]
  BY DEF CashierInv, TypeOK
<1>7. CASE req[p].op = "escrow"
  <2> DEFINE e == [user |-> req[p].user, amount |-> req[p].amount]
  <2>1. entries' = [entries EXCEPT ![req[p].id] = e] /\ req[p].id \in Orders
    BY <1>1, <1>7, CommitFacts DEF Commit
  <2>2. EntryOf(req[p].id, e) /\ e.user = UserOf(p)
    BY <1>1, <1>7, CommitFacts DEF EntryOf, UserOf
  <2>3. e \in EntryType
    BY <2>2, EntryOfType
  <2> HIDE DEF e
  <2>4. entries' \in [Orders -> EntryType] /\ entries'[req[p].id] = e
    BY <1>6, <2>1, <2>3
  <2>5. \A o \in Orders : o # req[p].id => entries'[o] = entries[o]
    BY <1>6, <2>1
  <2> QED BY <1>1, <1>2, <1>3, <1>4, <1>5, <1>7, <2>2, <2>4, <2>5
<1>8. CASE req[p].op = "release"
  <2>1. entries' = [entries EXCEPT ![req[p].id] = NoEntry] /\ req[p].id \in Orders
    BY <1>1, <1>8, CommitFacts DEF Commit
  <2>2. NoEntry \in EntryType
    BY DEF EntryType
  <2>3. entries' \in [Orders -> EntryType] /\ entries'[req[p].id] = NoEntry
    BY <1>6, <2>1, <2>2
  <2>4. \A o \in Orders : o # req[p].id => entries'[o] = entries[o]
    BY <1>6, <2>1
  <2> QED BY <1>1, <1>2, <1>3, <1>4, <1>5, <1>8, <2>3, <2>4
<1>9. CASE req[p].op \notin {"escrow", "release"}
  <2>1. entries' = entries
    BY <1>9 DEF Commit
  <2> QED BY <1>1, <1>2, <1>3, <1>4, <1>5, <1>6, <1>9, <2>1
<1> QED BY <1>7, <1>8, <1>9

(* Accounts are never deleted. *)
LEMMA AccountsStay ==
  ASSUME CashierInv, NEW p \in Procs, NEW status, Commit(p, status), NEW u \in Users,
         accounts[u].exists
  PROVE  accounts'[u].exists
BY CommitEffect, CommitFacts

(* The tables agree after a commit. *)
LEMMA CommitTables ==
  ASSUME CashierInv, NEW p \in Procs, NEW status, Commit(p, status)
  PROVE  Tables'
<1>1. Tables /\ pc[p] = "commit"
  BY CommitEffect DEF CashierInv
<1>2. ASSUME NEW u \in Users PROVE Checked(accounts[u])'
  <2>1. Checked(accounts[u]) /\ Checked(seen[p])
    BY <1>1, CommitFacts DEF Tables
  <2>2. accounts'[u] = accounts[u] \/ accounts'[u] = seen[p]
    BY CommitEffect
  <2> QED BY <2>1, <2>2 DEF Checked
<1>3. ASSUME NEW r \in Requests, r.op \in Keyed, Key(r) \in keys'
      PROVE  accounts'[r.user].exists
  <2>1. r.user \in Users
    BY <1>3, RequestType DEF Keyed
  <2>2. CASE Key(r) \in keys
    <3>1. accounts[r.user].exists
      BY <1>1, <1>3, <2>2 DEF Tables
    <3> QED BY <2>1, <3>1, AccountsStay
  <2>3. CASE Key(r) \notin keys
    <3>1. Key(r) = Key(req[p]) /\ req[p].op \in Keyed /\ req[p] \in Requests
      BY <1>1, <1>3, <2>3, CommitEffect, CommitFacts
    <3>2. r = req[p] /\ UserOf(p) = r.user
      BY <1>3, <3>1, KeysAssumption DEF UserOf, Keyed
    <3> QED BY <1>1, <3>2, CommitEffect, CommitFacts
  <2> QED BY <2>2, <2>3
<1>4. ASSUME NEW o \in Orders, entries'[o] # NoEntry
      PROVE  EntryOf(o, entries'[o]) /\ accounts'[entries'[o].user].exists
  <2>1. CASE req[p].op \in {"escrow", "release"} /\ o = req[p].id
    BY <1>1, <1>4, <2>1, CommitEffect, CommitFacts
  <2>2. CASE ~(req[p].op \in {"escrow", "release"} /\ o = req[p].id)
    <3>1. entries'[o] = entries[o]
      BY <2>2, CommitEffect
    <3>2. EntryOf(o, entries[o]) /\ accounts[entries[o].user].exists
      BY <1>1, <1>4, <3>1 DEF Tables
    <3>3. entries[o].user \in Users
      BY <3>2, EntryOfType
    <3> QED BY <3>1, <3>2, <3>3, AccountsStay
  <2> QED BY <2>1, <2>2
<1> QED BY <1>2, <1>3, <1>4 DEF Tables, EntryOf

(* The call that commits is over.  Every other call in flight holds locks  *)
(* on other rows, and so still sees what it saw.                           *)
LEMMA CommitInv ==
  ASSUME CashierInv, NEW p \in Procs, NEW status \in {"ok", "unknown"}, Commit(p, status)
  PROVE  CashierInv'
<1>1. TypeOK'
  <2>1. /\ acctLock' \in [Users -> Procs \cup {None}]
        /\ keyLock' \in [AllKeys -> Procs \cup {None}]
        /\ entryLock' \in [Orders -> Procs \cup {None}]
    BY DEF Commit, EndTx, Unlocked, CashierInv, TypeOK
  <2>2. NoAccount \in RowType /\ NoEntry \in EntryType /\ status \in Statuses /\ "idle" \in Labels
    BY DEF NoAccount, RowType, EntryType, Statuses, Labels
  <2>3. /\ pc' \in [Procs -> Labels] /\ resp' \in [Procs -> Statuses]
        /\ seen' \in [Procs -> RowType] /\ pre' \in [Procs -> EntryType]
    BY <2>2 DEF Commit, CashierInv, TypeOK
  <2>4. req' \in [Procs -> Requests \cup {NoRequest}] /\ calls' \in Nat
    BY DEF Commit, CashierInv, TypeOK
  <2> QED BY <2>1, <2>3, <2>4, CommitEffect DEF TypeOK
<1>2. Call(p)'
  <2>1. pc'[p] = "idle"
    BY DEF Commit, CashierInv, TypeOK
  <2> QED BY <2>1 DEF Call, Control, Locked, HasKey, HasAccount, HasEntry, KeyFresh, EntryFresh,
                  AccountFresh, Keyed
<1>3. ASSUME NEW q \in Procs, q # p PROVE Call(q)'
  <2>1. pc'[q] = pc[q] /\ req'[q] = req[q] /\ seen'[q] = seen[q] /\ pre'[q] = pre[q]
    BY <1>3 DEF Commit, CashierInv, TypeOK
  <2>2. Call(q) /\ q # None /\ pc[p] = "commit"
    BY NoneAssumption DEF CashierInv, Commit
  <2>3. /\ HasKey(q)' <=> HasKey(q)
        /\ HasAccount(q)' <=> HasAccount(q)
        /\ HasEntry(q)' <=> HasEntry(q)
        /\ UserOf(q)' = UserOf(q)
    BY <2>1 DEF HasKey, HasAccount, HasEntry, UserOf
  <2>4. Control(q)'
    BY <2>1, <2>2 DEF Call, Control
  <2>5. ASSUME HasKey(q) PROVE keyLock'[Key(req[q])] = q /\ Key(req[q]) \notin keys'
    <3>1. req[q] \in Requests /\ req[q].op \in Keyed
      BY <2>2, <2>5 DEF Call, Control, HasKey, Keyed
    <3>2. Key(req[q]) \in AllKeys /\ keyLock[Key(req[q])] = q /\ Key(req[q]) \notin keys
      BY <2>2, <2>5, <3>1, KeyType DEF Call, Locked, KeyFresh
    <3>3. req[p].op \in Keyed => Key(req[p]) # Key(req[q])
      BY <1>3, <2>2, <3>2, CommitFacts
    <3>4. Key(req[q]) \notin keys'
      BY <3>2, <3>3, CommitEffect
    <3>5. keyLock'[Key(req[q])] = q
      BY <1>3, <3>2 DEF Commit, EndTx, Unlocked, CashierInv, TypeOK
    <3> QED BY <3>4, <3>5
  <2>6. ASSUME HasEntry(q)
        PROVE  entryLock'[req[q].id] = q /\ entries'[req[q].id] = entries[req[q].id]
    <3>1. req[q].id \in Orders
      BY <2>2, <2>6, RequestType DEF Call, Control, HasEntry
    <3>2. entryLock[req[q].id] = q
      BY <2>2, <2>6 DEF Call, Locked
    <3>3. ~(req[p].op \in {"escrow", "release"} /\ req[q].id = req[p].id)
      BY <1>3, <2>2, <3>2, CommitFacts
    <3>4. entries'[req[q].id] = entries[req[q].id]
      BY <3>1, <3>3, CommitEffect
    <3>5. entryLock'[req[q].id] = q
      BY <1>3, <3>1, <3>2 DEF Commit, EndTx, Unlocked, CashierInv, TypeOK
    <3> QED BY <3>4, <3>5
  <2>7. ASSUME HasAccount(q)
        PROVE  acctLock'[UserOf(q)] = q /\ accounts'[UserOf(q)] = accounts[UserOf(q)]
    <3>1. UserOf(q) \in Users
      BY <2>7, OwnerType DEF HasAccount
    <3>2. acctLock[UserOf(q)] = q
      BY <2>2, <2>7 DEF Call, Locked
    <3>3. UserOf(q) # UserOf(p)
      BY <1>3, <2>2, <3>2, CommitFacts
    <3>4. accounts'[UserOf(q)] = accounts[UserOf(q)]
      BY <3>1, <3>3, CommitEffect
    <3>5. acctLock'[UserOf(q)] = q
      BY <1>3, <3>1, <3>2 DEF Commit, EndTx, Unlocked, CashierInv, TypeOK
    <3> QED BY <3>4, <3>5
  <2>8. Locked(q)' /\ KeyFresh(q)'
    BY <2>1, <2>3, <2>5, <2>6, <2>7 DEF Locked, KeyFresh
  <2>9. EntryFresh(q)'
    BY <2>1, <2>2, <2>3, <2>6 DEF Call, EntryFresh, EntryOf
  <2>10. AccountFresh(q)'
    <3>1. HasAccount(q) => Written(q)' = Written(q)
      BY <2>1, <2>3, <2>7 DEF Written
    <3> QED BY <2>1, <2>2, <2>3, <2>7, <3>1 DEF Call, AccountFresh, Checked
  <2> QED BY <2>4, <2>8, <2>9, <2>10 DEF Call
<1>4. Tables'
  BY CommitTables
<1> QED BY <1>1, <1>2, <1>3, <1>4 DEF CashierInv

-----------------------------------------------------------------------------
(* The theorems *)

(* No call, lock or row before the first request. *)
LEMMA CashierInit == Init => CashierInv
<1> SUFFICES ASSUME Init PROVE CashierInv
  OBVIOUS
<1> USE DEF Init
<1>1. TypeOK
  BY DEF TypeOK, RowType, NoAccount, EntryType, Labels, Statuses
<1>2. Tables
  BY DEF Tables, Checked, NoAccount
<1>3. \A p \in Procs : Call(p)
  BY DEF Call, Control, Locked, HasKey, HasAccount, HasEntry, KeyFresh, EntryFresh, AccountFresh, Keyed
<1> QED BY <1>1, <1>2, <1>3 DEF CashierInv

(* One step per statement of the calls, failure and abort. *)
LEMMA CashierStep == CashierInv /\ [Next]_vars => CashierInv'
<1> SUFFICES ASSUME CashierInv, [Next]_vars PROVE CashierInv'
  OBVIOUS
<1>1. ASSUME NEW p \in Procs, Statement(p) PROVE CashierInv'
  <2>1. CASE Replay(p)
    BY <2>1, ReturnInv DEF Replay, Statuses
  <2>2. CASE CheckAvailable(p)
    BY <2>2, ReturnInv DEF CheckAvailable, Statuses
  <2>3. CASE DeadlockAbort(p)
    BY <2>3, ReturnInv DEF DeadlockAbort, Statuses
  <2> QED BY <1>1, <2>1, <2>2, <2>3, InsertKeyInv, DepositUpsertInv, DepositEscrowedUpsertInv,
             ConfirmUpdateInv, CancelUpdateInv, SelectForUpdateInv, UpdatesInv, InsertEntryInv,
             PreReadInv, DeleteEntryInv, SelectOwnerInv, CommitInv DEF Statement
<1>2. ASSUME NEW p \in Procs, Fail(p) PROVE CashierInv'
  BY <1>2, ReturnInv DEF Fail, Statuses
<1>3. CASE UNCHANGED vars
  <2>1. UNCHANGED tables /\ UNCHANGED <<locks, pc, req, seen, pre, resp, calls>>
    BY <1>3 DEF vars
  <2>2. \A q \in Procs : Call(q)'
    BY <2>1, Frame DEF locks
  <2>3. TypeOK'
    BY <2>1 DEF CashierInv, TypeOK, tables, locks
  <2> QED BY <2>1, <2>2, <2>3, TablesFrame DEF CashierInv
<1> QED BY <1>1, <1>2, <1>3, InvokeInv DEF Next

(* The invariant holds in every reachable state. *)
THEOREM CashierInvariant == Spec => []CashierInv
  BY CashierInit, CashierStep, PTL DEF Spec

(* The tables, the locks and the calls keep their types: no balance that   *)
(* is negative, no lock held by a call that is not there.                  *)
THEOREM TypeCorrect == Spec => []TypeOK
<1>1. CashierInv => TypeOK
  BY DEF CashierInv
<1> QED BY <1>1, CashierInvariant, PTL

-----------------------------------------------------------------------------
(* The ledger *)

(* The ledger's state: the refinement mapping of Cashier. *)
Balance == [u \in Users |-> [exists   |-> accounts[u].exists,
                             gross    |-> accounts[u].gross,
                             escrowed |-> accounts[u].escrowed]]
AppliedSet == {r \in Requests : r.op \in Keyed /\ Key(r) \in keys}
HeldSet    == {r \in Requests : r.op = "escrow" /\ entries[r.id] # NoEntry}

Moves(u, g, e) ==
  Balance' = [Balance EXCEPT ![u] = [exists   |-> TRUE,
                                     gross    |-> Balance[u].gross + g,
                                     escrowed |-> Balance[u].escrowed + e]]

(* A step commits or leaves the tables alone. *)
LEMMA OnlyCommits ==
  ASSUME [Next]_vars
  PROVE  \/ UNCHANGED tables
         \/ \E p \in Procs, status \in {"ok", "unknown"} : Commit(p, status)
<1>1. CASE UNCHANGED vars
  BY <1>1 DEF vars
<1>2. ASSUME NEW p \in Procs, NEW r \in Requests, Invoke(p, r) PROVE UNCHANGED tables
  BY <1>2 DEF Invoke
<1>3. ASSUME NEW p \in Procs, Fail(p) PROVE UNCHANGED tables
  BY <1>3 DEF Fail, Return
<1>4. ASSUME NEW p \in Procs, Statement(p)
      PROVE  UNCHANGED tables \/ \E status \in {"ok", "unknown"} : Commit(p, status)
  <2>1. CASE InsertKey(p) \/ Replay(p)
    BY <2>1 DEF InsertKey, Replay, Return
  <2>2. CASE DepositUpsert(p) \/ DepositEscrowedUpsert(p) \/ ConfirmUpdate(p) \/ CancelUpdate(p)
    BY <2>2 DEF DepositUpsert, DepositEscrowedUpsert, ConfirmUpdate, CancelUpdate, Return, TakeAccount
  <2>3. CASE WithdrawSelect(p) \/ EscrowSelect(p) \/ SelectOwner(p)
    BY <2>3 DEF WithdrawSelect, EscrowSelect, SelectOwner, SelectForUpdate, Return, TakeAccount
  <2>4. CASE WithdrawUpdate(p) \/ EscrowUpdate(p) \/ ReleaseUpdate(p)
    BY <2>4 DEF WithdrawUpdate, EscrowUpdate, ReleaseUpdate, VersionedUpdate, Return
  <2>5. CASE InsertEntry(p) \/ CheckAvailable(p) \/ PreRead(p) \/ DeleteEntry(p)
    BY <2>5 DEF InsertEntry, CheckAvailable, PreRead, DeleteEntry, Return
  <2>6. CASE DeadlockAbort(p)
    BY <2>6 DEF DeadlockAbort, Return
  <2> QED BY <1>4, <2>1, <2>2, <2>3, <2>4, <2>5, <2>6 DEF Statement
<1> QED BY <1>1, <1>2, <1>3, <1>4 DEF Next

(* A commit moves the money of one account, by what the request says. *)
LEMMA CommitMoves ==
  ASSUME CashierInv, NEW p \in Procs, NEW status, Commit(p, status),
         NEW g \in Int, NEW e \in Int, Written(p) = Plus(accounts[UserOf(p)], g, e)
  PROVE  Moves(UserOf(p), g, e)
<1> DEFINE u == UserOf(p)
           new == [exists |-> TRUE, gross |-> accounts[u].gross + g,
                   escrowed |-> accounts[u].escrowed + e]
<1>1. u \in Users /\ accounts'[u] = Plus(accounts[u], g, e)
  BY CommitEffect, CommitFacts
<1>2. Balance'[u] = new
  <2> HIDE DEF u
  <2>1. Balance'[u] = [exists |-> accounts'[u].exists, gross |-> accounts'[u].gross,
                       escrowed |-> accounts'[u].escrowed]
    BY <1>1 DEF Balance
  <2>2. /\ accounts'[u].exists = TRUE /\ accounts'[u].gross = accounts[u].gross + g
        /\ accounts'[u].escrowed = accounts[u].escrowed + e
    BY <1>1 DEF Plus
  <2> QED BY <2>1, <2>2
<1>3. \A v \in Users : v # u => Balance'[v] = Balance[v]
  BY CommitEffect DEF Balance
<1>4. Balance[u].gross = accounts[u].gross /\ Balance[u].escrowed = accounts[u].escrowed
  BY <1>1 DEF Balance
<1>5. Balance = [v \in Users |-> Balance[v]] /\ Balance' = [v \in Users |-> Balance'[v]]
  BY DEF Balance
<1> HIDE DEF u
<1>6. Balance' = [Balance EXCEPT ![u] = new]
  <2> HIDE DEF new
  <2> QED BY <1>1, <1>2, <1>3, <1>5
<1>7. new = [exists |-> TRUE, gross |-> Balance[u].gross + g, escrowed |-> Balance[u].escrowed + e]
  BY <1>4
<1>8. Balance' = [Balance EXCEPT ![u] = [exists |-> TRUE, gross |-> Balance[u].gross + g,
                                        escrowed |-> Balance[u].escrowed + e]]
  BY <1>6, <1>7
<1> QED BY <1>8 DEF u, Moves

(* A commit of a keyed request is one Apply of the ledger. *)
LEMMA KeyedCommitApplies ==
  ASSUME CashierInv, NEW p \in Procs, NEW status, Commit(p, status), req[p].op \in Keyed,
         NEW r \in Requests, r = req[p]
  PROVE  Ledger!Apply(r)
<1>1. /\ r \in Requests /\ r.user \in Users /\ r.amount \in Nat /\ UserOf(p) = r.user
      /\ Call(p) /\ pc[p] = "commit" /\ Key(r) \notin keys
      /\ accounts[r.user] \in RowType /\ Checked(accounts[r.user])
      /\ seen[p] = Written(p) /\ Checked(seen[p])
  BY CommitFacts, CommitEffect DEF UserOf, Keyed, CashierInv, TypeOK, Tables
<1>2. r \notin AppliedSet /\ AppliedSet' = AppliedSet \cup {r}
  <2>1. \A s \in Requests : s.op \in Keyed /\ Key(s) = Key(r) => s = r
    BY <1>1, KeysAssumption
  <2>2. keys' = keys \cup {Key(r)}
    BY CommitEffect
  <2> QED BY <1>1, <2>1, <2>2 DEF AppliedSet
<1>3. HeldSet' = HeldSet
  <2>1. entries' = entries
    BY DEF Commit, Keyed
  <2> QED BY <2>1 DEF HeldSet
<1>4. /\ Balance[r.user].exists = accounts[r.user].exists
      /\ Balance[r.user].gross = accounts[r.user].gross
      /\ Balance[r.user].escrowed = accounts[r.user].escrowed
  BY <1>1 DEF Balance
<1>5. /\ accounts[r.user].gross \in Nat /\ accounts[r.user].escrowed \in Nat
      /\ -r.amount \in Int /\ r.amount \in Int /\ 0 \in Int
  BY <1>1 DEF RowType
<1>6. /\ r.op \notin {"deposit", "depositEscrowed"} => accounts[r.user].exists
      /\ r.op = "withdraw" => accounts[r.user].gross - accounts[r.user].escrowed >= r.amount
  BY <1>1 DEF Call, AccountFresh, HasAccount
<1>6a. \A g, e \in Int : Written(p) = Plus(accounts[UserOf(p)], g, e) => Moves(UserOf(p), g, e)
  BY CommitMoves
<1>7. /\ r.op = "deposit"         => Moves(r.user, r.amount, 0)
      /\ r.op = "depositEscrowed" => Moves(r.user, r.amount, r.amount)
      /\ r.op = "withdraw"        => Moves(r.user, -r.amount, 0)
      /\ r.op = "confirmDeposit"  => Moves(r.user, 0, -r.amount)
      /\ r.op = "cancelDeposit"   => Moves(r.user, -r.amount, -r.amount)
  <2>1. CASE r.op = "deposit"
    <3>1. Written(p) = Plus(accounts[UserOf(p)], r.amount, 0)
      BY <2>1 DEF Written
    <3>2. Moves(UserOf(p), r.amount, 0)
      BY <1>5, <3>1, <1>6a
    <3> QED BY <1>1, <2>1, <3>2
  <2>2. CASE r.op = "depositEscrowed"
    <3>1. Written(p) = Plus(accounts[UserOf(p)], r.amount, r.amount)
      BY <2>2 DEF Written
    <3>2. Moves(UserOf(p), r.amount, r.amount)
      BY <1>5, <3>1, <1>6a
    <3> QED BY <1>1, <2>2, <3>2
  <2>3. CASE r.op = "withdraw"
    <3>1. Written(p) = Plus(accounts[UserOf(p)], -r.amount, 0)
      BY <2>3 DEF Written
    <3>2. Moves(UserOf(p), -r.amount, 0)
      BY <1>5, <3>1, <1>6a
    <3> QED BY <1>1, <2>3, <3>2
  <2>4. CASE r.op = "confirmDeposit"
    <3>1. Written(p) = Plus(accounts[UserOf(p)], 0, -r.amount)
      BY <2>4 DEF Written
    <3>2. Moves(UserOf(p), 0, -r.amount)
      BY <1>5, <3>1, <1>6a
    <3> QED BY <1>1, <2>4, <3>2
  <2>5. CASE r.op = "cancelDeposit"
    <3>1. Written(p) = Plus(accounts[UserOf(p)], -r.amount, -r.amount)
      BY <2>5 DEF Written
    <3>2. Moves(UserOf(p), -r.amount, -r.amount)
      BY <1>5, <3>1, <1>6a
    <3> QED BY <1>1, <2>5, <3>2
  <2> QED BY <2>1, <2>2, <2>3, <2>4, <2>5
<1>8. r.op \in {"confirmDeposit", "cancelDeposit"} => accounts[r.user].escrowed >= r.amount
  BY <1>1, <1>5 DEF Written, Plus, Checked
<1>9. /\ r.op \notin {"deposit", "depositEscrowed"} => Balance[r.user].exists
      /\ r.op = "withdraw" => Balance[r.user].gross - Balance[r.user].escrowed >= r.amount
      /\ r.op \in {"confirmDeposit", "cancelDeposit"} => Balance[r.user].escrowed >= r.amount
  BY <1>4, <1>6, <1>8
<1>10. r.op \in {"deposit", "depositEscrowed", "withdraw", "confirmDeposit", "cancelDeposit"}
  BY DEF Keyed
<1> QED BY <1>2, <1>3, <1>7, <1>9, <1>10
        DEF Ledger!Apply, Ledger!Move, Ledger!Available, Moves, Balance, AppliedSet, HeldSet

(* The commit of an escrow is one Hold. *)
LEMMA EscrowCommitHolds ==
  ASSUME CashierInv, NEW p \in Procs, NEW status, Commit(p, status), req[p].op = "escrow",
         NEW r \in Requests, r = req[p]
  PROVE  Ledger!Hold(r)
<1>1. /\ r \in Requests /\ r.user \in Users /\ r.amount \in Nat /\ UserOf(p) = r.user
      /\ Call(p) /\ pc[p] = "commit" /\ entries[r.id] = NoEntry /\ r.id \in Orders
  BY CommitFacts, CommitEffect DEF UserOf, CashierInv
<1>2. AppliedSet' = AppliedSet
  <2>1. keys' = keys
    BY DEF Commit, Keyed
  <2> QED BY <2>1 DEF AppliedSet
<1>3. r \notin HeldSet /\ HeldSet' = HeldSet \cup {r}
  <2>1. \A s \in Requests : s.op = "escrow" /\ s.id = r.id => s = r
    BY <1>1, OrdersAssumption
  <2>2. \A s \in Requests : s.op = "escrow" => s.id \in Orders
    BY RequestType
  <2>3. \A o \in Orders : o # r.id => entries'[o] = entries[o]
    BY CommitEffect
  <2>4. entries'[r.id] # NoEntry
    BY CommitEffect, EntryOfType
  <2> QED BY <1>1, <2>1, <2>2, <2>3, <2>4 DEF HeldSet
<1>4. /\ Balance[r.user].exists = accounts[r.user].exists
      /\ Balance[r.user].gross = accounts[r.user].gross
      /\ Balance[r.user].escrowed = accounts[r.user].escrowed
  BY <1>1 DEF Balance
<1>5. /\ accounts[r.user].exists
      /\ accounts[r.user].gross - accounts[r.user].escrowed >= r.amount
  BY <1>1 DEF Call, AccountFresh, HasAccount
<1>6. Moves(r.user, 0, r.amount)
  <2>1. Written(p) = Plus(accounts[UserOf(p)], 0, r.amount)
    BY DEF Written
  <2>2. Moves(UserOf(p), 0, r.amount)
    BY <1>1, <2>1, CommitMoves
  <2> QED BY <1>1, <2>2
<1> QED BY <1>2, <1>3, <1>4, <1>5, <1>6
        DEF Ledger!Hold, Ledger!Move, Ledger!Available, Moves, Balance, AppliedSet, HeldSet

(* The commit of a release is one Release, of the order's escrow. *)
LEMMA ReleaseCommitReleases ==
  ASSUME CashierInv, NEW p \in Procs, NEW status, Commit(p, status), req[p].op = "release"
  PROVE  \E r \in Requests : Ledger!Release(r)
<1>1. /\ pc[p] = "commit" /\ entries[req[p].id] = pre[p] /\ EntryOf(req[p].id, pre[p])
      /\ req[p].id \in Orders
  BY CommitFacts, CommitEffect
<1>2. PICK r \in Requests : /\ r.op = "escrow" /\ r.id = req[p].id /\ r.amount > 0
                            /\ pre[p] = [user |-> r.user, amount |-> r.amount]
  BY <1>1 DEF EntryOf
<1>3. r.user \in Users /\ r.amount \in Nat /\ UserOf(p) = r.user /\ pre[p].amount = r.amount
  BY <1>2, RequestType DEF UserOf
<1>4. AppliedSet' = AppliedSet
  <2>1. keys' = keys
    BY DEF Commit, Keyed
  <2> QED BY <2>1 DEF AppliedSet
<1>5. r \in HeldSet /\ HeldSet' = HeldSet \ {r}
  <2>1. \A s \in Requests : s.op = "escrow" /\ s.id = r.id => s = r
    BY <1>2, OrdersAssumption
  <2>2. \A s \in Requests : s.op = "escrow" => s.id \in Orders
    BY RequestType
  <2>3. \A o \in Orders : o # r.id => entries'[o] = entries[o]
    BY <1>2, CommitEffect
  <2>4. entries'[r.id] = NoEntry /\ entries[r.id] # NoEntry
    BY <1>1, <1>2, CommitEffect, EntryOfType
  <2> QED BY <1>2, <2>1, <2>2, <2>3, <2>4 DEF HeldSet
<1>6. Moves(r.user, 0, -r.amount)
  <2>1. Written(p) = Plus(accounts[UserOf(p)], 0, -r.amount)
    BY <1>3 DEF Written
  <2>2. -r.amount \in Int
    BY <1>3
  <2>3. Moves(UserOf(p), 0, -r.amount)
    BY <2>1, <2>2, CommitMoves
  <2> QED BY <1>3, <2>3
<1>7. Ledger!Release(r)
  BY <1>4, <1>5, <1>6 DEF Ledger!Release, Ledger!Move, Moves, Balance, AppliedSet, HeldSet
<1> QED BY <1>7

(* Every step of the cashier is a step of the ledger or changes nothing in *)
(* it: whatever interleaving of statements, failures and retries led to a  *)
(* commit, it applies a key for the first time, holds an escrow that is    *)
(* not held or releases one that is, and moves money the account has at    *)
(* that moment.                                                            *)
THEOREM CashierImplementsLedger == Spec => ImplementsLedger
<1>1. Init => Ledger!Init
  <2> SUFFICES ASSUME Init PROVE Ledger!Init
    OBVIOUS
  <2>1. Balance = [u \in Users |-> [exists |-> FALSE, gross |-> 0, escrowed |-> 0]]
    BY DEF Init, Balance, NoAccount
  <2>2. AppliedSet = {}
    BY DEF Init, AppliedSet
  <2>3. HeldSet = {}
    BY RequestType DEF Init, HeldSet
  <2> QED BY <2>1, <2>2, <2>3 DEF Ledger!Init, Ledger!Empty, Balance, AppliedSet, HeldSet
<1>2. CashierInv /\ [Next]_vars => [Ledger!Next]_<<Balance, AppliedSet, HeldSet>>
  <2> SUFFICES ASSUME CashierInv, [Next]_vars
               PROVE  Ledger!Next \/ UNCHANGED <<Balance, AppliedSet, HeldSet>>
    OBVIOUS
  <2>1. CASE UNCHANGED tables
    BY <2>1 DEF tables, Balance, AppliedSet, HeldSet
  <2>2. ASSUME NEW p \in Procs, NEW status \in {"ok", "unknown"}, Commit(p, status)
        PROVE  Ledger!Next
    <3>1. pc[p] = "commit"
      BY <2>2 DEF Commit
    <3>2. req[p] \in Requests /\ req[p].op \in Keyed \cup {"escrow", "release"}
      BY <3>1, CommitFacts
    <3>3. CASE req[p].op \in Keyed
      <4>1. PICK r \in Requests : r = req[p]
        BY <3>2
      <4>2. Ledger!Apply(r)
        BY <4>1, <2>2, <3>3, KeyedCommitApplies
      <4> QED BY <4>2 DEF Ledger!Next
    <3>4. CASE req[p].op = "escrow"
      <4>1. PICK r \in Requests : r = req[p]
        BY <3>2
      <4>2. Ledger!Hold(r)
        BY <4>1, <2>2, <3>4, EscrowCommitHolds
      <4> QED BY <4>2 DEF Ledger!Next
    <3>5. CASE req[p].op = "release"
      BY <2>2, <3>5, ReleaseCommitReleases DEF Ledger!Next
    <3> QED BY <3>2, <3>3, <3>4, <3>5
  <2> QED BY <2>1, <2>2, OnlyCommits
<1> QED BY <1>1, <1>2, CashierInvariant, PTL
        DEF Spec, ImplementsLedger, Ledger!Spec, Balance, AppliedSet, HeldSet

-----------------------------------------------------------------------------
(***************************************************************************)
(* The cashier's books proved to balance, whatever calls ran, failed, were *)
(* aborted or were repeated.  First what the sums in BooksBalance do when  *)
(* one summand is added or taken away: a sum over a finite set is the      *)
(* value of a recursive function on its subsets, and what it returns is    *)
(* shown by minimal counterexample on their cardinality.                   *)
(***************************************************************************)

-----------------------------------------------------------------------------
(* Sums over finite sets *)

Chosen(s) == CHOOSE x \in s : TRUE

(* G[s] is the sum of f over s, for the subsets s of S of at most n        *)
(* elements.                                                               *)
IsSumUpTo(G, f, S, n) ==
  /\ G \in [SUBSET S -> Int]
  /\ \A s \in SUBSET S : Cardinality(s) <= n =>
       G[s] = IF s = {} THEN 0 ELSE f[Chosen(s)] + G[s \ {Chosen(s)}]

Sums(G, f, S) ==
  \A s \in SUBSET S : G[s] = IF s = {} THEN 0 ELSE f[Chosen(s)] + G[s \ {Chosen(s)}]

IsSum(G, f, S) == G \in [SUBSET S -> Int] /\ Sums(G, f, S)

(* Every non-empty set of naturals has a smallest element.                 *)
LEMMA LeastNat ==
  ASSUME NEW T \in SUBSET Nat, T # {}
  PROVE  \E m \in T : \A n \in T : m <= n
<1>1. IsWellFoundedOn(OpToRel(<, Nat), Nat)
  BY NatLessThanWellFounded
<1>2. PICK m \in T : \A n \in T : ~(<<n, m>> \in OpToRel(<, Nat))
  BY <1>1, WFMin
<1>3. ASSUME NEW n \in T PROVE m <= n
  <2>1. ~(n < m)
    BY <1>2 DEF OpToRel
  <2> QED BY <2>1
<1> QED BY <1>3

(* A non-empty set has a chosen element; without it, it is smaller. *)
LEMMA ChosenSmaller ==
  ASSUME NEW S, IsFiniteSet(S), NEW s \in SUBSET S, NEW x \in s
  PROVE  /\ Chosen(s) \in s
         /\ s \ {x} \in SUBSET S
         /\ IsFiniteSet(s) /\ Cardinality(s) \in Nat
         /\ Cardinality(s \ {x}) \in Nat /\ Cardinality(s \ {x}) = Cardinality(s) - 1
<1>1. IsFiniteSet(s)
  BY FS_Subset
<1>2. IsFiniteSet(s \ {x}) /\ Cardinality(s \ {x}) = Cardinality(s) - 1
  BY <1>1, FS_RemoveElement
<1>3. Cardinality(s) \in Nat /\ Cardinality(s \ {x}) \in Nat
  BY <1>1, <1>2, FS_CardinalityType
<1>4. Chosen(s) \in s
  BY DEF Chosen
<1> QED BY <1>1, <1>2, <1>3, <1>4

(* Sums exist, up to any size of the subsets. *)
LEMMA SumUpToExists ==
  ASSUME NEW S, IsFiniteSet(S), NEW f, \A x \in S : f[x] \in Int, NEW n \in Nat
  PROVE  \E G : IsSumUpTo(G, f, S, n)
<1> DEFINE T == {k \in Nat : ~\E G : IsSumUpTo(G, f, S, k)}
<1>1. SUFFICES ASSUME T # {} PROVE FALSE
  OBVIOUS
<1>2. PICK k \in T : \A m \in T : k <= m
  <2>1. T \in SUBSET Nat
    OBVIOUS
  <2> HIDE DEF T
  <2> QED BY <1>1, <2>1, LeastNat
<1>3. CASE k = 0
  <2> DEFINE G == [s \in SUBSET S |-> 0]
  <2>1. G \in [SUBSET S -> Int]
    OBVIOUS
  <2>2. ASSUME NEW s \in SUBSET S, Cardinality(s) <= 0
        PROVE  G[s] = IF s = {} THEN 0 ELSE f[Chosen(s)] + G[s \ {Chosen(s)}]
    <3>1. IsFiniteSet(s) /\ Cardinality(s) \in Nat
      BY FS_Subset, FS_CardinalityType
    <3>2. s = {}
      BY <2>2, <3>1, FS_EmptySet
    <3> QED BY <3>2
  <2>3. IsSumUpTo(G, f, S, 0)
    <3> HIDE DEF G
    <3> QED BY <2>1, <2>2 DEF IsSumUpTo
  <2> QED BY <1>3, <2>3
<1>4. CASE k # 0
  <2>1. k - 1 \in Nat /\ k - 1 \notin T
    BY <1>2, <1>4
  <2>2. PICK H : IsSumUpTo(H, f, S, k - 1)
    BY <2>1
  <2> DEFINE G == [s \in SUBSET S |-> IF Cardinality(s) <= k - 1 THEN H[s]
                                      ELSE f[Chosen(s)] + H[s \ {Chosen(s)}]]
  <2>3. H \in [SUBSET S -> Int]
    BY <2>2 DEF IsSumUpTo
  <2>4. G \in [SUBSET S -> Int]
    <3>1. ASSUME NEW s \in SUBSET S, ~(Cardinality(s) <= k - 1)
          PROVE  f[Chosen(s)] + H[s \ {Chosen(s)}] \in Int
      <4>1. s # {}
        BY <2>1, <3>1, FS_EmptySet
      <4>2. Chosen(s) \in S /\ s \ {Chosen(s)} \in SUBSET S
        BY <4>1, ChosenSmaller
      <4>3. f[Chosen(s)] \in Int /\ H[s \ {Chosen(s)}] \in Int
        BY <2>3, <4>2
      <4> QED BY <4>3
    <3>2. \A s \in SUBSET S : H[s] \in Int
      BY <2>3
    <3> QED BY <3>1, <3>2
  <2>5. ASSUME NEW s \in SUBSET S, Cardinality(s) <= k
        PROVE  G[s] = IF s = {} THEN 0 ELSE f[Chosen(s)] + G[s \ {Chosen(s)}]
    <3>1. CASE s = {}
      <4>1. Cardinality(s) <= k - 1
        BY <2>1, <3>1, FS_EmptySet
      <4>2. G[s] = H[s]
        BY <4>1
      <4> QED BY <2>2, <3>1, <4>1, <4>2 DEF IsSumUpTo
    <3>2. CASE s # {}
      <4>1. /\ Chosen(s) \in s /\ s \ {Chosen(s)} \in SUBSET S /\ Cardinality(s) \in Nat
            /\ Cardinality(s \ {Chosen(s)}) = Cardinality(s) - 1
        BY <3>2, ChosenSmaller
      <4>2. Cardinality(s \ {Chosen(s)}) <= k - 1
        BY <2>1, <2>5, <4>1
      <4>3. G[s \ {Chosen(s)}] = H[s \ {Chosen(s)}]
        BY <4>1, <4>2
      <4>4. G[s] = f[Chosen(s)] + H[s \ {Chosen(s)}]
        <5>1. CASE Cardinality(s) <= k - 1
          BY <2>2, <3>2, <5>1 DEF IsSumUpTo
        <5>2. CASE ~(Cardinality(s) <= k - 1)
          BY <5>2
        <5> QED BY <5>1, <5>2
      <4> HIDE DEF G
      <4> QED BY <3>2, <4>3, <4>4
    <3> QED BY <3>1, <3>2
  <2>6. IsSumUpTo(G, f, S, k)
    <3> HIDE DEF G
    <3> QED BY <2>4, <2>5 DEF IsSumUpTo
  <2> QED BY <2>6
<1> QED BY <1>3, <1>4

(* Functions that agree on S have the same sums over subsets of S. *)
LEMMA SumUnique ==
  ASSUME NEW S, IsFiniteSet(S), NEW f, NEW g, \A x \in S : f[x] = g[x], NEW G, NEW H,
         Sums(G, f, S), Sums(H, g, S), NEW t \in SUBSET S
  PROVE  G[t] = H[t]
<1> DEFINE T == {k \in Nat : \E s \in SUBSET S : Cardinality(s) = k /\ G[s] # H[s]}
<1>1. SUFFICES ASSUME G[t] # H[t] PROVE FALSE
  OBVIOUS
<1>2. T # {} /\ T \in SUBSET Nat
  <2>1. Cardinality(t) \in Nat
    BY FS_Subset, FS_CardinalityType
  <2>2. Cardinality(t) \in T
    BY <1>1, <2>1
  <2> QED BY <2>2
<1>3. PICK k \in T : \A m \in T : k <= m
  <2> HIDE DEF T
  <2> QED BY <1>2, LeastNat
<1>4. PICK s \in SUBSET S : Cardinality(s) = k /\ G[s] # H[s]
  OBVIOUS
<1>5. s # {}
  <2>1. G[{}] = 0 /\ H[{}] = 0
    BY DEF Sums
  <2> QED BY <1>4, <2>1
<1>6. /\ Chosen(s) \in s /\ s \ {Chosen(s)} \in SUBSET S
      /\ Cardinality(s \ {Chosen(s)}) \in Nat /\ Cardinality(s \ {Chosen(s)}) = k - 1
  <2>1. Chosen(s) \in s
    BY <1>5 DEF Chosen
  <2> QED BY <1>4, <2>1, ChosenSmaller
<1>7. G[s \ {Chosen(s)}] = H[s \ {Chosen(s)}]
  <2>1. k - 1 \notin T
    BY <1>3
  <2> QED BY <1>6, <2>1
<1>8. f[Chosen(s)] = g[Chosen(s)]
  BY <1>6
<1> QED BY <1>4, <1>5, <1>7, <1>8 DEF Sums

(* Total is such a sum. *)
LEMMA TotalIsSum ==
  ASSUME NEW S, IsFiniteSet(S), NEW f, \A x \in S : f[x] \in Int
  PROVE  \E G : IsSum(G, f, S) /\ Total(f, S) = G[S]
<1> DEFINE Step(G) == [s \in SUBSET S |-> IF s = {} THEN 0
                                         ELSE f[CHOOSE x \in s : TRUE] + G[s \ {CHOOSE x \in s : TRUE}]]
           I == CHOOSE G : G = Step(G)
<1>1. Cardinality(S) \in Nat
  BY FS_CardinalityType
<1>2. PICK H : IsSumUpTo(H, f, S, Cardinality(S))
  BY <1>1, SumUpToExists
<1>3. IsSum(H, f, S)
  <2>1. \A s \in SUBSET S : Cardinality(s) <= Cardinality(S)
    BY FS_Subset
  <2> QED BY <1>2, <2>1 DEF IsSumUpTo, IsSum, Sums
<1>4. H = Step(H)
  BY <1>3 DEF IsSum, Sums, Chosen
<1>5. I = Step(I)
  <2> HIDE DEF Step
  <2> QED BY <1>4
<1>6. Sums(I, f, S)
  <2> HIDE DEF I
  <2> QED BY <1>5 DEF Chosen, Sums
<1>7. Total(f, S) = I[S]
  BY DEF Total, MapThenSumSet, MapThenFoldSet
<1>8. I[S] = H[S]
  <2> HIDE DEF I
  <2>1. Sums(H, f, S) /\ S \in SUBSET S
    BY <1>3 DEF IsSum
  <2> QED BY <1>6, <2>1, SumUnique
<1> QED BY <1>3, <1>7, <1>8

(* It does not matter which element is taken first. *)
LEMMA SumRemove ==
  ASSUME NEW S, IsFiniteSet(S), NEW f, \A x \in S : f[x] \in Int, NEW G, IsSum(G, f, S),
         NEW t \in SUBSET S, NEW y \in t
  PROVE  G[t] = f[y] + G[t \ {y}]
<1> DEFINE Good(s) == \A x \in s : G[s] = f[x] + G[s \ {x}]
           T == {k \in Nat : \E s \in SUBSET S : Cardinality(s) = k /\ ~Good(s)}
<1>1. SUFFICES ASSUME ~Good(t) PROVE FALSE
  OBVIOUS
<1>2. T # {} /\ T \in SUBSET Nat
  <2> HIDE DEF Good
  <2>1. Cardinality(t) \in Nat
    BY FS_Subset, FS_CardinalityType
  <2>2. Cardinality(t) \in T
    BY <1>1, <2>1
  <2> QED BY <2>2
<1>3. PICK k \in T : \A m \in T : k <= m
  <2> HIDE DEF T
  <2> QED BY <1>2, LeastNat
<1>4. PICK s \in SUBSET S : Cardinality(s) = k /\ ~Good(s)
  <2> HIDE DEF Good
  <2> QED BY <1>3
<1>5. PICK x \in s : G[s] # f[x] + G[s \ {x}]
  BY <1>4
<1> DEFINE c == Chosen(s)
<1>6. c \in s /\ G[s] = f[c] + G[s \ {c}]
  BY <1>5, ChosenSmaller DEF IsSum, Sums
<1>7. x # c
  BY <1>5, <1>6
<1>8. \A z \in s : /\ s \ {z} \in SUBSET S
                   /\ Cardinality(s \ {z}) \in Nat /\ Cardinality(s \ {z}) = k - 1
  BY <1>4, ChosenSmaller
<1> HIDE DEF c
<1>9. \A z \in s : Good(s \ {z})
  <2>1. k - 1 \notin T
    BY <1>3
  <2> HIDE DEF Good
  <2> QED BY <1>8, <2>1
<1>10. G[s \ {c}] = f[x] + G[(s \ {c}) \ {x}]
  <2>1. x \in s \ {c}
    BY <1>7
  <2> QED BY <1>6, <1>9, <2>1
<1>11. G[s \ {x}] = f[c] + G[(s \ {x}) \ {c}]
  <2>1. c \in s \ {x}
    BY <1>6, <1>7
  <2> QED BY <1>9, <2>1
<1>12. (s \ {c}) \ {x} = (s \ {x}) \ {c} /\ (s \ {x}) \ {c} \in SUBSET S
  OBVIOUS
<1>13. f[c] \in Int /\ f[x] \in Int /\ G[(s \ {x}) \ {c}] \in Int
  BY <1>6, <1>12 DEF IsSum
<1> DEFINE rest == G[(s \ {x}) \ {c}]
<1>14. G[s] = f[c] + (f[x] + rest) /\ G[s \ {x}] = f[c] + rest
  BY <1>6, <1>10, <1>11, <1>12
<1>15. f[c] + (f[x] + rest) = f[x] + (f[c] + rest)
  <2> HIDE DEF rest
  <2>1. rest \in Int
    BY <1>13 DEF rest
  <2> QED BY <1>13, <2>1
<1> QED BY <1>5, <1>14, <1>15

(* Totals are integers, and depend on the summands only. *)
LEMMA TotalType ==
  ASSUME NEW S, IsFiniteSet(S), NEW f, \A x \in S : f[x] \in Int
  PROVE  Total(f, S) \in Int
<1>1. PICK G : IsSum(G, f, S) /\ Total(f, S) = G[S]
  BY TotalIsSum
<1> QED BY <1>1 DEF IsSum

LEMMA TotalSame ==
  ASSUME NEW S, IsFiniteSet(S), NEW f, NEW g,
         \A x \in S : f[x] \in Int, \A x \in S : f[x] = g[x]
  PROVE  Total(f, S) = Total(g, S)
<1>1. PICK G : IsSum(G, f, S) /\ Total(f, S) = G[S]
  BY TotalIsSum
<1>2. PICK H : IsSum(H, g, S) /\ Total(g, S) = H[S]
  <2>1. \A x \in S : g[x] \in Int
    OBVIOUS
  <2> QED BY <2>1, TotalIsSum
<1>3. G[S] = H[S]
  <2>1. Sums(G, f, S) /\ Sums(H, g, S) /\ S \in SUBSET S
    BY <1>1, <1>2 DEF IsSum
  <2> QED BY <2>1, SumUnique
<1> QED BY <1>1, <1>2, <1>3

LEMMA TotalEmpty == ASSUME NEW f PROVE Total(f, {}) = 0
<1>1. IsFiniteSet({}) /\ \A x \in {} : f[x] \in Int
  BY FS_EmptySet
<1>2. PICK G : IsSum(G, f, {}) /\ Total(f, {}) = G[{}]
  BY <1>1, TotalIsSum
<1> QED BY <1>2 DEF IsSum, Sums

(* One summand more: what committing a key or an entry does to the books. *)
LEMMA TotalAdd ==
  ASSUME NEW S, IsFiniteSet(S), NEW y, y \notin S, NEW f, \A x \in S \cup {y} : f[x] \in Int
  PROVE  Total(f, S \cup {y}) = Total(f, S) + f[y]
<1> DEFINE U == S \cup {y}
<1>1. IsFiniteSet(U)
  BY FS_AddElement
<1>2. PICK G : IsSum(G, f, U) /\ Total(f, U) = G[U]
  BY <1>1, TotalIsSum
<1>3. PICK H : IsSum(H, f, S) /\ Total(f, S) = H[S]
  BY TotalIsSum
<1>4. G[U] = f[y] + G[U \ {y}]
  <2>1. y \in U /\ U \in SUBSET U
    OBVIOUS
  <2> HIDE DEF U
  <2>2. \A x \in U : f[x] \in Int
    BY DEF U
  <2> QED BY <1>1, <1>2, <2>1, <2>2, SumRemove
<1>5. U \ {y} = S
  OBVIOUS
<1>6. G[S] = H[S]
  <2>1. Sums(G, f, U) /\ Sums(H, f, S) /\ S \in SUBSET S
    BY <1>2, <1>3 DEF IsSum
  <2>2. Sums(G, f, S)
    BY <2>1 DEF Sums
  <2> QED BY <2>1, <2>2, SumUnique
<1>7. H[S] \in Int
  BY <1>3 DEF IsSum
<1>8. Total(f, U) = f[y] + Total(f, S) /\ Total(f, S) \in Int /\ f[y] \in Int
  BY <1>2, <1>3, <1>4, <1>5, <1>6, <1>7
<1> QED BY <1>8

(* A sum of naturals is a natural, and at least each of its summands. *)
LEMMA TotalBound ==
  ASSUME NEW S, IsFiniteSet(S), NEW f, \A x \in S : f[x] \in Nat
  PROVE  Total(f, S) \in Nat /\ \A x \in S : f[x] <= Total(f, S)
<1>1. PICK G : IsSum(G, f, S) /\ Total(f, S) = G[S]
  BY TotalIsSum
<1> DEFINE T == {k \in Nat : \E s \in SUBSET S : Cardinality(s) = k /\ G[s] \notin Nat}
<1>2. \A s \in SUBSET S : G[s] \in Nat
  <2>1. SUFFICES ASSUME NEW t \in SUBSET S, G[t] \notin Nat PROVE FALSE
    OBVIOUS
  <2>2. T # {} /\ T \in SUBSET Nat
    <3>1. Cardinality(t) \in Nat
      BY FS_Subset, FS_CardinalityType
    <3>2. Cardinality(t) \in T
      BY <2>1, <3>1
    <3> QED BY <3>2
  <2>3. PICK k \in T : \A m \in T : k <= m
    <3> HIDE DEF T
    <3> QED BY <2>2, LeastNat
  <2>4. PICK s \in SUBSET S : Cardinality(s) = k /\ G[s] \notin Nat
    OBVIOUS
  <2>5. s # {}
    <3>1. G[{}] = 0
      BY <1>1 DEF IsSum, Sums
    <3> QED BY <2>4, <3>1
  <2>6. /\ Chosen(s) \in s /\ s \ {Chosen(s)} \in SUBSET S
        /\ Cardinality(s \ {Chosen(s)}) \in Nat /\ Cardinality(s \ {Chosen(s)}) = k - 1
    BY <2>4, <2>5, ChosenSmaller
  <2>7. G[s \ {Chosen(s)}] \in Nat
    <3>1. k - 1 \notin T
      BY <2>3
    <3> QED BY <2>6, <3>1
  <2>8. G[s] = f[Chosen(s)] + G[s \ {Chosen(s)}] /\ f[Chosen(s)] \in Nat
    BY <1>1, <2>5, <2>6 DEF IsSum, Sums
  <2> QED BY <2>4, <2>7, <2>8
<1>3. ASSUME NEW x \in S PROVE f[x] <= G[S]
  <2>1. \A z \in S : f[z] \in Int
    OBVIOUS
  <2>2. S \in SUBSET S /\ S \ {x} \in SUBSET S
    OBVIOUS
  <2>3. G[S] = f[x] + G[S \ {x}]
    BY <1>1, <2>1, <2>2, SumRemove
  <2>4. f[x] \in Nat /\ G[S \ {x}] \in Nat
    BY <1>2, <2>2
  <2> QED BY <2>3, <2>4
<1>4. G[S] \in Nat
  BY <1>2
<1> QED BY <1>1, <1>3, <1>4

-----------------------------------------------------------------------------
(* The books *)

HeldOrders == {o \in Orders : entries[o] # NoEntry}

(* The inductive invariant.  Only finitely many keys and entries have been *)
(* committed, however many requests there are.                             *)
BooksInv ==
  /\ CashierInv
  /\ IsFiniteSet(AppliedSet)
  /\ IsFiniteSet(HeldOrders)
  /\ BooksBalance

(* One request more in a sum of amounts. *)
LEMMA AmountsAdd ==
  ASSUME NEW S, IsFiniteSet(S), NEW y, y \notin S, \A x \in S \cup {y} : x.amount \in Nat
  PROVE  Total([x \in S \cup {y} |-> x.amount], S \cup {y})
           = Total([x \in S |-> x.amount], S) + y.amount
<1> DEFINE f == [x \in S \cup {y} |-> x.amount]
           g == [x \in S |-> x.amount]
<1>1. (\A x \in S \cup {y} : f[x] \in Int) /\ f[y] = y.amount /\ \A x \in S : f[x] = g[x]
  OBVIOUS
<1> HIDE DEF f, g
<1>2. Total(f, S \cup {y}) = Total(f, S) + f[y]
  BY <1>1, TotalAdd
<1>3. Total(f, S) = Total(g, S)
  BY <1>1, TotalSame
<1> QED BY <1>1, <1>2, <1>3 DEF f, g

(* The sets the books sum over are finite, and their amounts naturals. *)
LEMMA AppliedForType ==
  ASSUME BooksInv, NEW u \in Users, NEW ops \in SUBSET Keyed
  PROVE  /\ IsFiniteSet(AppliedFor(u, ops))
         /\ \A r \in AppliedFor(u, ops) : r \in Requests /\ r.amount \in Nat
         /\ Applied(u, ops) \in Nat
<1> DEFINE S == AppliedFor(u, ops)
<1>1. IsFiniteSet(S)
  <2>1. S \in SUBSET AppliedSet
    BY DEF AppliedFor, AppliedSet
  <2> QED BY <2>1, FS_Subset DEF BooksInv
<1>2. \A r \in S : r \in Requests /\ r.amount \in Nat
  BY RequestType DEF AppliedFor, Keyed
<1>3. \A x \in S : [r \in S |-> r.amount][x] \in Nat
  BY <1>2
<1>4. Total([r \in S |-> r.amount], S) \in Nat
  <2> DEFINE f == [r \in S |-> r.amount]
  <2>1. \A x \in S : f[x] \in Nat
    BY <1>2
  <2> HIDE DEF f, S
  <2>2. Total(f, S) \in Nat
    BY <1>1, <2>1, TotalBound
  <2> QED BY <2>2 DEF f
<1> QED BY <1>1, <1>2, <1>4 DEF Applied

(* A commit of a keyed request adds it to the sums it belongs to. *)
LEMMA AppliedGrows ==
  ASSUME BooksInv, NEW p \in Procs, NEW status, Commit(p, status),
         NEW r \in Requests, r = req[p], r.op \in Keyed,
         NEW u \in Users, NEW ops \in SUBSET Keyed
  PROVE  Applied(u, ops)' =
           Applied(u, ops) + IF r.op \in ops /\ r.user = u THEN r.amount ELSE 0
<1> DEFINE S == AppliedFor(u, ops)
<1>1. CashierInv /\ pc[p] = "commit"
  BY DEF BooksInv, Commit
<1>2. Key(r) \notin keys /\ keys' = keys \cup {Key(r)} /\ r.amount \in Nat
  BY <1>1, CommitFacts, CommitEffect, RequestType DEF Keyed
<1>3. \A s \in Requests : s.op \in Keyed /\ Key(s) = Key(r) => s = r
  BY KeysAssumption
<1>4. IsFiniteSet(S) /\ (\A s \in S : s.amount \in Nat) /\ Applied(u, ops) \in Nat
  BY AppliedForType
<1>5. CASE r.op \in ops /\ r.user = u
  <2>1. AppliedFor(u, ops)' = S \cup {r} /\ r \notin S
    BY <1>2, <1>3, <1>5 DEF AppliedFor
  <2>2. Applied(u, ops)' = Total([x \in S \cup {r} |-> x.amount], S \cup {r})
    BY <2>1 DEF Applied
  <2>3. \A x \in S \cup {r} : x.amount \in Nat
    BY <1>2, <1>4
  <2> HIDE DEF S
  <2>4. Total([x \in S \cup {r} |-> x.amount], S \cup {r}) = Total([x \in S |-> x.amount], S) + r.amount
    BY <1>4, <2>1, <2>3, AmountsAdd
  <2> QED BY <1>5, <2>2, <2>4 DEF Applied, S
<1>6. CASE ~(r.op \in ops /\ r.user = u)
  <2>1. AppliedFor(u, ops)' = S
    BY <1>2, <1>3, <1>6 DEF AppliedFor
  <2>2. Applied(u, ops)' = Applied(u, ops)
    BY <2>1 DEF Applied
  <2> QED BY <1>4, <1>6, <2>2
<1> QED BY <1>5, <1>6

(* The entries the books sum over. *)
LEMMA HeldForType ==
  ASSUME BooksInv, NEW u \in Users
  PROVE  /\ {o \in Orders : entries[o].user = u} \in SUBSET HeldOrders
         /\ IsFiniteSet({o \in Orders : entries[o].user = u})
         /\ \A o \in Orders : entries[o].amount \in Nat
         /\ HeldFor(u) \in Nat
         /\ \A o \in Orders : entries[o].user = u => entries[o].amount <= HeldFor(u)
<1> DEFINE S == {o \in Orders : entries[o].user = u}
           f == [o \in Orders |-> entries[o].amount]
<1>1. S \in SUBSET HeldOrders
  BY NoneAssumption DEF HeldOrders, NoEntry
<1>2. IsFiniteSet(S)
  BY <1>1, FS_Subset DEF BooksInv
<1>3. \A o \in Orders : entries[o].amount \in Nat
  BY DEF BooksInv, CashierInv, TypeOK, EntryType, NoEntry
<1>4. \A o \in S : f[o] \in Nat
  BY <1>3
<1>5. Total(f, S) \in Nat /\ \A o \in S : f[o] <= Total(f, S)
  <2> HIDE DEF f, S
  <2> QED BY <1>2, <1>4, TotalBound
<1>6. HeldFor(u) = Total(f, S)
  BY DEF HeldFor
<1> QED BY <1>1, <1>2, <1>3, <1>5, <1>6

(* An escrow adds its entry to the owner's sum; a release takes it away.   *)
LEMMA HeldGrows ==
  ASSUME BooksInv, NEW p \in Procs, NEW status, Commit(p, status), req[p].op = "escrow",
         NEW u \in Users
  PROVE  HeldFor(u)' = HeldFor(u) + IF UserOf(p) = u THEN req[p].amount ELSE 0
<1> DEFINE S == {o \in Orders : entries[o].user = u}
           f == [o \in Orders |-> entries[o].amount]
           g == [o \in Orders |-> entries'[o].amount]
<1>1. CashierInv /\ pc[p] = "commit"
  BY DEF BooksInv, Commit
<1>2. PICK x \in Orders : x = req[p].id
  BY <1>1, CommitFacts
<1>3. /\ entries[x] = NoEntry /\ \A o \in Orders : o # x => entries'[o] = entries[o]
      /\ entries'[x] = [user |-> req[p].user, amount |-> req[p].amount]
      /\ UserOf(p) = req[p].user /\ req[p].amount \in Nat
  BY <1>1, <1>2, CommitFacts, CommitEffect DEF Commit, UserOf, CashierInv, TypeOK
<1>4. /\ IsFiniteSet(S) /\ HeldFor(u) \in Nat /\ x \notin S
      /\ \A o \in S : f[o] \in Int /\ f[o] = g[o]
  <2>1. IsFiniteSet(S) /\ HeldFor(u) \in Nat /\ \A o \in Orders : entries[o].amount \in Nat
    BY HeldForType
  <2>2. x \notin S
    BY <1>3, NoneAssumption DEF NoEntry
  <2>3. \A o \in S : f[o] \in Int /\ f[o] = g[o]
    BY <1>3, <2>1, <2>2
  <2> QED BY <2>1, <2>2, <2>3
<1>5. HeldFor(u)' = Total(g, {o \in Orders : entries'[o].user = u})
  BY DEF HeldFor
<1>6. Total(f, S) = Total(g, S) /\ HeldFor(u) = Total(f, S)
  <2>1. HeldFor(u) = Total(f, S)
    BY DEF HeldFor
  <2> HIDE DEF f, g, S
  <2> QED BY <1>4, <2>1, TotalSame
<1>7. CASE UserOf(p) = u
  <2>1. {o \in Orders : entries'[o].user = u} = S \cup {x}
    BY <1>3, <1>7
  <2>2. (\A o \in S \cup {x} : g[o] \in Int) /\ g[x] = req[p].amount
    BY <1>3, <1>4
  <2> HIDE DEF f, g, S
  <2>3. Total(g, S \cup {x}) = Total(g, S) + g[x]
    BY <1>4, <2>2, TotalAdd
  <2>4. HeldFor(u)' = HeldFor(u) + req[p].amount
    BY <1>5, <1>6, <2>1, <2>2, <2>3
  <2> QED BY <1>7, <2>4
<1>8. CASE UserOf(p) # u
  <2>1. {o \in Orders : entries'[o].user = u} = S
    BY <1>3, <1>4, <1>8
  <2> HIDE DEF f, g, S
  <2>2. HeldFor(u)' = HeldFor(u)
    BY <1>5, <1>6, <2>1
  <2> QED BY <1>4, <1>8, <2>2
<1> QED BY <1>7, <1>8

LEMMA HeldShrinks ==
  ASSUME BooksInv, NEW p \in Procs, NEW status, Commit(p, status), req[p].op = "release",
         NEW u \in Users
  PROVE  HeldFor(u)' = HeldFor(u) - IF UserOf(p) = u THEN pre[p].amount ELSE 0
<1> DEFINE S == {o \in Orders : entries'[o].user = u}
           f == [o \in Orders |-> entries[o].amount]
           g == [o \in Orders |-> entries'[o].amount]
<1>1. CashierInv /\ pc[p] = "commit"
  BY DEF BooksInv, Commit
<1>2. PICK x \in Orders : x = req[p].id
  BY <1>1, CommitFacts
<1>3. /\ entries'[x] = NoEntry /\ \A o \in Orders : o # x => entries'[o] = entries[o]
      /\ entries[x] = pre[p] /\ UserOf(p) = pre[p].user
  BY <1>1, <1>2, CommitFacts, CommitEffect DEF UserOf
<1>4. x \notin S /\ \A o \in S : entries'[o] = entries[o]
  BY <1>3, NoneAssumption DEF NoEntry
<1>5. IsFiniteSet(S) /\ (\A o \in S : f[o] \in Int /\ f[o] = g[o]) /\ HeldFor(u) \in Nat
  <2>1. S \in SUBSET {o \in Orders : entries[o].user = u}
    BY <1>4
  <2>2. IsFiniteSet(S)
    BY <2>1, HeldForType, FS_Subset
  <2>3. HeldFor(u) \in Nat /\ \A o \in Orders : entries[o].amount \in Nat
    BY HeldForType
  <2>4. \A o \in S : f[o] \in Int /\ f[o] = g[o]
    BY <1>4, <2>3
  <2> QED BY <2>2, <2>3, <2>4
<1>6. HeldFor(u)' = Total(g, S)
  BY DEF HeldFor
<1>7. HeldFor(u) = Total(f, {o \in Orders : entries[o].user = u})
  BY DEF HeldFor
<1>8. Total(f, S) = Total(g, S) /\ Total(f, S) \in Int
  <2> HIDE DEF f, g, S
  <2> QED BY <1>5, TotalSame, TotalType
<1>9. CASE UserOf(p) = u
  <2>1. {o \in Orders : entries[o].user = u} = S \cup {x}
    BY <1>3, <1>9
  <2>2. (\A o \in S \cup {x} : f[o] \in Int) /\ f[x] = pre[p].amount
    <3>1. entries[x].amount \in Nat
      BY HeldForType
    <3>2. f[x] = pre[p].amount /\ f[x] \in Int
      BY <1>3, <3>1
    <3> HIDE DEF f, S
    <3> QED BY <1>5, <3>2
  <2> HIDE DEF f, g, S
  <2>3. Total(f, S \cup {x}) = Total(f, S) + f[x]
    BY <1>4, <1>5, <2>2, TotalAdd
  <2>4. HeldFor(u) = HeldFor(u)' + pre[p].amount /\ HeldFor(u)' \in Int /\ pre[p].amount \in Int
    BY <1>6, <1>7, <1>8, <2>1, <2>2, <2>3
  <2> QED BY <1>9, <2>4
<1>10. CASE UserOf(p) # u
  <2>1. {o \in Orders : entries[o].user = u} = S
    BY <1>3, <1>4, <1>10
  <2> HIDE DEF f, g, S
  <2>2. HeldFor(u)' = HeldFor(u)
    BY <1>6, <1>7, <1>8, <2>1
  <2> QED BY <1>5, <1>10, <2>2
<1> QED BY <1>9, <1>10

(* Nothing changes in the books while nothing is committed. *)
LEMMA BooksFrame ==
  ASSUME BooksInv, UNCHANGED tables
  PROVE  IsFiniteSet(AppliedSet)' /\ IsFiniteSet(HeldOrders)' /\ BooksBalance'
<1>1. accounts' = accounts /\ keys' = keys /\ entries' = entries
  BY DEF tables
<1>2. AppliedSet' = AppliedSet /\ HeldOrders' = HeldOrders
  BY <1>1 DEF AppliedSet, HeldOrders
<1>3. /\ \A u, ops : Applied(u, ops)' = Applied(u, ops)
      /\ \A u : HeldFor(u)' = HeldFor(u)
  BY <1>1 DEF Applied, AppliedFor, HeldFor
<1> QED BY <1>1, <1>2, <1>3 DEF BooksInv, BooksBalance

(* The row of an account after a commit. *)
LEMMA CommitRow ==
  ASSUME CashierInv, NEW p \in Procs, NEW status, Commit(p, status), NEW u \in Users,
         NEW g \in Int, NEW e \in Int, Written(p) = Plus(accounts[UserOf(p)], g, e)
  PROVE  /\ accounts'[u].gross = accounts[u].gross + IF UserOf(p) = u THEN g ELSE 0
         /\ accounts'[u].escrowed = accounts[u].escrowed + IF UserOf(p) = u THEN e ELSE 0
<1>1. accounts[u].gross \in Int /\ accounts[u].escrowed \in Int
  BY DEF CashierInv, TypeOK, RowType
<1>2. CASE UserOf(p) = u
  <2>1. accounts'[u] = Plus(accounts[u], g, e)
    BY <1>2, CommitEffect, CommitFacts
  <2> QED BY <1>2, <2>1 DEF Plus
<1>3. CASE UserOf(p) # u
  <2>1. accounts'[u] = accounts[u]
    BY <1>3, CommitEffect
  <2> QED BY <1>1, <1>3, <2>1
<1> QED BY <1>2, <1>3

(* A commit enters what it does in the books. *)
LEMMA CommitBooks ==
  ASSUME BooksInv, NEW p \in Procs, NEW status, Commit(p, status), NEW u \in Users
  PROVE  /\ accounts'[u].gross = Applied(u, {"deposit", "depositEscrowed"})'
                                 - Applied(u, {"withdraw", "cancelDeposit"})'
         /\ accounts'[u].escrowed = Applied(u, {"depositEscrowed"})'
                                    - Applied(u, {"confirmDeposit", "cancelDeposit"})' + HeldFor(u)'
<1> DEFINE A == {"deposit", "depositEscrowed"}
           B == {"withdraw", "cancelDeposit"}
           C == {"depositEscrowed"}
           D == {"confirmDeposit", "cancelDeposit"}
<1>1. CashierInv /\ pc[p] = "commit"
  BY DEF BooksInv, Commit
<1>2. PICK r \in Requests : r = req[p]
  BY <1>1, CommitFacts
<1>3. /\ r.op \in Keyed \cup {"escrow", "release"}
      /\ r.op # "release" => r.amount \in Nat /\ UserOf(p) = r.user
      /\ r.op = "release" => pre[p].amount \in Nat
  BY <1>1, <1>2, CommitFacts, EntryOfType DEF UserOf
<1>4. A \in SUBSET Keyed /\ B \in SUBSET Keyed /\ C \in SUBSET Keyed /\ D \in SUBSET Keyed
  BY DEF Keyed
<1>5. /\ accounts[u].gross = Applied(u, A) - Applied(u, B)
      /\ accounts[u].escrowed = Applied(u, C) - Applied(u, D) + HeldFor(u)
  BY DEF BooksInv, BooksBalance
<1>6. /\ Applied(u, A) \in Nat /\ Applied(u, B) \in Nat /\ Applied(u, C) \in Nat
      /\ Applied(u, D) \in Nat /\ HeldFor(u) \in Nat
  <2> HIDE DEF A, B, C, D
  <2>1. HeldFor(u) \in Nat
    BY HeldForType
  <2> QED BY <1>4, <2>1, AppliedForType
<1>7. CASE r.op \in Keyed
  <2> DEFINE amt == IF UserOf(p) = u THEN r.amount ELSE 0
  <2>1. /\ Applied(u, A)' = Applied(u, A) + IF r.op \in A THEN amt ELSE 0
        /\ Applied(u, B)' = Applied(u, B) + IF r.op \in B THEN amt ELSE 0
        /\ Applied(u, C)' = Applied(u, C) + IF r.op \in C THEN amt ELSE 0
        /\ Applied(u, D)' = Applied(u, D) + IF r.op \in D THEN amt ELSE 0
    <3>1. ASSUME NEW ops \in SUBSET Keyed
          PROVE  Applied(u, ops)' = Applied(u, ops) + IF r.op \in ops THEN amt ELSE 0
      <4>1. Applied(u, ops)' = Applied(u, ops) + IF r.op \in ops /\ r.user = u THEN r.amount ELSE 0
        BY <1>2, <1>7, AppliedGrows
      <4>2. UserOf(p) = r.user
        BY <1>3, <1>7 DEF Keyed
      <4> QED BY <4>1, <4>2
    <3> HIDE DEF A, B, C, D, amt
    <3> QED BY <1>4, <3>1
  <2>2. HeldFor(u)' = HeldFor(u)
    <3>1. entries' = entries
      BY <1>2, <1>7 DEF Commit, Keyed
    <3> QED BY <3>1 DEF HeldFor
  <2>3. amt \in Int /\ r.amount \in Int /\ -r.amount \in Int
    BY <1>3, <1>7 DEF Keyed
  <2>4. /\ accounts'[u].gross = accounts[u].gross + (IF r.op \in A THEN amt ELSE 0)
                                                  - (IF r.op \in B THEN amt ELSE 0)
        /\ accounts'[u].escrowed = accounts[u].escrowed + (IF r.op \in C THEN amt ELSE 0)
                                                        - (IF r.op \in D THEN amt ELSE 0)
    <3> DEFINE g == IF r.op \in A THEN r.amount ELSE IF r.op \in B THEN -r.amount ELSE 0
               e == IF r.op \in C THEN r.amount ELSE IF r.op \in D THEN -r.amount ELSE 0
    <3>1. g \in Int /\ e \in Int
      BY <2>3
    <3>2. Written(p) = Plus(accounts[UserOf(p)], g, e)
      BY <1>2, <1>7 DEF Written, Keyed
    <3>3. accounts[u].gross \in Int /\ accounts[u].escrowed \in Int
      BY <1>1 DEF CashierInv, TypeOK, RowType
    <3>4. /\ accounts'[u].gross = accounts[u].gross + IF UserOf(p) = u THEN g ELSE 0
          /\ accounts'[u].escrowed = accounts[u].escrowed + IF UserOf(p) = u THEN e ELSE 0
      <4> HIDE DEF g, e
      <4> QED BY <1>1, <3>1, <3>2, CommitRow
    <3>5. (IF UserOf(p) = u THEN g ELSE 0) = (IF r.op \in A THEN amt ELSE 0) - (IF r.op \in B THEN amt ELSE 0)
      BY <2>3
    <3>6. (IF UserOf(p) = u THEN e ELSE 0) = (IF r.op \in C THEN amt ELSE 0) - (IF r.op \in D THEN amt ELSE 0)
      BY <2>3
    <3> HIDE DEF g, e, A, B, C, D, amt
    <3> QED BY <2>3, <3>3, <3>4, <3>5, <3>6
  <2> HIDE DEF A, B, C, D, amt
  <2>5. /\ accounts'[u].gross = Applied(u, A)' - Applied(u, B)'
        /\ accounts'[u].escrowed = Applied(u, C)' - Applied(u, D)' + HeldFor(u)'
    BY <1>5, <1>6, <2>1, <2>2, <2>3, <2>4
  <2> QED BY <2>5 DEF A, B, C, D
<1>8. CASE r.op \in {"escrow", "release"}
  <2> DEFINE e == IF r.op = "escrow" THEN r.amount ELSE -pre[p].amount
             own == IF UserOf(p) = u THEN e ELSE 0
  <2>1. keys' = keys
    BY <1>2, <1>8 DEF Commit, Keyed
  <2>2. /\ Applied(u, A)' = Applied(u, A) /\ Applied(u, B)' = Applied(u, B)
        /\ Applied(u, C)' = Applied(u, C) /\ Applied(u, D)' = Applied(u, D)
    BY <2>1 DEF Applied, AppliedFor
  <2>3. e \in Int
    BY <1>3, <1>8
  <2>4. HeldFor(u)' = HeldFor(u) + own
    <3>1. CASE r.op = "escrow"
      <4>1. HeldFor(u)' = HeldFor(u) + IF UserOf(p) = u THEN r.amount ELSE 0
        BY <1>2, <3>1, HeldGrows
      <4> QED BY <3>1, <4>1
    <3>2. CASE r.op = "release"
      <4>1. HeldFor(u)' = HeldFor(u) - IF UserOf(p) = u THEN pre[p].amount ELSE 0
        BY <1>2, <3>2, HeldShrinks
      <4>2. pre[p].amount \in Nat
        BY <1>3, <3>2
      <4> QED BY <1>6, <3>2, <4>1, <4>2
    <3> QED BY <1>8, <3>1, <3>2
  <2>5. /\ accounts'[u].gross = accounts[u].gross + IF UserOf(p) = u THEN 0 ELSE 0
        /\ accounts'[u].escrowed = accounts[u].escrowed + own
    <3>1. Written(p) = Plus(accounts[UserOf(p)], 0, e)
      BY <1>2, <1>8 DEF Written
    <3>2. ASSUME NEW g \in Int, NEW d \in Int, Written(p) = Plus(accounts[UserOf(p)], g, d)
          PROVE  /\ accounts'[u].gross = accounts[u].gross + IF UserOf(p) = u THEN g ELSE 0
                 /\ accounts'[u].escrowed = accounts[u].escrowed + IF UserOf(p) = u THEN d ELSE 0
      BY <1>1, <3>2, CommitRow
    <3> HIDE DEF e
    <3>3. 0 \in Int
      OBVIOUS
    <3> QED BY <2>3, <3>1, <3>2, <3>3
  <2>6. own \in Int /\ accounts[u].gross \in Int
    BY <1>1, <2>3 DEF CashierInv, TypeOK, RowType
  <2> HIDE DEF A, B, C, D, own
  <2>7. /\ accounts'[u].gross = Applied(u, A)' - Applied(u, B)'
        /\ accounts'[u].escrowed = Applied(u, C)' - Applied(u, D)' + HeldFor(u)'
    BY <1>5, <1>6, <2>2, <2>4, <2>5, <2>6
  <2> QED BY <2>7 DEF A, B, C, D
<1> QED BY <1>3, <1>7, <1>8

(* Only one key or entry is committed at a time. *)
LEMMA CommitFinite ==
  ASSUME BooksInv, NEW p \in Procs, NEW status, Commit(p, status)
  PROVE  IsFiniteSet(AppliedSet') /\ IsFiniteSet(HeldOrders')
<1>1. CashierInv /\ pc[p] = "commit"
  BY DEF BooksInv, Commit
<1>2. PICK r \in Requests : r = req[p]
  BY <1>1, CommitFacts
<1>3. AppliedSet' \in SUBSET (AppliedSet \cup {r})
  <2>1. \A s \in Requests : s.op \in Keyed /\ r.op \in Keyed /\ Key(s) = Key(r) => s = r
    BY KeysAssumption
  <2>2. keys' = IF r.op \in Keyed THEN keys \cup {Key(r)} ELSE keys
    BY <1>1, <1>2, CommitEffect
  <2> QED BY <2>1, <2>2 DEF AppliedSet
<1>4. HeldOrders' \in SUBSET (HeldOrders \cup {req[p].id})
  <2>1. \A o \in Orders : o # req[p].id => entries'[o] = entries[o]
    BY <1>1, CommitEffect
  <2> QED BY <2>1 DEF HeldOrders
<1>5. IsFiniteSet(AppliedSet \cup {r}) /\ IsFiniteSet(HeldOrders \cup {req[p].id})
  BY FS_AddElement DEF BooksInv
<1> QED BY <1>3, <1>4, <1>5, FS_Subset

(* The tables are empty, and so are the sums. *)
LEMMA BooksInit == Init => BooksInv
<1> SUFFICES ASSUME Init PROVE BooksInv
  OBVIOUS
<1>1. CashierInv
  BY CashierInit
<1>2. AppliedSet = {} /\ HeldOrders = {}
  BY DEF Init, AppliedSet, HeldOrders
<1>3. IsFiniteSet(AppliedSet) /\ IsFiniteSet(HeldOrders)
  BY <1>2, FS_EmptySet
<1>4. ASSUME NEW u \in Users
      PROVE  (\A ops : Applied(u, ops) = 0) /\ HeldFor(u) = 0
  <2>1. ASSUME NEW ops PROVE Applied(u, ops) = 0
    <3>1. AppliedFor(u, ops) = {}
      BY DEF Init, AppliedFor
    <3> QED BY <3>1, TotalEmpty DEF Applied
  <2>2. {o \in Orders : entries[o].user = u} = {}
    BY NoneAssumption DEF Init, NoEntry
  <2>3. HeldFor(u) = 0
    BY <2>2, TotalEmpty DEF HeldFor
  <2> QED BY <2>1, <2>3
<1>5. BooksBalance
  <2>1. \A u \in Users : accounts[u].gross = 0 /\ accounts[u].escrowed = 0
    BY DEF Init, NoAccount
  <2> QED BY <1>4, <2>1 DEF BooksBalance
<1> QED BY <1>1, <1>3, <1>5 DEF BooksInv

LEMMA BooksStep == BooksInv /\ [Next]_vars => BooksInv'
<1> SUFFICES ASSUME BooksInv, [Next]_vars PROVE BooksInv'
  OBVIOUS
<1>1. CashierInv'
  BY CashierStep DEF BooksInv
<1>2. CASE UNCHANGED tables
  BY <1>1, <1>2, BooksFrame DEF BooksInv
<1>3. ASSUME NEW p \in Procs, NEW status \in {"ok", "unknown"}, Commit(p, status)
      PROVE  BooksInv'
  <2>1. BooksBalance'
    BY <1>3, CommitBooks DEF BooksBalance
  <2>2. IsFiniteSet(AppliedSet') /\ IsFiniteSet(HeldOrders')
    BY <1>3, CommitFinite
  <2> QED BY <1>1, <2>1, <2>2 DEF BooksInv
<1> QED BY <1>2, <1>3, OnlyCommits

(* The invariant of the books holds in every reachable state. *)
THEOREM BooksInvariant == Spec => []BooksInv
  BY BooksInit, BooksStep, PTL DEF Spec

(* An account holds what the committed keys and escrow entries add up to,  *)
(* whatever the number of concurrent calls, replicas, retries and failures. *)
THEOREM BooksAlwaysBalance == Spec => []BooksBalance
<1>1. BooksInv => BooksBalance
  BY DEF BooksInv
<1> QED BY <1>1, BooksInvariant, PTL

-----------------------------------------------------------------------------
(* How calls end *)

(* Requests that take money out of escrow without an escrow entry: the     *)
(* cashier trusts its caller that a deposit put it there.                  *)
ChainRequests == {r \in Requests : r.op \in {"confirmDeposit", "cancelDeposit"}}

Outcomes == Statuses \ IF ChainRequests = {} THEN {"concurrent_modification", "internal"}
                       ELSE {"concurrent_modification"}

OutcomesInv == \A p \in Procs : resp[p] \in Outcomes

LEMMA GoodOutcomes ==
  /\ {"none", "running", "ok", "replay", "invalid", "unknown_user", "unknown_escrow",
      "insufficient_funds", "deadlock", "unknown"} \subseteq Outcomes
  /\ ChainRequests # {} => "internal" \in Outcomes
BY DEF Outcomes, Statuses

LEMMA OutcomeReturn ==
  ASSUME CashierInv, OutcomesInv, NEW p \in Procs, NEW status \in Outcomes, Return(p, status)
  PROVE  OutcomesInv'
BY DEF CashierInv, TypeOK, OutcomesInv, Return

LEMMA OutcomeKept ==
  ASSUME OutcomesInv, UNCHANGED resp
  PROVE  OutcomesInv'
BY DEF OutcomesInv

(* A release finds in escrow at least what its entry says, if nobody       *)
(* confirms or cancels chain deposits: the books say so.                   *)
LEMMA EntryCovered ==
  ASSUME BooksInv, ChainRequests = {}, NEW o \in Orders, entries[o] # NoEntry
  PROVE  accounts[entries[o].user].escrowed >= entries[o].amount
<1>1. PICK u \in Users : u = entries[o].user
  BY EntryOfType DEF BooksInv, CashierInv, Tables
<1> DEFINE C == {"depositEscrowed"}
           D == {"confirmDeposit", "cancelDeposit"}
<1>2. C \in SUBSET Keyed /\ D \in SUBSET Keyed
  BY DEF Keyed
<1>3. accounts[u].escrowed = Applied(u, C) - Applied(u, D) + HeldFor(u)
  BY DEF BooksInv, BooksBalance
<1>4. Applied(u, D) = 0
  <2>1. AppliedFor(u, D) = {}
    BY DEF AppliedFor, ChainRequests
  <2> QED BY <2>1, TotalEmpty DEF Applied
<1> HIDE DEF C, D
<1>5. Applied(u, C) \in Nat
  BY <1>2, AppliedForType
<1>6. HeldFor(u) \in Nat /\ entries[o].amount <= HeldFor(u) /\ entries[o].amount \in Nat
  BY <1>1, HeldForType
<1> QED BY <1>1, <1>3, <1>4, <1>5, <1>6

(* The UPDATE finds the version it read and passes the table's CHECKs.     *)
LEMMA UpdateOutcome ==
  ASSUME BooksInv, OutcomesInv, NEW p \in Procs,
         WithdrawUpdate(p) \/ EscrowUpdate(p) \/ ReleaseUpdate(p)
  PROVE  OutcomesInv'
<1>1. CashierInv /\ Call(p) /\ pc[p] = "update" /\ req[p] \in Requests
  BY DEF BooksInv, CashierInv, Call, Control, WithdrawUpdate, EscrowUpdate, ReleaseUpdate, VersionedUpdate
<1>2. /\ UserOf(p) \in Users /\ seen[p] = accounts[UserOf(p)] /\ Checked(seen[p])
      /\ seen[p].gross \in Nat /\ seen[p].escrowed \in Nat
      /\ req[p].op \in {"withdraw", "escrow"} => seen[p].gross - seen[p].escrowed >= req[p].amount
  BY <1>1, OwnerType DEF Call, AccountFresh, HasAccount, CashierInv, TypeOK, RowType
<1>3. req[p].op # "release" => req[p].amount \in Nat
  BY <1>1, RequestType
<1>4. ASSUME NEW new, NEW label, VersionedUpdate(p, new, label),
             Checked(new) \/ "internal" \in Outcomes
      PROVE  OutcomesInv'
  <2>1. CASE ~Checked(new)
    <3>1. Return(p, "internal")
      BY <1>2, <1>4, <2>1 DEF VersionedUpdate
    <3> QED BY <1>1, <1>4, <2>1, <3>1, OutcomeReturn
  <2>2. CASE Checked(new)
    BY <1>2, <1>4, <2>2, OutcomeKept DEF VersionedUpdate
  <2> QED BY <2>1, <2>2
<1>5. CASE WithdrawUpdate(p)
  <2>1. req[p].op = "withdraw" /\ VersionedUpdate(p, Plus(seen[p], -req[p].amount, 0), "commit")
    BY <1>5 DEF WithdrawUpdate
  <2>2. Checked(Plus(seen[p], -req[p].amount, 0))
    BY <1>2, <1>3, <2>1 DEF Plus, Checked
  <2> QED BY <1>4, <2>1, <2>2
<1>6. CASE EscrowUpdate(p)
  <2>1. req[p].op = "escrow" /\ VersionedUpdate(p, Plus(seen[p], 0, req[p].amount), "insertEntry")
    BY <1>6 DEF EscrowUpdate
  <2>2. Checked(Plus(seen[p], 0, req[p].amount))
    BY <1>2, <1>3, <2>1 DEF Plus, Checked
  <2> QED BY <1>4, <2>1, <2>2
<1>7. CASE ReleaseUpdate(p)
  <2>1. req[p].op = "release" /\ VersionedUpdate(p, Plus(seen[p], 0, -pre[p].amount), "commit")
    BY <1>7 DEF ReleaseUpdate
  <2>2. /\ entries[req[p].id] = pre[p] /\ EntryOf(req[p].id, pre[p]) /\ req[p].id \in Orders
        /\ UserOf(p) = pre[p].user
    BY <1>1, <2>1, RequestType DEF Call, EntryFresh, HasEntry, UserOf
  <2>3. pre[p].amount \in Nat /\ pre[p] # NoEntry
    BY <2>2, EntryOfType
  <2>4. CASE ChainRequests = {}
    <3>1. seen[p].escrowed >= pre[p].amount
      BY <1>2, <2>2, <2>3, <2>4, EntryCovered
    <3>2. Checked(Plus(seen[p], 0, -pre[p].amount))
      BY <1>2, <2>3, <3>1 DEF Plus, Checked
    <3> QED BY <1>4, <2>1, <3>2
  <2>5. CASE ChainRequests # {}
    BY <1>4, <2>1, <2>5, GoodOutcomes
  <2> QED BY <2>4, <2>5
<1> QED BY <1>5, <1>6, <1>7

LEMMA OutcomesStep == BooksInv /\ OutcomesInv /\ [Next]_vars => OutcomesInv'
<1> SUFFICES ASSUME BooksInv, OutcomesInv, [Next]_vars PROVE OutcomesInv'
  OBVIOUS
<1>1. CashierInv
  BY DEF BooksInv
<1>2. ASSUME NEW p \in Procs, Statement(p) PROVE OutcomesInv'
  <2>1. CASE Replay(p)
    <3>1. pc[p] = "insertKey" /\ Key(req[p]) \in keys
      BY <2>1 DEF Replay
    <3>2. req[p] \in Requests /\ req[p].op \in Keyed
      BY <1>1, <3>1 DEF CashierInv, Call, Control
    <3>3. accounts[req[p].user].exists
      BY <1>1, <3>1, <3>2 DEF CashierInv, Tables
    <3> QED BY <1>1, <2>1, <3>3, OutcomeReturn, GoodOutcomes DEF Replay
  <2>2. CASE InsertKey(p) \/ DepositUpsert(p) \/ DepositEscrowedUpsert(p)
    BY <2>2, OutcomeKept DEF InsertKey, DepositUpsert, DepositEscrowedUpsert, TakeAccount
  <2>3. CASE ConfirmUpdate(p)
    <3>1. pc[p] = "confirmDeposit" /\ pc[p] \in Keyed
      BY <2>3 DEF ConfirmUpdate, Keyed
    <3>2. ChainRequests # {}
      BY <1>1, <3>1, KeyedFacts DEF ChainRequests
    <3>3. CASE Return(p, "unknown_user") \/ Return(p, "internal")
      BY <1>1, <3>2, <3>3, OutcomeReturn, GoodOutcomes
    <3>4. CASE UNCHANGED resp
      BY <3>4, OutcomeKept
    <3> QED BY <2>3, <3>3, <3>4 DEF ConfirmUpdate, TakeAccount
  <2>4. CASE CancelUpdate(p)
    <3>1. CASE Return(p, "insufficient_funds")
      BY <1>1, <3>1, OutcomeReturn, GoodOutcomes
    <3>2. CASE UNCHANGED resp
      BY <3>2, OutcomeKept
    <3> QED BY <2>4, <3>1, <3>2 DEF CancelUpdate, TakeAccount
  <2>5. CASE WithdrawSelect(p) \/ EscrowSelect(p)
    <3>1. CASE Return(p, "insufficient_funds") \/ Return(p, "unknown_user")
      BY <1>1, <3>1, OutcomeReturn, GoodOutcomes
    <3>2. CASE UNCHANGED resp
      BY <3>2, OutcomeKept
    <3> QED BY <2>5, <3>1, <3>2 DEF WithdrawSelect, EscrowSelect, SelectForUpdate, TakeAccount
  <2>6. CASE InsertEntry(p)
    BY <2>6, OutcomeKept DEF InsertEntry
  <2>7. CASE CheckAvailable(p) \/ DeadlockAbort(p)
    BY <1>1, <2>7, OutcomeReturn, GoodOutcomes DEF CheckAvailable, DeadlockAbort
  <2>8. CASE PreRead(p) \/ DeleteEntry(p)
    <3>1. CASE Return(p, "unknown_escrow")
      BY <1>1, <3>1, OutcomeReturn, GoodOutcomes
    <3>2. CASE UNCHANGED resp
      BY <3>2, OutcomeKept
    <3> QED BY <2>8, <3>1, <3>2 DEF PreRead, DeleteEntry
  <2>9. CASE SelectOwner(p)
    <3>1. Call(p) /\ req[p].op = "release" /\ pc[p] = "selectOwner" /\ req[p] \in Requests
      BY <1>1, <2>9 DEF SelectOwner, CashierInv, Call, Control
    <3>2. entries[req[p].id] = pre[p] /\ EntryOf(req[p].id, pre[p]) /\ req[p].id \in Orders
      BY <3>1, RequestType DEF Call, EntryFresh, HasEntry
    <3>3. pre[p] # NoEntry
      BY <3>2, EntryOfType
    <3>4. accounts[pre[p].user].exists
      BY <1>1, <3>2, <3>3 DEF CashierInv, Tables
    <3> QED BY <2>9, <3>4, OutcomeKept DEF SelectOwner, TakeAccount
  <2>10. ASSUME NEW status \in {"ok", "unknown"}, Commit(p, status) PROVE OutcomesInv'
    BY <1>1, <2>10, GoodOutcomes DEF Commit, CashierInv, TypeOK, OutcomesInv
  <2> QED BY <1>2, <2>1, <2>2, <2>3, <2>4, <2>5, <2>6, <2>7, <2>8, <2>9, <2>10, UpdateOutcome DEF Statement
<1>3. ASSUME NEW p \in Procs, Fail(p) PROVE OutcomesInv'
  BY <1>1, <1>3, OutcomeReturn, GoodOutcomes DEF Fail
<1>4. ASSUME NEW p \in Procs, NEW r \in Requests, Invoke(p, r) PROVE OutcomesInv'
  BY <1>1, <1>4, GoodOutcomes DEF Invoke, CashierInv, TypeOK, OutcomesInv
<1>5. CASE UNCHANGED vars
  BY <1>5, OutcomeKept DEF vars
<1> QED BY <1>2, <1>3, <1>4, <1>5 DEF Next

LEMMA OutcomesAlways == Spec => []OutcomesInv
<1>1. Init => OutcomesInv
  BY GoodOutcomes DEF Init, OutcomesInv
<1> QED BY <1>1, OutcomesStep, BooksInvariant, PTL DEF Spec

(* The row locks do the work of the version column: whatever the requests, *)
(* no UPDATE ever finds another version than the SELECT before it.         *)
THEOREM VersionsMatch == Spec => [](\A p \in Procs : resp[p] # "concurrent_modification")
<1>1. OutcomesInv => \A p \in Procs : resp[p] # "concurrent_modification"
  BY DEF OutcomesInv, Outcomes
<1> QED BY <1>1, OutcomesAlways, PTL

(* If no client confirms or cancels chain deposits, no call ends with an   *)
(* internal error: a release finds its money in escrow and its owner's     *)
(* account, and a replayed key finds the account it was applied to.        *)
THEOREM NoInternalErrors ==
  ASSUME \A r \in Requests : r.op \notin {"confirmDeposit", "cancelDeposit"}
  PROVE  Spec => []NoInternalError
<1>1. ChainRequests = {}
  BY DEF ChainRequests
<1>2. OutcomesInv => NoInternalError
  BY <1>1 DEF OutcomesInv, Outcomes, NoInternalError
<1> QED BY <1>2, OutcomesAlways, PTL

-----------------------------------------------------------------------------
(***************************************************************************)
(* The fake of the tests proved to answer as the cashier does.  A fake     *)
(* state is made of the ledger's balances, the entries and the keys; every *)
(* operation of the fake rebuilds it from these three.                     *)
(***************************************************************************)

Fake(A, E, K) == [accounts |-> A, escrows |-> E, keys |-> K]
Row(x, g, e)  == [exists |-> x, gross |-> g, escrowed |-> e]

(* B is A with row x for user u. *)
Sets(B, A, u, x) == B = [A EXCEPT ![u] = x]

(* getOrCreate, adding and remembering, on a state given by its parts. *)
LEMMA CreateFake ==
  ASSUME NEW A, NEW B, NEW E, NEW K, NEW u,
         Sets(B, A, u, Row(TRUE, A[u].gross, A[u].escrowed))
  PROVE  getOrCreate(Fake(A, E, K), u) = Fake(B, E, K)
<1>1. PICK x : x = Row(TRUE, A[u].gross, A[u].escrowed)
  OBVIOUS
<1>2. getOrCreate(Fake(A, E, K), u) = [Fake(A, E, K) EXCEPT !.accounts[u] = x]
  BY <1>1 DEF getOrCreate, Fake, Row
<1> QED BY <1>1, <1>2 DEF Fake, Sets

LEMMA AddFake ==
  ASSUME NEW A, NEW B, NEW E, NEW K, NEW u, NEW g, NEW e,
         Sets(B, A, u, Row(A[u].exists, A[u].gross + g, A[u].escrowed + e))
  PROVE  Add(Fake(A, E, K), u, g, e) = Fake(B, E, K)
<1>1. PICK x : x = Row(A[u].exists, A[u].gross + g, A[u].escrowed + e)
  OBVIOUS
<1>2. Add(Fake(A, E, K), u, g, e) = [Fake(A, E, K) EXCEPT !.accounts[u] = x]
  BY <1>1 DEF Add, Fake, Row
<1> QED BY <1>1, <1>2 DEF Fake, Sets

LEMMA CreateAddFake ==
  ASSUME NEW A, DOMAIN A = Users, NEW B, NEW E, NEW K, NEW u \in Users, NEW g, NEW e,
         Sets(B, A, u, Row(TRUE, A[u].gross + g, A[u].escrowed + e))
  PROVE  Add(getOrCreate(Fake(A, E, K), u), u, g, e) = Fake(B, E, K)
<1>1. PICK x : x = Row(TRUE, A[u].gross, A[u].escrowed)
  OBVIOUS
<1>2. PICK y : y = Row(TRUE, A[u].gross + g, A[u].escrowed + e)
  OBVIOUS
<1>3. PICK A1 : Sets(A1, A, u, x)
  BY DEF Sets
<1>4. getOrCreate(Fake(A, E, K), u) = Fake(A1, E, K)
  BY <1>1, <1>3, CreateFake DEF Row
<1>5. A1[u] = x
  BY <1>3 DEF Sets
<1>6. Row(A1[u].exists, A1[u].gross + g, A1[u].escrowed + e) = y
  BY <1>1, <1>2, <1>5 DEF Row
<1>7. Sets(B, A1, u, y)
  BY <1>2, <1>3 DEF Sets
<1>8. Add(Fake(A1, E, K), u, g, e) = Fake(B, E, K)
  BY <1>6, <1>7, AddFake
<1> QED BY <1>4, <1>8

LEMMA RememberFake ==
  ASSUME NEW A, NEW E, NEW K, NEW k
  PROVE  Remember(Fake(A, E, K), k) = Fake(A, E, K \cup {k})
BY DEF Remember, Fake

LEMMA EntryFake ==
  ASSUME NEW A, NEW E, NEW K, NEW o, NEW x
  PROVE  [Fake(A, E, K) EXCEPT !.escrows[o] = x] = Fake(A, [E EXCEPT ![o] = x], K)
BY DEF Fake

(* The fake with what the tables hold, part by part. *)
LEMMA MirrorParts ==
  /\ Mirror = Fake(Balance, entries, keys)
  /\ Mirror' = Fake(Balance', entries', keys')
  /\ Mirror.keys = keys /\ Mirror.escrows = entries /\ Mirror.accounts = Balance
  /\ DOMAIN Balance = Users
  /\ \A u \in Users : Mirror.accounts[u] = Row(accounts[u].exists, accounts[u].gross, accounts[u].escrowed)
<1>1. Mirror = Fake(Balance, entries, keys) /\ Mirror' = Fake(Balance', entries', keys')
  BY DEF Mirror, Fake, Balance
<1>2. Mirror.keys = keys /\ Mirror.escrows = entries /\ Mirror.accounts = Balance
  BY <1>1 DEF Fake
<1>3. DOMAIN Balance = Users
  BY DEF Balance
<1>4. ASSUME NEW u \in Users
      PROVE  Mirror.accounts[u] = Row(accounts[u].exists, accounts[u].gross, accounts[u].escrowed)
  BY <1>2 DEF Balance, Row
<1> QED BY <1>1, <1>2, <1>3, <1>4

(* What FakeAgrees says of one call: Settles and Matches, one name each. *)
Matches(p) ==
  LET answer == FakeCall(Mirror, req[p])
  IN  /\ answer.state = Mirror'
      /\ \/ answer.status = resp'[p]
         \/ answer.status = "ok" /\ resp'[p] \in {"unknown", "running"}

Agrees(p) == Settles(p) /\ ~FakeDiffers(req[p]) => Matches(p)

(* A request with a good amount reaches the operation it names. *)
LEMMA FakeDispatch ==
  ASSUME NEW f, NEW r, r.op # "release" => r.amount \in Nat /\ r.amount > 0
  PROVE  /\ r.op = "deposit"         => FakeCall(f, r) = FakeDeposit(f, r)
         /\ r.op = "withdraw"        => FakeCall(f, r) = FakeWithdraw(f, r)
         /\ r.op = "escrow"          => FakeCall(f, r) = FakeEscrow(f, r)
         /\ r.op = "release"         => FakeCall(f, r) = FakeReleaseEscrow(f, r)
         /\ r.op = "depositEscrowed" => FakeCall(f, r) = FakeDepositEscrowed(f, r)
         /\ r.op = "confirmDeposit"  => FakeCall(f, r) = FakeConfirmDeposit(f, r)
         /\ r.op = "cancelDeposit"   => FakeCall(f, r) = FakeCancelDeposit(f, r)
<1>1. ~(r.op # "release" /\ r.amount <= 0)
  OBVIOUS
<1> QED BY <1>1 DEF FakeCall

(* An answer that leaves the fake as it is. *)
LEMMA SameAnswer ==
  ASSUME NEW p \in Procs, UNCHANGED tables, NEW status,
         FakeCall(Mirror, req[p]) = Answer(status, Mirror),
         \/ status = resp'[p]
         \/ status = "ok" /\ resp'[p] \in {"unknown", "running"}
  PROVE  Matches(p)
<1>1. Mirror' = Mirror
  BY DEF Mirror, tables
<1>2. FakeCall(Mirror, req[p]).state = Mirror /\ FakeCall(Mirror, req[p]).status = status
  BY DEF Answer
<1> QED BY <1>1, <1>2 DEF Matches

(* A call that returns without a commit, if the fake refuses it alike. *)
LEMMA ReturnAgrees ==
  ASSUME CashierInv, NEW p \in Procs, NEW status \in Statuses, Return(p, status),
         \/ status \in {"deadlock", "unknown"}
         \/ FakeDiffers(req[p])
         \/ FakeCall(Mirror, req[p]) = Answer(status, Mirror)
  PROVE  Agrees(p)
<1>1. UNCHANGED tables /\ resp'[p] = status /\ pc'[p] = "idle"
  BY DEF Return, CashierInv, TypeOK
<1>2. CASE status \in {"deadlock", "unknown"}
  BY <1>1, <1>2 DEF Agrees, Settles
<1>3. CASE FakeDiffers(req[p])
  BY <1>3 DEF Agrees
<1>4. CASE FakeCall(Mirror, req[p]) = Answer(status, Mirror)
  BY <1>1, <1>4, SameAnswer DEF Agrees
<1> QED BY <1>2, <1>3, <1>4

(* A statement that leaves the call running settles nothing, but for the   *)
(* duplicate of an escrow.                                                 *)
LEMMA RunningAgrees ==
  ASSUME NEW p \in Procs, resp'[p] = resp[p], pc[p] # "insertEntry" \/ pc'[p] # "checkAvailable"
  PROVE  Agrees(p)
BY DEF Agrees, Settles

(* Creating an account that exists changes nothing. *)
LEMMA CreateExisting ==
  ASSUME CashierInv, NEW u \in Users, accounts[u].exists
  PROVE  getOrCreate(Mirror, u) = Mirror
<1>1. accounts[u] \in RowType
  BY DEF CashierInv, TypeOK
<1>2. Balance[u] = Row(TRUE, Balance[u].gross, Balance[u].escrowed)
  BY <1>1 DEF Balance, Row, RowType
<1>3. Sets(Balance, Balance, u, Row(TRUE, Balance[u].gross, Balance[u].escrowed))
  <2>1. PICK x : x = Row(TRUE, Balance[u].gross, Balance[u].escrowed)
    OBVIOUS
  <2>2. Balance = [Balance EXCEPT ![u] = x]
    BY <1>2, <2>1, MirrorParts DEF Balance
  <2> QED BY <2>1, <2>2 DEF Sets
<1> QED BY <1>3, CreateFake, MirrorParts DEF Row

-----------------------------------------------------------------------------
(* Calls that end without a commit *)

(* What the fake reads of an account. *)
LEMMA MirrorRow ==
  ASSUME CashierInv, NEW u \in Users
  PROVE  /\ Mirror.accounts[u].exists = accounts[u].exists
         /\ Mirror.accounts[u].gross = accounts[u].gross /\ accounts[u].gross \in Nat
         /\ Mirror.accounts[u].escrowed = accounts[u].escrowed /\ accounts[u].escrowed \in Nat
         /\ Spare(Mirror, u) = accounts[u].gross - accounts[u].escrowed
<1>1. accounts[u] \in RowType
  BY DEF CashierInv, TypeOK
<1>2. Mirror.accounts[u] = Row(accounts[u].exists, accounts[u].gross, accounts[u].escrowed)
  BY MirrorParts
<1> QED BY <1>1, <1>2 DEF Row, RowType, Spare

(* A call in flight has a request the fake accepts. *)
LEMMA RequestInFlight ==
  ASSUME CashierInv, NEW p \in Procs, pc[p] # "idle"
  PROVE  /\ req[p] \in Requests
         /\ req[p].op # "release" =>
              req[p].amount \in Nat /\ req[p].amount > 0 /\ req[p].user \in Users
         /\ Control(p)
<1>1. req[p] \in Requests /\ (req[p].op # "release" => req[p].amount > 0) /\ Control(p)
  BY DEF CashierInv, Call, Control
<1> QED BY <1>1, RequestType

(* A replay: the fake knows the key too. *)
LEMMA ReplayAgrees ==
  ASSUME CashierInv, NEW p \in Procs, Replay(p)
  PROVE  Agrees(p)
<1>1. /\ pc[p] = "insertKey" /\ Key(req[p]) \in keys
      /\ Return(p, IF accounts[req[p].user].exists THEN "replay" ELSE "internal")
  BY DEF Replay
<1>2. req[p] \in Requests /\ req[p].op \in Keyed /\ req[p].op # "release"
  BY <1>1, RequestInFlight DEF Control, Keyed
<1>3. /\ req[p].amount \in Nat /\ req[p].amount > 0 /\ req[p].user \in Users
      /\ accounts[req[p].user].exists
  BY <1>1, <1>2, RequestInFlight DEF CashierInv, Tables
<1>4. getOrCreate(Mirror, req[p].user) = Mirror /\ Key(req[p]) \in Mirror.keys
  BY <1>1, <1>3, CreateExisting, MirrorParts
<1>5. FakeCall(Mirror, req[p]) = Answer("replay", Mirror)
  <2>1. /\ FakeDeposit(Mirror, req[p]) = Answer("replay", Mirror)
        /\ FakeDepositEscrowed(Mirror, req[p]) = Answer("replay", Mirror)
    BY <1>4 DEF FakeDeposit, FakeDepositEscrowed
  <2>2. /\ FakeWithdraw(Mirror, req[p]) = Answer("replay", Mirror)
        /\ FakeConfirmDeposit(Mirror, req[p]) = Answer("replay", Mirror)
        /\ FakeCancelDeposit(Mirror, req[p]) = Answer("replay", Mirror)
    BY <1>4 DEF FakeWithdraw, FakeConfirmDeposit, FakeCancelDeposit
  <2>3. req[p].op # "release" => req[p].amount \in Nat /\ req[p].amount > 0
    BY <1>3
  <2> QED BY <1>2, <2>1, <2>2, <2>3, FakeDispatch DEF Keyed
<1>6. Return(p, "replay")
  BY <1>1, <1>3
<1> QED BY <1>5, <1>6, ReturnAgrees DEF Statuses

(* ConfirmDeposit refused: no account, or less in escrow than it confirms. *)
LEMMA ConfirmAgrees ==
  ASSUME CashierInv, NEW p \in Procs, ConfirmUpdate(p)
  PROVE  Agrees(p)
<1>1. pc[p] = "confirmDeposit" /\ pc[p] \in Keyed
  BY DEF ConfirmUpdate, Keyed
<1>2. /\ req[p].op = "confirmDeposit" /\ req[p].user \in Users /\ Key(req[p]) \notin keys
      /\ req[p].amount \in Nat /\ req[p].amount > 0
  BY <1>1, RequestInFlight DEF Control, CashierInv, Call, KeyFresh, HasKey
<1>3. CASE ~accounts[req[p].user].exists /\ Return(p, "unknown_user")
  <2>1. FakeConfirmDeposit(Mirror, req[p]) = Answer("unknown_user", Mirror)
    BY <1>2, <1>3, MirrorParts, MirrorRow DEF FakeConfirmDeposit
  <2>2. FakeCall(Mirror, req[p]) = Answer("unknown_user", Mirror)
    BY <1>2, <2>1, FakeDispatch
  <2> QED BY <1>3, <2>2, ReturnAgrees DEF Statuses
<1>4. CASE Return(p, "internal") /\ ~Checked(Plus(accounts[req[p].user], 0, -req[p].amount))
  <2>1. accounts[req[p].user] \in RowType /\ Checked(accounts[req[p].user])
    BY <1>2 DEF CashierInv, TypeOK, Tables
  <2>2. accounts[req[p].user].escrowed < req[p].amount
    BY <1>2, <1>4, <2>1 DEF Checked, Plus, RowType
  <2>3. FakeDiffers(req[p])
    BY <1>2, <2>2 DEF FakeDiffers
  <2> QED BY <1>4, <2>3, ReturnAgrees DEF Statuses
<1>5. CASE UNCHANGED resp
  BY <1>1, <1>5, RunningAgrees
<1> QED BY <1>3, <1>4, <1>5 DEF ConfirmUpdate, TakeAccount

(* CancelDeposit refused: less in escrow than it cancels. *)
LEMMA CancelAgrees ==
  ASSUME CashierInv, NEW p \in Procs, CancelUpdate(p)
  PROVE  Agrees(p)
<1>1. pc[p] = "cancelDeposit" /\ pc[p] \in Keyed
  BY DEF CancelUpdate, Keyed
<1>2. /\ req[p].op = "cancelDeposit" /\ req[p].user \in Users /\ Key(req[p]) \notin keys
      /\ req[p].amount \in Nat /\ req[p].amount > 0
  BY <1>1, RequestInFlight DEF Control, CashierInv, Call, KeyFresh, HasKey
<1>3. CASE /\ ~(accounts[req[p].user].exists /\ accounts[req[p].user].escrowed >= req[p].amount)
           /\ Return(p, "insufficient_funds")
  <2>1. CASE ~accounts[req[p].user].exists
    <3>1. FakeDiffers(req[p])
      BY <1>2, <2>1 DEF FakeDiffers
    <3> QED BY <1>3, <3>1, ReturnAgrees DEF Statuses
  <2>2. CASE accounts[req[p].user].exists
    <3>0. Mirror.accounts[req[p].user].escrowed < req[p].amount
      BY <1>2, <1>3, <2>2, MirrorRow
    <3>1. FakeCancelDeposit(Mirror, req[p]) = Answer("insufficient_funds", Mirror)
      BY <1>2, <2>2, <3>0, MirrorParts, MirrorRow DEF FakeCancelDeposit
    <3>2. FakeCall(Mirror, req[p]) = Answer("insufficient_funds", Mirror)
      BY <1>2, <3>1, FakeDispatch
    <3> QED BY <1>3, <3>2, ReturnAgrees DEF Statuses
  <2> QED BY <2>1, <2>2
<1>4. CASE UNCHANGED resp
  BY <1>1, <1>4, RunningAgrees
<1> QED BY <1>3, <1>4 DEF CancelUpdate, TakeAccount

(* Withdraw and Escrow refused.  The fake's escrow looks for the order     *)
(* first: one that is held has an owner with an account.                   *)
LEMMA SelectAgrees ==
  ASSUME CashierInv, NEW p \in Procs, WithdrawSelect(p) \/ EscrowSelect(p)
  PROVE  Agrees(p)
<1>1. pc[p] \in {"withdraw", "select"} /\ SelectForUpdate(p)
  BY DEF WithdrawSelect, EscrowSelect
<1>2. /\ req[p] \in Requests /\ req[p].op \in {"withdraw", "escrow"}
      /\ req[p].user \in Users /\ req[p].amount \in Nat /\ req[p].amount > 0
  BY <1>1, RequestInFlight DEF Control, Keyed
<1>3. req[p].op = "withdraw" => Key(req[p]) \notin keys
  BY <1>1, <1>2 DEF CashierInv, Call, Control, KeyFresh, HasKey, Keyed
<1>4. CASE ~accounts[req[p].user].exists /\ Return(p, "unknown_user")
  <2>1. req[p].op = "escrow" => entries[req[p].id] = NoEntry
    <3> SUFFICES ASSUME req[p].op = "escrow", entries[req[p].id] # NoEntry PROVE FALSE
      OBVIOUS
    <3>1. req[p].id \in Orders
      BY <1>2, RequestType
    <3>2. EntryOf(req[p].id, entries[req[p].id]) /\ accounts[entries[req[p].id].user].exists
      BY <3>1 DEF CashierInv, Tables
    <3>3. PICK r \in Requests : /\ r.op = "escrow" /\ r.id = req[p].id
                                /\ entries[req[p].id] = [user |-> r.user, amount |-> r.amount]
      BY <3>2 DEF EntryOf
    <3>4. r = req[p]
      BY <1>2, <3>3, OrdersAssumption
    <3>5. entries[req[p].id].user = req[p].user
      BY <3>3, <3>4
    <3> QED BY <1>4, <3>2, <3>5
  <2>2. req[p].op = "withdraw" => FakeWithdraw(Mirror, req[p]) = Answer("unknown_user", Mirror)
    BY <1>2, <1>3, <1>4, MirrorParts, MirrorRow DEF FakeWithdraw
  <2>3. req[p].op = "escrow" => FakeEscrow(Mirror, req[p]) = Answer("unknown_user", Mirror)
    BY <1>2, <1>4, <2>1, MirrorParts, MirrorRow DEF FakeEscrow
  <2>4. FakeCall(Mirror, req[p]) = Answer("unknown_user", Mirror)
    BY <1>2, <2>2, <2>3, FakeDispatch
  <2> QED BY <1>4, <2>4, ReturnAgrees DEF Statuses
<1>5. CASE /\ accounts[req[p].user].exists /\ Return(p, "insufficient_funds")
           /\ accounts[req[p].user].gross - accounts[req[p].user].escrowed < req[p].amount
  <2>1. Spare(Mirror, req[p].user) < req[p].amount
    BY <1>2, <1>5, MirrorRow
  <2>2. CASE req[p].op = "escrow" /\ entries[req[p].id] # NoEntry
    <3>1. FakeDiffers(req[p])
      BY <2>1, <2>2 DEF FakeDiffers
    <3> QED BY <1>5, <3>1, ReturnAgrees DEF Statuses
  <2>3. CASE ~(req[p].op = "escrow" /\ entries[req[p].id] # NoEntry)
    <3>1. req[p].op = "withdraw" => FakeWithdraw(Mirror, req[p]) = Answer("insufficient_funds", Mirror)
      BY <1>2, <1>3, <1>5, <2>1, MirrorParts, MirrorRow DEF FakeWithdraw
    <3>2. req[p].op = "escrow" => FakeEscrow(Mirror, req[p]) = Answer("insufficient_funds", Mirror)
      BY <1>2, <1>5, <2>1, <2>3, MirrorParts, MirrorRow DEF FakeEscrow
    <3>3. FakeCall(Mirror, req[p]) = Answer("insufficient_funds", Mirror)
      BY <1>2, <3>1, <3>2, FakeDispatch
    <3> QED BY <1>5, <3>3, ReturnAgrees DEF Statuses
  <2> QED BY <2>2, <2>3
<1>6. CASE UNCHANGED resp
  BY <1>1, <1>6, RunningAgrees
<1> QED BY <1>1, <1>4, <1>5, <1>6 DEF SelectForUpdate, TakeAccount

(* The UPDATEs: the version is the one that was read, and the CHECK fails  *)
(* only for a release of more than is in escrow.                           *)
LEMMA UpdatesAgree ==
  ASSUME CashierInv, NEW p \in Procs, WithdrawUpdate(p) \/ EscrowUpdate(p) \/ ReleaseUpdate(p)
  PROVE  Agrees(p)
<1>1. Call(p) /\ pc[p] = "update" /\ req[p] \in Requests
  BY DEF CashierInv, Call, Control, WithdrawUpdate, EscrowUpdate, ReleaseUpdate, VersionedUpdate
<1>2. /\ UserOf(p) \in Users /\ seen[p] = accounts[UserOf(p)] /\ Checked(seen[p])
      /\ seen[p].gross \in Nat /\ seen[p].escrowed \in Nat
      /\ req[p].op \in {"withdraw", "escrow"} => seen[p].gross - seen[p].escrowed >= req[p].amount
  BY <1>1, OwnerType DEF Call, AccountFresh, HasAccount, CashierInv, TypeOK, RowType
<1>3. req[p].op # "release" => req[p].amount \in Nat
  BY <1>1, RequestType
<1>4. ASSUME NEW new, NEW label, VersionedUpdate(p, new, label), Checked(new) \/ FakeDiffers(req[p])
      PROVE  Agrees(p)
  <2>1. CASE ~Checked(new)
    <3>1. Return(p, "internal")
      BY <1>2, <1>4, <2>1 DEF VersionedUpdate
    <3> QED BY <1>4, <2>1, <3>1, ReturnAgrees DEF Statuses
  <2>2. CASE Checked(new)
    <3>1. UNCHANGED resp
      BY <1>2, <1>4, <2>2 DEF VersionedUpdate
    <3> QED BY <1>1, <3>1, RunningAgrees
  <2> QED BY <2>1, <2>2
<1>5. CASE WithdrawUpdate(p)
  <2>1. req[p].op = "withdraw" /\ VersionedUpdate(p, Plus(seen[p], -req[p].amount, 0), "commit")
    BY <1>5 DEF WithdrawUpdate
  <2>2. Checked(Plus(seen[p], -req[p].amount, 0))
    BY <1>2, <1>3, <2>1 DEF Plus, Checked
  <2> QED BY <1>4, <2>1, <2>2
<1>6. CASE EscrowUpdate(p)
  <2>1. req[p].op = "escrow" /\ VersionedUpdate(p, Plus(seen[p], 0, req[p].amount), "insertEntry")
    BY <1>6 DEF EscrowUpdate
  <2>2. Checked(Plus(seen[p], 0, req[p].amount))
    BY <1>2, <1>3, <2>1 DEF Plus, Checked
  <2> QED BY <1>4, <2>1, <2>2
<1>7. CASE ReleaseUpdate(p)
  <2>1. req[p].op = "release" /\ VersionedUpdate(p, Plus(seen[p], 0, -pre[p].amount), "commit")
    BY <1>7 DEF ReleaseUpdate
  <2>2. /\ entries[req[p].id] = pre[p] /\ EntryOf(req[p].id, pre[p]) /\ req[p].id \in Orders
        /\ UserOf(p) = pre[p].user
    BY <1>1, <2>1, RequestType DEF Call, EntryFresh, HasEntry, UserOf
  <2>3. pre[p].amount \in Nat /\ pre[p] # NoEntry
    BY <2>2, EntryOfType
  <2>4. CASE seen[p].escrowed >= pre[p].amount
    <3>1. Checked(Plus(seen[p], 0, -pre[p].amount))
      BY <1>2, <2>3, <2>4 DEF Plus, Checked
    <3> QED BY <1>4, <2>1, <3>1
  <2>5. CASE seen[p].escrowed < pre[p].amount
    <3>1. FakeDiffers(req[p])
      BY <1>2, <2>1, <2>2, <2>3, <2>5 DEF FakeDiffers
    <3> QED BY <1>4, <2>1, <3>1
  <2> QED BY <1>2, <2>3, <2>4, <2>5
<1> QED BY <1>5, <1>6, <1>7

(* An escrow that finds its entry is a retry for both. *)
LEMMA InsertEntryAgrees ==
  ASSUME CashierInv, NEW p \in Procs, InsertEntry(p), resp[p] = "running"
  PROVE  Agrees(p)
<1>1. pc[p] = "insertEntry"
  BY DEF InsertEntry
<1>2. req[p].op = "escrow" /\ req[p].amount \in Nat /\ req[p].amount > 0
  BY <1>1, RequestInFlight DEF Control
<1>3. CASE entries[req[p].id] = NoEntry
  <2>1. UNCHANGED resp /\ pc'[p] = "commit"
    BY <1>3 DEF InsertEntry, Goto, CashierInv, TypeOK
  <2> QED BY <2>1, RunningAgrees
<1>4. CASE entries[req[p].id] # NoEntry
  <2>1. UNCHANGED tables /\ UNCHANGED resp
    BY <1>4 DEF InsertEntry
  <2>2. FakeEscrow(Mirror, req[p]) = Answer("ok", Mirror)
    BY <1>4, MirrorParts DEF FakeEscrow
  <2>3. FakeCall(Mirror, req[p]) = Answer("ok", Mirror)
    BY <1>2, <2>2, FakeDispatch
  <2> QED BY <2>1, <2>3, SameAnswer DEF Agrees
<1> QED BY <1>3, <1>4

(* A release that finds no entry, before or in its transaction, and the    *)
(* account of one that does.                                               *)
LEMMA ReleaseAgrees ==
  ASSUME CashierInv, NEW p \in Procs, PreRead(p) \/ DeleteEntry(p) \/ SelectOwner(p)
  PROVE  Agrees(p)
<1>1. pc[p] \in {"preRead", "deleteEntry", "selectOwner"}
  BY DEF PreRead, DeleteEntry, SelectOwner
<1>2. req[p].op = "release" /\ req[p] \in Requests /\ req[p].id \in Orders
  BY <1>1, RequestInFlight, RequestType DEF Control
<1>3. CASE entries[req[p].id] = NoEntry /\ Return(p, "unknown_escrow")
  <2>1. FakeReleaseEscrow(Mirror, req[p]) = Answer("unknown_escrow", Mirror)
    BY <1>3, MirrorParts DEF FakeReleaseEscrow
  <2>2. FakeCall(Mirror, req[p]) = Answer("unknown_escrow", Mirror)
    BY <1>2, <2>1, FakeDispatch
  <2> QED BY <1>3, <2>2, ReturnAgrees DEF Statuses
<1>4. CASE UNCHANGED resp
  BY <1>1, <1>4, RunningAgrees
<1>5. CASE SelectOwner(p)
  <2>1. entries[req[p].id] = pre[p] /\ EntryOf(req[p].id, pre[p])
    BY <1>2, <1>5 DEF SelectOwner, CashierInv, Call, EntryFresh, HasEntry
  <2>2. pre[p] # NoEntry
    BY <2>1, EntryOfType
  <2>3. accounts[pre[p].user].exists
    BY <1>2, <2>1, <2>2 DEF CashierInv, Tables
  <2> QED BY <1>4, <1>5, <2>3 DEF SelectOwner, TakeAccount
<1> QED BY <1>3, <1>4, <1>5 DEF PreRead, DeleteEntry

-----------------------------------------------------------------------------
(* Commits *)

(* What a commit leaves behind is what the fake makes of the same call. *)
LEMMA FakeCommits ==
  ASSUME CashierInv, NEW p \in Procs, NEW status, Commit(p, status)
  PROVE  FakeCall(Mirror, req[p]) = Answer("ok", Mirror')
<1>1. PICK r : r = req[p]
  OBVIOUS
<1>2. pc[p] = "commit" /\ Call(p) /\ r \in Requests /\ r.op \in Keyed \cup {"escrow", "release"}
  BY <1>1, CommitEffect, CommitFacts DEF CashierInv
<1>3. PICK u \in Users : u = UserOf(p)
  BY <1>2, CommitFacts
<1>4. /\ r.op # "release" => r.amount \in Nat /\ r.amount > 0 /\ r.user = u
      /\ r.op = "release" => pre[p].user = u
  BY <1>1, <1>2, <1>3, CommitFacts DEF UserOf
<1>5. /\ r.op \in Keyed => Key(r) \notin keys /\ keys' = keys \cup {Key(r)} /\ entries' = entries
      /\ r.op = "escrow" => /\ keys' = keys /\ entries[r.id] = NoEntry
                            /\ entries' = [entries EXCEPT ![r.id] = [user |-> r.user, amount |-> r.amount]]
      /\ r.op = "release" => /\ keys' = keys /\ entries[r.id] = pre[p] /\ pre[p] # NoEntry
                             /\ pre[p].amount \in Nat
                             /\ entries' = [entries EXCEPT ![r.id] = NoEntry]
  BY <1>1, <1>2, CommitFacts, EntryOfType DEF Commit, Keyed
<1>6. /\ r.op \notin {"deposit", "depositEscrowed"} => accounts[u].exists
      /\ r.op \in {"withdraw", "escrow"} => accounts[u].gross - accounts[u].escrowed >= r.amount
      /\ Checked(seen[p]) /\ seen[p] = Written(p)
  BY <1>1, <1>2, <1>3 DEF Call, AccountFresh, HasAccount
<1>7. accounts[u] \in RowType /\ Balance[u] = Row(accounts[u].exists, accounts[u].gross, accounts[u].escrowed)
  BY DEF CashierInv, TypeOK, Balance, Row
<1>8. ASSUME NEW g \in Int, NEW e \in Int, Written(p) = Plus(accounts[UserOf(p)], g, e)
      PROVE  /\ Sets(Balance', Balance, u, Row(TRUE, Balance[u].gross + g, Balance[u].escrowed + e))
             /\ accounts[u].exists =>
                  Sets(Balance', Balance, u, Row(Balance[u].exists, Balance[u].gross + g, Balance[u].escrowed + e))
  <2>1. Moves(u, g, e)
    BY <1>3, <1>8, CommitMoves
  <2>2. Sets(Balance', Balance, u, Row(TRUE, Balance[u].gross + g, Balance[u].escrowed + e))
    BY <2>1 DEF Moves, Sets, Row
  <2>3. accounts[u].exists => Balance[u].exists = TRUE
    BY <1>7 DEF Row, RowType
  <2>4. accounts[u].exists =>
          Sets(Balance', Balance, u, Row(Balance[u].exists, Balance[u].gross + g, Balance[u].escrowed + e))
    BY <2>2, <2>3 DEF Row
  <2> QED BY <2>2, <2>4
<1>9. ASSUME NEW g \in Int, NEW e \in Int, Written(p) = Plus(accounts[UserOf(p)], g, e)
      PROVE  /\ Add(getOrCreate(Mirror, u), u, g, e) = Fake(Balance', entries, keys)
             /\ accounts[u].exists => Add(Mirror, u, g, e) = Fake(Balance', entries, keys)
  <2>1. PICK A, B, E, K : A = Balance /\ B = Balance' /\ E = entries /\ K = keys
    OBVIOUS
  <2>2. DOMAIN A = Users /\ Mirror = Fake(A, E, K)
    BY <2>1, MirrorParts
  <2>3. Sets(B, A, u, Row(TRUE, A[u].gross + g, A[u].escrowed + e))
    BY <1>8, <1>9, <2>1 DEF Row
  <2>4. accounts[u].exists => Sets(B, A, u, Row(A[u].exists, A[u].gross + g, A[u].escrowed + e))
    BY <1>8, <1>9, <2>1
  <2>5. Add(getOrCreate(Fake(A, E, K), u), u, g, e) = Fake(B, E, K)
    BY <2>2, <2>3, CreateAddFake DEF Row
  <2>6. accounts[u].exists => Add(Fake(A, E, K), u, g, e) = Fake(B, E, K)
    BY <2>4, AddFake
  <2> QED BY <2>1, <2>2, <2>5, <2>6
<1>10. r.op \in Keyed => Remember(Fake(Balance', entries, keys), Key(r)) = Mirror'
  BY <1>5, RememberFake, MirrorParts
<1>11. r.op # "release" => r.amount \in Int /\ -r.amount \in Int /\ 0 \in Int
  BY <1>4
<1>12. CASE r.op = "deposit"
  <2>1. Add(getOrCreate(Mirror, u), u, r.amount, 0) = Fake(Balance', entries, keys)
    BY <1>1, <1>9, <1>11, <1>12 DEF Written
  <2>2. FakeDeposit(Mirror, r) = Answer("ok", Mirror')
    BY <1>4, <1>5, <1>10, <1>12, <2>1, MirrorParts DEF FakeDeposit, Keyed
  <2> QED BY <1>1, <1>4, <1>12, <2>2, FakeDispatch
<1>13. CASE r.op = "depositEscrowed"
  <2>1. Add(getOrCreate(Mirror, u), u, r.amount, r.amount) = Fake(Balance', entries, keys)
    BY <1>1, <1>9, <1>11, <1>13 DEF Written
  <2>2. FakeDepositEscrowed(Mirror, r) = Answer("ok", Mirror')
    BY <1>4, <1>5, <1>10, <1>13, <2>1, MirrorParts DEF FakeDepositEscrowed, Keyed
  <2> QED BY <1>1, <1>4, <1>13, <2>2, FakeDispatch
<1>14. CASE r.op = "withdraw"
  <2>1. Add(Mirror, u, -r.amount, 0) = Fake(Balance', entries, keys)
    BY <1>1, <1>6, <1>9, <1>11, <1>14 DEF Written
  <2>2. Mirror.accounts[u].exists /\ ~(Spare(Mirror, u) < r.amount)
    BY <1>4, <1>6, <1>14, MirrorRow
  <2>3. FakeWithdraw(Mirror, r) = Answer("ok", Mirror')
    BY <1>4, <1>5, <1>10, <1>14, <2>1, <2>2, MirrorParts DEF FakeWithdraw, Keyed
  <2> QED BY <1>1, <1>4, <1>14, <2>3, FakeDispatch
<1>15. CASE r.op = "confirmDeposit"
  <2>1. Add(Mirror, u, 0, -r.amount) = Fake(Balance', entries, keys)
    BY <1>1, <1>6, <1>9, <1>11, <1>15 DEF Written
  <2>2. Mirror.accounts[u].exists
    BY <1>6, <1>15, MirrorRow
  <2>3. FakeConfirmDeposit(Mirror, r) = Answer("ok", Mirror')
    BY <1>4, <1>5, <1>10, <1>15, <2>1, <2>2, MirrorParts DEF FakeConfirmDeposit, Keyed
  <2> QED BY <1>1, <1>4, <1>15, <2>3, FakeDispatch
<1>16. CASE r.op = "cancelDeposit"
  <2>1. Add(Mirror, u, -r.amount, -r.amount) = Fake(Balance', entries, keys)
    BY <1>1, <1>6, <1>9, <1>11, <1>16 DEF Written
  <2>2. accounts[u].escrowed >= r.amount
    BY <1>1, <1>3, <1>4, <1>6, <1>7, <1>16 DEF Written, Plus, Checked, RowType
  <2>3. Mirror.accounts[u].exists /\ ~(Mirror.accounts[u].escrowed < r.amount)
    BY <1>4, <1>6, <1>16, <2>2, MirrorRow
  <2>4. FakeCancelDeposit(Mirror, r) = Answer("ok", Mirror')
    BY <1>4, <1>5, <1>10, <1>16, <2>1, <2>3, MirrorParts DEF FakeCancelDeposit, Keyed
  <2> QED BY <1>1, <1>4, <1>16, <2>4, FakeDispatch
<1>17. CASE r.op = "escrow"
  <2>1. Add(Mirror, u, 0, r.amount) = Fake(Balance', entries, keys)
    BY <1>1, <1>6, <1>9, <1>11, <1>17 DEF Written
  <2>2. Mirror.accounts[u].exists /\ ~(Spare(Mirror, u) < r.amount)
    BY <1>4, <1>6, <1>17, MirrorRow
  <2>3. PICK x : x = [user |-> r.user, amount |-> r.amount]
    OBVIOUS
  <2>4. [Fake(Balance', entries, keys) EXCEPT !.escrows[r.id] = x] = Mirror'
    BY <1>5, <1>17, <2>3, MirrorParts DEF Fake
  <2>5. FakeEscrow(Mirror, r) = Answer("ok", [Fake(Balance', entries, keys) EXCEPT !.escrows[r.id] = x])
    BY <1>4, <1>5, <1>17, <2>1, <2>2, <2>3, MirrorParts DEF FakeEscrow
  <2>6. FakeEscrow(Mirror, r) = Answer("ok", Mirror')
    BY <2>4, <2>5
  <2> QED BY <1>1, <1>4, <1>17, <2>6, FakeDispatch
<1>18. CASE r.op = "release"
  <2>1. -pre[p].amount \in Int
    BY <1>5, <1>18
  <2>2. Add(Mirror, u, 0, -pre[p].amount) = Fake(Balance', entries, keys)
    BY <1>1, <1>6, <1>9, <1>18, <2>1 DEF Written
  <2>3. [Fake(Balance', entries, keys) EXCEPT !.escrows[r.id] = NoEntry] = Mirror'
    BY <1>5, <1>18, MirrorParts DEF Fake
  <2>4. FakeReleaseEscrow(Mirror, r)
          = Answer("ok", [Fake(Balance', entries, keys) EXCEPT !.escrows[r.id] = NoEntry])
    BY <1>4, <1>5, <1>18, <2>2, MirrorParts DEF FakeReleaseEscrow
  <2>5. FakeReleaseEscrow(Mirror, r) = Answer("ok", Mirror')
    BY <2>3, <2>4
  <2> QED BY <1>1, <1>4, <1>18, <2>5, FakeDispatch
<1> QED BY <1>2, <1>12, <1>13, <1>14, <1>15, <1>16, <1>17, <1>18 DEF Keyed

LEMMA CommitAgrees ==
  ASSUME CashierInv, NEW p \in Procs, NEW status \in {"ok", "unknown"}, Commit(p, status)
  PROVE  Agrees(p)
<1>1. resp'[p] = status
  BY DEF Commit, CashierInv, TypeOK
<1>2. FakeCall(Mirror, req[p]).state = Mirror' /\ FakeCall(Mirror, req[p]).status = "ok"
  BY FakeCommits DEF Answer
<1> QED BY <1>1, <1>2 DEF Agrees, Matches

-----------------------------------------------------------------------------
(* A call that is in flight has not answered. *)
RunningInv == \A p \in Procs : resp[p] = "running" <=> pc[p] # "idle"

(* The only call a step moves. *)
Moving(p) == (\E r \in Requests : Invoke(p, r)) \/ Statement(p) \/ Fail(p)

LEMMA RunningStep ==
  ASSUME CashierInv, RunningInv, NEW p \in Procs, Moving(p)
  PROVE  /\ \A q \in Procs : q # p => pc'[q] = pc[q] /\ resp'[q] = resp[q]
         /\ resp'[p] = "running" <=> pc'[p] # "idle"
<1> DEFINE Others == \A q \in Procs : q # p => pc'[q] = pc[q] /\ resp'[q] = resp[q]
           Mine   == resp'[p] = "running" <=> pc'[p] # "idle"
<1> SUFFICES Others /\ Mine
  OBVIOUS
<1>1. pc \in [Procs -> Labels] /\ resp \in [Procs -> Statuses]
  BY DEF CashierInv, TypeOK
<1>2. ASSUME NEW status, Return(p, status), status # "running" PROVE Others /\ Mine
  BY <1>1, <1>2 DEF Return
<1>3. ASSUME NEW label, Goto(p, label), label # "idle", UNCHANGED resp, pc[p] # "idle"
      PROVE  Others /\ Mine
  BY <1>1, <1>3 DEF Goto, RunningInv
<1> HIDE DEF Others, Mine
<1>4. ASSUME NEW r \in Requests, Invoke(p, r) PROVE Others /\ Mine
  BY <1>1, <1>4 DEF Invoke, Goto, Others, Mine, RunningInv
<1>5. CASE InsertKey(p) \/ Replay(p)
  <2>1. pc[p] = "insertKey"
    BY <1>5 DEF InsertKey, Replay
  <2>2. req[p].op # "idle"
    BY <2>1, RequestInFlight DEF Control, Keyed
  <2> QED BY <1>2, <1>3, <1>5, <2>1, <2>2 DEF InsertKey, Replay
<1>6. CASE DepositUpsert(p) \/ DepositEscrowedUpsert(p) \/ ConfirmUpdate(p) \/ CancelUpdate(p)
  BY <1>2, <1>3, <1>6 DEF DepositUpsert, DepositEscrowedUpsert, ConfirmUpdate, CancelUpdate, TakeAccount
<1>7. CASE WithdrawSelect(p) \/ EscrowSelect(p) \/ SelectOwner(p)
  BY <1>2, <1>3, <1>7 DEF WithdrawSelect, EscrowSelect, SelectOwner, SelectForUpdate, TakeAccount
<1>8. CASE WithdrawUpdate(p) \/ EscrowUpdate(p) \/ ReleaseUpdate(p)
  BY <1>2, <1>3, <1>8 DEF WithdrawUpdate, EscrowUpdate, ReleaseUpdate, VersionedUpdate
<1>9. CASE InsertEntry(p) \/ CheckAvailable(p) \/ PreRead(p) \/ DeleteEntry(p)
  BY <1>2, <1>3, <1>9 DEF InsertEntry, CheckAvailable, PreRead, DeleteEntry
<1>10. CASE DeadlockAbort(p) \/ Fail(p)
  BY <1>2, <1>10 DEF DeadlockAbort, Fail
<1>11. ASSUME NEW status \in {"ok", "unknown"}, Commit(p, status) PROVE Others /\ Mine
  BY <1>1, <1>11 DEF Commit, Others, Mine
<1> QED BY <1>4, <1>5, <1>6, <1>7, <1>8, <1>9, <1>10, <1>11 DEF Moving, Statement

LEMMA RunningAlways == Spec => []RunningInv
<1>1. Init => RunningInv
  BY DEF Init, RunningInv
<1>2. CashierInv /\ RunningInv /\ [Next]_vars => RunningInv'
  <2>1. ASSUME CashierInv, RunningInv, NEW p \in Procs, Moving(p) PROVE RunningInv'
    BY <2>1, RunningStep DEF RunningInv
  <2>2. ASSUME RunningInv, UNCHANGED vars PROVE RunningInv'
    BY <2>2 DEF RunningInv, vars
  <2> QED BY <2>1, <2>2 DEF Next, Moving
<1> QED BY <1>1, <1>2, CashierInvariant, PTL DEF Spec

(* Whatever step settles a call, the fake settles it in the same way. *)
LEMMA StepAgrees ==
  ASSUME CashierInv, RunningInv, NEW p \in Procs, Moving(p), NEW q \in Procs
  PROVE  Agrees(q)
<1>1. CASE q # p
  <2>1. pc'[q] = pc[q] /\ resp'[q] = resp[q]
    BY <1>1, RunningStep
  <2> QED BY <2>1, RunningAgrees
<1>2. Agrees(p)
  <2>1. ASSUME NEW r \in Requests, Invoke(p, r) PROVE Agrees(p)
    <3>1. pc[p] = "idle" /\ resp[p] # "running"
      BY <2>1 DEF Invoke, RunningInv
    <3> QED BY <3>1 DEF Agrees, Settles
  <2>2. CASE Fail(p) \/ DeadlockAbort(p)
    BY <2>2, ReturnAgrees DEF Fail, DeadlockAbort, Statuses
  <2>3. CASE CheckAvailable(p)
    BY <2>3 DEF CheckAvailable, Agrees, Settles
  <2>4. CASE InsertKey(p) \/ DepositUpsert(p) \/ DepositEscrowedUpsert(p)
    <3>1. pc[p] # "insertEntry" /\ UNCHANGED resp
      BY <2>4 DEF InsertKey, DepositUpsert, DepositEscrowedUpsert, TakeAccount
    <3> QED BY <3>1, RunningAgrees
  <2>5. CASE InsertEntry(p)
    <3>1. resp[p] = "running"
      BY <2>5 DEF InsertEntry, RunningInv
    <3> QED BY <2>5, <3>1, InsertEntryAgrees
  <2>6. CASE Statement(p)
    BY <2>2, <2>3, <2>4, <2>5, <2>6, ReplayAgrees, ConfirmAgrees, CancelAgrees, SelectAgrees,
       UpdatesAgree, ReleaseAgrees, CommitAgrees DEF Statement
  <2> QED BY <2>1, <2>2, <2>6 DEF Moving
<1> QED BY <1>1, <1>2

(* What a test shows with the fake holds of the cashier: for any requests, *)
(* any number of calls at a time, failures and retries, the fake answers   *)
(* as the cashier does and is then in the state of the tables, outside of  *)
(* the cases that FakeDiffers lists.                                       *)
THEOREM FakeAnswersAlike == Spec => FakeAgrees
<1> DEFINE Step == \A p \in Procs : Agrees(p)
<1>1. CashierInv /\ RunningInv /\ [Next]_vars => [Step]_vars
  BY StepAgrees DEF Next, Moving
<1>2. Step => \A p \in Procs :
                Settles(p) /\ ~FakeDiffers(req[p]) =>
                  LET answer == FakeCall(Mirror, req[p])
                  IN  /\ answer.state = Mirror'
                      /\ \/ answer.status = resp'[p]
                         \/ answer.status = "ok" /\ resp'[p] \in {"unknown", "running"}
  BY DEF Agrees, Matches
<1> HIDE DEF Step
<1> QED BY <1>1, <1>2, CashierInvariant, RunningAlways, PTL DEF Spec, FakeAgrees
=============================================================================
