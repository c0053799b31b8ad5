-------------------------- MODULE UserRegistration --------------------------
(***************************************************************************)
(* userregistration/internal: RegisterUser is a saga.  It creates a login  *)
(* in Cognito, makes and encrypts a key pair, stores the user in Postgres, *)
(* and deletes the login again when a later step fails.  Any number of     *)
(* calls run at the same time, on any replica.                             *)
(*                                                                         *)
(* A call creates at most one login, so the call stands for the "sub" that *)
(* Cognito gives the login, and for the key pair and address made for it.  *)
(* Cognito and Postgres are external: maps by username, whose replies may  *)
(* be lost after they took effect.                                         *)
(***************************************************************************)
CONSTANTS
  Calls,      \* the RegisterUser requests
  Usernames,
  None        \* no login, no row

ASSUME CallsAssumption == None \notin Calls

VARIABLES
  users,    \* Postgres: the sub stored under each username
  logins,   \* Cognito: the sub of each username's login
  name,     \* req.Username of each call
  pc,       \* where RegisterUser is
  answer,   \* the status code a call returns
  faults    \* what has gone wrong so far

vars == <<users, logins, name, pc, answer, faults>>

Faults == {"crash", "createUnknown", "insertUnknown", "deleteFails", "deleteResent"}

(* The steps below the defer statement: the call has a login to roll back. *)
Holding == {"encrypt", "insert", "rollback"}

Codes == {"OK", "InvalidArgument", "AlreadyExists", "Internal"}

TypeOK ==
  /\ users \in [Usernames -> Calls \cup {None}]
  /\ logins \in [Usernames -> Calls \cup {None}]
  /\ name \in [Calls -> Usernames]
  /\ pc \in [Calls -> Holding \cup {"idle", "check", "create", "done", "gone"}]
  /\ answer \in [Calls -> Codes \cup {None}]
  /\ faults \subseteq Faults

Goto(c, label) == pc' = [pc EXCEPT ![c] = label]

(* A status code, returned at once or once the deferred rollback has run. *)
ReturnVia(c, label, code) ==
  /\ Goto(c, label)
  /\ answer' = [answer EXCEPT ![c] = code]

Return(c, code) == ReturnVia(c, "done", code)

Fault(f) == faults' = faults \cup {f}

(* The request arrives; a username and an email are required. *)
Receive(c) ==
  /\ pc[c] = "idle"
  /\ \/ Goto(c, "check") /\ UNCHANGED answer
     \/ Return(c, "InvalidArgument")
  /\ UNCHANGED <<users, logins, name, faults>>

(* The early collision check, a SELECT outside any transaction. *)
PreCheck(c) ==
  /\ pc[c] = "check"
  /\ \/ users[name[c]] # None /\ Return(c, "AlreadyExists")
     \/ users[name[c]] = None /\ Goto(c, "create") /\ UNCHANGED answer
  /\ UNCHANGED <<users, logins, name, faults>>

(* Mutant: an existing login is taken over as if it were new. *)
CreateUserTakesOver(c) ==
  /\ pc[c] = "create"
  /\ logins' = [logins EXCEPT ![name[c]] = IF @ = None THEN c ELSE @]
  /\ Goto(c, "encrypt")
  /\ UNCHANGED <<users, name, answer, faults>>

(* AdminCreateUser; UsernameExistsException becomes AlreadyExists. *)
CreateUser(c) ==
  /\ pc[c] = "create"
  /\ \/ /\ logins[name[c]] # None
        /\ Return(c, "AlreadyExists")
        /\ UNCHANGED logins
     \/ /\ logins[name[c]] = None
        /\ logins' = [logins EXCEPT ![name[c]] = c]
        /\ Goto(c, "encrypt")
        /\ UNCHANGED answer
  /\ UNCHANGED <<users, name, faults>>

(* The login is created but CreateUser returns an error: its reply is lost,  *)
(* or has no sub, or the SDK sends the request again and meets its own       *)
(* login.  The rollback is not deferred yet.                                 *)
CreateUserUnknown(c) ==
  /\ pc[c] = "create"
  /\ logins[name[c]] = None
  /\ logins' = [logins EXCEPT ![name[c]] = c]
  /\ \E code \in {"Internal", "AlreadyExists"} : Return(c, code)
  /\ Fault("createUnknown")
  /\ UNCHANGED <<users, name>>

(* The key pair, the address, and the private key encrypted by KMS. *)
Encrypt(c) ==
  /\ pc[c] = "encrypt"
  /\ Goto(c, "insert")
  /\ UNCHANGED <<users, logins, name, answer, faults>>

(* INSERT INTO users; username is UNIQUE, a violation (23505) rolls back. *)
Insert(c) ==
  /\ pc[c] = "insert"
  /\ \/ /\ users[name[c]] = None
        /\ users' = [users EXCEPT ![name[c]] = c]
        /\ Return(c, "OK")
     \/ /\ users[name[c]] # None
        /\ ReturnVia(c, "rollback", "AlreadyExists")
        /\ UNCHANGED users
  /\ UNCHANGED <<logins, name, faults>>

(* Mutant: the INSERT is sent again, and meets its own row. *)
InsertUnknownResent(c) ==
  /\ pc[c] = "insert"
  /\ users[name[c]] = None
  /\ users' = [users EXCEPT ![name[c]] = c]
  /\ ReturnVia(c, "rollback", "AlreadyExists")
  /\ Fault("insertUnknown")
  /\ UNCHANGED <<logins, name>>

(* The row is stored but the reply is lost: the call rolls back. *)
InsertUnknown(c) ==
  /\ pc[c] = "insert"
  /\ users[name[c]] = None
  /\ users' = [users EXCEPT ![name[c]] = c]
  /\ ReturnVia(c, "rollback", "Internal")
  /\ Fault("insertUnknown")
  /\ UNCHANGED <<logins, name>>

(* Mutant: the rollback is deferred only when the key is encrypted. *)
StepFailsBeforeDefer(c) ==
  /\ \/ pc[c] \in {"check", "create", "encrypt"} /\ Return(c, "Internal")
     \/ pc[c] = "insert" /\ ReturnVia(c, "rollback", "Internal")
  /\ UNCHANGED <<users, logins, name, faults>>

(* A step fails without an effect: the database, Cognito, the key pair, the  *)
(* address or KMS, or the client cancels the context they all run under.     *)
StepFails(c) ==
  /\ \/ pc[c] \in {"check", "create"} /\ Return(c, "Internal")
     \/ pc[c] \in {"encrypt", "insert"} /\ ReturnVia(c, "rollback", "Internal")
  /\ UNCHANGED <<users, logins, name, faults>>

(* The deferred rollback: AdminDeleteUser by username, whatever login that   *)
(* is by now.  Deleting nothing is an error, which is logged.                *)
DeleteUser(c) ==
  /\ pc[c] = "rollback"
  /\ logins' = [logins EXCEPT ![name[c]] = None]
  /\ Goto(c, "done")
  /\ UNCHANGED <<users, name, answer, faults>>

(* It fails, and is logged. *)
DeleteUserFails(c) ==
  /\ pc[c] = "rollback"
  /\ Goto(c, "done")
  /\ Fault("deleteFails")
  /\ UNCHANGED <<users, logins, name, answer>>

(* It takes effect, the reply is lost, and the SDK sends it again. *)
DeleteUserResent(c) ==
  /\ pc[c] = "rollback"
  /\ logins' = [logins EXCEPT ![name[c]] = None]
  /\ Fault("deleteResent")
  /\ UNCHANGED <<users, name, pc, answer>>

(* The process ends in the middle of the call. *)
Crash(c) ==
  /\ pc[c] \notin {"idle", "done", "gone"}
  /\ Goto(c, "gone")
  /\ Fault("crash")
  /\ UNCHANGED <<users, logins, name, answer>>

Init ==
  /\ users = [u \in Usernames |-> None]
  /\ logins = [u \in Usernames |-> None]
  /\ name \in [Calls -> Usernames]
  /\ pc = [c \in Calls |-> "idle"]
  /\ answer = [c \in Calls |-> None]
  /\ faults = {}

Next == \E c \in Calls :
  \/ Receive(c) \/ PreCheck(c)
  \/ CreateUser(c) \/ CreateUserUnknown(c)
  \/ Encrypt(c)
  \/ Insert(c) \/ InsertUnknown(c)
  \/ StepFails(c)
  \/ DeleteUser(c) \/ DeleteUserFails(c) \/ DeleteUserResent(c)
  \/ Crash(c)

Spec == Init /\ [][Next]_vars

-----------------------------------------------------------------------------
(* GetUser: the row found under a username, or NotFound. *)
GetUser(u) == users[u]

(* A stored user can log in: the rollback of RegisterUser, which deletes a  *)
(* login by username, never takes the login of a user another call stored.  *)
(* It takes a lost reply of the INSERT, or a DeleteUser sent twice, to      *)
(* break that.                                                              *)
StoredUsersLogIn ==
  \A u \in Usernames :
    GetUser(u) # None =>
      \/ logins[u] = GetUser(u)
      \/ faults \cap {"insertUnknown", "deleteResent"} # {}

(* RegisterUser leaves no login without a user behind, on which every later *)
(* call for that username would fail: a login belongs to a stored user or   *)
(* to a call that will finish or undo it, unless a process ended, or a      *)
(* create or delete went wrong.                                             *)
NoOrphanLogins ==
  \A u \in Usernames :
    logins[u] # None =>
      \/ GetUser(u) = logins[u]
      \/ pc[logins[u]] \in Holding
      \/ faults \cap {"crash", "createUnknown", "deleteFails"} # {}

(* What RegisterUser answered stays true: after OK, GetUser returns the     *)
(* user of that very call, address included, and after an error it never    *)
(* does, except when the reply of the INSERT was lost.                      *)
AnswersAreTrue ==
  \A c \in Calls :
    pc[c] = "done" =>
      \/ answer[c] = "OK" /\ GetUser(name[c]) = c
      \/ answer[c] # "OK" /\ GetUser(name[c]) # c
      \/ answer[c] = "Internal" /\ "insertUnknown" \in faults

-----------------------------------------------------------------------------
(* The inductive invariant: what a call may rely on at each of its steps. *)

(* Between CreateUser and its end a call has the login of its username. *)
HoldersHaveLogin ==
  \A c \in Calls :
    pc[c] \in Holding => logins[name[c]] = c \/ "deleteResent" \in faults

(* A login, or a row, is the one its call made, under its username. *)
MadeByCall ==
  \A u \in Usernames, c \in Calls :
    /\ logins[u] = c => name[c] = u /\ pc[c] \notin {"idle", "check", "create"}
    /\ users[u] = c => name[c] = u /\ pc[c] \in {"rollback", "done", "gone"}

(* A call that rolls back has not stored its user, if it knows all replies. *)
RollbackStoredNothing ==
  \A c \in Calls :
    pc[c] = "rollback" =>
      /\ answer[c] # "OK"
      /\ users[name[c]] = c => answer[c] = "Internal" /\ "insertUnknown" \in faults

RegistrationInv ==
  /\ TypeOK
  /\ HoldersHaveLogin
  /\ MadeByCall
  /\ RollbackStoredNothing
  /\ StoredUsersLogIn
  /\ NoOrphanLogins
  /\ AnswersAreTrue
=============================================================================
