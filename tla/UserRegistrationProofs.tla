----------------------- MODULE UserRegistrationProofs -----------------------
(***************************************************************************)
(* UserRegistration proved for any number of calls and usernames.  The     *)
(* argument: while a call is between CreateUser and its end, the login of  *)
(* its username is its own (HoldersHaveLogin), because Cognito refuses a   *)
(* second one; so the login that its rollback deletes by username is its   *)
(* own too, and no row stands behind it unless a reply was lost.           *)
(***************************************************************************)
EXTENDS UserRegistration, TLAPS

(* No user, no login, no call before the first request. *)
LEMMA RegistrationInit == Init => RegistrationInv
  BY CallsAssumption
  DEF Init, RegistrationInv, TypeOK, Faults, Holding, Codes, HoldersHaveLogin, MadeByCall,
      RollbackStoredNothing, StoredUsersLogIn, NoOrphanLogins, AnswersAreTrue, GetUser

(* Every step of RegisterUser, and every fault, keeps the types. *)
LEMMA TypeStep == TypeOK /\ [Next]_vars => TypeOK'
<1> SUFFICES ASSUME TypeOK, [Next]_vars PROVE TypeOK'
  OBVIOUS
<1> USE DEF TypeOK, Faults, Holding, Codes, Goto, ReturnVia, Return, Fault
<1>1. CASE UNCHANGED vars
  BY <1>1 DEF vars
<1>2. CASE Next
  <2> PICK c \in Calls :
        \/ Receive(c) \/ PreCheck(c)
        \/ CreateUser(c) \/ CreateUserUnknown(c)
        \/ Encrypt(c)
        \/ Insert(c) \/ InsertUnknown(c)
        \/ StepFails(c)
        \/ DeleteUser(c) \/ DeleteUserFails(c) \/ DeleteUserResent(c)
        \/ Crash(c)
    BY <1>2 DEF Next
  <2>1. CASE Receive(c)
    BY <2>1 DEF Receive
  <2>2. CASE PreCheck(c)
    BY <2>2 DEF PreCheck
  <2>3. CASE CreateUser(c)
    BY <2>3 DEF CreateUser
  <2>4. CASE CreateUserUnknown(c)
    BY <2>4 DEF CreateUserUnknown
  <2>5. CASE Encrypt(c)
    BY <2>5 DEF Encrypt
  <2>6. CASE Insert(c)
    BY <2>6 DEF Insert
  <2>7. CASE InsertUnknown(c)
    BY <2>7 DEF InsertUnknown
  <2>8. CASE StepFails(c)
    BY <2>8 DEF StepFails
  <2>9. CASE DeleteUser(c)
    BY <2>9 DEF DeleteUser
  <2>10. CASE DeleteUserFails(c)
    BY <2>10 DEF DeleteUserFails
  <2>11. CASE DeleteUserResent(c)
    BY <2>11 DEF DeleteUserResent
  <2>12. CASE Crash(c)
    BY <2>12 DEF Crash
  <2> QED
    BY <2>1, <2>2, <2>3, <2>4, <2>5, <2>6, <2>7, <2>8, <2>9, <2>10, <2>11, <2>12
<1> QED
  BY <1>1, <1>2

(* Every step of RegisterUser, and every fault, keeps the rest of the      *)
(* invariant.  Each action changes one call and at most the row and the    *)
(* login of its username.                                                  *)
LEMMA RegistrationStep == RegistrationInv /\ [Next]_vars => RegistrationInv'
<1> SUFFICES ASSUME RegistrationInv, [Next]_vars PROVE RegistrationInv'
  OBVIOUS
<1> DEFINE Rest == /\ HoldersHaveLogin /\ MadeByCall /\ RollbackStoredNothing
                   /\ StoredUsersLogIn /\ NoOrphanLogins /\ AnswersAreTrue
<1>0. TypeOK'
  BY TypeStep DEF RegistrationInv
<1> SUFFICES Rest'
  BY <1>0 DEF RegistrationInv
<1> USE CallsAssumption, <1>0
    DEF RegistrationInv, TypeOK, Holding, Goto, ReturnVia, Return, Fault, HoldersHaveLogin,
        MadeByCall, RollbackStoredNothing, StoredUsersLogIn, NoOrphanLogins,
        AnswersAreTrue, GetUser
<1>1. CASE UNCHANGED vars
  BY <1>1 DEF vars
<1>2. CASE Next
  <2> PICK c \in Calls :
        \/ Receive(c) \/ PreCheck(c)
        \/ CreateUser(c) \/ CreateUserUnknown(c)
        \/ Encrypt(c)
        \/ Insert(c) \/ InsertUnknown(c)
        \/ StepFails(c)
        \/ DeleteUser(c) \/ DeleteUserFails(c) \/ DeleteUserResent(c)
        \/ Crash(c)
    BY <1>2 DEF Next
  <2>1. CASE Receive(c)
    BY <2>1 DEF Receive
  <2>2. CASE PreCheck(c)
    BY <2>2 DEF PreCheck
  <2>3. CASE CreateUser(c)
    BY <2>3 DEF CreateUser
  <2>4. CASE CreateUserUnknown(c)
    <3> USE <2>4 DEF CreateUserUnknown
    <3>1. PICK code \in {"Internal", "AlreadyExists"} :
            pc' = [pc EXCEPT ![c] = "done"] /\ answer' = [answer EXCEPT ![c] = code]
      OBVIOUS
    <3>2. \A u \in Usernames : users[u] # c
      OBVIOUS
    <3>3. "createUnknown" \in faults' /\ faults \subseteq faults'
      OBVIOUS
    <3>4. HoldersHaveLogin' /\ MadeByCall' /\ RollbackStoredNothing'
      BY <3>1
    <3>5. NoOrphanLogins'
      BY <3>1, <3>3
    <3>6. StoredUsersLogIn'
      <4> SUFFICES ASSUME NEW u \in Usernames, users[u] # None, logins'[u] # users[u]
                   PROVE  faults' \cap {"insertUnknown", "deleteResent"} # {}
        OBVIOUS
      <4>1. logins[u] # users[u]
        OBVIOUS
      <4> QED
        BY <4>1, <3>3
    <3>7. AnswersAreTrue'
      BY <3>1, <3>2, <3>3
    <3> QED
      BY <3>4, <3>5, <3>6, <3>7
  <2>5. CASE Encrypt(c)
    BY <2>5 DEF Encrypt
  <2>6. CASE Insert(c)
    BY <2>6 DEF Insert
  <2>7. CASE InsertUnknown(c)
    BY <2>7 DEF InsertUnknown
  <2>8. CASE StepFails(c)
    BY <2>8 DEF StepFails
  <2>9. CASE DeleteUser(c)
    BY <2>9 DEF DeleteUser
  <2>10. CASE DeleteUserFails(c)
    BY <2>10 DEF DeleteUserFails
  <2>11. CASE DeleteUserResent(c)
    BY <2>11 DEF DeleteUserResent
  <2>12. CASE Crash(c)
    BY <2>12 DEF Crash
  <2> QED
    BY <2>1, <2>2, <2>3, <2>4, <2>5, <2>6, <2>7, <2>8, <2>9, <2>10, <2>11, <2>12
<1> QED
  BY <1>1, <1>2

(* The invariant holds in every reachable state. *)
THEOREM RegistrationInvariant == Spec => []RegistrationInv
  BY RegistrationInit, RegistrationStep, PTL DEF Spec

(* However many calls run at once, the rollback of RegisterUser deletes    *)
(* the login of a stored user only after a lost reply of the INSERT or a   *)
(* DeleteUser sent twice.                                                  *)
THEOREM LoginsSafe == Spec => []StoredUsersLogIn
<1>1. RegistrationInv => StoredUsersLogIn
  BY DEF RegistrationInv
<1> QED
  BY <1>1, RegistrationInvariant, PTL

(* RegisterUser leaves a login without a user only after a crash, a create *)
(* whose reply was lost or a failed delete.                                *)
THEOREM NoneOrphaned == Spec => []NoOrphanLogins
<1>1. RegistrationInv => NoOrphanLogins
  BY DEF RegistrationInv
<1> QED
  BY <1>1, RegistrationInvariant, PTL

(* The answers of RegisterUser agree with what GetUser returns ever after. *)
THEOREM AnswersCorrect == Spec => []AnswersAreTrue
<1>1. RegistrationInv => AnswersAreTrue
  BY DEF RegistrationInv
<1> QED
  BY <1>1, RegistrationInvariant, PTL
=============================================================================
