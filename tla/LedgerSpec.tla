---------------------------- MODULE LedgerSpec -----------------------------
(***************************************************************************)
(* What the cashier promises: a ledger whose requests happen one at a      *)
(* time.  A keyed request takes effect at most once, whoever sends it how  *)
(* often; an order's escrow is held at most once and released at most once *)
(* per hold; and money is moved only if the account can afford it at that  *)
(* very moment.                                                            *)
(***************************************************************************)
EXTENDS Integers

CONSTANTS Users, Requests

VARIABLES
  balance,  \* gross and escrowed money of every user
  applied,  \* keyed requests that took effect
  held      \* escrow requests whose money is held

Empty == [exists |-> FALSE, gross |-> 0, escrowed |-> 0]

Available(u) == balance[u].gross - balance[u].escrowed

Move(u, gross, escrowed) ==
  balance' = [balance EXCEPT ![u] =
                [exists |-> TRUE, gross |-> @.gross + gross, escrowed |-> @.escrowed + escrowed]]

Apply(r) ==
  /\ r \notin applied
  /\ applied' = applied \cup {r}
  /\ UNCHANGED held
  /\ \/ r.op = "deposit" /\ Move(r.user, r.amount, 0)
     \/ r.op = "depositEscrowed" /\ Move(r.user, r.amount, r.amount)
     \/ /\ r.op = "withdraw"
        /\ balance[r.user].exists
        /\ Available(r.user) >= r.amount
        /\ Move(r.user, -r.amount, 0)
     \/ /\ r.op = "confirmDeposit"
        /\ balance[r.user].exists
        /\ balance[r.user].escrowed >= r.amount
        /\ Move(r.user, 0, -r.amount)
     \/ /\ r.op = "cancelDeposit"
        /\ balance[r.user].exists
        /\ balance[r.user].escrowed >= r.amount
        /\ Move(r.user, -r.amount, -r.amount)

Hold(r) ==
  /\ r.op = "escrow"
  /\ r \notin held
  /\ balance[r.user].exists
  /\ Available(r.user) >= r.amount
  /\ held' = held \cup {r}
  /\ Move(r.user, 0, r.amount)
  /\ UNCHANGED applied

Release(r) ==
  /\ r \in held
  /\ held' = held \ {r}
  /\ Move(r.user, 0, -r.amount)
  /\ UNCHANGED applied

Init ==
  /\ balance = [u \in Users |-> Empty]
  /\ applied = {}
  /\ held = {}

Next == \E r \in Requests : Apply(r) \/ Hold(r) \/ Release(r)

Spec == Init /\ [][Next]_<<balance, applied, held>>
=============================================================================
