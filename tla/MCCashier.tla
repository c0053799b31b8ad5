----------------------------- MODULE MCCashier -----------------------------
(* Small instances of Cashier, next to its fake. *)
EXTENDS FakeCashier, TLC

CONSTANTS u1, u2, k1, k2, k3, d1, o1, o2

Symmetry == Permutations(Procs)

Request(op, id, user, amount) == [op |-> op, id |-> id, user |-> user, amount |-> amount]

(* One user whose orders, withdrawals and chain deposits compete for the   *)
(* same money; one request is refused for its amount.                      *)
MCRequests ==
  {Request("deposit", k1, u1, 2), Request("withdraw", k2, u1, 1),
   Request("withdraw", k3, u1, 0),
   Request("escrow", o1, u1, 2), [op |-> "release", id |-> o1],
   Request("depositEscrowed", d1, u1, 2), Request("confirmDeposit", d1, u1, 2),
   Request("cancelDeposit", d1, u1, 2)}

(* Two orders of two users, and a withdrawal; nobody confirms or cancels a *)
(* chain deposit.                                                          *)
OrderRequests ==
  {Request("deposit", k1, u1, 2), Request("withdraw", k3, u1, 1), Request("deposit", k2, u2, 1),
   Request("escrow", o1, u1, 1), [op |-> "release", id |-> o1],
   Request("escrow", o2, u2, 1), [op |-> "release", id |-> o2]}
=============================================================================
