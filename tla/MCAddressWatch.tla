--------------------------- MODULE MCAddressWatch ---------------------------
(***************************************************************************)
(* AddressWatch for TLC: t1 has an output that needs both users' keys,     *)
(* which is nobody's deposit; t2 pays both users, so that it is relevant   *)
(* for one address and carries an output to another.  The second address   *)
(* may be of another network.                                              *)
(***************************************************************************)
EXTENDS AddressWatch, TLC

CONSTANTS c1, c2, t1, t2

MCOutputs == t1 :> {{c1}, {c1, c2}} @@ t2 :> {{c1}, {c2}}
MCStrange == {{}, {c2}}
=============================================================================
