------------------------------- MODULE Queues -------------------------------
(***************************************************************************)
(* First-in-first-out queues with lazy deletion.  The order book never     *)
(* unlinks a cancelled order from the list of its price level: it clears   *)
(* the order's active flag and lets later walks step over it.  A queue is  *)
(* a sequence of ids here, and the ids that still count are given as a     *)
(* set, so that the operators are first-order and can be reasoned about.   *)
(***************************************************************************)
EXTENDS Naturals, Sequences

(* The ids that occur in queue q. *)
Members(q) == {q[i] : i \in DOMAIN q}

(* The positions of q that hold an id of A. *)
Live(q, A) == {i \in 1 .. Len(q) : q[i] \in A}

(* q without the ids before the first one of A; empty if q has none of A. *)
DropUntil(q, A) ==
  IF Live(q, A) = {}
  THEN <<>>
  ELSE SubSeq(q, CHOOSE i \in Live(q, A) : \A j \in Live(q, A) : i <= j, Len(q))

(* The first n ids of q that are in A, in order, for n in 0 .. Len(q). *)
KeepOnly(q, A) ==
  LET kept[n \in 0 .. Len(q)] ==
        IF n = 0 THEN <<>>
        ELSE IF q[n] \in A THEN Append(kept[n-1], q[n]) ELSE kept[n-1]
  IN  kept[Len(q)]

(* The sum modulo m of w over the ids of q that are in A, accumulated one  *)
(* list node at a time the way a fixed-width counter does.                 *)
SumModulo(q, A, w, m) ==
  LET sum[n \in 0 .. Len(q)] ==
        IF n = 0 THEN 0
        ELSE IF q[n] \in A THEN (sum[n-1] + w[q[n]]) % m ELSE sum[n-1]
  IN  sum[Len(q)]
=============================================================================
