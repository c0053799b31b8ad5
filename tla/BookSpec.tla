------------------------------ MODULE BookSpec ------------------------------
(***************************************************************************)
(* What an order book promises its callers, with no price levels, no       *)
(* cached prices and no loop: the set of resting orders, and for every     *)
(* call the events it returns.  An incoming order takes the quantity of    *)
(* the opposite orders it crosses in price-time priority, each at the      *)
(* resting order's price; what is left rests.  Quantities shown in a best  *)
(* bid and offer are reduced modulo SizeMod, but whether one is announced  *)
(* is decided on the real quantities.  Restarting from a snapshot is not   *)
(* an operation: callers must not be able to see it.                       *)
(*                                                                         *)
(* Two things are not promised, because the code does one and its comments *)
(* say another: whether the event of an order that was accepted or         *)
(* cancelled repeats its fills (types.go:17, :58, :60 and common.proto:31, *)
(* :51 say that it does not), and which reason refuses the cancelling of   *)
(* an order cancelled before (common.proto:39).                            *)
(***************************************************************************)
EXTENDS Integers, Sequences

CONSTANTS MaxPrice, MaxOrders, SizeMod, Sizes

VARIABLES
  resting,   \* [side, price, size, qtyFilled, fills] of every resting order
  nextId,    \* next id to hand out
  cancelled, \* ids of the orders that were cancelled
  out        \* events returned by the last call

vars == <<resting, nextId, cancelled, out>>

OrderID == 1 .. MaxOrders - 1
Price   == 1 .. MaxPrice - 1

Init ==
  /\ resting = <<>>
  /\ nextId = 1
  /\ cancelled = {}
  /\ out = <<>>

On(book, side) == {r \in DOMAIN book : book[r].side = side}

(* Price p is better than q for an order of this side. *)
Beats(side, p, q) == IF side = "buy" THEN p > q ELSE p < q

(* Price-time priority among the orders of one side. *)
Better(book, a, b) ==
  \/ Beats(book[a].side, book[a].price, book[b].price)
  \/ book[a].price = book[b].price /\ a < b

(* The best price of a side; 0 if it is empty. *)
Best(book, side) ==
  LET P == {book[r].price : r \in On(book, side)}
  IN  IF P = {} THEN 0 ELSE CHOOSE p \in P : \A q \in P : ~Beats(side, q, p)

(* The real quantity that a side offers at price p. *)
Level(book, side, p) ==
  LET size(r) == IF r \in On(book, side) /\ book[r].price = p THEN book[r].size ELSE 0
      sum[r \in 0 .. MaxOrders - 1] == IF r = 0 THEN 0 ELSE sum[r - 1] + size(r)
  IN  sum[MaxOrders - 1]

Top(book, side) == [price |-> Best(book, side), qty |-> Level(book, side, Best(book, side))]

Quote(book) ==
  [bid |-> Best(book, "buy"),  bidQty |-> Top(book, "buy").qty % SizeMod,
   ask |-> Best(book, "sell"), askQty |-> Top(book, "sell").qty % SizeMod]

(* The best bid and offer, announced when a price or real quantity moved.  *)
Announce(old, new) ==
  IF \A side \in {"buy", "sell"} : Top(old, side) = Top(new, side)
  THEN <<>> ELSE <<Quote(new)>>

(* A trade, with all the fills of the order so far. *)
Event(type, id, order) ==
  [type |-> type, id |-> id, qtyFilled |-> order.qtyFilled,
   remaining |-> order.size, fills |-> order.fills]

(* An order that rests, or is taken out. *)
Notice(type, id, order) == [type |-> type, id |-> id, remaining |-> order.size]

Reject(id, reason) ==
  /\ out' = <<[type |-> "rejected", id |-> id, reason |-> reason]>>
  /\ UNCHANGED <<resting, nextId, cancelled>>

-----------------------------------------------------------------------------
(* A match: order hits[k] is the k-th to trade with the incoming one, which *)
(* still wants left[k] after that; n trades.                                *)

(* The opposite orders an order at this price crosses. *)
Crossed(side, price) ==
  {r \in DOMAIN resting : resting[r].side # side /\ ~Beats(side, resting[r].price, price)}

(* The hits are in price-time priority and skip no crossed order.           *)
InPriority(side, price, hits, n) ==
  /\ \A i, j \in 1 .. n : i < j => Better(resting, hits[i], hits[j])
  /\ \A r \in Crossed(side, price) :
       \/ \E k \in 1 .. n : hits[k] = r
       \/ \A k \in 1 .. n : Better(resting, hits[k], r)

(* Each gives what it has, or what is still wanted, which is something.     *)
Gives(hits, left, n) ==
  \A k \in 1 .. n :
    /\ left[k - 1] > 0
    /\ left[k] = IF left[k - 1] > resting[hits[k]].size
                 THEN left[k - 1] - resting[hits[k]].size ELSE 0

(* The match ends when nothing more is wanted, or all that cross are hit.   *)
Ends(side, price, hits, left, n) ==
  left[n] = 0 \/ \A r \in Crossed(side, price) : \E k \in 1 .. n : hits[k] = r

Taken(left, k) == left[k - 1] - left[k]

(* The incoming order after its first k trades. *)
After(side, price, hits, left, k) ==
  [side |-> side, price |-> price, size |-> left[k], qtyFilled |-> left[0] - left[k],
   fills |-> [i \in 1 .. k |-> [order |-> hits[i], price |-> resting[hits[i]].price,
                                qty |-> Taken(left, i)]]]

(* The k-th order hit, after its trade with order id. *)
Hit(id, hits, left, k) ==
  LET r == resting[hits[k]]
  IN  [side |-> r.side, price |-> r.price,
       size |-> r.size - Taken(left, k), qtyFilled |-> r.qtyFilled + Taken(left, k),
       fills |-> Append(r.fills, [order |-> id, price |-> r.price, qty |-> Taken(left, k)])]

(* Two events for every trade, resting side first. *)
Trades(id, side, price, hits, left, n) ==
  [i \in 1 .. 2 * n |->
     LET k == (i + 1) \div 2
     IN  IF i = 2 * k - 1 THEN Event("filled", hits[k], Hit(id, hits, left, k))
         ELSE Event("filled", id, After(side, price, hits, left, k))]

(* What rests after the match: the orders not hit, what is left of those    *)
(* hit, and what is left of the incoming one.                               *)
Rests(id, side, price, hits, left, n) ==
  LET hit == {hits[k] : k \in 1 .. n}
      at(r) == CHOOSE k \in 1 .. n : hits[k] = r
      gone == {r \in hit : Hit(id, hits, left, at(r)).size = 0}
      new  == IF left[n] > 0 THEN {id} ELSE {}
  IN  [r \in (DOMAIN resting \ gone) \cup new |->
         IF r = id THEN After(side, price, hits, left, n)
         ELSE IF r \in hit THEN Hit(id, hits, left, at(r)) ELSE resting[r]]

Limit(side, price, size) ==
  /\ nextId < MaxOrders
  /\ nextId' = nextId + 1
  /\ UNCHANGED cancelled
  /\ \E n \in 0 .. MaxOrders : \E hits \in [1 .. n -> Crossed(side, price)] :
       /\ InPriority(side, price, hits, n)
       /\ \E left \in [0 .. n -> 0 .. size] :
         /\ left[0] = size
         /\ Gives(hits, left, n)
         /\ Ends(side, price, hits, left, n)
         /\ resting' = Rests(nextId, side, price, hits, left, n)
         /\ out' = Trades(nextId, side, price, hits, left, n)
                   \o (IF left[n] > 0
                       THEN <<Notice("accepted", nextId, After(side, price, hits, left, n))>>
                       ELSE <<>>)
                   \o Announce(resting, resting')

LimitRejected ==
  \/ Reject(0, "unspecified")
  \/ nextId >= MaxOrders /\ Reject(0, "pool_exhausted")

(* Why an order that does not rest cannot be cancelled. *)
NotResting(id) ==
  IF id \notin 1 .. nextId - 1 THEN {"not_found"}
  ELSE IF id \in cancelled THEN {"already_filled", "not_found"}
  ELSE {"already_filled"}

Cancel(id) ==
  IF id \in DOMAIN resting
  THEN /\ resting' = [r \in DOMAIN resting \ {id} |-> resting[r]]
       /\ out' = <<Notice("cancelled", id, resting[id])>> \o Announce(resting, resting')
       /\ cancelled' = cancelled \cup {id}
       /\ UNCHANGED nextId
  ELSE \E reason \in NotResting(id) : Reject(id, reason)

Next ==
  \/ \E side \in {"buy", "sell"}, price \in Price, size \in Sizes : Limit(side, price, size)
  \/ LimitRejected
  \/ \E id \in 0 .. MaxOrders : Cancel(id)

Spec == Init /\ [][Next]_vars
=============================================================================
