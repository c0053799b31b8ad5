----------------------------- MODULE OrderBook -----------------------------
(***************************************************************************)
(* The limit order book of matchengine/book.go.  One goroutine owns a      *)
(* book, so calls do not interleave; what is hard is the state a long      *)
(* sequence of calls leaves behind: price levels whose lists still hold    *)
(* cancelled orders, two cached best prices that are only bounds of the    *)
(* real ones, and a snapshot that keeps the live orders only.              *)
(*                                                                         *)
(* Limit is modelled one iteration of its matching loop at a time (call is *)
(* the activation in progress); Cancel and the Snapshot/Restore pair are   *)
(* single steps.  The list of a price level (head, tail, slot.next) is the *)
(* sequence of the ids linked in it.  The trader label is left out: the    *)
(* book copies it and never looks at it.                                   *)
(***************************************************************************)
EXTENDS Integers, Sequences, Queues

CONSTANTS
  MaxPrice,   \* 65536: one past the highest price; "no asks" in askMin
  MaxOrders,  \* 1 << 20: slots of the pool, slot 0 being the none sentinel
  SizeMod,    \* 2^32: quantities are uint32
  Sizes       \* order sizes that clients submit

ASSUME MaxPriceAssumption  == MaxPrice \in Nat /\ MaxPrice >= 1
ASSUME MaxOrdersAssumption == MaxOrders \in Nat /\ MaxOrders >= 1
ASSUME SizeModAssumption   == SizeMod \in Nat /\ SizeMod >= 1
ASSUME SizesAssumption     == Sizes \subseteq 0 .. SizeMod - 1

VARIABLES
  pool,     \* slot of every order id
  poolTop,  \* next id to hand out
  buys,     \* bid lists, by price, oldest order first
  sells,    \* ask lists, by price, oldest order first
  bidMax,   \* cached best bid; 0 = no bids
  askMin,   \* cached best ask; MaxPrice = no asks
  call,     \* the Limit call being executed
  events    \* events returned (or collected so far) by the last call

vars == <<pool, poolTop, buys, sells, bidMax, askMin, call, events>>

none    == 0
OrderID == 1 .. MaxOrders - 1
Price   == 1 .. MaxPrice - 1
Size    == 0 .. SizeMod - 1

Match == [order : OrderID, price : Price, qty : Size]

(* A slot that was never allocated, or that Restore did not fill.  Its     *)
(* side is the zero byte, neither Buy nor Sell.                            *)
FreeSlot == [size |-> 0, price |-> 0, side |-> "unset", active |-> FALSE,
             qtyFilled |-> 0, fills |-> <<>>]

Slot == [size : Size, price : 0 .. MaxPrice - 1, side : {"buy", "sell", "unset"},
         active : BOOLEAN, qtyFilled : Size, fills : Seq(Match)]

Idle == [phase |-> "idle"]

-----------------------------------------------------------------------------
(* Reading the book *)

(* The ids whose slot is active in pool s. *)
Active(s) == {id \in OrderID : s[id].active}

SizeOf(s) == [id \in OrderID |-> s[id].size]

(* The prices up to top (from bottom on) with a live order, and the best   *)
(* of them: the scans of BestBid and BestAsk start at the cached price.    *)
BidPrices(s, top)    == {p \in Price : p <= top /\ Members(buys[p]) \cap Active(s) # {}}
AskPrices(s, bottom) == {p \in Price : p >= bottom /\ Members(sells[p]) \cap Active(s) # {}}

BestBid(s, top) ==
  LET P == BidPrices(s, top)
  IN  IF P = {} THEN 0 ELSE CHOOSE p \in P : \A q \in P : q <= p

BestAsk(s, bottom) ==
  LET P == AskPrices(s, bottom)
  IN  IF P = {} THEN 0 ELSE CHOOSE p \in P : \A q \in P : p <= q

BestBidQty(s, top) ==
  LET p == BestBid(s, top)
  IN  IF p = 0 THEN 0 ELSE SumModulo(buys[p], Active(s), SizeOf(s), SizeMod)

BestAskQty(s, bottom) ==
  LET p == BestAsk(s, bottom)
  IN  IF p = 0 THEN 0 ELSE SumModulo(sells[p], Active(s), SizeOf(s), SizeMod)

(* Best bid and offer: the content of a BBOEvent. *)
BBO == [bid |-> BestBid(pool, bidMax), bidQty |-> BestBidQty(pool, bidMax),
        ask |-> BestAsk(pool, askMin), askQty |-> BestAskQty(pool, askMin)]

BBOIfChanged(prev, now) == IF now # prev THEN <<now>> ELSE <<>>

OrderEvent(type, id, slot, remaining) ==
  [type |-> type, id |-> id, qtyFilled |-> slot.qtyFilled,
   remaining |-> remaining, fills |-> slot.fills]

Rejected(id, reason) == [type |-> "rejected", id |-> id, reason |-> reason]

-----------------------------------------------------------------------------
(* Limit *)

LimitBadPrice ==
  /\ call = Idle
  /\ events' = <<Rejected(none, "unspecified")>>
  /\ UNCHANGED <<pool, poolTop, buys, sells, bidMax, askMin, call>>

LimitPoolExhausted ==
  /\ call = Idle
  /\ poolTop >= MaxOrders
  /\ events' = <<Rejected(none, "pool_exhausted")>>
  /\ UNCHANGED <<pool, poolTop, buys, sells, bidMax, askMin, call>>

(* alloc: the slot of a new order. *)
Alloc(side, price, size) ==
  [size |-> size, price |-> price, side |-> side, active |-> TRUE,
   qtyFilled |-> 0, fills |-> <<>>]

(* The order gets the next id; the best bid and offer before the match is  *)
(* kept.                                                                   *)
LimitStart(side, price, size) ==
  /\ call = Idle
  /\ poolTop < MaxOrders
  /\ pool' = [pool EXCEPT ![poolTop] = Alloc(side, price, size)]
  /\ poolTop' = poolTop + 1
  /\ call' = [phase |-> side, id |-> poolTop, prev |-> BBO]
  /\ events' = <<>>
  /\ UNCHANGED <<buys, sells, bidMax, askMin>>

Smaller(a, b) == IF a < b THEN a ELSE b

(* Slot s after qty units of it trade against order other at price. *)
Traded(s, other, price, qty) ==
  [s EXCEPT !.size = @ - qty, !.qtyFilled = @ + qty,
            !.fills = Append(@, [order |-> other, price |-> price, qty |-> qty])]

(* The aggressor id trades with resting order r, the head of a level: both *)
(* slots and the two events, resting side first.                           *)
Fill(id, r) ==
  LET qty     == Smaller(pool[id].size, pool[r].size)
      price   == pool[r].price
      resting == Traded(pool[r], id, price, qty)
      agg     == Traded(pool[id], r, price, qty)
  IN  /\ pool' = [pool EXCEPT ![id] = agg,
                              ![r]  = [resting EXCEPT !.active = (resting.size > 0)]]
      /\ events' = events \o <<OrderEvent("filled", r, resting, resting.size),
                               OrderEvent("filled", id, agg, agg.size)>>

(* Mutant: the head is unlinked even when it was filled only partly. *)
AfterFillAlwaysUnlinks(id, q) == Tail(q)

(* What the level list becomes once its head r has traded: unlinked when   *)
(* the fill used r up.                                                     *)
AfterFill(id, q) == IF pool[id].size >= pool[Head(q)].size THEN Tail(q) ELSE q

MatchBuyCond ==
  /\ call.phase = "buy"
  /\ pool[call.id].size > 0
  /\ askMin <= pool[call.id].price

(* Mutant: the loop over an empty level forgets to advance. *)
MatchBuyEmptyLevelStuck ==
  /\ MatchBuyCond
  /\ DropUntil(sells[askMin], Active(pool)) = <<>>
  /\ sells' = [sells EXCEPT ![askMin] = <<>>]
  /\ UNCHANGED <<pool, poolTop, buys, bidMax, askMin, call, events>>

(* The best ask level holds no live order: go one price up. *)
MatchBuyEmptyLevel ==
  /\ MatchBuyCond
  /\ DropUntil(sells[askMin], Active(pool)) = <<>>
  /\ sells' = [sells EXCEPT ![askMin] = <<>>]
  /\ askMin' = askMin + 1
  /\ UNCHANGED <<pool, poolTop, buys, bidMax, call, events>>

MatchBuyFill ==
  /\ MatchBuyCond
  /\ LET q    == DropUntil(sells[askMin], Active(pool))
         left == AfterFill(call.id, q)
     IN  /\ q # <<>>
         /\ Fill(call.id, Head(q))
         /\ sells' = [sells EXCEPT ![askMin] = left]
         /\ askMin' = IF left = <<>> THEN askMin + 1 ELSE askMin
  /\ UNCHANGED <<poolTop, buys, bidMax, call>>

MatchSellCond ==
  /\ call.phase = "sell"
  /\ pool[call.id].size > 0
  /\ bidMax >= pool[call.id].price
  /\ bidMax > 0

MatchSellEmptyLevel ==
  /\ MatchSellCond
  /\ DropUntil(buys[bidMax], Active(pool)) = <<>>
  /\ buys' = [buys EXCEPT ![bidMax] = <<>>]
  /\ bidMax' = bidMax - 1
  /\ UNCHANGED <<pool, poolTop, sells, askMin, call, events>>

MatchSellFill ==
  /\ MatchSellCond
  /\ LET q    == DropUntil(buys[bidMax], Active(pool))
         left == AfterFill(call.id, q)
     IN  /\ q # <<>>
         /\ Fill(call.id, Head(q))
         /\ buys' = [buys EXCEPT ![bidMax] = left]
         /\ bidMax' = IF left = <<>> THEN bidMax - 1 ELSE bidMax
  /\ UNCHANGED <<poolTop, sells, askMin, call>>

(* The matching loop is over and the order is used up: its slot is closed. *)
LimitDone ==
  /\ call # Idle
  /\ pool[call.id].size = 0
  /\ pool' = [pool EXCEPT ![call.id].active = FALSE]
  /\ UNCHANGED <<poolTop, buys, sells, bidMax, askMin>>
  /\ events' = events \o BBOIfChanged(call.prev, BBO')
  /\ call' = Idle

(* Mutant: off by one, an order at the best ask rests instead of trading. *)
RestBuyAtBestAsk ==
  /\ call.phase = "buy"
  /\ pool[call.id].size > 0
  /\ askMin >= pool[call.id].price
  /\ buys' = [buys EXCEPT ![pool[call.id].price] = Append(@, call.id)]
  /\ bidMax' = IF pool[call.id].price > bidMax THEN pool[call.id].price ELSE bidMax
  /\ UNCHANGED <<pool, poolTop, sells, askMin>>
  /\ events' = events \o BBOIfChanged(call.prev, BBO')
  /\ call' = Idle

(* Mutant: enqueue does not raise the cached best bid. *)
RestBuyStaleMax ==
  /\ call.phase = "buy"
  /\ pool[call.id].size > 0
  /\ askMin > pool[call.id].price
  /\ buys' = [buys EXCEPT ![pool[call.id].price] = Append(@, call.id)]
  /\ UNCHANGED <<pool, poolTop, sells, bidMax, askMin>>
  /\ events' = events \o BBOIfChanged(call.prev, BBO')
  /\ call' = Idle

(* The matching loop is over and something is left: enqueue it.  Then      *)
(* Limit compares the best bid and offer with the one before the match.    *)
RestBuy ==
  /\ call.phase = "buy"
  /\ pool[call.id].size > 0
  /\ askMin > pool[call.id].price
  /\ LET price == pool[call.id].price
     IN  /\ buys' = [buys EXCEPT ![price] = Append(@, call.id)]
         /\ bidMax' = IF price > bidMax THEN price ELSE bidMax
  /\ UNCHANGED <<pool, poolTop, sells, askMin>>
  /\ events' = events \o <<OrderEvent("accepted", call.id, pool[call.id], pool[call.id].size)>>
                      \o BBOIfChanged(call.prev, BBO')
  /\ call' = Idle

(* Mutant: enqueue links the order at the head of the level. *)
RestSellAtHead ==
  /\ call.phase = "sell"
  /\ pool[call.id].size > 0
  /\ ~(bidMax >= pool[call.id].price /\ bidMax > 0)
  /\ LET price == pool[call.id].price
     IN  /\ sells' = [sells EXCEPT ![price] = <<call.id>> \o @]
         /\ askMin' = IF price < askMin THEN price ELSE askMin
  /\ UNCHANGED <<pool, poolTop, buys, bidMax>>
  /\ events' = events \o BBOIfChanged(call.prev, BBO')
  /\ call' = Idle

RestSell ==
  /\ call.phase = "sell"
  /\ pool[call.id].size > 0
  /\ ~(bidMax >= pool[call.id].price /\ bidMax > 0)
  /\ LET price == pool[call.id].price
     IN  /\ sells' = [sells EXCEPT ![price] = Append(@, call.id)]
         /\ askMin' = IF price < askMin THEN price ELSE askMin
  /\ UNCHANGED <<pool, poolTop, buys, bidMax>>
  /\ events' = events \o <<OrderEvent("accepted", call.id, pool[call.id], pool[call.id].size)>>
                      \o BBOIfChanged(call.prev, BBO')
  /\ call' = Idle

-----------------------------------------------------------------------------
(* Cancel *)

CancelUnknown(id) ==
  /\ call = Idle
  /\ id = none \/ id >= poolTop
  /\ events' = <<Rejected(id, "not_found")>>
  /\ UNCHANGED <<pool, poolTop, buys, sells, bidMax, askMin, call>>

CancelInactive(id) ==
  /\ call = Idle
  /\ id \in OrderID /\ id < poolTop
  /\ ~pool[id].active
  /\ events' = <<Rejected(id, IF pool[id].size = 0 THEN "already_filled" ELSE "not_found")>>
  /\ UNCHANGED <<pool, poolTop, buys, sells, bidMax, askMin, call>>

(* Mutant: askMin becomes BestAsk's "no asks", 0, and not MaxPrice. *)
CancelRestingZeroAsk(id) ==
  /\ call = Idle
  /\ id \in OrderID /\ id < poolTop
  /\ pool[id].active
  /\ pool' = [pool EXCEPT ![id].active = FALSE, ![id].size = 0]
  /\ bidMax' = IF pool[id].side = "buy" /\ pool[id].price = bidMax
               THEN BestBid(pool', bidMax) ELSE bidMax
  /\ askMin' = IF pool[id].side = "sell" THEN BestAsk(pool', askMin) ELSE askMin
  /\ UNCHANGED <<poolTop, buys, sells, call, events>>

(* The slot is cleared and stays linked in its level; the cached best      *)
(* price of its side is looked up again.                                   *)
CancelResting(id) ==
  /\ call = Idle
  /\ id \in OrderID /\ id < poolTop
  /\ pool[id].active
  /\ pool' = [pool EXCEPT ![id].active = FALSE, ![id].size = 0]
  /\ bidMax' = IF pool[id].side = "buy" /\ pool[id].price = bidMax
               THEN BestBid(pool', bidMax) ELSE bidMax
  /\ askMin' = IF pool[id].side = "sell"
               THEN LET ba == BestAsk(pool', askMin) IN IF ba = 0 THEN MaxPrice ELSE ba
               ELSE askMin
  /\ UNCHANGED <<poolTop, buys, sells, call>>
  /\ events' = <<OrderEvent("cancelled", id, pool[id], pool[id].size)>>
               \o BBOIfChanged(BBO, BBO')

-----------------------------------------------------------------------------
(* Snapshot and Restore *)

(* Mutant: the walk starts one price below the best bid. *)
SnapshotBuysSkipsBest ==
  [p \in Price |-> IF p < BestBid(pool, bidMax) THEN KeepOnly(buys[p], Active(pool)) ELSE <<>>]

(* The lists Snapshot walks: from the best price outwards, live orders.    *)
SnapshotBuys ==
  [p \in Price |-> IF p <= BestBid(pool, bidMax) THEN KeepOnly(buys[p], Active(pool)) ELSE <<>>]

SnapshotSells ==
  LET askStart == BestAsk(pool, askMin)
  IN  [p \in Price |-> IF askStart # 0 /\ p >= askStart
                       THEN KeepOnly(sells[p], Active(pool)) ELSE <<>>]

(* An order in the file, and read back.  The side is a letter, and every    *)
(* letter but S is a buy; prices are stored wider than they are.            *)
marshalBookState(entry) == [entry EXCEPT !.side = IF @ = "sell" THEN "S" ELSE "B"]

unmarshalBookState(order) == [order EXCEPT !.side = IF @ = "S" THEN "sell" ELSE "buy"]

Reloaded(slot, side) == unmarshalBookState(marshalBookState([slot EXCEPT !.side = side]))

(* A new process loads the snapshot of the book: Restore resets the book   *)
(* and enqueues the entries in snapshot order.  It happens between calls.  *)
SnapshotRestore ==
  /\ call = Idle
  /\ buys' = SnapshotBuys
  /\ sells' = SnapshotSells
  /\ pool' = [id \in OrderID |->
                IF \E p \in Price : id \in Members(SnapshotBuys[p])
                  THEN Reloaded(pool[id], "buy")
                ELSE IF \E p \in Price : id \in Members(SnapshotSells[p])
                  THEN Reloaded(pool[id], "sell")
                ELSE FreeSlot]
  /\ bidMax' = BestBid(pool, bidMax)
  /\ askMin' = LET ba == BestAsk(pool, askMin) IN IF ba = 0 THEN MaxPrice ELSE ba
  /\ poolTop' = IF poolTop < 1 THEN 1 ELSE poolTop
  /\ UNCHANGED <<call, events>>

-----------------------------------------------------------------------------
Init ==
  /\ pool = [id \in OrderID |-> FreeSlot]
  /\ poolTop = 1
  /\ buys = [p \in Price |-> <<>>]
  /\ sells = [p \in Price |-> <<>>]
  /\ bidMax = 0
  /\ askMin = MaxPrice
  /\ call = Idle
  /\ events = <<>>

Step ==
  \/ MatchBuyEmptyLevel
  \/ MatchBuyFill
  \/ MatchSellEmptyLevel
  \/ MatchSellFill
  \/ LimitDone
  \/ RestBuy
  \/ RestSell

Next ==
  \/ LimitBadPrice
  \/ LimitPoolExhausted
  \/ \E side \in {"buy", "sell"}, price \in Price, size \in Sizes :
       LimitStart(side, price, size)
  \/ Step
  \/ \E id \in {none, poolTop} : CancelUnknown(id)
  \/ \E id \in OrderID : CancelInactive(id)
  \/ \E id \in OrderID : CancelResting(id)
  \/ SnapshotRestore

Spec == Init /\ [][Next]_vars

(* A call that was entered runs to its end: the goroutine is not descheduled
   for ever.  Nothing is assumed of the callers. *)
FairSpec == Spec /\ WF_vars(Step)
-----------------------------------------------------------------------------
(* Properties *)

BBOType == [bid : 0 .. MaxPrice - 1, bidQty : Size, ask : 0 .. MaxPrice - 1, askQty : Size]

TypeOK ==
  /\ pool \in [OrderID -> Slot]
  /\ poolTop \in 1 .. MaxOrders
  /\ buys \in [Price -> Seq(OrderID)]
  /\ sells \in [Price -> Seq(OrderID)]
  /\ bidMax \in 0 .. MaxPrice - 1
  /\ askMin \in 1 .. MaxPrice
  /\ call \in {Idle} \cup [phase : {"buy", "sell"}, id : OrderID, prev : BBOType]

(* A live order sits in the list of price p on that side. *)
LiveBid(p) == Members(buys[p]) \cap Active(pool) # {}
LiveAsk(p) == Members(sells[p]) \cap Active(pool) # {}

(* The book is never crossed: every live bid is below every live ask, in   *)
(* the middle of a sweep too.  A cached price that is skipped, advanced    *)
(* too far or not refreshed by Cancel or Restore would let an order rest   *)
(* without meeting a counterpart it crosses.                               *)
NotCrossed == \A p, q \in Price : LiveBid(p) /\ LiveAsk(q) => p < q

(* BestBid and BestAsk, which scan from the cached price, find the best    *)
(* live price there is: no live order hides beyond bidMax or askMin.       *)
BestPricesExact ==
  /\ BestBid(pool, bidMax) = BestBid(pool, MaxPrice)
  /\ BestAsk(pool, askMin) = BestAsk(pool, 0)

(* Where an order is linked: side, price and position in the list.         *)
Places(id) ==
  {at \in {"buy", "sell"} \X Price \X (1 .. MaxOrders) :
     LET q == IF at[1] = "buy" THEN buys[at[2]] ELSE sells[at[2]]
     IN  at[3] <= Len(q) /\ q[at[3]] = id}

(* No order is lost or linked twice: between calls an active slot has      *)
(* something left and occurs at exactly one place, in the list of its own  *)
(* side and price; a slot that is not active has nothing left.             *)
NoOrderLost ==
  call = Idle =>
    \A id \in OrderID :
      /\ pool[id].active <=> pool[id].size > 0
      /\ pool[id].active =>
           \E i \in 1 .. MaxOrders : Places(id) = {<<pool[id].side, pool[id].price, i>>}

(* Time priority: the list of a level is in order of arrival, lazily       *)
(* deleted entries and entries re-enqueued by Restore included.            *)
TimePriority ==
  \A p \in Price : \A q \in {buys[p], sells[p]} :
    \A i, j \in 1 .. Len(q) : i < j => q[i] < q[j]

(* Every Limit call returns: the matching loop cannot run on for ever      *)
(* over empty levels or an order that never shrinks.                       *)
CallsReturn == call # Idle ~> call = Idle
=============================================================================
