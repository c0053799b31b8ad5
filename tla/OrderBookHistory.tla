------------------------- MODULE OrderBookHistory -------------------------
(***************************************************************************)
(* OrderBook with a history variable, shown to implement BookSpec.  before *)
(* is what a caller sees of the book: its resting orders, its next id and  *)
(* the events of the last call, as of the last moment no call was running; *)
(* cancelled remembers which orders were cancelled.  A Limit call is many  *)
(* steps of OrderBook and one step of BookSpec, taken when it returns.     *)
(***************************************************************************)
EXTENDS OrderBook

VARIABLES before, cancelled

hvars == <<vars, before, cancelled>>

(* What a caller knows of an order. *)
Order(slot) == [side |-> slot.side, price |-> slot.price, size |-> slot.size,
                qtyFilled |-> slot.qtyFilled, fills |-> slot.fills]

Visible == [id \in Active(pool) |-> Order(pool[id])]

(* What BookSpec promises of an event: all of it, but for the fills that   *)
(* the code adds to the event of an order accepted or cancelled, of which  *)
(* its comments say that there are none.                                   *)
Told(e) ==
  IF "type" \in DOMAIN e /\ e.type \in {"accepted", "cancelled"}
  THEN [type |-> e.type, id |-> e.id, remaining |-> e.remaining] ELSE e

Shown(s) == [i \in DOMAIN s |-> Told(s[i])]

Seen == [resting |-> Visible, nextId |-> poolTop, out |-> Shown(events)]

HInit == Init /\ before = Seen /\ cancelled = {}

(* Between calls only Cancel takes a live order out. *)
HNext ==
  /\ Next
  /\ before' = IF call' = Idle THEN Seen' ELSE before
  /\ cancelled' = IF call = Idle THEN cancelled \cup (Active(pool) \ Active(pool')) ELSE cancelled

HSpec == HInit /\ [][HNext]_hvars

HFairSpec == HSpec /\ WF_vars(Step)

Book == INSTANCE BookSpec WITH
          resting <- before.resting, nextId <- before.nextId, cancelled <- cancelled,
          out <- before.out

(* Every call of the code-level book, from the first allocation to the     *)
(* last event, is one call of the abstract book with the same events; and  *)
(* Snapshot followed by Restore changes nothing a caller can see.  Left    *)
(* out are the fills repeated when an order is accepted or cancelled, and  *)
(* the reason for refusing to cancel an order twice: what the code does    *)
(* there is not what its comments say.                                     *)
ImplementsBookSpec == Book!Spec
=============================================================================
