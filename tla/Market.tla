------------------------------- MODULE Market ------------------------------
(***************************************************************************)
(* The market process (market/internal/service): it consumes one partition *)
(* of the order topic, feeds the order books, publishes what they report,  *)
(* and writes a snapshot of the books with the offset it has reached.      *)
(* After a crash it loads the snapshot, replays the topic silently up to   *)
(* the end it finds there, and goes live.                                  *)
(*                                                                         *)
(* A book is the sequence of offsets applied to it: the books are          *)
(* deterministic and a snapshot keeps all a caller can see (OrderBook,     *)
(* OrderBookHistory).  Offsets count from 0; offset is that of the last    *)
(* message handled, -1 if there is none.                                   *)
(*                                                                         *)
(* Order events go to order_executions and the process waits for every     *)
(* write; changes of the best prices go to depth_updates through a writer  *)
(* with a goroutine of its own, which sends what has been handed to it.    *)
(***************************************************************************)
EXTENDS Integers, Sequences

CONSTANTS
  Symbols,
  FlushEvery,        \* Config.FlushEvery
  EventsPerMessage,  \* order events a command produces
  MaxLog,            \* bound on messages in the topic
  MaxFaults,         \* bound on crashes and failed writes
  None

ASSUME NoneAssumption == None \notin Symbols
ASSUME FlushEveryAssumption == FlushEvery \in Nat
ASSUME EventsAssumption == EventsPerMessage \in Nat \ {0}
ASSUME BoundsAssumption == MaxLog \in Nat /\ MaxFaults \in Nat

VARIABLES
  log,        \* the topic: symbol of each message, None if it does not parse
  published,  \* execution reports, as <<offset of the command, number>>
  depth,      \* depth updates, as the offset of the command
  snapshot,   \* file snapshot, or None
  tmp,        \* file snapshot.tmp, or None
  pc,         \* where Run is
  offset, books, hwm,
  msgCount,   \* messages since the last flush
  unsent,     \* order events of the current message not yet published
  batch,      \* depth updates handed to depthWriter and not yet sent
  stopping,   \* ctx is cancelled
  faults

disk   == <<snapshot, tmp>>
topics == <<published, depth>>
local  == <<pc, offset, books, hwm, msgCount, unsent, stopping>>
memory == <<local, batch>>
vars   == <<log, topics, disk, memory, faults>>

Message == Symbols \cup {None}

NoBooks == [s \in Symbols |-> <<>>]

Fault == faults < MaxFaults /\ faults' = faults + 1

-----------------------------------------------------------------------------
(* The producers of the topic *)
Produce(m) ==
  /\ Len(log) < MaxLog
  /\ log' = Append(log, m)
  /\ UNCHANGED <<topics, disk, memory, faults>>

-----------------------------------------------------------------------------
(* Starting: load, Restore, seek, fetchHWM *)
Load ==
  /\ pc = "down"
  /\ pc' = "fetchHWM"
  /\ offset' = IF snapshot = None THEN -1 ELSE snapshot.offset
  /\ books' = IF snapshot = None THEN NoBooks ELSE snapshot.books
  /\ UNCHANGED <<log, topics, disk, hwm, msgCount, unsent, stopping, batch, faults>>

FetchHWM ==
  /\ pc = "fetchHWM"
  /\ pc' = "replay"
  /\ hwm' = Len(log)
  /\ UNCHANGED <<log, topics, disk, offset, books, msgCount, unsent, stopping, batch, faults>>

(* dispatchMessage: what the message after offset does to the books; one   *)
(* that does not parse is skipped.                                         *)
Dispatched ==
  LET m == log[offset + 2]
  IN  IF m = None THEN books ELSE [books EXCEPT ![m] = Append(@, offset + 1)]

(* Mutant: the replayed message is handled as if the service were live. *)
ReplayPublishes ==
  /\ pc = "replay"
  /\ offset + 1 < hwm
  /\ books' = Dispatched
  /\ published' = Append(published, <<offset + 1, 1>>)
  /\ offset' = offset + 1
  /\ UNCHANGED <<log, depth, disk, pc, hwm, msgCount, unsent, stopping, batch, faults>>

(* Mutant: off by one, the last message before the end is not replayed. *)
ReplayStopsShort ==
  /\ pc = "replay"
  /\ offset + 1 < hwm
  /\ books' = IF offset + 2 = hwm THEN books ELSE Dispatched
  /\ offset' = offset + 1
  /\ UNCHANGED <<log, topics, disk, pc, hwm, msgCount, unsent, stopping, batch, faults>>

Replay ==
  /\ pc = "replay"
  /\ offset + 1 < hwm
  /\ books' = Dispatched
  /\ offset' = offset + 1
  /\ UNCHANGED <<log, topics, disk, pc, hwm, msgCount, unsent, stopping, batch, faults>>

GoLive ==
  /\ pc = "replay"
  /\ offset + 1 >= hwm
  /\ pc' = "live"
  /\ msgCount' = 0
  /\ UNCHANGED <<log, topics, disk, offset, books, hwm, unsent, stopping, batch, faults>>

-----------------------------------------------------------------------------
(* Live: fetch, dispatch, publish, count, flush *)
(* Mutant: off by one, the last message waits for the next one. *)
DispatchLate ==
  /\ pc = "live"
  /\ offset + 2 < Len(log)
  /\ pc' = "publish"
  /\ books' = Dispatched
  /\ unsent' = IF log[offset + 2] = None THEN 0 ELSE EventsPerMessage
  /\ UNCHANGED <<log, topics, disk, offset, hwm, msgCount, stopping, batch, faults>>

Dispatch ==
  /\ pc = "live"
  /\ offset + 1 < Len(log)
  /\ pc' = "publish"
  /\ books' = Dispatched
  /\ unsent' = IF log[offset + 2] = None THEN 0 ELSE EventsPerMessage
  /\ UNCHANGED <<log, topics, disk, offset, hwm, msgCount, stopping, batch, faults>>

(* publishSync: an error is logged and the report is gone. *)
Publish ==
  /\ pc = "publish"
  /\ unsent > 0
  /\ \/ /\ published' = Append(published, <<offset + 1, EventsPerMessage - unsent + 1>>)
        /\ UNCHANGED faults
     \/ Fault /\ UNCHANGED published
  /\ unsent' = unsent - 1
  /\ UNCHANGED <<log, depth, disk, pc, offset, books, hwm, msgCount, stopping, batch>>

(* publishDepth, publishAsync: the last event of a command may be a change *)
(* of the best prices, which is only handed to the writer.                 *)
PublishDepth ==
  \/ log[offset + 2] # None /\ batch' = Append(batch, offset + 1)
  \/ UNCHANGED batch

Advance ==
  /\ pc = "publish"
  /\ unsent = 0
  /\ PublishDepth
  /\ offset' = offset + 1
  /\ msgCount' = msgCount + 1
  /\ pc' = IF msgCount + 1 >= FlushEvery THEN "persist" ELSE "live"
  /\ UNCHANGED <<log, topics, disk, books, hwm, unsent, stopping, faults>>

(* The goroutine of depthWriter; an update it cannot send is gone. *)
SendDepth ==
  /\ batch # << >>
  /\ \/ depth' = Append(depth, Head(batch)) /\ UNCHANGED faults
     \/ Fault /\ UNCHANGED depth
  /\ batch' = Tail(batch)
  /\ UNCHANGED <<log, published, disk, local>>

(* SIGTERM: the running message, and perhaps more that are already here,   *)
(* are handled before FetchMessage fails; then Run flushes and returns.    *)
Stop ==
  /\ pc \in {"live", "publish", "persist", "rename"}
  /\ ~stopping
  /\ stopping' = TRUE
  /\ UNCHANGED <<log, topics, disk, pc, offset, books, hwm, msgCount, unsent, batch, faults>>

FinalFlush ==
  /\ pc = "live" /\ stopping
  /\ pc' = "finalPersist"
  /\ UNCHANGED <<log, topics, disk, offset, books, hwm, msgCount, unsent, stopping, batch, faults>>

(* The process is gone: memory is lost. *)
Gone ==
  /\ pc' = "down" /\ offset' = -1 /\ books' = NoBooks /\ hwm' = 0
  /\ msgCount' = 0 /\ unsent' = 0 /\ stopping' = FALSE
  /\ batch' = << >>

(* Mutant: the offset is taken from before the message just applied. *)
WriteTmpStaleOffset ==
  /\ pc \in {"persist", "finalPersist"}
  /\ tmp' = [offset |-> offset - 1, books |-> books]
  /\ pc' = IF pc = "persist" THEN "rename" ELSE "finalRename"
  /\ UNCHANGED <<log, topics, snapshot, offset, books, hwm, msgCount, unsent, stopping, batch, faults>>

(* persist: write the temporary file ... *)
WriteTmp ==
  /\ pc \in {"persist", "finalPersist"}
  /\ tmp' = [offset |-> offset, books |-> books]
  /\ pc' = IF pc = "persist" THEN "rename" ELSE "finalRename"
  /\ UNCHANGED <<log, topics, snapshot, offset, books, hwm, msgCount, unsent, stopping, batch, faults>>

(* ... and rename it; then go on, or return. *)
Rename ==
  /\ pc \in {"rename", "finalRename"}
  /\ snapshot' = tmp
  /\ tmp' = None
  /\ IF pc = "rename" THEN pc' = "live" /\ msgCount' = 0
     ELSE pc' = "close" /\ UNCHANGED msgCount
  /\ UNCHANGED <<log, topics, offset, books, hwm, unsent, stopping, batch, faults>>

(* Mutant: the writer is not closed. *)
CloseForgotten ==
  /\ pc = "close"
  /\ Gone
  /\ UNCHANGED <<log, topics, disk, faults>>

(* The deferred depthWriter.Close waits until everything has been sent. *)
Close ==
  /\ pc = "close" /\ batch = << >>
  /\ Gone
  /\ UNCHANGED <<log, topics, disk, faults>>

(* A write or a rename that fails is logged; the temporary file stays. *)
PersistFails ==
  /\ pc \in {"persist", "rename"}
  /\ Fault
  /\ pc' = "live"
  /\ msgCount' = 0
  /\ UNCHANGED <<log, topics, disk, offset, books, hwm, unsent, stopping, batch>>

(* A crash, or an error Run returns on (a failed fetch, a signal before    *)
(* the service is live, a failed last flush): no flush.  A crash in the    *)
(* middle of writing the temporary file leaves rubbish there, which is     *)
(* overwritten before it is used: the file counts as unwritten.            *)
Crash ==
  /\ pc # "down"
  /\ Fault
  /\ Gone
  /\ UNCHANGED <<log, topics, disk>>

-----------------------------------------------------------------------------
Init ==
  /\ log = <<>> /\ published = <<>> /\ depth = <<>>
  /\ snapshot = None /\ tmp = None
  /\ pc = "down" /\ offset = -1 /\ books = NoBooks /\ hwm = 0
  /\ msgCount = 0 /\ unsent = 0 /\ stopping = FALSE
  /\ batch = <<>>
  /\ faults = 0

Run ==
  \/ Load \/ FetchHWM \/ Replay \/ GoLive
  \/ Dispatch \/ Publish \/ Advance
  \/ FinalFlush \/ WriteTmp \/ Rename \/ PersistFails \/ Close

Next ==
  \/ \E m \in Message : Produce(m)
  \/ Run
  \/ SendDepth
  \/ Stop
  \/ Crash

Spec == Init /\ [][Next]_vars

(* Both goroutines run, and the process is restarted whenever it ended.     *)
(* Nothing is assumed of producers, signals and faults.                    *)
FairSpec == Spec /\ WF_vars(Run) /\ WF_vars(SendDepth)
-----------------------------------------------------------------------------
(* Properties *)

File == [offset : Int, books : [Symbols -> Seq(Nat)]] \cup {None}

(* Types; no offset is past the end of the topic. *)
TypeOK ==
  /\ log \in Seq(Message)
  /\ published \in Seq(Nat \X Nat)
  /\ depth \in Seq(Nat) /\ batch \in Seq(Nat)
  /\ snapshot \in File /\ tmp \in File
  /\ pc \in {"down", "fetchHWM", "replay", "live", "publish", "persist", "rename",
            "finalPersist", "finalRename", "close"}
  /\ offset \in -1 .. Len(log) - 1
  /\ books \in [Symbols -> Seq(Nat)]
  /\ hwm \in 0 .. Len(log)
  /\ msgCount \in Nat
  /\ unsent \in 0 .. EventsPerMessage
  /\ stopping \in BOOLEAN
  /\ faults \in 0 .. MaxFaults

(* s holds exactly the messages of symbol sym up to offset o, in order. *)
Holds(s, sym, o) ==
  /\ \A i, j \in 1 .. Len(s) : i < j => s[i] < s[j]
  /\ {s[i] : i \in 1 .. Len(s)} =
     {k \in 0 .. o : log[k + 1] = sym}

(* A snapshot that a crash at any point leaves behind is the books after   *)
(* exactly the messages up to its offset, market.proto's "last fully-      *)
(* processed Kafka message offset".                                        *)
SnapshotMatchesLog ==
  snapshot # None => \A s \in Symbols : Holds(snapshot.books[s], s, snapshot.offset)

(* The books of a running process are those of the whole topic up to its   *)
(* offset: no message is skipped or applied twice across crashes, replays  *)
(* and failed flushes.  While it publishes, the books are one ahead.       *)
BooksMatchLog ==
  pc # "down" =>
    \A s \in Symbols : Holds(books[s], s, IF pc = "publish" THEN offset + 1 ELSE offset)

(* Consumers never see the past after the present: execution reports go    *)
(* out in topic order and none twice, and so do depth updates, whatever is *)
(* replayed, dropped or still waiting in the writer when the process ends. *)
ReportsInOrder ==
  /\ \A i, j \in 1 .. Len(published) :
       i < j => \/ published[i][1] < published[j][1]
                \/ published[i][1] = published[j][1] /\ published[i][2] < published[j][2]
  /\ \A i, j \in 1 .. Len(depth) : i < j => depth[i] < depth[j]

(* Every message in the topic is handled in the end, if the process does   *)
(* not stop for ever.                                                      *)
MessagesHandled ==
  \A k \in 1 .. MaxLog : Len(log) >= k ~> offset + 1 >= k

Members(s) == {s[i] : i \in 1 .. Len(s)}

(* A depth update handed to the asynchronous writer leaves it for the      *)
(* topic, also when the process is told to stop, unless the process        *)
(* crashes or the write fails: nobody publishes it again.                  *)
DepthDelivered ==
  [][\A k \in Members(batch) \ Members(batch') :
       k \in Members(depth') \/ faults' > faults]_vars

-----------------------------------------------------------------------------
(* What makes these inductive (MarketProofs). *)

(* All that was ever published comes from messages before this one: those  *)
(* in the topic when the process went down, then those it will replay,     *)
(* then those it has handled.                                              *)
Reached ==
  CASE pc \in {"down", "fetchHWM"} -> Len(log)
    [] pc = "replay"               -> hwm
    [] OTHER                       -> offset + 1

PublishedOK ==
  \A i \in 1 .. Len(published) :
    \/ published[i][1] < Reached
    \/ /\ pc = "publish" /\ published[i][1] = offset + 1
       /\ published[i][2] <= EventsPerMessage - unsent

DepthOK ==
  /\ \A i \in 1 .. Len(depth) : depth[i] < Reached
  /\ \A i \in 1 .. Len(batch) : batch[i] < Reached
  /\ \A i, j \in 1 .. Len(batch) : i < j => batch[i] < batch[j]
  /\ \A i \in 1 .. Len(depth), j \in 1 .. Len(batch) : depth[i] < batch[j]
  /\ pc \in {"down", "fetchHWM", "replay"} => batch = << >>

(* A message is being published while it is in the topic; a finished       *)
(* temporary file is what the process holds in memory.                     *)
WorkOK ==
  /\ pc = "publish" => offset + 1 < Len(log)
  /\ pc \in {"rename", "finalRename"} => tmp = [offset |-> offset, books |-> books]
  /\ snapshot # None => snapshot.offset \in -1 .. Len(log) - 1

MarketInv ==
  /\ TypeOK /\ WorkOK
  /\ SnapshotMatchesLog /\ BooksMatchLog
  /\ ReportsInOrder /\ PublishedOK /\ DepthOK
=============================================================================
