---------------------------- MODULE MarketProofs ----------------------------
(***************************************************************************)
(* Market proved for any symbols, any number of messages, any number of    *)
(* events per message and any number of faults: the books, the snapshot    *)
(* and what is published, across crashes, replays and failed writes.       *)
(***************************************************************************)
EXTENDS Market, TLAPS

(* Dispatching the message after offset o makes the books those of o + 1.  *)
LEMMA DispatchedHolds ==
  ASSUME TypeOK, offset + 1 < Len(log), \A x \in Symbols : Holds(books[x], x, offset)
  PROVE  /\ Dispatched \in [Symbols -> Seq(Nat)]
         /\ \A x \in Symbols : Holds(Dispatched[x], x, offset + 1)
<1> DEFINE m == log[offset + 2]
<1>1. m \in Symbols \cup {None} /\ offset + 1 \in Nat
  BY DEF TypeOK, Message
<1>2. CASE m = None
  <2>1. Dispatched = books
    BY <1>2 DEF Dispatched
  <2>2. ASSUME NEW x \in Symbols PROVE Holds(books[x], x, offset + 1)
    <3>1. {k \in 0 .. offset + 1 : log[k + 1] = x} = {k \in 0 .. offset : log[k + 1] = x}
      BY <1>1, <1>2, NoneAssumption DEF TypeOK
    <3> QED BY <3>1 DEF Holds
  <2> QED BY <2>1, <2>2 DEF TypeOK
<1>3. CASE m # None
  <2>1. Dispatched = [books EXCEPT ![m] = Append(@, offset + 1)] /\ m \in Symbols
    BY <1>1, <1>3 DEF Dispatched
  <2>2. Dispatched \in [Symbols -> Seq(Nat)]
    BY <1>1, <2>1 DEF TypeOK
  <2>3. ASSUME NEW x \in Symbols \ {m} PROVE Holds(Dispatched[x], x, offset + 1)
    <3>1. {k \in 0 .. offset + 1 : log[k + 1] = x} = {k \in 0 .. offset : log[k + 1] = x}
      BY <1>1, <2>3 DEF TypeOK
    <3>2. Dispatched[x] = books[x]
      BY <2>1, <2>3 DEF TypeOK
    <3> QED BY <3>1, <3>2 DEF Holds
  <2>4. Holds(Dispatched[m], m, offset + 1)
    <3> DEFINE s == books[m]
               t == Append(s, offset + 1)
    <3>1. Dispatched[m] = t /\ s \in Seq(Nat)
      BY <2>1 DEF TypeOK
    <3>2. /\ \A i, j \in 1 .. Len(s) : i < j => s[i] < s[j]
          /\ {s[i] : i \in 1 .. Len(s)} = {k \in 0 .. offset : log[k + 1] = m}
      BY <2>1 DEF Holds
    <3>3. \A i \in 1 .. Len(s) : s[i] <= offset
      <4>1. ASSUME NEW i \in 1 .. Len(s) PROVE s[i] \in {k \in 0 .. offset : log[k + 1] = m}
        BY <3>2
      <4> QED BY <4>1
    <3> HIDE DEF s
    <3>4. Len(t) = Len(s) + 1 /\ t[Len(s) + 1] = offset + 1 /\ \A i \in 1 .. Len(s) : t[i] = s[i]
      BY <1>1, <3>1
    <3> HIDE DEF t
    <3>5. \A i, j \in 1 .. Len(t) : i < j => t[i] < t[j]
      <4>1. SUFFICES ASSUME NEW i \in 1 .. Len(t), NEW j \in 1 .. Len(t), i < j PROVE t[i] < t[j]
        OBVIOUS
      <4>2. Len(s) \in Nat
        BY <3>1
      <4>3. CASE j = Len(s) + 1
        <5>1. t[i] = s[i] /\ s[i] <= offset /\ s[i] \in Nat
          BY <3>1, <3>3, <3>4, <4>1, <4>2, <4>3
        <5> QED BY <5>1, <3>4, <4>3, <1>1 DEF TypeOK
      <4>4. CASE j # Len(s) + 1
        BY <3>2, <3>4, <4>1, <4>2, <4>4
      <4> QED BY <4>3, <4>4
    <3>6. {t[i] : i \in 1 .. Len(t)} = {s[i] : i \in 1 .. Len(s)} \cup {offset + 1}
      <4>1. 1 .. Len(t) = (1 .. Len(s)) \cup {Len(s) + 1}
        BY <3>1, <3>4
      <4> QED BY <3>4, <4>1
    <3>7. {k \in 0 .. offset + 1 : log[k + 1] = m} =
          {k \in 0 .. offset : log[k + 1] = m} \cup {offset + 1}
      <4>1. 0 .. offset + 1 = (0 .. offset) \cup {offset + 1} /\ log[(offset + 1) + 1] = m
        BY <1>1 DEF TypeOK
      <4> HIDE DEF m
      <4> QED BY <4>1
    <3> QED BY <3>1, <3>2, <3>5, <3>6, <3>7 DEF Holds
  <2> QED BY <2>2, <2>3, <2>4
<1> QED BY <1>2, <1>3

(* What the topics hold are offsets. *)
LEMMA ElementTypes ==
  ASSUME MarketInv
  PROVE  /\ \A i \in 1 .. Len(published) : published[i][1] \in Nat /\ published[i][2] \in Nat
         /\ \A i \in 1 .. Len(depth) : depth[i] \in Nat
         /\ \A i \in 1 .. Len(batch) : batch[i] \in Nat
<1>1. published \in Seq(Nat \X Nat) /\ depth \in Seq(Nat) /\ batch \in Seq(Nat)
  BY DEF MarketInv, TypeOK
<1>2. \A x \in Nat \X Nat : x[1] \in Nat /\ x[2] \in Nat
  OBVIOUS
<1>3. \A i \in 1 .. Len(published) : published[i] \in Nat \X Nat
  BY <1>1
<1>4. \A i \in 1 .. Len(depth) : depth[i] \in Nat
  BY <1>1
<1>5. \A i \in 1 .. Len(batch) : batch[i] \in Nat
  BY <1>1
<1> QED BY <1>2, <1>3, <1>4, <1>5

(* What is published stays in order as long as the topics and the writer   *)
(* are left alone and Reached does not fall back.                          *)
LEMMA TopicsKept ==
  ASSUME MarketInv, UNCHANGED <<topics, batch>>, Reached <= Reached', Reached \in Int, Reached' \in Int,
         pc = "publish" => pc' = "publish" /\ offset' = offset /\ unsent' = unsent,
         pc' \in {"down", "fetchHWM", "replay"} => batch = << >>
  PROVE  ReportsInOrder' /\ PublishedOK' /\ DepthOK'
<1>0. published' = published /\ depth' = depth /\ batch' = batch
  BY DEF topics
<1>1. ReportsInOrder'
  BY <1>0 DEF MarketInv, ReportsInOrder
<1>2. PublishedOK'
  <2>1. \A i \in 1 .. Len(published) : published[i][1] \in Nat
    BY ElementTypes
  <2>2. PublishedOK
    BY DEF MarketInv
  <2>3. ASSUME NEW i \in 1 .. Len(published), published[i][1] < Reached
        PROVE  published[i][1] < Reached'
    BY <2>1, <2>3
  <2> QED BY <1>0, <2>2, <2>3 DEF PublishedOK
<1>3. DepthOK'
  <2>1. /\ \A i \in 1 .. Len(depth) : depth[i] \in Nat /\ depth[i] < Reached
        /\ \A i \in 1 .. Len(batch) : batch[i] \in Nat /\ batch[i] < Reached
    <3>1. /\ \A i \in 1 .. Len(depth) : depth[i] \in Nat
          /\ \A i \in 1 .. Len(batch) : batch[i] \in Nat
      BY ElementTypes
    <3>2. DepthOK
      BY DEF MarketInv
    <3> QED BY <3>1, <3>2 DEF DepthOK
  <2>2. /\ \A i \in 1 .. Len(depth) : depth[i] < Reached'
        /\ \A i \in 1 .. Len(batch) : batch[i] < Reached'
    BY <2>1
  <2> QED BY <1>0, <2>2 DEF MarketInv, DepthOK
<1> QED BY <1>1, <1>2, <1>3
(* Reached, and the files and books, by where the process is. *)
LEMMA Places ==
  ASSUME MarketInv
  PROVE  /\ Len(log) \in Nat /\ offset \in Int /\ hwm \in Nat /\ Reached \in Int
         /\ offset < Len(log) /\ hwm <= Len(log) /\ Reached <= Len(log)
         /\ pc \in {"down", "fetchHWM"} => Reached = Len(log)
         /\ pc = "replay" => Reached = hwm
         /\ pc \notin {"down", "fetchHWM", "replay"} => Reached = offset + 1
<1>1. Len(log) \in Nat /\ offset \in -1 .. Len(log) - 1 /\ hwm \in 0 .. Len(log)
  BY DEF MarketInv, TypeOK
<1> QED BY <1>1 DEF Reached

-----------------------------------------------------------------------------
(* One lemma per action. *)

(* A longer topic changes nothing about the messages before. *)
LEMMA ProduceInv == ASSUME MarketInv, NEW m \in Message, Produce(m) PROVE MarketInv'
<1>1. /\ log' = Append(log, m) /\ log \in Seq(Message) /\ TypeOK /\ WorkOK
      /\ published' = published /\ depth' = depth /\ batch' = batch
      /\ snapshot' = snapshot /\ tmp' = tmp /\ pc' = pc /\ offset' = offset /\ books' = books
      /\ hwm' = hwm /\ msgCount' = msgCount /\ unsent' = unsent /\ stopping' = stopping /\ faults' = faults
  BY DEF Produce, MarketInv, TypeOK, topics, disk, memory, local
<1>2. Len(log') = Len(log) + 1 /\ Len(log) \in Nat /\ log' \in Seq(Message)
  BY <1>1
<1>3. TypeOK'
  <2>1. offset' \in -1 .. Len(log') - 1 /\ hwm' \in 0 .. Len(log')
    BY <1>1, <1>2 DEF TypeOK
  <2> QED BY <1>1, <1>2, <2>1 DEF TypeOK
<1>4. WorkOK'
  BY <1>1, <1>2 DEF WorkOK, TypeOK
<1>5. SnapshotMatchesLog'
  <2>1. ASSUME snapshot # None, NEW x \in Symbols PROVE Holds(snapshot.books[x], x, snapshot.offset)'
    <3>1. Holds(snapshot.books[x], x, snapshot.offset) /\ snapshot.offset \in -1 .. Len(log) - 1
      BY <1>1, <2>1 DEF MarketInv, SnapshotMatchesLog, WorkOK
    <3>2. \A k \in 0 .. snapshot.offset : log'[k + 1] = log[k + 1]
      BY <1>1, <3>1
    <3>3. {k \in 0 .. snapshot.offset : log[k + 1] = x} = {k \in 0 .. snapshot.offset : log'[k + 1] = x}
      BY <3>2
    <3> QED BY <1>1, <3>1, <3>3 DEF Holds
  <2> QED BY <1>1, <2>1 DEF SnapshotMatchesLog
<1>6. BooksMatchLog'
  <2> DEFINE o == IF pc = "publish" THEN offset + 1 ELSE offset
  <2>1. o \in -1 .. Len(log) - 1
    BY <1>1 DEF TypeOK, WorkOK
  <2>2. ASSUME pc # "down", NEW x \in Symbols PROVE Holds(books[x], x, o)'
    <3>1. Holds(books[x], x, o)
      BY <2>2 DEF MarketInv, BooksMatchLog
    <3>2. \A k \in 0 .. o : log'[k + 1] = log[k + 1]
      BY <1>1, <2>1
    <3>3. o' = o
      BY <1>1
    <3> HIDE DEF o
    <3>4. {k \in 0 .. o : log[k + 1] = x} = {k \in 0 .. o : log'[k + 1] = x}
      BY <3>2
    <3> QED BY <1>1, <3>1, <3>3, <3>4 DEF Holds
  <2> QED BY <1>1, <2>2 DEF BooksMatchLog
<1>7. ReportsInOrder' /\ PublishedOK' /\ DepthOK'
  <2>1. Reached <= Reached' /\ Reached \in Int /\ Reached' \in Int
    BY <1>1, <1>2 DEF Reached, TypeOK
  <2>2. pc' \in {"down", "fetchHWM", "replay"} => batch = << >>
    BY <1>1 DEF MarketInv, DepthOK
  <2> QED BY <1>1, <2>1, <2>2, TopicsKept DEF topics
<1> QED BY <1>3, <1>4, <1>5, <1>6, <1>7 DEF MarketInv

(* Actions that leave the topics and both files alone, and the books in    *)
(* step with the offset.                                                   *)
LEMMA StartingInv ==
  ASSUME MarketInv, Load \/ FetchHWM \/ Replay \/ GoLive PROVE MarketInv'
<1>1. /\ log' = log /\ published' = published /\ depth' = depth /\ batch' = batch
      /\ snapshot' = snapshot /\ tmp' = tmp /\ unsent' = unsent /\ stopping' = stopping /\ faults' = faults
  BY DEF Load, FetchHWM, Replay, GoLive, topics, disk
<1>2. TypeOK /\ WorkOK /\ SnapshotMatchesLog /\ BooksMatchLog
  BY DEF MarketInv
<1>3. SnapshotMatchesLog'
  BY <1>1, <1>2 DEF SnapshotMatchesLog, Holds
<1>4. pc # "publish" /\ pc' \in {"fetchHWM", "replay", "live"}
      /\ (pc' \in {"fetchHWM", "replay"} => batch = << >>)
  BY DEF Load, FetchHWM, Replay, GoLive, MarketInv, DepthOK
<1>5. CASE Load
  <2>1. offset' \in -1 .. Len(log) - 1 /\ books' \in [Symbols -> Seq(Nat)]
    <3>1. CASE snapshot = None
      BY <1>2, <1>5, <3>1 DEF Load, NoBooks, TypeOK
    <3>2. CASE snapshot # None
      BY <1>2, <1>5, <3>2 DEF Load, TypeOK, File, WorkOK
    <3> QED BY <3>1, <3>2
  <2>2. TypeOK' /\ WorkOK'
    BY <1>1, <1>2, <1>5, <2>1 DEF Load, TypeOK, WorkOK
  <2>3. BooksMatchLog'
    <3>1. CASE snapshot = None
      BY <1>1, <1>5, <3>1 DEF Load, NoBooks, BooksMatchLog, Holds
    <3>2. CASE snapshot # None
      BY <1>1, <1>2, <1>5, <3>2 DEF Load, BooksMatchLog, SnapshotMatchesLog, Holds
    <3> QED BY <3>1, <3>2
  <2>4. Reached = Reached' /\ Reached \in Int
    BY <1>1, <1>2, <1>5 DEF Load, Reached, TypeOK
  <2> QED BY <1>1, <1>3, <1>4, <2>2, <2>3, <2>4, TopicsKept DEF MarketInv, topics
<1>6. CASE FetchHWM
  <2>1. TypeOK' /\ WorkOK'
    BY <1>1, <1>2, <1>6 DEF FetchHWM, TypeOK, WorkOK
  <2>2. BooksMatchLog'
    BY <1>1, <1>2, <1>6 DEF FetchHWM, BooksMatchLog, Holds
  <2>3. Reached = Reached' /\ Reached \in Int
    BY <1>1, <1>2, <1>6 DEF FetchHWM, Reached, TypeOK
  <2> QED BY <1>1, <1>3, <1>4, <2>1, <2>2, <2>3, TopicsKept DEF MarketInv, topics
<1>7. CASE Replay
  <2>1. /\ pc = "replay" /\ pc' = pc /\ offset + 1 < Len(log) /\ books' = Dispatched /\ offset' = offset + 1
        /\ hwm' = hwm /\ msgCount' = msgCount
    BY <1>2, <1>7 DEF Replay, TypeOK
  <2>2. /\ Dispatched \in [Symbols -> Seq(Nat)]
        /\ \A x \in Symbols : Holds(Dispatched[x], x, offset + 1)
    BY <1>2, <2>1, DispatchedHolds DEF BooksMatchLog
  <2>3. TypeOK' /\ WorkOK'
    BY <1>1, <1>2, <2>1, <2>2 DEF TypeOK, WorkOK
  <2>4. BooksMatchLog'
    BY <1>1, <2>1, <2>2 DEF BooksMatchLog, Holds
  <2>5. Reached = Reached' /\ Reached \in Int
    BY <1>1, <1>2, <2>1 DEF Reached, TypeOK
  <2> QED BY <1>1, <1>3, <1>4, <2>3, <2>4, <2>5, TopicsKept DEF MarketInv, topics
<1>8. CASE GoLive
  <2>1. TypeOK' /\ WorkOK'
    BY <1>1, <1>2, <1>8 DEF GoLive, TypeOK, WorkOK
  <2>2. BooksMatchLog'
    BY <1>1, <1>2, <1>8 DEF GoLive, BooksMatchLog, Holds
  <2>3. Reached <= Reached' /\ Reached \in Int /\ Reached' \in Int
    BY <1>1, <1>2, <1>8 DEF GoLive, Reached, TypeOK
  <2> QED BY <1>1, <1>3, <1>4, <2>1, <2>2, <2>3, TopicsKept DEF MarketInv, topics
<1> QED BY <1>5, <1>6, <1>7, <1>8
(* A live message is applied, and is then to be published. *)
LEMMA DispatchInv == ASSUME MarketInv, Dispatch PROVE MarketInv'
<1>1. /\ log' = log /\ published' = published /\ depth' = depth /\ batch' = batch
      /\ snapshot' = snapshot /\ tmp' = tmp /\ stopping' = stopping /\ faults' = faults
      /\ offset' = offset /\ hwm' = hwm /\ msgCount' = msgCount
      /\ pc = "live" /\ pc' = "publish" /\ offset + 1 < Len(log) /\ books' = Dispatched
      /\ unsent' \in {0, EventsPerMessage}
  BY DEF Dispatch, topics, disk
<1>2. TypeOK /\ WorkOK /\ SnapshotMatchesLog /\ BooksMatchLog
  BY DEF MarketInv
<1>3. /\ Dispatched \in [Symbols -> Seq(Nat)]
      /\ \A x \in Symbols : Holds(Dispatched[x], x, offset + 1)
  BY <1>1, <1>2, DispatchedHolds DEF BooksMatchLog
<1>4. TypeOK' /\ WorkOK'
  BY <1>1, <1>2, <1>3, EventsAssumption DEF TypeOK, WorkOK
<1>5. SnapshotMatchesLog' /\ BooksMatchLog'
  BY <1>1, <1>2, <1>3 DEF SnapshotMatchesLog, BooksMatchLog, Holds
<1>6. Reached = Reached' /\ Reached \in Int
  BY <1>1, <1>2 DEF Reached, TypeOK
<1> QED BY <1>1, <1>4, <1>5, <1>6, TopicsKept DEF MarketInv, topics

(* A report that goes out is the next one of the message, and all before   *)
(* are of earlier messages or have smaller numbers.                        *)
LEMMA PublishInv == ASSUME MarketInv, Publish PROVE MarketInv'
<1> DEFINE r == <<offset + 1, EventsPerMessage - unsent + 1>>
<1>1. /\ log' = log /\ depth' = depth /\ batch' = batch /\ books' = books
      /\ snapshot' = snapshot /\ tmp' = tmp /\ stopping' = stopping
      /\ offset' = offset /\ hwm' = hwm /\ msgCount' = msgCount
      /\ pc = "publish" /\ pc' = pc /\ unsent > 0 /\ unsent' = unsent - 1
      /\ \/ published' = Append(published, r) /\ faults' = faults
         \/ published' = published /\ faults' = faults + 1 /\ faults < MaxFaults
  BY DEF Publish, disk, Fault
<1>2. TypeOK /\ WorkOK /\ SnapshotMatchesLog /\ BooksMatchLog /\ ReportsInOrder /\ PublishedOK /\ DepthOK
  BY DEF MarketInv
<1>3. /\ r \in Nat \X Nat /\ r[1] = offset + 1 /\ r[2] = EventsPerMessage - unsent + 1
      /\ offset \in Int /\ unsent \in Int /\ EventsPerMessage \in Int /\ published \in Seq(Nat \X Nat)
  BY <1>1, <1>2, EventsAssumption DEF TypeOK
<1> HIDE DEF r
<1>4. published' \in Seq(Nat \X Nat)
  <2> DEFINE S == Nat \X Nat
  <2>1. published \in Seq(S) /\ r \in S
    BY <1>3
  <2> HIDE DEF S
  <2>2. published' \in Seq(S)
    BY <1>1, <2>1
  <2> QED BY <2>2 DEF S
<1>5. TypeOK' /\ WorkOK'
  BY <1>1, <1>2, <1>4, EventsAssumption, BoundsAssumption DEF TypeOK, WorkOK
<1>6. SnapshotMatchesLog' /\ BooksMatchLog'
  BY <1>1, <1>2 DEF SnapshotMatchesLog, BooksMatchLog, Holds
<1>7. Reached = offset + 1 /\ Reached' = offset + 1
  BY <1>1 DEF Reached
<1>8. DepthOK'
  BY <1>1, <1>2, <1>7 DEF DepthOK
<1>9. \A i \in 1 .. Len(published) :
        /\ published[i][1] \in Nat /\ published[i][2] \in Nat
        /\ \/ published[i][1] < offset + 1
           \/ published[i][1] = offset + 1 /\ published[i][2] <= EventsPerMessage - unsent
  BY <1>1, <1>2, <1>7, ElementTypes DEF PublishedOK
<1>10. CASE published' = published
  BY <1>1, <1>2, <1>3, <1>5, <1>6, <1>7, <1>8, <1>9, <1>10 DEF MarketInv, PublishedOK, ReportsInOrder
<1>11. CASE published' = Append(published, r)
  <2>1. /\ Len(published') = Len(published) + 1 /\ Len(published) \in Nat
        /\ published'[Len(published) + 1] = r
        /\ \A i \in 1 .. Len(published) : published'[i] = published[i]
    BY <1>3, <1>11
  <2>2. PublishedOK'
    <3>1. ASSUME NEW i \in 1 .. Len(published')
          PROVE  \/ published'[i][1] < offset + 1
                 \/ published'[i][1] = offset + 1 /\ published'[i][2] <= EventsPerMessage - unsent'
      <4>1. CASE i = Len(published) + 1
        BY <1>1, <1>3, <2>1, <4>1
      <4>2. CASE i # Len(published) + 1
        <5>1. i \in 1 .. Len(published) /\ published'[i] = published[i]
          BY <2>1, <3>1, <4>2
        <5>2. published[i][2] \in Nat
          BY <1>9, <5>1
        <5>3. published[i][2] <= EventsPerMessage - unsent
                => published[i][2] <= EventsPerMessage - (unsent - 1)
          BY <1>3, <5>2
        <5>4. \/ published[i][1] < offset + 1
              \/ published[i][1] = offset + 1 /\ published[i][2] <= EventsPerMessage - unsent
          BY <1>9, <5>1
        <5> QED BY <1>1, <5>1, <5>3, <5>4
      <4> QED BY <4>1, <4>2
    <3> QED BY <1>1, <1>7, <3>1 DEF PublishedOK
  <2>3. ReportsInOrder'
    <3>1. ASSUME NEW i \in 1 .. Len(published'), NEW j \in 1 .. Len(published'), i < j
          PROVE  \/ published'[i][1] < published'[j][1]
                 \/ published'[i][1] = published'[j][1] /\ published'[i][2] < published'[j][2]
      <4>1. i \in 1 .. Len(published)
        BY <2>1, <3>1
      <4>2. CASE j = Len(published) + 1
        <5>1. published'[i] = published[i] /\ published'[j] = r
          BY <2>1, <4>1, <4>2
        <5>2. \/ published[i][1] < r[1]
              \/ published[i][1] = r[1] /\ published[i][2] < r[2]
          BY <1>3, <1>9, <4>1
        <5> QED BY <5>1, <5>2
      <4>3. CASE j # Len(published) + 1
        BY <1>2, <2>1, <3>1, <4>1, <4>3 DEF ReportsInOrder
      <4> QED BY <4>2, <4>3
    <3> QED BY <1>1, <1>2, <3>1 DEF ReportsInOrder
  <2> QED BY <1>5, <1>6, <1>8, <2>2, <2>3 DEF MarketInv
<1> QED BY <1>1, <1>10, <1>11

(* The message is done; its depth update is behind all others in the writer. *)
LEMMA AdvanceInv == ASSUME MarketInv, Advance PROVE MarketInv'
<1>1. /\ log' = log /\ published' = published /\ depth' = depth /\ books' = books
      /\ snapshot' = snapshot /\ tmp' = tmp /\ stopping' = stopping /\ faults' = faults
      /\ offset' = offset + 1 /\ hwm' = hwm /\ msgCount' = msgCount + 1
      /\ pc = "publish" /\ pc' \in {"live", "persist"} /\ unsent = 0 /\ unsent' = unsent
      /\ batch' = batch \/ batch' = Append(batch, offset + 1)
  BY DEF Advance, PublishDepth, topics, disk
<1>2. TypeOK /\ WorkOK /\ SnapshotMatchesLog /\ BooksMatchLog /\ ReportsInOrder /\ PublishedOK /\ DepthOK
  BY DEF MarketInv
<1>3. offset \in Int /\ offset + 1 \in Nat /\ offset + 1 < Len(log) /\ batch \in Seq(Nat) /\ batch' \in Seq(Nat)
  <2>1. offset \in Int /\ offset + 1 \in Nat /\ offset + 1 < Len(log) /\ batch \in Seq(Nat)
    BY <1>1, <1>2 DEF TypeOK, WorkOK
  <2> QED BY <1>1, <2>1
<1>4. TypeOK' /\ WorkOK'
  BY <1>1, <1>2, <1>3 DEF TypeOK, WorkOK
<1>5. SnapshotMatchesLog' /\ BooksMatchLog' /\ ReportsInOrder'
  BY <1>1, <1>2 DEF SnapshotMatchesLog, BooksMatchLog, Holds, ReportsInOrder
<1>6. Reached = offset + 1 /\ Reached' = offset + 2
  BY <1>1, <1>3 DEF Reached
<1>7. PublishedOK'
  <2>1. \A i \in 1 .. Len(published) : published[i][1] < offset + 2
    BY <1>2, <1>3, <1>6, ElementTypes DEF PublishedOK
  <2> QED BY <1>1, <1>6, <2>1 DEF PublishedOK
<1>8. /\ \A i \in 1 .. Len(depth) : depth[i] \in Nat /\ depth[i] < offset + 1
      /\ \A i \in 1 .. Len(batch) : batch[i] \in Nat /\ batch[i] < offset + 1
  BY <1>2, <1>6, ElementTypes DEF DepthOK
<1>9. DepthOK'
  <2>1. CASE batch' = batch
    BY <1>1, <1>2, <1>3, <1>6, <1>8, <2>1 DEF DepthOK
  <2>2. CASE batch' = Append(batch, offset + 1)
    <3>1. /\ Len(batch') = Len(batch) + 1 /\ Len(batch) \in Nat /\ batch'[Len(batch) + 1] = offset + 1
          /\ \A i \in 1 .. Len(batch) : batch'[i] = batch[i]
      BY <1>3, <2>2
    <3>2. \A i \in 1 .. Len(batch') : batch'[i] < offset + 2
      BY <1>3, <1>8, <3>1
    <3>3. ASSUME NEW i \in 1 .. Len(batch'), NEW j \in 1 .. Len(batch'), i < j PROVE batch'[i] < batch'[j]
      <4>1. i \in 1 .. Len(batch)
        BY <3>1, <3>3
      <4>2. CASE j = Len(batch) + 1
        BY <1>8, <3>1, <4>1, <4>2
      <4>3. CASE j # Len(batch) + 1
        BY <1>2, <3>1, <3>3, <4>1, <4>3 DEF DepthOK
      <4> QED BY <4>2, <4>3
    <3>4. ASSUME NEW i \in 1 .. Len(depth), NEW j \in 1 .. Len(batch') PROVE depth[i] < batch'[j]
      <4>1. CASE j = Len(batch) + 1
        BY <1>8, <3>1, <4>1
      <4>2. CASE j # Len(batch) + 1
        BY <1>2, <3>1, <4>2 DEF DepthOK
      <4> QED BY <4>1, <4>2
    <3>5. \A i \in 1 .. Len(depth) : depth[i] < offset + 2
      BY <1>3, <1>8
    <3> QED BY <1>1, <1>6, <3>2, <3>3, <3>4, <3>5 DEF DepthOK
  <2> QED BY <1>1, <2>1, <2>2
<1> QED BY <1>4, <1>5, <1>7, <1>9 DEF MarketInv
(* The writer sends its first update, which is newer than all that went    *)
(* out and older than all that wait, or drops it.                          *)
LEMMA SendDepthInv == ASSUME MarketInv, SendDepth PROVE MarketInv'
<1>1. /\ log' = log /\ published' = published /\ books' = books /\ snapshot' = snapshot /\ tmp' = tmp
      /\ stopping' = stopping /\ offset' = offset /\ hwm' = hwm /\ msgCount' = msgCount
      /\ pc' = pc /\ unsent' = unsent /\ batch # << >> /\ batch' = Tail(batch)
      /\ \/ depth' = Append(depth, Head(batch)) /\ faults' = faults
         \/ depth' = depth /\ faults' = faults + 1 /\ faults < MaxFaults
  BY DEF SendDepth, disk, local, Fault
<1>2. TypeOK /\ WorkOK /\ SnapshotMatchesLog /\ BooksMatchLog /\ ReportsInOrder /\ PublishedOK /\ DepthOK
  BY DEF MarketInv
<1>3. depth \in Seq(Nat) /\ batch \in Seq(Nat)
  BY <1>2 DEF TypeOK
<1>4. /\ Len(batch) \in Nat \ {0} /\ Head(batch) = batch[1] /\ Head(batch) \in Nat
      /\ Tail(batch) \in Seq(Nat) /\ Len(batch') = Len(batch) - 1
      /\ \A i \in 1 .. Len(batch') : i + 1 \in 1 .. Len(batch) /\ batch'[i] = batch[i + 1]
  BY <1>1, <1>3
<1>5. depth' \in Seq(Nat)
  <2>1. Append(depth, Head(batch)) \in Seq(Nat)
    BY <1>3, <1>4
  <2> QED BY <1>1, <1>3, <2>1
<1>6. TypeOK' /\ WorkOK'
  <2>1. faults' \in 0 .. MaxFaults
    BY <1>1, <1>2, BoundsAssumption DEF TypeOK
  <2>2. batch' \in Seq(Nat)
    BY <1>1, <1>4
  <2>3. TypeOK'
    BY <1>1, <1>2, <1>5, <2>1, <2>2 DEF TypeOK
  <2> QED BY <1>1, <1>2, <2>3 DEF WorkOK
<1>7. SnapshotMatchesLog' /\ BooksMatchLog'
  BY <1>1, <1>2 DEF SnapshotMatchesLog, BooksMatchLog, Holds
<1>8. Reached' = Reached
  BY <1>1 DEF Reached
<1>9. PublishedOK'
  BY <1>1, <1>2, <1>8 DEF PublishedOK
<1>10. \A i \in 1 .. Len(batch') : batch'[i] < Reached
  BY <1>2, <1>4 DEF DepthOK
<1>11. \A i, j \in 1 .. Len(batch') : i < j => batch'[i] < batch'[j]
  <2>1. ASSUME NEW i \in 1 .. Len(batch'), NEW j \in 1 .. Len(batch'), i < j PROVE batch'[i] < batch'[j]
    <3>1. i + 1 \in 1 .. Len(batch) /\ j + 1 \in 1 .. Len(batch) /\ i + 1 < j + 1
      BY <1>4, <2>1
    <3>2. batch[i + 1] < batch[j + 1]
      BY <1>2, <3>1 DEF DepthOK
    <3> QED BY <1>4, <3>2
  <2> QED BY <2>1
<1>12. pc' \in {"down", "fetchHWM", "replay"} => batch' = << >>
  BY <1>1, <1>2 DEF DepthOK
<1>13. \A i \in 1 .. Len(batch') : Head(batch) < batch'[i]
  <2>1. ASSUME NEW i \in 1 .. Len(batch') PROVE Head(batch) < batch'[i]
    <3>1. 1 \in 1 .. Len(batch) /\ i + 1 \in 1 .. Len(batch) /\ 1 < i + 1
      BY <1>4, <2>1
    <3>2. batch[1] < batch[i + 1]
      BY <1>2, <3>1 DEF DepthOK
    <3> QED BY <1>4, <3>2
  <2> QED BY <2>1
<1>14. CASE depth' = depth
  <2>1. \A i \in 1 .. Len(depth), j \in 1 .. Len(batch') : depth[i] < batch'[j]
    BY <1>2, <1>4 DEF DepthOK
  <2>2. DepthOK'
    BY <1>2, <1>8, <1>10, <1>11, <1>12, <1>14, <2>1 DEF DepthOK
  <2>3. ReportsInOrder'
    BY <1>1, <1>2, <1>14 DEF ReportsInOrder
  <2> QED BY <1>6, <1>7, <1>9, <2>2, <2>3 DEF MarketInv
<1>15. CASE depth' = Append(depth, Head(batch))
  <2>1. /\ Len(depth') = Len(depth) + 1 /\ Len(depth) \in Nat /\ depth'[Len(depth) + 1] = Head(batch)
        /\ \A i \in 1 .. Len(depth) : depth'[i] = depth[i]
    BY <1>3, <1>4, <1>15
  <2>2. 1 \in 1 .. Len(batch)
    BY <1>4
  <2>3. Head(batch) < Reached /\ \A i \in 1 .. Len(depth) : depth[i] < Reached /\ depth[i] < Head(batch)
    BY <1>2, <1>4, <2>2 DEF DepthOK
  <2>4. \A i \in 1 .. Len(depth') : i \in 1 .. Len(depth) \/ i = Len(depth) + 1
    BY <2>1
  <2>5. \A i \in 1 .. Len(depth') : depth'[i] < Reached
    BY <2>1, <2>3, <2>4
  <2>6. ASSUME NEW i \in 1 .. Len(depth'), NEW j \in 1 .. Len(batch') PROVE depth'[i] < batch'[j]
    <3>1. CASE i = Len(depth) + 1
      BY <1>13, <2>1, <3>1
    <3>2. CASE i \in 1 .. Len(depth)
      <4>1. depth'[i] = depth[i] /\ batch'[j] = batch[j + 1] /\ j + 1 \in 1 .. Len(batch)
        BY <1>4, <2>1, <3>2
      <4>2. depth[i] < batch[j + 1]
        BY <1>2, <3>2, <4>1 DEF DepthOK
      <4> QED BY <4>1, <4>2
    <3> QED BY <2>4, <3>1, <3>2
  <2>7. DepthOK'
    BY <1>8, <1>10, <1>11, <1>12, <2>5, <2>6 DEF DepthOK
  <2>8. ASSUME NEW i \in 1 .. Len(depth'), NEW j \in 1 .. Len(depth'), i < j PROVE depth'[i] < depth'[j]
    <3>1. i \in 1 .. Len(depth)
      BY <2>1, <2>8
    <3>2. CASE j = Len(depth) + 1
      BY <2>1, <2>3, <3>1, <3>2
    <3>3. CASE j \in 1 .. Len(depth)
      <4>1. depth[i] < depth[j]
        BY <1>2, <2>8, <3>1, <3>3 DEF ReportsInOrder
      <4> QED BY <2>1, <3>1, <3>3, <4>1
    <3> QED BY <2>4, <3>2, <3>3
  <2>9. ReportsInOrder'
    BY <1>1, <1>2, <2>8 DEF ReportsInOrder
  <2> QED BY <1>6, <1>7, <1>9, <2>7, <2>9 DEF MarketInv
<1> QED BY <1>1, <1>14, <1>15

(* Flushing: the files change, the books and the topics do not. *)
LEMMA FlushInv ==
  ASSUME MarketInv, Stop \/ FinalFlush \/ WriteTmp \/ Rename \/ PersistFails PROVE MarketInv'
<1>1. /\ log' = log /\ published' = published /\ depth' = depth /\ batch' = batch /\ books' = books
      /\ offset' = offset /\ hwm' = hwm /\ unsent' = unsent
  BY DEF Stop, FinalFlush, WriteTmp, Rename, PersistFails, topics
<1>2. TypeOK /\ WorkOK /\ SnapshotMatchesLog /\ BooksMatchLog
  BY DEF MarketInv
<1>3. /\ pc \notin {"down", "fetchHWM", "replay"} /\ pc' \notin {"down", "fetchHWM", "replay"}
      /\ (pc = "publish" <=> pc' = "publish")
  BY DEF Stop, FinalFlush, WriteTmp, Rename, PersistFails
<1>4. BooksMatchLog'
  BY <1>1, <1>2, <1>3 DEF BooksMatchLog, Holds
<1>5. Reached = Reached' /\ Reached \in Int
  BY <1>1, <1>2, <1>3 DEF Reached, TypeOK
<1>6. ReportsInOrder' /\ PublishedOK' /\ DepthOK'
  BY <1>1, <1>3, <1>5, TopicsKept DEF topics
<1>7. CASE Stop \/ FinalFlush \/ PersistFails
  <2>0. /\ snapshot' = snapshot /\ tmp' = tmp /\ stopping' \in {stopping, TRUE}
        /\ msgCount' \in {msgCount, 0} /\ pc' \in {pc, "finalPersist", "live"}
        /\ pc' \notin {"rename", "finalRename"} \/ pc' = pc
        /\ faults' = faults \/ (faults' = faults + 1 /\ faults < MaxFaults)
    BY <1>7 DEF Stop, FinalFlush, PersistFails, Fault, disk
  <2>1. TypeOK' /\ WorkOK'
    <3>1. faults' \in 0 .. MaxFaults
      BY <1>2, <2>0, BoundsAssumption DEF TypeOK
    <3>2. stopping' \in BOOLEAN
      <4>1. stopping \in BOOLEAN
        BY <1>2 DEF TypeOK
      <4> QED BY <2>0, <4>1
    <3>3. msgCount' \in Nat
      BY <1>2, <2>0 DEF TypeOK
    <3>4. TypeOK'
      BY <1>1, <1>2, <2>0, <3>1, <3>2, <3>3 DEF TypeOK
    <3> QED BY <1>1, <1>2, <1>3, <2>0, <3>4 DEF WorkOK
  <2>2. SnapshotMatchesLog'
    BY <1>1, <1>2, <1>7 DEF Stop, FinalFlush, PersistFails, disk, SnapshotMatchesLog, Holds
  <2> QED BY <1>4, <1>6, <2>1, <2>2 DEF MarketInv
<1>8. CASE WriteTmp
  <2>1. [offset |-> offset, books |-> books] \in File
    BY <1>2 DEF TypeOK, File
  <2>2. TypeOK' /\ WorkOK'
    BY <1>1, <1>2, <1>8, <2>1 DEF WriteTmp, TypeOK, WorkOK
  <2>3. SnapshotMatchesLog'
    BY <1>1, <1>2, <1>8 DEF WriteTmp, SnapshotMatchesLog, Holds
  <2> QED BY <1>4, <1>6, <2>2, <2>3 DEF MarketInv
<1>9. CASE Rename
  <2>1. /\ snapshot' = [offset |-> offset, books |-> books] /\ tmp' = None
        /\ pc' \in {"live", "close"} /\ msgCount' \in {0, msgCount}
        /\ stopping' = stopping /\ faults' = faults /\ pc \in {"rename", "finalRename"}
    BY <1>2, <1>9 DEF Rename, WorkOK
  <2>2. snapshot' \in File /\ None \in File
    BY <1>2, <2>1 DEF TypeOK, File
  <2>3. TypeOK' /\ WorkOK'
    BY <1>1, <1>2, <2>1, <2>2 DEF TypeOK, WorkOK
  <2>4. SnapshotMatchesLog'
    BY <1>1, <1>2, <2>1 DEF SnapshotMatchesLog, BooksMatchLog, Holds
  <2> QED BY <1>4, <1>6, <2>3, <2>4 DEF MarketInv
<1> QED BY <1>7, <1>8, <1>9

(* The process ends: what was published is now behind the end of the topic. *)
LEMMA EndInv == ASSUME MarketInv, Close \/ Crash PROVE MarketInv'
<1>1. /\ Gone /\ log' = log /\ published' = published /\ depth' = depth
      /\ snapshot' = snapshot /\ tmp' = tmp
      /\ faults' = faults \/ (faults' = faults + 1 /\ faults < MaxFaults)
  BY DEF Close, Crash, topics, disk, Fault
<1>2. /\ pc' = "down" /\ offset' = -1 /\ books' = NoBooks /\ hwm' = 0
      /\ msgCount' = 0 /\ unsent' = 0 /\ stopping' = FALSE /\ batch' = << >>
  BY <1>1 DEF Gone
<1>3. TypeOK /\ WorkOK /\ SnapshotMatchesLog /\ ReportsInOrder /\ PublishedOK /\ DepthOK
  BY DEF MarketInv
<1>4. TypeOK'
  <2>1. NoBooks \in [Symbols -> Seq(Nat)]
    BY DEF NoBooks
  <2>2. faults' \in 0 .. MaxFaults
    BY <1>1, <1>3, BoundsAssumption DEF TypeOK
  <2>3. offset' \in -1 .. Len(log) - 1 /\ hwm' \in 0 .. Len(log) /\ unsent' \in 0 .. EventsPerMessage
    BY <1>2, EventsAssumption, Places
  <2>4. batch' \in Seq(Nat) /\ msgCount' \in Nat
    BY <1>2
  <2> QED BY <1>1, <1>2, <1>3, <2>1, <2>2, <2>3, <2>4 DEF TypeOK
<1>5. WorkOK' /\ SnapshotMatchesLog' /\ BooksMatchLog' /\ ReportsInOrder'
  BY <1>1, <1>2, <1>3 DEF WorkOK, SnapshotMatchesLog, BooksMatchLog, ReportsInOrder, Holds
<1>6. Reached' = Len(log)
  BY <1>1, <1>2 DEF Reached
<1>7. PublishedOK'
  <2>1. ASSUME NEW i \in 1 .. Len(published) PROVE published[i][1] < Len(log)
    <3>1. published[i][1] \in Nat
      BY ElementTypes
    <3>2. published[i][1] < Reached \/ (pc = "publish" /\ published[i][1] = offset + 1)
      BY <1>3 DEF PublishedOK
    <3> QED BY <1>3, <3>1, <3>2, Places DEF WorkOK
  <2> QED BY <1>1, <1>6, <2>1 DEF PublishedOK
<1>8. DepthOK'
  <2>1. \A i \in 1 .. Len(depth) : depth[i] \in Nat /\ depth[i] < Reached
    BY <1>3, ElementTypes DEF DepthOK
  <2>2. \A i \in 1 .. Len(depth) : depth[i] < Len(log)
    BY <2>1, Places
  <2>3. 1 .. Len(batch') = {}
    BY <1>2
  <2> QED BY <1>1, <1>2, <1>6, <2>2, <2>3 DEF DepthOK
<1> QED BY <1>4, <1>5, <1>7, <1>8 DEF MarketInv
-----------------------------------------------------------------------------
(* Nothing has been read or published before the first start. *)
LEMMA MarketInit == Init => MarketInv
<1> SUFFICES ASSUME Init PROVE MarketInv
  OBVIOUS
<1>1. TypeOK
  <2>1. NoBooks \in [Symbols -> Seq(Nat)]
    BY DEF NoBooks
  <2>2. Len(log) = 0 /\ log \in Seq(Message) /\ published \in Seq(Nat \X Nat)
        /\ depth \in Seq(Nat) /\ batch \in Seq(Nat)
    BY DEF Init
  <2>3. /\ snapshot \in File /\ tmp \in File
        /\ unsent \in 0 .. EventsPerMessage /\ faults \in 0 .. MaxFaults /\ msgCount \in Nat
    BY EventsAssumption, BoundsAssumption DEF Init, File
  <2>4. offset \in -1 .. Len(log) - 1 /\ hwm \in 0 .. Len(log)
    BY <2>2 DEF Init
  <2>5. pc = "down" /\ books = NoBooks /\ stopping \in BOOLEAN
    BY DEF Init
  <2> QED BY <2>1, <2>2, <2>3, <2>4, <2>5 DEF TypeOK
<1>2. WorkOK /\ SnapshotMatchesLog /\ BooksMatchLog /\ ReportsInOrder /\ PublishedOK /\ DepthOK
  BY DEF Init, WorkOK, SnapshotMatchesLog, BooksMatchLog, ReportsInOrder, PublishedOK, DepthOK
<1> QED BY <1>1, <1>2 DEF MarketInv

(* The invariant holds after every step. *)
LEMMA MarketStep == MarketInv /\ [Next]_vars => MarketInv'
<1> SUFFICES ASSUME MarketInv, [Next]_vars PROVE MarketInv'
  OBVIOUS
<1>1. ASSUME NEW m \in Message, Produce(m) PROVE MarketInv'
  BY <1>1, ProduceInv
<1>2. CASE Load \/ FetchHWM \/ Replay \/ GoLive
  BY <1>2, StartingInv
<1>3. CASE Dispatch
  BY <1>3, DispatchInv
<1>4. CASE Publish
  BY <1>4, PublishInv
<1>5. CASE Advance
  BY <1>5, AdvanceInv
<1>6. CASE SendDepth
  BY <1>6, SendDepthInv
<1>7. CASE Stop \/ FinalFlush \/ WriteTmp \/ Rename \/ PersistFails
  BY <1>7, FlushInv
<1>8. CASE Close \/ Crash
  BY <1>8, EndInv
<1>9. CASE UNCHANGED vars
  <2>1. /\ log' = log /\ published' = published /\ depth' = depth /\ batch' = batch
        /\ snapshot' = snapshot /\ tmp' = tmp /\ pc' = pc /\ offset' = offset /\ books' = books
        /\ hwm' = hwm /\ msgCount' = msgCount /\ unsent' = unsent /\ stopping' = stopping /\ faults' = faults
    BY <1>9 DEF vars, topics, disk, memory, local
  <2>2. Reached' = Reached
    BY <2>1 DEF Reached
  <2>0. TypeOK'
    BY <2>1 DEF MarketInv, TypeOK
  <2>3. WorkOK' /\ SnapshotMatchesLog' /\ BooksMatchLog' /\ ReportsInOrder'
    BY <2>1 DEF MarketInv, WorkOK, SnapshotMatchesLog, BooksMatchLog, Holds, ReportsInOrder
  <2>4. PublishedOK' /\ DepthOK'
    BY <2>1, <2>2 DEF MarketInv, PublishedOK, DepthOK
  <2> QED BY <2>0, <2>3, <2>4 DEF MarketInv
<1> QED BY <1>1, <1>2, <1>3, <1>4, <1>5, <1>6, <1>7, <1>8, <1>9 DEF Next, Run

(* The invariant holds always. *)
LEMMA MarketAlways == Spec => []MarketInv
  BY MarketInit, MarketStep, PTL DEF Spec

(* A snapshot found after a crash at any point is that of the topic up to  *)
(* the offset stored with it, although it is written in two steps.         *)
THEOREM SnapshotsCorrect == Spec => []SnapshotMatchesLog
<1>1. MarketInv => SnapshotMatchesLog
  BY DEF MarketInv
<1> QED BY <1>1, MarketAlways, PTL

(* No message is skipped or applied twice, whatever crashes, failed        *)
(* flushes and replays came before.                                        *)
THEOREM BooksCorrect == Spec => []BooksMatchLog
<1>1. MarketInv => BooksMatchLog
  BY DEF MarketInv
<1> QED BY <1>1, MarketAlways, PTL

(* Reports and depth updates are published in topic order and none twice:  *)
(* a process that starts replays silently at least as far as any before it *)
(* has published.                                                          *)
THEOREM ReportsOrdered == Spec => []ReportsInOrder
<1>1. MarketInv => ReportsInOrder
  BY DEF MarketInv
<1> QED BY <1>1, MarketAlways, PTL

(* What leaves the front of the writer's batch was its head. *)
LEMMA TailMembers ==
  ASSUME NEW s \in Seq(Nat), s # << >>
  PROVE  Members(s) \subseteq Members(Tail(s)) \cup {Head(s)}
<1> SUFFICES ASSUME NEW i \in 1 .. Len(s) PROVE s[i] \in Members(Tail(s)) \cup {Head(s)}
  BY DEF Members
<1>1. CASE i = 1
  BY <1>1
<1>2. CASE i # 1
  <2>1. i - 1 \in 1 .. Len(Tail(s)) /\ Tail(s)[i - 1] = s[i]
    BY <1>2
  <2> QED BY <2>1 DEF Members
<1> QED BY <1>1, <1>2

(* What is appended is a member, and the members before it stay. *)
LEMMA AppendMembers ==
  ASSUME NEW s \in Seq(Nat), NEW k \in Nat
  PROVE  k \in Members(Append(s, k)) /\ Members(s) \subseteq Members(Append(s, k))
<1>1. Len(Append(s, k)) = Len(s) + 1 /\ Append(s, k)[Len(s) + 1] = k
  OBVIOUS
<1>2. \A i \in 1 .. Len(s) : Append(s, k)[i] = s[i]
  OBVIOUS
<1>3. Len(s) \in Nat
  OBVIOUS
<1>4. k \in Members(Append(s, k))
  BY <1>1, <1>3 DEF Members
<1>5. ASSUME NEW i \in 1 .. Len(s) PROVE s[i] \in Members(Append(s, k))
  BY <1>1, <1>2, <1>3, <1>5 DEF Members
<1> QED BY <1>4, <1>5 DEF Members

(* A depth update leaves the asynchronous writer for the topic, also when  *)
(* the process is told to stop, unless the process crashes or the write    *)
(* fails.                                                                  *)
THEOREM DepthAlwaysDelivered == Spec => DepthDelivered
<1> DEFINE Step == \A k \in Members(batch) \ Members(batch') :
                     k \in Members(depth') \/ faults' > faults
<1>1. MarketInv /\ [Next]_vars => Step
  <2> SUFFICES ASSUME MarketInv, [Next]_vars PROVE Step
    OBVIOUS
  <2>0. batch \in Seq(Nat) /\ depth \in Seq(Nat) /\ faults \in Nat /\ offset \in Int /\ offset >= -1
    BY BoundsAssumption DEF MarketInv, TypeOK
  <2>1. CASE batch' = batch
    BY <2>1
  <2>2. CASE Advance
    <3>1. CASE batch' = Append(batch, offset + 1)
      <4>1. offset + 1 \in Nat
        BY <2>0
      <4> QED BY <2>0, <3>1, <4>1, AppendMembers
    <3> QED BY <2>1, <2>2, <3>1 DEF Advance, PublishDepth
  <2>3. CASE SendDepth
    <3>1. batch # << >> /\ batch' = Tail(batch)
      BY <2>3 DEF SendDepth
    <3>2. CASE depth' = Append(depth, Head(batch))
      <4>1. Head(batch) \in Nat
        BY <2>0, <3>1
      <4> QED BY <2>0, <3>1, <3>2, <4>1, TailMembers, AppendMembers
    <3>3. CASE Fault
      BY <2>0, <3>3 DEF Fault
    <3> QED BY <2>3, <3>2, <3>3 DEF SendDepth
  <2>4. CASE Close
    BY <2>4 DEF Close, Members
  <2>5. CASE Crash
    BY <2>0, <2>5 DEF Crash, Fault
  <2>6. CASE (\E m \in Message : Produce(m)) \/ Stop \/ UNCHANGED vars
    BY <2>1, <2>6 DEF Produce, Stop, vars, memory
  <2>7. CASE Load \/ FetchHWM \/ Replay \/ GoLive \/ Dispatch \/ Publish
    BY <2>1, <2>7 DEF Load, FetchHWM, Replay, GoLive, Dispatch, Publish
  <2>8. CASE FinalFlush \/ WriteTmp \/ Rename \/ PersistFails
    BY <2>1, <2>8 DEF FinalFlush, WriteTmp, Rename, PersistFails
  <2> HIDE DEF Step
  <2> QED BY <2>2, <2>3, <2>4, <2>5, <2>6, <2>7, <2>8 DEF Next, Run
<1>2. MarketInv /\ [Next]_vars => [Step]_vars
  BY <1>1
<1> QED BY <1>2, MarketAlways, PTL DEF Spec, DepthDelivered
=============================================================================
