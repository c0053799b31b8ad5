# TLA+ models of secwager

This directory models the core of secwager, a marketplace for sports wagers that
settles in Bitcoin: the matching engine, the market process around it, the cashier
that keeps the money and the fake it is tested with, the watcher that brings deposits in
from the chain, the registration of users and how their addresses come to be watched, the
registry of instruments, and the process that fills its reference data. Small instances are
checked with TLC; the theorems are proved with TLAPS for every value of the constants.
`PROJECT.json` lists the runs, the lines every definition models, the hazards of the code
with the properties aimed at them, and the places where the code and its comments disagree.

## 1. The system

| component | state it keeps | operations | talks to |
|---|---|---|---|
| matching engine (`matchengine`) | pool of order slots, one list per side and price, cached `bidMax` and `askMin` | `Limit`, `Cancel`, `Snapshot`, `Restore`, `BestBid/Ask(Qty)` | called by the market process, single-threaded |
| market service (`market`) | a book per symbol, offset reached, snapshot file | load, replay to the high-water mark, live loop, periodic and final flush | Kafka: one partition in, execution reports and market data out |
| cashier fake (`cashier/internal/fake_cashier.go`) | the same in maps, under a mutex | the same | tests of the cashier service |
| cashier (`cashier`) | Postgres tables `accounts`, `idempotency_keys`, `escrow_entries` | `Deposit`, `Withdraw`, `DepositEscrowed`, `ConfirmDeposit`, `CancelDeposit`, `Escrow`, `ReleaseEscrow`, `CheckAvailable` | gRPC clients, which retry |
| deposit watcher (`btcwatcher`) | table `btc_deposits`, position in the chain | list users at the start and every minute, watch addresses; block connected or disconnected, cashier tick; the leader escrows, confirms and cancels at the cashier | neutrino (Bitcoin SPV), Postgres, cashier |
| leader election (`btcwatcher/internal/leader.go`) | the flag `leading`, an etcd session | campaign, lead, resign | etcd |
| user registration (`userregistration`) | users with address and encrypted key | a saga over Cognito, KMS, Postgres | gRPC |
| instrument registry (`registry`) | instruments by content hash, cached reference data | create, get, list, refresh | Postgres |
| vendor reference data (`vendor_refdata`) | tables `teams`, `players`, `games`, `game_player_stats` | the `Populator` upserts what the vendors list, the `EventFetcher` records results | three sports feeds, Postgres, read by the registry |
| web client, infrastructure, generated code | - | - | - |

What is hard, and what correctness means, component by component:

* **Matching engine.** Sequential, but a long sequence of calls can leave it in a bad
  state: cancelled orders stay linked in their levels, the cached best prices are only
  bounds of the real ones, slot 0 and price 0 are sentinels, and a snapshot keeps only
  live orders. Correct: never crossed, no order lost or linked twice, time priority,
  cached prices hide nothing, every call ends, and a restart cannot be noticed.
* **Market service.** A crash between applying a message, publishing it and writing the
  snapshot; a snapshot written in two steps; replay up to an end that moves. Correct: no
  message is skipped or applied twice, no report is published twice or out of order.
* **Cashier.** Concurrent transactions of several replicas under READ COMMITTED, retries
  with the same key, lost replies, deadlocks. Correct: every commit is one step of a
  ledger that handles one request at a time, and every call returns.
* **Deposit watcher.** Several nodes write one table; two of them may think they lead; a
  handler makes up to three database and cashier calls per row, and most errors are
  dropped; reorgs arrive while it works. Correct: the table never claims what the cashier
  did not do, confirmed rows stay, and a deposit that stays in the chain is confirmed.
* **Leader election.** Leases expire under a running leader; processes crash with the key.
  Correct: two leaders only while one has lost its lease; there is a leader again.
* **User registration.** A saga over Cognito, KMS and Postgres without a coordinator: any
  step may fail, succeed without saying so, or be the last one of the process, and the
  rollback goes by username. Correct: a stored user can log in, no login is left without a
  user, and answers stay true, except after the faults that the properties name.
* **Instrument registry.** The same instrument created twice at a time, reference data
  that is replaced in the middle of a request, pages of a list that changes. Correct: an
  answered id is found with all its legs, one snapshot per instrument, each instrument
  listed once, and no fair bet refused.
* **Reference data.** Two goroutines write the same tables from vendors who move games,
  transfer players and correct results; any request or statement may fail and most failures
  are only logged. Correct: a row keeps the id that markets refer to, a FINAL result stands
  and has its players' numbers, every game that is over becomes FINAL, and the tables catch
  up with the vendors.
* **Addresses.** A user registers while blocks arrive; the loop that takes the blocks is the
  one that adds addresses to the rescan. Correct: a registered user is watched for without a
  restart, and a payment to a watched address is recorded.

## 2. Modules

| module | models | by |
|---|---|---|
| `Queues` | walks over a level's list with lazily deleted entries | pure operators; no `RECURSIVE`, so that they can be proved about |
| `OrderBook` | `matchengine/book.go` | `Limit` one iteration of the matching loop per step, `Cancel` and `Snapshot`/`Restore` one step each |
| `BookSpec` | what a book promises its caller | a set of resting orders, price-time priority stated by quantifiers, events and best bid and offer |
| `OrderBookHistory` | `OrderBook` plus history variables | refinement mapping to `BookSpec` |
| `Market` | `market/internal/service` | `Run` with load, replay, live loop, flush, the synchronous and the asynchronous publisher; crashes and failed writes |
| `Cashier` | `cashier/internal/postgres_cashier.go` | every RPC statement by statement over row locks |
| `FakeCashier` | `cashier/internal/fake_cashier.go` | every call as a function of the state, held against `Cashier` |
| `LedgerSpec` | what the cashier promises | one atomic step per request |
| `Watcher` | `btcwatcher/internal/watcher.go`, `txstore.go` | every statement and cashier call of every node a step; the cashier is `LedgerSpec` |
| `LeaderElection` | `btcwatcher/internal/leader.go` | `Run` over an abstract etcd session |
| `UserRegistration` | `userregistration/internal` | `RegisterUser` one remote call per step, with every way it can fail |
| `AddressWatch` | `loadUsers`, `pollNewUsers`, `WatchAddresses`, the channels of `spvnode.go` | the two goroutines of a btcwatcher process, over the users of `UserRegistration` and a growing chain |
| `BoxScores` | what becomes of a line of a box score (`*results.go`), `proprules.go` | pure operators |
| `VendorRefdata` | `vendor_refdata` | both goroutines, one request or one row per step, against vendors that change |
| `Registry` | `registry/internal` | `CreateInstrument` statement by statement, the refresh of `RefCache`, a client paging through `ListInstruments` |
| `MCCashier`, `MCWatcher`, `MCRegistry`, `MCAddressWatch`, `MCVendorRefdata` | - | values of the constants, symmetry |
| `OrderBookProofs`, `MarketProofs`, `CashierProofs`, `WatcherProofs`, `UserRegistrationProofs`, `RegistryProofs`, `VendorRefdataProofs` | - | theorems (that of `LeaderElection` is at its end) |

How they compose: `Watcher` INSTANCEs `LedgerSpec` for the cashier and makes its calls
through `LedgerSpec!Apply`, and `Cashier` is shown to implement the same `LedgerSpec`. A
node of `Watcher` may gain leadership at any time and keeps it until it stops, which is
what `LeaderElection` leaves (two leaders are possible). `AddressWatch` EXTENDS
`UserRegistration` and adds a btcwatcher process that reads the same table. `Watcher` and
`AddressWatch` divide `watcher.go` between them: the first knows all addresses and follows a
deposit from the table to the cashier, the second stops at the table. `FakeCashier` EXTENDS
`Cashier` and runs the fake in the state the tables are in. `Market` treats a book as the
sequence of messages applied to it; `OrderBook` shows that a book is a deterministic
function of its calls and `OrderBookHistory` that a restored one cannot be told apart.

Definitions whose name says what a bug would do (comment "Mutant: ...") are not used by
the specifications. Each replaces the definition after it when one wants to see that a
property can fail; `PROJECT.json` pairs them with the properties.

### State and actions against the code

**OrderBook.** `pool`, `poolTop`, `bidMax`, `askMin` are the fields of `Book`; `buys[p]`
and `sells[p]` are the lists of a level from `head` along `slot.next`. `call` is the
activation of `Limit` (the side being matched, the order's id, the best bid and offer
before the match), `events` the slice it returns. `MatchBuyEmptyLevel`/`MatchBuyFill`
are one iteration of `matchBuy`'s loop, after the walk over inactive heads (`DropUntil`);
`RestBuy`/`RestSell` are `enqueue` and the comparison of best bid and offer at the end of
`Limit`; `LimitDone` is the same end for an order that is used up. `CancelResting` keeps
the slot linked and looks the cached price up again. The scans of `BestBid` and `BestAsk`
start at the cached price. `SnapshotRestore` is `Snapshot`, the way of the orders through
the file (`marshalBookState`, `unmarshalBookState`) and `Restore`. Quantities are added
modulo `SizeMod` (2^32) where the code adds them in a `uint32`. The trader string is left
out. Events carry what the code puts into them. `BookSpec` promises all of it but for two
things the code's comments deny (section 4), which the mapping of `OrderBookHistory` leaves out
or `BookSpec` leaves open: the fills on the event of an order that is accepted or cancelled
(`Told`), and the reason why an order cancelled before is not cancelled again (`NotResting`).

**Market.** `pc` is the place in `Run`; `offset`, `books`, `hwm`, `msgCount` are its
variables; `snapshot` and `tmp` are the two files. `Replay` dispatches without publishing;
`Dispatch`, `Publish` (one report at a time, an error is logged and the report is gone) and
`Advance` are one message of the live loop. A depth update is only put into `batch`, which
`SendDepth`, the goroutine of the asynchronous writer, empties. `WriteTmp` and `Rename` are
`persist`; `PersistFails` is either step failing; `Close` is the deferred `Close` of the
writer. `Crash` loses the memory and keeps both files. Kafka is external: a write is taken to
be stored once or to fail, and each topic to have one order (see section 4).

**Cashier.** A process runs one RPC. `seen[p]` is the account row the transaction read
and then wrote, `pre[p]` what `ReleaseEscrow` reads before its transaction. A statement
that meets a row locked by another process waits; `INSERT ... ON CONFLICT` and `INSERT`
of a duplicate wait for the uncommitted row; an `UPDATE` whose `WHERE` rejects the
committed row does not wait. `Commit` moves what was written to the tables and may end in
"unknown" (the reply is lost); `Fail` is a failure between two statements; `DeadlockAbort`
is Postgres' deadlock detector. Postgres is external and modelled from how the code uses it.

**Watcher.** `log` is the stream of block events, `pos[n]` how far node `n` is in it;
`rows` is `btc_deposits`; `todo` and `cur` are the loop over a List query and the row
whose call has succeeded but is not marked yet. `at` is the height a block event brings,
and 0 for a tick, where the code asks `BestBlock`. A fault of each kind in `Faults` may
happen `MaxFaults` times in all; each stands for an error the code drops or logs.

**LeaderElection.** `holder` and `session` are etcd's side; `leading` and `pc` the
elector's. `Stop` clears the flag before it resigns, as `Run` does. `Crash` leaves the key
with a dead session (`Orphan`) until its lease expires.

**UserRegistration.** `users` is the table, `logins` the Cognito pool, both by username;
`pc`, `name` and `answer` are one `RegisterUser` per call. A call stands for the `sub` and
the key pair it makes, so a row or a login names the call it came from. "Rollback" is the
deferred function. The actions ending in `Unknown` take effect and report an error;
`faults` remembers which kinds of failure have happened, for the properties to name.

**AddressWatch.** `chain` is a list of blocks; `place` and `watched` belong to the rescan,
`addrIndex` and `at` to the loop of `Watcher.Run`; `channel` is all that lies between them:
two channels of 16 and what the goroutine between them holds, cut down to `Capacity`. One
event more than that is in the hands of the rescan, which is stuck in its notification
handler. `pollNewUsers` extends the index, `WatchAddresses` is `Rescan.Update`, which returns
when the rescan has taken the addresses between two blocks. `foreign` are the addresses
that `DecodeAddress` refuses because the two services are set to different networks; they are
skipped. neutrino is external.

**FakeCashier.** `Mirror` is the fake's state read from the committed tables. At the step
that settles a call of `Cashier` (`Settles`), `FakeCall` in that state must give the same
answer and the state the tables then have. `FakeDiffers` lists the exceptions.

**VendorRefdata.** `day`, `roster` and `result` are the vendors' truth, `result[g]` counting
the versions of a result; `teams`, `players`, `games`, `stats` are the tables by external key.
`pop` is the Populator: leagues and requests to come and the rows of the last response not yet
upserted; `fetch` the EventFetcher: the games it listed, the scores it saw, the box-score
requests and lines of the game it is at. `missed` remembers lines passed over, for
`FinalHasNumbers` to name. An internal id is the tuple of what it is formatted from.
`BoxScores` computes which prop types a line writes, per sport.

**Registry.** An id is the set of legs it is hashed from. `games` and `team` are what
`vendor_refdata` may change of the reference data (expiry, new games, transfers); `cache`
is the snapshot, `loading` the one being loaded by one query per table. `calls[c].ref` is
the snapshot a request validated against, `calls[c].row` what it is about to store. An
`INSERT` of an id waits for a transaction that has inserted it, as Postgres does for a
primary key. `listing` is a client that follows page tokens; `due` is what was stored when
it began. `created` is the time of `BEGIN`, as `CURRENT_TIMESTAMP` is.

## 3. Runs that pass

| run | instance | what it checks |
|---|---|---|
| `book` | prices 1..3, three orders (`MaxOrders` 4, slot 0 is the sentinel) of size 0, 1 or 2, quantities mod 4 | `TypeOK`, `NotCrossed`, `BestPricesExact`, `NoOrderLost`, `TimePriority`: a long mix of orders, cancels and restarts leaves a sound book; `ImplementsBookSpec`: the same events, call by call, as the abstract price-time book (but for what section 4 says of the fills on acceptances and cancellations and of a second cancel), and a restart changes nothing; `CallsReturn`: every `Limit` returns |
| `cashier` | three calls in flight, five calls, one user, all kinds of request | `ImplementsLedger`: every commit is one step of the ledger; `BooksBalance`: accounts are what keys and entries add up to; `FakeAgrees`: the fake answers as the cashier does; `TypeOK` |
| `cashier_orders` | two calls in flight, six calls, two users, two orders | `NoInternalError`: the row locks make the optimistic version check redundant; `CallsReturn`: no call waits for ever |
| `watcher` | two nodes, one deposit, four block events, two faults of any kind | `MarksAreTrue`: the table never claims what the cashier did not do; `TypeOK` |
| `watcher_live` | two nodes, one deposit, four block events, a lost reply | `TableComplete`: no deposit of the chain drops out of the table; `ConfirmedRowsStay`; `BuriedIsConfirmed`: money that stays in the chain arrives |
| `leader` | three nodes, two expiries | `AtMostOneLeader`: two leaders only while one has lost its lease; `SomebodyLeads` |
| `market` | two symbols, three messages of two reports and perhaps a depth update, flush after two, two faults | `SnapshotMatchesLog`, `BooksMatchLog`: no message skipped or applied twice; `ReportsInOrder`; `DepthDelivered`; `MessagesHandled` |
| `registration` | two calls, two usernames, every fault at every step, a chain of two blocks, two transactions, one event between the goroutines, all addresses good or one of another network | `StoredUsersLogIn`, `NoOrphanLogins`, `AnswersAreTrue`: which faults can break the saga, and that nothing else does; `RegisteredIsWatched`, `PaymentsRecorded`: a user is watched for and his payments are recorded, unless the process ends or jams, or his address is of another network |
| `registry` | two creations beside an earlier one, sixteen requests, one change of reference data, pages of one | `AnswersAreTrue`: overlapping creations neither overwrite nor show half an instrument; `FromOneSnapshot`; `ListsEachOnce`; `RefusalsJustified`: validation against the meaning of the comparators, for every prop and pair of props up to the threshold |
| `refdata` | three seasons: an MLB doubleheader, MLB beside soccer with two players of one name, soccer beside NFL; two days, one change by the vendors, one failure | `IdentityKept`: rows keep their ids and share none; `ResultsStand`: FINAL is final; `FinalHasNumbers`; `OverGetsFinal`, `CatchesUp`; `TypeOK` |

Why these bounds show the interesting cases:

* Three prices let a sweep cross an empty level between two full ones, and a cancel move
  the cached price over one; three orders allow two at one level, the first of them
  cancelled or partly filled, and a third that sweeps them. Size 2 against 1 gives a fill
  on either side with something left. `SizeMod` 4 lets the quantity of a level wrap. Size 0
  is an order the code accepts and never rests. What three orders cannot show, such as a
  cancel in the middle of a longer list, rests on the proofs of section 6, which cover the
  five invariants and the events (`ImplementsBookSpec`) for any number of orders; only
  termination is limited to three.
* Three calls in flight let two retries of a call race with a third one that takes the
  money; five or six calls let an escrow be held, released, held again and retried. In
  `cashier` all requests compete for one account, where all locks meet. `cashier_orders`
  leaves out the requests for chain deposits: `ConfirmDeposit` and `CancelDeposit` trust
  their caller and may empty an escrow another request counts on.
* Four events allow a deposit to be mined, disconnected, mined again and buried; with two
  nodes one can lag behind the whole reorg. `Confirmations` 1 is the smallest depth at
  which the block of a deposit is not enough. `watcher_live` has one kind of fault only,
  because a failed `Insert`, a crash of every node and a cancelled deposit each lose the
  deposit by design; those faults are in `watcher`.
* Three messages and a flush after two put a crash before, at and after a flush, with
  something to replay; two faults allow a failed flush followed by a crash.
* Two registrations can race for a username or be two users of whom one is already watched.
  The safety of any number is proved (section 6). Two blocks and room for one event are
  enough for the rescan to be stuck while the loop adds an address. One transaction has an
  output that needs two keys, the other pays both users, so that it is relevant for an
  address watched and carries an output to one that is not.
* One change by the vendors is a game moved, a player transferred or a result corrected, at
  any point of both goroutines; two would mix them, at ten times the states. A doubleheader
  is the case in which a moved game wants an id that is taken. Two players of one surname
  need the suffix of `UpsertPlayer`, on two pages of a listing. An MLB row and a soccer row
  have the same external id. An NFL row and a soccer row never do, although both are of vendor
  "apisports": one row would then stand for two, and `OverGetsFinal` and `CatchesUp` are not
  claimed for that. One failure includes a restart; failures only delay a league
  or a game to the next round, where a second one would meet the same states.
* Two creations can be equal or not, and with the stored one make three instruments to
  page through one by one; one tick of the clock makes some of them equal in age, and lets
  an instrument expire during a listing. A change of the reference data between two loads
  is enough to tell a request that looks at two snapshots.

Deadlock is checked in the book, market and election runs. It is switched off for the
cashier, whose calls are bounded by `MaxCalls`, the watcher, whose events and faults are, and the
registration and the registry, which have nothing to do once all requests are answered.
In `refdata` it is on: the goroutines go on for ever.

## 4. Where the code and its documents disagree

Two runs check one sentence of a comment or document each and end in a counterexample:

| run | the document says | what the code does |
|---|---|---|
| `cashier_escrow_retry` | a duplicate order id is an "idempotent retry" (`postgres_cashier.go:129`) | the funds are checked first: the retry of an escrow that took the last money is refused |
| `watcher_orphan` | `DeleteFromHeight` "soft-deletes unconfirmed rows at or above height" (`txstore.go:40`) | its two statements are not one transaction: a row that the leader marks escrowed in between is taken by neither, stays active and will be confirmed |

Smaller ones met while modelling. No run checks them, and no property that is checked states
either what the comment says or its opposite:

* A tick compares the heights in the table with the tip of `BestBlock` (`watcher.go:84`)
  while a disconnect may still be queued, and confirms a deposit that no longer "reached
  the required confirmation depth" (`txstore.go:27`).
* A deposit whose escrow was cancelled and that is mined again is escrowed with the old
  key: nothing moves, yet the row is marked (`watcher.go:184`), against "re-calling it is
  safe" (`deposit_orchestration_readme.md:82`).
* Of two equal `CreateInstrument` calls at the same time one is answered with an internal
  error (`registry/internal/postgres.go:46`), where `service_test.go` expects
  `already_existed`; and with `already_existed` the answer carries the expiry of the
  current reference data, not the stored one (`registry/internal/service.go:98`).
* `checkPropContradiction` finds some contradictions only: GT 5 with LT 3, or EQ 2 with
  GT 2, is accepted. `RefusalsJustified` states what holds, that nothing fair is refused.
* An order that trades partly and then rests is reported as accepted with its quantity filled
  and its fills (`book.go:143`), and one that is cancelled after a partial fill as cancelled
  with both (`book.go:265`). Of the first `types.go:17` says "Fills empty" and `common.proto:31`
  "qty_filled=0"; of both `types.go:58` says "0 for non-fill events", `types.go:60` "empty for
  Accepted/Cancelled/Rejected" and `common.proto:51` "0 if exec_type != ORDER_FILLED".
  `BookSpec` has neither field on these events.
* A second `Cancel` of an order is rejected as already filled (`book.go:239`);
  `common.proto:39` reserves that for fully matched orders. `BookSpec` allows either reason.
* A failed `MarkConfirmed` is ignored (`watcher.go:201`); a later reorg then soft-deletes
  the row and the cashier cancels what it has confirmed.
* A `DepositEscrowed` whose reply is lost leaves `escrowed = FALSE`; a reorg hard-deletes
  the row, "cashier was never notified" (`txstore.go:137`).
* After a restart the rescan starts at the tip (`cmd/btcwatcher/main.go:100`, `StartHeight`
  0), against "process the full chain from block one": a deposit mined while every node
  was down is never seen.
* Once it leads, `LeaderElector.Run` never looks at its session again (`leader.go:72`);
  `IsLeader` "currently holds the leadership lease" (`leader.go:85`) is not so after an
  expiry. `AtMostOneLeader` states what remains true.
* Commands that are replayed are not published (`market/internal/service/service.go:113`):
  the reports of what arrived while the market process was down never go out, and neither
  do the depth updates that `proto/market/market.proto:5` says are "Published to depth_updates whenever
  top-of-book changes".
* The throttle of the api-sports client (`apisportsclient.go:17`, "enforces a 30s
  inter-request delay") does not hold for two goroutines that wait for the same deadline.
  Time is not modelled, so no run shows it.

What else the models make visible, without a document that says otherwise:

* *Book and market.* Ids are never reused, so a book refuses everything after `MaxOrders` - 1
  orders (`book.go:62`). A command's `uint32` price is cut to 16 bits (`service.go:174`).
  The snapshot is renamed without an fsync (`snapshot.go:105`). The `LeastBytes` balancer
  ignores keys: with several partitions of an output topic the order across them is not
  kept, and a retry of the Kafka client may store a report twice.
* *Cashier.* A key is bound to neither operation, user nor amount
  (`postgres_cashier.go:295`). The fake differs from the cashier in an escrow resent when the
  money is gone, a cancel for a user it does not know, a confirm or release of more than is
  in escrow, and a replayed withdrawal of an unknown user, on which it panics.
* *Watcher.* The error of `Insert` is dropped and the block not processed again
  (`watcher.go:162`). `Rescan.Update` waits for the rescan, and the rescan for a full channel
  that only the goroutine in `Update` empties: `Jammed` in `AddressWatch` is that state, and
  nothing in the process leaves it. A payment that is filtered before its address is watched
  is not seen. A user whose address does not decode on the watcher's network is skipped at
  every poll, without a word (`watcher.go:113`, `:138`).
* *Reference data.* NFL and soccer share the vendor "apisports" although their ids come from
  two services (`nfl.go:13`, `soccer.go:11`, `store.go:79`); when two ids meet, one row stands
  for two games or players. The clients have no timeout (`apisportsclient.go:32`,
  `mlbclient.go:18`): a request that hangs stops its goroutine. A moved game keeps the id made from its old day
  and can block another game. A soccer fixture without a date is stored with time 0. Names
  that are empty make `makePlayerID` panic. A status other than "FT" never becomes final.
* *Results.* A player who is not in the table when the result is fetched never gets his
  numbers, and neither does anyone of a soccer or NFL game whose statistics request fails:
  the game is FINAL all the same. A batter who also pitches has his WALKS replaced by those
  he gave up; a passer who is not listed as a quarterback loses his rushing touchdowns; zero
  or negative yards are not written, so a number that is corrected to zero on a retry keeps
  its old value. Score and box score are two requests and may be of different versions.

## 5. Fairness

* `OrderBook`: the goroutine inside `Limit` runs (weak fairness of the steps of a call);
  callers owe nothing.
* `Cashier`: a statement that can run does, and Postgres' deadlock detector does (weak
  fairness per call). Clients need not retry; failures may happen at any time.
* `Watcher`: a handler runs to its end (weak). `select` picks at random among ready
  cases, so a case that is ready again and again is taken (strong, for block events and
  the ticker). When nobody leads somebody is elected (weak; `SomebodyLeads`).
* `LeaderElection`: electors and etcd keep going, a lease of a dead process expires, a
  campaign on an expired session is told so (weak). A campaign that is free to win again
  and again does (strong): the code's errors are transient and it retries for ever.
* `Market`: the process runs and is started again when it ended, and the asynchronous
  writer sends what it holds (weak). Nothing is assumed of producers, signals or faults,
  whose number is bounded.
* `AddressWatch`: the two goroutines go on, the ticker ticks, and the block that is offered
  again and again is taken (weak, per step). Registrations, clients, the chain and the end
  of the process owe nothing.
* `VendorRefdata`: each goroutine goes on, restarted if need be (weak, one condition for
  each). The vendors owe nothing but an end to every request: the http clients have no timeout
  (section 4), so this is an assumption about the network, not something the code sees to. Their
  changes, like the failures, are bounded in number.

## 6. What is proved

Constants are arbitrary, under the named assumptions of the modules:

* *Book*: at least one price, one slot and one size modulus; sizes fit the modulus.
* *Market*, *election*, *registration*: the marks for "nothing" are not names in use.
* *Cashier*: requests are well formed, different keyed requests have different keys, and an
  order id belongs to one user and one amount. The code checks neither (section 4).
* *Watcher*: every deposit has an owner and a positive amount.
* *Registry*: the hash of an id is injective and the rows stored at the start describe their
  ids; a player has a team, and team ids are not game or player ids.
* *Reference data*: a vendor's ids are unique within a sport, positions are those of the
  sport's map, and a box score has well-formed lines of players of its sport.

Every invariant of the passing runs, every action property and the two refinements have a
theorem; section 7 lists what has none.

**`OrderBookProofs`: `TypeCorrect`, `NeverCrossed`, `BestPricesCorrect`.** None of these
is inductive. The invariant `IInv` adds what the code keeps implicitly:

* `CacheOK`: `bidMax < askMin` always, every live bid is at or below `bidMax` and every
  live ask at or above `askMin`. The cached prices are bounds only (after a sweep `bidMax`
  may point at an empty level), which is enough for a scan that starts there to be exact.
* `QueueOK`: an order linked in a level has been allocated, is not the one being matched,
  and if it is active its price is that of the level. A new id is therefore in no list.
* `SizeOK`: what is filled plus what remains of an order fits the width, so no fill wraps.
* `CallOK`: the order being matched has been allocated and has a valid price.

Matching only empties levels and moves a cached price over a level it found dead; an order
comes to rest only after the loop has moved the other side's cached price past its own.
Each action has its own lemma. The lemmas about lists (what dropping, filtering, appending
and summing keep) are proved by least counterexample over the first-order definitions of
`Queues`.

**`OrderBookProofs`: `TimePriorityKept`, `NoOrderEverLost`, `RestoreKeepsOrders`.**
Time priority needs that the order of the running call is the newest (`Newest`): a step makes
of a level one of six lists (`Becomes`), and each keeps the ids growing. `Linked` says that
every slot but that of the running call agrees with the lists: active exactly while something
is left, and then in the list of its side and price. That such an order is in one place only
follows from time priority (ids that grow are at one position) and from the price and side of
its slot. For the restart `CacheOK` is needed again: the snapshot's walk starts at the best
price and would miss an order beyond it.

**`OrderBookProofs`: `BookImplementsSpec`.** A `Limit` call is many steps of the code and one
of `BookSpec`, so the invariant `HistoryInv` is about the middle of a call:

* `Sweeping`: there are orders `hits` and remainders `left`, one more for every fill of the
  order being matched, that are a beginning of a match in the sense of `BookSpec` from the
  book as it was at the start (`before`), and `Swept` reads the slots, fills and events off
  them. A fill takes the oldest live order of the cached best level; `CacheOK`, `Linked` and
  `TimePriority` make that the best order not hit yet, so the match goes on with it
  (`FillHistory`). While the new order wants more, what it hit is used up (`HitsUsedUp`), so
  no order is hit twice, and a call ends after fewer trades than there are ids (`SweptFew`).
* `Started`: what is live was visible at the start, and no level has lost more than the new
  order was filled. The code compares quantities reduced to their width and `BookSpec` the
  real ones; because a call moves a level by less than the modulus (with `SizeOK`), the two
  comparisons agree (`AnnouncedAlike`). `SumModuloIsSum` shows that a walk that reduces at
  every addition yields the real sum reduced once, which needs that no id is twice in a level.

When the loop ends, the cached price says that nothing live crosses what is left, so the match
is complete (`EndEnds`), and what is live is what `BookSpec` leaves (`EndRests`). What callers
are shown of the events is worked out one by one (`ShownConcat`), and `cancelled` grows only by
`Cancel`: every other step between two calls keeps what is live.

**`MarketProofs`: `SnapshotsCorrect`, `BooksCorrect`, `ReportsOrdered`,
`DepthAlwaysDelivered`.** For any topic, symbols, flush interval and number of crashes and
failed writes. That reports go out in order and once is not inductive, because a restarted
process replays from an old offset. `MarketInv` adds `Reached`: what has been published is
from before the end of the topic when the process is down, from before the high-water mark
while it replays and at most the message at hand while it is live; that mark is the end of
the topic at the time of the start, so nothing that was published is dispatched live again.
`DepthOK` says the same of what waits in the asynchronous writer, and `WorkOK` that the
temporary file holds the books in memory when it is renamed.

**`CashierProofs`: `TypeCorrect`, `CashierImplementsLedger`, `BooksAlwaysBalance`,
`VersionsMatch`, `NoInternalErrors`, `FakeAnswersAlike`.** For any number of calls in flight.
`CashierInv` says of each of them which row locks it holds (`Locked`) and that what it read
under them is still what the tables say (`KeyFresh`, `EntryFresh`, `AccountFresh`): the key it
anchored is not there, the entry is the one it read before its transaction, and the account
row is the one it computed with, up to the statement at which it stands (`Written`). A commit
releases only rows that no other call has locked, which is why everybody else's part
survives. From this:

* every commit is one `Apply`, `Hold` or `Release` of `LedgerSpec`, and no other step changes
  what the ledger sees;
* the books balance: `BooksInv` adds the two sums; what a sum over a finite set does when an
  element comes or goes is proved by least counterexample on the cardinality, because a fold
  cannot be unfolded by the provers;
* the version column is redundant (`VersionsMatch`), and without confirmations and
  cancellations of chain deposits no call ends in an internal error. The second needs the
  books: what is in escrow is the sum of the entries, so a release finds its amount;
* the fake answers alike: at every step that settles a call the fake's function gives the
  cashier's answer and its next state, but for `FakeDiffers`. `RunningInv` (a call has not
  answered exactly while it is in flight) ties the answer to the step. A theorem about the
  fake for one thread of calls carries over to any interleaving of the real one.

**`LeaderElection`: `OneLeader`.** `ElectionInv` says that an elector that won with
a live session is exactly the holder of the key, and that only such an elector leads; two
leaders whose leases have not expired would both be the holder.

**`WatcherProofs`: `MarksCorrect`, `TypeCorrect`, `ConfirmedStay`, `TableStaysComplete`.** For
any number of nodes, leaders, deposits, faults and reorgs of any depth.

* `MarksAreTrue` is not inductive because a node acts on a list it read earlier.
  `ListsAreTrue` closes the gap: what is in the list of the confirm or cancel loop was escrowed
  at the cashier when it was listed, which cannot be undone, and a row about to be marked has
  had its call. Types need that no account has more in escrow than it holds (`Funded`).
* A confirmed row stays as long as no reorged deposit becomes old enough to be cancelled
  (`"age" \notin Faults`): `Uncancelled` says that nothing was ever listed for cancelling.
* The table is complete if `Insert` and `DeleteFromHeight` succeed, no node stops and nothing
  is cancelled (`Careful`, the hypothesis of `BuriedIsConfirmed`), and there is a node. The
  argument is about the log of block events: the blocks of the chain are those of the events
  that still stand (`History`); every node follows the log, and deletes only at an event that
  disconnects a block (`Following`); an active row that is not confirmed has a node that
  inserted it and has yet to come to its deletion (`RowsTended`); so the row of a deposit in
  the chain is active once every node is past its block (`RowsStand`), although nodes that lag
  delete and revive it in between.

**`UserRegistrationProofs`: `LoginsSafe`, `NoneOrphaned`, `AnswersCorrect`.** For any
calls and usernames. `RegistrationInv` adds to the three properties that a call between
`CreateUser` and its end has the login of its username (`HoldersHaveLogin`; Cognito refuses
a second one, so a rollback by username deletes the call's own login), that rows and
logins are what their calls made (`MadeByCall`), and that a call that rolls back has
stored nothing, if it knows (`RollbackStoredNothing`). The steps of `AddressWatch` that
are not registration steps leave these variables alone, so the theorems hold there too.

**`RegistryProofs`: `AnswersStayTrue`, `StoredFromOneSnapshot`, `RefusalsStayJustified`,
`ListingIsComplete`.** For any calls, requests, reference data, thresholds and page size.
`RegistryInv` follows a call from the snapshot it took to the row it stores (`InHand`), says
that every stored row describes the legs its id is hashed from (`TableInv`) and that an id
that was answered is stored (`InTable`); a snapshot is always one that the tables could have
had (`RefInv`). The listing needs `ListOK`: nothing was given twice, everything given is the
row of the token or newer in the order of creation time and hash, and what was due at the
start is given, has expired since, or is older than the token; creations meanwhile can only be
newer. That nothing fair is refused is a fact about the validation, proved over the meaning of
every comparator (`OpenProps`) and of the pairs of legs.

**`VendorRefdataProofs`: `RefdataInvariant`, `TypeCorrect`, `IdentityIsKept`,
`ResultsAreFinal`, `FinalGamesHaveNumbers`.** For any leagues, seasons, rosters, box scores and
failures. `RefdataInv` has a part per actor. What matters is `FetchInv`: a game that was
listed as not final is still stored, of its sport and not FINAL (`Waiting`) while the
Populator goes on upserting, because only the EventFetcher writes results; so a row with a
result is never written again. Internal ids are unique per table because an id that is taken
makes the upsert fail or take a suffix. `NumbersInv` follows every player of the game in hand
from the requests to come, to the lines of the sheet, to the numbers recorded, or to `missed`;
what a line writes covers what the sport's rules ask for (`WritesCover`). This last theorem
has the hypothesis `DistinctKeys`: api-sports numbers NFL and soccer independently under one
vendor name (section 4), and the code does nothing against two games with one key.

## 7. What is only model-checked

* Liveness (`CallsReturn`, `BuriedIsConfirmed`, `SomebodyLeads`, `MessagesHandled`,
  `RegisteredIsWatched`, `PaymentsRecorded`, `OverGetsFinal`, `CatchesUp`): TLAPS does not
  reason about fairness and ENABLED here.

The provers cannot use the library's induction theorems. Where a proof needs what a list walk
of `Queues` or a sum of `BookSpec` computes, or how a sum of the cashier's books moves, it goes
by least counterexample instead.

## 8. Not modelled, and the plan

Not modelled: the web client, Terraform and generated code (no state of the system); the
decoding of JSON and protobuf and the pause between requests to a vendor; the names of report
types and reject reasons, and the wording of logs and errors; the balances that cashier
replies carry; the trader label; the bytes of a snapshot file (a torn write is a temporary
file that counts as unwritten); the registry's lookups of teams, players and games, which
only read, and its fixtures for tests.

Done so far, in order: `Queues`, `OrderBook`, `BookSpec`, `Cashier` with `LedgerSpec`,
`Watcher`, `LeaderElection`, `Market`, `UserRegistration`, `Registry`, `VendorRefdata` with
`BoxScores`, `FakeCashier`, `AddressWatch`, and the proofs above. To come:

1. *Models.* The way of a command to the book (price and quantity conversions) with real
   books, so that `Market` composes with `OrderBook`. Reorgs in `AddressWatch`.
2. *Refinement.* A pointer-level model of a price level (`head`, `tail`, `next`) that
   implements the sequences of `OrderBook`.
