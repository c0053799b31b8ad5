---------------------------- MODULE AddressWatch ----------------------------
(***************************************************************************)
(* From registration to the first deposit: userregistration stores users   *)
(* with an address, btcwatcher lists them from the same table and has its  *)
(* rescan of the chain look for payments to their addresses.               *)
(*                                                                         *)
(* One btcwatcher process has two goroutines: the rescan, which filters    *)
(* the blocks and hands them on through channels, and the loop of          *)
(* Watcher.Run, which handles them and polls the users.  Nodes share only  *)
(* the deposit table, so that one is enough.  As in UserRegistration, a    *)
(* call stands for the user it stores and for its address.                 *)
(***************************************************************************)
EXTENDS UserRegistration, Sequences, Naturals

CONSTANTS
  Txs,
  Outputs,    \* of every transaction: the addresses in the script of each output
  Strange,    \* which addresses may be of another network than the watcher's
  Capacity,   \* the events that fit between the two goroutines: two channels of 16
              \* and the one the goroutine between them holds
  MaxBlocks   \* bound on the chain

ASSUME WatchAssumption ==
  Outputs \in [Txs -> SUBSET SUBSET Calls] /\ Strange \subseteq SUBSET Calls /\ Capacity \in Nat

VARIABLES
  chain,      \* the blocks, as sets of transactions
  at,         \* where Watcher.Run is
  addrIndex,  \* the addresses the loop knows
  watched,    \* the addresses the rescan filters by
  place,      \* the blocks the rescan is done with
  channel,    \* the events on their way; one more than Capacity is in the hands
              \* of the rescan, which cannot send it
  deposits,   \* outputs inserted into btc_deposits
  foreign     \* the addresses DecodeAddress refuses, by the settings of the two services

node      == <<at, addrIndex, watched, place, channel>>
watchVars == <<chain, node, deposits, foreign>>
allVars   == <<vars, watchVars>>

(* SELECT user_id, btc_addr FROM users. *)
ListAll == {users[u] : u \in Usernames} \ {None}

(* The users of the list that are not skipped: their addresses decode. *)
Decoded == ListAll \ foreign

Mined == UNION {chain[i] : i \in DOMAIN chain}

(* outputAddress: the address of every output that has exactly one. *)
Paid(t) == {c \in Calls : {c} \in Outputs[t]}

(* A block; money is sent to addresses of users who are stored. *)
Mine ==
  /\ Len(chain) < MaxBlocks
  /\ \E S \in SUBSET {t \in Txs \ Mined : Paid(t) \subseteq ListAll} : chain' = Append(chain, S)
  /\ UNCHANGED <<vars, node, deposits, foreign>>

-----------------------------------------------------------------------------
(* The process starts: the users, then their addresses, which the rescan   *)
(* gets once it is made.                                                   *)
LoadUsers ==
  /\ at = "down"
  /\ at' = "loaded"
  /\ addrIndex' = Decoded
  /\ watched' = Decoded
  /\ UNCHANGED <<vars, chain, place, channel, deposits, foreign>>

(* Blocks: the rescan begins at the tip (StartHeight is 0). *)
Blocks ==
  /\ at = "loaded"
  /\ at' = "select"
  /\ place' = Len(chain)
  /\ UNCHANGED <<vars, chain, addrIndex, watched, channel, deposits, foreign>>

Rescanning == at \in {"select", "update"} /\ Len(channel) <= Capacity

(* OnFilteredBlockConnected, with the transactions that pay a watched address. *)
FilteredBlock ==
  /\ Rescanning /\ place < Len(chain)
  /\ place' = place + 1
  /\ channel' = Append(channel, {t \in chain[place + 1] : Paid(t) \cap watched # {}})
  /\ UNCHANGED <<vars, chain, at, addrIndex, watched, deposits, foreign>>

(* Mutant: the poll only extends the index. *)
pollNewUsersIndexOnly ==
  /\ at = "select"
  /\ Decoded \ addrIndex # {}
  /\ addrIndex' = addrIndex \cup Decoded
  /\ UNCHANGED <<vars, chain, at, watched, place, channel, deposits, foreign>>

(* The poll: users not in the index whose address decodes are added to it   *)
(* and then watched.                                                        *)
pollNewUsers ==
  /\ at = "select"
  /\ Decoded \ addrIndex # {}
  /\ addrIndex' = addrIndex \cup Decoded
  /\ at' = "update"
  /\ UNCHANGED <<vars, chain, watched, place, channel, deposits, foreign>>

(* Mutant: the new addresses take the place of the old ones. *)
WatchAddressesReplaces ==
  /\ at = "update" /\ Rescanning
  /\ watched' = addrIndex \ watched
  /\ at' = "select"
  /\ UNCHANGED <<vars, chain, addrIndex, place, channel, deposits, foreign>>

(* Rescan.Update waits until the rescan takes the new addresses between two *)
(* blocks; the loop waits with it.                                          *)
WatchAddresses ==
  /\ at = "update" /\ Rescanning
  /\ watched' = watched \cup (addrIndex \ watched)
  /\ at' = "select"
  /\ UNCHANGED <<vars, chain, addrIndex, place, channel, deposits, foreign>>

(* Every output of a relevant transaction that pays an address of the index *)
(* is inserted.  (What an INSERT that fails does is in Watcher, as is the   *)
(* cashier's work that follows.)                                            *)
handleBlockConnected ==
  /\ at = "select" /\ channel # << >>
  /\ deposits' = deposits \cup
       UNION {{<<t, c>> : c \in Paid(t) \cap addrIndex} : t \in Head(channel)}
  /\ channel' = Tail(channel)
  /\ UNCHANGED <<vars, chain, at, addrIndex, watched, place, foreign>>

(* The process ends: it crashes, cannot list the users, or its rescan ended. *)
Exit ==
  /\ at # "down"
  /\ at' = "down"
  /\ addrIndex' = {} /\ watched' = {} /\ place' = 0 /\ channel' = << >>
  /\ UNCHANGED <<vars, chain, deposits, foreign>>

WatchInit ==
  /\ Init
  /\ chain = << >>
  /\ at = "down" /\ addrIndex = {} /\ watched = {} /\ place = 0 /\ channel = << >>
  /\ deposits = {}
  /\ foreign \in Strange

Node ==
  \/ LoadUsers \/ Blocks
  \/ FilteredBlock
  \/ pollNewUsers \/ WatchAddresses
  \/ handleBlockConnected
  \/ Exit

WatchNext ==
  \/ Next /\ UNCHANGED watchVars
  \/ Mine
  \/ Node

(* The goroutines go on, the ticker ticks, and a select that is offered an  *)
(* event and a tick again and again takes both.  Nothing is assumed of the  *)
(* registration service, its clients and the chain.                         *)
WatchSpec ==
  /\ WatchInit /\ [][WatchNext]_allVars
  /\ WF_allVars(Blocks) /\ WF_allVars(FilteredBlock)
  /\ WF_allVars(pollNewUsers) /\ WF_allVars(WatchAddresses)
  /\ WF_allVars(handleBlockConnected)

-----------------------------------------------------------------------------
(* The loop waits for the rescan to take new addresses, the rescan for the  *)
(* loop to take an event.  Nothing but the end of the process ends that.    *)
Jammed == at = "update" /\ Len(channel) > Capacity

(* A user who was told OK is watched for in the end, without a restart, by  *)
(* a process that keeps running, unless it is jammed: the address is not    *)
(* forgotten between the index and the rescan, whatever blocks arrive, nor  *)
(* lost with another user's that is skipped.  An address of another network *)
(* is the exception: it is skipped for ever, and nobody is told.            *)
RegisteredIsWatched ==
  \A c \in Calls : answer[c] = "OK" ~> (c \in watched \cup foreign \/ at = "down" \/ Jammed)

(* A payment is missed only if its block was filtered before the address    *)
(* was watched, or the process ended: in a block still to come, the payment *)
(* to a watched address ends up in the table, also when users are added and *)
(* blocks pile up in the meantime.                                          *)
PaymentsRecorded ==
  \A t \in Txs : \A c \in Paid(t) :
    (/\ c \in watched
     /\ at \in {"select", "update"}
     /\ \E i \in DOMAIN chain : place < i /\ t \in chain[i])
    ~> (<<t, c>> \in deposits \/ at = "down" \/ Jammed)
=============================================================================
