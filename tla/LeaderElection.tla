-------------------------- MODULE LeaderElection ---------------------------
(***************************************************************************)
(* btcwatcher/internal/leader.go: every node runs an elector that opens an *)
(* etcd session, campaigns for one key and, once it has won, sets a flag   *)
(* that the watcher reads.  etcd is external: a key that belongs to the    *)
(* session that created it until the session is closed or its lease        *)
(* expires.                                                                *)
(***************************************************************************)
EXTENDS Integers, TLAPS

CONSTANTS
  Nodes,
  MaxExpiries,  \* bound on leases that expire under a running node
  None,         \* nobody holds the key
  Orphan        \* the key is held by the session of a process that is gone

ASSUME NodesAssumption == None \notin Nodes /\ Orphan \notin Nodes /\ None # Orphan
ASSUME ExpiriesAssumption == MaxExpiries \in Nat

VARIABLES
  holder,    \* etcd: whose session holds the election key
  session,   \* etcd: state of each elector's session
  leading,   \* LeaderElector.leading
  pc,        \* where LeaderElector.Run is
  expiries   \* leases expired so far

vars == <<holder, session, leading, pc, expiries>>

Goto(n, label) == pc' = [pc EXCEPT ![n] = label]

SetLeading(n, value) == leading' = [leading EXCEPT ![n] = value]

(* The session is closed, or resigns: the key is free if it held it. *)
Release(n) ==
  /\ holder' = IF holder = n THEN None ELSE holder
  /\ session' = [session EXCEPT ![n] = "none"]

(* concurrency.NewSession; a failure is retried after 5s and changes nothing. *)
NewSession(n) ==
  /\ pc[n] = "connect"
  /\ session' = [session EXCEPT ![n] = "live"]
  /\ Goto(n, "campaign")
  /\ UNCHANGED <<holder, leading, expiries>>

(* election.Campaign returns when the key is ours ... *)
CampaignWins(n) ==
  /\ pc[n] = "campaign"
  /\ session[n] = "live"
  /\ holder = None
  /\ holder' = n
  /\ Goto(n, "won")
  /\ UNCHANGED <<session, leading, expiries>>

(* Mutant: the retry goes on with the session it has, expired or not. *)
CampaignOnOldSession(n) == pc[n] = "campaign" /\ UNCHANGED vars

(* ... or fails, for a transient error or an expired session. *)
CampaignFails(n) ==
  /\ pc[n] = "campaign"
  /\ Release(n)
  /\ Goto(n, "connect")
  /\ UNCHANGED <<leading, expiries>>

(* The flag is set, and stays set until the context is cancelled. *)
Lead(n) ==
  /\ pc[n] = "won"
  /\ SetLeading(n, TRUE)
  /\ Goto(n, "lead")
  /\ UNCHANGED <<holder, session, expiries>>

(* Mutant: Resign and Close come before the flag is cleared. *)
StopResignsFirst(n) ==
  \/ /\ pc[n] = "lead"
     /\ Release(n)
     /\ Goto(n, "resign")
     /\ UNCHANGED <<leading, expiries>>
  \/ /\ pc[n] = "resign"
     /\ SetLeading(n, FALSE)
     /\ Goto(n, "stopped")
     /\ UNCHANGED <<holder, session, expiries>>

(* The context is cancelled: Run returns; a leader clears the flag first   *)
(* and then resigns.                                                       *)
Stop(n) ==
  \/ /\ pc[n] \in {"connect", "campaign"}
     /\ Release(n)
     /\ Goto(n, "stopped")
     /\ UNCHANGED <<leading, expiries>>
  \/ /\ pc[n] = "lead"
     /\ SetLeading(n, FALSE)
     /\ Goto(n, "resign")
     /\ UNCHANGED <<holder, session, expiries>>
  \/ /\ pc[n] = "resign"
     /\ Release(n)
     /\ Goto(n, "stopped")
     /\ UNCHANGED <<leading, expiries>>

(* The process is gone; its session outlives it by the lease's TTL. *)
Crash(n) ==
  /\ pc[n] # "stopped"
  /\ SetLeading(n, FALSE)
  /\ holder' = IF holder = n THEN Orphan ELSE holder
  /\ session' = [session EXCEPT ![n] = "none"]
  /\ Goto(n, "stopped")
  /\ UNCHANGED expiries

Start(n) ==
  /\ pc[n] = "stopped"
  /\ Goto(n, "connect")
  /\ UNCHANGED <<holder, session, leading, expiries>>

(* etcd: a lease that is not kept alive expires. *)
OrphanExpires ==
  /\ holder = Orphan
  /\ holder' = None
  /\ UNCHANGED <<session, leading, pc, expiries>>

(* The node runs but cannot reach etcd for longer than the TTL. *)
LeaseExpires(n) ==
  /\ session[n] = "live"
  /\ expiries < MaxExpiries
  /\ expiries' = expiries + 1
  /\ holder' = IF holder = n THEN None ELSE holder
  /\ session' = [session EXCEPT ![n] = "expired"]
  /\ UNCHANGED <<leading, pc>>

-----------------------------------------------------------------------------
Init ==
  /\ holder = None
  /\ session = [n \in Nodes |-> "none"]
  /\ leading = [n \in Nodes |-> FALSE]
  /\ pc = [n \in Nodes |-> "connect"]
  /\ expiries = 0

Next ==
  \/ OrphanExpires
  \/ \E n \in Nodes :
       \/ NewSession(n)
       \/ CampaignWins(n)
       \/ CampaignFails(n)
       \/ Lead(n)
       \/ Stop(n)
       \/ Crash(n)
       \/ Start(n)
       \/ LeaseExpires(n)

Spec == Init /\ [][Next]_vars

(* Electors and etcd keep going, campaign errors are transient, and a      *)
(* campaign on an expired session is told so.                              *)
FairSpec ==
  /\ Spec
  /\ WF_vars(OrphanExpires)
  /\ \A n \in Nodes :
       /\ WF_vars(NewSession(n) \/ Lead(n) \/ (pc[n] = "resign" /\ Stop(n)))
       /\ SF_vars(CampaignWins(n))
       /\ WF_vars(session[n] = "expired" /\ CampaignFails(n))
-----------------------------------------------------------------------------
(* Properties *)

TypeOK ==
  /\ holder \in Nodes \cup {None, Orphan}
  /\ session \in [Nodes -> {"none", "live", "expired"}]
  /\ leading \in [Nodes -> BOOLEAN]
  /\ pc \in [Nodes -> {"connect", "campaign", "won", "lead", "resign", "stopped"}]
  /\ expiries \in 0 .. MaxExpiries

(* The inductive invariant: an elector with a live session that won has    *)
(* the key, and nobody else; only an elector that won raises its flag.     *)
ElectionInv ==
  /\ TypeOK
  /\ \A n \in Nodes :
       /\ leading[n] => pc[n] = "lead"
       /\ session[n] = "none" <=> pc[n] \in {"connect", "stopped"}
       /\ holder = n <=> pc[n] \in {"won", "lead", "resign"} /\ session[n] = "live"

(* Two nodes lead at the same time only if the lease of one of them has    *)
(* expired under it: through crashes, restarts and hand-overs the flag is  *)
(* cleared before the key is given up.                                     *)
AtMostOneLeader ==
  \A m, n \in Nodes :
    leading[m] /\ leading[n] /\ m # n => session[m] = "expired" \/ session[n] = "expired"

(* Once nodes stop coming and going, those that run get a leader, whoever  *)
(* crashed with the key and whatever campaigns failed.                     *)
SomebodyLeads ==
  /\ \A n \in Nodes : <>[](pc[n] # "stopped") \/ <>[](pc[n] = "stopped")
  /\ \E n \in Nodes : <>[](pc[n] # "stopped")
  => []<>(\E n \in Nodes : leading[n])
-----------------------------------------------------------------------------
(* Proofs, for any set of nodes and any number of expired leases:          *)
(* ElectionInv ties the flag to the elector's place in Run, and that place *)
(* to the key in etcd.                                                     *)

(* Nobody has the key, or raises the flag, before the first campaign. *)
LEMMA ElectionInit == Init => ElectionInv
  BY NodesAssumption, ExpiriesAssumption DEF Init, ElectionInv, TypeOK

(* One step per action of leader.go and of etcd. *)
LEMMA ElectionStep == ElectionInv /\ [Next]_vars => ElectionInv'
<1> SUFFICES ASSUME ElectionInv, [Next]_vars PROVE ElectionInv'
  OBVIOUS
<1> USE NodesAssumption, ExpiriesAssumption DEF ElectionInv, TypeOK
<1>1. CASE OrphanExpires
  BY <1>1 DEF OrphanExpires
<1>2. ASSUME NEW n \in Nodes, NewSession(n) PROVE ElectionInv'
  BY <1>2 DEF NewSession, Goto
<1>3. ASSUME NEW n \in Nodes, CampaignWins(n) PROVE ElectionInv'
  BY <1>3 DEF CampaignWins, Goto
<1>4. ASSUME NEW n \in Nodes, CampaignFails(n) PROVE ElectionInv'
  BY <1>4 DEF CampaignFails, Goto, Release
<1>5. ASSUME NEW n \in Nodes, Lead(n) PROVE ElectionInv'
  BY <1>5 DEF Lead, Goto, SetLeading
<1>6. ASSUME NEW n \in Nodes, Stop(n) PROVE ElectionInv'
  <2>1. CASE pc[n] \in {"connect", "campaign"}
    BY <1>6, <2>1 DEF Stop, Goto, Release
  <2>2. CASE pc[n] = "lead"
    BY <1>6, <2>2 DEF Stop, Goto, SetLeading
  <2>3. CASE pc[n] = "resign"
    BY <1>6, <2>3 DEF Stop, Goto, Release
  <2> QED
    BY <1>6, <2>1, <2>2, <2>3 DEF Stop
<1>7. ASSUME NEW n \in Nodes, Crash(n) PROVE ElectionInv'
  BY <1>7 DEF Crash, Goto, SetLeading
<1>8. ASSUME NEW n \in Nodes, Start(n) PROVE ElectionInv'
  BY <1>8 DEF Start, Goto
<1>9. ASSUME NEW n \in Nodes, LeaseExpires(n) PROVE ElectionInv'
  BY <1>9 DEF LeaseExpires
<1>10. CASE UNCHANGED vars
  BY <1>10 DEF vars
<1> QED
  BY <1>1, <1>2, <1>3, <1>4, <1>5, <1>6, <1>7, <1>8, <1>9, <1>10 DEF Next

(* Two leaders with unexpired sessions would both be the holder. *)
LEMMA InvImpliesAtMostOneLeader == ElectionInv => AtMostOneLeader
  BY DEF ElectionInv, TypeOK, AtMostOneLeader

(* The invariant holds in every reachable state. *)
THEOREM ElectionInvariant == Spec => []ElectionInv
  BY ElectionInit, ElectionStep, PTL DEF Spec

(* However many nodes run, crash and restart, leader.go lets two of them   *)
(* lead at the same time only while one has lost its lease.                *)
THEOREM OneLeader == Spec => []AtMostOneLeader
  BY ElectionInvariant, InvImpliesAtMostOneLeader, PTL
=============================================================================
