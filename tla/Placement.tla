----------------------------- MODULE Placement -----------------------------
(***************************************************************************)
(* The placement checks of crdblab/core/preflight.py and the clusters they *)
(* look at.  On CockroachDB the leaseholders must be in the gateway's      *)
(* region; on PostgreSQL the Patroni primary must be the gateway, and is   *)
(* switched over if it is not.  The cluster is external: Patroni fails     *)
(* over, members rewind and rejoin, leases move, all while the check,      *)
(* which asks one node after the other over HTTP, is at work.              *)
(***************************************************************************)
EXTENDS Integers, FiniteSets

CONSTANTS
  Nodes,     \* the members of the cluster
  Gateway,   \* the one every run is led from
  MaxMoves   \* how often the leadership moves for no reason of ours

ASSUME GatewayAssumption == Gateway \in Nodes
ASSUME MaxMovesAssumption == MaxMoves \in Nat

VARIABLES
  engine,     \* what is deployed
  alive,      \* external: the nodes whose database process runs
  cut,        \* external: the nodes that are off the network
  leads,      \* external: the nodes that take themselves for the primary
  member,     \* external: how far each node is attached to the primary
  leased,     \* external: every lease is in the gateway's region
  moves,      \* external: the moves nobody asked for, up to MaxMoves
  check,      \* the check: idle, lease, resolve, ready, settle, switch, again
  patient,    \* settle_timeout_s > 0
  unasked,    \* nodes resolve_patroni_primary has still to ask
  primaries,  \* its list of the nodes that answered 200
  timeline,   \* leader_timeline: none, current, or past (a promotion since)
  verdict,    \* what the check reported: none, passed, failed; or raised
  calm        \* history: no unasked-for move since the reading it rests on

clusterVars == <<alive, cut, leads, member, leased, moves>>
checkVars == <<check, patient, unasked, primaries, timeline, verdict>>
placementVars == <<engine, clusterVars, checkVars, calm>>

Engines == {"cockroachdb", "postgresql"}
Reachable == alive \ cut

(* The members that answer 200 on /primary.                                *)
Claims == leads \cap Reachable

PlacementInit ==
  /\ engine \in Engines
  /\ alive = Nodes /\ cut = {} /\ leads = {Gateway} /\ leased = TRUE
  /\ member = [n \in Nodes |-> "quorum"]
  /\ moves = 0
  /\ check = "idle" /\ patient = FALSE /\ unasked = {} /\ primaries = {}
  /\ timeline = "none" /\ verdict = "none" /\ calm = FALSE

-----------------------------------------------------------------------------
(* External: the cluster.                                                  *)

(* The members after n was promoted: the others have yet to follow onto    *)
(* the new timeline.                                                       *)
Promoted(n) == [m \in Nodes |-> IF m = n THEN "quorum" ELSE "detached"]

AsPast == IF timeline = "current" THEN "past" ELSE timeline

(* A failover, once no reachable node leads.                               *)
Promote(n) ==
  /\ engine = "postgresql" /\ Claims = {}
  /\ n \in Reachable /\ member[n] = "quorum"
  /\ leads' = leads \cup {n} /\ member' = Promoted(n) /\ timeline' = AsPast
  /\ UNCHANGED <<engine, alive, cut, leased, moves, check, patient, unasked,
                 primaries, verdict, calm>>

(* A replica streams from the primary, then counts towards its quorum.     *)
Attach(n) ==
  /\ engine = "postgresql" /\ n \in Reachable \ leads /\ Claims # {}
  /\ member[n] # "quorum"
  /\ member' = [member EXCEPT
       ![n] = IF member[n] = "detached" THEN "streaming" ELSE "quorum"]
  /\ UNCHANGED <<engine, alive, cut, leads, leased, moves, checkVars, calm>>

(* A primary that lost the lock, or its process, no longer leads.          *)
StepDown(n) ==
  /\ engine = "postgresql" /\ n \in leads
  /\ n \in Reachable => Cardinality(Claims) > 1 /\ member[n] # "quorum"
  /\ leads' = leads \ {n}
  /\ UNCHANGED <<engine, alive, cut, member, leased, moves, checkVars, calm>>

(* The leases go back to where the zone configuration wants them.          *)
LeasesReturn ==
  /\ engine = "cockroachdb" /\ Gateway \in Reachable /\ leased' = TRUE
  /\ UNCHANGED <<engine, alive, cut, leads, member, moves, checkVars, calm>>

(* The cluster moves its leadership by itself.                             *)
SelfMove ==
  /\ moves < MaxMoves /\ moves' = moves + 1 /\ calm' = FALSE
  /\ \/ engine = "cockroachdb" /\ leased' = FALSE /\ UNCHANGED leads
     \/ engine = "postgresql" /\ leads' = leads \ Claims /\ UNCHANGED leased
  /\ UNCHANGED <<engine, alive, cut, member, checkVars>>

ClusterStep ==
  \/ \E n \in Nodes : Promote(n) \/ Attach(n) \/ StepDown(n)
  \/ LeasesReturn \/ SelfMove

-----------------------------------------------------------------------------
(* The check.                                                              *)

(* resolve_patroni_primary begins to ask.                                  *)
AskAll == unasked' = Nodes /\ primaries' = {}

(* check_leaseholder_placement or check_patroni_primary_placement is       *)
(* called; settles: with a settle_timeout_s.                               *)
BeginCheck(settles) ==
  /\ check = "idle" /\ verdict = "none"
  /\ check' = IF engine = "cockroachdb" THEN "lease" ELSE "resolve"
  /\ patient' = settles /\ timeline' = "none" /\ AskAll /\ calm' = TRUE
  /\ UNCHANGED <<engine, clusterVars, verdict>>

Report(v) == check' = "idle" /\ verdict' = v

(* The ssh call under the check times out: the exception goes all the way. *)
CheckRaises ==
  /\ check \in {"lease", "switch"} /\ Report("raised")
  /\ UNCHANGED <<engine, clusterVars, patient, unasked, primaries, timeline, calm>>

(* One reading of the leases, on the gateway; it is repeated until the     *)
(* placement has settled.                                                  *)
ReadLeases ==
  /\ check = "lease" /\ calm' = TRUE
  /\ Gateway \in Reachable /\ leased /\ Report("passed")
  /\ UNCHANGED <<engine, clusterVars, patient, unasked, primaries, timeline>>

(* No reading passed before the deadline, or the only one did not.         *)
LeasesMisplaced ==
  /\ check = "lease" /\ Report("failed")
  /\ patient \/ Gateway \notin Reachable \/ ~leased
  /\ UNCHANGED <<engine, clusterVars, patient, unasked, primaries, timeline, calm>>

(* resolve_patroni_primary asks the next node.                             *)
Ask(n) ==
  /\ n \in unasked /\ unasked' = unasked \ {n}
  /\ primaries' = IF n \in Claims THEN primaries \cup {n} ELSE primaries
  /\ UNCHANGED <<engine, clusterVars, check, patient, timeline, verdict, calm>>

(* All answered: none or several primaries fail the check, the gateway     *)
(* passes it, and another one is to be switched over; its timeline is read *)
(* once, if it can be.                                                     *)
Resolved ==
  /\ check = "resolve" /\ unasked = {}
  /\ \/ Cardinality(primaries) # 1 /\ Report("failed") /\ UNCHANGED timeline
     \/ primaries = {Gateway} /\ Report("passed") /\ UNCHANGED timeline
     \/ /\ \E n \in Nodes \ {Gateway} : primaries = {n}
        /\ check' = "ready" /\ UNCHANGED verdict
        /\ timeline' = IF primaries \subseteq Reachable THEN "current" ELSE "none"
  /\ UNCHANGED <<engine, clusterVars, patient, unasked, primaries, calm>>

(* patroni_candidate_ready: the gateway is up and streams, on the timeline *)
(* that was read, if one was, and counts in the quorum.                    *)
CandidateReady ==
  /\ Gateway \in Reachable /\ member[Gateway] = "quorum"
  /\ Claims # {} /\ timeline # "past"

Candidate ==
  /\ check = "ready"
  /\ \/ CandidateReady /\ check' = "switch" /\ UNCHANGED verdict
     \/ ~CandidateReady /\ patient /\ check' = "settle" /\ UNCHANGED verdict
     \/ ~CandidateReady /\ ~patient /\ Report("failed")
  /\ UNCHANGED <<engine, clusterVars, patient, unasked, primaries, timeline, calm>>

(* The wait for the candidate: it is ready at one of the polls, or never.  *)
Settle ==
  /\ check = "settle"
  /\ \/ CandidateReady /\ check' = "switch" /\ UNCHANGED verdict
     \/ Report("failed")
  /\ UNCHANGED <<engine, clusterVars, patient, unasked, primaries, timeline, calm>>

(* patronictl switchover --leader from --candidate Gateway --force: it is  *)
(* accepted or refused, and the candidate may take a moment to lead.       *)
SwitchoverFrom(from) ==
  \/ /\ Claims = {from} /\ Gateway \in Reachable
     /\ member[Gateway] = "quorum"
     /\ \/ leads' = (leads \ {from}) \cup {Gateway} /\ member' = Promoted(Gateway)
        \/ leads' = leads \ {from} /\ UNCHANGED member
  \/ UNCHANGED <<leads, member>>

Switchover ==
  /\ check = "switch"
  /\ \E from \in primaries : SwitchoverFrom(from)
  /\ check' = "again" /\ AskAll /\ calm' = TRUE
  /\ UNCHANGED <<engine, alive, cut, leased, moves, patient, timeline, verdict>>

(* Slip: an accepted switchover is taken for a finished one.               *)
ReresolvedBlindly ==
  /\ check = "again" /\ unasked = {}
  /\ Report(IF Cardinality(primaries) <= 1 THEN "passed" ELSE "failed")
  /\ UNCHANGED <<engine, clusterVars, patient, unasked, primaries, timeline, calm>>

(* Whatever the command said, the primary is read again.                   *)
Reresolved ==
  /\ check = "again" /\ unasked = {}
  /\ Report(IF primaries = {Gateway} THEN "passed" ELSE "failed")
  /\ UNCHANGED <<engine, clusterVars, patient, unasked, primaries, timeline, calm>>

CheckStep ==
  \/ CheckRaises \/ ReadLeases \/ LeasesMisplaced
  \/ \E n \in Nodes : check \in {"resolve", "again"} /\ Ask(n)
  \/ Resolved \/ Candidate \/ Settle \/ Switchover \/ Reresolved

-----------------------------------------------------------------------------
PlacementTypeOK ==
  /\ engine \in Engines
  /\ alive \subseteq Nodes /\ cut \subseteq Nodes /\ leads \subseteq Nodes
  /\ member \in [Nodes -> {"detached", "streaming", "quorum"}]
  /\ leased \in BOOLEAN /\ moves \in 0..MaxMoves
  /\ check \in {"idle", "lease", "resolve", "ready", "settle", "switch", "again"}
  /\ patient \in BOOLEAN /\ unasked \subseteq Nodes /\ primaries \subseteq Nodes
  /\ timeline \in {"none", "current", "past"}
  /\ verdict \in {"none", "passed", "failed", "raised"} /\ calm \in BOOLEAN

(* The cluster is led from where the runs require it.                      *)
Placed == IF engine = "cockroachdb" THEN leased ELSE Gateway \in leads
=============================================================================
