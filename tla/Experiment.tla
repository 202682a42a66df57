----------------------------- MODULE Experiment -----------------------------
(***************************************************************************)
(* run-experiment.sh: the measurement of one deployed engine, with the     *)
(* exit codes of the crdblab commands it calls (cli.py) and the run        *)
(* directories they leave to it and to later sessions.  A session waits    *)
(* for the whole cluster, loads, sweeps, injects a partition and a kill,   *)
(* repairs what they left, validates every recorded run and draws.  It     *)
(* stops at the first failure; the next session finds the cluster and the  *)
(* run directories as they are.  The checks before a phase are those of    *)
(* Placement; one chaos run is ChaosRun's, seen from outside: its fault,   *)
(* whether it raised, its restore.                                         *)
(***************************************************************************)
EXTENDS Placement

CONSTANTS MaxSessions   \* how often the script is started

ASSUME MaxSessionsAssumption == MaxSessions \in Nat \ {0}

VARIABLES
  session,   \* how many were started
  runChaos,  \* RUN_CHAOS
  pc,        \* the step of the script, or of the command it waits for
  mode,      \* of the chaos run that is next or at work
  target,    \* fault_target of that run
  fault,     \* it was: none, sent (no effect known), hit
  landed,    \* what injected["landed"] says of it: unset, yes, no, none
  latest,    \* the newest run directory of each kind
  spoiled,   \* some recorded metrics.csv does not pass crdblab validate
  swept,     \* what the script said of all members: none, ok, warned
  intact     \* history: every generator of this session ran its time

scriptVars == <<session, runChaos, pc>>
runVars == <<mode, target, fault, landed>>
recordVars == <<latest, spoiled>>
experimentVars == <<scriptVars, runVars, recordVars, swept, intact>>
vars == <<placementVars, experimentVars>>

None == "none"
Kinds == {"bench", "recover", "dead"}
NoRun == [session |-> 0, whole |-> FALSE, fit |-> FALSE, sound |-> FALSE]

Init ==
  /\ PlacementInit
  /\ session = 0 /\ runChaos = FALSE /\ pc = "idle"
  /\ mode = "recover" /\ target = None /\ fault = "none" /\ landed = "unset"
  /\ latest = [k \in Kinds |-> NoRun] /\ spoiled = FALSE
  /\ swept = "none" /\ intact = TRUE

At(from, to) == pc = from /\ pc' = to
Die(from) == At(from, "died")

-----------------------------------------------------------------------------
(* Up to the first phase.                                                  *)

(* A person starts the script, and may restart nodes before that.          *)
Start ==
  /\ pc \in {"idle", "done", "died"} /\ session < MaxSessions
  /\ check = "idle"
  /\ session' = session + 1 /\ runChaos' \in BOOLEAN /\ pc' = "health"
  /\ mode' = "recover" /\ target' = None /\ fault' = "none" /\ landed' = "unset"
  /\ verdict' = "none" /\ swept' = "none" /\ intact' = TRUE
  /\ UNCHANGED <<engine, clusterVars, check, patient, unasked, primaries,
                 timeline, calm, latest, spoiled>>

PersonRestarts(n) ==
  /\ pc \in {"idle", "done", "died"} /\ n \notin alive
  /\ alive' = alive \cup {n}
  /\ UNCHANGED <<engine, cut, leads, member, leased, moves, checkVars, calm,
                 experimentVars>>

(* Slip: the wait ends at its deadline with the nodes there are.           *)
HealthWaitLenient ==
  /\ At("health", "config")
  /\ UNCHANGED <<placementVars, session, runChaos, runVars, recordVars, swept, intact>>

(* All members answered within the bounded wait.  cockroach node status,    *)
(* asked on the gateway, lists every node that ever joined, live or not;   *)
(* the other engine's members are asked one by one.                        *)
HealthWait ==
  /\ At("health", "config")
  /\ IF engine = "cockroachdb" THEN Gateway \in Reachable ELSE Reachable = Nodes
  /\ UNCHANGED <<placementVars, session, runChaos, runVars, recordVars, swept, intact>>

(* The zone configuration names the gateway's region first; exactly one    *)
(* member says it is the primary.                                          *)
ConfigChecked ==
  /\ At("config", "load")
  /\ engine = "postgresql" => Cardinality(Claims) = 1
  /\ UNCHANGED <<placementVars, session, runChaos, runVars, recordVars, swept, intact>>

(* load_data, unless skipped, and count_rows; then Phase I.                *)
Load ==
  /\ At("load", "network")
  /\ UNCHANGED <<placementVars, session, runChaos, runVars, recordVars, swept, intact>>

(* The matrix of round trips; on CockroachDB with a placement check.       *)
NetworkPhase ==
  /\ At("network", "bench") /\ verdict' = "none"
  /\ engine = "cockroachdb" => verdict = "passed"
  /\ UNCHANGED <<engine, clusterVars, check, patient, unasked, primaries, timeline,
                 calm, session, runChaos, runVars, recordVars, swept, intact>>

(* die(), or an ssh that fails under set -e: a wait that gave up, a zone   *)
(* configuration, a load, a network probe.                                 *)
EarlyFailure ==
  /\ \/ Die("health") \/ Die("load") \/ (Die("network") /\ check = "idle")
     \/ (Die("config") /\ (engine = "postgresql" => Cardinality(Claims) # 1))
  /\ UNCHANGED <<placementVars, session, runChaos, runVars, recordVars, swept, intact>>

-----------------------------------------------------------------------------
(* A phase: its checks, its run directory, its exit code.                  *)

(* The pre-flight placement check: the sweep gives it no time to settle,   *)
(* a chaos run does.                                                       *)
BeginPhase ==
  /\ \/ pc \in {"bench", "chaos"}
     \/ pc = "network" /\ engine = "cockroachdb"
  /\ BeginCheck(pc = "chaos")
  /\ UNCHANGED experimentVars

(* A directory without a manifest.                                         *)
Opened(kind) == latest' = [latest EXCEPT ![kind] = [NoRun EXCEPT !.session = session]]

(* What is written at the end, which validate may find consistent or not.  *)
Closed(kind, isFit, isSound) ==
  /\ latest' = [latest EXCEPT ![kind].whole = TRUE, ![kind].fit = isFit,
                              ![kind].sound = isSound]
  /\ spoiled' = (spoiled \/ ~isSound)

SweepStarts ==
  /\ At("bench", "sweep") /\ verdict = "passed" /\ verdict' = "none"
  /\ Opened("bench")
  /\ UNCHANGED <<engine, clusterVars, check, patient, unasked, primaries, timeline,
                 calm, session, runChaos, runVars, spoiled, swept, intact>>

(* The sweep ends: a failed row-match or latency check makes it exit 1.    *)
SweepEnds ==
  /\ \E isFit, isSound \in BOOLEAN :
       /\ Closed("bench", isFit, isSound)
       /\ At("sweep", IF ~isFit THEN "died"
                      ELSE IF runChaos THEN "chaos" ELSE "validate")
  /\ UNCHANGED <<placementVars, session, runChaos, runVars, swept, intact>>

(* What an exception leaves: no manifest, and perhaps a metrics.csv, which *)
(* may well be consistent as far as it goes.                               *)
Abandoned(kind) ==
  \E isSound \in BOOLEAN :
    /\ latest' = [latest EXCEPT ![kind].sound = isSound]
    /\ spoiled' \in IF isSound THEN {spoiled} ELSE {spoiled, TRUE}

SweepRaises ==
  /\ Die("sweep") /\ Abandoned("bench")
  /\ UNCHANGED <<placementVars, session, runChaos, runVars, swept, intact>>

(* A check that failed or raised: "refusing to measure", exit 1.           *)
Refused ==
  /\ check = "idle" /\ verdict # "none"
  /\ \/ Die("network") \/ Die("bench") \/ Die("authorise")
     \/ Die("chaos") /\ verdict = "raised"
     \/ Die("target") /\ unasked = {} /\ Cardinality(primaries) # 1
  /\ verdict' = "none"
  /\ UNCHANGED <<engine, clusterVars, check, patient, unasked, primaries, timeline,
                 calm, session, runChaos, runVars, recordVars, swept, intact>>

-----------------------------------------------------------------------------
(* A chaos run.                                                            *)

(* The target is the profile's on CockroachDB, and on PostgreSQL the       *)
(* primary, which is resolved again after the check, whatever it found.    *)
ChooseTarget ==
  /\ pc = "chaos" /\ check = "idle" /\ verdict \in {"passed", "failed"}
  /\ IF engine = "cockroachdb"
     THEN pc' = "authorise" /\ target' = Gateway /\ UNCHANGED <<unasked, primaries>>
     ELSE pc' = "target" /\ AskAll /\ UNCHANGED target
  /\ UNCHANGED <<engine, clusterVars, check, patient, timeline, verdict, calm,
                 session, runChaos, mode, fault, landed, recordVars, swept, intact>>

AskForTarget ==
  /\ pc = "target" /\ \E n \in Nodes : Ask(n)
  /\ UNCHANGED experimentVars

(* Slip: whatever answered is the target, also when nothing did.           *)
TargetResolvedAnyhow ==
  /\ At("target", "authorise") /\ unasked = {}
  /\ target' \in IF primaries = {} THEN {None} ELSE primaries
  /\ UNCHANGED <<placementVars, session, runChaos, mode, fault, landed, recordVars,
                 swept, intact>>

(* Exactly one answered.                                                   *)
TargetResolved ==
  /\ At("target", "authorise") /\ unasked = {}
  /\ \E n \in Nodes : primaries = {n} /\ target' = n
  /\ UNCHANGED <<placementVars, session, runChaos, mode, fault, landed, recordVars,
                 swept, intact>>

(* check_fault_authorisation: a harmless command is tried on the target    *)
(* over ssh.  To kill CockroachDB it needs the process to be there.        *)
Authorised ==
  /\ target \notin cut
  /\ mode = "dead" /\ engine = "cockroachdb" => target \in alive

(* Clocks, authorisation and agent are checked on the target; everything   *)
(* passed, and the stream begins.                                          *)
StreamStarts ==
  /\ At("authorise", "stream") /\ verdict = "passed" /\ Authorised
  /\ verdict' = "none" /\ Opened(mode)
  /\ UNCHANGED <<engine, clusterVars, check, patient, unasked, primaries, timeline,
                 calm, session, runChaos, runVars, spoiled, swept, intact>>

(* tailscale down; up again RECOVER_HEAL_DELAY_S later.  The connection    *)
(* that brought the fault may break, in time for a 255, which is a "no".   *)
Partition ==
  /\ mode = "recover" /\ cut' = cut \cup {target} /\ fault' = "hit"
  /\ landed' \in {"yes", "no", "none"}
  /\ UNCHANGED alive

(* The payload of the dead mode.                                           *)
Kill ==
  /\ mode = "dead" /\ alive' = alive \ {target} /\ fault' = "hit"
  /\ landed' \in {"yes", "no", "none"}
  /\ UNCHANGED cut

(* It failed, which a command in the background does not say, or never     *)
(* arrived.                                                                *)
Missed ==
  /\ fault' = "sent"
  /\ landed' \in {"no", "none"} \cup IF mode = "recover" THEN {"yes"} ELSE {}
  /\ UNCHANGED <<alive, cut>>

Inject ==
  /\ pc = "stream" /\ fault = "none"
  /\ \/ target \in Reachable /\ (Partition \/ Kill)
     \/ Missed
  /\ leased' = IF engine = "cockroachdb" /\ fault' = "hit" THEN FALSE ELSE leased
  /\ UNCHANGED <<engine, leads, member, moves, checkVars, calm, scriptVars, mode,
                 target, recordVars, swept, intact>>

(* External: the partitioned node is back.                                 *)
Heal(n) ==
  /\ n \in cut /\ cut' = cut \ {n}
  /\ UNCHANGED <<engine, alive, leads, member, leased, moves, checkVars, calm,
                 experimentVars>>

(* The generator runs until well after the heal ("so the demoted node is   *)
(* back before the next phase"), unless its stream ends early, which       *)
(* nothing notices: its exit status is not looked at.                      *)
StreamEnds ==
  /\ At("stream", "restore")
  /\ \/ cut = {} /\ UNCHANGED intact
     \/ intact' = FALSE
  /\ UNCHANGED <<placementVars, session, runChaos, runVars, recordVars, swept>>

(* The stream, collect() or a write raises; no artefact is complete.       *)
ChaosRaises ==
  /\ Die("stream") \/ Die("restore") \/ Die("save")
  /\ Abandoned(mode)
  /\ UNCHANGED <<placementVars, session, runChaos, runVars, swept, intact>>

(* restore_target starts the process; the ssh call may fail before that.   *)
(* Nothing is done for a recover run, or if the fault is taken not to have *)
(* landed.                                                                 *)
Restore ==
  /\ At("restore", "save")
  /\ \/ UNCHANGED alive
     \/ mode = "dead" /\ landed # "no" /\ alive' = alive \cup {target}
  /\ UNCHANGED <<engine, cut, leads, member, leased, moves, checkVars, calm, session,
                 runChaos, runVars, recordVars, swept, intact>>

(* The artefacts are written, and the command exits 0, also when the fault *)
(* did not land or the target did not rejoin.                              *)
ChaosEnds ==
  /\ At("save", IF mode = "recover" THEN "chaos" ELSE "backstop")
  /\ \E isSound \in BOOLEAN : Closed(mode, TRUE, isSound)
  /\ mode' = "dead" /\ target' = None /\ fault' = "none" /\ landed' = "unset"
  /\ UNCHANGED <<placementVars, session, runChaos, swept, intact>>

-----------------------------------------------------------------------------
(* The repair after the last phase.                                        *)

(* The members the backstop tries to start: every one that is not healthy, *)
(* on CockroachDB the profile's target.                                    *)
Backstopped == IF engine = "postgresql" THEN Nodes \ Reachable ELSE {Gateway}

(* Some of them start ("|| true").                                         *)
Backstop ==
  /\ At("backstop", "rejoin")
  /\ \E S \in SUBSET (Backstopped \ cut) : alive' = alive \cup S
  /\ UNCHANGED <<engine, cut, leads, member, leased, moves, checkVars, calm, session,
                 runChaos, runVars, recordVars, swept, intact>>

(* What the script takes for a whole cluster: on CockroachDB a survivor    *)
(* lists every node, which it does whether the others run or not.          *)
SeenWhole ==
  IF engine = "cockroachdb" THEN Reachable \ {Gateway} # {} ELSE Reachable = Nodes

(* Sixty seconds to rejoin: all are seen, or the script warns.             *)
Rejoin ==
  /\ \/ swept' = "ok" /\ SeenWhole
     \/ swept' = "warned"
  /\ IF engine = "postgresql"
     THEN At("rejoin", "primary") /\ AskAll
     ELSE At("rejoin", "validate") /\ UNCHANGED <<unasked, primaries>>
  /\ UNCHANGED <<engine, clusterVars, check, patient, timeline, verdict, calm, session,
                 runChaos, runVars, recordVars, intact>>

AskForPrimary ==
  /\ pc = "primary" /\ \E n \in Nodes : Ask(n)
  /\ UNCHANGED experimentVars

(* The primary found, the last of several, is switched over to the gateway *)
(* after a bounded wait for it to stream; nothing fails if it is refused.  *)
SwitchBack ==
  /\ At("primary", "validate") /\ unasked = {}
  /\ \/ primaries \subseteq {Gateway} /\ UNCHANGED <<leads, member>>
     \/ \E from \in primaries \ {Gateway} : SwitchoverFrom(from)
     \/ Gateway \in primaries /\ UNCHANGED <<leads, member>>
  /\ UNCHANGED <<engine, alive, cut, leased, moves, checkVars, calm, session,
                 runChaos, runVars, recordVars, swept, intact>>

-----------------------------------------------------------------------------
(* Validation, analysis and figures.                                       *)

(* Every metrics.csv under runs/, also of earlier sessions.                *)
Validate ==
  /\ At("validate", IF spoiled THEN "died" ELSE "figures")
  /\ UNCHANGED <<placementVars, session, runChaos, runVars, recordVars, swept, intact>>

(* The newest run of a kind, if there is one: where there is none, ls      *)
(* fails, and set -e with pipefail ends the script without a word.         *)
Picked == {k \in Kinds : latest[k].session > 0}

(* Slip: load_run is satisfied with a metrics.csv.                         *)
LoadableIfSound(k) == latest[k].sound

(* load_run: a manifest, consistent metrics, and a pre-flight that passed. *)
Loadable(k) == latest[k].whole /\ latest[k].sound /\ latest[k].fit

(* The analysis and the figures of what was picked; one that cannot be     *)
(* loaded ends the script.                                                 *)
Figures ==
  /\ At("figures", IF Picked = Kinds /\ \A k \in Kinds : Loadable(k)
                   THEN "done" ELSE "died")
  /\ UNCHANGED <<placementVars, session, runChaos, runVars, recordVars, swept, intact>>

-----------------------------------------------------------------------------
Script ==
  \/ Start \/ HealthWait \/ ConfigChecked \/ Load \/ NetworkPhase \/ EarlyFailure
  \/ BeginPhase \/ SweepStarts \/ SweepEnds \/ SweepRaises \/ Refused
  \/ ChooseTarget \/ AskForTarget \/ TargetResolved \/ StreamStarts \/ Inject
  \/ StreamEnds \/ ChaosRaises \/ Restore \/ ChaosEnds
  \/ Backstop \/ Rejoin \/ AskForPrimary \/ SwitchBack \/ Validate \/ Figures

Environment ==
  \/ ClusterStep /\ UNCHANGED experimentVars
  \/ \E n \in Nodes : PersonRestarts(n) \/ Heal(n)

Next ==
  \/ Script
  \/ CheckStep /\ UNCHANGED experimentVars
  \/ Environment

Spec == Init /\ [][Next]_vars

-----------------------------------------------------------------------------
TypeOK ==
  /\ PlacementTypeOK
  /\ session \in 0..MaxSessions /\ runChaos \in BOOLEAN
  /\ pc \in {"idle", "health", "config", "load", "network", "bench", "sweep",
             "chaos", "target", "authorise", "stream", "restore", "save",
             "backstop", "rejoin", "primary", "validate", "figures", "done", "died"}
  /\ mode \in {"recover", "dead"} /\ target \in Nodes \cup {None}
  /\ pc \in {"authorise", "stream", "restore", "save"} => target \in Nodes
  /\ fault \in {"none", "sent", "hit"} /\ landed \in {"unset", "yes", "no", "none"}
  /\ latest \in [Kinds -> [session : 0..MaxSessions, whole : BOOLEAN, fit : BOOLEAN,
                           sound : BOOLEAN]]
  /\ spoiled \in BOOLEAN /\ swept \in {"none", "ok", "warned"}
  /\ intact \in BOOLEAN

(* The sweep is at work, or a chaos run before its fault.                  *)
Measuring == pc = "sweep" \/ (pc = "stream" /\ fault = "none")

(* No phase measures a cluster an earlier fault still disturbs: what a     *)
(* session killed or cut off, and did not repair, ends the next one before *)
(* its first phase, and a chaos run never adds its fault to another one.   *)
MeasuredUndisturbed == Measuring /\ intact => Reachable = Nodes

(* A phase is led from the gateway, which a chaos run also faults, however *)
(* the leadership moved up to the last reading of its check.  Only a move  *)
(* after that reading goes unnoticed.                                      *)
MeasuredFromGateway ==
  Measuring /\ calm /\ intact => Placed /\ (pc = "stream" => target = Gateway)

(* The script draws only complete, consistent runs whose checks passed,    *)
(* and with chaos all of them of this session.  Without it, the chaos runs *)
(* of an earlier session, perhaps an aborted one, are what latest finds.   *)
FiguresAreFit ==
  pc = "done" => \A k \in Kinds :
    /\ latest[k].whole /\ latest[k].sound /\ latest[k].fit
    /\ runChaos => latest[k].session = session
=============================================================================
