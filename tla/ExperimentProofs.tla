-------------------------- MODULE ExperimentProofs --------------------------
(***************************************************************************)
(* Proofs about the experiment script for every set of nodes, gateway,     *)
(* number of sessions and of moves: no phase measures what an earlier      *)
(* fault still disturbs, and only complete runs are drawn.                 *)
(***************************************************************************)
EXTENDS Experiment, FiniteSetTheorems, TLAPS

(* On CockroachDB the faults only ever hit the gateway.                    *)
FaultsInv ==
  /\ engine = "cockroachdb" => Nodes \ {Gateway} \subseteq alive /\ cut \subseteq {Gateway}
  /\ pc = "target" => engine = "postgresql"
  /\ pc \in {"authorise", "stream", "restore", "save"} =>
       target \in Nodes /\ (engine = "cockroachdb" => target = Gateway)

(* From the health wait to the first fault all nodes are there; a          *)
(* partition leaves them running and is over when the stream is; after a   *)
(* kill nothing is measured.                                               *)
ReachInv ==
  /\ pc \in {"config", "load", "network", "bench", "sweep"} => Reachable = Nodes
  /\ pc \in {"chaos", "target", "authorise"} /\ intact => Reachable = Nodes
  /\ pc = "stream" /\ intact /\ fault = "none" => Reachable = Nodes
  /\ pc = "stream" /\ intact /\ mode = "recover" => alive = Nodes
  /\ pc \in {"restore", "save"} /\ intact /\ mode = "recover" => Reachable = Nodes

Chaos == {"chaos", "target", "authorise", "stream", "restore", "save"}
Repair == {"backstop", "rejoin", "primary"}
Sessions(k) == latest[k].session

(* Which of the newest runs are this session's.                            *)
LatestInv ==
  /\ pc \in {"health", "config", "load", "network", "bench", "sweep"} => mode = "recover"
  /\ pc \in Chaos \cup Repair => runChaos
  /\ pc \in {"sweep"} \cup Chaos => Sessions("bench") = session
  /\ pc \in {"stream", "restore", "save"} => Sessions(mode) = session
  /\ pc \in Chaos /\ mode = "dead" => Sessions("recover") = session
  /\ runChaos /\ pc \in Repair \cup {"validate", "figures", "done"} =>
       \A k \in Kinds : Sessions(k) = session
  /\ pc = "done" => \A k \in Kinds : Loadable(k)

(* The types the rest needs.                                               *)
SetsOK == engine \in Engines /\ alive \subseteq Nodes /\ cut \subseteq Nodes

RunDirectories ==
  [session : 0..MaxSessions, whole : BOOLEAN, fit : BOOLEAN, sound : BOOLEAN]

RunsOK ==
  /\ mode \in {"recover", "dead"} /\ session \in 0..MaxSessions
  /\ latest \in [Kinds -> RunDirectories]

ExperimentInv == SetsOK /\ RunsOK /\ FaultsInv /\ ReachInv /\ LatestInv

-----------------------------------------------------------------------------
LEMMA ExperimentInitial == Init => ExperimentInv
<1> SUFFICES ASSUME Init PROVE ExperimentInv
  OBVIOUS
<1> USE DEF Init, PlacementInit, ExperimentInv
<1>1. SetsOK /\ ReachInv
  BY DEF SetsOK, ReachInv
<1>2. RunsOK
  BY MaxSessionsAssumption DEF RunsOK, RunDirectories, NoRun
<1>3. FaultsInv
  BY DEF FaultsInv
<1>4. LatestInv
  BY DEF LatestInv, Chaos, Repair
<1> QED
  BY <1>1, <1>2, <1>3, <1>4

(* What the checks and the cluster do by themselves leaves the script, the *)
(* processes and the network as they are.                                  *)
LEMMA StillKeeps ==
  ASSUME ExperimentInv, UNCHANGED <<engine, alive, cut, experimentVars>>
  PROVE  ExperimentInv'
BY DEF ExperimentInv, SetsOK, RunsOK, FaultsInv, ReachInv, LatestInv, Sessions, Loadable,
       Reachable, experimentVars, scriptVars, runVars, recordVars

(* What the three ways of writing a run directory do to the newest ones.   *)
LEMMA LatestOpened ==
  ASSUME RunsOK, NEW kind \in Kinds, Opened(kind)
  PROVE  /\ latest' \in [Kinds -> RunDirectories]
         /\ Sessions(kind)' = session /\ \A k \in Kinds \ {kind} : latest'[k] = latest[k]
<1>1. NoRun \in RunDirectories
  BY MaxSessionsAssumption DEF NoRun, RunDirectories
<1>2. [NoRun EXCEPT !.session = session] \in RunDirectories
      /\ [NoRun EXCEPT !.session = session].session = session
  BY <1>1 DEF RunsOK, RunDirectories
<1> QED
  BY <1>2 DEF Opened, RunsOK, Sessions

LEMMA LatestClosed ==
  ASSUME RunsOK, NEW kind \in Kinds, NEW isFit \in BOOLEAN, NEW isSound \in BOOLEAN,
         Closed(kind, isFit, isSound)
  PROVE  latest' \in [Kinds -> RunDirectories] /\ \A k \in Kinds : Sessions(k)' = Sessions(k)
<1>1. latest' = [latest EXCEPT ![kind] = [latest[kind] EXCEPT !.whole = TRUE, !.fit = isFit,
                                                            !.sound = isSound]]
  BY DEF Closed, RunsOK
<1>2. [latest[kind] EXCEPT !.whole = TRUE, !.fit = isFit, !.sound = isSound] \in RunDirectories
      /\ [latest[kind] EXCEPT !.whole = TRUE, !.fit = isFit, !.sound = isSound].session
           = latest[kind].session
  BY DEF RunsOK, RunDirectories
<1> QED
  BY <1>1, <1>2 DEF RunsOK, Sessions

LEMMA LatestAbandoned ==
  ASSUME RunsOK, NEW kind \in Kinds, Abandoned(kind)
  PROVE  latest' \in [Kinds -> RunDirectories]
<1>1. PICK isSound \in BOOLEAN : latest' = [latest EXCEPT ![kind].sound = isSound]
  BY DEF Abandoned
<1>2. [latest[kind] EXCEPT !.sound = isSound] \in RunDirectories
  BY DEF RunsOK, RunDirectories
<1> QED
  BY <1>1, <1>2 DEF RunsOK

LEMMA CheckIsStill == CheckStep => UNCHANGED <<engine, alive, cut>>
BY DEF CheckStep, CheckRaises, ReadLeases, LeasesMisplaced, Ask, Resolved, Candidate, Settle,
       Switchover, Reresolved, clusterVars

LEMMA ClusterIsStill == ClusterStep => UNCHANGED <<engine, alive, cut>>
BY DEF ClusterStep, Promote, Attach, StepDown, LeasesReturn, SelfMove

LEMMA QuestionIsStill ==
  BeginPhase \/ AskForTarget \/ AskForPrimary => UNCHANGED <<engine, alive, cut, experimentVars>>
BY DEF BeginPhase, BeginCheck, AskForTarget, AskForPrimary, Ask, clusterVars

LEMMA NodesReturn == ExperimentInv /\ (\E n \in Nodes : PersonRestarts(n) \/ Heal(n)) => ExperimentInv'
<1> SUFFICES ASSUME ExperimentInv, \E n \in Nodes : PersonRestarts(n) \/ Heal(n) PROVE ExperimentInv'
  OBVIOUS
<1> USE DEF ExperimentInv, PersonRestarts, Heal, clusterVars, checkVars, placementVars, scriptVars, runVars, recordVars, experimentVars
<1>1. SetsOK'
  BY DEF SetsOK, FaultsInv
<1>2. RunsOK'
  BY DEF RunsOK
<1>3. FaultsInv'
  BY GatewayAssumption DEF FaultsInv
<1>4. ReachInv'
  BY DEF ReachInv, FaultsInv, SetsOK, Reachable, RunsOK
<1>5. LatestInv'
  BY DEF LatestInv, Sessions, Chaos, Repair, Loadable, Kinds, RunsOK
<1> QED
  BY <1>1, <1>2, <1>3, <1>4, <1>5

(* The script, up to the sweep.                                            *)
LEMMA StartKeeps == ExperimentInv /\ (Start) => ExperimentInv'
<1> SUFFICES ASSUME ExperimentInv, Start PROVE ExperimentInv'
  OBVIOUS
<1> USE DEF ExperimentInv, Start, clusterVars, checkVars, placementVars, scriptVars, runVars, recordVars, experimentVars
<1>1. SetsOK'
  BY DEF SetsOK, FaultsInv
<1>2. RunsOK'
  <2>1. session' \in 0..MaxSessions
    BY MaxSessionsAssumption DEF RunsOK
  <2> QED
    BY <2>1 DEF RunsOK
<1>3. FaultsInv'
  BY GatewayAssumption DEF FaultsInv
<1>4. ReachInv'
  BY DEF ReachInv, FaultsInv, SetsOK, Reachable, RunsOK
<1>5. LatestInv'
  BY DEF LatestInv, Sessions, Chaos, Repair, Loadable, Kinds, RunsOK
<1> QED
  BY <1>1, <1>2, <1>3, <1>4, <1>5

LEMMA EarlyKeeps == ExperimentInv /\ (ConfigChecked \/ Load \/ NetworkPhase \/ EarlyFailure \/ Refused) => ExperimentInv'
<1> SUFFICES ASSUME ExperimentInv, ConfigChecked \/ Load \/ NetworkPhase \/ EarlyFailure \/ Refused PROVE ExperimentInv'
  OBVIOUS
<1> USE DEF ExperimentInv, At, Die, ConfigChecked, Load, NetworkPhase, EarlyFailure, Refused, clusterVars, checkVars, placementVars, scriptVars, runVars, recordVars, experimentVars
<1>1. SetsOK'
  BY DEF SetsOK, FaultsInv
<1>2. RunsOK'
  BY DEF RunsOK
<1>3. FaultsInv'
  BY GatewayAssumption DEF FaultsInv
<1>4. ReachInv'
  BY DEF ReachInv, FaultsInv, SetsOK, Reachable, RunsOK
<1>5. LatestInv'
  BY DEF LatestInv, Sessions, Chaos, Repair, Loadable, Kinds, RunsOK
<1> QED
  BY <1>1, <1>2, <1>3, <1>4, <1>5

LEMMA HealthKeeps == ExperimentInv /\ (HealthWait) => ExperimentInv'
<1> SUFFICES ASSUME ExperimentInv, HealthWait PROVE ExperimentInv'
  OBVIOUS
<1> USE DEF ExperimentInv, At, HealthWait, clusterVars, checkVars, placementVars, scriptVars, runVars, recordVars, experimentVars
<1>1. SetsOK'
  BY DEF SetsOK, FaultsInv
<1>2. RunsOK'
  BY DEF RunsOK
<1>3. FaultsInv'
  BY GatewayAssumption DEF FaultsInv
<1>4. ReachInv'
  BY DEF ReachInv, FaultsInv, SetsOK, Reachable, RunsOK
<1>5. LatestInv'
  BY DEF LatestInv, Sessions, Chaos, Repair, Loadable, Kinds, RunsOK
<1> QED
  BY <1>1, <1>2, <1>3, <1>4, <1>5

LEMMA SweepKeeps == ExperimentInv /\ (SweepStarts \/ SweepEnds \/ SweepRaises) => ExperimentInv'
<1> SUFFICES ASSUME ExperimentInv, SweepStarts \/ SweepEnds \/ SweepRaises PROVE ExperimentInv'
  OBVIOUS
<1> USE DEF ExperimentInv, At, Die, SweepStarts, SweepEnds, SweepRaises, clusterVars, checkVars, placementVars, scriptVars, runVars, recordVars, experimentVars
<1>1. SetsOK'
  BY DEF SetsOK, FaultsInv
<1>2. RunsOK'
  <2>1. latest' \in [Kinds -> RunDirectories]
    BY LatestOpened, LatestClosed, LatestAbandoned DEF Kinds, RunsOK
  <2> QED
    BY <2>1 DEF RunsOK
<1>3. FaultsInv'
  BY GatewayAssumption DEF FaultsInv
<1>4. ReachInv'
  BY DEF ReachInv, FaultsInv, SetsOK, Reachable, RunsOK
<1>5. LatestInv'
  <2>1. CASE SweepStarts
    <3>1. Sessions("bench")' = session
      BY <2>1, LatestOpened DEF Kinds, RunsOK
    <3> QED
      BY <2>1, <3>1 DEF LatestInv, Chaos, Repair
  <2>2. CASE SweepEnds
    <3>1. \A k \in Kinds : Sessions(k)' = Sessions(k)
      BY <2>2, LatestClosed DEF Kinds, RunsOK
    <3> QED
      BY <2>2, <3>1 DEF LatestInv, Chaos, Repair, Kinds
  <2>3. CASE SweepRaises
    BY <2>3 DEF LatestInv, Chaos, Repair
  <2> QED
    BY <2>1, <2>2, <2>3
<1> QED
  BY <1>1, <1>2, <1>3, <1>4, <1>5

(* A chaos run.                                                            *)
LEMMA TargetKeeps == ExperimentInv /\ (ChooseTarget \/ TargetResolved) => ExperimentInv'
<1> SUFFICES ASSUME ExperimentInv, ChooseTarget \/ TargetResolved PROVE ExperimentInv'
  OBVIOUS
<1> USE DEF ExperimentInv, At, ChooseTarget, TargetResolved, clusterVars, checkVars, placementVars, scriptVars, runVars, recordVars, experimentVars
<1>1. SetsOK'
  BY DEF SetsOK, FaultsInv
<1>2. RunsOK'
  BY DEF RunsOK
<1>3. FaultsInv'
  <2>1. CASE ChooseTarget
    BY <2>1, GatewayAssumption DEF FaultsInv, SetsOK, Engines
  <2>2. CASE TargetResolved
    <3>1. target' \in Nodes /\ engine' = engine /\ alive' = alive /\ cut' = cut
      BY <2>2
    <3> QED
      BY <2>2, <3>1 DEF FaultsInv
  <2> QED
    BY <2>1, <2>2
<1>4. ReachInv'
  BY DEF ReachInv, FaultsInv, SetsOK, Reachable, RunsOK
<1>5. LatestInv'
  BY DEF LatestInv, Sessions, Chaos, Repair, Loadable, Kinds, RunsOK
<1> QED
  BY <1>1, <1>2, <1>3, <1>4, <1>5

LEMMA StreamStartsKeeps == ExperimentInv /\ (StreamStarts) => ExperimentInv'
<1> SUFFICES ASSUME ExperimentInv, StreamStarts PROVE ExperimentInv'
  OBVIOUS
<1> USE DEF ExperimentInv, At, StreamStarts, clusterVars, checkVars, placementVars, scriptVars, runVars, recordVars, experimentVars
<1>1. SetsOK'
  BY DEF SetsOK, FaultsInv
<1>2. RunsOK'
  <2>1. latest' \in [Kinds -> RunDirectories]
    BY LatestOpened DEF Kinds, RunsOK
  <2> QED
    BY <2>1 DEF RunsOK
<1>3. FaultsInv'
  BY GatewayAssumption DEF FaultsInv
<1>4. ReachInv'
  BY DEF ReachInv, FaultsInv, SetsOK, Reachable, RunsOK
<1>5. LatestInv'
  <2>1. /\ Sessions(mode)' = session
        /\ \A k \in Kinds \ {mode} : Sessions(k)' = Sessions(k)
    BY LatestOpened DEF Kinds, RunsOK, Sessions
  <2> QED
    BY <2>1 DEF LatestInv, Chaos, Repair, Kinds, RunsOK
<1> QED
  BY <1>1, <1>2, <1>3, <1>4, <1>5

LEMMA InjectKeeps == ExperimentInv /\ (Inject) => ExperimentInv'
<1> SUFFICES ASSUME ExperimentInv, Inject PROVE ExperimentInv'
  OBVIOUS
<1> USE DEF ExperimentInv, Inject, Partition, Kill, Missed, clusterVars, checkVars, placementVars, scriptVars, runVars, recordVars, experimentVars
<1>1. SetsOK'
  BY DEF SetsOK, FaultsInv
<1>2. RunsOK'
  BY DEF RunsOK
<1>3. FaultsInv'
  <2>1. UNCHANGED <<engine, target, pc>> /\ target \in Nodes
    BY DEF FaultsInv
  <2>2. alive \ {target} \subseteq alive' /\ cut' \subseteq cut \cup {target}
    OBVIOUS
  <2> QED
    BY <2>1, <2>2 DEF FaultsInv
<1>4. ReachInv'
  BY DEF ReachInv, FaultsInv, SetsOK, Reachable, RunsOK
<1>5. LatestInv'
  BY DEF LatestInv, Sessions, Chaos, Repair, Loadable, Kinds, RunsOK
<1> QED
  BY <1>1, <1>2, <1>3, <1>4, <1>5

LEMMA RestoreKeeps == ExperimentInv /\ (StreamEnds \/ Restore) => ExperimentInv'
<1> SUFFICES ASSUME ExperimentInv, StreamEnds \/ Restore PROVE ExperimentInv'
  OBVIOUS
<1> USE DEF ExperimentInv, At, StreamEnds, Restore, clusterVars, checkVars, placementVars, scriptVars, runVars, recordVars, experimentVars
<1>1. SetsOK'
  BY DEF SetsOK, FaultsInv
<1>2. RunsOK'
  BY DEF RunsOK
<1>3. FaultsInv'
  BY GatewayAssumption DEF FaultsInv
<1>4. ReachInv'
  BY DEF ReachInv, FaultsInv, SetsOK, Reachable, RunsOK
<1>5. LatestInv'
  BY DEF LatestInv, Sessions, Chaos, Repair, Loadable, Kinds, RunsOK
<1> QED
  BY <1>1, <1>2, <1>3, <1>4, <1>5

LEMMA RunEndsKeeps == ExperimentInv /\ (ChaosRaises \/ ChaosEnds) => ExperimentInv'
<1> SUFFICES ASSUME ExperimentInv, ChaosRaises \/ ChaosEnds PROVE ExperimentInv'
  OBVIOUS
<1> USE DEF ExperimentInv, At, Die, ChaosRaises, ChaosEnds, clusterVars, checkVars, placementVars, scriptVars, runVars, recordVars, experimentVars
<1>1. SetsOK'
  BY DEF SetsOK, FaultsInv
<1>2. RunsOK'
  <2>1. latest' \in [Kinds -> RunDirectories]
    BY LatestClosed, LatestAbandoned DEF Kinds, RunsOK
  <2> QED
    BY <2>1 DEF RunsOK
<1>3. FaultsInv'
  BY GatewayAssumption DEF FaultsInv
<1>4. ReachInv'
  <2>1. CASE ChaosRaises
    BY <2>1 DEF ReachInv
  <2>2. CASE ChaosEnds
    BY <2>2 DEF ReachInv, RunsOK, Reachable
  <2> QED
    BY <2>1, <2>2
<1>5. LatestInv'
  <2>1. CASE ChaosRaises
    BY <2>1 DEF LatestInv, Chaos, Repair
  <2>2. CASE ChaosEnds
    <3>1. \A k \in Kinds : Sessions(k)' = Sessions(k)
      BY <2>2, LatestClosed DEF Kinds, RunsOK
    <3> QED
      BY <2>2, <3>1 DEF LatestInv, Chaos, Repair, Kinds, RunsOK
  <2> QED
    BY <2>1, <2>2
<1> QED
  BY <1>1, <1>2, <1>3, <1>4, <1>5

(* The repair and the figures.                                             *)
LEMMA RepairKeeps == ExperimentInv /\ (Backstop \/ Rejoin \/ SwitchBack) => ExperimentInv'
<1> SUFFICES ASSUME ExperimentInv, Backstop \/ Rejoin \/ SwitchBack PROVE ExperimentInv'
  OBVIOUS
<1> USE DEF ExperimentInv, At, Backstop, Backstopped, Rejoin, SwitchBack, clusterVars, checkVars, placementVars, scriptVars, runVars, recordVars, experimentVars
<1>1. SetsOK'
  <2>1. CASE Backstop
    <3>1. PICK S \in SUBSET (Backstopped \ cut) : alive' = alive \cup S
      BY <2>1
    <3>2. Backstopped \subseteq Nodes
      BY GatewayAssumption
    <3> QED
      BY <2>1, <3>1, <3>2 DEF SetsOK
  <2>2. CASE Rejoin \/ SwitchBack
    BY <2>2 DEF SetsOK
  <2> QED
    BY <2>1, <2>2
<1>2. RunsOK'
  BY DEF RunsOK
<1>3. FaultsInv'
  BY GatewayAssumption DEF FaultsInv
<1>4. ReachInv'
  BY DEF ReachInv, FaultsInv, SetsOK, Reachable, RunsOK
<1>5. LatestInv'
  BY DEF LatestInv, Sessions, Chaos, Repair, Loadable, Kinds, RunsOK
<1> QED
  BY <1>1, <1>2, <1>3, <1>4, <1>5

LEMMA FiguresKeep == ExperimentInv /\ (Validate \/ Figures) => ExperimentInv'
<1> SUFFICES ASSUME ExperimentInv, Validate \/ Figures PROVE ExperimentInv'
  OBVIOUS
<1> USE DEF ExperimentInv, At, Picked, Validate, Figures, clusterVars, checkVars, placementVars, scriptVars, runVars, recordVars, experimentVars
<1>1. SetsOK'
  BY DEF SetsOK, FaultsInv
<1>2. RunsOK'
  BY DEF RunsOK
<1>3. FaultsInv'
  BY GatewayAssumption DEF FaultsInv
<1>4. ReachInv'
  BY DEF ReachInv, FaultsInv, SetsOK, Reachable, RunsOK
<1>5. LatestInv'
  BY DEF LatestInv, Sessions, Chaos, Repair, Loadable, Kinds, RunsOK
<1> QED
  BY <1>1, <1>2, <1>3, <1>4, <1>5

LEMMA ExperimentInductive == ExperimentInv /\ [Next]_vars => ExperimentInv'
<1> SUFFICES ASSUME ExperimentInv, [Next]_vars PROVE ExperimentInv'
  OBVIOUS
<1>1. CASE Script
  BY <1>1, StartKeeps, EarlyKeeps, HealthKeeps, SweepKeeps, TargetKeeps, StreamStartsKeeps,
     InjectKeeps, RestoreKeeps, RunEndsKeeps, RepairKeeps, FiguresKeep,
     QuestionIsStill, StillKeeps DEF Script
<1>2. CASE CheckStep /\ UNCHANGED experimentVars
  BY <1>2, CheckIsStill, StillKeeps
<1>3. CASE Environment
  BY <1>3, ClusterIsStill, NodesReturn, StillKeeps DEF Environment
<1>4. CASE UNCHANGED vars
  BY <1>4, StillKeeps DEF vars, placementVars, clusterVars
<1> QED
  BY <1>1, <1>2, <1>3, <1>4 DEF Next

-----------------------------------------------------------------------------
(* The invariant holds of every experiment.                                *)
THEOREM ExperimentInvariance == Spec => []ExperimentInv
BY ExperimentInitial, ExperimentInductive, PTL DEF Spec

(* No phase of a script whose generators ran their time measures a cluster *)
(* that an earlier fault still disturbs.                                   *)
THEOREM NeverMeasuredDisturbed == Spec => []MeasuredUndisturbed
<1>1. ExperimentInv => MeasuredUndisturbed
  BY DEF ExperimentInv, ReachInv, MeasuredUndisturbed, Measuring
<1> QED
  BY <1>1, ExperimentInvariance, PTL

(* Only complete and consistent runs are drawn, with chaos only this       *)
(* session's.                                                              *)
THEOREM DrawnIsFit == Spec => []FiguresAreFit
<1>1. ExperimentInv => FiguresAreFit
  BY DEF ExperimentInv, LatestInv, Sessions, Loadable, FiguresAreFit
<1> QED
  BY <1>1, ExperimentInvariance, PTL

-----------------------------------------------------------------------------
(* The types.                                                              *)

LEMMA PromotedTypes == \A n \in Nodes :
  Promoted(n) \in [Nodes -> {"detached", "streaming", "quorum"}]
BY DEF Promoted

LEMMA ClusterTypes ==
  ASSUME PlacementTypeOK, ClusterStep
  PROVE  PlacementTypeOK'
<1> USE DEF PlacementTypeOK, clusterVars, checkVars, placementVars
<1>1. CASE \E n \in Nodes : Promote(n)
  <2>1. timeline' \in {"none", "current", "past"} /\ leads' \subseteq Nodes
        /\ member' \in [Nodes -> {"detached", "streaming", "quorum"}]
    BY <1>1, PromotedTypes DEF Promote, AsPast
  <2> QED
    BY <1>1, <2>1 DEF Promote
<1>2. CASE \E n \in Nodes : Attach(n)
  BY <1>2 DEF Attach
<1>3. CASE \E n \in Nodes : StepDown(n)
  BY <1>3 DEF StepDown
<1>4. CASE LeasesReturn
  BY <1>4 DEF LeasesReturn
<1>5. CASE SelfMove
  <2>1. moves' \in 0..MaxMoves
    BY <1>5, MaxMovesAssumption DEF SelfMove
  <2>2. leads' \subseteq Nodes /\ leased' \in BOOLEAN /\ calm' \in BOOLEAN
    BY <1>5 DEF SelfMove
  <2> QED
    BY <1>5, <2>1, <2>2 DEF SelfMove
<1> QED
  BY <1>1, <1>2, <1>3, <1>4, <1>5 DEF ClusterStep

LEMMA SwitchoverTypes ==
  ASSUME PlacementTypeOK, NEW from \in Nodes, SwitchoverFrom(from)
  PROVE  /\ leads' \subseteq Nodes
         /\ member' \in [Nodes -> {"detached", "streaming", "quorum"}]
BY GatewayAssumption, PromotedTypes DEF SwitchoverFrom, PlacementTypeOK

LEMMA CheckTypes ==
  ASSUME PlacementTypeOK, CheckStep
  PROVE  PlacementTypeOK'
<1> USE DEF PlacementTypeOK, Report, clusterVars, checkVars, placementVars
<1>1. CASE CheckRaises \/ ReadLeases \/ LeasesMisplaced
  BY <1>1 DEF CheckRaises, ReadLeases, LeasesMisplaced
<1>2. CASE \E n \in Nodes : Ask(n)
  BY <1>2 DEF Ask
<1>3. CASE Resolved \/ Candidate \/ Settle \/ Reresolved
  BY <1>3 DEF Resolved, Candidate, Settle, Reresolved
<1>4. CASE Switchover
  <2>1. PICK from \in primaries : SwitchoverFrom(from)
    BY <1>4 DEF Switchover
  <2>2. leads' \subseteq Nodes /\ member' \in [Nodes -> {"detached", "streaming", "quorum"}]
    BY <2>1, SwitchoverTypes
  <2> QED
    BY <1>4, <2>2 DEF Switchover, AskAll
<1> QED
  BY <1>1, <1>2, <1>3, <1>4 DEF CheckStep

(* What the script itself does to the cluster and to the checks.           *)
LEMMA ScriptPlacementTypes ==
  ASSUME PlacementTypeOK, ExperimentInv, Script
  PROVE  PlacementTypeOK'
<1> USE DEF PlacementTypeOK, clusterVars, checkVars, placementVars, experimentVars
<1>1. CASE Start \/ HealthWait \/ ConfigChecked \/ Load \/ NetworkPhase \/ EarlyFailure
  BY <1>1 DEF Start, HealthWait, ConfigChecked, Load, NetworkPhase, EarlyFailure
<1>2. CASE BeginPhase
  BY <1>2 DEF BeginPhase, BeginCheck, AskAll
<1>3. CASE SweepStarts \/ SweepEnds \/ SweepRaises \/ Refused
  BY <1>3 DEF SweepStarts, SweepEnds, SweepRaises, Refused
<1>4. CASE ChooseTarget \/ TargetResolved \/ StreamStarts
  BY <1>4 DEF ChooseTarget, TargetResolved, StreamStarts, AskAll
<1>5. CASE AskForTarget \/ AskForPrimary
  BY <1>5 DEF AskForTarget, AskForPrimary, Ask
<1>6. CASE Inject
  <2>1. target \in Nodes
    BY <1>6 DEF Inject, ExperimentInv, FaultsInv
  <2>2. leased' \in BOOLEAN /\ alive' \subseteq Nodes /\ cut' \subseteq Nodes
    BY <1>6, <2>1 DEF Inject, Partition, Kill, Missed
  <2> QED
    BY <1>6, <2>2 DEF Inject
<1>7. CASE StreamEnds \/ ChaosRaises \/ ChaosEnds \/ Validate \/ Figures
  <2>1. UNCHANGED placementVars
    BY <1>7 DEF StreamEnds, ChaosRaises, ChaosEnds, Validate, Figures
  <2> QED
    BY <2>1
<1>8. CASE Restore
  <2>1. target \in Nodes
    BY <1>8 DEF Restore, At, ExperimentInv, FaultsInv
  <2> QED
    BY <1>8, <2>1 DEF Restore
<1>9. CASE Backstop
  <2>1. SetsOK'
    BY <1>9, RepairKeeps DEF ExperimentInv
  <2> QED
    BY <1>9, <2>1 DEF Backstop, SetsOK
<1>10. CASE Rejoin
  BY <1>10 DEF Rejoin, AskAll
<1>11. CASE SwitchBack
  <2>1. leads' \subseteq Nodes /\ member' \in [Nodes -> {"detached", "streaming", "quorum"}]
    BY <1>11, SwitchoverTypes DEF SwitchBack
  <2> QED
    BY <1>11, <2>1 DEF SwitchBack
<1> QED
  BY <1>1, <1>2, <1>3, <1>4, <1>5, <1>6, <1>7, <1>8, <1>9, <1>10, <1>11 DEF Script

(* What no other part of the invariant says of the script's own variables. *)
ScriptTypes ==
  /\ runChaos \in BOOLEAN
  /\ pc \in {"idle", "health", "config", "load", "network", "bench", "sweep",
             "chaos", "target", "authorise", "stream", "restore", "save",
             "backstop", "rejoin", "primary", "validate", "figures", "done", "died"}
  /\ target \in Nodes \cup {None}
  /\ fault \in {"none", "sent", "hit"} /\ landed \in {"unset", "yes", "no", "none"}
  /\ spoiled \in BOOLEAN /\ swept \in {"none", "ok", "warned"} /\ intact \in BOOLEAN

LEMMA ScriptKeepsTypes ==
  ASSUME ScriptTypes, ExperimentInv, Script
  PROVE  ScriptTypes'
<1> USE DEF ScriptTypes, At, Die, scriptVars, runVars, recordVars, experimentVars
<1>1. CASE Start \/ HealthWait \/ ConfigChecked \/ Load \/ NetworkPhase \/ EarlyFailure
  BY <1>1 DEF Start, HealthWait, ConfigChecked, Load, NetworkPhase, EarlyFailure
<1>2. CASE BeginPhase \/ AskForTarget \/ AskForPrimary
  BY <1>2 DEF BeginPhase, AskForTarget, AskForPrimary
<1>3. CASE SweepStarts \/ SweepEnds \/ SweepRaises \/ Refused
  BY <1>3 DEF SweepStarts, SweepEnds, Closed, SweepRaises, Abandoned, Refused
<1>4. CASE ChooseTarget \/ TargetResolved \/ StreamStarts
  BY <1>4, GatewayAssumption DEF ChooseTarget, TargetResolved, StreamStarts
<1>5. CASE Inject
  BY <1>5 DEF Inject, Partition, Kill, Missed
<1>6. CASE StreamEnds \/ Restore
  BY <1>6 DEF StreamEnds, Restore
<1>7. CASE ChaosRaises
  <2>1. pc' = "died" /\ UNCHANGED <<runChaos, target, fault, landed, swept, intact>>
    BY <1>7 DEF ChaosRaises
  <2>2. PICK isSound \in BOOLEAN : spoiled' \in IF isSound THEN {spoiled} ELSE {spoiled, TRUE}
    BY <1>7 DEF ChaosRaises, Abandoned
  <2>3. spoiled' \in BOOLEAN
    BY <2>2
  <2> QED
    BY <2>1, <2>3
<1>8. CASE ChaosEnds
  BY <1>8 DEF ChaosEnds, Closed
<1>9. CASE Backstop \/ Rejoin \/ SwitchBack \/ Validate \/ Figures
  BY <1>9 DEF Backstop, Rejoin, SwitchBack, Validate, Figures
<1> QED
  BY <1>1, <1>2, <1>3, <1>4, <1>5, <1>6, <1>7, <1>8, <1>9 DEF Script

TypesInv == PlacementTypeOK /\ ScriptTypes

LEMMA TypesInductive == TypesInv /\ ExperimentInv /\ [Next]_vars => TypesInv'
<1> SUFFICES ASSUME TypesInv, ExperimentInv, [Next]_vars PROVE TypesInv'
  OBVIOUS
<1> USE DEF TypesInv
<1>1. CASE Script
  BY <1>1, ScriptPlacementTypes, ScriptKeepsTypes
<1>2. ASSUME UNCHANGED experimentVars PROVE ScriptTypes'
  BY <1>2 DEF ScriptTypes, experimentVars, scriptVars, runVars, recordVars
<1>3. CASE CheckStep /\ UNCHANGED experimentVars
  BY <1>2, <1>3, CheckTypes
<1>4. CASE ClusterStep /\ UNCHANGED experimentVars
  BY <1>2, <1>4, ClusterTypes
<1>5. CASE \E n \in Nodes : PersonRestarts(n) \/ Heal(n)
  <2>1. UNCHANGED experimentVars
    BY <1>5 DEF PersonRestarts, Heal
  <2>2. PlacementTypeOK'
    BY <1>5 DEF PersonRestarts, Heal, PlacementTypeOK, checkVars
  <2> QED
    BY <2>1, <2>2, <1>2
<1>6. CASE UNCHANGED vars
  BY <1>2, <1>6 DEF vars, placementVars, clusterVars, checkVars, PlacementTypeOK
<1> QED
  BY <1>1, <1>3, <1>4, <1>5, <1>6 DEF Next, Environment

LEMMA TypesInvariance == Spec => []TypesInv
<1>1. Init => TypesInv
  <2> SUFFICES ASSUME Init PROVE TypesInv
    OBVIOUS
  <2>1. moves \in 0..MaxMoves
    BY MaxMovesAssumption DEF Init, PlacementInit
  <2>2. PlacementTypeOK
    BY <2>1, GatewayAssumption DEF Init, PlacementInit, PlacementTypeOK
  <2>3. ScriptTypes
    BY DEF Init, ScriptTypes
  <2> QED
    BY <2>2, <2>3 DEF TypesInv
<1> QED
  BY <1>1, TypesInductive, ExperimentInvariance, PTL DEF Spec

(* Every variable keeps to its type, and a chaos run has a target.         *)
THEOREM ExperimentTypes == Spec => []TypeOK
<1>1. TypesInv /\ ExperimentInv => TypeOK
  BY DEF TypesInv, ScriptTypes, ExperimentInv, RunsOK, RunDirectories, FaultsInv, TypeOK
<1> QED
  BY <1>1, TypesInvariance, ExperimentInvariance, PTL

-----------------------------------------------------------------------------
(* Where the measurements are led from.                                    *)

(* Which checks an engine has, when they are at work and how long their    *)
(* verdict stands.                                                         *)
ChecksInv ==
  /\ check = "lease" => engine = "cockroachdb"
  /\ check \in {"resolve", "ready", "settle", "switch", "again"} => engine = "postgresql"
  /\ check # "idle" => verdict = "none" /\ pc \in {"network", "bench", "chaos"}
  /\ pc \notin {"network", "bench", "chaos", "target", "authorise", "died"} => verdict = "none"
  /\ pc \in {"network", "died"} /\ (check # "idle" \/ verdict # "none") => engine = "cockroachdb"

(* A check that passed stands for a phase until the phase measures.        *)
Vouched == verdict = "passed" \/ Measuring

LeasesInv == engine = "cockroachdb" /\ calm /\ Vouched => leased

(* While the leadership moves only by what the check itself asked for, the *)
(* nodes are asked one by one: either none was found to lead, and whoever  *)
(* does has not been asked yet or was promoted alone since, or every       *)
(* leader is among those found and those still to be asked.                *)
LeaderInv ==
  engine = "postgresql" /\ calm /\ intact =>
    /\ check \in {"resolve", "again"} =>
         IF primaries = {} THEN leads \subseteq unasked \/ \E n \in Nodes : leads = {n}
                           ELSE leads # {} /\ leads \subseteq primaries \cup unasked
    /\ Vouched => leads = {Gateway}
    /\ Vouched /\ pc = "target" => primaries \subseteq {Gateway}
    /\ Vouched /\ pc \in {"authorise", "stream"} => target = Gateway

LedInv == ChecksInv /\ LeasesInv /\ LeaderInv

LEMMA LedInitial == Init => LedInv
BY DEF Init, PlacementInit, LedInv, ChecksInv, LeasesInv, LeaderInv, Vouched, Measuring

(* Every node is there while a check is at work or vouches.                *)
LEMMA AllThere ==
  ASSUME ExperimentInv, ChecksInv, engine = "postgresql", intact, Vouched \/ check # "idle"
  PROVE  Reachable = Nodes
BY DEF ExperimentInv, ReachInv, ChecksInv, Vouched, Measuring

LEMMA ClaimsAreLeads ==
  ASSUME PlacementTypeOK, Reachable = Nodes
  PROVE  Claims = leads
BY DEF PlacementTypeOK, Claims

(* Nothing of a check or its verdict stands: nothing is to be shown.       *)
LEMMA NothingStands ==
  ASSUME check = "idle", ~Vouched
  PROVE  LeasesInv /\ LeaderInv
BY DEF LeasesInv, LeaderInv

(* What leaves the leadership, the check and the phase alone.              *)
LEMMA LedStill ==
  ASSUME LedInv, calm' => calm, intact' = intact,
         UNCHANGED <<engine, leads, leased, check, unasked, primaries, verdict, pc, target, fault>>
  PROVE  LedInv'
BY DEF LedInv, ChecksInv, LeasesInv, LeaderInv, Vouched, Measuring

(* The cluster by itself, an unasked-for move excepted, neither ends a     *)
(* leadership nor adds one to it.                                          *)
LEMMA ClusterLed ==
  ASSUME LedInv, ExperimentInv, TypesInv, ClusterStep, UNCHANGED experimentVars
  PROVE  LedInv'
<1> USE DEF LedInv, TypesInv, clusterVars, checkVars, placementVars, experimentVars, scriptVars,
            runVars, recordVars
<1>1. CASE SelfMove
  BY <1>1 DEF SelfMove, ChecksInv, LeasesInv, LeaderInv
<1>2. CASE LeasesReturn
  BY <1>2 DEF LeasesReturn, ChecksInv, LeasesInv, LeaderInv, Vouched, Measuring
<1>3. CASE \E n \in Nodes : Attach(n)
  BY <1>3, LedStill DEF Attach
<1>4. CASE \E n \in Nodes : Promote(n)
  <2>1. PICK n \in Nodes : Promote(n)
    BY <1>4
  <2>2. ChecksInv' /\ LeasesInv'
    BY <2>1 DEF Promote, ChecksInv, LeasesInv, Vouched, Measuring
  <2>3. ASSUME intact, calm, Vouched \/ check # "idle" PROVE leads = {} /\ leads' = {n}
    BY <2>1, <2>3, AllThere, ClaimsAreLeads DEF Promote
  <2>4. LeaderInv'
    BY <2>1, <2>3 DEF Promote, LeaderInv, Vouched, Measuring
  <2> QED
    BY <2>2, <2>4
<1>5. CASE \E n \in Nodes : StepDown(n)
  <2>1. PICK n \in Nodes : StepDown(n)
    BY <1>5
  <2>2. ChecksInv' /\ LeasesInv'
    BY <2>1 DEF StepDown, ChecksInv, LeasesInv, Vouched, Measuring
  <2>3. ASSUME intact, calm, Vouched \/ check # "idle"
        PROVE  leads' = leads \ {n} /\ leads' # {} /\ \A m \in Nodes : leads # {m}
    <3>1. Reachable = Nodes /\ Claims = leads
      BY <2>1, <2>3, AllThere, ClaimsAreLeads DEF StepDown
    <3>2. n \in leads /\ leads' = leads \ {n} /\ Cardinality(leads) > 1
      BY <2>1, <3>1 DEF StepDown
    <3>3. ASSUME NEW m \in Nodes, leads = {m} PROVE FALSE
      <4>1. Cardinality({m}) = 1
        BY FS_Singleton, Zenon
      <4> QED
        BY <3>2, <3>3, <4>1
    <3> QED
      BY <3>2, <3>3
  <2>4. LeaderInv'
    BY <2>1, <2>3, GatewayAssumption DEF StepDown, LeaderInv, Vouched, Measuring
  <2> QED
    BY <2>2, <2>4
<1> QED
  BY <1>1, <1>2, <1>3, <1>4, <1>5 DEF ClusterStep

(* The checks.                                                             *)
LEMMA AskLed ==
  ASSUME LedInv, ExperimentInv, TypesInv, check \in {"resolve", "again"},
         NEW n \in Nodes, Ask(n), UNCHANGED experimentVars
  PROVE  LedInv'
<1> USE DEF LedInv, TypesInv, Ask, clusterVars, checkVars, experimentVars, scriptVars, runVars
<1>1. ChecksInv' /\ LeasesInv'
  BY DEF ChecksInv, LeasesInv, Vouched, Measuring
<1>2. ~Vouched
  BY DEF Vouched, Measuring, ChecksInv
<1>3. ASSUME engine = "postgresql", calm, intact
      PROVE  IF primaries' = {} THEN leads \subseteq unasked' \/ \E m \in Nodes : leads = {m}
                                ELSE leads # {} /\ leads \subseteq primaries' \cup unasked'
  <2>1. Claims = leads
    BY <1>3, AllThere, ClaimsAreLeads
  <2> QED
    BY <1>3, <2>1 DEF LeaderInv
<1> QED
  BY <1>1, <1>2, <1>3 DEF LeaderInv, Vouched, Measuring

LEMMA CheckLed ==
  ASSUME LedInv, ExperimentInv, TypesInv, CheckStep, UNCHANGED experimentVars
  PROVE  LedInv'
<1> USE DEF LedInv, TypesInv, clusterVars, checkVars, experimentVars, scriptVars, runVars
<1>1. ASSUME check # "idle" PROVE ~Measuring /\ ~Measuring'
  BY <1>1 DEF ChecksInv, Measuring
<1>2. CASE CheckRaises \/ LeasesMisplaced
  <2>1. ChecksInv' /\ check' = "idle" /\ verdict' \in {"raised", "failed"}
    BY <1>2 DEF CheckRaises, LeasesMisplaced, Report, ChecksInv
  <2> QED
    BY <1>1, <1>2, <2>1 DEF CheckRaises, LeasesMisplaced, LeasesInv, LeaderInv, Vouched
<1>3. CASE ReadLeases
  BY <1>1, <1>3 DEF ReadLeases, Report, ChecksInv, LeasesInv, LeaderInv, Vouched
<1>4. CASE \E n \in Nodes : check \in {"resolve", "again"} /\ Ask(n)
  BY <1>4, AskLed
<1>5. CASE Resolved \/ Reresolved
  <2>1. ChecksInv' /\ engine' = "postgresql" /\ check' # "resolve" /\ check' # "again"
    BY <1>5 DEF Resolved, Reresolved, Report, ChecksInv
  <2>2. ASSUME calm, intact, verdict' = "passed" PROVE leads' = {Gateway}
    <3>1. primaries = {Gateway} /\ unasked = {} /\ check \in {"resolve", "again"} /\ leads' = leads
      BY <1>5, <2>2 DEF Resolved, Reresolved, Report, ChecksInv
    <3> QED
      BY <1>5, <2>2, <3>1 DEF LeaderInv, ChecksInv
  <2>3. pc' \notin {"target", "authorise", "stream"} /\ UNCHANGED <<calm, intact>> /\ ~Measuring'
    BY <1>1, <1>5 DEF Resolved, Reresolved, ChecksInv
  <2> QED
    BY <2>1, <2>2, <2>3 DEF LeasesInv, LeaderInv, Vouched
<1>6. CASE Candidate \/ Settle
  <2>1. ChecksInv' /\ engine' = "postgresql" /\ check' # "resolve" /\ check' # "again"
        /\ verdict' # "passed"
    BY <1>6 DEF Candidate, Settle, Report, ChecksInv
  <2> QED
    BY <1>1, <1>6, <2>1 DEF Candidate, Settle, LeasesInv, LeaderInv, Vouched
<1>7. CASE Switchover
  <2>1. ChecksInv' /\ engine' = "postgresql" /\ verdict' # "passed"
    BY <1>7 DEF Switchover, ChecksInv
  <2>2. primaries' = {} /\ leads' \subseteq unasked'
    BY <1>7, CheckTypes DEF CheckStep, PlacementTypeOK, Switchover, AskAll
  <2> QED
    BY <1>1, <1>7, <2>1, <2>2 DEF Switchover, LeasesInv, LeaderInv, Vouched
<1> QED
  BY <1>2, <1>3, <1>4, <1>5, <1>6, <1>7 DEF CheckStep

(* The script.                                                             *)
LEMMA EarlyLed ==
  ASSUME LedInv,
         Start \/ HealthWait \/ ConfigChecked \/ Load \/ NetworkPhase \/ EarlyFailure \/ Refused
  PROVE  LedInv'
<1> USE DEF LedInv, Start, HealthWait, ConfigChecked, Load, NetworkPhase, EarlyFailure, Refused,
            At, Die, clusterVars, checkVars, placementVars
<1>1. ChecksInv'
  BY DEF ChecksInv
<1>2. LeasesInv'
  BY DEF ChecksInv, LeasesInv, Vouched, Measuring
<1>3. LeaderInv'
  BY DEF ChecksInv, LeaderInv, Vouched, Measuring
<1> QED
  BY <1>1, <1>2, <1>3

LEMMA BeginLed ==
  ASSUME LedInv, TypesInv, BeginPhase
  PROVE  LedInv'
<1> USE DEF LedInv, BeginPhase, BeginCheck, AskAll, clusterVars, experimentVars, scriptVars, runVars
<1>1. ChecksInv' /\ ~Vouched' /\ primaries' = {} /\ leads' \subseteq unasked'
  BY DEF ChecksInv, Vouched, Measuring, TypesInv, PlacementTypeOK, Engines
<1> QED
  BY <1>1 DEF LeasesInv, LeaderInv

LEMMA SweepLed ==
  ASSUME LedInv, SweepStarts \/ SweepEnds \/ SweepRaises
  PROVE  LedInv'
<1> USE DEF LedInv, SweepStarts, SweepEnds, SweepRaises, At, Die, clusterVars, checkVars,
            placementVars, runVars
<1>1. ChecksInv'
  BY DEF ChecksInv
<1>2. CASE SweepStarts
  BY <1>1, <1>2 DEF ChecksInv, LeasesInv, LeaderInv, Vouched, Measuring
<1>3. CASE SweepEnds \/ SweepRaises
  <2>1. check' = "idle" /\ ~Vouched'
    BY <1>3 DEF ChecksInv, Vouched, Measuring
  <2> QED
    BY <1>1, <2>1 DEF LeasesInv, LeaderInv
<1> QED
  BY <1>2, <1>3

LEMMA TargetLed ==
  ASSUME LedInv, ExperimentInv, ChooseTarget \/ AskForTarget \/ TargetResolved \/ StreamStarts
  PROVE  LedInv'
<1> USE DEF LedInv, ChooseTarget, AskForTarget, Ask, AskAll, TargetResolved, StreamStarts, At,
            clusterVars, checkVars, placementVars, experimentVars, scriptVars, runVars
<1>1. ChecksInv'
  BY DEF ChecksInv
<1>2. check' = "idle" /\ (Vouched' => Vouched)
  BY DEF ChecksInv, Vouched, Measuring
<1>3. LeasesInv'
  <2>1. UNCHANGED <<engine, calm, leased>>
    OBVIOUS
  <2> QED
    BY <1>2, <2>1 DEF LeasesInv
<1>4. LeaderInv'
  <2>1. CASE ChooseTarget
    BY <1>2, <2>1 DEF LeaderInv, ChecksInv
  <2>2. CASE AskForTarget
    BY <1>2, <2>2 DEF LeaderInv, ChecksInv, Claims
  <2>3. CASE TargetResolved
    BY <1>2, <2>3 DEF LeaderInv, ChecksInv
  <2>4. CASE StreamStarts
    BY <1>2, <2>4 DEF LeaderInv, ChecksInv
  <2> QED
    BY <2>1, <2>2, <2>3, <2>4
<1> QED
  BY <1>1, <1>3, <1>4

LEMMA RunLed ==
  ASSUME LedInv, TypesInv, Inject \/ StreamEnds \/ ChaosRaises \/ Restore \/ ChaosEnds
  PROVE  LedInv'
<1> USE DEF LedInv, Inject, Partition, Kill, Missed, StreamEnds, ChaosRaises, Restore, ChaosEnds,
            At, Die, clusterVars, checkVars, placementVars, scriptVars
<1>1. pc \in {"stream", "restore", "save"} /\ verdict' = "none" /\ check' = "idle"
  BY DEF ChecksInv
<1>2. ChecksInv' /\ ~Vouched'
  BY <1>1 DEF ChecksInv, Vouched, Measuring
<1> QED
  BY <1>1, <1>2 DEF LeasesInv, LeaderInv

LEMMA RepairLed ==
  ASSUME LedInv,
         Backstop \/ Rejoin \/ AskForPrimary \/ SwitchBack \/ Validate \/ Figures
  PROVE  LedInv'
<1> USE DEF LedInv, Backstop, Rejoin, AskForPrimary, Ask, AskAll, SwitchBack, Validate, Figures,
            At, clusterVars, checkVars, placementVars, experimentVars, scriptVars
<1>1. pc \in Repair \cup {"validate", "figures"} /\ verdict' = "none" /\ check' = "idle"
  BY DEF ChecksInv, Repair
<1>2. ChecksInv' /\ ~Vouched'
  BY <1>1 DEF ChecksInv, Vouched, Measuring, Repair
<1> QED
  BY <1>1, <1>2 DEF LeasesInv, LeaderInv

LEMMA LedInductive == LedInv /\ ExperimentInv /\ TypesInv /\ [Next]_vars => LedInv'
<1> SUFFICES ASSUME LedInv, ExperimentInv, TypesInv, [Next]_vars PROVE LedInv'
  OBVIOUS
<1>1. CASE Script
  BY <1>1, EarlyLed, BeginLed, SweepLed, TargetLed, RunLed, RepairLed DEF Script
<1>2. CASE CheckStep /\ UNCHANGED experimentVars
  BY <1>2, CheckLed
<1>3. CASE ClusterStep /\ UNCHANGED experimentVars
  BY <1>3, ClusterLed
<1>4. CASE \E n \in Nodes : PersonRestarts(n) \/ Heal(n)
  BY <1>4, LedStill DEF PersonRestarts, Heal, checkVars, experimentVars, scriptVars, runVars
<1>5. CASE UNCHANGED vars
  BY <1>5, LedStill
  DEF vars, placementVars, clusterVars, checkVars, experimentVars, scriptVars, runVars
<1> QED
  BY <1>1, <1>2, <1>3, <1>4, <1>5 DEF Next, Environment

(* A phase is led from the gateway, and a chaos run faults the gateway,    *)
(* unless the leadership moved by itself after its check had last looked.  *)
THEOREM MeasuredIsLedFromGateway == Spec => []MeasuredFromGateway
<1>1. LedInv /\ ExperimentInv /\ TypesInv => MeasuredFromGateway
  BY GatewayAssumption
  DEF LedInv, LeasesInv, LeaderInv, Vouched, MeasuredFromGateway, Measuring, Placed,
      ExperimentInv, FaultsInv, TypesInv, PlacementTypeOK, Engines
<1>2. Spec => []LedInv
  BY LedInitial, LedInductive, ExperimentInvariance, TypesInvariance, PTL DEF Spec
<1> QED
  BY <1>1, <1>2, ExperimentInvariance, TypesInvariance, PTL
=============================================================================
