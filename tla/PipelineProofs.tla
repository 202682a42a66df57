--------------------------- MODULE PipelineProofs ---------------------------
(***************************************************************************)
(* What the pipeline of module Pipeline keeps for every sequence of        *)
(* engines and every set of hosts: VMs are never forgotten, a finished     *)
(* pipeline is a clean one, hostnames are free before an apply, and a      *)
(* cleanup is not interrupted.                                             *)
(***************************************************************************)
EXTENDS Pipeline, TLAPS

AllEngines == {Engines[i] : i \in DOMAIN Engines}

(* A command runs only in a step that has one; a cleanup has three steps,  *)
(* and --cleanup has no others.                                            *)
StepInv ==
  /\ phase # "begin" => pc \in Commands
  /\ cleaning => pc \in {"logout", "destroy", "purge"}
  /\ phase = "running" /\ cleaning => signal # "int"
  /\ ok \/ cleaned => pc = "finished"
  /\ only => cleaning \/ pc = "finished"

(* Where the runner is in the list of engines.                             *)
PosInv ==
  /\ pc \in {"pre", "init"} => pos = 0
  /\ pc \in {"plan", "apply", "wait", "run"} => pos \in DOMAIN Engines
  /\ pc \in {"logout", "destroy"} /\ ~cleaning => pos \in DOMAIN Engines
  /\ pc = "purge" /\ ~cleaning => pos \in 0 .. Len(Engines)
  /\ pc \in {"insights", "compare"} => pos = Len(Engines) + 1

(* The steps at which nothing of an engine can be up: those before its     *)
(* apply was launched and those after its destroy has succeeded.           *)
Down ==
  \/ pc \in {"pre", "init", "plan", "purge", "insights", "compare"}
  \/ pc = "apply" /\ phase \in {"begin", "call"}
  \/ pc = "destroy" /\ phase = "ended" /\ rc = "ok"

VmsInv ==
  /\ DeployedIsHonest
  /\ Down => vms = NoEngine
  /\ pc = "apply" /\ phase # "begin" => deployed = Engine

(* From the purge before an engine up to its apply no name is taken.       *)
NamesFree ==
  \/ pc \in {"plan", "insights", "compare"}
  \/ pc = "apply" /\ phase \in {"begin", "call"}

DevicesInv == NamesFree => devices = {}

(* Every engine before the one at work was measured, and that one too once *)
(* it is on its way down.                                                  *)
MeasuredInv ==
  /\ \A i \in DOMAIN Engines : i < pos => Engines[i] \in measured
  /\ pc \in {"logout", "destroy", "purge"} /\ ~cleaning /\ pos \in DOMAIN Engines
       => Engines[pos] \in measured

IInv ==
  /\ TypeOK /\ StepInv /\ PosInv /\ VmsInv /\ DevicesInv /\ MeasuredInv
  /\ NoSilentVms /\ OkMeansClean
-----------------------------------------------------------------------------
(* The invariant holds at first: nothing is up, and no engine is behind.   *)
LEMMA Initial == Init => IInv
<1> SUFFICES ASSUME Init PROVE IInv
  OBVIOUS
<1>1. TypeOK
  <2>1. FlagsOK
    BY DEF Init, InitRun, InitCleanup, FlagsOK
  <2> QED
    BY <2>1, EnginesAssumption DEF Init, InitRun, InitCleanup, TypeOK, Steps, Commands, Calls, NoEngine
<1>2. StepInv /\ PosInv
  BY DEF Init, InitRun, InitCleanup, StepInv, PosInv
<1>3. VmsInv /\ DevicesInv
  BY DEF Init, InitRun, InitCleanup, VmsInv, DeployedIsHonest, Down, DevicesInv, NamesFree
<1>4. MeasuredInv
  BY EnginesAssumption DEF Init, MeasuredInv
<1>5. NoSilentVms /\ OkMeansClean
  BY DEF Init, InitRun, InitCleanup, NoSilentVms, OkMeansClean, ExitsZero
<1> QED
  BY <1>1, <1>2, <1>3, <1>4, <1>5 DEF IInv

(* Every step keeps it.  What a conjunct says of a step of the pipeline    *)
(* follows from where the runner can come from.                            *)
LEMMA Inductive == IInv /\ [Next]_vars => IInv'
<1> SUFFICES ASSUME IInv, [Next]_vars PROVE IInv'
  OBVIOUS
<1> USE EnginesAssumption DEF IInv, StepInv, PosInv, GoTo, Commands, Interrupted,
      stepVars, resultVars, userVars, cloudVars
<1>1. CASE Begin
  <2> USE <1>1 DEF Begin, Fails
  <2>1. FlagsOK'
    BY DEF TypeOK, FlagsOK
  <2>2. TypeOK'
    BY <2>1 DEF TypeOK, Engine, Steps, Calls, NoEngine
  <2>3. StepInv' /\ PosInv'
    BY DEF TypeOK
  <2>4. VmsInv' /\ DevicesInv'
    BY DEF TypeOK, VmsInv, DeployedIsHonest, Down, DevicesInv, NamesFree, Engine, NoEngine
  <2>5. MeasuredInv'
    BY DEF TypeOK, MeasuredInv, Engine
  <2>6. NoSilentVms' /\ OkMeansClean'
    BY <2>5 DEF TypeOK, NoSilentVms, OkMeansClean, ExitsZero, VmsInv, DeployedIsHonest, Down, DevicesInv, NamesFree, MeasuredInv, NoEngine
  <2> QED
    BY <2>2, <2>3, <2>4, <2>5, <2>6
<1>2. CASE Launch
  <2> USE <1>2 DEF Launch
  <2>1. FlagsOK'
    BY DEF TypeOK, FlagsOK
  <2>2. TypeOK'
    BY <2>1 DEF TypeOK, Engine, Steps, Calls, NoEngine
  <2>3. StepInv' /\ PosInv'
    BY DEF TypeOK
  <2>4. VmsInv' /\ DevicesInv'
    BY DEF TypeOK, VmsInv, DeployedIsHonest, Down, DevicesInv, NamesFree, Engine, NoEngine
  <2>5. MeasuredInv'
    BY DEF TypeOK, MeasuredInv, Engine
  <2>6. NoSilentVms' /\ OkMeansClean'
    BY <2>5 DEF TypeOK, NoSilentVms, OkMeansClean, ExitsZero, VmsInv, DeployedIsHonest, Down, DevicesInv, NamesFree, MeasuredInv, NoEngine
  <2> QED
    BY <2>2, <2>3, <2>4, <2>5, <2>6
<1>3. CASE LaunchFails
  <2> USE <1>3 DEF LaunchFails, Fails, Raises
  <2>1. FlagsOK'
    BY DEF TypeOK, FlagsOK
  <2>2. TypeOK'
    BY <2>1 DEF TypeOK, Engine, Steps, Calls, NoEngine
  <2>3. StepInv' /\ PosInv'
    BY DEF TypeOK
  <2>4. VmsInv' /\ DevicesInv'
    BY DEF TypeOK, VmsInv, DeployedIsHonest, Down, DevicesInv, NamesFree, Engine, NoEngine
  <2>5. MeasuredInv'
    BY DEF TypeOK, MeasuredInv, Engine
  <2>6. NoSilentVms' /\ OkMeansClean'
    BY <2>5 DEF TypeOK, NoSilentVms, OkMeansClean, ExitsZero, VmsInv, DeployedIsHonest, Down, DevicesInv, NamesFree, MeasuredInv, NoEngine
  <2> QED
    BY <2>2, <2>3, <2>4, <2>5, <2>6
<1>4. CASE Reap
  <2> USE <1>4 DEF Reap, Fails, After, Charted
  <2>1. FlagsOK'
    BY DEF TypeOK, FlagsOK
  <2>2. TypeOK'
    BY <2>1 DEF TypeOK, Engine, Steps, Calls, NoEngine
  <2>3. pc \in Commands
    OBVIOUS
  <2>4. ok' => pc' = "finished" /\ pc \in {"insights", "compare"}
    BY <2>3
  <2>5. StepInv' /\ PosInv'
    BY <2>3, <2>4 DEF TypeOK
  <2>6. VmsInv' /\ DevicesInv'
    BY DEF TypeOK, VmsInv, DeployedIsHonest, Down, DevicesInv, NamesFree, Engine, NoEngine
  <2>7. MeasuredInv'
    BY DEF TypeOK, MeasuredInv, Engine
  <2>8. NoSilentVms'
    BY <2>3 DEF TypeOK, NoSilentVms, VmsInv, Down
  <2>9. OkMeansClean'
    BY <2>2, <2>4, <2>7 DEF TypeOK, OkMeansClean, ExitsZero, VmsInv, Down, DevicesInv, NamesFree, MeasuredInv
  <2> QED
    BY <2>2, <2>5, <2>6, <2>7, <2>8, <2>9
<1>5. CASE Wait
  <2> USE <1>5 DEF Wait, Fails
  <2>1. FlagsOK'
    BY DEF TypeOK, FlagsOK
  <2>2. TypeOK'
    BY <2>1 DEF TypeOK, Engine, Steps, Calls, NoEngine
  <2>3. StepInv' /\ PosInv'
    BY DEF TypeOK
  <2>4. VmsInv' /\ DevicesInv'
    BY DEF TypeOK, VmsInv, DeployedIsHonest, Down, DevicesInv, NamesFree, Engine, NoEngine
  <2>5. MeasuredInv'
    BY DEF TypeOK, MeasuredInv, Engine
  <2>6. NoSilentVms' /\ OkMeansClean'
    BY <2>5 DEF TypeOK, NoSilentVms, OkMeansClean, ExitsZero, VmsInv, DeployedIsHonest, Down, DevicesInv, NamesFree, MeasuredInv, NoEngine
  <2> QED
    BY <2>2, <2>3, <2>4, <2>5, <2>6
<1>6. CASE Logout
  <2> USE <1>6 DEF Logout, Fails
  <2>1. FlagsOK'
    BY DEF TypeOK, FlagsOK
  <2>2. TypeOK'
    BY <2>1 DEF TypeOK, Engine, Steps, Calls, NoEngine
  <2>3. StepInv' /\ PosInv'
    BY DEF TypeOK
  <2>4. VmsInv' /\ DevicesInv'
    BY DEF TypeOK, VmsInv, DeployedIsHonest, Down, DevicesInv, NamesFree, Engine, NoEngine
  <2>5. MeasuredInv'
    BY DEF TypeOK, MeasuredInv, Engine
  <2>6. NoSilentVms' /\ OkMeansClean'
    BY <2>5 DEF TypeOK, NoSilentVms, OkMeansClean, ExitsZero, VmsInv, DeployedIsHonest, Down, DevicesInv, NamesFree, MeasuredInv, NoEngine
  <2> QED
    BY <2>2, <2>3, <2>4, <2>5, <2>6
<1>7. CASE Purge
  <2> USE <1>7 DEF Purge, Purged, Fails
  <2>1. FlagsOK'
    BY DEF TypeOK, FlagsOK
  <2>2. TypeOK'
    BY <2>1 DEF TypeOK, Engine, Steps, Calls, NoEngine
  <2>3. StepInv' /\ PosInv'
    BY DEF TypeOK
  <2>4. VmsInv' /\ DevicesInv'
    BY DEF TypeOK, VmsInv, DeployedIsHonest, Down, DevicesInv, NamesFree, Engine, NoEngine
  <2>5. MeasuredInv'
    BY DEF TypeOK, MeasuredInv, Engine
  <2>6. NoSilentVms' /\ OkMeansClean'
    BY <2>5 DEF TypeOK, NoSilentVms, OkMeansClean, ExitsZero, VmsInv, DeployedIsHonest, Down, DevicesInv, NamesFree, MeasuredInv, NoEngine
  <2> QED
    BY <2>2, <2>3, <2>4, <2>5, <2>6
<1>8. CASE Fail
  <2> USE <1>8 DEF Fail, StartCleanup
  <2>1. FlagsOK'
    BY DEF TypeOK, FlagsOK
  <2>2. TypeOK'
    BY <2>1 DEF TypeOK, Engine, Steps, Calls, NoEngine
  <2>3. StepInv' /\ PosInv'
    BY DEF TypeOK
  <2>4. VmsInv' /\ DevicesInv'
    BY DEF TypeOK, VmsInv, DeployedIsHonest, Down, DevicesInv, NamesFree, Engine, NoEngine
  <2>5. MeasuredInv'
    BY DEF TypeOK, MeasuredInv, Engine
  <2>6. NoSilentVms' /\ OkMeansClean'
    BY <2>5 DEF TypeOK, NoSilentVms, OkMeansClean, ExitsZero, VmsInv, DeployedIsHonest, Down, DevicesInv, NamesFree, MeasuredInv, NoEngine
  <2> QED
    BY <2>2, <2>3, <2>4, <2>5, <2>6
<1>9. CASE Signal
  <2> USE <1>9 DEF Signal
  <2>1. FlagsOK'
    BY DEF TypeOK, FlagsOK
  <2>2. TypeOK'
    BY <2>1 DEF TypeOK, Engine, Steps, Calls, NoEngine
  <2>3. StepInv' /\ PosInv'
    BY DEF TypeOK
  <2>4. VmsInv' /\ DevicesInv'
    BY DEF TypeOK, VmsInv, DeployedIsHonest, Down, DevicesInv, NamesFree, Engine, NoEngine
  <2>5. MeasuredInv'
    BY DEF TypeOK, MeasuredInv, Engine
  <2>6. NoSilentVms' /\ OkMeansClean'
    BY <2>5 DEF TypeOK, NoSilentVms, OkMeansClean, ExitsZero, VmsInv, DeployedIsHonest, Down, DevicesInv, NamesFree, MeasuredInv, NoEngine
  <2> QED
    BY <2>2, <2>3, <2>4, <2>5, <2>6
<1>10. CASE CommandEnds
  <2> USE <1>10 DEF CommandEnds
  <2>1. FlagsOK'
    BY DEF TypeOK, FlagsOK
  <2>2. TypeOK'
    BY <2>1 DEF TypeOK, Engine, Steps, Calls, NoEngine
  <2>3. StepInv' /\ PosInv'
    BY DEF TypeOK
  <2>4. VmsInv' /\ DevicesInv'
    BY DEF TypeOK, VmsInv, DeployedIsHonest, Down, DevicesInv, NamesFree, Engine, NoEngine
  <2>5. MeasuredInv'
    BY DEF TypeOK, MeasuredInv, Engine
  <2>6. NoSilentVms' /\ OkMeansClean'
    BY <2>5 DEF TypeOK, NoSilentVms, OkMeansClean, ExitsZero, VmsInv, DeployedIsHonest, Down, DevicesInv, NamesFree, MeasuredInv, NoEngine
  <2> QED
    BY <2>2, <2>3, <2>4, <2>5, <2>6
<1>11. CASE Press
  <2> USE <1>11 DEF Press
  <2>1. FlagsOK'
    BY DEF TypeOK, FlagsOK
  <2>2. TypeOK'
    BY <2>1 DEF TypeOK, Engine, Steps, Calls, NoEngine
  <2>3. StepInv' /\ PosInv'
    BY DEF TypeOK
  <2>4. VmsInv' /\ DevicesInv'
    BY DEF TypeOK, VmsInv, DeployedIsHonest, Down, DevicesInv, NamesFree, Engine, NoEngine
  <2>5. MeasuredInv'
    BY DEF TypeOK, MeasuredInv, Engine
  <2>6. NoSilentVms' /\ OkMeansClean'
    BY <2>5 DEF TypeOK, NoSilentVms, OkMeansClean, ExitsZero, VmsInv, DeployedIsHonest, Down, DevicesInv, NamesFree, MeasuredInv, NoEngine
  <2> QED
    BY <2>2, <2>3, <2>4, <2>5, <2>6
<1>12. CASE SetAbort
  <2> USE <1>12 DEF SetAbort
  <2>1. FlagsOK'
    BY DEF TypeOK, FlagsOK
  <2>2. TypeOK'
    BY <2>1 DEF TypeOK, Engine, Steps, Calls, NoEngine
  <2>3. StepInv' /\ PosInv'
    BY DEF TypeOK
  <2>4. VmsInv' /\ DevicesInv'
    BY DEF TypeOK, VmsInv, DeployedIsHonest, Down, DevicesInv, NamesFree, Engine, NoEngine
  <2>5. MeasuredInv'
    BY DEF TypeOK, MeasuredInv, Engine
  <2>6. NoSilentVms' /\ OkMeansClean'
    BY <2>5 DEF TypeOK, NoSilentVms, OkMeansClean, ExitsZero, VmsInv, DeployedIsHonest, Down, DevicesInv, NamesFree, MeasuredInv, NoEngine
  <2> QED
    BY <2>2, <2>3, <2>4, <2>5, <2>6
<1>13. CASE Answer
  <2> USE <1>13 DEF Answer, StartCleanup
  <2>1. FlagsOK'
    BY DEF TypeOK, FlagsOK
  <2>2. TypeOK'
    BY <2>1 DEF TypeOK, Engine, Steps, Calls, NoEngine
  <2>3. StepInv' /\ PosInv'
    BY DEF TypeOK
  <2>4. VmsInv' /\ DevicesInv'
    BY DEF TypeOK, VmsInv, DeployedIsHonest, Down, DevicesInv, NamesFree, Engine, NoEngine
  <2>5. MeasuredInv'
    BY DEF TypeOK, MeasuredInv, Engine
  <2>6. NoSilentVms' /\ OkMeansClean'
    BY <2>5 DEF TypeOK, NoSilentVms, OkMeansClean, ExitsZero, VmsInv, DeployedIsHonest, Down, DevicesInv, NamesFree, MeasuredInv, NoEngine
  <2> QED
    BY <2>2, <2>3, <2>4, <2>5, <2>6
<1>14. CASE UNCHANGED vars
  BY <1>14 DEF vars, TypeOK, FlagsOK, VmsInv, DeployedIsHonest, Down, DevicesInv, NamesFree, MeasuredInv,
    NoSilentVms, OkMeansClean, ExitsZero, Engine
<1> QED
  BY <1>1, <1>2, <1>3, <1>4, <1>5, <1>6, <1>7, <1>8, <1>9, <1>10, <1>11, <1>12, <1>13,
     <1>14 DEF Next, Runner, User

(* The invariant holds in every reachable state, for every list of engines. *)
THEOREM Invariance == Spec => []IInv
<1>1. Init => IInv
  BY Initial
<1>2. IInv /\ [Next]_vars => IInv'
  BY Inductive
<1> QED
  BY <1>1, <1>2, PTL DEF Spec

-----------------------------------------------------------------------------
(* Every variable keeps its type.                                          *)
THEOREM TypeCorrectness == Spec => []TypeOK
<1>1. IInv => TypeOK
  BY DEF IInv
<1> QED
  BY <1>1, Invariance, PTL

(* deployed, which the runner's failure handling goes by, never misses VMs *)
(* that an apply may have created.                                         *)
THEOREM DeployedHonest == Spec => []DeployedIsHonest
<1>1. IInv => DeployedIsHonest
  BY DEF IInv, VmsInv
<1> QED
  BY <1>1, Invariance, PTL

(* No pipeline ends with VMs up and no word of how to destroy them.        *)
THEOREM VmsAreRemembered == Spec => []NoSilentVms
<1>1. IInv => NoSilentVms
  BY DEF IInv
<1> QED
  BY <1>1, Invariance, PTL

(* A pipeline that ends well left nothing and measured every engine.       *)
THEOREM SuccessIsClean == Spec => []OkMeansClean
<1>1. IInv => OkMeansClean
  BY DEF IInv
<1> QED
  BY <1>1, Invariance, PTL

(* No apply is launched while a device of the testbed holds its name.      *)
THEOREM NamesAreFree == Spec => NamesFreeAtApply
<1>1. IInv => (pc = "apply" /\ phase = "call" /\ phase' = "running" => devices = {})
  BY DEF IInv, DevicesInv, NamesFree
<1> QED
  BY <1>1, Invariance, PTL DEF NamesFreeAtApply

(* No command of a cleanup is sent a signal, whenever Ctrl-C was pressed.  *)
THEOREM CleanupRunsOn == Spec => CleanupUninterrupted
<1>1. IInv /\ [Next]_vars => (cleaning => signal' \in {signal, "none"}) \/ UNCHANGED vars
  <2> SUFFICES ASSUME IInv, Next, cleaning PROVE signal' \in {signal, "none"}
    OBVIOUS
  <2>1. CASE Launch
    BY <2>1 DEF Launch
  <2>2. CASE Signal
    BY <2>2 DEF Signal, IInv, StepInv, Interrupted
  <2>3. CASE Begin \/ LaunchFails \/ Reap \/ Wait \/ Logout \/ Purge \/ Fail
    BY <2>3 DEF Begin, LaunchFails, Reap, Wait, Logout, Purge, Fail
  <2>4. CASE CommandEnds \/ User
    BY <2>4 DEF CommandEnds, User, Press, SetAbort, Answer, stepVars
  <2> QED
    BY <2>1, <2>2, <2>3, <2>4 DEF Next, Runner
<1> QED
  BY <1>1, Invariance, PTL DEF Spec, CleanupUninterrupted
=============================================================================
