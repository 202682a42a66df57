------------------------------ MODULE Pipeline ------------------------------
(***************************************************************************)
(* The two-engine pipeline of pipeline/run_all.py: a runner thread that    *)
(* takes each engine through plan, apply, wait, run, logout, destroy and   *)
(* purge; the thread that interrupts its current command after an abort;   *)
(* and the user, who may press Ctrl-C at any time and is asked what to do  *)
(* with VMs that may still be up when a step has failed.  With --cleanup   *)
(* the program is only the cleanup of an earlier run.                      *)
(*                                                                         *)
(* Terraform and the tailnet are external: an apply that was started may   *)
(* have created VMs and registered their devices whether or not it         *)
(* succeeded, a destroy that failed may have left them.                    *)
(***************************************************************************)
EXTENDS Integers, Sequences, FiniteSets

CONSTANTS
  Engines,   \* args.engine_list, a sequence
  Hosts      \* the hostnames of the testbed, as devices of the tailnet

ASSUME EnginesAssumption == Engines \in Seq(STRING) /\ Engines # <<>>
ASSUME HostsAssumption == IsFiniteSet(Hosts)

VARIABLES
  pos,         \* index of the engine at work; 0 before and Len + 1 after them
  pc,          \* the step, or failing, asking, finished
  phase,       \* within a step: begin, call, running, ended
  rc,          \* how the command ended: ok or failed
  signal,      \* what _stop_on_abort sent it: none, int, term
  deployed,    \* self.deployed
  cleaning, abort, ok, cleaned,   \* of the shared State
  told,        \* result["cleanup_cmd"] is set
  escaped,     \* an exception left fail()
  measured,    \* engines whose run-experiment.sh succeeded
  armed,       \* Ctrl-C was pressed and the test of cleaning passed
  onFailure,   \* --on-failure
  only,        \* --cleanup: nothing but the cleanup of an earlier run
  vms,         \* external: the engine whose VMs may exist
  devices      \* external: testbed devices in the tailnet

stepVars == <<pos, pc, phase, rc, signal>>
resultVars == <<ok, cleaned, told, escaped, measured>>
userVars == <<abort, armed, onFailure, only>>
cloudVars == <<vms, devices>>
vars == <<stepVars, deployed, cleaning, resultVars, userVars, cloudVars>>

NoEngine == "none"
Engine == IF pos \in DOMAIN Engines THEN Engines[pos] ELSE NoEngine

Commands == {"pre", "init", "plan", "apply", "run", "destroy", "insights",
             "compare"}
Calls == {"wait", "logout", "purge"}
Steps == Commands \cup Calls

(* A run of the pipeline, on a cloud that holds no VMs of the testbed.     *)
InitRun ==
  /\ only = FALSE
  /\ pc = "pre" /\ cleaning = FALSE /\ vms = NoEngine

(* --cleanup: the cleanup alone, on whatever an earlier run left up; its   *)
(* Runner knows of no deployment, and main() does not handle a Ctrl-C.     *)
InitCleanup ==
  /\ only = TRUE
  /\ pc = "logout" /\ cleaning = TRUE
  /\ vms \in {NoEngine} \cup {Engines[i] : i \in DOMAIN Engines}

Init ==
  /\ InitRun \/ InitCleanup
  /\ pos = 0 /\ phase = "begin" /\ rc = "ok" /\ signal = "none"
  /\ deployed = NoEngine
  /\ abort = FALSE /\ armed = FALSE /\ onFailure \in {"ask", "destroy", "leave"}
  /\ ok = FALSE /\ cleaned = FALSE /\ told = FALSE /\ escaped = FALSE
  /\ measured = {}
  /\ devices \in SUBSET Hosts

-----------------------------------------------------------------------------
(* Leaving a step.                                                         *)

(* The second command of a step has no begin() of its own.                 *)
GoTo(step) ==
  pc' = step /\ phase' = IF step \in {"init", "compare"} THEN "call" ELSE "begin"

(* What follows the charts: the comparison, if both engines were swept.    *)
Charted == {"compare", "finished"}

(* What may follow the command of a step: terraform init depends on what   *)
(* is on the disk.                                                         *)
After ==
  CASE pc = "pre" -> {"init", "purge"}
    [] pc = "init" -> {"purge"}
    [] pc = "plan" -> {"apply"}
    [] pc = "apply" -> {"wait"}
    [] pc = "run" -> {"logout"}
    [] pc = "destroy" -> {"purge"}
    [] pc = "insights" -> Charted
    [] pc = "compare" -> {"finished"}

Interrupted == abort /\ ~cleaning

(* StepFailed, TailscaleError or Aborted.  run() calls fail(); cleanup()   *)
(* shows the command to retry with.                                        *)
Fails ==
  IF cleaning THEN /\ GoTo("finished") /\ told' = TRUE /\ cleaning' = FALSE
                   /\ UNCHANGED escaped
              ELSE GoTo("failing") /\ UNCHANGED <<told, cleaning, escaped>>

(* Any other exception: an internal error to run(), unhandled by cleanup().*)
Raises ==
  IF cleaning THEN /\ GoTo("finished") /\ escaped' = TRUE /\ cleaning' = FALSE
                   /\ UNCHANGED told
              ELSE GoTo("failing") /\ UNCHANGED <<told, cleaning, escaped>>

-----------------------------------------------------------------------------
(* The steps that run a command: begin() and cmd().                        *)

(* Slip: deployed is set once the apply has succeeded.                     *)
BeginLate ==
  /\ pc \in Commands /\ phase = "begin"
  /\ IF Interrupted /\ ~cleaning
       THEN Fails
       ELSE phase' = "call" /\ UNCHANGED <<pc, told, cleaning, escaped>>
  /\ UNCHANGED <<pos, rc, signal, deployed, ok, cleaned, measured, userVars,
                 cloudVars>>

(* check_abort; from here on a failed apply may leave VMs behind.          *)
Begin ==
  /\ pc \in Commands /\ phase = "begin"
  /\ IF Interrupted THEN Fails /\ UNCHANGED deployed
     ELSE /\ phase' = "call"
          /\ deployed' = IF pc = "apply" THEN Engine ELSE deployed
          /\ UNCHANGED <<pc, told, cleaning, escaped>>
  /\ UNCHANGED <<pos, rc, signal, ok, cleaned, measured, userVars, cloudVars>>

(* cmd(): check_abort again, then Popen.                                   *)
Launch ==
  /\ pc \in Commands /\ phase = "call" /\ ~Interrupted
  /\ phase' = "running" /\ signal' = "none"
  /\ IF pc = "apply"
       THEN vms' = Engine /\ \E D \in SUBSET Hosts : devices' = devices \cup D
       ELSE UNCHANGED cloudVars
  /\ UNCHANGED <<pos, pc, rc, deployed, cleaning, resultVars, userVars>>

LaunchFails ==
  /\ pc \in Commands /\ phase = "call"
  /\ IF Interrupted THEN Fails ELSE Raises
  /\ UNCHANGED <<pos, rc, signal, deployed, ok, cleaned, measured, userVars,
                 cloudVars>>

(* External: the command ends, by itself or because of a signal.  A        *)
(* destroy that reports success has removed the VMs, whichever engine it   *)
(* was told: they are what terraform's state holds.                        *)
CommandEnds ==
  /\ phase = "running"
  /\ phase' = "ended"
  /\ rc' \in {"ok", "failed"}
  /\ vms' = IF pc = "destroy" /\ rc' = "ok" THEN NoEngine ELSE vms
  /\ UNCHANGED <<pos, pc, signal, deployed, cleaning, resultVars, userVars,
                 devices>>

(* Slip: the status of a destroy is not looked at.                         *)
ReapDestroyBlindly ==
  /\ phase = "ended"
  /\ IF Interrupted \/ (rc = "failed" /\ pc # "destroy")
     THEN Fails /\ UNCHANGED <<deployed, ok, measured>>
     ELSE /\ \E step \in After : GoTo(step)
          /\ deployed' = IF pc = "destroy" THEN NoEngine ELSE deployed
          /\ measured' = IF pc = "run" THEN measured \cup {Engine} ELSE measured
          /\ ok' = (pc' = "finished")
          /\ UNCHANGED <<told, cleaning, escaped>>
  /\ UNCHANGED <<pos, rc, signal, cleaned, userVars, cloudVars>>

(* cmd() returns or raises; the step goes on.  A comparison that refuses   *)
(* "is reported, not fatal".                                               *)
Reap ==
  /\ phase = "ended"
  /\ IF Interrupted \/ (rc = "failed" /\ pc # "compare")
     THEN Fails /\ UNCHANGED <<deployed, ok, measured>>
     ELSE /\ \E step \in After : GoTo(step)
          /\ deployed' = IF pc = "destroy" THEN NoEngine ELSE deployed
          /\ measured' = IF pc = "run" THEN measured \cup {Engine} ELSE measured
          /\ ok' = (pc' = "finished")
          /\ UNCHANGED <<told, cleaning, escaped>>
  /\ UNCHANGED <<pos, rc, signal, cleaned, userVars, cloudVars>>

-----------------------------------------------------------------------------
(* The steps without a command of their own.                               *)

(* wait_for_vms: every VM is ready, or some is not in time, or an abort    *)
(* was seen once the pool of threads had ended.                            *)
Wait ==
  /\ pc = "wait"
  /\ \/ ~Interrupted /\ GoTo("run") /\ UNCHANGED <<told, cleaning, escaped>>
     \/ Fails
  /\ UNCHANGED <<pos, rc, signal, deployed, ok, cleaned, measured, userVars,
                 cloudVars>>

(* begin() looks at abort before the logout, cleanup() does not; the       *)
(* logout itself never raises and leaves the devices listed.               *)
Logout ==
  /\ pc = "logout"
  /\ IF Interrupted THEN Fails
     ELSE GoTo("destroy") /\ UNCHANGED <<told, cleaning, escaped>>
  /\ UNCHANGED <<pos, rc, signal, deployed, ok, cleaned, measured, userVars,
                 cloudVars>>

(* The end of a purge: of a cleanup, of the preflight, of an engine.       *)
Purged ==
  IF cleaning
    THEN GoTo("finished") /\ cleaned' = TRUE /\ cleaning' = FALSE /\ UNCHANGED pos
  ELSE /\ pos' = pos + 1
       /\ GoTo(IF pos < Len(Engines) THEN "plan" ELSE "insights")
       /\ UNCHANGED <<cleaned, cleaning>>

(* Slip: the delete requests are not checked on.                           *)
PurgeUnverified ==
  /\ pc = "purge"
  /\ \/ Interrupted /\ Fails /\ UNCHANGED <<pos, cleaned, devices>>
     \/ /\ ~Interrupted /\ Purged
        /\ devices' \in SUBSET devices
        /\ UNCHANGED <<told, escaped>>
  /\ UNCHANGED <<rc, signal, deployed, ok, measured, userVars, vms>>

(* purge_devices: delete what is listed, list again, and fail if anything  *)
(* is left; a request may fail half way.                                   *)
Purge ==
  /\ pc = "purge"
  /\ \/ Interrupted /\ Fails /\ UNCHANGED <<pos, cleaned, devices>>
     \/ ~Interrupted /\ Fails /\ devices' \in SUBSET devices /\ UNCHANGED <<pos, cleaned>>
     \/ ~Interrupted /\ Purged /\ devices' = {} /\ UNCHANGED <<told, escaped>>
  /\ UNCHANGED <<rc, signal, deployed, ok, measured, userVars, vms>>

-----------------------------------------------------------------------------
(* fail() and cleanup().                                                   *)

StartCleanup == GoTo("logout") /\ cleaning' = TRUE

Fail ==
  /\ pc = "failing"
  /\ IF deployed = NoEngine THEN GoTo("finished") /\ UNCHANGED <<told, cleaning>>
     ELSE CASE onFailure = "ask" -> GoTo("asking") /\ UNCHANGED <<told, cleaning>>
            [] onFailure = "destroy" -> StartCleanup /\ UNCHANGED told
            [] onFailure = "leave" -> GoTo("finished") /\ told' = TRUE /\ UNCHANGED cleaning
  /\ UNCHANGED <<pos, rc, signal, deployed, ok, cleaned, escaped, measured,
                 userVars, cloudVars>>

Answer ==
  /\ pc = "asking"
  /\ \/ StartCleanup /\ UNCHANGED told
     \/ GoTo("finished") /\ told' = TRUE /\ UNCHANGED cleaning
  /\ UNCHANGED <<pos, rc, signal, deployed, ok, cleaned, escaped, measured,
                 userVars, cloudVars>>

-----------------------------------------------------------------------------
(* The user's Ctrl-C, in the UI's thread: the test of cleaning and the     *)
(* setting of abort are two steps.                                         *)

Press ==
  /\ ~armed /\ ~abort /\ ~cleaning /\ pc # "finished"
  /\ armed' = TRUE
  /\ UNCHANGED <<stepVars, deployed, cleaning, resultVars, abort, onFailure,
                 only, cloudVars>>

SetAbort ==
  /\ armed
  /\ armed' = FALSE /\ abort' = TRUE
  /\ UNCHANGED <<stepVars, deployed, cleaning, resultVars, onFailure, only,
                 cloudVars>>

(* Slip: the interrupter looks at abort only.                              *)
SignalAlways ==
  /\ phase = "running" /\ abort /\ signal # "term"
  /\ signal' = IF signal = "none" THEN "int" ELSE "term"
  /\ UNCHANGED <<pos, pc, phase, rc, deployed, cleaning, resultVars, userVars,
                 cloudVars>>

(* Slip: SIGINT is all the command ever gets.                              *)
SignalOnce ==
  /\ phase = "running" /\ Interrupted /\ signal = "none"
  /\ signal' = "int"
  /\ UNCHANGED <<pos, pc, phase, rc, deployed, cleaning, resultVars, userVars,
                 cloudVars>>

(* _stop_on_abort: SIGINT, and SIGTERM after the grace period.             *)
Signal ==
  /\ phase = "running"
  /\ \/ Interrupted /\ signal = "none" /\ signal' = "int"
     \/ signal = "int" /\ signal' = "term"
  /\ UNCHANGED <<pos, pc, phase, rc, deployed, cleaning, resultVars, userVars,
                 cloudVars>>

-----------------------------------------------------------------------------
Runner == Begin \/ Launch \/ LaunchFails \/ Reap \/ Wait \/ Logout \/ Purge \/ Fail
User == Press \/ SetAbort \/ Answer
Next == Runner \/ Signal \/ CommandEnds \/ User

Spec == Init /\ [][Next]_vars

(* The threads are scheduled, the pool of wait_for_vms has a deadline, and *)
(* a command ends once it was sent SIGTERM.  A command may run, or ignore  *)
(* SIGINT, for ever; the user need not answer.                             *)
FairSpec == /\ Spec
            /\ WF_vars(Runner) /\ WF_vars(SetAbort) /\ WF_vars(Signal)
            /\ WF_vars(signal = "term" /\ CommandEnds)

-----------------------------------------------------------------------------
FlagsOK ==
  /\ cleaning \in BOOLEAN /\ abort \in BOOLEAN /\ armed \in BOOLEAN
  /\ only \in BOOLEAN /\ ok \in BOOLEAN /\ cleaned \in BOOLEAN /\ told \in BOOLEAN /\ escaped \in BOOLEAN

TypeOK ==
  /\ FlagsOK
  /\ pos \in 0 .. Len(Engines) + 1
  /\ pc \in Steps \cup {"failing", "asking", "finished"}
  /\ phase \in {"begin", "call", "running", "ended"}
  /\ rc \in {"ok", "failed"} /\ signal \in {"none", "int", "term"}
  /\ deployed \in {NoEngine} \cup {Engines[i] : i \in DOMAIN Engines}
  /\ onFailure \in {"ask", "destroy", "leave"}
  /\ measured \subseteq {Engines[i] : i \in DOMAIN Engines}
  /\ vms \in {NoEngine} \cup {Engines[i] : i \in DOMAIN Engines}
  /\ devices \subseteq Hosts

(* deployed, the "engine whose VMs may exist right now", never misses VMs. *)
DeployedIsHonest == ~only /\ vms # NoEngine => deployed = vms

(* "If a step fails, or you press Ctrl-C, while VMs may be up": no run     *)
(* that could still say so ends with VMs up and no word of how to destroy  *)
(* them, whatever failed, including the cleanup.                           *)
NoSilentVms ==
  pc = "finished" /\ ~escaped /\ vms # NoEngine => told

(* _main ends with status 0.                                               *)
ExitsZero == \/ only /\ cleaned
             \/ ~only /\ ok

(* A program that exits with 0, or says that it has cleaned up, has left   *)
(* nothing up and no name taken; and a finished pipeline has measured      *)
(* every engine.                                                           *)
OkMeansClean ==
  /\ ExitsZero \/ cleaned => vms = NoEngine /\ devices = {}
  /\ ok => measured = {Engines[i] : i \in DOMAIN Engines}

(* Hostnames are free when VMs are created; a taken one would be given out *)
(* with a suffix, and the harness would talk to the wrong device.          *)
NamesFreeAtApply ==
  [][pc = "apply" /\ phase = "call" /\ phase' = "running" => devices = {}]_vars

(* A cleanup is never interrupted, even by a Ctrl-C whose test of cleaning *)
(* came before it began.                                                   *)
CleanupUninterrupted ==
  [][cleaning => signal' \in {signal, "none"}]_vars

(* An abort is acted on although the command may ignore SIGINT: the runner *)
(* comes to ask, to clean up, or to end.                                   *)
AbortIsHeard ==
  abort ~> (cleaning \/ pc \in {"failing", "asking", "finished"})
=============================================================================
