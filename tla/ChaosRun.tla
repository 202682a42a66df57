------------------------------ MODULE ChaosRun ------------------------------
(***************************************************************************)
(* One chaos run: run() of crdblab/phases/p4_chaos.py.  The main thread    *)
(* reads the generator's stream, a timer thread injects the fault some     *)
(* time after the first sample, the audit writer (module AuditWriter)      *)
(* writes throughout; main then stops them, joins each for a bounded time, *)
(* derives the results, restores a killed target and writes the artefacts. *)
(*                                                                         *)
(* The fault goes out as one ssh command.  Its effect on the target and    *)
(* the answer are separate: the command may take effect after the client   *)
(* gave up on it; in recover mode, where it is backgrounded, an answer of  *)
(* 0 says nothing about the effect; and an ssh whose connection breaks     *)
(* before its time limit exits with 255, which reads like an answer.       *)
(***************************************************************************)
EXTENDS AuditWriter

CONSTANTS
  Modes,       \* the modes and engines a run may be started with
  Engines

ASSUME ModesAssumption == Modes \subseteq {"dead", "recover"}
ASSUME EnginesAssumption == Engines \subseteq {"cockroachdb", "postgresql"}

VARIABLES
  mode, engine,   \* arguments of run()
  pc,          \* main: the statement of run() it is at
  sample,      \* a tick of the generator was seen (steady_state_at is set)
  released,    \* the first_sample_seen event
  stopTimer,   \* the stop_timer event
  timerJoined, \* the bounded join found the timer ended
  tpc,         \* the timer: off, wait, check, count, ssh, update, offset, done
  answer,      \* inject_fault's local landed, until injected has it
  severed,     \* history: the answer is the 255 of a broken connection
  injected,    \* the dict both threads share
  rto,         \* what main read of it: fault offset, availability, probe
  events,      \* events["fault_landed"], once events.update ran
  restore,     \* events["restore"]: none, skipped, attempted
  artefacts,   \* write_manifest, write_events and write_preflight were called
  payload,     \* external: the fault command: none, sent, hit, failed, lost
  dropin       \* external: Restart=no of the target's Patroni unit

runVars == <<pc, sample, released, stopTimer, timerJoined>>
timerVars == <<tpc, answer, severed, injected>>
resultVars == <<rto, events, restore, artefacts>>
targetVars == <<payload, dropin>>
params == <<mode, engine>>
chaosVars == <<params, runVars, timerVars, resultVars, targetVars>>
vars == <<auditVars, chaosVars>>

Unset == "unset"

(* Until its process exits the daemon threads run, whatever main does.     *)
Alive == pc \notin {"done", "exited"}

ChaosInit ==
  /\ mode \in Modes /\ engine \in Engines
  /\ pc = "preflight"
  /\ sample = FALSE /\ released = FALSE /\ stopTimer = FALSE /\ timerJoined = FALSE
  /\ tpc = "off" /\ answer = Unset /\ severed = FALSE
  /\ injected = [landed |-> Unset, monotonic |-> FALSE, offset |-> FALSE]
  /\ rto = [throughput |-> FALSE, availability |-> FALSE, probe |-> FALSE]
  /\ events = Unset /\ restore = "none" /\ artefacts = FALSE
  /\ payload = "none" /\ dropin = FALSE

Init == AuditInit /\ ChaosInit

-----------------------------------------------------------------------------
(* Main, up to the end of the generator's stream.                          *)

At(from, to) == pc = from /\ pc' = to

(* raise_if_failed, the gateway check, and the ssh call of the CREATE      *)
(* TABLE: each may raise before anything was started.                      *)
Refuse ==
  /\ At("preflight", "exited")
  /\ UNCHANGED <<auditVars, params, sample, released, stopTimer, timerJoined,
                 timerVars, resultVars, targetVars>>

(* The checks passed; sampler, probe and writer are entered, the timer     *)
(* starts.                                                                 *)
Launch ==
  /\ At("preflight", "stream")
  /\ Enter
  /\ tpc' = "wait"
  /\ UNCHANGED <<params, sample, released, stopTimer, timerJoined, answer,
                 severed, injected, resultVars, targetVars>>

(* A tick: the first one sets the timer's origin.                          *)
Sample ==
  /\ pc = "stream" /\ ~released
  /\ sample' = TRUE /\ released' = TRUE
  /\ UNCHANGED <<auditVars, params, pc, stopTimer, timerJoined, timerVars,
                 resultVars, targetVars>>

StreamEnds ==
  /\ At("stream", "stop_timer")
  /\ UNCHANGED <<auditVars, params, sample, released, stopTimer, timerJoined,
                 timerVars, resultVars, targetVars>>

(* The strict parser, the ssh client or its 30 s wait raises: stop_timer   *)
(* and first_sample_seen are not set on this path.                         *)
StreamRaises ==
  /\ At("stream", "unwind")
  /\ UNCHANGED <<auditVars, params, sample, released, stopTimer, timerJoined,
                 timerVars, resultVars, targetVars>>

-----------------------------------------------------------------------------
(* Main, stopping what it started.                                         *)

(* Slip: the timer is not told to stop.                                    *)
StopTimerForgotten ==
  /\ At("stop_timer", "release")
  /\ UNCHANGED <<auditVars, params, sample, released, stopTimer, timerJoined,
                 timerVars, resultVars, targetVars>>

StopTimer ==
  /\ At("stop_timer", "release")
  /\ stopTimer' = TRUE
  /\ UNCHANGED <<auditVars, params, sample, released, timerJoined, timerVars,
                 resultVars, targetVars>>

(* first_sample_seen.set(), so that a waiting timer wakes.                 *)
Release ==
  /\ At("release", "join_timer")
  /\ released' = TRUE
  /\ UNCHANGED <<auditVars, params, sample, stopTimer, timerJoined, timerVars,
                 resultVars, targetVars>>

(* join(timeout=5): the timer's ssh call alone may take 10 s.              *)
JoinTimer ==
  /\ At("join_timer", "stop_audit")
  /\ timerJoined' = (tpc = "done")
  /\ UNCHANGED <<auditVars, params, sample, released, stopTimer, timerVars,
                 resultVars, targetVars>>

(* Slip: the join of the writer has no time limit.                         *)
ExitAuditWaits ==
  /\ \/ RequestStop /\ \/ At("stop_audit", "join_audit")
                       \/ At("unwind", "unwind_join")
     \/ Join /\ \/ At("join_audit", "collect")
                \/ At("unwind_join", "exited")
  /\ UNCHANGED <<params, sample, released, stopTimer, timerJoined, timerVars,
                 resultVars, targetVars>>

(* The writer's __exit__, on the normal path and while unwinding.          *)
ExitAudit ==
  /\ \/ RequestStop /\ \/ At("stop_audit", "join_audit")
                       \/ At("unwind", "unwind_join")
     \/ (Join \/ JoinTimesOut) /\ \/ At("join_audit", "collect")
                                  \/ At("unwind_join", "exited")
  /\ UNCHANGED <<params, sample, released, stopTimer, timerJoined, timerVars,
                 resultVars, targetVars>>

-----------------------------------------------------------------------------
(* Main, deriving the results.                                             *)

(* The SELECT of collect().  Only connecting to the database has a time    *)
(* limit: a server that falls silent after that is waited for.             *)
Select ==
  /\ Snapshot /\ At("collect", "compare")
  /\ UNCHANGED <<params, sample, released, stopTimer, timerJoined, timerVars,
                 resultVars, targetVars>>

(* The database cannot be reached within 15 s: nothing of the run is       *)
(* written and the target is not restored.                                 *)
CollectRaises ==
  /\ At("collect", "exited")
  /\ UNCHANGED <<auditVars, params, sample, released, stopTimer, timerJoined,
                 timerVars, resultVars, targetVars>>

Collect ==
  /\ Compare /\ At("compare", "throughput")
  /\ UNCHANGED <<params, sample, released, stopTimer, timerJoined, timerVars,
                 resultVars, targetVars>>

(* The three results are derived from the shared dict one after the other. *)
Derive ==
  /\ \/ /\ At("throughput", "availability")
        /\ rto' = [rto EXCEPT !.throughput = injected.offset]
     \/ /\ At("availability", "probe")
        /\ rto' = [rto EXCEPT !.availability = injected.monotonic]
     \/ /\ At("probe", "events")
        /\ rto' = [rto EXCEPT !.probe = injected.offset]
  /\ UNCHANGED <<auditVars, params, sample, released, stopTimer, timerJoined,
                 timerVars, events, restore, artefacts, targetVars>>

UpdateEvents ==
  /\ At("events", "restore")
  /\ events' = IF injected.landed = Unset THEN "none" ELSE injected.landed
  /\ UNCHANGED <<auditVars, params, sample, released, stopTimer, timerJoined,
                 timerVars, rto, restore, artefacts, targetVars>>

(* Slip: only a fault known to have landed is repaired.                    *)
RestoreIfLanded ==
  /\ At("restore", "artefacts")
  /\ restore' = IF mode = "dead" /\ injected.landed = "yes" THEN "attempted"
                                                           ELSE "skipped"
  /\ dropin' \in IF restore' = "attempted" THEN {dropin, FALSE} ELSE {dropin}
  /\ UNCHANGED <<auditVars, params, sample, released, stopTimer, timerJoined,
                 timerVars, rto, events, artefacts, payload>>

(* A dead target is restarted unless the exit status of ssh was other than *)
(* 0, which is taken for a fault that did not land.  The repair's own ssh  *)
(* call may fail.                                                          *)
Restore ==
  /\ At("restore", "artefacts")
  /\ restore' = IF mode = "dead" /\ injected.landed # "no" THEN "attempted"
                                                          ELSE "skipped"
  /\ dropin' \in IF restore' = "attempted" THEN {dropin, FALSE} ELSE {dropin}
  /\ UNCHANGED <<auditVars, params, sample, released, stopTimer, timerJoined,
                 timerVars, rto, events, artefacts, payload>>

WriteArtefacts ==
  /\ At("artefacts", "done")
  /\ artefacts' = TRUE
  /\ UNCHANGED <<auditVars, params, sample, released, stopTimer, timerJoined,
                 timerVars, rto, events, restore, targetVars>>

-----------------------------------------------------------------------------
(* The timer thread.                                                       *)

(* first_sample_seen.wait returned; or its budget of one run length ended, *)
(* and the run is recorded as not injected.                                *)
Wake ==
  /\ tpc = "wait" /\ Alive
  /\ \/ released /\ tpc' = "check" /\ UNCHANGED injected
     \/ ~released /\ tpc' = "done" /\ injected' = [injected EXCEPT !.landed = "no"]
  /\ UNCHANGED <<auditVars, params, runVars, answer, severed, resultVars, targetVars>>

Check ==
  /\ tpc = "check" /\ Alive
  /\ tpc' = IF stopTimer THEN "done" ELSE "count"
  /\ UNCHANGED <<auditVars, params, runVars, answer, severed, injected,
                 resultVars, targetVars>>

(* stop_timer.wait told the timer to end.                                  *)
CountStops ==
  /\ tpc = "count" /\ Alive /\ stopTimer
  /\ tpc' = "done"
  /\ UNCHANGED <<auditVars, params, runVars, answer, severed, injected,
                 resultVars, targetVars>>

(* The deadline passed: inject_fault calls ssh; stop_timer is not looked   *)
(* at again.                                                               *)
Inject ==
  /\ tpc = "count" /\ Alive
  /\ tpc' = "ssh"
  /\ payload' = "sent"
  /\ UNCHANGED <<auditVars, params, runVars, answer, severed, injected,
                 resultVars, dropin>>

(* Slip: a timeout is taken for a fault that did not land.                 *)
ReplyPessimist ==
  /\ tpc = "ssh" /\ Alive
  /\ tpc' = "update"
  /\ \/ payload = "hit" /\ answer' = "yes"
     \/ answer' = "no"
  /\ UNCHANGED <<auditVars, params, runVars, severed, injected, resultVars,
                 targetVars>>

(* The command's own exit status came back, or ssh raised after 10 s, or   *)
(* ssh.run, which checks nothing, returned 255: the connection could not   *)
(* be made, or broke with the command under way, run or not.               *)
Reply ==
  /\ tpc = "ssh" /\ Alive
  /\ tpc' = "update"
  /\ \/ payload = "hit" /\ answer' = "yes" /\ UNCHANGED severed
     \/ /\ payload = "failed"
        /\ answer' = IF mode = "recover" THEN "yes" ELSE "no"
        /\ UNCHANGED severed
     \/ answer' = "none" /\ UNCHANGED severed
     \/ answer' = "no" /\ severed' = TRUE
  /\ UNCHANGED <<auditVars, params, runVars, injected, resultVars, targetVars>>

(* injected.update(...), and then its two offsets.                         *)
Update ==
  /\ \/ /\ tpc = "update" /\ tpc' = "offset"
        /\ injected' = [injected EXCEPT !.landed = answer, !.monotonic = TRUE]
     \/ /\ tpc = "offset" /\ tpc' = "done"
        /\ injected' = [injected EXCEPT !.offset = TRUE]
  /\ Alive
  /\ UNCHANGED <<auditVars, params, runVars, answer, severed, resultVars, targetVars>>

-----------------------------------------------------------------------------
(* External: the target.                                                   *)

(* The command runs on the target.  In dead mode on PostgreSQL it first    *)
(* installs the drop-in, and may fail after that.                          *)
PayloadRuns ==
  /\ payload = "sent"
  /\ payload' \in {"hit", "failed"}
  /\ dropin' \in IF mode = "dead" /\ engine = "postgresql"
                   THEN IF payload' = "hit" THEN {TRUE} ELSE BOOLEAN
                   ELSE {FALSE}
  /\ UNCHANGED <<auditVars, params, runVars, timerVars, resultVars>>

PayloadLost ==
  /\ payload = "sent"
  /\ payload' = "lost"
  /\ UNCHANGED <<auditVars, params, runVars, timerVars, resultVars, dropin>>

(* Rows are lost only to a fault that took effect; what the database does  *)
(* after the process has gone is left out.                                 *)
DatabaseStep ==
  /\ Alive
  /\ \E n \in Numbers : Commit(n) \/ Die(n) \/ (payload = "hit" /\ Lose(n))
  /\ UNCHANGED chaosVars

WriterStep == Alive /\ Writer /\ UNCHANGED chaosVars

-----------------------------------------------------------------------------
(* What main does after the stream without waiting for the database.       *)
AfterStream == StopTimer \/ Release \/ JoinTimer \/ ExitAudit \/ Collect
                 \/ Derive \/ UpdateEvents \/ Restore \/ WriteArtefacts
Main == Refuse \/ Launch \/ Sample \/ StreamEnds \/ StreamRaises
          \/ Select \/ CollectRaises \/ AfterStream
Timer == Wake \/ Check \/ CountStops \/ Inject \/ Reply \/ Update
Target == PayloadRuns \/ PayloadLost

Next == Main \/ Timer \/ Target \/ DatabaseStep \/ WriterStep

Spec == Init /\ [][Next]_vars

(* Main is scheduled, and every call it makes after the stream has a time  *)
(* limit, but for the SELECT of collect().  The generator, the database    *)
(* and the target owe nothing.                                             *)
FairSpec == Spec /\ WF_vars(AfterStream)

-----------------------------------------------------------------------------
ChaosTypeOK ==
  /\ mode \in Modes /\ engine \in Engines
  /\ pc \in {"preflight", "stream", "stop_timer", "release", "join_timer",
             "stop_audit", "join_audit", "collect", "compare", "throughput",
             "availability", "probe", "events", "restore", "artefacts", "done",
             "unwind", "unwind_join", "exited"}
  /\ sample \in BOOLEAN /\ released \in BOOLEAN
  /\ stopTimer \in BOOLEAN /\ timerJoined \in BOOLEAN
  /\ tpc \in {"off", "wait", "check", "count", "ssh", "update", "offset", "done"}
  /\ answer \in {Unset, "yes", "no", "none"} /\ severed \in BOOLEAN
  /\ injected \in [landed : {Unset, "yes", "no", "none"},
                   monotonic : BOOLEAN, offset : BOOLEAN]
  /\ rto \in [throughput : BOOLEAN, availability : BOOLEAN, probe : BOOLEAN]
  /\ events \in {Unset, "yes", "no", "none"}
  /\ restore \in {"none", "skipped", "attempted"} /\ artefacts \in BOOLEAN
  /\ payload \in {"none", "sent", "hit", "failed", "lost"}
  /\ dropin \in BOOLEAN

TypeOK == AuditTypeOK /\ ChaosTypeOK

(* The fault only ever goes out after a real sample of the generator: the  *)
(* release of the waiting timer at the end of a run that never had one     *)
(* does not inject ("inject_at_s counts from the generator's first         *)
(* sample").                                                               *)
FaultAfterSample == payload # "none" => sample

(* What a finished run says of its fault.  An outage is only ever measured *)
(* against a fault that was sent, and the throughput's is never reported   *)
(* without the other two, even of a timer that main no longer waits for    *)
(* and that fills the dict while it is read.  If the timer was joined, all *)
(* three say that there was a fault exactly if the command went out.  A    *)
(* command's own exit status never has a cluster that was hit called one   *)
(* whose "target kept serving": only the status of a broken ssh can.       *)
RecordIsTrue ==
  pc = "done" =>
    /\ rto.throughput => rto.availability /\ rto.probe
    /\ rto.availability \/ rto.probe => payload # "none"
    /\ timerJoined /\ payload # "none" =>
         rto.throughput /\ rto.availability /\ rto.probe
    /\ events = "no" /\ ~severed => payload # "hit"

(* A run that ends regularly tries to restart the target whenever the      *)
(* process was killed, also if ssh ran into its time limit or main did not *)
(* wait for the answer; and only a fault command that failed half way      *)
(* leaves its Restart=no behind without an attempt to remove it.  Neither  *)
(* is promised when ssh reported a broken connection by its exit status.   *)
KilledTargetIsRestored ==
  pc = "done" /\ ~severed =>
    /\ mode = "dead" /\ payload = "hit" => restore = "attempted"
    /\ dropin /\ restore = "skipped" => payload = "failed"

(* "A clean non-zero exit proves the fault did not land", and "a transport *)
(* error is not failure": a fault that the run takes for one that did not  *)
(* land did not hit.  It does not hold: see Reply.                         *)
NotLandedIsUnhit == injected.landed = "no" => payload # "hit"

(* Once the stream has ended, or raised, the run ends, however wedged the  *)
(* writer or the timer's ssh are, provided that the database, once         *)
(* connected to, answers collect()'s SELECT or drops the connection.       *)
RunEnds ==
  (pc = "collect" ~> pc # "collect")
    => (pc \in {"stop_timer", "unwind"} ~> pc \in {"done", "exited"})

(* The run contains the audit writer as specified.                         *)
ContainsAudit == AuditSpec
=============================================================================
