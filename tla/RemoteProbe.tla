---------------------------- MODULE RemoteProbe ----------------------------
(***************************************************************************)
(* The harness's side of the availability probe: RemoteRtoProbe of         *)
(* crdblab/core/remote_probe.py.  It runs the agent (_agent_main of        *)
(* crdblab/core/rto_probe.py) on the client node through a local ssh       *)
(* process; a reader thread turns the lines of its output back into        *)
(* attempts, and stop() ends it all in bounded time.                       *)
(*                                                                         *)
(* A line passes two queues: the wire, from the agent to the ssh process,  *)
(* and the pipe, from the ssh process to the reader.  What is on the wire  *)
(* is lost with the ssh process; what is in the pipe is not.  Ending the   *)
(* local ssh process sends no signal to the agent, which runs until its    *)
(* own deadline.  The agent's inside is module RtoProbe; here it emits     *)
(* numbered attempts in the order it completes them.                       *)
(***************************************************************************)
EXTENDS Integers, Sequences, SequencesExt

CONSTANT MaxAttempts   \* bound of the model: attempts the agent emits

ASSUME MaxAttemptsAssumption == MaxAttempts \in Nat

VARIABLES
  main,       \* the owner: new, running, waiting, joining, closing, stopped
  abandoned,  \* the join of the reader timed out
  client,     \* the local ssh process: none, running, signalled, dead
  agent,      \* external to the harness: none, boot, probing, stopping, done, dead
  emitted,    \* the attempts the agent has written out
  wire, pipe, \* lines under way
  network,    \* external: up or cut
  clock,      \* external: is the agent's zero ahead of the run's, or behind
  served,     \* external: the attempts whose write was served
  early,      \* those placed before the run's zero
  reader,     \* the reader thread: off, reading, ended, crashed
  skew,       \* epoch_skew_s: unknown or known
  attempts, summary, error,   \* what the run takes from the probe
  log         \* _log_handle: open, closed, none

ownerVars == <<main, abandoned>>
observedVars == <<clock, served, early>>
agentVars == <<agent, emitted, observedVars>>
resultVars == <<skew, attempts, summary, error>>
vars == <<ownerVars, client, agentVars, wire, pipe, network, reader,
          resultVars, log>>

NoError == "none"

(* The lines of the protocol; "noise" is what the shell may print.         *)
Line(kind) == [kind |-> kind, n |-> 0]
AttemptLine(n) == [kind |-> "attempt", n |-> n]
Lines == {Line(kind) : kind \in {"start", "garbled", "noise", "stop"}}
           \cup {AttemptLine(n) : n \in 1 .. MaxAttempts}

Init ==
  /\ main = "new" /\ abandoned = FALSE
  /\ client = "none" /\ agent = "none" /\ emitted = <<>>
  /\ wire = <<>> /\ pipe = <<>> /\ network = "up"
  /\ clock \in {"ahead", "behind"} /\ served = {} /\ early = {}
  /\ reader = "off" /\ skew = "unknown" /\ attempts = <<>>
  /\ summary = FALSE /\ error = NoError
  /\ log = "none"

-----------------------------------------------------------------------------
(* The owner: __enter__ and start().                                       *)

Start ==
  /\ main = "new"
  /\ main' = "running"
  /\ log' = "open" /\ client' = "running" /\ agent' = "boot" /\ reader' = "reading"
  /\ UNCHANGED <<abandoned, emitted, observedVars, wire, pipe, network, resultVars>>

(* install_agent raises, or the log or the ssh process cannot be opened;   *)
(* __enter__ keeps the error.                                              *)
StartFails ==
  /\ main = "new"
  /\ main' = "running"
  /\ error' = "start"
  /\ log' \in {"none", "open"}
  /\ UNCHANGED <<abandoned, client, agentVars, wire, pipe, network,
                 reader, skew, attempts, summary>>

(* stop(): a process that still runs is sent SIGTERM.                      *)
Stop ==
  /\ main = "running"
  /\ IF client = "running" THEN main' = "waiting" /\ client' = "signalled"
                           ELSE main' = "joining" /\ UNCHANGED client
  /\ UNCHANGED <<abandoned, agentVars, wire, pipe, network, reader,
                 resultVars, log>>

WaitReturns ==
  /\ main = "waiting" /\ client = "dead"
  /\ main' = "joining"
  /\ UNCHANGED <<abandoned, client, agentVars, wire, pipe, network,
                 reader, resultVars, log>>

(* TimeoutExpired: kill is the fallback.                                   *)
Kill ==
  /\ main = "waiting" /\ client # "dead"
  /\ main' = "joining"
  /\ client' = "dead" /\ wire' = <<>>
  /\ UNCHANGED <<abandoned, agentVars, pipe, network, reader, resultVars, log>>

(* Slip: the reader is not waited for.                                     *)
SkipJoin ==
  /\ main = "joining"
  /\ main' = "closing"
  /\ UNCHANGED <<abandoned, client, agentVars, wire, pipe, network,
                 reader, resultVars, log>>

(* The join of the reader, which may time out.                             *)
JoinReader ==
  /\ main = "joining"
  /\ main' = "closing"
  /\ abandoned' = (reader = "reading")
  /\ UNCHANGED <<client, agentVars, wire, pipe, network, reader,
                 resultVars, log>>

CloseLog ==
  /\ main = "closing" /\ log # "none"
  /\ log' = IF log = "open" THEN "closed" ELSE "none"
  /\ UNCHANGED <<ownerVars, client, agentVars, wire, pipe, network, reader,
                 resultVars>>

(* Slip: an empty series is only an error if the agent never started.      *)
FinishQuietly ==
  /\ main = "closing" /\ log = "none"
  /\ main' = "stopped"
  /\ error' = IF error = NoError /\ skew = "unknown" THEN "empty" ELSE error
  /\ UNCHANGED <<abandoned, client, agentVars, wire, pipe, network,
                 reader, skew, attempts, summary, log>>

(* A probe without a single observation is an error of the probe.          *)
Finish ==
  /\ main = "closing" /\ log = "none"
  /\ main' = "stopped"
  /\ error' = IF error = NoError /\ attempts = <<>> THEN "empty" ELSE error
  /\ UNCHANGED <<abandoned, client, agentVars, wire, pipe, network,
                 reader, skew, attempts, summary, log>>

-----------------------------------------------------------------------------
(* The reader thread: _read_stdout.                                        *)

(* What one line changes.  An epoch that does not parse is an error and    *)
(* leaves the skew unknown; attempts of unknown skew are dropped.          *)
Handle(line) ==
  /\ skew' = IF line.kind = "start" THEN "known" ELSE skew
  /\ attempts' = IF line.kind = "attempt" /\ skew = "known"
                   THEN Append(attempts, line.n) ELSE attempts
  /\ summary' = (summary \/ line.kind = "stop")
  /\ error' \in CASE line.kind = "garbled" -> {"epoch"}
                  [] line.kind = "stop" -> {error, "agent"}
                  [] OTHER -> {error}

(* A line is logged, then handled.  A log that was closed under the reader *)
(* ends the thread with an exception.                                      *)
Read ==
  /\ reader = "reading" /\ pipe # <<>>
  /\ pipe' = Tail(pipe)
  /\ IF log = "closed" THEN reader' = "crashed" /\ UNCHANGED resultVars
                       ELSE Handle(Head(pipe)) /\ UNCHANGED reader
  /\ UNCHANGED <<ownerVars, client, agentVars, wire, network, log>>

EndOfFile ==
  /\ reader = "reading" /\ pipe = <<>> /\ client = "dead"
  /\ reader' = "ended"
  /\ UNCHANGED <<ownerVars, client, agentVars, wire, pipe, network, resultVars,
                 log>>

-----------------------------------------------------------------------------
(* The agent: _agent_main.                                                 *)

(* A write to standard output: it reaches the wire while there is a client *)
(* to read it, later it is buffered for nobody or raises.                  *)
Write(line) ==
  wire' = IF client \in {"running", "signalled"} /\ network = "up"
            THEN Append(wire, line) ELSE wire

(* "Announce the epoch first so the reader can rebase every later offset." *)
Announce ==
  /\ agent = "boot"
  /\ agent' = "probing"
  /\ \E kind \in {"start", "garbled"} : Write(Line(kind))
  /\ UNCHANGED <<ownerVars, client, emitted, observedVars, pipe, network, reader,
                 resultVars, log>>

(* What the line says of attempt n.  Its offsets are of the agent's clock; *)
(* the skew places them before the run's zero if they are small and the    *)
(* agent's zero is behind it.                                              *)
Observe(n) ==
  /\ served' \in {served, served \cup {n}}
  /\ early' \in {early} \cup IF clock = "behind" THEN {early \cup {n}} ELSE {}
  /\ UNCHANGED clock

(* Slip: the line is dropped when another worker is writing one.           *)
EmitMayDrop ==
  /\ agent \in {"probing", "stopping"} /\ Len(emitted) < MaxAttempts
  /\ emitted' = Append(emitted, Len(emitted) + 1) /\ Observe(Len(emitted) + 1)
  /\ Write(AttemptLine(Len(emitted) + 1)) \/ UNCHANGED wire
  /\ UNCHANGED <<ownerVars, client, agent, pipe, network, reader, resultVars, log>>

(* An attempt is recorded, also while the probe is being stopped.          *)
Emit ==
  /\ agent \in {"probing", "stopping"} /\ Len(emitted) < MaxAttempts
  /\ emitted' = Append(emitted, Len(emitted) + 1) /\ Observe(Len(emitted) + 1)
  /\ Write(AttemptLine(Len(emitted) + 1))
  /\ UNCHANGED <<ownerVars, client, agent, pipe, network, reader, resultVars, log>>

(* Slip: the agent only looks at its deadline while it is being read.      *)
DeadlineIfRead ==
  /\ agent = "probing" /\ client = "running"
  /\ agent' = "stopping"
  /\ UNCHANGED <<ownerVars, client, emitted, observedVars, wire, pipe, network,
                 reader, resultVars, log>>

(* duration_s is over, or an error kept the probe from starting.           *)
Deadline ==
  /\ agent = "probing"
  /\ agent' = "stopping"
  /\ UNCHANGED <<ownerVars, client, emitted, observedVars, wire, pipe, network,
                 reader, resultVars, log>>

(* The stop line; writing it, or any line of the main thread, may raise    *)
(* once nobody reads.                                                      *)
StopLine ==
  /\ agent = "stopping"
  /\ agent' = "done"
  /\ Write(Line("stop"))
  /\ UNCHANGED <<ownerVars, client, emitted, observedVars, pipe, network, reader,
                 resultVars, log>>

AgentDies ==
  /\ agent \in {"boot", "stopping"}
  /\ client = "dead" \/ network = "cut"
  /\ agent' = "dead"
  /\ UNCHANGED <<ownerVars, client, emitted, observedVars, wire, pipe, network,
                 reader, resultVars, log>>

-----------------------------------------------------------------------------
(* External: the ssh process and the network.                              *)

Deliver ==
  /\ client \in {"running", "signalled"} /\ wire # <<>>
  /\ pipe' = Append(pipe, Head(wire))
  /\ wire' = Tail(wire)
  /\ UNCHANGED <<ownerVars, client, agentVars, network, reader, resultVars, log>>

Noise ==
  /\ agent = "boot" /\ client = "running" /\ pipe = <<>>
  /\ pipe' = <<Line("noise")>>
  /\ UNCHANGED <<ownerVars, client, agentVars, wire, network, reader, resultVars,
                 log>>

(* The agent's exit ends the session once its output is through; a signal  *)
(* or a dead network (ServerAliveInterval) ends it at once.                *)
ClientEnds ==
  /\ client \in {"running", "signalled"}
  /\ \/ agent \in {"done", "dead"} /\ wire = <<>>
     \/ client = "signalled"
     \/ network = "cut"
  /\ client' = "dead" /\ wire' = <<>>
  /\ UNCHANGED <<ownerVars, agentVars, pipe, network, reader, resultVars, log>>

NetworkCut ==
  /\ network = "up" /\ client # "none"
  /\ network' = "cut"
  /\ wire' = <<>>
  /\ UNCHANGED <<ownerVars, client, agentVars, pipe, reader, resultVars, log>>

-----------------------------------------------------------------------------
(* crdblab validate on the probe's log, validate_probe: there are rows;    *)
(* check_probe_ordering, of which the order of an attempt's two offsets is *)
(* left out, as both are of one clock; check_probe_outcomes, where the     *)
(* agent writes known ones only; and check_probe_sequence.                 *)
ProbeValidates ==
  /\ attempts # <<>>
  /\ \A i \in DOMAIN attempts : attempts[i] \notin early
  /\ \E i \in DOMAIN attempts : attempts[i] \in served
  /\ \A i, j \in DOMAIN attempts : attempts[i] = attempts[j] => i = j

Stopping == WaitReturns \/ Kill \/ JoinReader \/ CloseLog \/ Finish
Owner == Start \/ StartFails \/ Stop \/ Stopping
Reader == Read \/ EndOfFile
Agent == Announce \/ Emit \/ Deadline \/ StopLine \/ AgentDies
Environment == Deliver \/ Noise \/ ClientEnds \/ NetworkCut

Next == Owner \/ Reader \/ Agent \/ Environment

Spec == Init /\ [][Next]_vars

(* The waits of stop() are bounded, and the agent's clock runs.            *)
FairSpec == /\ Spec
            /\ WF_vars(Stopping)
            /\ WF_vars(Announce \/ Deadline \/ StopLine \/ AgentDies)

-----------------------------------------------------------------------------
FlagsOK == abandoned \in BOOLEAN /\ summary \in BOOLEAN

StatesOK ==
  /\ main \in {"new", "running", "waiting", "joining", "closing", "stopped"}
  /\ client \in {"none", "running", "signalled", "dead"}
  /\ agent \in {"none", "boot", "probing", "stopping", "done", "dead"}
  /\ network \in {"up", "cut"}
  /\ reader \in {"off", "reading", "ended", "crashed"}
  /\ skew \in {"unknown", "known"}
  /\ error \in {NoError, "start", "epoch", "agent", "empty"}
  /\ log \in {"open", "closed", "none"}

QueuesOK ==
  /\ emitted \in Seq(1 .. MaxAttempts) /\ attempts \in Seq(1 .. MaxAttempts)
  /\ wire \in Seq(Lines) /\ pipe \in Seq(Lines)

ObservedOK ==
  /\ clock \in {"ahead", "behind"} /\ (clock = "ahead" => early = {})
  /\ served \subseteq 1 .. MaxAttempts /\ early \subseteq 1 .. MaxAttempts

TypeOK == FlagsOK /\ StatesOK /\ QueuesOK /\ ObservedOK

(* The series of the harness is the agent's without its end: nothing is    *)
(* lost from its middle, repeated or reordered, wherever the connection    *)
(* breaks, unless the agent's epoch was unreadable and all are dropped;    *)
(* and if its stop line arrived, nothing is lost from the end either.      *)
SeriesIsPrefix ==
  /\ IsPrefix(attempts, emitted)
  /\ summary /\ skew = "known" => attempts = emitted

(* A probe that stopped without an error left a log that validates, if the *)
(* database served the agent's first write and the clocks place its zero   *)
(* after the run's: wherever the series was cut off, that write is in it.  *)
(* And one that is said to have observed nothing left an empty log.        *)
QuietMeansValid ==
  main = "stopped" /\ ~abandoned =>
    /\ error = NoError /\ 1 \in served /\ clock = "ahead" => ProbeValidates
    /\ error = "empty" => attempts = <<>>

(* Once stop() has joined the reader the series is final: the CSV, the     *)
(* summary and the RTO, derived one after the other, see the same.         *)
FinalOnceStopped ==
  [][main = "stopped" /\ ~abandoned => UNCHANGED resultVars]_vars

(* "An abandoned agent cannot outlive" its duration: the agent ends by     *)
(* itself, read or not.                                                    *)
AgentEnds == agent = "boot" ~> agent \in {"done", "dead"}
=============================================================================
