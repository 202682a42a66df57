------------------------------ MODULE RtoProbe ------------------------------
(***************************************************************************)
(* The availability probe of crdblab/core/rto_probe.py: one dispatcher     *)
(* thread, a pool of canary-writer threads, and the thread that starts and *)
(* stops them.  The dispatcher takes a permit of a semaphore that has one  *)
(* per worker before it queues a job; the worker that ran the job gives    *)
(* the permit back after it has recorded the attempt (and, in the agent,   *)
(* written it to standard output).                                         *)
(*                                                                         *)
(* Time is abstract: a tick may come at any moment, a tick may or may not  *)
(* be too close to the previous dispatch, a join may time out while its    *)
(* thread is still running.  A worker's connection, opened on demand and    *)
(* dropped on failure, is part of the attempt: the attempt ends with an    *)
(* answer or with an exception, whichever statement raised it.             *)
(*                                                                         *)
(* An operator introduced by "Slip" is not part of the specification: it   *)
(* is the action below it with a plausible mistake, and a property of this *)
(* module fails when it takes that action's place.                         *)
(***************************************************************************)
EXTENDS Integers, Sequences, FiniteSets

CONSTANTS
  NWorkers,   \* the size of the worker pool (self.workers)
  MaxTicks,   \* bound of the model: ticks the dispatcher takes part in
  Emits       \* TRUE in the agent, whose attempts also go to stdout

ASSUME NWorkersAssumption == NWorkers \in Nat \ {0}
ASSUME MaxTicksAssumption == MaxTicks \in Nat
ASSUME EmitsAssumption == Emits \in BOOLEAN

VARIABLES
  main,        \* the owner's thread: new, running, joining, stopped
  joinIdx,     \* the thread stop() is joining; NWorkers + 1 is the dispatcher
  abandoned,   \* a join timed out
  stop,        \* the _stop event
  error,       \* self.error is set
  idle,        \* permits left in the _idle semaphore
  queue,       \* the job queue, sequence numbers in dispatch order
  seq,         \* the last sequence number handed out
  ticks, spacedOut, saturation,  \* the dispatcher's counters
  dpc,         \* the dispatcher's control point
  wpc, job, outcome,   \* the workers: control point and locals
  attempts,    \* self.attempts
  pipe,        \* standard output of the agent: open or broken
  canary       \* external: the sequence numbers committed in the canary table

mainVars == <<main, joinIdx, abandoned, error>>
dispatchVars == <<seq, ticks, spacedOut, saturation, dpc>>
workerVars == <<wpc, job, outcome>>
vars == <<mainVars, stop, idle, queue, dispatchVars, workerVars, attempts,
          pipe, canary>>

Workers == 1 .. NWorkers
Dispatcher == NWorkers + 1

(* The control points at which a worker has a job and holds its permit.    *)
Busy == {"attempt", "record", "release"}

(* Workers that hold a permit.  A thread killed by its output keeps it.    *)
Holders == {w \in Workers : wpc[w] \in Busy \cup {"dead"}}

(* Workers that can still take a job from the queue.                       *)
Free == {w \in Workers : wpc[w] \in {"loop", "get"}}

(* A ProbeAttempt: its number and whether it was served.                   *)
Attempt == [seq : Nat \ {0}, outcome : {"ok", "failed"}]

Recorded == {attempts[i].seq : i \in DOMAIN attempts}

-----------------------------------------------------------------------------
(* Only what construction leaves behind: no thread exists yet.             *)
Init ==
  /\ main = "new" /\ joinIdx = 1 /\ abandoned = FALSE /\ error = FALSE
  /\ stop = FALSE
  /\ idle = NWorkers
  /\ queue = <<>>
  /\ seq = 0 /\ ticks = 0 /\ spacedOut = 0 /\ saturation = 0
  /\ dpc = "off"
  /\ wpc = [w \in Workers |-> "off"]
  /\ job = [w \in Workers |-> 0]
  /\ outcome = [w \in Workers |-> "none"]
  /\ attempts = <<>>
  /\ pipe = "open"
  /\ canary = {}

-----------------------------------------------------------------------------
(* The owner: __enter__, start, stop, __exit__.                            *)

Start ==
  /\ main = "new"
  /\ main' = "running"
  /\ wpc' = [w \in Workers |-> "loop"]
  /\ dpc' = "tick"
  /\ UNCHANGED <<joinIdx, abandoned, error, stop, idle, queue, seq,
                 ticks, spacedOut, saturation, job, outcome,
                 attempts, pipe, canary>>

(* start() raises: the log cannot be opened, or a thread cannot be created *)
(* after the first n workers.  __enter__ keeps the error and returns.      *)
StartFails ==
  /\ main = "new"
  /\ main' = "running"
  /\ error' = TRUE
  /\ \E n \in 0 .. NWorkers :
       wpc' = [w \in Workers |-> IF w <= n THEN "loop" ELSE "off"]
  /\ UNCHANGED <<joinIdx, abandoned, stop, idle, queue, dispatchVars,
                 job, outcome, attempts, pipe, canary>>

RequestStop ==
  /\ main = "running"
  /\ main' = "joining"
  /\ stop' = TRUE
  /\ UNCHANGED <<joinIdx, abandoned, error, idle, queue,
                 dispatchVars, workerVars, attempts, pipe, canary>>

Ended(t) ==
  IF t = Dispatcher THEN dpc \in {"off", "done"}
                    ELSE wpc[t] \in {"off", "done", "dead"}

(* Slip: stop() moves on without waiting, and without noting it.           *)
JoinUnchecked ==
  /\ main = "joining" /\ joinIdx <= Dispatcher
  /\ joinIdx' = joinIdx + 1
  /\ UNCHANGED <<main, abandoned, error, stop, idle, queue,
                 dispatchVars, workerVars, attempts, pipe, canary>>

(* thread.join returned because the thread has ended.                      *)
Join ==
  /\ main = "joining" /\ joinIdx <= Dispatcher
  /\ Ended(joinIdx)
  /\ joinIdx' = joinIdx + 1
  /\ UNCHANGED <<main, abandoned, error, stop, idle, queue,
                 dispatchVars, workerVars, attempts, pipe, canary>>

(* Slip: a join that timed out is tried again.                             *)
JoinRetries ==
  /\ main = "joining" /\ joinIdx <= Dispatcher
  /\ ~Ended(joinIdx)
  /\ UNCHANGED vars

(* thread.join(timeout=15) gave up; stop() goes on to the next thread.     *)
JoinTimesOut ==
  /\ main = "joining" /\ joinIdx <= Dispatcher
  /\ ~Ended(joinIdx)
  /\ abandoned' = TRUE
  /\ joinIdx' = joinIdx + 1
  /\ UNCHANGED <<main, error, stop, idle, queue, dispatchVars,
                 workerVars, attempts, pipe, canary>>

Summarise ==
  /\ main = "joining" /\ joinIdx > Dispatcher
  /\ main' = "stopped"
  /\ UNCHANGED <<joinIdx, abandoned, error, stop, idle, queue, dispatchVars,
                 workerVars, attempts, pipe, canary>>

-----------------------------------------------------------------------------
(* The dispatcher.                                                         *)

(* A deadline was reached while _stop was clear; the tick is too close to  *)
(* the last dispatch, or it goes on to ask for a permit.                   *)
Tick ==
  /\ dpc = "tick" /\ ~stop /\ ticks < MaxTicks
  /\ ticks' = ticks + 1
  /\ \/ spacedOut' = spacedOut + 1 /\ UNCHANGED dpc
     \/ dpc' = "acquire" /\ UNCHANGED spacedOut
  /\ UNCHANGED <<mainVars, stop, idle, queue, seq, saturation, workerVars,
                 attempts, pipe, canary>>

(* Slip: the result of acquire is not tested.                              *)
AcquireIgnoresPool ==
  /\ dpc = "acquire"
  /\ idle' = idle - 1
  /\ dpc' = "put"
  /\ UNCHANGED <<mainVars, stop, queue, seq, ticks, spacedOut, saturation,
                 workerVars, attempts, pipe, canary>>

(* Slip: a job waiting in the queue is taken for a saturated pool.         *)
AcquireAsksQueue ==
  /\ dpc = "acquire"
  /\ IF idle > 0 /\ queue = <<>>
       THEN idle' = idle - 1 /\ dpc' = "put" /\ UNCHANGED saturation
       ELSE saturation' = saturation + 1 /\ dpc' = "tick" /\ UNCHANGED idle
  /\ UNCHANGED <<mainVars, stop, queue, seq, ticks, spacedOut, workerVars,
                 attempts, pipe, canary>>

(* _idle.acquire(blocking=False)                                           *)
Acquire ==
  /\ dpc = "acquire"
  /\ IF idle > 0 THEN /\ idle' = idle - 1
                      /\ dpc' = "put"
                      /\ UNCHANGED saturation
                 ELSE /\ saturation' = saturation + 1
                      /\ dpc' = "tick"
                      /\ UNCHANGED idle
  /\ UNCHANGED <<mainVars, stop, queue, seq, ticks, spacedOut, workerVars,
                 attempts, pipe, canary>>

(* put_nowait((self._next_seq(), now)); a full queue gives the permit back *)
(* and drops the number that was just drawn.                               *)
Put ==
  /\ dpc = "put"
  /\ dpc' = "tick"
  /\ seq' = seq + 1
  /\ IF Len(queue) < NWorkers
       THEN /\ queue' = Append(queue, seq + 1)
            /\ UNCHANGED <<idle, saturation>>
       ELSE /\ saturation' = saturation + 1
            /\ idle' = idle + 1
            /\ UNCHANGED queue
  /\ UNCHANGED <<mainVars, stop, ticks, spacedOut, workerVars, attempts,
                 pipe, canary>>

DispatcherStops ==
  /\ dpc = "tick" /\ stop
  /\ dpc' = "done"
  /\ UNCHANGED <<mainVars, stop, idle, queue, seq, ticks, spacedOut, saturation,
                 workerVars, attempts, pipe, canary>>

-----------------------------------------------------------------------------
(* A worker.                                                               *)

(* The while test: once _stop is set, close the connection and end; else   *)
(* wait for a job.                                                         *)
Loop(w) ==
  /\ wpc[w] = "loop"
  /\ wpc' = [wpc EXCEPT ![w] = IF stop THEN "done" ELSE "get"]
  /\ UNCHANGED <<mainVars, stop, idle, queue, dispatchVars, job, outcome,
                 attempts, pipe, canary>>

(* queue.get returned a job; _stop may have been set since the test.       *)
Take(w) ==
  /\ wpc[w] = "get" /\ queue # <<>>
  /\ job' = [job EXCEPT ![w] = Head(queue)]
  /\ queue' = Tail(queue)
  /\ wpc' = [wpc EXCEPT ![w] = "attempt"]
  /\ UNCHANGED <<mainVars, stop, idle, dispatchVars, outcome,
                 attempts, pipe, canary>>

(* queue.Empty after 50 ms.                                                *)
Empty(w) ==
  /\ wpc[w] = "get" /\ queue = <<>>
  /\ wpc' = [wpc EXCEPT ![w] = "loop"]
  /\ UNCHANGED <<mainVars, stop, idle, queue, dispatchVars, job, outcome,
                 attempts, pipe, canary>>

(* The attempt was answered, on a connection opened for it if there was    *)
(* none; the table's primary key admits each number once.                  *)
Served(w) ==
  /\ wpc[w] = "attempt" /\ job[w] \notin canary
  /\ canary' = canary \cup {job[w]}
  /\ outcome' = [outcome EXCEPT ![w] = "ok"]
  /\ wpc' = [wpc EXCEPT ![w] = "record"]
  /\ UNCHANGED <<mainVars, stop, idle, queue, dispatchVars, job, attempts, pipe>>

(* Slip: the outcome is not reset by the exception.                        *)
FailedStaysOk(w) ==
  /\ wpc[w] = "attempt"
  /\ outcome' = [outcome EXCEPT ![w] = "ok"]
  /\ wpc' = [wpc EXCEPT ![w] = "record"]
  /\ UNCHANGED <<mainVars, stop, idle, queue, dispatchVars, job, attempts, pipe,
                 canary>>

(* Slip: the exception escapes _worker before the attempt is recorded.     *)
FailedEscapes(w) ==
  /\ wpc[w] = "attempt"
  /\ wpc' = [wpc EXCEPT ![w] = "dead"]
  /\ UNCHANGED <<mainVars, stop, idle, queue, dispatchVars, job, outcome,
                 attempts, pipe, canary>>

(* Connecting or the INSERT raised: the failure is an observation, the     *)
(* connection is closed and dropped.  What the database does with the      *)
(* statement, now or later, is CommitsLate.                                *)
Failed(w) ==
  /\ wpc[w] = "attempt"
  /\ outcome' = [outcome EXCEPT ![w] = "failed"]
  /\ wpc' = [wpc EXCEPT ![w] = "record"]
  /\ UNCHANGED <<mainVars, stop, idle, queue, dispatchVars, job, attempts, pipe,
                 canary>>

Keep(w) ==
  attempts' = Append(attempts, [seq |-> job[w], outcome |-> outcome[w]])

(* _record: the attempt is kept and, in the agent, written to stdout.      *)
Record(w) ==
  /\ wpc[w] = "record" /\ pipe = "open"
  /\ Keep(w)
  /\ wpc' = [wpc EXCEPT ![w] = "release"]
  /\ UNCHANGED <<mainVars, stop, idle, queue, dispatchVars, job, outcome, pipe,
                 canary>>

(* The write raises BrokenPipeError after the attempt was kept.  _record   *)
(* is called outside the try of _worker: the thread ends, with its permit. *)
RecordRaises(w) ==
  /\ wpc[w] = "record" /\ pipe = "broken"
  /\ Keep(w)
  /\ wpc' = [wpc EXCEPT ![w] = "dead"]
  /\ UNCHANGED <<mainVars, stop, idle, queue, dispatchVars, job, outcome, pipe,
                 canary>>

(* Slip: the permit is not given back.                                     *)
ReleaseForgets(w) ==
  /\ wpc[w] = "release"
  /\ job' = [job EXCEPT ![w] = 0]
  /\ outcome' = [outcome EXCEPT ![w] = "none"]
  /\ wpc' = [wpc EXCEPT ![w] = "loop"]
  /\ UNCHANGED <<mainVars, stop, idle, queue, dispatchVars, attempts,
                 pipe, canary>>

(* task_done and _idle.release                                             *)
Release(w) ==
  /\ wpc[w] = "release"
  /\ idle' = idle + 1
  /\ job' = [job EXCEPT ![w] = 0]
  /\ outcome' = [outcome EXCEPT ![w] = "none"]
  /\ wpc' = [wpc EXCEPT ![w] = "loop"]
  /\ UNCHANGED <<mainVars, stop, queue, dispatchVars, attempts,
                 pipe, canary>>

(* Numbers whose attempt ended in an exception: their statement may have   *)
(* reached the database all the same.                                      *)
Unanswered ==
  {job[w] : w \in {v \in Workers : wpc[v] = "record" /\ outcome[v] = "failed"}}
    \cup {attempts[i].seq :
            i \in {j \in DOMAIN attempts : attempts[j].outcome = "failed"}}

(* External: the database commits a statement whose connection broke, at   *)
(* any time after the exception, also when the probe has stopped.          *)
CommitsLate ==
  /\ \E n \in Unanswered \ canary : canary' = canary \cup {n}
  /\ UNCHANGED <<mainVars, stop, idle, queue, dispatchVars, workerVars,
                 attempts, pipe>>

(* External: the ssh channel behind the agent's standard output goes away. *)
PipeBreaks ==
  /\ Emits /\ pipe = "open" /\ main # "new"
  /\ pipe' = "broken"
  /\ UNCHANGED <<mainVars, stop, idle, queue, dispatchVars, workerVars,
                 attempts, canary>>

-----------------------------------------------------------------------------
Owner == Start \/ StartFails \/ RequestStop \/ Join \/ JoinTimesOut \/ Summarise

Dispatch == Tick \/ Acquire \/ Put \/ DispatcherStops

(* The steps a worker takes without waiting for the database.              *)
Local(w) == \/ Loop(w) \/ Take(w) \/ Empty(w) \/ Record(w)
            \/ RecordRaises(w) \/ Release(w)

(* The steps that wait for the database's answer.                          *)
Statement(w) == Served(w) \/ Failed(w)

Next ==
  \/ Owner
  \/ Dispatch
  \/ \E w \in Workers : Local(w) \/ Statement(w)
  \/ CommitsLate
  \/ PipeBreaks

Spec == Init /\ [][Next]_vars

(* The threads are scheduled; the database need never answer (a            *)
(* black-holed socket), and nobody need ever call stop().                  *)
Fairness ==
  /\ WF_vars(Join \/ JoinTimesOut \/ Summarise)
  /\ WF_vars(Dispatch)
  /\ \A w \in Workers : WF_vars(Local(w))

FairSpec == Spec /\ Fairness

-----------------------------------------------------------------------------
TypeOK ==
  /\ main \in {"new", "running", "joining", "stopped"}
  /\ joinIdx \in 1 .. Dispatcher + 1
  /\ abandoned \in BOOLEAN
  /\ stop \in BOOLEAN /\ error \in BOOLEAN
  /\ idle \in Nat
  /\ queue \in Seq(Nat \ {0})
  /\ seq \in Nat /\ ticks \in Nat /\ spacedOut \in Nat /\ saturation \in Nat
  /\ dpc \in {"off", "tick", "acquire", "put", "done"}
  /\ wpc \in [Workers -> Busy \cup {"off", "loop", "get", "done", "dead"}]
  /\ job \in [Workers -> Nat]
  /\ outcome \in [Workers -> {"none", "ok", "failed"}]
  /\ attempts \in Seq(Attempt)
  /\ pipe \in {"open", "broken"}
  /\ canary \subseteq Nat \ {0}

(* Every permit is in the semaphore, in the dispatcher's hand, with a      *)
(* queued job or with a worker: no interleaving of dispatch, failure and   *)
(* release creates or loses one.                                           *)
PermitsConserved ==
  idle + Len(queue) + Cardinality(Holders) + (IF dpc = "put" THEN 1 ELSE 0)
    = NWorkers

(* "the semaphore bounds this": the queue.Full branch of _dispatcher is    *)
(* unreachable, so no drawn number is ever silently dropped.               *)
QueueNeverFull == dpc = "put" => Len(queue) < NWorkers

(* "a job is only dispatched (and timestamped) when a worker is actually   *)
(* free": until stop, each queued job has an unoccupied worker of its own. *)
JobsHaveWorkers == ~stop /\ dpc # "off" => Len(queue) <= Cardinality(Free)

(* "Every attempt uses a fresh sequence number and is never retried": the  *)
(* recorded attempts are distinct, and a worker about to write never meets *)
(* the primary key of an earlier write of its number, committed early,     *)
(* late or not at all.                                                     *)
FreshSequence ==
  /\ \A i, j \in DOMAIN attempts :
       attempts[i].seq = attempts[j].seq => i = j
  /\ \A w \in Workers : wpc[w] = "attempt" =>
       job[w] \notin canary \cup Recorded

(* An attempt recorded as served is a row of the canary table, whatever    *)
(* was reconnected, timed out or abandoned in between.                     *)
ServedIsCommitted ==
  \A i \in DOMAIN attempts :
    attempts[i].outcome = "ok" => attempts[i].seq \in canary

(* dispatch_saturation, "Ticks that found no free worker", only counts     *)
(* ticks at which every worker is spoken for.                              *)
SaturationIsHonest ==
  [][saturation' > saturation =>
       Len(queue) + Cardinality(Holders) = NWorkers]_vars

(* When every thread was joined in time, the summary of stop() is final:   *)
(* no attempt is recorded after it.  The canary table may still grow, by a *)
(* statement the server had when its connection broke, but only by rows    *)
(* the series has as failed: no number of it turns from lost to served,    *)
(* and no row appears that it does not know.                               *)
CleanStopIsFinal ==
  [][main = "stopped" /\ ~abandoned =>
       /\ UNCHANGED attempts
       /\ \A n \in canary' \ canary :
            \E i \in DOMAIN attempts : /\ attempts[i].seq = n
                                       /\ attempts[i].outcome = "failed"]_vars

(* stop() returns even when the database never answers again.              *)
StopReturns == stop ~> main = "stopped"

(* If no statement hangs for ever, every number drawn is recorded unless   *)
(* the probe is stopped first, also after workers died of a broken pipe.   *)
DispatchedIsRecorded ==
  (\A w \in Workers : []<>(wpc[w] # "attempt"))
    => \A n \in 1 .. MaxTicks : (seq >= n) ~> (n \in Recorded \/ stop)

(* The readers of the series see numbers drawn against numbers recorded;   *)
(* CanaryLedger says what they may rely on: no number settles twice and at *)
(* most one per worker is outstanding (gaps in seq_id are bounded).        *)
Ledger == INSTANCE CanaryLedger
            WITH Window <- NWorkers, issued <- seq, settled <- Recorded

ImplementsLedger == Ledger!Spec
=============================================================================
