# A verification of project-hydra

Project-hydra measures how two replicated databases (CockroachDB, PostgreSQL
with Patroni) behave under load and under faults. Its numbers are only worth
something if its instruments are right: a probe that drops an observation, a
fault that is recorded but never happened, an outage hidden by the threshold
that should detect it, or a sweep of updates that match no row would all look
like results. This directory holds TLA+ models of those instruments, of what
derives figures from them, and of the script and the pipeline around them;
configurations that check them with TLC; and proofs that TLAPS checks.

## 1. The system

| Part | State it keeps | Operations | Modelled by |
|---|---|---|---|
| availability probe, `core/rto_probe.py` `RtoProbe` | a job queue, a semaphore with one permit per worker, the attempts, counters, `_stop`, `error` | `start`, `stop`, the dispatcher thread, the worker threads | `RtoProbe`, `CanaryLedger` |
| outage measurement, `measure_rto`, `availability_rto`, `analysis/resilience.py` `availability` | none: functions of a finished series | resolution, noise floor, largest gap, coverage, comparison of tails, the claim | `RtoMeasure` |
| throughput recovery, `p4_chaos.py` `find_recovery`, `analysis/resilience.py`, `analysis/loader.py` | the live series; then `metrics.csv` and `events.json` | recovery, alignment, degradation, settled state, latency shift | `Recovery` |
| remote probe, `core/remote_probe.py`, `_agent_main` | an ssh process, a reader thread, the attempts, the epoch skew, a log | `start`, `stop`, one handler per kind of line | `RemoteProbe` |
| RPO audit, `phases/p4_chaos.py` `AuditWriter` | three sets of sequence numbers, the attempts | the writer's loop, `__exit__`, `collect` | `AuditWriter` |
| chaos run, `phases/p4_chaos.py` `run` | two events, the dict `injected`, `events`, the artefacts | main thread, timer thread, `inject_fault`, `restore_target` | `ChaosRun` |
| pre-flight checks, `core/preflight.py` | a report; the counters a row-match probe reads | placement and switchover; row match, floor | `Placement`; `Sweep` |
| benchmark sweep, `phases/bench.py`, `core/workload.py`, `analysis/validation.py`; network phase | the parser's header, the samples of a tier, `metrics.csv`, the newest matrix | tiers, ticks, rows, evidence, checks | `Sweep` |
| experiment script, `run-experiment.sh`, with `cli.py` and `core/recorder.py` | shell variables; run directories that outlive a session | health wait to figures | `Experiment` |
| pipeline, `pipeline/run_all.py`, `pipeline/tailscale.py` | `deployed`, `abort`, `cleaning`, `result`; outside: VMs and tailnet devices | the steps of each engine, abort, `fail`, `cleanup`, `purge_devices`; `--cleanup` on its own | `Pipeline` |
| the rest | see section 6 | | |

How they interact: the pipeline runs the script once per engine; the script
runs the harness (`crdblab`), one command per phase, and looks at its exit code
and at the run directories it leaves; a chaos run of the harness owns one audit
writer, one remote probe, one sampler and one timer thread. Threads share
memory (`injected`, the events, the attempts) without locks around a whole
update; the agent on the client node is tied to the harness by one ssh process
whose output is a stream of lines. Everything that waits has a time limit, and
a wait that timed out leaves a thread or a process behind that goes on.

That last fact is what makes the code hard: nearly every hazard in
`PROJECT.json` is a late step of something that was given up on, an answer that
says less than it seems to (an ssh call that failed, a node that is listed, a
counter that did not grow), or a value read in several places while another
thread, or the cluster, changes it.

## 2. The modules

Names follow the source; `PROJECT.json` maps each definition to its lines. In
every module an operator whose comment starts with *Slip* is not part of the
specification: it is the definition below it with a plausible mistake, kept so
that each property can be seen to fail. Actions and variables marked *external*
belong to something outside the repository, as its code meets it.

**RtoProbe.** One action per step between two points where another thread can
act: `Tick`, `Acquire`, `Put`, `DispatcherStops` are `_dispatcher`; `Loop`,
`Take`, `Empty`, `Served`, `Failed`, `Record`, `RecordRaises`, `Release` are
`_worker` and `_record`; `Start`, `StartFails`, `RequestStop`, `Join`,
`JoinTimesOut`, `Summarise` are the context manager. `idle` is the value of the
semaphore, `queue` the job queue, `canary` (external) the rows committed in the
database. A failed attempt may be committed all the same, at any time after the
exception (`CommitsLate`), also when the probe has stopped. With `Emits`
the attempts also go to the agent's standard output, which may break; the
exception is raised outside the `try` of `_worker`, so the thread dies with its
permit. Time is a choice: a tick may or may not be too close to the last
dispatch, a join of a thread that still runs may time out.

**CanaryLedger** is what the readers of a series may rely on: numbers are issued
one by one, at most `Window` are unsettled, none is settled twice.
`RtoProbe` implements it with `issued <- seq`, `settled <- Recorded` and a
window of one number per worker.

**RtoMeasure** has the functions of the two instruments over a set of attempts
(`Healthy`, `Resolution`, `NoiseFloor`, `Qualifying`, `Attributable`,
`MeasureRto`; `AuditFloor`, `AvailabilityRto`) and the sentence the analysis
makes of the second (`Claim`), and beside them a database that is up or down
and an instrument that at each unit of time completes an attempt or does not.
`ObservationEnds` are the points up to which the harness (the writer's end) and
the analysis (the generator's last tick) take the series to be observed. The
state machine only produces series; the properties compare the verdict with
what really happened.

**Recovery** produces a series of intervals with two clocks: the harness's, on
which a line may arrive late, and the generator's, which starts an unknown time
after it. `Record` is the live derivation (`RtoOf`, with `find_recovery`'s
hold); the operators after it repeat it from the files, with the fault known
exactly (schema 2.1, `measured`) or within an interval (schema 2.0, `bounded`):
`Axis`, `Offsets`, `FaultPoints`, `SinceFault`, `Rtos`, `Settled`,
`FloorBaseline`, `Classification`, `WriteBaseline`, `LatencyClass`. A part of a series is the set
of its positions, and a mean is a sum over such a set beside its size; fractions
are compared by cross-multiplication, the standard deviation by its square. The
fault comes at least one unit after the first interval (`InjectAt`), so that the
interval that ends then precedes it.

**RemoteProbe** has four parties: the owner (`Start`, `Stop`, `WaitReturns`,
`Kill`, `JoinReader`, `CloseLog`, `Finish`), the reader thread (`Read`,
`EndOfFile`), the agent's main thread (`Announce`, `Emit`, `Deadline`,
`StopLine`, `AgentDies`) and the environment (`Deliver`, `Noise`, `ClientEnds`,
`NetworkCut`). Lines travel through two queues: `wire` dies with the ssh
process, `pipe` does not. SIGTERM reaches the ssh process only.
The line of an attempt says whether its write was served and when, on the agent's
clock; `clock` says whether the two machines' clocks place the agent's zero after
the run's or before it, which puts early attempts at negative offsets (`Observe`).
`ProbeValidates` is what `crdblab validate` later asks of the log.

**AuditWriter** has the writer's loop, split where the database or the owner
can act, its `__exit__`, and `collect` as two steps: the SELECT (`Snapshot`)
and the comparison with the writer's sets (`Compare`). The database applies,
drops or loses statements on its own. Rows of an earlier run may be in the
table, because the result of the `DROP`/`CREATE` is not checked.

**ChaosRun** EXTENDS AuditWriter and adds the main thread (one action per
statement of `run()` that touches shared state), the timer thread and the
target. `injected` is a record with what the dict holds; `Derive` reads it
three times, as the code does. The effect of the fault command and the answer
to it are separate: `Reply` may be the command's own exit status, an exception
after 10 s, or the 255 with which ssh reports a broken connection, whatever the
command did (`severed` remembers it). `collect` is the SELECT (`Select`), which has
no time limit once it is connected, and the comparison (`Collect`). Exceptions of
the stream and of `collect` are actions of their own and lead to `exited`.

**Placement** is a cluster that moves by itself (failovers, members that
detach, stream and count in the quorum again, leases that wander), up to
`MaxMoves` moves nobody asked for, and the check that runs against it: on
CockroachDB repeated readings of the leases, on PostgreSQL the nodes asked one
after the other (`Ask`), the candidate's readiness, the switchover, which may
be accepted and not done, and the second reading (`Reresolved`).

**Experiment** EXTENDS Placement with `run-experiment.sh`: one action per step,
`BeginPhase`/`Refused` around the checks, `SweepEnds`, `SweepRaises`,
`ChaosEnds`, `ChaosRaises` for how a command may end, `Backstop`, `Rejoin`,
`SwitchBack` for the repair, `Validate` and `Figures` for the end. A chaos run
is seen from outside (its target, resolved again after the check; its fault;
its restore; what ssh answers says as little as in ChaosRun). `latest` is what `latest` finds among the run directories, which,
like the cluster, carry over to the next session (`Start`); between sessions a
person may restart nodes.

**Sweep** is Phase I's matrix, the floor derived from it, and the tiers. The
generator's output is a fixed sequence of headers and data lines; `ReadLine`
feeds the parser one line, `StreamEnds` ends the stream after any line or within
the next. `Rows` is the grouping into ticks, `aggregate_tick` and the warm-up
trim. `CockroachVerdict` and `PostgresVerdict` are the two `finish` methods on
counters that the server may flush, reset or scan at any time (`Upset`).
`OpsCovered`, `Plausible` and `Regular` are `crdblab validate` on the rows.

**Pipeline** has the runner as a position (`pos`, the engine), a step (`pc`) and
a phase within the step: `begin` (with its test of `abort`), `call` (the test in
`cmd`), `running`, `ended`. `Fails` is `StepFailed`, `TailscaleError` or
`Aborted`, `Raises` any other exception. `Press` and `SetAbort` are the two
halves of Ctrl-C. `vms` and `devices` are what exists outside. `only` tells the
command `--cleanup` (`InitCleanup`): a runner that knows of no deployment runs
the same destroy and purge over whatever is up, and nothing turns Ctrl-C into an
abort there. `ExitsZero` is the exit status of either command, `Charted` what the
charts step says of an engine.

`MCPipeline`, `MCExperiment` and `MCSweep` give constants and symmetries for
TLC. The `...Proofs` modules hold theorems and their lemmas.

## 3. What the runs check

| Run | Question | Bounds |
|---|---|---|
| `rto_probe` | Do permits, queue, jobs and numbers stay consistent in every interleaving, also with wedged joins and dying workers? Does `stop` return, and is every number recorded? | 2 workers, 3 ticks |
| `chaos` | Does the record of a run say what happened, is a killed target restarted, is the audit's loss count right, does the run end? | 2 writes, 1 leftover row, PostgreSQL, both modes |
| `rto_measure` | Is an outage that clears the floor found, in full, by both instruments? Can anything after the fault move the floor? Is anybody told of no outage when nobody looked? | series of 9 units, 1 outage, cadence slack 1 |
| `recovery` | Is a reported recovery one that held? Do bounded alignments hold the truth? Is a settled state after the fault, is a run without a recovery called what it is, and a shift seen? | 9 intervals, start up to 2 late, 2 lines late by 1 |
| `remote_probe` | Is the harness's series the agent's without its end, final once stopped, and valid if no error is reported and its first write was served? Does the agent end? | 3 attempts |
| `sweep` | Are the rows the ticks? Is a cut tick seen? Is the verdict on the keys right both ways? | 2 tiers of 3 intervals, 1 of warm-up; 1 upset; 2 followers |
| `experiment` | Is anything measured on a cluster an earlier fault still disturbs, or from the wrong node? Is anything drawn that is not fit? | 3 nodes, 1 self-move, 2 sessions |
| `pipeline` | Are VMs never forgotten, cleanups never interrupted, names free before an apply, aborts heard? Does exit status 0 mean that nothing is left? | 2 engines, 2 devices, runs and cleanups |

Four more runs (`audit_loss`, `open_outage`, `not_landed`, `empty_tier`) each
check one statement of the repository that does not hold; see below. The
properties are stated with their comments at the end of each module.

The bounds. Two workers are the least that interleave and let one hold a job
while the other dies; three ticks fill the pool and find it saturated. Two
writes let one be late while the next is compared; a leftover row can only
matter for a number that is drawn. CockroachDB's chaos run differs from
PostgreSQL's only by having no drop-in, so PostgreSQL's contains it. Nine units
hold a healthy gap, jitter above the floor and a longer outage that a write
closes, and with a cadence slack of 1 also the pause of section 4 that is taken
for the outage; nine intervals hold a baseline, a dip, the settling time and the three
intervals the settled state asks for. The quantile, the slacks, the minimum
counts, the baseline and the hold are scaled down with the series, so that
every branch is taken. Three attempts make a lost or swapped line in the middle
visible. A second session is the first that can find what another left, and
three nodes are the least with a quorum without the one that was hit; the
replicas are interchangeable, and the symmetry is used with invariants only.
Two tiers show rows or counters of one in the other; two operations and three
intervals give a cut tick whole ones to differ from. Two engines are all there
are. The theorems of section 5 do not depend on any of these bounds.

Deadlock is not checked: all these programs end.

**Fairness.** Threads of a process are scheduled, and calls with a time limit
return: weak fairness of the dispatcher, of the local steps of each worker and
of the joins in `RtoProbe`; of `AfterStream` in a chaos run, which is what main
does after the stream without waiting for the database; of `Stopping` and
of the agent's clock in `RemoteProbe`; of the runner, of Ctrl-C's second half
and of the signal in `Pipeline`, where a command must end only after SIGTERM.
Nothing is assumed of the database, the generator, the target, the network or
the user. Two properties name what else they need in their own text:
`DispatchedIsRecorded` that no statement hangs for ever, and `RunEnds` that the
SELECT of `collect` is answered or fails. It has a limit for connecting only
(`p4_chaos.py:237`), and on CockroachDB the DSN has none for TCP either (`:701`): a
database that falls silent there holds the run for ever. `Recovery`, `RtoMeasure`, `Sweep`
and `Experiment` assume no fairness: what is asked of them is safety, the
script's waits are bounded and its user need not start it again.

## 4. Where the program differs from what it says

Each of the four runs checks one statement of the repository and TLC finds it
violated:

* `audit_loss` - "Only an acknowledged write later missing from the table is
  data loss" (`p4_chaos.py:157`): the join of the writer may time out, and a
  write acknowledged between the SELECT and the comparison is reported as lost.
  For a writer that was joined, `RpoExact` holds.
* `open_outage` - "An outage still open when the probe stopped is `truncated`"
  (`rto_probe.py:627`): not if no write was served after the fault.
* `not_landed` - "A clean non-zero exit proves the fault did not land"
  (`p4_chaos.py:1005`) and "A transport error is not failure: a `dead` fault often
  kills the connection it arrived on" (`:413`): `ssh.run` raises only at its time
  limit. A connection that breaks before it is an exit status of 255, which
  `inject_fault` takes for a fault that did not land. The run then calls a cluster
  that was hit undisturbed and leaves the killed target down. For the command's own
  exit status `RecordIsTrue` and `KilledTargetIsRestored` hold.
* `empty_tier` - "no statements ... were recorded during the window; the
  workload may not have run at all" (`preflight.py:712`): counters that did not
  grow are taken for flushed ones, so a tier that ran nothing passes on what an
  earlier tier left in them.

Observations made while modelling, which no run checks:

* `restore_target` is "Called only after every artefact is written"
  (`p4_chaos.py:328`); the manifest, the events and the pre-flight report are
  written after it.
* "rejoined; 5 nodes live" (`run-experiment.sh:594`): the count is of the lines of
  `cockroach node status`, which lists every node that ever joined, live or not;
  `bootstrap-cockroachdb.tftpl:109` counts the live ones for the same question. The
  same count ends the health wait at the start of a session; there it is enough, as
  it is asked on the gateway, the only node a fault hits on CockroachDB
  (`MeasuredUndisturbed`).
* A timer whose ssh call outlasts its bounded join (5 s) leaves a run that ends
  regularly with the shared `injected` still empty: the availability and the probe's
  result then say "fault was never injected" (`p4_chaos.py:953`, `:983`), although
  the command went out. `RecordIsTrue` asks for a joined timer where it says that a
  fault sent is a fault measured.
* The `Restart=no` drop-in is "Removed again by `restore_target`"
  (`p4_chaos.py:63`), but a fault command that fails after installing it is
  recorded as not landed, and the restore is skipped. `KilledTargetIsRestored`
  says that this is the only way other than a broken connection; the script's backstop
  (`run-experiment.sh:606`) starts Patroni and leaves the drop-in too.
* "SIGTERM lets the agent flush its stop line" (`remote_probe.py:267`): the
  signal ends the local ssh process, and the line is lost with the wire.
* The clocks of the nodes are checked (`check_clock_offset`), but not that of the
  machine `crdblab` runs on, whose UTC is the other end of the probe's skew. If it is
  ahead by more than the agent takes to start, early attempts get negative offsets,
  and `crdblab validate` fails a run without an error (`check_probe_ordering`).
  `QuietMeansValid` asks for clocks that do not do that.
* The live derivation compares the times of arrival as they are, the analysis those
  of `metrics.csv`, rounded to the millisecond: on a tie within one the two may
  differ (`agrees_with_recorded` allows a second). The model's unit is an interval,
  so it says nothing about this.
* With bounded alignment the earliest point of the fault may precede the first
  interval. The floor of that run is 0, and one that settled is then
  `recovered_without_holding` at any throughput: `ClassificationIsFair` asks for a
  baseline.
* With bounded alignment the settled state and the latency shift are judged
  from the later point of the fault, but their baseline is cut there too
  (`resilience.py:494`, `:539`), so intervals after the fault may be in it.
  `ShiftIsSeen` is therefore stated for a measured offset.
* The RTO bounds of schema 2.0 hold the true figure if throughput fell and came
  back once, soon enough, and nothing rose above the steady level before the
  later point of the fault (`CleanDip`). Otherwise a hold that began before the
  fault may be taken for the recovery; or a surge between the two points enters
  the baseline of the later one (`performance` in `resilience.py` cuts it at each
  point), raises the level to be reached, and both bounds exceed the true figure.
  The second case was found by the proof of `BoundsHoldTruth`; TLC shows it with a
  longer hold and a later start than the run has.
* In `availability_rto` and `measure_rto` a closed outage after the fault is
  reported although a longer one may be open at the end.
* A pause of the audit's writer that began before the fault and ends just after
  it is reported as the outage: `availability_rto` asks for a gap that ends after
  the fault, and looks at the end of the series only if there is none
  (`p4_chaos.py`, `if outage is not None` before `elif truncated`). `availability`
  in `resilience.py` then finds this "RTO" below the resolution and may speak of
  no interruption, although acknowledgements stopped well before the end, for
  which the docstring promises no RTO. `PauseIsTaken` names the case, and
  `NoSilentOutage` excepts it for the audit's half. It was found by the proof of
  `NoSilentOutage`, which failed without it, and series of ten units show it.
* With `--cleanup`, Ctrl-C is not kept from the cleanup as it is in a run
  (`run_all.py:1045`): `main` returns 130 and the thread that destroys ends with
  the process. `CleanupUninterrupted` is about an interrupt that reaches the
  runner.
* `latest` under `set -e` and `pipefail` ends the script without a word if
  there is no run of a kind; without chaos it picks runs of an earlier session.
* A matrix without the round trips to near nodes raises the quorum floor
  (`cli.py:159`). `MismatchIsReal` excuses the floor's verdict in that case
  only.

## 5. What is proved

Eight modules hold theorems. Each rests on one inductive invariant, a conjunction
of named parts, with one step per action in the proof that it is kept; TLC
checked each invariant on the small instance first. What is assumed is what the
modules ASSUME of their constants.

**RtoProbeProofs**, for every number of workers and ticks: the type invariant
and the safety invariants of `RtoProbe`, its two action properties, and that it
implements `CanaryLedger` (`Refinement`). `TypeOK` and `PermitsConserved` are
almost inductive by themselves; the rest of `IInv` says where a number can be:
numbers in the queue are increasing and no larger than `seq`, and each number
up to `seq` that is not recorded is in the queue or in the hand of exactly one
worker (so a `Take` never hands out a number twice, and a number in a worker's
hand is neither recorded nor committed before its statement). A worker is in a
busy state only with a number and a permit; a thread that was joined has ended,
which is what makes the attempts of a clean stop final; rows that are committed
after it are of attempts in the series, as nobody holds a number any more. That the queue cannot be full is
arithmetic: the dispatcher holds a permit while it puts, so at most
`NWorkers - 1` are with queued jobs. The refinement needs that unrecorded
numbers inject into permits that are taken.

**PipelineProofs**, for every list of engines and every finite set of hosts:
`NoSilentVms`, `OkMeansClean`, `NamesFreeAtApply`, `CleanupUninterrupted` and
that `deployed` never misses what is up, except in a cleanup of its own, whose
runner knows no deployment and therefore destroys blindly. The invariant adds where the runner is
in the list (`PosInv`), at which steps nothing can be up (`Down` in `VmsInv`),
from which to which step no name is taken (`DevicesInv`), and that every engine
behind the runner was measured.

**ChaosRunProofs**, first for the audit alone, for every number of writes and any
leftover rows: a number is sorted once, and `RpoExact`. `WriterInv` says that all
numbers sorted or noted are at most the one in hand; `TableInv` that acknowledged
rows were committed, and that for a joined writer the SELECT saw those of them
that are not gone. Then, for all modes and engines: every step of a run is a step
of the audit or leaves it alone (`RunImplementsAudit`), so the audit's theorem
carries over (`RunReportsLossExactly`); and `FaultAfterSample`, `RecordIsTrue` and
`KilledTargetIsRestored`. `OrderInv` is the order of `stop_timer` and the release,
`TimerInv` what the dict holds at each step of the timer against what was sent and
whether the connection broke, `ResultInv` what the main thread has read of it so
far, and `JoinedInv` what it has read once the timer is seen to have ended.

**RemoteProbeProofs**, for every number of attempts: `SeriesIsPrefix`,
`QuietMeansValid`, `FinalOnceStopped`. The invariant is about `Channel`, the
pipe followed by the wire: what is under way continues what was read
(`KnownInv`), or, before the start line, begins at 1 after it (`UnknownInv`);
and while more can arrive nothing is missing from its end. A lost wire leaves a
prefix of the channel, which is why the series can only lose its end. So a series
that is not empty holds the agent's first attempt, which is what `QuietMeansValid`
needs where validation asks for one that was served.

**ExperimentProofs**, for every set of nodes, gateway, number of sessions and
of moves: the type invariant, `MeasuredUndisturbed`, `MeasuredFromGateway` and
`FiguresAreFit`. The invariant says up to where in a session all nodes are
reachable (`ReachInv`), that on CockroachDB only the gateway is ever hit
(`FaultsInv`: this is what makes the count of listed nodes, asked on the
gateway, sufficient), and which of the newest run directories are this session's
(`LatestInv`). For `MeasuredFromGateway`, `LedInv` relates what a check has read
to what the cluster may have done since: which engine's check is at work and how
long its verdict stands (`ChecksInv`), what the last reading of the leases is
still worth (`LeasesInv`), and (`LeaderInv`), as PostgreSQL's nodes are asked one
by one on a cluster that nothing moved, that every node that leads has been found
or is still to be asked. A verdict that stands then means that the gateway leads,
alone.

**SweepProofs**, for every number of followers, intervals and tiers and every
threshold (`SweepAssumption`), if a commit that updates nothing is faster than
nine tenths of the quorum's floor (`EmptyCommitAssumption`, the premise on which
`preflight.py` rests its floor): the type invariant, `RowsAreTheTicks`,
`CutTickIsSeen`, `PassMeansTouched` and `MismatchIsReal`. No induction over the
stream is needed: `StreamInv` gives the parser's header and its samples as a
function of the number of lines read, `CutsInv` says which tiers were cut off and
where, and `CsvInv` that the file is what these streams leave after the trim. `FloorInv` says which
round trips the newest matrix can hold; that a matrix without some of the
followers gives a floor no lower than the full one is a lemma about the order
statistic (`FloorOfFewerIsHigher`). For the verdict, the counters have either
grown by what the tier ran or were flushed since the first reading
(`CountersInv`), and `VerdictInv` says what each recorded answer was read from.

**RtoMeasureProofs**, for every quantile, slack, minimum count and length of the
series: the type invariant, `OutageIsFound`, `InstrumentsAgree`, `FloorIsFixed` and
`NoSilentOutage`. The invariant is small: an outage lies after the fault and no
write is served during it (`OutageInv`), and the first attempt was served
(`FirstInv`). The rest is about the functions. An outage therefore lies inside one gap between served
writes, that gap is at least as long, and if it clears the floor it qualifies,
so that the largest that qualifies is at least as long too. The healthy gaps end
before the fault, so nothing that completes later changes the set the quantile is
taken of. Two floors that differ still leave the same largest gap above the
higher of them, on which the two instruments agree. If no outage is claimed, the
last served write, the last attempt and the slack leave no room for one. All that
is used of the quantile is that its rank exists, so that it is a number.

**RecoveryProofs**, for every number of intervals, late lines, levels, thresholds
and lengths of baseline, hold and settling time (`RecoveryAssumption`: a line is
late by less than the hold and than the settling time; nothing in the code sees
to that, but a delay of several seconds would outlast what the hold can smooth): the type invariant and
all five properties of the run. The invariant says little: how far the clocks
of the intervals are apart (`TicksInv`), that intervals which ended before the
fault are steady (`FaultInv`), and what the run recorded (`EventsInv`). The rest
is about the functions, in three steps.

* A recovery is the first position from which every interval of a full hold is
  clear of the floor (`RtoIsFirstHold`), whichever axis the fault is on; shifting
  the axis shifts the answer.
* The baseline before the fault is steady, so its total is `Steady` times its
  size and clearing the floor is being good in the plain sense of the property
  (`ClearIsGood`). A hold of so many units of the harness's clock then holds as
  many intervals that are good in a row, less what the lines were late, and so
  many intervals and that delay make a hold (`LiveHold`, `RecoveryIsTrue`).
* For bounds, `CleanDip` leaves one dip: a hold from the earlier point cannot
  begin before it without containing it, so it is the hold of the truth, and the
  later point finds one that is no later (`BoundsHoldTruth`). The settled state is
  cut at the later point and the settling time after it, beyond what a late line
  can cover (`SettledIsPostFault`). The earliest
  point leaves only steady intervals before it, so that the floor of the
  classification is the true one (`FloorIsSteady`, `ClassificationIsFair`). Of the
  latency nothing but its distance from the baseline matters, and that is scaled on
  both sides alike (`ShiftIsSeen`).

Sums over a series need induction: that the sum exists, is a number, and what it
is for equal terms. The library's induction theorems cannot be used, as they take
an operator, so `CountingUp` states the principle for a set of numbers, and
`TotalIs`, `TotalOfEqual` apply it to a set defined for the purpose. It rests on
`SmallestExists`, which the library's theorem on well-founded orders gives.

Only model-checked:

* Every liveness property, and everything under fairness: ENABLED is out of the
  prover's reach.
* The four statements of section 4, which do not hold.

## 6. Not modelled

* **Hardware sampler** (`hardware_metrics.py`): a daemon thread per node appends
  samples until a flag is set; no result depends on it.
* **ssh wrappers**: their time limits and failures are outcomes of the calls.
* **Bootstrap** (`terraform/scripts`): templates that run once on fresh
  machines. A failed one is seen by the health wait.
* **Terraform's resources** are declarative; `apply` and `destroy` appear as
  commands that may fail having done anything.
* **`--dry-run` and the drawing of the pipeline's UI.**
* **The agent orphaned by SIGTERM** that writes into the table of the next run
  (`p4_chaos.py:57`): a hazard without a property, since the next audit compares
  its own numbers only.
* **Statistics** (`engine_comparison.py`, `steady_state.py`), reports, insights,
  the demo and the documentation site read finished files.
* **Configuration, topology and argument parsing** are immutable during a run.
* Inside modelled parts: latencies other than the median write, floating-point
  rounding, error columns, log texts and wording, the event log of the probe,
  Little's law and the ordering of quantiles in `validation.py` (single
  inequalities over a row), and the clock, zone and agent checks of the
  pre-flight other than as outcomes.

## 7. What could follow

1. Two chaos runs and their probes in one model, for the orphaned agent.
2. `Bootstrap`: start, init and join of the nodes.
3. The statistics of `engine_comparison.py` over finished files.
