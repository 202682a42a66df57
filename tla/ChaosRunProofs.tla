--------------------------- MODULE ChaosRunProofs ---------------------------
(***************************************************************************)
(* Proofs about the chaos run for every number of writes, every set of     *)
(* rows an earlier run may have left, every set of modes and engines.      *)
(* First of its RPO audit on its own: each number is sorted once, and what *)
(* is reported lost is exactly what was lost, if the writer was joined.    *)
(* Then of the run: it implements the audit, so that the audit's theorems  *)
(* hold of it; the fault follows a sample; what is recorded of it is true; *)
(* a killed target is restored.                                            *)
(***************************************************************************)
EXTENDS ChaosRun, SequenceTheorems, TLAPS

-----------------------------------------------------------------------------
(* The audit on its own.                                                   *)

Sorted == acknowledged \cup ambiguous \cup refused

(* The number at work is the last one drawn; it is sorted between its      *)
(* INSERT and its entry in the series, the ones before it have both.       *)
WriterInv ==
  /\ phase = "new" <=> apc = "off"
  /\ apc \in {"insert", "note"} => aseq \in Numbers
  /\ apc = "insert" => aseq \notin Sorted
  /\ apc = "note" => aseq \in Sorted
  /\ Sorted \subseteq 1 .. aseq
  /\ \A i \in DOMAIN attempts :
       /\ attempts[i].seq \in 1 .. aseq
       /\ apc \in {"insert", "note"} => attempts[i].seq < aseq

(* Acknowledged rows were committed, and what the SELECT saw of them tells *)
(* the lost ones, as long as a writer that was joined adds none.           *)
TableInv ==
  /\ acknowledged \subseteq committed
  /\ joined => apc = "done" /\ phase \in {"stopped", "snapshot", "compared"}
  /\ phase \in {"snapshot", "compared"} /\ joined =>
       \A n \in acknowledged : n \in present <=> n \notin gone

AuditInv == AuditTypeOK /\ SortedOnce /\ WriterInv /\ TableInv /\ RpoExact

-----------------------------------------------------------------------------
LEMMA AuditInitial == AuditInit => AuditInv
<1> SUFFICES ASSUME AuditInit PROVE AuditInv
  OBVIOUS
<1> USE MaxWritesAssumption, StaleRowsAssumption
<1>1. AuditTypeOK
  <2>1. attempts \in Seq([seq : Numbers, outcome : Outcomes])
    BY EmptySeq DEF AuditInit
  <2>2. stale \subseteq Numbers
    BY DEF AuditInit, Numbers
  <2>3. aseq \in 0 .. MaxWrites
    BY DEF AuditInit
  <2>4. /\ phase \in {"new", "writing", "stopping", "stopped", "snapshot", "compared"}
        /\ apc \in {"off", "loop", "insert", "note", "done"}
        /\ joined \in BOOLEAN /\ astop \in BOOLEAN
    BY DEF AuditInit
  <2>5. /\ acknowledged = {} /\ ambiguous = {} /\ refused = {}
        /\ present = {} /\ lost = {} /\ inflight = {} /\ committed = {} /\ gone = {}
    BY DEF AuditInit
  <2> QED
    BY <2>1, <2>2, <2>3, <2>4, <2>5 DEF AuditTypeOK
<1>2. SortedOnce
  BY DEF AuditInit, SortedOnce
<1>3. WriterInv /\ TableInv /\ RpoExact
  BY DEF AuditInit, WriterInv, Sorted, TableInv, RpoExact
<1> QED
  BY <1>1, <1>2, <1>3 DEF AuditInv

(* The owner's steps, the writer's and the database's.                     *)
LEMMA OwnerStep == AuditInv /\ Owner => AuditInv'
<1> SUFFICES ASSUME AuditInv, Owner PROVE AuditInv'
  OBVIOUS
<1> USE DEF AuditInv, Owner, writerVars, tableVars
<1>1. CASE Enter
  <2> USE <1>1 DEF Enter
  <2>1. AuditTypeOK'
    BY DEF AuditTypeOK
  <2>2. SortedOnce' /\ WriterInv'
    BY DEF SortedOnce, WriterInv, Sorted
  <2>3. TableInv' /\ RpoExact'
    BY DEF TableInv, RpoExact
  <2> QED
    BY <2>1, <2>2, <2>3
<1>2. CASE RequestStop \/ Join \/ JoinTimesOut
  <2> USE <1>2 DEF RequestStop, Join, JoinTimesOut
  <2>1. AuditTypeOK'
    BY DEF AuditTypeOK
  <2>2. SortedOnce' /\ WriterInv'
    BY DEF SortedOnce, WriterInv, Sorted
  <2>3. TableInv' /\ RpoExact'
    BY DEF TableInv, RpoExact
  <2> QED
    BY <2>1, <2>2, <2>3
<1>3. CASE Snapshot
  <2> USE <1>3 DEF Snapshot
  <2>1. AuditTypeOK'
    BY DEF AuditTypeOK, Table
  <2>2. SortedOnce' /\ WriterInv'
    BY DEF SortedOnce, WriterInv, Sorted
  <2>3. TableInv' /\ RpoExact'
    BY DEF TableInv, RpoExact, Table
  <2> QED
    BY <2>1, <2>2, <2>3
<1>4. CASE Compare
  <2> USE <1>4 DEF Compare
  <2>1. AuditTypeOK'
    BY DEF AuditTypeOK
  <2>2. SortedOnce' /\ WriterInv'
    BY DEF SortedOnce, WriterInv, Sorted
  <2>3. TableInv' /\ RpoExact'
    BY DEF TableInv, RpoExact
  <2> QED
    BY <2>1, <2>2, <2>3
<1> QED
  BY <1>1, <1>2, <1>3, <1>4

(* Sorting the number at work keeps what the writer knows.                 *)
LEMMA SortingKeeps ==
  ASSUME AuditTypeOK, WriterInv, apc = "insert", apc' = "note", phase' = phase,
         UNCHANGED <<aseq, attempts>>, Sorted' = Sorted \cup {aseq}
  PROVE  WriterInv'
<1>1. aseq \in Numbers
  BY DEF WriterInv
<1>2. aseq \in Sorted' /\ Sorted' \subseteq 1 .. aseq'
  <2>1. Sorted \subseteq 1 .. aseq
    BY DEF WriterInv
  <2>2. aseq \in 1 .. aseq
    BY <1>1, MaxWritesAssumption DEF Numbers
  <2> QED
    BY <2>1, <2>2
<1>3. \A i \in DOMAIN attempts : attempts[i].seq \in 1 .. aseq /\ attempts[i].seq < aseq
  BY DEF WriterInv
<1>4. (\A i \in DOMAIN attempts :
         /\ attempts[i].seq \in 1 .. aseq
         /\ apc \in {"insert", "note"} => attempts[i].seq < aseq)'
  BY <1>3
<1>5. phase' # "new" /\ apc' # "off"
  BY DEF WriterInv
<1> QED
  BY <1>1, <1>2, <1>4, <1>5 DEF WriterInv

LEMMA WriterStepKeeps == AuditInv /\ Writer => AuditInv'
<1> SUFFICES ASSUME AuditInv, Writer PROVE AuditInv'
  OBVIOUS
<1> USE MaxWritesAssumption DEF AuditInv, Writer, ownerVars, tableVars
<1>1. CASE Begin
  <2> USE <1>1 DEF Begin
  <2>1. AuditTypeOK'
    BY DEF AuditTypeOK, Numbers
  <2>2. SortedOnce'
    BY DEF SortedOnce
  <2>3. WriterInv'
    BY DEF AuditTypeOK, WriterInv, Sorted, Numbers
  <2>4. TableInv' /\ RpoExact'
    BY DEF TableInv, RpoExact
  <2> QED
    BY <2>1, <2>2, <2>3, <2>4
<1>2. CASE WriterEnds
  <2> USE <1>2 DEF WriterEnds
  <2>1. AuditTypeOK' /\ SortedOnce'
    BY DEF AuditTypeOK, SortedOnce
  <2>2. WriterInv'
    BY DEF WriterInv, Sorted
  <2>3. TableInv' /\ RpoExact'
    BY DEF TableInv, RpoExact
  <2> QED
    BY <2>1, <2>2, <2>3
<1>3. CASE Acknowledged
  <2> USE <1>3 DEF Acknowledged
  <2>1. AuditTypeOK'
    BY DEF AuditTypeOK, WriterInv
  <2>2. SortedOnce'
    BY DEF AuditTypeOK, SortedOnce, WriterInv, Sorted, Outcomes
  <2>3. WriterInv'
    <3>1. Sorted' = Sorted \cup {aseq}
      BY DEF Sorted
    <3> QED
      BY <3>1, SortingKeeps
  <2>4. TableInv' /\ RpoExact'
    BY DEF TableInv, RpoExact
  <2> QED
    BY <2>1, <2>2, <2>3, <2>4
<1>4. CASE Ambiguous
  <2> USE <1>4 DEF Ambiguous
  <2>1. AuditTypeOK'
    BY DEF AuditTypeOK, WriterInv
  <2>2. SortedOnce'
    BY DEF AuditTypeOK, SortedOnce, WriterInv, Sorted, Outcomes
  <2>3. WriterInv'
    <3>1. Sorted' = Sorted \cup {aseq}
      BY DEF Sorted
    <3> QED
      BY <3>1, SortingKeeps
  <2>4. TableInv' /\ RpoExact'
    BY DEF TableInv, RpoExact
  <2> QED
    BY <2>1, <2>2, <2>3, <2>4
<1>5. CASE Refused
  <2> USE <1>5 DEF Refused
  <2>1. AuditTypeOK'
    BY DEF AuditTypeOK, WriterInv
  <2>2. SortedOnce'
    BY DEF AuditTypeOK, SortedOnce, WriterInv, Sorted, Outcomes
  <2>3. WriterInv'
    <3>1. Sorted' = Sorted \cup {aseq}
      BY DEF Sorted
    <3> QED
      BY <3>1, SortingKeeps
  <2>4. TableInv' /\ RpoExact'
    BY DEF TableInv, RpoExact
  <2> QED
    BY <2>1, <2>2, <2>3, <2>4
<1>6. CASE Note
  <2> USE <1>6 DEF Note
  <2>1. aseq \in Numbers /\ Outcome \in Outcomes
    BY DEF WriterInv, Outcome, Outcomes
  <2>2. AuditTypeOK'
    BY <2>1 DEF AuditTypeOK
  <2>3. /\ DOMAIN attempts' = DOMAIN attempts \cup {Len(attempts) + 1}
        /\ \A i \in DOMAIN attempts : i < Len(attempts) + 1 /\ attempts'[i] = attempts[i]
        /\ attempts'[Len(attempts) + 1] = [seq |-> aseq, outcome |-> Outcome]
    BY DEF AuditTypeOK
  <2>4. \/ Outcome = "ack" /\ aseq \in acknowledged
        \/ Outcome = "ambiguous" /\ aseq \in ambiguous
        \/ Outcome = "refused" /\ aseq \in refused
    BY DEF WriterInv, Sorted, Outcome
  <2>5. SortedOnce'
    <3>1. (\A i, j \in DOMAIN attempts : i < j => attempts[i].seq < attempts[j].seq)'
      BY <2>3 DEF AuditTypeOK, SortedOnce, WriterInv
    <3>2. (\A i \in DOMAIN attempts :
            \/ attempts[i].outcome = "ack" /\ attempts[i].seq \in acknowledged
            \/ attempts[i].outcome = "ambiguous" /\ attempts[i].seq \in ambiguous
            \/ attempts[i].outcome = "refused" /\ attempts[i].seq \in refused)'
      BY <2>3, <2>4 DEF SortedOnce
    <3> QED
      BY <3>1, <3>2 DEF SortedOnce
  <2>6. WriterInv'
    BY <2>1, <2>3 DEF AuditTypeOK, WriterInv, Sorted, Numbers
  <2>7. TableInv' /\ RpoExact'
    BY DEF TableInv, RpoExact
  <2> QED
    BY <2>2, <2>5, <2>6, <2>7
<1> QED
  BY <1>1, <1>2, <1>3, <1>4, <1>5, <1>6

LEMMA DatabaseStepKeeps == AuditInv /\ Database => AuditInv'
<1> SUFFICES ASSUME AuditInv,
                    NEW n \in Numbers,
                    Commit(n) \/ Die(n) \/ Lose(n)
             PROVE  AuditInv'
  BY DEF Database
<1> USE DEF AuditInv, Commit, Die, Lose, ownerVars, writerVars
<1>1. AuditTypeOK'
  BY DEF AuditTypeOK
<1>2. SortedOnce' /\ WriterInv'
  BY DEF SortedOnce, WriterInv, Sorted
<1>3. TableInv' /\ RpoExact'
  BY DEF TableInv, RpoExact
<1> QED
  BY <1>1, <1>2, <1>3

LEMMA AuditInductive == AuditInv /\ [AuditNext]_auditVars => AuditInv'
<1> SUFFICES ASSUME AuditInv, UNCHANGED auditVars PROVE AuditInv'
  BY OwnerStep, WriterStepKeeps, DatabaseStepKeeps DEF AuditNext
<1> QED
  BY DEF AuditInv, auditVars, ownerVars, writerVars, tableVars, AuditTypeOK, SortedOnce,
    WriterInv, Sorted, TableInv, RpoExact

-----------------------------------------------------------------------------
(* The invariant holds of every audit.                                     *)
THEOREM AuditInvariance == AuditSpec => []AuditInv
BY AuditInitial, AuditInductive, PTL DEF AuditSpec

(* Every variable of the audit keeps its type.                             *)
THEOREM AuditTypeCorrectness == AuditSpec => []AuditTypeOK
<1>1. AuditInv => AuditTypeOK
  BY DEF AuditInv
<1> QED
  BY <1>1, AuditInvariance, PTL

(* "Sequence numbers are never retried": each is sorted into one set, and  *)
(* has at most one entry of the series, which says the same.               *)
THEOREM NeverSortedTwice == AuditSpec => []SortedOnce
<1>1. AuditInv => SortedOnce
  BY DEF AuditInv
<1> QED
  BY <1>1, AuditInvariance, PTL

(* What collect() reports lost is what was acknowledged and lost, if the   *)
(* writer was joined in time.                                              *)
THEOREM ReportedLossIsExact == AuditSpec => []RpoExact
<1>1. AuditInv => RpoExact
  BY DEF AuditInv
<1> QED
  BY <1>1, AuditInvariance, PTL

-----------------------------------------------------------------------------
(* The run.                                                                *)

(* Nothing reaches the injection without a sample: the release at the end  *)
(* of the run comes after stop_timer is set, which the timer reads first.  *)
OrderInv ==
  /\ pc = "preflight" => tpc = "off" /\ ~timerJoined
  /\ pc = "release" => stopTimer
  /\ released => sample \/ stopTimer
  /\ tpc = "check" => released
  /\ tpc \in {"count", "ssh", "update", "offset"} => sample
  /\ payload # "none" => sample

(* What the shared dict holds at each step of the timer, against what was  *)
(* sent: only a failed command, or a broken ssh, is answered with a no.    *)
TimerInv ==
  /\ tpc \in {"off", "wait", "check", "count"} => payload = "none"
  /\ tpc \in {"ssh", "update", "offset"} => payload # "none"
  /\ tpc \in {"off", "wait", "check", "count", "ssh", "update"} =>
       injected = [landed |-> Unset, monotonic |-> FALSE, offset |-> FALSE]
  /\ tpc = "offset" => injected.monotonic /\ ~injected.offset
  /\ tpc = "done" => /\ injected.monotonic <=> payload # "none"
                     /\ injected.offset <=> payload # "none"
  /\ tpc = "update" /\ answer = "no" /\ ~severed => payload = "failed"
  /\ injected.landed = "no" /\ ~severed => payload \in {"none", "failed"}
  /\ injected.offset => injected.monotonic
  /\ injected.monotonic => payload # "none"

(* The drop-in is installed by a fault command in dead mode only.          *)
DropinInv == dropin => mode = "dead" /\ payload \in {"hit", "failed"}

(* What main has read of the dict: an entry it has found stays, and what   *)
(* it read of a timer that has ended is what the dict holds.               *)
ResultInv ==
  /\ pc \in {"availability", "probe", "events", "restore", "artefacts", "done"} =>
       (rto.throughput => injected.offset)
  /\ pc \in {"probe", "events", "restore", "artefacts", "done"} =>
       /\ rto.throughput => rto.availability
       /\ rto.availability => injected.monotonic
  /\ pc \in {"events", "restore", "artefacts", "done"} =>
       /\ rto.throughput => rto.probe
       /\ rto.probe => injected.offset
  /\ pc \in {"restore", "artefacts", "done"} =>
       (events = "no" => injected.landed = "no")
  /\ pc \in {"artefacts", "done"} =>
       /\ restore \in {"skipped", "attempted"}
       /\ restore = "skipped" => mode # "dead" \/ injected.landed = "no"

JoinedInv ==
  timerJoined =>
    /\ tpc = "done"
    /\ pc \in {"availability", "probe", "events", "restore", "artefacts", "done"} =>
         (injected.offset => rto.throughput)
    /\ pc \in {"probe", "events", "restore", "artefacts", "done"} =>
         (injected.monotonic => rto.availability)
    /\ pc \in {"events", "restore", "artefacts", "done"} =>
         (injected.offset => rto.probe)

ChaosInv == ChaosTypeOK /\ OrderInv /\ TimerInv /\ DropinInv /\ ResultInv /\ JoinedInv

-----------------------------------------------------------------------------
(* The audit inside the run.                                               *)

LEMMA AuditStepOfRun == [Next]_vars => [AuditNext]_auditVars
<1> SUFFICES ASSUME [Next]_vars PROVE [AuditNext]_auditVars
  OBVIOUS
<1> USE DEF AuditNext
<1>1. CASE Main
  <2>1. CASE Launch
    BY <2>1 DEF Launch, Owner
  <2>2. CASE ExitAudit
    BY <2>2 DEF ExitAudit, Owner
  <2>3. CASE Select \/ Collect
    BY <2>3 DEF Select, Collect, Owner
  <2>4. CASE Refuse \/ Sample \/ StreamEnds \/ StreamRaises
    BY <2>4 DEF Refuse, Sample, StreamEnds, StreamRaises
  <2>5. CASE StopTimer \/ Release \/ JoinTimer \/ CollectRaises
    BY <2>5 DEF StopTimer, Release, JoinTimer, CollectRaises
  <2>6. CASE Derive \/ UpdateEvents \/ Restore \/ WriteArtefacts
    BY <2>6 DEF Derive, UpdateEvents, Restore, WriteArtefacts
  <2> QED
    BY <1>1, <2>1, <2>2, <2>3, <2>4, <2>5, <2>6 DEF Main, AfterStream
<1>2. CASE Timer
  BY <1>2 DEF Timer, Wake, Check, CountStops, Inject, Reply, Update
<1>3. CASE Target
  BY <1>3 DEF Target, PayloadRuns, PayloadLost
<1>4. CASE DatabaseStep
  BY <1>4 DEF DatabaseStep, Database
<1>5. CASE WriterStep
  BY <1>5 DEF WriterStep
<1>6. CASE UNCHANGED vars
  BY <1>6 DEF vars
<1> QED
  BY <1>1, <1>2, <1>3, <1>4, <1>5, <1>6 DEF Next

(* The run contains the audit writer as specified.                         *)
THEOREM RunImplementsAudit == Spec => ContainsAudit
<1>1. Init => AuditInit
  BY DEF Init
<1> QED
  BY <1>1, AuditStepOfRun, PTL DEF Spec, AuditSpec, ContainsAudit

(* So what a chaos run reports lost is what was acknowledged and lost, if  *)
(* its writer was joined.                                                  *)
THEOREM RunReportsLossExactly == Spec => []RpoExact
BY RunImplementsAudit, ReportedLossIsExact, PTL DEF ContainsAudit

-----------------------------------------------------------------------------
LEMMA ChaosInitial == Init => ChaosInv
<1> SUFFICES ASSUME Init PROVE ChaosInv
  OBVIOUS
<1> USE DEF Init, ChaosInit, Unset
<1>1. ChaosTypeOK
  <2>1. /\ sample \in BOOLEAN /\ released \in BOOLEAN
        /\ stopTimer \in BOOLEAN /\ timerJoined \in BOOLEAN
        /\ artefacts \in BOOLEAN /\ dropin \in BOOLEAN
    OBVIOUS
  <2>2. /\ injected \in [landed : {Unset, "yes", "no", "none"},
                         monotonic : BOOLEAN, offset : BOOLEAN]
        /\ rto \in [throughput : BOOLEAN, availability : BOOLEAN, probe : BOOLEAN]
    OBVIOUS
  <2> QED
    BY <2>1, <2>2 DEF ChaosTypeOK
<1>2. OrderInv /\ DropinInv
  BY DEF OrderInv, DropinInv
<1>3. TimerInv /\ ResultInv /\ JoinedInv
  BY DEF TimerInv, ResultInv, JoinedInv
<1> QED
  BY <1>1, <1>2, <1>3 DEF ChaosInv

(* Main, up to the end of the stream.                                      *)
LEMMA MainStartKeeps == ChaosInv /\ (Refuse \/ Launch \/ Sample \/ StreamEnds \/ StreamRaises) => ChaosInv'
<1> SUFFICES ASSUME ChaosInv, Refuse \/ Launch \/ Sample \/ StreamEnds \/ StreamRaises PROVE ChaosInv'
  OBVIOUS
<1> USE DEF ChaosInv, At, params, runVars, timerVars, resultVars, targetVars
<1>1. CASE Refuse
  <2> USE <1>1 DEF Refuse
  <2>1. ChaosTypeOK'
    BY DEF ChaosTypeOK, Unset
  <2>2. OrderInv' /\ DropinInv'
    BY DEF OrderInv, DropinInv, TimerInv
  <2>3. TimerInv' /\ ResultInv' /\ JoinedInv'
    BY DEF ChaosTypeOK, OrderInv, TimerInv, ResultInv, JoinedInv, Unset
  <2> QED
    BY <2>1, <2>2, <2>3
<1>2. CASE Launch
  <2> USE <1>2 DEF Launch
  <2>1. ChaosTypeOK'
    BY DEF ChaosTypeOK, Unset
  <2>2. OrderInv' /\ DropinInv'
    BY DEF OrderInv, DropinInv, TimerInv
  <2>3. TimerInv' /\ ResultInv' /\ JoinedInv'
    BY DEF ChaosTypeOK, OrderInv, TimerInv, ResultInv, JoinedInv, Unset
  <2> QED
    BY <2>1, <2>2, <2>3
<1>3. CASE Sample
  <2> USE <1>3 DEF Sample
  <2>1. ChaosTypeOK'
    BY DEF ChaosTypeOK, Unset
  <2>2. OrderInv' /\ DropinInv'
    BY DEF OrderInv, DropinInv, TimerInv
  <2>3. TimerInv' /\ ResultInv' /\ JoinedInv'
    BY DEF ChaosTypeOK, OrderInv, TimerInv, ResultInv, JoinedInv, Unset
  <2> QED
    BY <2>1, <2>2, <2>3
<1>4. CASE StreamEnds
  <2> USE <1>4 DEF StreamEnds
  <2>1. ChaosTypeOK'
    BY DEF ChaosTypeOK, Unset
  <2>2. OrderInv' /\ DropinInv'
    BY DEF OrderInv, DropinInv, TimerInv
  <2>3. TimerInv' /\ ResultInv' /\ JoinedInv'
    BY DEF ChaosTypeOK, OrderInv, TimerInv, ResultInv, JoinedInv, Unset
  <2> QED
    BY <2>1, <2>2, <2>3
<1>5. CASE StreamRaises
  <2> USE <1>5 DEF StreamRaises
  <2>1. ChaosTypeOK'
    BY DEF ChaosTypeOK, Unset
  <2>2. OrderInv' /\ DropinInv'
    BY DEF OrderInv, DropinInv, TimerInv
  <2>3. TimerInv' /\ ResultInv' /\ JoinedInv'
    BY DEF ChaosTypeOK, OrderInv, TimerInv, ResultInv, JoinedInv, Unset
  <2> QED
    BY <2>1, <2>2, <2>3
<1> QED
  BY <1>1, <1>2, <1>3, <1>4, <1>5

(* Main, stopping what it started.                                         *)
LEMMA MainStopKeeps == ChaosInv /\ (StopTimer \/ Release \/ JoinTimer \/ ExitAudit) => ChaosInv'
<1> SUFFICES ASSUME ChaosInv, StopTimer \/ Release \/ JoinTimer \/ ExitAudit PROVE ChaosInv'
  OBVIOUS
<1> USE DEF ChaosInv, At, params, runVars, timerVars, resultVars, targetVars
<1>1. CASE StopTimer
  <2> USE <1>1 DEF StopTimer
  <2>1. ChaosTypeOK'
    BY DEF ChaosTypeOK, Unset
  <2>2. OrderInv' /\ DropinInv'
    BY DEF OrderInv, DropinInv, TimerInv
  <2>3. TimerInv' /\ ResultInv' /\ JoinedInv'
    BY DEF ChaosTypeOK, OrderInv, TimerInv, ResultInv, JoinedInv, Unset
  <2> QED
    BY <2>1, <2>2, <2>3
<1>2. CASE Release
  <2> USE <1>2 DEF Release
  <2>1. ChaosTypeOK'
    BY DEF ChaosTypeOK, Unset
  <2>2. OrderInv' /\ DropinInv'
    BY DEF OrderInv, DropinInv, TimerInv
  <2>3. TimerInv' /\ ResultInv' /\ JoinedInv'
    BY DEF ChaosTypeOK, OrderInv, TimerInv, ResultInv, JoinedInv, Unset
  <2> QED
    BY <2>1, <2>2, <2>3
<1>3. CASE JoinTimer
  <2> USE <1>3 DEF JoinTimer
  <2>1. ChaosTypeOK'
    BY DEF ChaosTypeOK, Unset
  <2>2. OrderInv' /\ DropinInv'
    BY DEF OrderInv, DropinInv, TimerInv
  <2>3. TimerInv' /\ ResultInv' /\ JoinedInv'
    BY DEF ChaosTypeOK, OrderInv, TimerInv, ResultInv, JoinedInv, Unset
  <2> QED
    BY <2>1, <2>2, <2>3
<1>4. CASE ExitAudit
  <2> USE <1>4 DEF ExitAudit
  <2>1. ChaosTypeOK'
    BY DEF ChaosTypeOK, Unset
  <2>2. OrderInv' /\ DropinInv'
    BY DEF OrderInv, DropinInv, TimerInv
  <2>3. TimerInv' /\ ResultInv' /\ JoinedInv'
    BY DEF ChaosTypeOK, OrderInv, TimerInv, ResultInv, JoinedInv, Unset
  <2> QED
    BY <2>1, <2>2, <2>3
<1> QED
  BY <1>1, <1>2, <1>3, <1>4

(* Main, deriving the results.                                             *)
LEMMA MainDeriveKeeps == ChaosInv /\ (Select \/ Collect \/ CollectRaises \/ Derive \/ UpdateEvents \/ Restore \/ WriteArtefacts) => ChaosInv'
<1> SUFFICES ASSUME ChaosInv, Select \/ Collect \/ CollectRaises \/ Derive \/ UpdateEvents \/ Restore \/ WriteArtefacts PROVE ChaosInv'
  OBVIOUS
<1> USE DEF ChaosInv, At, params, runVars, timerVars, resultVars, targetVars
<1>1. CASE Select \/ Collect
  <2> USE <1>1 DEF Select, Collect
  <2>1. ChaosTypeOK'
    BY DEF ChaosTypeOK, Unset
  <2>2. OrderInv' /\ DropinInv'
    BY DEF OrderInv, DropinInv, TimerInv
  <2>3. TimerInv' /\ ResultInv' /\ JoinedInv'
    BY DEF ChaosTypeOK, OrderInv, TimerInv, ResultInv, JoinedInv, Unset
  <2> QED
    BY <2>1, <2>2, <2>3
<1>2. CASE CollectRaises
  <2> USE <1>2 DEF CollectRaises
  <2>1. ChaosTypeOK'
    BY DEF ChaosTypeOK, Unset
  <2>2. OrderInv' /\ DropinInv'
    BY DEF OrderInv, DropinInv, TimerInv
  <2>3. TimerInv' /\ ResultInv' /\ JoinedInv'
    BY DEF ChaosTypeOK, OrderInv, TimerInv, ResultInv, JoinedInv, Unset
  <2> QED
    BY <2>1, <2>2, <2>3
<1>3. CASE Derive
  <2> USE <1>3 DEF Derive
  <2>1. ChaosTypeOK'
    BY DEF ChaosTypeOK, Unset
  <2>2. OrderInv' /\ DropinInv'
    BY DEF OrderInv, DropinInv, TimerInv
  <2>3. TimerInv' /\ ResultInv' /\ JoinedInv'
    BY DEF ChaosTypeOK, OrderInv, TimerInv, ResultInv, JoinedInv, Unset
  <2> QED
    BY <2>1, <2>2, <2>3
<1>4. CASE UpdateEvents
  <2> USE <1>4 DEF UpdateEvents
  <2>1. ChaosTypeOK'
    BY DEF ChaosTypeOK, Unset
  <2>2. OrderInv' /\ DropinInv'
    BY DEF OrderInv, DropinInv, TimerInv
  <2>3. TimerInv' /\ ResultInv' /\ JoinedInv'
    BY DEF ChaosTypeOK, OrderInv, TimerInv, ResultInv, JoinedInv, Unset
  <2> QED
    BY <2>1, <2>2, <2>3
<1>5. CASE Restore
  <2> USE <1>5 DEF Restore
  <2>1. ChaosTypeOK'
    <3>1. dropin' \in BOOLEAN
      BY DEF ChaosTypeOK
    <3> QED
      BY <3>1 DEF ChaosTypeOK
  <2>2. OrderInv' /\ DropinInv'
    BY DEF OrderInv, DropinInv, TimerInv
  <2>3. TimerInv' /\ ResultInv' /\ JoinedInv'
    BY DEF ChaosTypeOK, OrderInv, TimerInv, ResultInv, JoinedInv, Unset
  <2> QED
    BY <2>1, <2>2, <2>3
<1>6. CASE WriteArtefacts
  <2> USE <1>6 DEF WriteArtefacts
  <2>1. ChaosTypeOK'
    BY DEF ChaosTypeOK, Unset
  <2>2. OrderInv' /\ DropinInv'
    BY DEF OrderInv, DropinInv, TimerInv
  <2>3. TimerInv' /\ ResultInv' /\ JoinedInv'
    BY DEF ChaosTypeOK, OrderInv, TimerInv, ResultInv, JoinedInv, Unset
  <2> QED
    BY <2>1, <2>2, <2>3
<1> QED
  BY <1>1, <1>2, <1>3, <1>4, <1>5, <1>6

(* The timer and the target.                                               *)
LEMMA TimerKeeps == ChaosInv /\ (Timer \/ Target) => ChaosInv'
<1> SUFFICES ASSUME ChaosInv, Timer \/ Target PROVE ChaosInv'
  OBVIOUS
<1> USE DEF ChaosInv, At, params, runVars, timerVars, resultVars, targetVars, Timer, Target
<1>1. CASE Wake
  <2> USE <1>1 DEF Wake
  <2>1. ChaosTypeOK'
    BY DEF ChaosTypeOK, Unset
  <2>2. OrderInv' /\ DropinInv'
    BY DEF OrderInv, DropinInv, TimerInv
  <2>3. TimerInv' /\ ResultInv' /\ JoinedInv'
    BY DEF ChaosTypeOK, OrderInv, TimerInv, ResultInv, JoinedInv, Unset
  <2> QED
    BY <2>1, <2>2, <2>3
<1>2. CASE Check
  <2> USE <1>2 DEF Check
  <2>1. ChaosTypeOK'
    BY DEF ChaosTypeOK, Unset
  <2>2. OrderInv' /\ DropinInv'
    BY DEF OrderInv, DropinInv, TimerInv
  <2>3. TimerInv' /\ ResultInv' /\ JoinedInv'
    BY DEF ChaosTypeOK, OrderInv, TimerInv, ResultInv, JoinedInv, Unset
  <2> QED
    BY <2>1, <2>2, <2>3
<1>3. CASE CountStops
  <2> USE <1>3 DEF CountStops
  <2>1. ChaosTypeOK'
    BY DEF ChaosTypeOK, Unset
  <2>2. OrderInv' /\ DropinInv'
    BY DEF OrderInv, DropinInv, TimerInv
  <2>3. TimerInv' /\ ResultInv' /\ JoinedInv'
    BY DEF ChaosTypeOK, OrderInv, TimerInv, ResultInv, JoinedInv, Unset
  <2> QED
    BY <2>1, <2>2, <2>3
<1>4. CASE Inject
  <2> USE <1>4 DEF Inject
  <2>1. ChaosTypeOK'
    BY DEF ChaosTypeOK, Unset
  <2>2. OrderInv' /\ DropinInv'
    BY DEF OrderInv, DropinInv, TimerInv
  <2>3. TimerInv' /\ ResultInv' /\ JoinedInv'
    BY DEF ChaosTypeOK, OrderInv, TimerInv, ResultInv, JoinedInv, Unset
  <2> QED
    BY <2>1, <2>2, <2>3
<1>5. CASE Reply
  <2> USE <1>5 DEF Reply
  <2>1. ChaosTypeOK'
    <3>1. answer' \in {Unset, "yes", "no", "none"} /\ severed' \in BOOLEAN
      BY DEF ChaosTypeOK
    <3>2. UNCHANGED <<params, runVars, injected, resultVars, targetVars>> /\ tpc' = "update"
      OBVIOUS
    <3> QED
      BY <3>1, <3>2 DEF ChaosTypeOK
  <2>2. OrderInv' /\ DropinInv'
    BY DEF OrderInv, DropinInv, TimerInv
  <2>3. TimerInv' /\ ResultInv' /\ JoinedInv'
    BY DEF ChaosTypeOK, OrderInv, TimerInv, ResultInv, JoinedInv, Unset
  <2> QED
    BY <2>1, <2>2, <2>3
<1>6. CASE Update
  <2> USE <1>6 DEF Update
  <2>1. ChaosTypeOK'
    <3>1. injected' \in [landed : {Unset, "yes", "no", "none"},
                         monotonic : BOOLEAN, offset : BOOLEAN]
      BY DEF ChaosTypeOK
    <3> QED
      BY <3>1 DEF ChaosTypeOK
  <2>2. OrderInv' /\ DropinInv'
    BY DEF OrderInv, DropinInv, TimerInv
  <2>3. TimerInv' /\ ResultInv' /\ JoinedInv'
    <3>1. CASE tpc = "update"
      <4>1. injected = [landed |-> Unset, monotonic |-> FALSE, offset |-> FALSE]
        BY <3>1 DEF TimerInv
      <4>2. injected' = [landed |-> answer, monotonic |-> TRUE, offset |-> FALSE]
        BY <3>1, <4>1
      <4>3. /\ injected'.landed = answer
            /\ injected'.monotonic = TRUE /\ injected'.offset = FALSE
        BY <4>2
      <4>4. TimerInv'
        BY <3>1, <4>3 DEF TimerInv
      <4>5. rto' = rto /\ pc' = pc /\ ~injected.offset /\ ~injected.monotonic
            /\ events' = events /\ injected.landed # "no"
        BY <4>1 DEF Unset
      <4>6. ResultInv'
        BY <4>3, <4>5 DEF ResultInv
      <4>7. JoinedInv'
        BY <3>1 DEF JoinedInv
      <4> QED
        BY <4>4, <4>6, <4>7
    <3>2. CASE tpc = "offset"
      <4>1. /\ injected'.landed = injected.landed
            /\ injected'.monotonic = injected.monotonic /\ injected'.offset = TRUE
        BY <3>2 DEF ChaosTypeOK
      <4> QED
        BY <3>2, <4>1 DEF TimerInv, ResultInv, JoinedInv
    <3> QED
      BY <3>1, <3>2
  <2> QED
    BY <2>1, <2>2, <2>3
<1>7. CASE PayloadRuns
  <2> USE <1>7 DEF PayloadRuns
  <2>1. ChaosTypeOK'
    <3>1. dropin' \in BOOLEAN
      BY DEF ChaosTypeOK
    <3> QED
      BY <3>1 DEF ChaosTypeOK
  <2>2. OrderInv' /\ DropinInv'
    BY DEF OrderInv, DropinInv, TimerInv
  <2>3. TimerInv' /\ ResultInv' /\ JoinedInv'
    BY DEF ChaosTypeOK, OrderInv, TimerInv, ResultInv, JoinedInv, Unset
  <2> QED
    BY <2>1, <2>2, <2>3
<1>8. CASE PayloadLost
  <2> USE <1>8 DEF PayloadLost
  <2>1. ChaosTypeOK'
    BY DEF ChaosTypeOK, Unset
  <2>2. OrderInv' /\ DropinInv'
    BY DEF OrderInv, DropinInv, TimerInv
  <2>3. TimerInv' /\ ResultInv' /\ JoinedInv'
    BY DEF ChaosTypeOK, OrderInv, TimerInv, ResultInv, JoinedInv, Unset
  <2> QED
    BY <2>1, <2>2, <2>3
<1> QED
  BY <1>1, <1>2, <1>3, <1>4, <1>5, <1>6, <1>7, <1>8

LEMMA ChaosInductive == ChaosInv /\ [Next]_vars => ChaosInv'
<1> SUFFICES ASSUME ChaosInv, UNCHANGED chaosVars PROVE ChaosInv'
  BY MainStartKeeps, MainStopKeeps, MainDeriveKeeps, TimerKeeps
     DEF Next, Main, AfterStream, DatabaseStep, WriterStep, vars
<1> QED
  BY DEF ChaosInv, ChaosTypeOK, OrderInv, TimerInv, DropinInv, ResultInv,
         JoinedInv, chaosVars, params, runVars, timerVars, resultVars, targetVars

-----------------------------------------------------------------------------
(* The invariant holds of every run.                                       *)
THEOREM RunInvariance == Spec => []ChaosInv
BY ChaosInitial, ChaosInductive, PTL DEF Spec

(* Every variable of the run, the audit's included, keeps its type.        *)
THEOREM RunTypeCorrectness == Spec => []TypeOK
<1>1. AuditTypeOK /\ ChaosInv => TypeOK
  BY DEF ChaosInv, TypeOK
<1> QED
  BY <1>1, RunInvariance, RunImplementsAudit, AuditTypeCorrectness, PTL DEF ContainsAudit

(* The fault only ever goes out after a real sample of the generator.      *)
THEOREM FaultFollowsSample == Spec => []FaultAfterSample
<1>1. ChaosInv => FaultAfterSample
  BY DEF ChaosInv, OrderInv, FaultAfterSample
<1> QED
  BY <1>1, RunInvariance, PTL

(* The three results follow the fault command, agree once the timer was    *)
(* joined, and no command's own exit status hides a hit.                   *)
THEOREM RecordedTruth == Spec => []RecordIsTrue
<1>1. ChaosInv => RecordIsTrue
  BY DEF ChaosInv, ChaosTypeOK, TimerInv, ResultInv, JoinedInv, RecordIsTrue
<1> QED
  BY <1>1, RunInvariance, PTL

(* A killed target is restarted, and the drop-in is left alone only after  *)
(* a fault command that failed half way, unless ssh itself reported that   *)
(* its connection broke.                                                   *)
THEOREM KilledIsRestored == Spec => []KilledTargetIsRestored
<1>1. ChaosInv => KilledTargetIsRestored
  BY DEF ChaosInv, TimerInv, DropinInv, ResultInv, KilledTargetIsRestored
<1> QED
  BY <1>1, RunInvariance, PTL
=============================================================================
