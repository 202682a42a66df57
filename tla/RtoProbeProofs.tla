--------------------------- MODULE RtoProbeProofs ---------------------------
(***************************************************************************)
(* Proofs about RtoProbe for every size of the pool and every number of    *)
(* ticks.  One inductive invariant, IInv, carries all of it: permits are   *)
(* conserved, numbers move from the queue through one worker to one entry  *)
(* of the attempts, and a thread stop() has joined has ended.              *)
(***************************************************************************)
EXTENDS RtoProbe, FiniteSetTheorems, SequenceTheorems, TLAPS

-----------------------------------------------------------------------------
(* A worker thread exists once the dispatcher does, and leaves its loop    *)
(* only after stop.                                                        *)
ThreadsInv ==
  /\ main = "new" => dpc = "off" /\ ~stop /\ \A w \in Workers : wpc[w] = "off"
  /\ dpc # "off" => \A w \in Workers : wpc[w] # "off"
  /\ ~stop => \A w \in Workers : wpc[w] # "done"
  /\ ~stop => dpc # "done"
  /\ main \in {"joining", "stopped"} => stop

(* What stop() knows of the threads it has joined.                         *)
JoinedInv ==
  /\ main \in {"new", "running"} => joinIdx = 1
  /\ main = "stopped" => joinIdx > Dispatcher
  /\ ~abandoned => \A t \in 1 .. Dispatcher : t < joinIdx => Ended(t)

(* Numbers are queued in the order in which they were drawn, every number  *)
(* out of the queue is older than those in it.                             *)
QueueInv ==
  /\ \A i \in 1 .. Len(queue) : queue[i] \in 1 .. seq
  /\ \A i, j \in 1 .. Len(queue) : i < j => queue[i] < queue[j]
  /\ \A n \in canary \cup Recorded \cup {job[w] : w \in Workers} :
       /\ n \in 0 .. seq
       /\ \A i \in 1 .. Len(queue) : n < queue[i]

(* A number taken from the queue belongs to one worker until it is         *)
(* recorded, and is written at most once.                                  *)
JobsInv ==
  /\ \A w \in Workers : wpc[w] \in Busy => job[w] # 0
  /\ \A v, w \in Workers : job[v] = job[w] /\ job[v] # 0 => v = w
  /\ \A w \in Workers :
       /\ wpc[w] = "attempt" => job[w] \notin canary \cup Recorded
       /\ wpc[w] = "record" => /\ job[w] \notin Recorded
                               /\ outcome[w] \in {"ok", "failed"}
                               /\ outcome[w] = "ok" => job[w] \in canary

AttemptsInv ==
  /\ \A i, j \in 1 .. Len(attempts) :
       attempts[i].seq = attempts[j].seq => i = j
  /\ \A i \in 1 .. Len(attempts) :
       attempts[i].outcome = "ok" => attempts[i].seq \in canary

(* A number is never forgotten: it is queued, with a worker, or recorded.  *)
LedgerInv ==
  \A n \in 1 .. seq :
    \/ n \in Recorded
    \/ \E i \in 1 .. Len(queue) : queue[i] = n
    \/ \E w \in Workers : wpc[w] \in {"attempt", "record"} /\ job[w] = n

IInv ==
  /\ TypeOK
  /\ PermitsConserved
  /\ ThreadsInv
  /\ JoinedInv
  /\ QueueInv
  /\ JobsInv
  /\ AttemptsInv
  /\ LedgerInv

-----------------------------------------------------------------------------
LEMMA InitIInv == Init => IInv
<1> SUFFICES ASSUME Init PROVE IInv
  OBVIOUS
<1>1. TypeOK
  <2>1. joinIdx \in 1 .. Dispatcher + 1 /\ idle \in Nat
    BY NWorkersAssumption DEF Init, Dispatcher
  <2>2. /\ wpc \in [Workers -> Busy \cup {"off", "loop", "get", "done", "dead"}]
        /\ job \in [Workers -> Nat]
        /\ outcome \in [Workers -> {"none", "ok", "failed"}]
    BY DEF Init
  <2>3. queue \in Seq(Nat \ {0}) /\ attempts \in Seq(Attempt)
    BY DEF Init
  <2>4. QED
    BY <2>1, <2>2, <2>3 DEF TypeOK, Init
<1>2. PermitsConserved
  <2>1. Holders = {}
    BY DEF Init, Holders, Busy
  <2>2. QED
    BY <2>1, FS_EmptySet, NWorkersAssumption DEF Init, PermitsConserved
<1>3. Recorded = {}
  BY DEF Init, Recorded
<1>4. ThreadsInv /\ JoinedInv
  BY NWorkersAssumption DEF Init, ThreadsInv, JoinedInv, Dispatcher
<1>5. QueueInv /\ JobsInv /\ AttemptsInv /\ LedgerInv
  BY <1>3 DEF Init, QueueInv, JobsInv, AttemptsInv, LedgerInv, Busy
<1>6. QED
  BY <1>1, <1>2, <1>4, <1>5 DEF IInv

-----------------------------------------------------------------------------
(* The steps that move no number: neither queue nor locals nor records     *)
(* change, and a worker that moves is one without a permit.                *)
Quiet ==
  /\ UNCHANGED <<queue, seq, job, outcome, canary, attempts>>
  /\ \A w \in Workers :
       \/ wpc'[w] = wpc[w]
       \/ wpc[w] \notin Busy \cup {"dead"} /\ wpc'[w] \notin Busy \cup {"dead"}

(* The steps that do.                                                      *)
Moves(w) == Take(w) \/ Served(w) \/ Failed(w) \/ Record(w) \/ RecordRaises(w)
            \/ Release(w)

LEMMA QuietOrMoves ==
  ASSUME TypeOK, ThreadsInv, [Next]_vars
  PROVE  Quiet \/ Put \/ CommitsLate \/ \E w \in Workers : Moves(w)
<1> USE DEF mainVars, dispatchVars, workerVars, Quiet
<1>1. CASE Start \/ StartFails
  BY <1>1 DEF Start, StartFails, ThreadsInv, Busy, TypeOK
<1>2. CASE RequestStop \/ Join \/ JoinTimesOut \/ Summarise
  BY <1>2 DEF RequestStop, Join, JoinTimesOut, Summarise
<1>3. CASE Tick \/ Acquire \/ DispatcherStops
  BY <1>3 DEF Tick, Acquire, DispatcherStops
<1>4. ASSUME NEW w \in Workers, Loop(w) \/ Empty(w) PROVE Quiet
  BY <1>4 DEF Loop, Empty, Busy, TypeOK
<1>5. CASE PipeBreaks
  BY <1>5 DEF PipeBreaks
<1>6. CASE UNCHANGED vars
  BY <1>6 DEF vars
<1>7. QED
  BY <1>1, <1>2, <1>3, <1>4, <1>5, <1>6
     DEF Next, Owner, Dispatch, Local, Statement, Moves

-----------------------------------------------------------------------------
(* A number that may still be committed is not one a worker is about to    *)
(* write: its worker has the failure in hand, or has recorded it.          *)
LEMMA LateCommit ==
  ASSUME TypeOK, JobsInv, NEW n \in Unanswered
  PROVE  /\ n \in Recorded \cup {job[w] : w \in Workers}
         /\ n \in Nat \ {0}
         /\ \A w \in Workers : wpc[w] = "attempt" => job[w] # n
<1>1. /\ attempts \in Seq(Attempt) /\ DOMAIN attempts = 1 .. Len(attempts)
      /\ job \in [Workers -> Nat]
  BY DEF TypeOK
<1>2. CASE \E v \in Workers : wpc[v] = "record" /\ job[v] = n
  <2>1. PICK v \in Workers : wpc[v] = "record" /\ job[v] = n
    BY <1>2
  <2>2. job[v] # 0
    BY <2>1 DEF JobsInv, Busy
  <2>3. QED
    BY <1>1, <2>1, <2>2 DEF JobsInv
<1>3. CASE \E i \in DOMAIN attempts : attempts[i].seq = n
  <2>1. n \in Recorded
    BY <1>3 DEF Recorded
  <2>2. PICK i \in DOMAIN attempts : attempts[i].seq = n
    BY <1>3
  <2>3. attempts[i] \in Attempt
    BY <1>1
  <2>4. n \in Nat \ {0}
    BY <2>2, <2>3 DEF Attempt
  <2>5. QED
    BY <2>1, <2>4 DEF JobsInv
<1>4. QED
  BY <1>2, <1>3 DEF Unanswered

LEMMA TypeOKStep == TypeOK /\ JobsInv /\ [Next]_vars => TypeOK'
<1> SUFFICES ASSUME TypeOK, JobsInv, [Next]_vars PROVE TypeOK'
  OBVIOUS
<1> USE DEF mainVars, dispatchVars, workerVars
<1>1. attempts \in Seq(Attempt) /\ queue \in Seq(Nat \ {0}) /\ seq \in Nat
  BY DEF TypeOK
<1>2. CASE Start \/ StartFails
  BY <1>2 DEF Start, StartFails, TypeOK
<1>3. CASE RequestStop \/ Summarise
  BY <1>3 DEF RequestStop, Summarise, TypeOK
<1>4. CASE Join \/ JoinTimesOut
  <2>1. joinIdx' \in 1 .. Dispatcher + 1
    BY <1>4, NWorkersAssumption DEF Join, JoinTimesOut, Dispatcher, TypeOK
  <2>2. QED
    BY <1>4, <2>1 DEF Join, JoinTimesOut, TypeOK
<1>5. CASE Tick
  BY <1>5 DEF Tick, TypeOK
<1>6. CASE Acquire
  <2>1. idle' \in Nat /\ saturation' \in Nat /\ dpc' \in {"put", "tick"}
    BY <1>6 DEF Acquire, TypeOK
  <2>2. QED
    BY <1>6, <2>1 DEF Acquire, TypeOK
<1>7. CASE Put
  <2>1. seq' \in Nat /\ saturation' \in Nat /\ idle' \in Nat
    BY <1>7 DEF Put, TypeOK
  <2>2. queue' \in Seq(Nat \ {0})
    <3>1. queue' = queue \/ queue' = Append(queue, seq + 1)
      BY <1>7 DEF Put
    <3>2. seq + 1 \in Nat \ {0}
      BY <1>1
    <3>3. QED
      BY SMTT(30), <1>1, <3>1, <3>2, AppendProperties
  <2>3. QED
    BY <1>7, <2>1, <2>2 DEF Put, TypeOK
<1>8. CASE DispatcherStops
  BY <1>8 DEF DispatcherStops, TypeOK
<1>9. ASSUME NEW w \in Workers, Local(w) PROVE TypeOK'
  <2>1. CASE Loop(w)
    BY <2>1 DEF Loop, TypeOK
  <2>2. CASE Empty(w)
    BY <2>2 DEF Empty, TypeOK
  <2>3. CASE Take(w)
    BY <2>3 DEF Take, TypeOK, Busy
  <2>4. CASE Record(w) \/ RecordRaises(w)
    <3>1. [seq |-> job[w], outcome |-> outcome[w]] \in Attempt
      BY <2>4 DEF Record, RecordRaises, JobsInv, Busy, Attempt, TypeOK
    <3>2. attempts' = Append(attempts, [seq |-> job[w], outcome |-> outcome[w]])
      BY <2>4 DEF Record, RecordRaises, Keep
    <3>3. attempts' \in Seq(Attempt)
      BY <3>1, <3>2, <1>1
    <3>4. QED
      BY <2>4, <3>3 DEF Record, RecordRaises, Busy, TypeOK
  <2>5. CASE Release(w)
    BY <2>5 DEF Release, TypeOK
  <2>6. QED
    BY <1>9, <2>1, <2>2, <2>3, <2>4, <2>5 DEF Local
<1>10. ASSUME NEW w \in Workers, Statement(w) PROVE TypeOK'
  <2>1. job[w] \in Nat \ {0}
    BY <1>10 DEF Statement, Served, Failed, JobsInv, Busy, TypeOK
  <2>2. QED
    BY ZenonT(40), <1>10, <2>1 DEF Statement, Served, Failed, Busy, TypeOK
<1>11. CASE PipeBreaks
  BY <1>11 DEF PipeBreaks, TypeOK
<1>12. CASE UNCHANGED vars
  BY <1>12 DEF vars, TypeOK
<1>13. CASE CommitsLate
  <2>1. canary' \subseteq Nat \ {0}
    BY <1>13, LateCommit DEF CommitsLate, TypeOK
  <2>2. QED
    BY <1>13, <2>1 DEF CommitsLate, TypeOK
<1>14. QED
  BY <1>2, <1>3, <1>4, <1>5, <1>6, <1>7, <1>8, <1>9, <1>10, <1>11, <1>12, <1>13
     DEF Next, Owner, Dispatch

-----------------------------------------------------------------------------
(* Permits.                                                                *)

LEMMA HoldersFinite == IsFiniteSet(Holders) /\ Cardinality(Holders) \in Nat
<1>1. IsFiniteSet(Workers)
  BY NWorkersAssumption, FS_Interval DEF Workers
<1>2. Holders \subseteq Workers
  BY DEF Holders
<1>3. QED
  BY <1>1, <1>2, FS_Subset, FS_CardinalityType

(* A worker that takes or gives back its permit changes the count by one.  *)
LEMMA HolderEnters ==
  ASSUME NEW w \in Workers, Holders' = Holders \cup {w}, w \notin Holders
  PROVE  Cardinality(Holders') = Cardinality(Holders) + 1
BY HoldersFinite, FS_AddElement

LEMMA HolderLeaves ==
  ASSUME NEW w \in Holders, Holders' = Holders \ {w}
  PROVE  Cardinality(Holders') = Cardinality(Holders) - 1
BY HoldersFinite, FS_RemoveElement

LEMMA PermitsStep ==
  TypeOK /\ ThreadsInv /\ PermitsConserved /\ [Next]_vars => PermitsConserved'
<1> SUFFICES ASSUME TypeOK, ThreadsInv, PermitsConserved, [Next]_vars
             PROVE  PermitsConserved'
  OBVIOUS
<1> USE DEF mainVars, dispatchVars, workerVars
<1>1. /\ Cardinality(Holders) \in Nat /\ Len(queue) \in Nat /\ idle \in Nat
      /\ NWorkers \in Nat /\ queue \in Seq(Nat \ {0})
      /\ wpc \in [Workers -> Busy \cup {"off", "loop", "get", "done", "dead"}]
  BY HoldersFinite, NWorkersAssumption DEF TypeOK
<1>2. CASE Quiet
  <2>1. Holders' = Holders
    BY <1>2 DEF Quiet, Holders
  <2>2. queue' = queue
    BY <1>2 DEF Quiet
  <2>3. CASE Acquire
    BY <2>1, <2>2, <2>3, <1>1 DEF Acquire, PermitsConserved
  <2>4. CASE idle' = idle /\ (dpc = "put" <=> dpc' = "put")
    BY <2>1, <2>2, <2>4 DEF PermitsConserved
  <2>5. CASE Owner \/ PipeBreaks \/ UNCHANGED vars
    <3>1. idle' = idle /\ (dpc = "put" <=> dpc' = "put")
      BY <2>5 DEF Owner, Start, StartFails, RequestStop, Join, JoinTimesOut,
                  Summarise, PipeBreaks, vars, ThreadsInv
    <3>2. QED
      BY <3>1, <2>4
  <2>6. CASE Tick \/ DispatcherStops
    BY <2>6, <2>4 DEF Tick, DispatcherStops
  <2>7. ASSUME NEW w \in Workers, Local(w) \/ Statement(w)
        PROVE  PermitsConserved'
    <3>1. CASE Loop(w) \/ Empty(w)
      BY <3>1, <2>4 DEF Loop, Empty
    <3>2. CASE Served(w) \/ Failed(w) \/ Record(w) \/ RecordRaises(w)
      BY <3>2, <2>4 DEF Served, Failed, Record, RecordRaises
    <3>3. CASE Take(w) \/ Release(w)
      <4>1. \/ wpc[w] = "get" /\ wpc'[w] = "attempt"
            \/ wpc[w] = "release" /\ wpc'[w] = "loop"
        BY <3>3, <1>1 DEF Take, Release
      <4>2. QED
        BY <4>1, <1>2 DEF Quiet, Busy
    <3>4. QED
      BY <2>7, <3>1, <3>2, <3>3 DEF Local, Statement
  <2>8. CASE Put
    BY <2>8, <1>2, <1>1 DEF Put, Quiet, TypeOK
  <2>9. CASE CommitsLate
    BY <2>9, <2>4 DEF CommitsLate
  <2>10. QED
    BY <2>3, <2>5, <2>6, <2>7, <2>8, <2>9 DEF Next, Dispatch
<1>3. CASE Put
  <2>1. Holders' = Holders
    BY <1>3 DEF Put, Holders
  <2>2. CASE Len(queue) < NWorkers
    <3>1. Len(queue') = Len(queue) + 1
      <4>1. seq + 1 \in Nat \ {0} /\ queue' = Append(queue, seq + 1)
        BY <1>3, <2>2 DEF Put, TypeOK
      <4>2. QED
        BY <4>1, <1>1, AppendProperties
    <3>2. QED
      BY <1>3, <2>1, <2>2, <3>1, <1>1 DEF Put, PermitsConserved
  <2>3. CASE ~(Len(queue) < NWorkers)
    BY <1>3, <2>1, <2>3, <1>1 DEF Put, PermitsConserved
  <2>4. QED
    BY <2>2, <2>3
<1>4. ASSUME NEW w \in Workers, Moves(w) PROVE PermitsConserved'
  <2>1. CASE Take(w)
    <3>1. Holders' = Holders \cup {w} /\ w \notin Holders
      BY <2>1, <1>1 DEF Take, Holders, Busy
    <3>2. Len(queue') = Len(queue) - 1
      BY <2>1, <1>1, HeadTailProperties DEF Take
    <3>3. Cardinality(Holders') = Cardinality(Holders) + 1
      BY <3>1, HolderEnters
    <3>4. QED
      BY <2>1, <3>2, <3>3, <1>1 DEF Take, PermitsConserved
  <2>2. CASE Served(w) \/ Failed(w)
    <3>1. Holders' = Holders
      BY <2>2, <1>1 DEF Served, Failed, Holders, Busy
    <3>2. QED
      BY <2>2, <3>1 DEF Served, Failed, PermitsConserved
  <2>3. CASE Record(w) \/ RecordRaises(w)
    <3>1. Holders' = Holders
      BY <2>3, <1>1 DEF Record, RecordRaises, Holders, Busy
    <3>2. QED
      BY <2>3, <3>1 DEF Record, RecordRaises, PermitsConserved
  <2>4. CASE Release(w)
    <3>1. Holders' = Holders \ {w} /\ w \in Holders
      BY <2>4, <1>1 DEF Release, Holders, Busy
    <3>2. Cardinality(Holders') = Cardinality(Holders) - 1
      BY <3>1, HolderLeaves
    <3>3. QED
      BY <2>4, <3>2, <1>1 DEF Release, PermitsConserved
  <2>5. QED
    BY <1>4, <2>1, <2>2, <2>3, <2>4 DEF Moves
<1>5. CASE CommitsLate
  <2>1. Holders' = Holders
    BY <1>5 DEF CommitsLate, Holders
  <2>2. QED
    BY <1>5, <2>1 DEF CommitsLate, PermitsConserved
<1>6. QED
  BY <1>2, <1>3, <1>4, <1>5, QuietOrMoves

-----------------------------------------------------------------------------
(* Threads.                                                                *)

LEMMA ThreadsStep == TypeOK /\ ThreadsInv /\ [Next]_vars => ThreadsInv'
<1> SUFFICES ASSUME TypeOK, ThreadsInv, [Next]_vars PROVE ThreadsInv'
  OBVIOUS
<1> USE DEF ThreadsInv, mainVars, dispatchVars, workerVars
<1>1. CASE Start \/ StartFails
  BY <1>1 DEF Start, StartFails
<1>2. CASE RequestStop
  BY <1>2 DEF RequestStop
<1>3. CASE Join \/ JoinTimesOut \/ Summarise
  BY <1>3 DEF Join, JoinTimesOut, Summarise
<1>4. CASE Dispatch
  BY <1>4 DEF Dispatch, Tick, Acquire, Put, DispatcherStops
<1>5. ASSUME NEW w \in Workers, Local(w) \/ Statement(w) PROVE ThreadsInv'
  <2>1. /\ wpc[w] # "off" /\ wpc' = [wpc EXCEPT ![w] = wpc'[w]]
        /\ wpc'[w] # "off" /\ (wpc'[w] = "done" => stop)
        /\ UNCHANGED <<main, dpc, stop>>
    BY <1>5 DEF Local, Statement, Loop, Take, Empty, Served, Failed, Record,
                RecordRaises, Release, TypeOK
  <2>2. QED
    BY <2>1 DEF TypeOK
<1>6. CASE PipeBreaks \/ CommitsLate \/ UNCHANGED vars
  BY <1>6 DEF PipeBreaks, CommitsLate, vars
<1>7. QED
  BY <1>1, <1>2, <1>3, <1>4, <1>5, <1>6 DEF Next, Owner

LEMMA JoinedStep ==
  TypeOK /\ ThreadsInv /\ JoinedInv /\ [Next]_vars => JoinedInv'
<1> SUFFICES ASSUME TypeOK, ThreadsInv, JoinedInv, [Next]_vars PROVE JoinedInv'
  OBVIOUS
<1> USE DEF mainVars, dispatchVars, workerVars
<1>1. joinIdx \in Nat /\ Dispatcher \in Nat /\ Workers = 1 .. NWorkers
      /\ NWorkers \in Nat /\ Dispatcher = NWorkers + 1
  BY NWorkersAssumption DEF TypeOK, Dispatcher, Workers
<1>2. CASE Start \/ StartFails \/ RequestStop
  BY <1>2, <1>1 DEF Start, StartFails, RequestStop, JoinedInv
<1>3. CASE Join
  BY <1>3, <1>1 DEF Join, JoinedInv, Ended
<1>4. CASE JoinTimesOut
  BY <1>4, <1>1 DEF JoinTimesOut, JoinedInv
<1>5. CASE Summarise
  BY <1>5, <1>1 DEF Summarise, JoinedInv, Ended
<1>6. CASE Dispatch
  <2>1. UNCHANGED <<mainVars, wpc>>
    BY <1>6 DEF Dispatch, Tick, Acquire, Put, DispatcherStops
  <2>2. dpc \notin {"off", "done"}
    BY <1>6 DEF Dispatch, Tick, Acquire, Put, DispatcherStops
  <2>3. \A t \in 1 .. Dispatcher : Ended(t) => Ended(t)'
    BY <2>1, <2>2, <1>1 DEF Ended
  <2>4. QED
    BY <2>1, <2>3, <1>1 DEF JoinedInv
<1>7. ASSUME NEW w \in Workers, Local(w) \/ Statement(w) PROVE JoinedInv'
  <2>1. /\ wpc[w] \notin {"off", "done", "dead"}
        /\ wpc' = [wpc EXCEPT ![w] = wpc'[w]]
        /\ UNCHANGED <<mainVars, dpc>>
    BY <1>7 DEF Local, Statement, Loop, Take, Empty, Served, Failed, Record,
                RecordRaises, Release, TypeOK
  <2>2. \A t \in 1 .. Dispatcher : Ended(t) => Ended(t)'
    BY <2>1, <1>1 DEF Ended, TypeOK
  <2>3. QED
    BY <2>1, <2>2, <1>1 DEF JoinedInv
<1>8. CASE PipeBreaks \/ CommitsLate \/ UNCHANGED vars
  <2>1. UNCHANGED <<mainVars, dpc, wpc>>
    BY <1>8 DEF PipeBreaks, CommitsLate, vars
  <2>2. QED
    BY <2>1 DEF JoinedInv, Ended
<1>9. QED
  BY <1>2, <1>3, <1>4, <1>5, <1>6, <1>7, <1>8 DEF Next, Owner

-----------------------------------------------------------------------------
(* Numbers.                                                                *)

(* What taking, appending and recording do to the sequences.               *)
LEMMA TakeEffect ==
  ASSUME TypeOK, NEW w \in Workers, Take(w)
  PROVE  /\ Len(queue') = Len(queue) - 1 /\ Len(queue) \in Nat \ {0}
         /\ \A i \in 1 .. Len(queue') : queue'[i] = queue[i + 1]
         /\ job' = [job EXCEPT ![w] = queue[1]]
         /\ wpc' = [wpc EXCEPT ![w] = "attempt"]
         /\ UNCHANGED <<seq, outcome, canary, attempts>>
<1>1. queue \in Seq(Nat \ {0}) /\ queue # <<>>
  BY DEF Take, TypeOK
<1>2. Len(queue) \in Nat \ {0} /\ Head(queue) = queue[1]
  BY <1>1, EmptySeq
<1>3. QED
  BY <1>1, <1>2, HeadTailProperties DEF Take, dispatchVars

LEMMA PutEffect ==
  ASSUME TypeOK, PermitsConserved, Put
  PROVE  /\ Len(queue) < NWorkers
         /\ Len(queue') = Len(queue) + 1 /\ Len(queue) \in Nat
         /\ \A i \in 1 .. Len(queue) : queue'[i] = queue[i]
         /\ queue'[Len(queue) + 1] = seq + 1
         /\ seq' = seq + 1
         /\ UNCHANGED <<wpc, job, outcome, canary, attempts>>
<1>1. queue \in Seq(Nat \ {0}) /\ Len(queue) \in Nat /\ seq + 1 \in Nat \ {0}
  BY DEF TypeOK
<1>2. Len(queue) < NWorkers
  BY <1>1, HoldersFinite, NWorkersAssumption DEF Put, PermitsConserved, TypeOK
<1>3. queue' = Append(queue, seq + 1)
  BY <1>2 DEF Put
<1>4. QED
  BY <1>1, <1>2, <1>3, AppendProperties DEF Put, workerVars

LEMMA RecordEffect ==
  ASSUME TypeOK, JobsInv, NEW w \in Workers, Record(w) \/ RecordRaises(w)
  PROVE  /\ Len(attempts') = Len(attempts) + 1 /\ Len(attempts) \in Nat
         /\ \A i \in 1 .. Len(attempts) : attempts'[i] = attempts[i]
         /\ attempts'[Len(attempts) + 1].seq = job[w]
         /\ attempts'[Len(attempts) + 1].outcome = outcome[w]
         /\ Recorded' = Recorded \cup {job[w]}
         /\ wpc[w] = "record" /\ wpc'[w] \in {"release", "dead"}
         /\ wpc' = [wpc EXCEPT ![w] = wpc'[w]]
         /\ UNCHANGED <<queue, seq, job, outcome, canary>>
<1> DEFINE a == [seq |-> job[w], outcome |-> outcome[w]]
<1>1. attempts \in Seq(Attempt) /\ Len(attempts) \in Nat
  BY DEF TypeOK
<1>2. a \in Attempt
  BY DEF Record, RecordRaises, JobsInv, Busy, Attempt, TypeOK
<1>3. attempts' = Append(attempts, a)
  BY DEF Record, RecordRaises, Keep
<1>4. a.seq = job[w] /\ a.outcome = outcome[w]
  OBVIOUS
<1> HIDE DEF a
<1>5. /\ attempts' \in Seq(Attempt)
      /\ Len(attempts') = Len(attempts) + 1
      /\ \A i \in 1 .. Len(attempts) : attempts'[i] = attempts[i]
      /\ attempts'[Len(attempts) + 1] = a
  BY <1>1, <1>2, <1>3, AppendProperties
<1>6. Recorded' = Recorded \cup {job[w]}
  <2>1. DOMAIN attempts = 1 .. Len(attempts)
        /\ DOMAIN attempts' = 1 .. Len(attempts) + 1
    BY <1>1, <1>5
  <2>2. QED
    BY <1>1, <1>4, <1>5, <2>1 DEF Recorded
<1>7. QED
  BY <1>1, <1>4, <1>5, <1>6 DEF Record, RecordRaises, TypeOK, dispatchVars

LEMMA QueueStep ==
  ASSUME IInv, [Next]_vars
  PROVE  QueueInv'
<1>1. /\ TypeOK /\ PermitsConserved /\ QueueInv /\ JobsInv
      /\ seq \in Nat /\ Len(queue) \in Nat
      /\ job \in [Workers -> Nat]
  BY DEF IInv, TypeOK
<1>2. CASE Quiet
  BY <1>2, <1>1 DEF Quiet, QueueInv, Recorded
<1>3. CASE Put
  <2>1. Recorded' = Recorded
    BY <1>1, <1>3, PutEffect DEF Recorded
  <2>2. \A n \in canary \cup Recorded \cup {job[v] : v \in Workers} :
          n \in 0 .. seq
    BY <1>1 DEF QueueInv
  <2>3. /\ Len(queue') = Len(queue) + 1 /\ seq' = seq + 1
        /\ \A i \in 1 .. Len(queue) : queue'[i] = queue[i]
        /\ queue'[Len(queue) + 1] = seq + 1
        /\ UNCHANGED <<job, canary>>
    BY <1>1, <1>3, PutEffect
  <2>4. \A i \in 1 .. Len(queue') : queue'[i] \in 1 .. seq'
    BY <1>1, <2>3 DEF QueueInv
  <2>5. \A i, j \in 1 .. Len(queue') : i < j => queue'[i] < queue'[j]
    <3> SUFFICES ASSUME NEW i \in 1 .. Len(queue'), NEW j \in 1 .. Len(queue'),
                        i < j
                 PROVE  queue'[i] < queue'[j]
      OBVIOUS
    <3>1. i \in 1 .. Len(queue) /\ queue'[i] = queue[i] /\ queue[i] \in 1 .. seq
      BY <1>1, <2>3 DEF QueueInv
    <3>2. CASE j = Len(queue) + 1
      BY <1>1, <2>3, <3>1, <3>2
    <3>3. CASE j \in 1 .. Len(queue)
      BY <1>1, <2>3, <3>1, <3>3 DEF QueueInv
    <3>4. QED
      BY <1>1, <2>3, <3>2, <3>3
  <2>6. \A n \in canary \cup Recorded \cup {job[v] : v \in Workers} :
          n \in 0 .. seq' /\ \A i \in 1 .. Len(queue') : n < queue'[i]
    <3> TAKE n \in canary \cup Recorded \cup {job[v] : v \in Workers}
    <3>1. n \in 0 .. seq /\ \A i \in 1 .. Len(queue) : n < queue[i]
      BY <1>1 DEF QueueInv
    <3>2. QED
      BY <1>1, <2>3, <3>1
  <2>7. QED
    BY <2>1, <2>3, <2>4, <2>5, <2>6 DEF QueueInv
<1>4. ASSUME NEW w \in Workers, Moves(w) PROVE QueueInv'
  <2>1. CASE Take(w)
    <3>1. Recorded' = Recorded
      BY <1>1, <2>1, TakeEffect DEF Recorded
    <3>2. \A n \in {job'[v] : v \in Workers} :
            n = queue[1] \/ n \in {job[v] : v \in Workers}
      BY <1>1, <2>1, TakeEffect
    <3>3. queue[1] \in 1 .. seq /\ \A i \in 2 .. Len(queue) : queue[1] < queue[i]
      BY <1>1, <2>1, TakeEffect DEF QueueInv
    <3>4. /\ Len(queue') = Len(queue) - 1 /\ Len(queue) \in Nat \ {0}
          /\ \A i \in 1 .. Len(queue') : queue'[i] = queue[i + 1]
          /\ UNCHANGED <<seq, canary>>
      BY <1>1, <2>1, TakeEffect
    <3>5. \A i \in 1 .. Len(queue') : /\ i + 1 \in 2 .. Len(queue)
                                       /\ queue'[i] \in 1 .. seq'
      BY <1>1, <3>4 DEF QueueInv
    <3>6. \A i, j \in 1 .. Len(queue') : i < j => queue'[i] < queue'[j]
      <4> SUFFICES ASSUME NEW i \in 1 .. Len(queue'), NEW j \in 1 .. Len(queue'),
                          i < j
                   PROVE  queue'[i] < queue'[j]
        OBVIOUS
      <4>1. /\ i + 1 \in 1 .. Len(queue) /\ j + 1 \in 1 .. Len(queue)
            /\ i + 1 < j + 1
        BY <3>4, <3>5
      <4>2. queue[i + 1] < queue[j + 1]
        BY <1>1, <4>1 DEF QueueInv
      <4>3. QED
        BY <3>4, <4>2
    <3>7. \A n \in canary \cup Recorded \cup {job'[v] : v \in Workers} :
            n \in 0 .. seq /\ \A i \in 2 .. Len(queue) : n < queue[i]
      <4> TAKE n \in canary \cup Recorded \cup {job'[v] : v \in Workers}
      <4>1. n = queue[1] \/ n \in canary \cup Recorded \cup {job[v] : v \in Workers}
        BY <3>2
      <4>2. CASE n = queue[1]
        BY <1>1, <3>3, <4>2
      <4>3. CASE n \in canary \cup Recorded \cup {job[v] : v \in Workers}
        BY <1>1, <4>3 DEF QueueInv
      <4>4. QED
        BY <4>1, <4>2, <4>3
    <3>8. \A n \in canary \cup Recorded \cup {job'[v] : v \in Workers} :
            n \in 0 .. seq' /\ \A i \in 1 .. Len(queue') : n < queue'[i]
      BY <3>4, <3>5, <3>7
    <3>9. QED
      BY <3>1, <3>4, <3>5, <3>6, <3>8 DEF QueueInv
  <2>2. CASE Served(w) \/ Failed(w)
    <3>1. /\ Recorded' = Recorded /\ canary' \subseteq canary \cup {job[w]}
          /\ UNCHANGED <<queue, seq, job>>
      BY <2>2 DEF Served, Failed, Recorded, dispatchVars
    <3>2. QED
      BY <1>1, <3>1 DEF QueueInv
  <2>3. CASE Record(w) \/ RecordRaises(w)
    BY <1>1, <2>3, RecordEffect DEF QueueInv
  <2>4. CASE Release(w)
    <3>1. /\ Recorded' = Recorded /\ job' = [job EXCEPT ![w] = 0]
          /\ UNCHANGED <<queue, seq, canary>>
      BY <2>4 DEF Release, Recorded, dispatchVars
    <3>2. \A n \in {job'[v] : v \in Workers} :
            n = 0 \/ n \in {job[v] : v \in Workers}
      BY <1>1, <3>1
    <3>3. QED
      BY <1>1, <3>1, <3>2 DEF QueueInv
  <2>5. QED
    BY <1>4, <2>1, <2>2, <2>3, <2>4 DEF Moves
<1>5. CASE CommitsLate
  <2>1. PICK n \in Unanswered \ canary : canary' = canary \cup {n}
    BY <1>5 DEF CommitsLate
  <2>2. /\ n \in Recorded \cup {job[v] : v \in Workers}
        /\ Recorded' = Recorded /\ UNCHANGED <<queue, seq, job>>
    BY <1>1, <1>5, <2>1, LateCommit
       DEF CommitsLate, Recorded, workerVars, dispatchVars
  <2>3. QED
    BY <1>1, <2>1, <2>2 DEF QueueInv
<1>6. QED
  BY <1>2, <1>3, <1>4, <1>5, QuietOrMoves DEF IInv

LEMMA JobsStep ==
  ASSUME IInv, [Next]_vars
  PROVE  JobsInv'
<1>1. /\ TypeOK /\ PermitsConserved /\ QueueInv /\ JobsInv
      /\ job \in [Workers -> Nat] /\ Len(queue) \in Nat
      /\ outcome \in [Workers -> {"none", "ok", "failed"}]
      /\ wpc \in [Workers -> Busy \cup {"off", "loop", "get", "done", "dead"}]
  BY DEF IInv, TypeOK
<1>2. CASE Quiet
  BY <1>2, <1>1 DEF Quiet, JobsInv, Recorded, Busy
<1>3. CASE Put
  <2>1. Recorded' = Recorded
    BY <1>1, <1>3, PutEffect DEF Recorded
  <2>2. QED
    BY <1>1, <1>3, <2>1, PutEffect DEF JobsInv
<1>4. ASSUME NEW w \in Workers, Moves(w) PROVE JobsInv'
  <2>1. CASE Take(w)
    <3>1. Recorded' = Recorded
      BY <1>1, <2>1, TakeEffect DEF Recorded
    <3>2. /\ queue[1] # 0 /\ queue[1] \notin canary \cup Recorded
          /\ \A v \in Workers : job[v] # queue[1]
      BY <1>1, <2>1, TakeEffect DEF QueueInv
    <3>3. QED
      BY SMTT(30), <1>1, <2>1, <3>1, <3>2, TakeEffect DEF JobsInv, Busy
  <2>2. CASE Served(w) \/ Failed(w)
    <3>1. /\ Recorded' = Recorded /\ canary' \subseteq canary \cup {job[w]}
          /\ canary \subseteq canary'
          /\ wpc[w] = "attempt" /\ wpc' = [wpc EXCEPT ![w] = "record"]
          /\ outcome' = [outcome EXCEPT ![w] = outcome'[w]]
          /\ outcome'[w] \in {"ok", "failed"}
          /\ outcome'[w] = "ok" => job[w] \in canary'
          /\ UNCHANGED job
      BY <1>1, <2>2 DEF Served, Failed, Recorded
    <3>2. job[w] # 0 /\ job[w] \notin Recorded
      BY <1>1, <3>1 DEF JobsInv, Busy
    <3>3. QED
      BY <1>1, <3>1, <3>2 DEF JobsInv, Busy
  <2>3. CASE Record(w) \/ RecordRaises(w)
    <3>1. job[w] # 0
      BY <1>1, <2>3, RecordEffect DEF JobsInv, Busy
    <3>2. QED
      BY <1>1, <2>3, <3>1, RecordEffect DEF JobsInv, Busy
  <2>4. CASE Release(w)
    <3>1. /\ Recorded' = Recorded /\ job' = [job EXCEPT ![w] = 0]
          /\ outcome' = [outcome EXCEPT ![w] = "none"]
          /\ wpc' = [wpc EXCEPT ![w] = "loop"]
          /\ UNCHANGED canary
      BY <2>4 DEF Release, Recorded
    <3>2. QED
      BY <1>1, <3>1 DEF JobsInv, Busy
  <2>5. QED
    BY <1>4, <2>1, <2>2, <2>3, <2>4 DEF Moves
<1>5. CASE CommitsLate
  <2>1. PICK n \in Unanswered \ canary : canary' = canary \cup {n}
    BY <1>5 DEF CommitsLate
  <2>2. /\ \A v \in Workers : wpc[v] = "attempt" => job[v] # n
        /\ Recorded' = Recorded /\ UNCHANGED <<wpc, job, outcome>>
    BY <1>1, <1>5, <2>1, LateCommit DEF CommitsLate, Recorded, workerVars
  <2>3. QED
    BY <1>1, <2>1, <2>2 DEF JobsInv
<1>6. QED
  BY <1>2, <1>3, <1>4, <1>5, QuietOrMoves DEF IInv

LEMMA AttemptsStep ==
  ASSUME IInv, [Next]_vars
  PROVE  AttemptsInv'
<1>1. /\ TypeOK /\ PermitsConserved /\ JobsInv /\ AttemptsInv
      /\ attempts \in Seq(Attempt) /\ Len(attempts) \in Nat
  BY DEF IInv, TypeOK
<1>2. CASE Quiet
  BY <1>2, <1>1 DEF Quiet, AttemptsInv
<1>3. CASE Put
  BY <1>1, <1>3, PutEffect DEF AttemptsInv
<1>4. ASSUME NEW w \in Workers, Moves(w) PROVE AttemptsInv'
  <2>1. CASE Take(w)
    BY <1>1, <2>1, TakeEffect DEF AttemptsInv
  <2>2. CASE Served(w) \/ Failed(w) \/ Release(w)
    <3>1. attempts' = attempts /\ canary \subseteq canary'
      BY <2>2 DEF Served, Failed, Release
    <3>2. QED
      BY <1>1, <3>1 DEF AttemptsInv
  <2>3. CASE Record(w) \/ RecordRaises(w)
    <3>1. \A i \in 1 .. Len(attempts) : attempts[i].seq # job[w]
      BY <1>1, <2>3, RecordEffect DEF JobsInv, Recorded
    <3>2. outcome[w] = "ok" => job[w] \in canary
      BY <1>1, <2>3, RecordEffect DEF JobsInv
    <3>3. /\ Len(attempts') = Len(attempts) + 1
          /\ \A i \in 1 .. Len(attempts) : attempts'[i] = attempts[i]
          /\ attempts'[Len(attempts) + 1].seq = job[w]
          /\ attempts'[Len(attempts) + 1].outcome = outcome[w]
          /\ canary' = canary
      BY <1>1, <2>3, RecordEffect
    <3> DEFINE n == Len(attempts)
    <3>4. /\ n \in Nat
          /\ \A i \in 1 .. n + 1 : i \in 1 .. n \/ i = n + 1
      BY <1>1
    <3>5. ASSUME NEW i \in 1 .. n + 1, NEW j \in 1 .. n + 1,
                 attempts'[i].seq = attempts'[j].seq
          PROVE  i = j
      <4>1. CASE i \in 1 .. n /\ j \in 1 .. n
        BY <1>1, <3>3, <3>5, <4>1 DEF AttemptsInv
      <4>2. CASE i \in 1 .. n /\ j = n + 1
        BY <3>1, <3>3, <3>5, <4>2
      <4>3. CASE i = n + 1 /\ j \in 1 .. n
        BY <3>1, <3>3, <3>5, <4>3
      <4>4. QED
        BY <3>4, <4>1, <4>2, <4>3
    <3>6. ASSUME NEW i \in 1 .. n + 1, attempts'[i].outcome = "ok"
          PROVE  attempts'[i].seq \in canary'
      <4>1. CASE i \in 1 .. n
        BY <1>1, <3>3, <3>6, <4>1 DEF AttemptsInv
      <4>2. CASE i = n + 1
        BY <3>2, <3>3, <3>6, <4>2 DEF AttemptsInv
      <4>3. QED
        BY <3>4, <4>1, <4>2
    <3>7. QED
      BY <3>3, <3>5, <3>6 DEF AttemptsInv
  <2>4. QED
    BY <1>4, <2>1, <2>2, <2>3 DEF Moves
<1>5. CASE CommitsLate
  <2>1. attempts' = attempts /\ canary \subseteq canary'
    BY <1>5 DEF CommitsLate
  <2>2. QED
    BY <1>1, <2>1 DEF AttemptsInv
<1>6. QED
  BY <1>2, <1>3, <1>4, <1>5, QuietOrMoves DEF IInv

LEMMA LedgerStep ==
  ASSUME IInv, [Next]_vars
  PROVE  LedgerInv'
<1>1. /\ TypeOK /\ PermitsConserved /\ JobsInv /\ LedgerInv
      /\ seq \in Nat /\ Len(queue) \in Nat
      /\ wpc \in [Workers -> Busy \cup {"off", "loop", "get", "done", "dead"}]
      /\ job \in [Workers -> Nat]
  BY DEF IInv, TypeOK
<1> SUFFICES ASSUME NEW n \in 1 .. seq'
             PROVE  \/ n \in Recorded'
                    \/ \E i \in 1 .. Len(queue') : queue'[i] = n
                    \/ \E w \in Workers : /\ wpc'[w] \in {"attempt", "record"}
                                          /\ job'[w] = n
  BY DEF LedgerInv
<1>2. CASE Quiet
  BY <1>2, <1>1 DEF Quiet, LedgerInv, Recorded, Busy
<1>3. CASE Put
  <2>1. Recorded' = Recorded
    BY <1>1, <1>3, PutEffect DEF Recorded
  <2>2. QED
    BY <1>1, <1>3, <2>1, PutEffect DEF LedgerInv
<1>4. ASSUME NEW w \in Workers, Moves(w)
      PROVE  \/ n \in Recorded'
             \/ \E i \in 1 .. Len(queue') : queue'[i] = n
             \/ \E v \in Workers : /\ wpc'[v] \in {"attempt", "record"}
                                   /\ job'[v] = n
  <2>1. CASE Take(w)
    <3>1. Recorded' = Recorded /\ n \in 1 .. seq
      BY <1>1, <2>1, TakeEffect DEF Recorded
    <3>2. CASE \E i \in 1 .. Len(queue) : queue[i] = n
      <4>1. PICK i \in 1 .. Len(queue) : queue[i] = n
        BY <3>2
      <4>2. CASE i = 1
        <5>1. wpc'[w] = "attempt" /\ job'[w] = n
          BY <1>1, <2>1, <4>1, <4>2, TakeEffect
        <5>2. QED
          BY <5>1
      <4>3. CASE i # 1
        <5>1. i - 1 \in 1 .. Len(queue')
          BY <1>1, <2>1, <4>1, <4>3, TakeEffect
        <5>2. queue'[i - 1] = queue[(i - 1) + 1]
          BY <1>1, <2>1, <5>1, TakeEffect
        <5>3. queue'[i - 1] = n
          BY <4>1, <5>2
        <5>4. QED
          BY <5>1, <5>3
      <4>4. QED
        BY <4>2, <4>3
    <3>3. wpc[w] = "get"
      BY <2>1 DEF Take
    <3>4. CASE \E v \in Workers : wpc[v] \in {"attempt", "record"} /\ job[v] = n
      <4>1. PICK v \in Workers : wpc[v] \in {"attempt", "record"} /\ job[v] = n
        BY <3>4
      <4>2. wpc'[v] = wpc[v] /\ job'[v] = n
        BY <1>1, <2>1, <3>3, <4>1, TakeEffect
      <4>3. QED
        BY <4>1, <4>2
    <3>5. QED
      BY <1>1, <3>1, <3>2, <3>4 DEF LedgerInv
  <2>2. CASE Served(w) \/ Failed(w)
    <3>1. /\ Recorded' = Recorded /\ wpc' = [wpc EXCEPT ![w] = "record"]
          /\ UNCHANGED <<queue, seq, job>>
      BY <2>2 DEF Served, Failed, Recorded, dispatchVars
    <3>2. QED
      BY <1>1, <3>1 DEF LedgerInv
  <2>3. CASE Record(w) \/ RecordRaises(w)
    BY <1>1, <2>3, RecordEffect DEF LedgerInv
  <2>4. CASE Release(w)
    <3>1. /\ Recorded' = Recorded /\ wpc' = [wpc EXCEPT ![w] = "loop"]
          /\ job' = [job EXCEPT ![w] = 0] /\ wpc[w] = "release"
          /\ UNCHANGED <<queue, seq>>
      BY <2>4 DEF Release, Recorded, dispatchVars
    <3>2. QED
      BY <1>1, <3>1 DEF LedgerInv
  <2>5. QED
    BY <1>4, <2>1, <2>2, <2>3, <2>4 DEF Moves
<1>5. CASE CommitsLate
  <2>1. Recorded' = Recorded /\ UNCHANGED <<queue, seq, job, wpc>>
    BY <1>5 DEF CommitsLate, Recorded, workerVars, dispatchVars
  <2>2. QED
    BY <1>1, <2>1 DEF LedgerInv
<1>6. QED
  BY <1>2, <1>3, <1>4, <1>5, QuietOrMoves DEF IInv

(* The inductive invariant.                                                *)
THEOREM Invariance == Spec => []IInv
<1>1. IInv /\ [Next]_vars => IInv'
  <2> SUFFICES ASSUME IInv, [Next]_vars PROVE IInv'
    OBVIOUS
  <2>1. TypeOK' /\ PermitsConserved' /\ ThreadsInv' /\ JoinedInv'
    BY TypeOKStep, PermitsStep, ThreadsStep, JoinedStep DEF IInv
  <2>2. QueueInv' /\ JobsInv' /\ AttemptsInv' /\ LedgerInv'
    BY QueueStep, JobsStep, AttemptsStep, LedgerStep
  <2>3. QED
    BY <2>1, <2>2 DEF IInv
<1>2. QED
  BY InitIInv, <1>1, PTL DEF Spec

-----------------------------------------------------------------------------
(* What a reader of the probe may rely on.                                 *)

(* Type correctness of every variable of the probe.                        *)
THEOREM TypeCorrectness == Spec => []TypeOK
BY Invariance, PTL DEF IInv

(* The permits of the _idle semaphore are neither created nor lost.        *)
THEOREM PermitConservation == Spec => []PermitsConserved
BY Invariance, PTL DEF IInv

(* The queue.Full branch of _dispatcher is dead code.                      *)
THEOREM SemaphoreBoundsQueue == Spec => []QueueNeverFull
<1>1. IInv => QueueNeverFull
  <2> SUFFICES ASSUME IInv, dpc = "put" PROVE Len(queue) < NWorkers
    BY DEF QueueNeverFull
  <2>1. Len(queue) \in Nat /\ idle \in Nat /\ Cardinality(Holders) \in Nat
    BY HoldersFinite DEF IInv, TypeOK
  <2>2. QED
    BY <2>1, NWorkersAssumption DEF IInv, PermitsConserved
<1>2. QED
  BY Invariance, <1>1, PTL

(* Every job is queued for a worker that is free to take it.               *)
THEOREM JobsAreTakeable == Spec => []JobsHaveWorkers
<1>1. IInv => JobsHaveWorkers
  <2> SUFFICES ASSUME IInv, ~stop, dpc # "off"
               PROVE  Len(queue) <= Cardinality(Free)
    BY DEF JobsHaveWorkers
  <2>1. /\ Len(queue) \in Nat /\ idle \in Nat /\ Cardinality(Holders) \in Nat
        /\ IsFiniteSet(Holders)
    BY HoldersFinite DEF IInv, TypeOK
  <2>2. Free = Workers \ Holders /\ Workers = Free \cup Holders
        /\ Free \cap Holders = {}
    BY DEF IInv, TypeOK, ThreadsInv, Free, Holders, Busy
  <2>3. IsFiniteSet(Workers) /\ Cardinality(Workers) = NWorkers
    BY NWorkersAssumption, FS_Interval DEF Workers
  <2>4. IsFiniteSet(Free) /\ Cardinality(Free) \in Nat
    BY <2>2, <2>3, FS_Subset, FS_CardinalityType
  <2>5. NWorkers = Cardinality(Free) + Cardinality(Holders)
    BY <2>1, <2>2, <2>3, <2>4, FS_Union, FS_EmptySet
  <2>6. QED
    BY <2>1, <2>4, <2>5, NWorkersAssumption DEF IInv, PermitsConserved
<1>2. QED
  BY Invariance, <1>1, PTL

(* No sequence number is written or recorded twice.                        *)
THEOREM NeverRetried == Spec => []FreshSequence
<1>1. IInv => FreshSequence
  <2> SUFFICES ASSUME IInv PROVE FreshSequence
    OBVIOUS
  <2>1. DOMAIN attempts = 1 .. Len(attempts)
    BY DEF IInv, TypeOK
  <2>2. QED
    BY <2>1 DEF IInv, FreshSequence, AttemptsInv, JobsInv
<1>2. QED
  BY Invariance, <1>1, PTL

(* An attempt recorded as served left its row in the canary table.         *)
THEOREM ServedRows == Spec => []ServedIsCommitted
<1>1. IInv => ServedIsCommitted
  <2> SUFFICES ASSUME IInv PROVE ServedIsCommitted
    OBVIOUS
  <2>1. DOMAIN attempts = 1 .. Len(attempts)
    BY DEF IInv, TypeOK
  <2>2. QED
    BY <2>1 DEF IInv, ServedIsCommitted, AttemptsInv
<1>2. QED
  BY Invariance, <1>1, PTL

(* dispatch_saturation counts only ticks at which no worker was free.      *)
THEOREM HonestSaturation == Spec => SaturationIsHonest
<1>1. IInv /\ [Next]_vars =>
        [saturation' > saturation =>
           Len(queue) + Cardinality(Holders) = NWorkers]_vars
  <2> SUFFICES ASSUME IInv, Next, saturation' > saturation
               PROVE  Len(queue) + Cardinality(Holders) = NWorkers
    OBVIOUS
  <2> USE DEF mainVars, dispatchVars, workerVars
  <2>1. /\ Len(queue) \in Nat /\ idle \in Nat /\ Cardinality(Holders) \in Nat
        /\ saturation \in Nat /\ TypeOK /\ PermitsConserved
    BY HoldersFinite DEF IInv, TypeOK
  <2>2. ~(saturation' = saturation)
    BY <2>1
  <2>3. CASE Acquire
    <3>1. dpc = "acquire" /\ idle = 0
      BY <2>1, <2>2, <2>3 DEF Acquire
    <3>2. QED
      BY <2>1, <3>1 DEF PermitsConserved
  <2>4. CASE Put
    BY <2>1, <2>2, <2>4, PutEffect DEF Put
  <2>5. CASE Owner \/ CommitsLate \/ PipeBreaks \/ Tick \/ DispatcherStops
    BY <2>2, <2>5 DEF Owner, Start, StartFails, RequestStop, Join, JoinTimesOut,
                      Summarise, CommitsLate, PipeBreaks, Tick, DispatcherStops
  <2>6. ASSUME NEW w \in Workers, Local(w) \/ Statement(w) PROVE FALSE
    BY <2>2, <2>6 DEF Local, Statement, Loop, Take, Empty, Record, RecordRaises,
                      Release, Served, Failed
  <2>7. QED
    BY <2>3, <2>4, <2>5, <2>6 DEF Next, Dispatch
<1>2. QED
  BY Invariance, <1>1, PTL DEF SaturationIsHonest, Spec

(* A stop() that joined every thread in time is final: what it summarised  *)
(* stays, and what the canary table still gains the series has as failed.  *)
THEOREM StopIsFinal == Spec => CleanStopIsFinal
<1> DEFINE Final ==
             /\ UNCHANGED attempts
             /\ \A n \in canary' \ canary :
                  \E i \in DOMAIN attempts : /\ attempts[i].seq = n
                                             /\ attempts[i].outcome = "failed"
<1>1. IInv /\ [Next]_vars => [main = "stopped" /\ ~abandoned => Final]_vars
  <2> SUFFICES ASSUME IInv, Next, main = "stopped", ~abandoned PROVE Final
    BY DEF vars
  <2>1. \A w \in Workers : wpc[w] \in {"off", "done", "dead"}
    <3>1. \A t \in 1 .. Dispatcher : Ended(t)
      BY NWorkersAssumption DEF IInv, JoinedInv, TypeOK, Dispatcher
    <3>2. \A w \in Workers : w \in 1 .. Dispatcher /\ w # Dispatcher
      BY NWorkersAssumption DEF Workers, Dispatcher
    <3>3. QED
      BY <3>1, <3>2 DEF Ended
  <2>2. ASSUME NEW w \in Workers, Moves(w) PROVE FALSE
    <3>1. wpc[w] \in {"get", "attempt", "record", "release"}
      BY <2>2 DEF Moves, Take, Served, Failed, Record, RecordRaises, Release
    <3>2. QED
      BY <2>1, <3>1
  <2>3. CASE Quiet
    BY <2>3 DEF Quiet
  <2>4. CASE Put
    BY <2>4, PutEffect DEF IInv
  <2>5. CASE CommitsLate
    BY <2>1, <2>5 DEF CommitsLate, Unanswered
  <2>6. QED
    BY <2>2, <2>3, <2>4, <2>5, QuietOrMoves DEF IInv
<1>2. QED
  BY Invariance, <1>1, PTL DEF CleanStopIsFinal, Spec

(* At most one unsettled number per held permit.                           *)
LEMMA WindowBound ==
  ASSUME IInv
  PROVE  LET U == (1 .. seq) \ Recorded
         IN  /\ IsFiniteSet(U) /\ Cardinality(U) \in Nat
             /\ Cardinality(U) <= Len(queue) + Cardinality(Holders)
<1> DEFINE U == (1 .. seq) \ Recorded
           A == {queue[i] : i \in 1 .. Len(queue)}
           B == {job[w] : w \in Holders}
           f == [i \in 1 .. Len(queue) |-> queue[i]]
           g == [w \in Holders |-> job[w]]
<1>1. Len(queue) \in Nat /\ IsFiniteSet(Holders) /\ Cardinality(Holders) \in Nat
  BY HoldersFinite DEF IInv, TypeOK
<1>2. IsFiniteSet(A) /\ Cardinality(A) <= Len(queue)
  <2>1. f \in Surjection(1 .. Len(queue), A)
    BY DEF Surjection
  <2>2. IsFiniteSet(1 .. Len(queue)) /\ Cardinality(1 .. Len(queue)) = Len(queue)
    <3> DEFINE n == Len(queue)
    <3>1. n \in Int /\ 1 \in Int /\ n >= 0
      BY <1>1
    <3> HIDE DEF n
    <3>2. IsFiniteSet(1 .. n) /\ Cardinality(1 .. n) = n
      BY <3>1, FS_Interval
    <3>3. QED
      BY <3>2 DEF n
  <2> HIDE DEF f, A
  <2>3. QED
    BY <2>1, <2>2, FS_Surjection
<1>3. IsFiniteSet(B) /\ Cardinality(B) <= Cardinality(Holders)
  <2>1. g \in Surjection(Holders, B)
    BY DEF Surjection
  <2> HIDE DEF g, B
  <2>2. QED
    BY <1>1, <2>1, FS_Surjection
<1>4. U \subseteq A \cup B
  <2> SUFFICES ASSUME NEW n \in U PROVE n \in A \cup B
    OBVIOUS
  <2>1. CASE \E i \in 1 .. Len(queue) : queue[i] = n
    BY <2>1
  <2>2. CASE \E w \in Workers : wpc[w] \in {"attempt", "record"} /\ job[w] = n
    <3>1. PICK w \in Workers : wpc[w] \in {"attempt", "record"} /\ job[w] = n
      BY <2>2
    <3>2. w \in Holders
      BY <3>1 DEF Holders, Busy
    <3>3. QED
      BY <3>1, <3>2
  <2>3. QED
    BY <2>1, <2>2 DEF IInv, LedgerInv
<1> HIDE DEF A, B
<1>5. /\ IsFiniteSet(A \cup B)
      /\ Cardinality(A \cup B) <= Cardinality(A) + Cardinality(B)
  <2>1. IsFiniteSet(A \cap B)
    BY <1>2, FS_Subset
  <2>2. /\ Cardinality(A) \in Nat /\ Cardinality(B) \in Nat
        /\ Cardinality(A \cap B) \in Nat
    BY <1>2, <1>3, <2>1, FS_CardinalityType
  <2>3. /\ IsFiniteSet(A \cup B)
        /\ Cardinality(A \cup B)
             = Cardinality(A) + Cardinality(B) - Cardinality(A \cap B)
    BY <1>2, <1>3, FS_Union
  <2>4. QED
    BY <2>2, <2>3
<1>6. IsFiniteSet(U) /\ Cardinality(U) <= Cardinality(A \cup B)
  BY <1>4, <1>5, FS_Subset
<1>7. QED
  BY <1>1, <1>2, <1>3, <1>5, <1>6, FS_CardinalityType

(* The probe implements its ledger: every step issues a number with fewer  *)
(* than NWorkers unsettled, settles one that was not, or is invisible.     *)
THEOREM Refinement == Spec => ImplementsLedger
<1>0. \A S : Ledger!Cardinality(S) = Cardinality(S)
  BY DEF Ledger!Cardinality, Cardinality
<1>1. Init => Ledger!Init
  BY DEF Init, Ledger!Init, Recorded
<1>2. IInv /\ [Next]_vars => [Ledger!Next]_(Ledger!ledger)
  <2> SUFFICES ASSUME IInv, [Next]_vars
               PROVE  Ledger!Next \/ UNCHANGED <<seq, Recorded>>
    BY DEF Ledger!ledger
  <2>1. TypeOK /\ PermitsConserved /\ QueueInv /\ JobsInv
    BY DEF IInv
  <2>2. CASE Quiet
    BY <2>2 DEF Quiet, Recorded
  <2>3. CASE Put
    <3>1. seq' = seq + 1 /\ Recorded' = Recorded
      BY <2>1, <2>3, PutEffect DEF Recorded
    <3>2. Cardinality((1 .. seq) \ Recorded) < NWorkers
      <4>1. Len(queue) + Cardinality(Holders) < NWorkers
        BY <2>1, <2>3, HoldersFinite, NWorkersAssumption
           DEF Put, PermitsConserved, TypeOK
      <4>2. QED
        BY <2>1, <4>1, WindowBound, HoldersFinite, NWorkersAssumption DEF TypeOK
    <3>3. QED
      BY <1>0, <3>1, <3>2 DEF Ledger!Next, Ledger!Issue, Ledger!Unsettled
  <2>4. ASSUME NEW w \in Workers, Moves(w)
        PROVE  Ledger!Next \/ UNCHANGED <<seq, Recorded>>
    <3>1. CASE Take(w) \/ Served(w) \/ Failed(w) \/ Release(w)
      BY <3>1 DEF Take, Served, Failed, Release, Recorded, dispatchVars
    <3>2. CASE Record(w) \/ RecordRaises(w)
      <4>1. /\ Recorded' = Recorded \cup {job[w]} /\ seq' = seq
            /\ job[w] # 0 /\ job[w] \notin Recorded
        BY <2>1, <3>2, RecordEffect DEF JobsInv, Busy
      <4>2. job[w] \in 1 .. seq
        BY <2>1, <4>1 DEF QueueInv, TypeOK
      <4>3. Ledger!Settle(job[w])
        BY <4>1, <4>2 DEF Ledger!Settle, Ledger!Unsettled
      <4>4. QED
        BY <4>2, <4>3 DEF Ledger!Next
    <3>3. QED
      BY <2>4, <3>1, <3>2 DEF Moves
  <2>5. CASE CommitsLate
    BY <2>5 DEF CommitsLate, Recorded, dispatchVars
  <2>6. QED
    BY <2>2, <2>3, <2>4, <2>5, QuietOrMoves DEF IInv
<1>3. QED
  BY Invariance, <1>1, <1>2, PTL DEF Spec, ImplementsLedger, Ledger!Spec
=============================================================================
