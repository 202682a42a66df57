------------------------------ MODULE Recovery ------------------------------
(***************************************************************************)
(* How throughput came back after the fault: the series a chaos run        *)
(* observes and derives its performance RTO from (phases/p4_chaos.py), and *)
(* the derivation crdblab analyse repeats from the files the run left      *)
(* (analysis/resilience.py).  A run of schema 2.1 has both clocks of every *)
(* interval; one of schema 2.0 only the generator's, so that the fault is  *)
(* known to an interval of time only.                                      *)
(*                                                                         *)
(* A unit of time is one interval of the generator; rounding to            *)
(* milliseconds is left out, and an interval is its total throughput and   *)
(* its median update.                                                      *)
(***************************************************************************)
EXTENDS Integers, Sequences, FiniteSets, FiniteSetsExt

CONSTANTS
  MaxTicks,      \* bound of the model: intervals of the generator
  MaxStart,      \* external: ssh and start-up, before the generator's zero
  MaxLate,       \* external: delay of a line on its way
  MaxDelays,     \* bound of the model: lines that are delayed
  MaxTail,       \* bound of the model: from the last interval to t_end_utc
  InjectAt,      \* inject_at_s, from the first interval on
  Steady,        \* external: throughput before the fault
  Levels,        \* external: throughput after it
  BaseP50, P50s, \* external: median update before, and after, the fault
  Baseline,      \* intervals of the baseline, 20
  TNum, TDen,    \* recovery_threshold
  Hold,          \* recovery_hold_s
  Settle,        \* LIVENESS_SETTLE_S
  CvNum, CvDen,  \* SETTLED_CV
  ShNum, ShDen   \* LATENCY_SHIFT_TOLERANCE

ASSUME RecoveryAssumption ==
  /\ {MaxTicks, MaxStart, MaxLate, MaxDelays, MaxTail} \subseteq Nat
  /\ {Settle, TNum, CvNum, ShNum} \subseteq Nat
  /\ {InjectAt, Steady, BaseP50, Baseline, TDen, Hold, CvDen, ShDen} \subseteq Nat \ {0}
  /\ Levels \subseteq Nat /\ P50s \subseteq Nat /\ MaxLate < Hold
  /\ MaxLate < Settle

VARIABLES
  pc,       \* streaming, recorded
  now,      \* the harness's clock, from t_zero
  start,    \* external: the generator's zero on it
  p50,      \* external: the median update since the fault
  ticks,    \* the intervals observed: their arrival, throughput and median
  fault,    \* at_offset_s, None before
  events    \* what events.json says: the RTO, if any, and the run's length

vars == <<pc, now, start, p50, ticks, fault, events>>

None == -1
Unwritten == [rto |-> None, envelope |-> 0]

-----------------------------------------------------------------------------
(* A series is a sequence of points, each with a time and a value; a part  *)
(* of it is a set of its positions.                                        *)

Before(s, at) == {i \in DOMAIN s : s[i].t < at}
From(s, at) == {i \in DOMAIN s : s[i].t >= at}
LastOf(part) == {i \in part : Cardinality({j \in part : j > i}) < Baseline}

Total(w) ==
  LET upTo[i \in 0..Len(w)] == IF i = 0 THEN 0 ELSE upTo[i - 1] + w[i]
  IN  upTo[Len(w)]

Sum(s, part) == Total([i \in DOMAIN s |-> IF i \in part THEN s[i].v ELSE 0])
SumSq(s, part) == Total([i \in DOMAIN s |-> IF i \in part THEN s[i].v * s[i].v ELSE 0])

(* The values that reach the mean over base times the threshold.           *)
Clear(s, base) ==
  LET n == Cardinality(base)
      total == Sum(s, base)
  IN  {i \in DOMAIN s : s[i].v * n * TDen >= total * TNum}

(* Slip: a hold that the series is too short to show.                      *)
FindRecoveryUnheld(s, at, base) ==
  LET post == From(s, at)
      clear == Clear(s, base)
      Span(i) == {j \in post : j >= i /\ s[j].t < s[i].t + Hold}
      held == {i \in post : Span(i) \subseteq clear}
  IN  IF held = {} THEN None ELSE s[Min(held)].t

(* find_recovery: the start of the first window that held the floor, if    *)
(* the series goes on for long enough.                                     *)
FindRecovery(s, at, base) ==
  LET post == From(s, at)
      clear == Clear(s, base)
      Span(i) == {j \in post : j >= i /\ s[j].t < s[i].t + Hold}
      held == {i \in post : /\ s[Max(post)].t - s[i].t >= Hold
                            /\ Span(i) \subseteq clear}
  IN  IF held = {} THEN None ELSE s[Min(held)].t

(* The RTO of a series whose fault was at a time.                          *)
RtoOf(s, at) ==
  LET base == LastOf(Before(s, at))
      back == FindRecovery(s, at, base)
  IN  IF Sum(s, base) = 0 \/ back = None THEN None ELSE back - at

-----------------------------------------------------------------------------
(* The run.                                                                *)

OnWall(tick) == [t |-> tick.wall, v |-> tick.tps]

Init ==
  /\ pc = "streaming" /\ now = 0 /\ ticks = <<>> /\ fault = None
  /\ events = Unwritten
  /\ start \in 0..MaxStart /\ p50 \in P50s

(* External: the interval that is next was over before the fault.          *)
NextTick == Len(ticks) + 1
Undisturbed == fault = None \/ start + NextTick <= fault

(* A line of the stream: its interval joins series and observed_at.        *)
Arrive ==
  /\ pc = "streaming" /\ Len(ticks) < MaxTicks /\ now >= start + NextTick
  /\ \E v \in IF Undisturbed THEN {Steady} ELSE Levels :
       ticks' = Append(ticks, [wall |-> now, tps |-> v,
                               p50 |-> IF Undisturbed THEN BaseP50 ELSE p50])
  /\ UNCHANGED <<pc, now, start, p50, fault, events>>

(* External: time passes; few lines are delayed, none by more than MaxLate. *)
Delayed == {i \in DOMAIN ticks : ticks[i].wall > start + i}

Advance ==
  /\ pc = "streaming" /\ Len(ticks) < MaxTicks
  /\ \/ now < start + NextTick
     \/ now < start + NextTick + MaxLate /\ Cardinality(Delayed) < MaxDelays
  /\ now' = now + 1
  /\ UNCHANGED <<pc, start, p50, ticks, fault, events>>

(* The timer injects the fault inject_at_s after the first interval.       *)
Inject ==
  /\ pc = "streaming" /\ fault = None /\ ticks # <<>>
  /\ now >= ticks[1].wall + InjectAt
  /\ fault' = now
  /\ UNCHANGED <<pc, now, start, p50, ticks, events>>

(* The stream ends, or breaks; the run derives its result and writes       *)
(* metrics.csv and events.json.                                            *)
Record ==
  /\ pc = "streaming" /\ pc' = "recorded"
  /\ \E tail \in 0..MaxTail :
       events' = [rto |-> IF fault = None THEN None
                          ELSE RtoOf([i \in DOMAIN ticks |-> OnWall(ticks[i])], fault),
                  envelope |-> now + tail]
  /\ UNCHANGED <<now, start, p50, ticks, fault>>

Next == Arrive \/ Advance \/ Inject \/ Record

Spec == Init /\ [][Next]_vars

-----------------------------------------------------------------------------
(* The analysis.  An alignment says where the fault may be on the axis of  *)
(* the series: at one point if measured, between two if bounded.           *)

Methods == {"measured", "bounded"}

(* ticks(), on the axis the method has: the time of arrival, rounded to    *)
(* the millisecond in metrics.csv, which a unit of time is far above.      *)
Axis(method, i) == IF method = "measured" THEN ticks[i].wall ELSE i

Throughput(method) == [i \in DOMAIN ticks |-> [t |-> Axis(method, i), v |-> ticks[i].tps]]
Latency(method) == [i \in DOMAIN ticks |-> [t |-> Axis(method, i), v |-> ticks[i].p50]]

(* Slip: the generator's zero is taken for the run's.                      *)
OffsetsNarrow(method) == {0}

(* align: the offsets the generator's zero may have.                       *)
Offsets(method) == IF method = "measured" THEN {0}
                   ELSE {0, Max({0, events.envelope - Len(ticks)})}

(* to_generator: the earliest and the latest point of the fault.           *)
FaultPoints(method) == {fault - off : off \in Offsets(method)}

(* degradation_profile: how long after the fault an interval ended.        *)
SinceFault(method, i) == {Axis(method, i) - at : at \in FaultPoints(method)}

(* performance: the RTO at every point, defined if all of them are.        *)
Rtos(method) == {RtoOf(Throughput(method), at) : at \in FaultPoints(method)}
Defined(method) == None \notin Rtos(method)

(* Slip: the earlier point.                                                *)
JudgedFromEarliest(method) == Min(FaultPoints(method))

(* The later point, from which the settled state is judged.                *)
JudgedFrom(method) == Max(FaultPoints(method))

Window(method, s) == From(s, JudgedFrom(method) + Settle)

(* The deviation of part is below SETTLED_CV of its mean.                  *)
IsSettled(s, part) ==
  LET n == Cardinality(part)
      total == Sum(s, part)
  IN  (n * SumSq(s, part) - total * total) * n * CvDen * CvDen
        < CvNum * CvNum * total * total * (n - 1)

(* post_fault_steady_state and write_latency_recovery ask for 3 intervals. *)
Settled(method, s) ==
  LET w == Window(method, s) IN Cardinality(w) >= 3 /\ IsSettled(s, w)

(* Slip: the later point, as for the settled state.                        *)
FloorBaselineLater(method) == LastOf(Before(Throughput(method), JudgedFrom(method)))

(* performance: the floor is that of the first result, the earliest point. *)
FloorBaseline(method) ==
  LastOf(Before(Throughput(method), Min(FaultPoints(method))))

(* performance: what is said of a run without an RTO.                      *)
Classification(method) ==
  LET s == Throughput(method)
      w == Window(method, s)
      base == FloorBaseline(method)
  IN  IF ~Settled(method, s) THEN "unsettled_within_run"
      ELSE IF Sum(s, w) * Cardinality(base) * TDen < Sum(s, base) * TNum * Cardinality(w)
        THEN "degraded_steady_state"
      ELSE "recovered_without_holding"

(* Slip: the whole series before the window is the baseline.               *)
WriteBaselineAll(method) == LastOf(DOMAIN ticks \ Window(method, Latency(method)))

(* write_latency_recovery: its baseline, again before the later point.     *)
WriteBaseline(method) == LastOf(Before(Latency(method), JudgedFrom(method)))

Distance(a, b) == IF a > b THEN a - b ELSE b - a

LatencyClass(method) ==
  LET s == Latency(method)
      w == Window(method, s)
      base == WriteBaseline(method)
  IN  IF base = {} \/ Cardinality(w) < 3 THEN "unavailable"
      ELSE IF ~IsSettled(s, w) THEN "unsettled_within_run"
      ELSE IF Distance(Sum(s, w) * Cardinality(base), Sum(s, base) * Cardinality(w)) * ShDen
                > ShNum * Sum(s, base) * Cardinality(w) THEN "structural_latency_shift"
      ELSE "returned_to_baseline"

-----------------------------------------------------------------------------
Analysed == pc = "recorded" /\ fault # None

TypeOK ==
  /\ pc \in {"streaming", "recorded"} /\ now \in Nat /\ start \in 0..MaxStart
  /\ p50 \in P50s /\ Len(ticks) <= MaxTicks
  /\ \A i \in DOMAIN ticks : /\ ticks[i].wall \in start + i .. start + i + MaxLate
                             /\ ticks[i].tps \in Levels \cup {Steady}
  /\ fault \in Nat \cup {None}
  /\ events.rto \in Nat \cup {None} /\ events.envelope \in Nat

(* History: interval i ended after the fault; and was as good as before it. *)
AfterFault(i) == start + i > fault
Good(i) == i \in DOMAIN ticks /\ ticks[i].tps * TDen >= Steady * TNum

(* A performance RTO is never better than what happened: from the interval *)
(* it names, whose line came then, throughput held for the time asked for, *)
(* but for what the lines were late; and a recovery that held for longer   *)
(* than that is not missed, nor a later one reported in its place.         *)
RecoveryIsTrue ==
  Analysed =>
    /\ events.rto # None =>
         \E i \in DOMAIN ticks :
           /\ ticks[i].wall = fault + events.rto
           /\ \A k \in 0..(Hold - MaxLate - 1) : Good(i + k)
    /\ \A i \in DOMAIN ticks :
         AfterFault(i) /\ (\A k \in 0..(Hold + MaxLate) : Good(i + k))
           => events.rto # None /\ fault + events.rto <= ticks[i].wall

(* What the same derivation would give, were the offset known.             *)
FaultInterval == fault - start
TrueRto == RtoOf(Throughput("bounded"), FaultInterval)

(* Throughput fell soon after the fault, before a hold that began up to    *)
(* width earlier could be over, and once back it stayed; what the later    *)
(* point takes for the baseline has no surge in it.                        *)
CleanDip(width) ==
  /\ \A i \in DOMAIN ticks : i < fault => ticks[i].tps <= Steady
  /\ \E i \in DOMAIN ticks :
       FaultInterval <= i /\ i < FaultInterval + Hold - width /\ ~Good(i)
  /\ \A i \in DOMAIN ticks : i >= FaultInterval + TrueRto => Good(i)

(* The bounds of a run of schema 2.0 hold when every interval ended, since *)
(* the fault; and the RTO it would have had with the offset measured, if   *)
(* throughput fell and came back once, soon enough to tell the hold before *)
(* the fault from the one after it.                                        *)
BoundsHoldTruth ==
  LET Within(x, S) == Min(S) <= x /\ x <= Max(S) IN
  Analysed =>
    /\ \A i \in DOMAIN ticks : Within(i - FaultInterval, SinceFault("bounded", i))
    /\ Defined("bounded") /\ TrueRto # None /\ CleanDip(Max(Offsets("bounded")))
         => Within(TrueRto, Rtos("bounded"))

(* Nothing observed within the settling time of the fault is part of the   *)
(* state it is said to have settled to, whatever the alignment.            *)
SettledIsPostFault ==
  Analysed => \A method \in Methods :
    \A i \in DOMAIN ticks :
      Axis(method, i) >= JudgedFrom(method) + Settle
        => ticks[i].wall >= fault + Settle

(* A run without an RTO that is said to have settled below the floor did   *)
(* settle below what throughput was before the fault, times the threshold, *)
(* and one said to have come back did not: on either alignment, although   *)
(* the bounds cut the series at two points and judge from the later.       *)
ClassificationIsFair ==
  Analysed => \A method \in Methods :
    LET s == Throughput(method)
        w == Window(method, s)
    IN  ~Defined(method) /\ FloorBaseline(method) # {} =>
          Classification(method) \in
            {"unsettled_within_run",
             IF Sum(s, w) * TDen < Steady * TNum * Cardinality(w)
             THEN "degraded_steady_state" ELSE "recovered_without_holding"}

(* A write path that settled at another latency is said to have shifted,   *)
(* and one that did not is not: with the offset measured.                  *)
ShiftIsSeen ==
  Analysed => LatencyClass("measured") \in
    {"unavailable", "unsettled_within_run",
     IF Distance(p50, BaseP50) * ShDen > ShNum * BaseP50
     THEN "structural_latency_shift" ELSE "returned_to_baseline"}
=============================================================================
