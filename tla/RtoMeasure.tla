----------------------------- MODULE RtoMeasure -----------------------------
(***************************************************************************)
(* How long the database could not serve a write after the fault, as       *)
(* measure_rto (crdblab/core/rto_probe.py) and availability_rto            *)
(* (crdblab/phases/p4_chaos.py) derive it from a series of attempts, set   *)
(* beside a database that really goes down and comes back.                 *)
(*                                                                         *)
(* Time is in whole units and an instrument completes at most one attempt  *)
(* per unit, the first served one at 0; the two instruments are given the  *)
(* same series.  The fixed numbers of the code are constants, so that      *)
(* small series reach every branch: the quantile (0.95), the slack of 20   *)
(* sampling periods and of 10 cadences, and the 20 gaps the comparison of  *)
(* tails asks for.                                                         *)
(***************************************************************************)
EXTENDS Integers, FiniteSets, FiniteSetsExt

CONSTANTS
  MaxTime,          \* bound of the model: length of a series
  MaxOutages,       \* bound of the model: times the database goes down
  QNum, QDen,       \* the quantile of resolution_of
  PeriodSlack,      \* COVERAGE_SLACK_PERIODS
  CadenceSlack,     \* COVERAGE_SLACK_CADENCES
  MinGaps           \* pre-fault gaps tail_attribution needs

ASSUME TimeAssumption == MaxTime \in Nat /\ MaxOutages \in Nat
ASSUME QuantileAssumption == QNum \in Nat /\ QDen \in Nat \ {0} /\ QNum <= QDen
ASSUME SlackAssumption == {PeriodSlack, CadenceSlack, MinGaps} \subseteq Nat

VARIABLES
  now,
  up,         \* the database serves writes
  downFrom,   \* when it last went down
  outages,    \* the intervals it was down, once they are over
  fault,      \* when the fault was injected, -1 before
  attempts    \* the completed attempts: when, and whether served

vars == <<now, up, downFrom, outages, fault, attempts>>

None == "none"
Largest(S) == Max(S \cup {0})

-----------------------------------------------------------------------------
(* The series.  A gap is a pair of consecutive served attempts.            *)

Served == {a.at : a \in {b \in attempts : b.served}}
Last == Max({a.at : a \in attempts})

Length(g) == g.to - g.from

Gaps == {[from |-> t, to |-> Min({u \in Served : u > t})] :
           t \in {v \in Served : \E u \in Served : u > v}}

Healthy == {g \in Gaps : g.to < fault}
AfterFault == {g \in Gaps : g.to >= fault}

Lengths(G) == {Length(g) : g \in G}

(* The k-th smallest length, counting equal ones.                          *)
Ranked(G, k) ==
  Min({v \in Lengths(G) : Cardinality({g \in G : Length(g) <= v}) >= k})

(* round(q * n + 0.5), halves to even, clamped to 1 .. n                   *)
Rank(n) ==
  LET num == 2 * QNum * n + QDen
      den == 2 * QDen
      low == num \div den
      k   == CASE 2 * (num % den) < den -> low
               [] 2 * (num % den) > den -> low + 1
               [] OTHER -> low + (low % 2)
  IN  Min({n, Max({1, k})})

(* _quantile; 0 stands for None, which the callers treat alike.            *)
Quantile(G) == IF G = {} THEN 0 ELSE Ranked(G, Rank(Cardinality(G)))

(* Slip: the outage itself raises the threshold that should detect it.     *)
ResolutionOfAll == Quantile(Gaps)

Resolution == IF Healthy # {} THEN Quantile(Healthy) ELSE Quantile(Gaps)

NoiseFloor == IF Healthy # {} THEN Largest(Lengths(Healthy)) + Resolution
                              ELSE 2 * Resolution

-----------------------------------------------------------------------------
(* tail_attribution: do gaps over the healthy quantile come at 1.5 times   *)
(* the rate after the fault?  Too few gaps: no answer, taken for yes.      *)
Attributable ==
  LET reference == Quantile(Healthy)
      Over(G) == Cardinality({g \in G : Length(g) > reference})
      pre  == Over(Healthy)
      post == Over(AfterFault)
  IN  \/ Cardinality(Healthy) < MinGaps \/ AfterFault = {}
      \/ /\ pre > 0
         /\ 2 * post * Cardinality(Healthy) >= 3 * pre * Cardinality(AfterFault)

Qualifying(floor) == {g \in AfterFault : Length(g) > floor}

(* Slip: the first gap over the floor, which may be jitter.                *)
FirstOf(G) == CHOOSE g \in G : \A h \in G : g.from <= h.from

(* max(qualifying, key=duration): the first of the largest.                *)
LargestOf(G) ==
  CHOOSE g \in G : /\ \A h \in G : Length(h) <= Length(g)
                   /\ \A h \in G : Length(h) = Length(g) => g.from <= h.from

(* observation_end_s: the harness says when the audit writer stopped, the  *)
(* analysis has only the generator's last tick, at or before that.         *)
ObservationEnds == fault..now

(* Slip: no answer of the instrument is as good as a healthy one.          *)
CoverageUnchecked(end) == FALSE

CoverageTruncated(end) ==
  attempts # {} /\ end - Last > Resolution * PeriodSlack

OpenGap == Last - Max(Served)

Verdict(kind) == [kind |-> kind, gap |-> None, quotable |-> FALSE]

(* The outage that was found, quotable if the fault may have caused it.    *)
Reported(gap) == [kind |-> "outage", gap |-> gap, quotable |-> Attributable]

(* measure_rto.                                                            *)
MeasureRto(end) ==
  LET floor == NoiseFloor
      qualifying == Qualifying(floor)
  IN  IF Cardinality(Served) < 2 THEN Verdict("too few")
      ELSE IF qualifying # {} THEN Reported(LargestOf(qualifying))
      ELSE IF Max(Served) >= fault /\ OpenGap > floor THEN Verdict("truncated")
      ELSE IF CoverageTruncated(end) THEN Verdict("stopped observing")
      ELSE Verdict("below resolution")

-----------------------------------------------------------------------------
(* availability_rto, on the served attempts as acknowledgements.           *)

(* sorted(gaps)[len(gaps) // 2]                                            *)
TypicalGap == IF Gaps = {} THEN 0 ELSE Ranked(Gaps, (Cardinality(Gaps) \div 2) + 1)

AuditFloor == Largest(Lengths(Healthy)) + TypicalGap

AuditQualifying ==
  LET floor == AuditFloor IN IF Healthy = {} THEN {} ELSE Qualifying(floor)

AckedAfter == {t \in Served : t >= fault}

AuditTruncated(end) == end - Max(Served) > TypicalGap * CadenceSlack

AvailabilityRto(end) ==
  LET qualifying == AuditQualifying
  IN  IF AckedAfter = {} THEN Verdict("none after fault")
      ELSE IF qualifying # {}
        THEN [kind |-> "outage", gap |-> LargestOf(qualifying), quotable |-> TRUE]
      ELSE IF AuditTruncated(end) THEN Verdict("unmeasured")
      ELSE Verdict("next write")

(* availability of analysis/resilience.py: the sentence that is quoted.    *)
Claim(end) ==
  LET found == AvailabilityRto(end)
      rto   == IF found.kind = "outage" THEN found.gap.to - fault ELSE Min(AckedAfter) - fault
  IN  IF found.kind \in {"none after fault", "unmeasured"}
        THEN IF AuditTruncated(end) THEN "unmeasured" ELSE "no write acknowledged"
      ELSE IF rto < TypicalGap THEN "no interruption"
      ELSE "resumed"

-----------------------------------------------------------------------------
(* External: the database and an instrument that observes it.              *)

Init ==
  /\ now = 0 /\ up = TRUE /\ downFrom = 0 /\ outages = {}
  /\ fault = -1 /\ attempts = {[at |-> 0, served |-> TRUE]}

(* One unit of time: a write is served, or fails, or nothing comes back.   *)
Observe ==
  /\ now < MaxTime
  /\ now' = now + 1
  /\ \/ up /\ attempts' = attempts \cup {[at |-> now + 1, served |-> TRUE]}
     \/ ~up /\ attempts' = attempts \cup {[at |-> now + 1, served |-> FALSE]}
     \/ UNCHANGED attempts
  /\ UNCHANGED <<up, downFrom, outages, fault>>

Fault ==
  /\ fault = -1
  /\ fault' = now
  /\ UNCHANGED <<now, up, downFrom, outages, attempts>>

GoDown ==
  /\ fault # -1 /\ up /\ Cardinality(outages) < MaxOutages
  /\ up' = FALSE /\ downFrom' = now
  /\ UNCHANGED <<now, outages, fault, attempts>>

ComeBack ==
  /\ ~up /\ now > downFrom
  /\ up' = TRUE
  /\ outages' = outages \cup {[from |-> downFrom, to |-> now]}
  /\ UNCHANGED <<now, downFrom, fault, attempts>>

Next == Observe \/ Fault \/ GoDown \/ ComeBack

Spec == Init /\ [][Next]_vars

-----------------------------------------------------------------------------
TypeOK ==
  /\ now \in 0 .. MaxTime /\ downFrom \in 0 .. MaxTime /\ fault \in -1 .. MaxTime
  /\ up \in BOOLEAN
  /\ outages \subseteq [from : 0 .. MaxTime, to : 0 .. MaxTime]
  /\ attempts \subseteq [at : 0 .. MaxTime, served : BOOLEAN]

(* The outages an observer could date: writes served before and after.     *)
Witnessed == {o \in outages : /\ \E t \in Served : t <= o.from
                              /\ \E t \in Served : t > o.to}

(* An outage that exceeds the noise floor and that a served write closed   *)
(* is never missed or understated, however jittery the series is after the *)
(* fault and however long the outage: both instruments report a gap at     *)
(* least as long.                                                          *)
OutageIsFound ==
  \A o \in Witnessed : Healthy # {} =>
    /\ Length(o) > NoiseFloor =>
         LET verdict == MeasureRto(now)
         IN  verdict.kind = "outage" /\ Length(verdict.gap) >= Length(o)
    /\ Length(o) > AuditFloor =>
         LET verdict == AvailabilityRto(now)
         IN  verdict.kind = "outage" /\ Length(verdict.gap) >= Length(o)

(* The floor is set by the healthy cadence: nothing that happens after the *)
(* fault moves it.                                                         *)
FloorIsFixed ==
  [][fault # -1 /\ Healthy # {} /\ Served # {} => NoiseFloor' = NoiseFloor]_vars

(* The two instruments, shown the same writes, date the same outage, though *)
(* they set their floors differently.                                       *)
InstrumentsAgree ==
  fault # -1 =>
    LET probe == MeasureRto(now)
        audit == AvailabilityRto(now)
    IN  probe.kind = "outage" /\ audit.kind = "outage" => probe.gap = audit.gap

(* The downtime so far that lies before end.                               *)
Downtime(end) ==
  {Min({o.to, end}) - o.from :
     o \in outages \cup (IF up THEN {} ELSE {[from |-> downFrom, to |-> now]})}

(* A pause of the writer that was over as the fault came, long enough to   *)
(* be taken for the outage: the claim is then made from its end, with an   *)
(* open or a shorter outage behind it.                                     *)
PauseIsTaken == \E g \in AuditQualifying : g.from < fault /\ g.to - fault < TypicalGap

(* Nobody is told that there was no outage when there was one longer than  *)
(* the floor and what the instrument may fail to observe at the end,       *)
(* closed, open, or observed by nobody: by the harness as by the analysis, *)
(* whose idea of the end of the run is an earlier one.  (Unless it began   *)
(* with the fault: the finding about open outages; or a pause is taken for *)
(* it.)                                                                    *)
NoSilentOutage ==
  fault # -1 /\ Healthy # {} /\ AckedAfter # {} =>
    LET probeBound == NoiseFloor + Resolution * PeriodSlack
        auditBound == AuditFloor + TypicalGap * CadenceSlack
    IN \A end \in ObservationEnds : \A d \in Downtime(end) :
         /\ d > probeBound => MeasureRto(end).kind # "below resolution"
         /\ d > auditBound /\ ~PauseIsTaken => Claim(end) # "no interruption"

(* "An outage still open when the probe stopped is truncated": the probe   *)
(* saw failures for longer than the floor until it stopped.                *)
OpenOutageIsTruncated ==
  fault # -1 /\ ~up /\ Cardinality(Served) >= 2 /\ OpenGap > NoiseFloor
    => MeasureRto(now).kind = "truncated"
=============================================================================
