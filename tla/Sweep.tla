------------------------------- MODULE Sweep -------------------------------
(***************************************************************************)
(* Phase I, which measures the round trips the quorum floor is derived     *)
(* from (phases/p1_network.py), and the benchmark sweep that needs it:     *)
(* phases/bench.py with the parser and the ticks of core/workload.py, the  *)
(* evidence core/preflight.py gathers about every tier (row match, write   *)
(* latency against the quorum floor) and the checks of                     *)
(* analysis/validation.py on the rows it leaves.  The generator's output   *)
(* arrives line by line over ssh and may end anywhere; the counters the    *)
(* evidence is read from belong to the server, which flushes or resets     *)
(* them when it likes.  Latencies other than the median write, and errors, *)
(* are left out.                                                           *)
(***************************************************************************)
EXTENDS Integers, FiniteSets, Sequences

CONSTANTS
  Tiers,        \* how many tiers tier_order planned
  Ticks,        \* intervals the generator reports in a tier
  Warmup,       \* warmup_s
  Followers,    \* external: the voters but the leader
  Rtt,          \* external: the round trip to each of them
  EmptyCommit,  \* external: the median write of updates that match nothing
  MaxUpsets     \* how often the server's counters are upset

ASSUME SweepAssumption ==
  /\ {Tiers, Ticks} \subseteq Nat \ {0} /\ Warmup \in 0..Ticks /\ MaxUpsets \in Nat
  /\ Rtt \in [Followers -> Nat \ {0}]
  /\ IsFiniteSet(Followers) /\ Cardinality(Followers) >= 2

VARIABLES
  engine, touches,  \* external: what is deployed; the keys asked for are loaded
  matrix,           \* the followers with a round trip in the newest network.csv
  floor,            \* quorum_floor, 0 for None
  pc,               \* network, start, stream, finish, ended, raised
  tier,             \* the tier that is next or at work
  pos,              \* lines of its output that were read
  header,           \* the parser's _header: none, periodic, summary
  samples,          \* what the parser returned of this tier
  csv,              \* the rows of metrics.csv
  counters,         \* external: executions, rows and sequential scans counted
  before,           \* the probe's _before
  failed,           \* the checks of the report that did not pass
  upsets,           \* external: of the counters, up to MaxUpsets
  cuts              \* history: lines read of each tier, and how its last one ended

externalVars == <<engine, touches>>
floorVars == <<matrix, floor>>
tierVars == <<pos, header, samples>>
vars == <<externalVars, floorVars, pc, tier, tierVars, csv, counters, before, failed, upsets, cuts>>

Ops == {"read", "update"}
NoMatrix == {"no network.csv"}

-----------------------------------------------------------------------------
(* External: what the generator prints in a tier.  cum: a total since the  *)
(* start and no rate of an interval.                                       *)

Header(kind) == [is |-> kind, e |-> 0, op |-> "none", cum |-> FALSE]
Data(t, o, c) == [is |-> "data", e |-> t, op |-> o, cum |-> c]

(* A header, both operations of every interval, and three totals, each     *)
(* under a header of its own.                                              *)
Output == [i \in 1..(2 * Ticks + 7) |->
  CASE i = 1 -> Header("periodic")
    [] i \in 2..(2 * Ticks + 1) ->
         Data(i \div 2, IF i % 2 = 0 THEN "read" ELSE "update", FALSE)
    [] i > 2 * Ticks + 1 /\ i % 2 = 0 -> Header("summary")
    [] OTHER -> Data(Ticks, <<"read", "update", "all">>[(i - 2 * Ticks - 1) \div 2], TRUE)]

(* How the last line of a stream ended: whole, or cut off so that it does  *)
(* not parse, has lost its label, or has kept half of it.                  *)
Ends == {"whole", "torn", "bare", "clipped"}

-----------------------------------------------------------------------------
(* The quorum floor.                                                       *)

Needed == (Cardinality(Followers) + 1) \div 2

(* quorum_floor_ms: the slowest of the Needed fastest of them.             *)
FloorOf(S) == CHOOSE t \in {Rtt[n] : n \in S} :
  /\ Cardinality({n \in S : Rtt[n] < t}) < Needed
  /\ Cardinality({n \in S : Rtt[n] <= t}) >= Needed

(* External: an update that matches nothing waits for no follower; it      *)
(* returns in some 3 ms and lies below the tolerance of the floor.         *)
ASSUME EmptyCommitAssumption ==
  EmptyCommit \in Nat /\ 10 * EmptyCommit < 9 * FloorOf(Followers)

(* External: what a write takes that has to reach a quorum.                *)
WriteTime == IF touches THEN FloorOf(Followers) ELSE EmptyCommit

-----------------------------------------------------------------------------
Init ==
  /\ engine \in {"cockroachdb", "postgresql"} /\ touches \in BOOLEAN
  /\ matrix = NoMatrix /\ floor = 0
  /\ pc = "network" /\ tier = 1
  /\ pos = 0 /\ header = "none" /\ samples = <<>> /\ csv = {}
  /\ \E c \in {0, 2} : \E r \in {0, c} : counters = [execs |-> c, rows |-> r, seqs |-> 0]
  /\ before = counters /\ failed = {} /\ upsets = 0
  /\ cuts = [t \in 1..Tiers |-> [at |-> 0, end |-> "none"]]

(* Phase I: the gateway pings every other node in one ssh session.  A      *)
(* destination without a reply has a row without a mean, and a session     *)
(* that fails or times out leaves no row; the run is recorded all the same *)
(* and is the newest, whatever an earlier one had measured.                *)
ProbeNetwork ==
  /\ pc = "network" /\ matrix' \in SUBSET Followers
  /\ UNCHANGED <<externalVars, floor, pc, tier, tierVars, csv, counters, before, failed,
                 upsets, cuts>>

(* gateway_rtts: the means there are in the gateway's rows.                *)
Measured == IF matrix = NoMatrix THEN {} ELSE matrix

(* _resolve_quorum_floor: without a matrix the check fails, without enough *)
(* round trips quorum_floor_ms raises.                                     *)
ResolveFloor ==
  floor' = IF Cardinality(Measured) < Needed THEN 0 ELSE FloorOf(Measured)

(* The checks before the first tier; that of placement or of the clocks    *)
(* may fail, and all are skipped with --no-checks.                         *)
Checks ==
  /\ pc = "network"
  /\ \/ pc' = "start" /\ UNCHANGED floor
     \/ ResolveFloor /\ pc' = IF floor' = 0 THEN "raised" ELSE "start"
     \/ pc' = "raised" /\ UNCHANGED floor
  /\ UNCHANGED <<externalVars, matrix, tier, tierVars, csv, counters, before, failed,
                 upsets, cuts>>

(* A query of the counters that fails ends the sweep.                      *)
SampleRaises ==
  /\ pc \in {"start", "finish"} /\ pc' = "raised"
  /\ UNCHANGED <<externalVars, floorVars, tier, tierVars, csv, counters, before, failed, upsets, cuts>>

(* probe.start(), and a parser of its own for the tier.                    *)
StartTier ==
  /\ pc = "start" /\ pc' = "stream" /\ before' = counters
  /\ pos' = 0 /\ header' = "none" /\ samples' = <<>>
  /\ UNCHANGED <<externalVars, floorVars, tier, csv, counters, failed, upsets, cuts>>

-----------------------------------------------------------------------------
(* A tier's stream.                                                        *)

(* Slip: only the first header of a tier is parsed.                        *)
ParseFirstHeader(line) ==
  IF line.is # "data"
  THEN header' = (IF header = "none" THEN line.is ELSE header) /\ UNCHANGED samples
  ELSE /\ samples' = Append(samples, [kind |-> header, e |-> line.e, op |-> line.op,
                                      cum |-> line.cum])
       /\ UNCHANGED header

(* WorkloadParser.feed: a header replaces the one before it; a data line   *)
(* is bound to the header in force.                                        *)
Parse(line) ==
  IF line.is # "data"
  THEN header' = line.is /\ UNCHANGED samples
  ELSE /\ samples' = Append(samples, [kind |-> header, e |-> line.e, op |-> line.op,
                                      cum |-> line.cum])
       /\ UNCHANGED header

(* External: the statements a data line tells of were executed.            *)
Executed(line) ==
  counters' = IF line.is # "data" \/ line.cum THEN counters
              ELSE [counters EXCEPT !.execs = @ + 1, !.rows = IF touches THEN @ + 1 ELSE @]

ReadLine ==
  /\ pc = "stream" /\ pos < Len(Output)
  /\ Parse(Output[pos + 1]) /\ Executed(Output[pos + 1]) /\ pos' = pos + 1
  /\ UNCHANGED <<externalVars, floorVars, pc, tier, csv, before, failed, upsets, cuts>>

(* _grouped_pairs, on the indices P of the periodic samples of s: a tick   *)
(* begins at each change of the elapsed offset.                            *)
Periodic(s) == {i \in DOMAIN s : s[i].kind = "periodic"}
Firsts(s, P) == {i \in P : \A j \in P : j < i =>
                   \E k \in P : j <= k /\ k < i /\ s[k].e # s[i].e}
Tick(s, P, i) == {j \in P : i <= j /\ \A k \in P : i <= k /\ k <= j => s[k].e = s[i].e}

(* aggregate_tick: by_op keeps the last sample of each operation.          *)
ByOp(s, P, i) ==
  LET tick == Tick(s, P, i)
  IN  {j \in tick : \A k \in tick : s[k].op = s[j].op => k <= j}

(* What _run_tier writes: every operation of every tick after the warm-up. *)
Rows(s) == LET P == Periodic(s) IN
  {[tier |-> tier, e |-> s[j].e, op |-> s[j].op, cum |-> s[j].cum] :
     j \in UNION {ByOp(s, P, i) : i \in {f \in Firsts(s, P) : s[f].e > Warmup}}}

(* The stream ends, after its last line or sooner, and perhaps within the  *)
(* next line: a half line does not parse, unless only its label suffered.  *)
StreamEnds ==
  /\ pc = "stream"
  /\ \E end \in Ends :
       LET next == Output[pos + 1]
           torn == Append(samples, [kind |-> header, e |-> next.e, cum |-> next.cum,
                                    op |-> IF end = "bare" THEN "all" ELSE "clipped"])
           read == IF end = "whole" THEN samples ELSE torn
       IN /\ end = "whole" \/ (pos < Len(Output) /\ next.is = "data")
          /\ cuts' = [cuts EXCEPT ![tier] = [at |-> pos, end |-> end]]
          /\ IF end = "torn"
             THEN pc' = "raised" /\ UNCHANGED <<samples, csv>>
             ELSE pc' = "finish" /\ samples' = read /\ csv' = csv \cup Rows(read)
  /\ UNCHANGED <<externalVars, floorVars, tier, pos, header, counters, before, failed, upsets>>

-----------------------------------------------------------------------------
(* The evidence about a tier.                                              *)

HasWrite == \E row \in csv : row.tier = tier /\ row.op = "update"

(* check_write_latency_floor, with its tolerance of a tenth, is made if    *)
(* there is a write and a floor.                                           *)
FloorChecked == HasWrite /\ floor > 0
AboveFloor == 10 * WriteTime >= 9 * floor
Corroborated == FloorChecked /\ AboveFloor

(* MIN_ROW_MATCH_RATE                                                      *)
Enough(rows, execs) == 100 * rows >= 99 * execs

Ran == counters.execs - before.execs
Matched == counters.rows - before.rows

(* Slip: a window without evidence passes.                                 *)
CockroachVerdictLenient ==
  IF Ran <= 0 /\ counters.execs > 0 THEN
    IF Enough(counters.rows, counters.execs) THEN {} ELSE {"mismatch"}
  ELSE IF Ran <= 0 THEN {}
  ELSE IF Enough(Matched, Ran) THEN {} ELSE {"mismatch"}

(* Slip: a flush is not thought of.                                        *)
CockroachVerdictUnflushed ==
  IF Ran = 0 THEN {"never ran"}
  ELSE IF Enough(Matched, Ran) THEN {} ELSE {"mismatch"}

(* RowMatchProbe.finish: counters that did not grow were flushed during    *)
(* the tier, and what they hold since is taken; all gone, the floor must   *)
(* vouch for the tier.                                                     *)
CockroachVerdict ==
  IF Ran <= 0 /\ counters.execs > 0 THEN
    IF Enough(counters.rows, counters.execs) THEN {} ELSE {"mismatch"}
  ELSE IF Ran <= 0 /\ before.execs > 0 THEN
    IF Corroborated THEN {} ELSE {"lost"}
  ELSE IF Ran <= 0 THEN {"never ran"}
  ELSE IF Enough(Matched, Ran) THEN {} ELSE {"mismatch"}

(* PostgresRowMatchProbe.finish.                                           *)
PostgresVerdict ==
  IF counters.seqs > before.seqs THEN {"scanned"}
  ELSE IF Ran < 0 \/ Matched < 0 THEN IF Corroborated THEN {} ELSE {"lost"}
  ELSE IF Ran <= 0 THEN {"never ran"}
  ELSE IF Enough(Matched, Ran) THEN {} ELSE {"mismatch"}

(* Slip: one tier more than there are.                                     *)
NextTierTooMany == IF tier <= Tiers THEN pc' = "start" /\ tier' = tier + 1
                                    ELSE pc' = "ended" /\ UNCHANGED tier

(* The cooldown and the next tier, if there is one.                        *)
NextTier == IF tier < Tiers THEN pc' = "start" /\ tier' = tier + 1
                            ELSE pc' = "ended" /\ UNCHANGED tier

(* probe.finish(report, corroborated=floor_ok); the checks are recorded    *)
(* and none is raised.                                                     *)
FinishTier ==
  /\ pc = "finish"
  /\ failed' = failed
       \cup (IF FloorChecked /\ ~AboveFloor THEN {"floor"} ELSE {})
       \cup (IF engine = "cockroachdb" THEN CockroachVerdict ELSE PostgresVerdict)
  /\ NextTier
  /\ UNCHANGED <<externalVars, floorVars, tierVars, csv, counters, before, upsets, cuts>>

(* External: CockroachDB flushes its statement statistics; a PostgreSQL    *)
(* server restarts, or something scans the table.                          *)
Upset ==
  /\ pc \notin {"ended", "raised"} /\ upsets < MaxUpsets /\ upsets' = upsets + 1
  /\ \/ counters' = [execs |-> 0, rows |-> 0, seqs |-> 0]
     \/ engine = "postgresql" /\ counters' = [counters EXCEPT !.seqs = @ + 1]
  /\ UNCHANGED <<externalVars, floorVars, pc, tier, tierVars, csv, before, failed, cuts>>

Next ==
  \/ ProbeNetwork \/ Checks \/ SampleRaises
  \/ StartTier \/ ReadLine \/ StreamEnds \/ FinishTier
  \/ Upset

Spec == Init /\ [][Next]_vars

-----------------------------------------------------------------------------
(* crdblab validate on the rows.                                           *)

OpsAt(t, e) == {row.op : row \in {x \in csv : x.tier = t /\ x.e = e}}

(* check_plausibility: a total lies over the ceiling of any rate.          *)
Plausible == \A row \in csv : ~row.cum

(* Slip: only an interval with more operations than an earlier one counts. *)
OpsNeverGrow == \A x, y \in csv :
  x.tier = y.tier /\ x.e < y.e => Cardinality(OpsAt(x.tier, x.e)) >= Cardinality(OpsAt(y.tier, y.e))

(* check_op_coverage: as many operations in every interval of a tier.      *)
OpsCovered == \A x, y \in csv :
  x.tier = y.tier => Cardinality(OpsAt(x.tier, x.e)) = Cardinality(OpsAt(y.tier, y.e))

(* check_sample_cadence warns of a gap between the intervals of a tier, of *)
(* one and a half of theirs or more.                                       *)
Regular == \A t \in 1..Tiers :
  LET es == {row.e : row \in {x \in csv : x.tier = t}} IN
  \A e \in es : e + 1 \notin es => \A later \in es : later <= e

Validates == Plausible /\ OpsCovered

-----------------------------------------------------------------------------
TypeOK ==
  /\ engine \in {"cockroachdb", "postgresql"} /\ touches \in BOOLEAN
  /\ matrix \in (SUBSET Followers) \cup {NoMatrix} /\ floor \in Nat
  /\ pc \in {"network", "start", "stream", "finish", "ended", "raised"}
  /\ tier \in 1..Tiers /\ pos \in 0..Len(Output) /\ upsets \in 0..MaxUpsets
  /\ header \in {"none", "periodic", "summary"}
  /\ \A i \in DOMAIN samples : samples[i].kind \in {"periodic", "summary"}
  /\ \A row \in csv : row.tier \in 1..Tiers /\ row.e \in 1..Ticks
  /\ counters \in [execs : Nat, rows : Nat, seqs : Nat]
  /\ before \in [execs : Nat, rows : Nat, seqs : Nat]
  /\ failed \subseteq {"mismatch", "lost", "never ran", "scanned", "floor"}
  /\ cuts \in [1..Tiers -> [at : 0..Len(Output), end : Ends \cup {"none"}]]

(* The lines of a tier that count, among those that were read.             *)
Measurements(t) == {i \in 1..cuts[t].at :
  Output[i].is = "data" /\ ~Output[i].cum /\ Output[i].e > Warmup}

(* metrics.csv holds every interval of every tier that ended, once, after  *)
(* the warm-up, nothing cumulative, and nothing of a tier that did not end *)
(* or whose output could not be parsed: a sweep that raises leaves whole   *)
(* tiers, and none of them ever has a gap to be warned of.                 *)
RowsAreTheTicks ==
  Regular /\ \A t \in 1..Tiers : {row \in csv : row.tier = t /\ row.op \in Ops} =
    IF cuts[t].end \in {"none", "torn"} THEN {}
    ELSE {[tier |-> t, e |-> Output[i].e, op |-> Output[i].op, cum |-> FALSE] :
            i \in Measurements(t)}

(* A stream that ended within a tick does not pass validation, unless that *)
(* tick is the only one the tier kept.                                     *)
CutTickIsSeen ==
  \A t \in 1..Tiers :
    LET last == Output[cuts[t].at]
    IN cuts[t].end = "whole" /\ cuts[t].at > 0
       /\ last.is = "data" /\ ~last.cum /\ last.op = "read" /\ last.e > Warmup + 1
         => ~Validates

(* The tier was started, and ran a statement.                              *)
Worked(t) == cuts[t].at > 1

(* A sweep that ran statements and whose report passes had the keys it     *)
(* asked for, whenever the counters were flushed or reset.                 *)
PassMeansTouched ==
  pc = "ended" /\ failed = {} /\ (\E t \in 1..Tiers : Worked(t)) => touches

(* No workload that touched its rows is said to have missed them, whatever *)
(* happened to the counters meanwhile, unless a tier ran nothing at all;   *)
(* the floor may say so if the matrix it was taken from lacks a near node. *)
MismatchIsReal ==
  (\A t \in 1..Tiers : cuts[t].end # "none" => Worked(t)) =>
    /\ "mismatch" \in failed => ~touches
    /\ "floor" \in failed /\ floor = FloorOf(Followers) => ~touches

(* "no statements ... were recorded during the window; the workload may    *)
(* not have run at all": a tier that executed nothing fails row_match.     *)
EmptyTierFails ==
  pc = "ended" /\ failed = {} => \A t \in 1..Tiers : Worked(t)
=============================================================================
