---------------------------- MODULE SweepProofs ----------------------------
(***************************************************************************)
(* Proofs about the benchmark sweep for every number of tiers, of          *)
(* intervals, of followers and of upsets of the counters: what metrics.csv *)
(* holds, what the quorum floor is worth when the matrix has gaps, and     *)
(* what a report that passed says of the keys.                             *)
(***************************************************************************)
EXTENDS Sweep, FiniteSetTheorems, SequenceTheorems, WellFoundedInduction, TLAPS

-----------------------------------------------------------------------------
(* Facts about numbers and finite sets.                                    *)

LEMMA SmallestExists ==
  ASSUME NEW S \in SUBSET Nat, S # {}
  PROVE  \E m \in S : \A x \in S : m <= x
<1> DEFINE R == OpToRel(<, Nat)
<1>1. IsWellFoundedOn(R, Nat)
  BY NatLessThanWellFounded, Zenon
<1>2. \A x, m \in Nat : x < m => <<x, m>> \in R
  BY Zenon DEF OpToRel
<1> HIDE DEF R
<1>3. PICK m \in S : \A x \in S : <<x, m>> \notin R
  BY <1>1, WFMin
<1>4. \A x \in S : ~(x < m)
  BY <1>2, <1>3
<1> QED
  BY <1>4

(* A function on a finite set into the naturals has a bound.               *)
LEMMA BoundExists ==
  ASSUME NEW S, IsFiniteSet(S), NEW f \in [S -> Nat]
  PROVE  \E b \in Nat : \A x \in S : f[x] <= b
<1> DEFINE Bad == {T \in FiniteSubsetsOf(S) : ~ \E b \in Nat : \A x \in T : f[x] <= b}
<1>1. SUFFICES ASSUME Bad # {} PROVE FALSE
  BY FS_FiniteSubsetsOfFinite
<1>2. PICK T \in Bad : \A U \in Bad : <<U, T>> \notin StrictSubsetOrdering(S)
  <2>1. IsWellFoundedOn(StrictSubsetOrdering(S), FiniteSubsetsOf(S))
    BY FS_StrictSubsetOrderingWellFounded
  <2>2. Bad \subseteq FiniteSubsetsOf(S)
    OBVIOUS
  <2> QED
    BY <1>1, <2>1, <2>2, WFMin, Zenon
<1>3. T \in SUBSET S /\ IsFiniteSet(T) /\ ~ \E b \in Nat : \A x \in T : f[x] <= b
  BY DEF FiniteSubsetsOf
<1>4. PICK x \in T : TRUE
  BY <1>3
<1> DEFINE U == T \ {x}
<1>5. U \in SUBSET S /\ IsFiniteSet(U) /\ U \subseteq T /\ U # T
  BY <1>3, <1>4, FS_RemoveElement
<1>6. <<U, T>> \in StrictSubsetOrdering(S)
  BY <1>3, <1>5 DEF StrictSubsetOrdering
<1>7. PICK b \in Nat : \A y \in U : f[y] <= b
  BY <1>2, <1>5, <1>6 DEF FiniteSubsetsOf
<1>8. f[x] \in Nat
  BY <1>3, <1>4
<1>9. \A y \in T : f[y] <= b + f[x]
  <2> SUFFICES ASSUME NEW y \in T PROVE f[y] <= b + f[x]
    OBVIOUS
  <2>1. f[y] \in Nat /\ (y = x \/ f[y] <= b)
    BY <1>3, <1>7
  <2> QED
    BY <1>8, <2>1
<1> QED
  BY <1>3, <1>7, <1>8, <1>9

-----------------------------------------------------------------------------
(* The quorum floor.                                                       *)

LEMMA Sizes == Tiers \in Nat \ {0} /\ Ticks \in Nat \ {0} /\ Warmup \in Nat /\ MaxUpsets \in Nat
BY SweepAssumption

Enumerable(S) == S \in SUBSET Followers /\ Needed <= Cardinality(S)

LEMMA NeededFacts ==
  /\ IsFiniteSet(Followers) /\ Cardinality(Followers) \in Nat
  /\ Needed \in Nat \ {0} /\ Needed <= Cardinality(Followers)
BY SweepAssumption, FS_CardinalityType DEF Needed

(* Followers within a round trip.                                          *)
LEMMA NearerIsFewer ==
  ASSUME NEW S \in SUBSET Followers, NEW T \in SUBSET S
  PROVE  /\ IsFiniteSet(S) /\ Cardinality(S) \in Nat /\ Cardinality(T) \in Nat
         /\ Cardinality(T) <= Cardinality(S)
BY SweepAssumption, FS_Subset, FS_CardinalityType

(* quorum_floor_ms is one of the round trips: with fewer than Needed       *)
(* followers nearer, and Needed of them within it.                         *)
LEMMA FloorIsRank ==
  ASSUME NEW S, Enumerable(S)
  PROVE  /\ FloorOf(S) \in {Rtt[n] : n \in S} /\ FloorOf(S) \in Nat \ {0}
         /\ Cardinality({n \in S : Rtt[n] < FloorOf(S)}) < Needed
         /\ Cardinality({n \in S : Rtt[n] <= FloorOf(S)}) >= Needed
<1> DEFINE Within(t) == {n \in S : Rtt[n] <= t}
           Nearer(t) == {n \in S : Rtt[n] < t}
           Reached(t) == Cardinality(Within(t)) >= Needed
<1>1. S \in SUBSET Followers /\ IsFiniteSet(S) /\ Rtt \in [Followers -> Nat \ {0}]
  BY SweepAssumption, NearerIsFewer DEF Enumerable
<1>2. \E b \in Nat : Within(b) = S
  <2>1. [n \in S |-> Rtt[n]] \in [S -> Nat]
    BY <1>1
  <2>2. PICK b \in Nat : \A n \in S : [m \in S |-> Rtt[m]][n] <= b
    BY <1>1, <2>1, BoundExists
  <2> QED
    BY <2>2
<1>3. PICK t \in Nat : t \in {u \in Nat : Reached(u)} /\ \A u \in {v \in Nat : Reached(v)} : t <= u
  <2>1. {u \in Nat : Reached(u)} # {}
    BY <1>2 DEF Enumerable
  <2> HIDE DEF Reached
  <2> QED
    BY <2>1, SmallestExists
<1>4. t # 0
  <2>1. SUFFICES ASSUME t = 0 PROVE FALSE
    OBVIOUS
  <2>2. Within(0) = {}
    BY <1>1
  <2> QED
    BY <1>3, <2>1, <2>2, FS_EmptySet, NeededFacts
<1>5. t - 1 \in Nat /\ Within(t - 1) = Nearer(t)
  BY <1>1, <1>4
<1>6. Cardinality(Nearer(t)) < Needed
  <2>1. ~ Reached(t - 1)
    BY <1>3, <1>5
  <2>2. Cardinality(Nearer(t)) \in Nat
    BY <1>1, NearerIsFewer
  <2> QED
    BY <1>5, <2>1, <2>2, NeededFacts
<1>7. t \in {Rtt[n] : n \in S}
  <2>1. SUFFICES ASSUME t \notin {Rtt[n] : n \in S} PROVE FALSE
    OBVIOUS
  <2>2. Within(t) = Nearer(t)
    BY <1>1, <2>1
  <2> QED
    BY <1>3, <1>6, <2>2, NeededFacts, NearerIsFewer, <1>1
<1>8. /\ FloorOf(S) \in {Rtt[n] : n \in S}
      /\ Cardinality({n \in S : Rtt[n] < FloorOf(S)}) < Needed
      /\ Cardinality({n \in S : Rtt[n] <= FloorOf(S)}) >= Needed
  BY <1>3, <1>6, <1>7, Zenon DEF FloorOf
<1> QED
  BY <1>1, <1>8

(* A matrix with gaps may put the floor too high and never too low: any    *)
(* set of followers has a floor that is at least that of a larger one.     *)
THEOREM FloorOfFewerIsHigher ==
  ASSUME NEW S, NEW T, Enumerable(S), Enumerable(T), T \subseteq S
  PROVE  FloorOf(S) <= FloorOf(T)
<1> DEFINE a == FloorOf(S)
           b == FloorOf(T)
           NearS == {n \in S : Rtt[n] < a}
           NearT == {n \in T : Rtt[n] <= b}
<1>1. a \in Nat /\ b \in Nat /\ Cardinality(NearS) < Needed /\ Cardinality(NearT) >= Needed
  BY FloorIsRank
<1>2. SUFFICES ASSUME b < a PROVE FALSE
  BY <1>1
<1>3. NearT \subseteq NearS /\ NearS \in SUBSET Followers
  BY <1>1, <1>2, SweepAssumption DEF Enumerable
<1>4. Cardinality(NearT) <= Cardinality(NearS) /\ Cardinality(NearS) \in Nat
      /\ Cardinality(NearT) \in Nat
  BY <1>3, NearerIsFewer
<1> QED
  BY <1>1, <1>4, NeededFacts

-----------------------------------------------------------------------------
(* What a generator prints.                                                *)

Line == [is : {"periodic", "summary", "data"}, e : Nat,
         op : {"none", "read", "update", "all"}, cum : BOOLEAN]
Sample == [kind : {"periodic", "summary"}, e : Nat,
           op : {"read", "update", "all", "clipped"}, cum : BOOLEAN]

OpOf(i) == IF i % 2 = 1 THEN "read" ELSE "update"
IntervalOf(i) == (i + 1) \div 2

LEMMA OfInterval ==
  /\ \A i \in Nat : IntervalOf(i) \in Nat /\ OpOf(i) \in {"read", "update"}
  /\ \A n \in Nat : \A i \in 1..(2 * n) : IntervalOf(i) \in 1..n
  /\ \A i, j \in Nat : i <= j => IntervalOf(i) <= IntervalOf(j)
  /\ \A i, j \in Nat : IntervalOf(i) = IntervalOf(j) /\ OpOf(i) = OpOf(j) => i = j
<1>1. \A i \in Nat : IntervalOf(i) \in Nat /\ OpOf(i) \in {"read", "update"}
  BY DEF IntervalOf, OpOf
<1>2. \A n \in Nat : \A i \in 1..(2 * n) : IntervalOf(i) \in 1..n
  BY DEF IntervalOf
<1>3. \A i, j \in Nat : i <= j => IntervalOf(i) <= IntervalOf(j)
  BY DEF IntervalOf
<1>4. \A i, j \in Nat : IntervalOf(i) = IntervalOf(j) /\ OpOf(i) = OpOf(j) => i = j
  BY DEF IntervalOf, OpOf
<1> QED
  BY <1>1, <1>2, <1>3, <1>4

LEMMA OutputLength ==
  /\ Ticks \in Nat \ {0} /\ Len(Output) = 2 * Ticks + 7
  /\ DOMAIN Output = 1..(2 * Ticks + 7)
<1>1. Ticks \in Nat \ {0}
  BY SweepAssumption
<1>2. DOMAIN Output = 1..(2 * Ticks + 7) /\ 2 * Ticks + 7 \in Nat
  BY <1>1 DEF Output
<1>3. Output \in [1..(2 * Ticks + 7) -> {Output[i] : i \in 1..(2 * Ticks + 7)}]
  BY DEF Output
<1> QED
  BY <1>1, <1>2, <1>3

(* A line by its place: a header, an interval's operation, a total.        *)
LEMMA OutputAt ==
  ASSUME NEW i \in 1..(2 * Ticks + 7)
  PROVE  /\ Output[i] \in Line
         /\ i = 1 => Output[i].is = "periodic"
         /\ i \in 2..(2 * Ticks + 1) =>
              Output[i] = [is |-> "data", e |-> IntervalOf(i - 1), op |-> OpOf(i - 1), cum |-> FALSE]
         /\ i > 2 * Ticks + 1 => Output[i].is = "summary" \/ (Output[i].is = "data" /\ Output[i].cum)
         /\ i = 2 * Ticks + 2 => Output[i].is = "summary"
         /\ Output[i].is = "data" => Output[i].op \in {"read", "update", "all"} /\ Output[i].e <= Ticks
<1>1. i \in 1..(2 * Ticks + 7) /\ Ticks \in Nat \ {0}
  BY OutputLength
<1>2. CASE i = 1
  <2>1. Output[i] = [is |-> "periodic", e |-> 0, op |-> "none", cum |-> FALSE]
    BY <1>1, <1>2 DEF Output, Header
  <2>2. Output[i] \in Line
    BY <2>1 DEF Line
  <2>3. Output[i].is = "periodic"
    BY <2>1
  <2> QED
    BY <1>1, <1>2, <2>2, <2>3
<1>3. CASE i \in 2..(2 * Ticks + 1)
  <2>1. Output[i] = [is |-> "data", e |-> i \div 2, op |-> IF i % 2 = 0 THEN "read" ELSE "update",
                     cum |-> FALSE]
    BY <1>1, <1>3 DEF Output, Data
  <2>2. i \div 2 = IntervalOf(i - 1) /\ (IF i % 2 = 0 THEN "read" ELSE "update") = OpOf(i - 1)
    BY <1>3, <1>1 DEF IntervalOf, OpOf
  <2>3. IntervalOf(i - 1) \in 1..Ticks /\ OpOf(i - 1) \in {"read", "update"}
    <3>1. i - 1 \in 1..(2 * Ticks)
      BY <1>1, <1>3
    <3> QED
      BY <1>1, <3>1, OfInterval
  <2>4. Output[i] = [is |-> "data", e |-> IntervalOf(i - 1), op |-> OpOf(i - 1), cum |-> FALSE]
    BY <2>1, <2>2
  <2>5. Output[i] \in Line /\ Output[i].op \in {"read", "update", "all"} /\ Output[i].e <= Ticks
    BY <1>1, <2>3, <2>4 DEF Line
  <2> QED
    BY <1>1, <1>3, <2>4, <2>5
<1>4. CASE i > 2 * Ticks + 1 /\ i % 2 = 0
  <2>1. i # 1 /\ i \notin 2..(2 * Ticks + 1)
    BY <1>1, <1>4
  <2>2. Output[i] = [is |-> "summary", e |-> 0, op |-> "none", cum |-> FALSE]
    BY <1>1, <1>4, <2>1 DEF Output, Header
  <2>3. Output[i] \in Line /\ Output[i].is = "summary"
    BY <2>2 DEF Line
  <2> QED
    BY <1>1, <2>1, <2>3
<1>5. CASE i > 2 * Ticks + 1 /\ i % 2 # 0
  <2> DEFINE k == (i - 2 * Ticks - 1) \div 2
  <2>1. k \in {1, 2, 3} /\ i # 2 * Ticks + 2 /\ i # 1 /\ i \notin 2..(2 * Ticks + 1)
    BY <1>1, <1>5
  <2>2. Output[i] = [is |-> "data", e |-> Ticks, op |-> <<"read", "update", "all">>[k], cum |-> TRUE]
    BY <1>1, <1>5, <2>1 DEF Output, Data
  <2>3. <<"read", "update", "all">>[k] \in {"read", "update", "all"}
    BY <2>1
  <2>4. Output[i] \in Line /\ Output[i].is = "data" /\ Output[i].cum
        /\ Output[i].op \in {"read", "update", "all"} /\ Output[i].e <= Ticks
    <3> HIDE DEF k
    <3> QED
      BY <1>1, <2>2, <2>3 DEF Line
  <2> QED
    BY <1>1, <2>1, <2>4
<1> QED
  BY <1>1, <1>2, <1>3, <1>4, <1>5

-----------------------------------------------------------------------------
(* From samples to rows.                                                   *)

RowOf(t, x) == [tier |-> t, e |-> x.e, op |-> x.op, cum |-> x.cum]

(* If the offsets never fall back and no operation comes twice at one, the *)
(* grouping into ticks loses nothing but the warm-up.                      *)
LEMMA RowsAll ==
  ASSUME NEW s \in Seq(Sample),
         \A j, k \in Periodic(s) : j < k => s[j].e <= s[k].e,
         \A j, k \in Periodic(s) : s[j].e = s[k].e /\ s[j].op = s[k].op => j = k
  PROVE  Rows(s) = {RowOf(tier, s[j]) : j \in {i \in Periodic(s) : s[i].e > Warmup}}
<1> DEFINE P == Periodic(s)
           Kept == UNION {ByOp(s, P, i) : i \in {f \in Firsts(s, P) : s[f].e > Warmup}}
<1>1. P \in SUBSET Nat /\ \A j \in P : s[j].e \in Nat
  <2>1. DOMAIN s = 1..Len(s) /\ Len(s) \in Nat /\ \A j \in 1..Len(s) : s[j] \in Sample
    BY ElementOfSeq, LenProperties
  <2> QED
    BY <2>1 DEF Periodic, Sample
<1>2. ASSUME NEW j \in Kept PROVE j \in P /\ s[j].e > Warmup
  <2>1. PICK i \in Firsts(s, P) : s[i].e > Warmup /\ j \in ByOp(s, P, i)
    OBVIOUS
  <2> QED
    BY <1>1, <2>1 DEF ByOp, Tick, Firsts
<1>3. ASSUME NEW j \in P, s[j].e > Warmup PROVE j \in Kept
  <2> DEFINE Same == {k \in P : s[k].e = s[j].e}
  <2>1. PICK i \in Same : \A k \in Same : i <= k
    <3>1. Same \in SUBSET Nat /\ Same # {}
      BY <1>1
    <3> HIDE DEF Same
    <3> QED
      BY <3>1, SmallestExists
  <2>2. i \in P /\ s[i].e = s[j].e /\ i <= j
    BY <1>3, <2>1
  <2>3. i \in Firsts(s, P)
    <3> SUFFICES ASSUME NEW l \in P, l < i PROVE s[l].e # s[i].e
      BY <1>1, <2>2 DEF Firsts
    <3> QED
      BY <1>1, <2>1, <2>2
  <2>4. j \in Tick(s, P, i)
    <3> SUFFICES ASSUME NEW k \in P, i <= k, k <= j PROVE s[k].e = s[i].e
      BY <2>2 DEF Tick
    <3>1. s[i].e <= s[k].e /\ s[k].e <= s[j].e
      BY <1>1, <2>2
    <3> QED
      BY <1>1, <2>2, <3>1
  <2>5. \A k \in Tick(s, P, i) : k \in P /\ s[k].e = s[i].e
    BY <1>1 DEF Tick
  <2>6. j \in ByOp(s, P, i)
    BY <1>1, <2>2, <2>4, <2>5 DEF ByOp
  <2> QED
    BY <1>3, <2>2, <2>3, <2>6
<1>4. Kept = {i \in P : s[i].e > Warmup}
  BY <1>2, <1>3
<1> HIDE DEF Kept
<1> QED
  BY <1>4, Zenon DEF Rows, RowOf, Kept

(* How many samples of intervals the first lines of a tier hold.           *)
Seen(at) == IF at = 0 THEN 0 ELSE IF at <= 2 * Ticks + 1 THEN at - 1 ELSE 2 * Ticks

TickSample(i) == [kind |-> "periodic", e |-> IntervalOf(i), op |-> OpOf(i), cum |-> FALSE]

(* What the parser has returned when at lines were read.                   *)
ReadFrom(s, at) ==
  /\ s \in Seq(Sample) /\ Seen(at) <= Len(s)
  /\ at <= 2 * Ticks + 1 => Len(s) = Seen(at)
  /\ \A i \in 1..Seen(at) : s[i] = TickSample(i)
  /\ \A i \in 1..Len(s) : i > Seen(at) => s[i].kind = "summary"

(* The rows of a tier whose stream ended so: those of its intervals, and   *)
(* the one of a line that lost its label.                                  *)
KeptOf(t, at) ==
  {RowOf(t, TickSample(i)) : i \in {j \in 1..Seen(at) : IntervalOf(j) > Warmup}}

TornLabel(end) == IF end = "bare" THEN "all" ELSE "clipped"
TornOf(t, at, end) ==
  IF end \in {"bare", "clipped"} /\ at \in 1..(2 * Ticks) /\ IntervalOf(at) > Warmup
  THEN {[tier |-> t, e |-> IntervalOf(at), op |-> TornLabel(end), cum |-> FALSE]}
  ELSE {}

RowsOfTier(t) ==
  IF cuts[t].end \in {"none", "torn"} THEN {}
  ELSE KeptOf(t, cuts[t].at) \cup TornOf(t, cuts[t].at, cuts[t].end)

LEMMA SeenFacts ==
  ASSUME NEW at \in 0..(2 * Ticks + 7)
  PROVE  Seen(at) \in 0..(2 * Ticks)
BY OutputLength DEF Seen

LEMMA TickSampleType ==
  \A i \in Nat : /\ TickSample(i) \in Sample /\ TickSample(i).kind = "periodic"
                 /\ TickSample(i).e = IntervalOf(i) /\ TickSample(i).op = OpOf(i)
                 /\ TickSample(i).cum = FALSE
BY OfInterval DEF TickSample, Sample

LEMMA WholeRows ==
  ASSUME NEW at \in 0..(2 * Ticks + 7), NEW s, ReadFrom(s, at)
  PROVE  Rows(s) = KeptOf(tier, at)
<1>1. s \in Seq(Sample) /\ Seen(at) \in Nat /\ Len(s) \in Nat /\ Seen(at) <= Len(s)
  BY SeenFacts, LenProperties DEF ReadFrom
<1>2. Periodic(s) = 1..Seen(at) /\ \A i \in 1..Seen(at) : s[i] = TickSample(i)
  <2>1. DOMAIN s = 1..Len(s)
    BY <1>1, LenProperties
  <2>2. \A i \in 1..Seen(at) : s[i] = TickSample(i) /\ s[i].kind = "periodic"
    BY DEF ReadFrom, TickSample
  <2>3. \A i \in 1..Len(s) : i > Seen(at) => s[i].kind # "periodic"
    BY DEF ReadFrom
  <2> QED
    BY <1>1, <2>1, <2>2, <2>3 DEF Periodic
<1>3. \A i \in Periodic(s) : s[i].e = IntervalOf(i) /\ s[i].op = OpOf(i) /\ i \in Nat
  BY <1>1, <1>2, TickSampleType
<1>4. \A j, k \in Periodic(s) : j < k => s[j].e <= s[k].e
  BY <1>3, OfInterval
<1>5. \A j, k \in Periodic(s) : s[j].e = s[k].e /\ s[j].op = s[k].op => j = k
  BY <1>3, OfInterval
<1>6. Rows(s) = {RowOf(tier, s[j]) : j \in {i \in Periodic(s) : s[i].e > Warmup}}
  BY <1>1, <1>4, <1>5, RowsAll
<1> QED
  BY <1>2, <1>3, <1>6 DEF KeptOf

LEMMA TornRow ==
  ASSUME NEW at, NEW end,
         NEW x, x = [kind |-> "periodic", e |-> IntervalOf(at), cum |-> FALSE, op |-> TornLabel(end)]
  PROVE  RowOf(tier, x) = [tier |-> tier, e |-> IntervalOf(at), op |-> TornLabel(end), cum |-> FALSE]
<1> HIDE DEF IntervalOf, TornLabel
<1> QED
  BY DEF RowOf

LEMMA TornRows ==
  ASSUME NEW at \in 1..(2 * Ticks + 6), NEW s, ReadFrom(s, at), NEW end \in {"bare", "clipped"},
         Output[at + 1].is = "data",
         NEW x, x = [kind |-> IF at <= 2 * Ticks + 1 THEN "periodic" ELSE "summary",
                     e |-> Output[at + 1].e, cum |-> Output[at + 1].cum, op |-> TornLabel(end)]
  PROVE  x \in Sample /\ Rows(Append(s, x)) = KeptOf(tier, at) \cup TornOf(tier, at, end)
<1> DEFINE r == Append(s, x)
           n == Seen(at)
<1>1. /\ s \in Seq(Sample) /\ n \in Nat /\ Len(s) \in Nat /\ n <= Len(s) /\ Ticks \in Nat \ {0}
  BY OutputLength, SeenFacts, LenProperties DEF ReadFrom
<1>2. at + 1 \in 1..(2 * Ticks + 7) /\ Output[at + 1] \in Line
      /\ (at \in 1..(2 * Ticks) => Output[at + 1] = [is |-> "data", e |-> IntervalOf(at), op |-> OpOf(at),
                                                     cum |-> FALSE])
      /\ at # 2 * Ticks + 1
  <2>1. at + 1 \in 1..(2 * Ticks + 7) /\ (at \in 1..(2 * Ticks) => at + 1 \in 2..(2 * Ticks + 1))
        /\ (at + 1) - 1 = at /\ (at = 2 * Ticks + 1 => at + 1 = 2 * Ticks + 2)
    <3>1. 2 * Ticks \in Nat /\ at \in 1..(2 * Ticks + 6)
      BY <1>1
    <3> DEFINE m == 2 * Ticks
    <3> HIDE DEF m
    <3>2. m \in Nat /\ at \in 1..(m + 6)
      BY <3>1 DEF m
    <3>3. at + 1 \in 1..(m + 7) /\ (at \in 1..m => at + 1 \in 2..(m + 1))
          /\ (at + 1) - 1 = at /\ (at = m + 1 => at + 1 = m + 2)
      BY <3>2
    <3> QED
      BY <3>3 DEF m
  <2> QED
    BY <2>1, OutputAt
<1>3. x \in Sample
  BY <1>2 DEF Line, Sample, TornLabel
<1>4. /\ r \in Seq(Sample) /\ Len(r) = Len(s) + 1 /\ r[Len(s) + 1] = x
      /\ \A i \in 1..Len(s) : r[i] = s[i]
  BY <1>1, <1>3, AppendProperties
<1> HIDE DEF r
<1>5. CASE at > 2 * Ticks + 1
  <2>1. ReadFrom(r, at)
    <3>1. x.kind = "summary"
      BY <1>1, <1>5
    <3>2. \A i \in 1..Len(r) : i > n => r[i].kind = "summary"
      BY <1>1, <1>4, <3>1 DEF ReadFrom
    <3> QED
      BY <1>1, <1>4, <1>5, <3>2 DEF ReadFrom
  <2>2. Rows(r) = KeptOf(tier, at)
    BY <1>1, <2>1, WholeRows
  <2>3. TornOf(tier, at, end) = {}
    BY <1>1, <1>5 DEF TornOf
  <2> QED
    BY <1>3, <2>2, <2>3 DEF r
<1>6. CASE at \in 1..(2 * Ticks)
  <2>1. n = at - 1 /\ Len(s) = n /\ \A i \in 1..n : s[i] = TickSample(i)
    BY <1>1, <1>6 DEF ReadFrom, Seen
  <2>2. x = [kind |-> "periodic", e |-> IntervalOf(at), cum |-> FALSE, op |-> TornLabel(end)]
    <3>1. at <= 2 * Ticks + 1 /\ Output[at + 1].e = IntervalOf(at) /\ Output[at + 1].cum = FALSE
      BY <1>1, <1>2, <1>6
    <3> QED
      BY <3>1
  <2>3. DOMAIN r = 1..at /\ r[at] = x /\ \A i \in 1..n : r[i] = TickSample(i)
    BY <1>1, <1>4, <1>6, <2>1, LenProperties
  <2>4. Periodic(r) = 1..at
    <3>1. \A i \in 1..at : i \in 1..n \/ i = at
      BY <1>1, <1>6, <2>1
    <3>2. \A i \in 1..at : r[i].kind = "periodic"
      BY <1>1, <2>2, <2>3, <3>1, TickSampleType
    <3> QED
      BY <2>3, <3>2 DEF Periodic
  <2>5. \A i \in 1..at : /\ r[i].e = IntervalOf(i) /\ i \in Nat
                         /\ r[i].op = IF i = at THEN TornLabel(end) ELSE OpOf(i)
    <3>1. \A i \in 1..at : i \in Nat /\ (i = at \/ (i \in 1..n /\ i # at))
      BY <1>1, <1>6, <2>1
    <3>2. \A i \in 1..n : r[i].e = IntervalOf(i) /\ r[i].op = OpOf(i)
      BY <1>1, <2>3, TickSampleType
    <3>3. r[at].e = IntervalOf(at) /\ r[at].op = TornLabel(end)
      BY <2>2, <2>3
    <3> QED
      BY <3>1, <3>2, <3>3
  <2>6. \A i \in 1..at : OpOf(i) # TornLabel(end)
    BY DEF OpOf, TornLabel
  <2>7. \A j, k \in Periodic(r) : j < k => r[j].e <= r[k].e
    <3> SUFFICES ASSUME NEW j \in 1..at, NEW k \in 1..at, j < k PROVE r[j].e <= r[k].e
      BY <2>4
    <3>1. j \in Nat /\ k \in Nat /\ j <= k /\ r[j].e = IntervalOf(j) /\ r[k].e = IntervalOf(k)
      BY <2>5
    <3> QED
      BY <3>1, OfInterval
  <2>8. \A j, k \in Periodic(r) : r[j].e = r[k].e /\ r[j].op = r[k].op => j = k
    <3> SUFFICES ASSUME NEW j \in 1..at, NEW k \in 1..at, r[j].e = r[k].e, r[j].op = r[k].op
                 PROVE  j = k
      BY <2>4
    <3>1. j \in Nat /\ k \in Nat /\ IntervalOf(j) = IntervalOf(k)
      BY <2>5
    <3>2. j = k \/ (j # at /\ k # at)
      BY <2>5, <2>6
    <3>3. j # at /\ k # at => OpOf(j) = OpOf(k)
      BY <2>5
    <3> QED
      BY <3>1, <3>2, <3>3, OfInterval
  <2>9. Rows(r) = {RowOf(tier, r[j]) : j \in {i \in Periodic(r) : r[i].e > Warmup}}
    BY <1>4, <2>7, <2>8, RowsAll
  <2>10. {i \in Periodic(r) : r[i].e > Warmup} =
           {i \in 1..n : IntervalOf(i) > Warmup} \cup (IF IntervalOf(at) > Warmup THEN {at} ELSE {})
    BY <1>1, <1>6, <2>1, <2>4, <2>5
  <2>11. \A i \in 1..n : RowOf(tier, r[i]) = RowOf(tier, TickSample(i))
    BY <2>3
  <2>12. RowOf(tier, r[at]) = [tier |-> tier, e |-> IntervalOf(at), op |-> TornLabel(end), cum |-> FALSE]
    <3>1. RowOf(tier, x) = [tier |-> tier, e |-> IntervalOf(at), op |-> TornLabel(end), cum |-> FALSE]
      BY <2>2, TornRow
    <3>2. r[at] = x
      BY <2>3
    <3> QED
      BY <3>1, <3>2
  <2>13. TornOf(tier, at, end) = IF IntervalOf(at) > Warmup THEN {RowOf(tier, r[at])} ELSE {}
    BY <1>6, <2>12 DEF TornOf
  <2> QED
    <3>1. Rows(r) = {RowOf(tier, r[j]) : j \in {i \in 1..n : IntervalOf(i) > Warmup}}
                      \cup TornOf(tier, at, end)
      BY <2>9, <2>10, <2>13
    <3>2. {RowOf(tier, r[j]) : j \in {i \in 1..n : IntervalOf(i) > Warmup}} = KeptOf(tier, at)
      BY <2>11 DEF KeptOf
    <3> QED
      BY <1>3, <3>1, <3>2 DEF r
<1> QED
  BY <1>1, <1>2, <1>5, <1>6

-----------------------------------------------------------------------------
(* The inductive invariant.                                                *)

NoCut == [at |-> 0, end |-> "none"]

TypesInv ==
  /\ engine \in {"cockroachdb", "postgresql"} /\ touches \in BOOLEAN
  /\ pc \in {"network", "start", "stream", "finish", "ended", "raised"}
  /\ tier \in 1..Tiers /\ pos \in 0..Len(Output) /\ upsets \in 0..MaxUpsets
  /\ header \in {"none", "periodic", "summary"} /\ samples \in Seq(Sample)
  /\ counters \in [execs : Nat, rows : Nat, seqs : Nat]
  /\ before \in [execs : Nat, rows : Nat, seqs : Nat]
  /\ failed \subseteq {"mismatch", "lost", "never ran", "scanned", "floor"}
  /\ cuts \in [1..Tiers -> [at : 0..Len(Output), end : Ends \cup {"none"}]]

(* The floor is the rank of some of the followers, none too few.           *)
FloorInv ==
  /\ matrix \in (SUBSET Followers) \cup {NoMatrix} /\ floor \in Nat
  /\ floor # 0 => \E S \in SUBSET Followers : Enumerable(S) /\ floor = FloorOf(S)

(* Tiers run in their order, and what was cut off stays so.                *)
CutsInv ==
  /\ \A t \in 1..Tiers :
       t > tier \/ (t = tier /\ pc \in {"network", "start", "stream"}) => cuts[t] = NoCut
  /\ pc = "finish" => cuts[tier].at = pos /\ cuts[tier].end \in Ends \ {"torn"}

(* The parser knows what the lines so far have said.                       *)
HeaderAt(at) == IF at = 0 THEN "none" ELSE IF at <= 2 * Ticks + 1 THEN "periodic" ELSE "summary"
StreamInv == pc = "stream" => header = HeaderAt(pos) /\ ReadFrom(samples, pos)

(* metrics.csv is what the streams of the tiers have left.                 *)
CsvInv == csv = UNION {RowsOfTier(t) : t \in 1..Tiers}

(* No counter has more rows than executions; since the tier began they     *)
(* have grown by what it ran, or have been flushed and know of it alone.   *)
Matching(n) == IF touches THEN n ELSE 0
Grown == /\ counters.execs = before.execs + Seen(pos)
         /\ counters.rows = before.rows + Matching(Seen(pos))
Flushed == counters.rows = Matching(counters.execs)
CountersInv ==
  /\ counters.rows <= counters.execs /\ before.rows <= before.execs
  /\ pc \in {"stream", "finish"} => Grown \/ Flushed

(* What the checks said of the tiers that are over.                        *)
VerdictInv ==
  /\ pc = "network" => failed = {}
  /\ touches /\ floor = FloorOf(Followers) => "floor" \notin failed
  /\ touches /\ "mismatch" \in failed =>
       \E t \in 1..Tiers : cuts[t].end # "none" /\ ~Worked(t)
  /\ ~touches /\ failed = {} =>
       \A t \in 1..Tiers : t < tier \/ pc = "ended" => ~Worked(t)

IInv == TypesInv /\ FloorInv /\ CutsInv /\ StreamInv /\ CsvInv /\ CountersInv /\ VerdictInv

-----------------------------------------------------------------------------
(* One more line.                                                          *)

SampleOf(kind, line) == [kind |-> kind, e |-> line.e, op |-> line.op, cum |-> line.cum]

LEMMA LineCounts ==
  ASSUME NEW at \in 0..(2 * Ticks + 6)
  PROVE  /\ Output[at + 1] \in Line
         /\ Output[at + 1].is # "data" =>
              Output[at + 1].is = HeaderAt(at + 1) /\ Seen(at + 1) = Seen(at)
         /\ Output[at + 1].is = "data" => at > 0 /\ HeaderAt(at + 1) = HeaderAt(at)
         /\ Output[at + 1].is = "data" /\ ~Output[at + 1].cum =>
              at \in 1..(2 * Ticks) /\ Seen(at + 1) = Seen(at) + 1
         /\ Output[at + 1].is = "data" /\ Output[at + 1].cum =>
              at > 2 * Ticks + 1 /\ Seen(at + 1) = Seen(at)
<1>1. /\ Ticks \in Nat \ {0} /\ at + 1 \in 1..(2 * Ticks + 7) /\ (at + 1) - 1 = at
      /\ Output[at + 1] \in Line
  <2>1. Ticks \in Nat \ {0} /\ at + 1 \in 1..(2 * Ticks + 7) /\ (at + 1) - 1 = at
    BY OutputLength
  <2> QED
    BY <2>1, OutputAt
<1>2. CASE at = 0
  <2>1. Output[at + 1].is = "periodic"
    <3>1. 1 \in 1..(2 * Ticks + 7) /\ at + 1 = 1
      BY <1>1, <1>2
    <3> QED
      BY <3>1, OutputAt
  <2> QED
    BY <1>1, <1>2, <2>1 DEF HeaderAt, Seen
<1>3. CASE at \in 1..(2 * Ticks)
  <2>1. at + 1 \in 2..(2 * Ticks + 1)
    BY <1>1, <1>3
  <2>2. Output[at + 1] = [is |-> "data", e |-> IntervalOf(at), op |-> OpOf(at), cum |-> FALSE]
    BY <1>1, <2>1, OutputAt
  <2>3. Output[at + 1].is = "data" /\ ~Output[at + 1].cum
    BY <2>2
  <2> QED
    BY <1>1, <1>3, <2>3 DEF HeaderAt, Seen
<1>4. CASE at = 2 * Ticks + 1
  <2>1. at + 1 = 2 * Ticks + 2
    BY <1>1, <1>4
  <2>2. Output[at + 1].is = "summary"
    BY <1>1, <2>1, OutputAt
  <2> QED
    BY <1>1, <1>4, <2>2 DEF HeaderAt, Seen
<1>5. CASE at > 2 * Ticks + 1
  <2>1. at + 1 > 2 * Ticks + 1
    BY <1>1, <1>5
  <2>2. Output[at + 1].is = "summary" \/ (Output[at + 1].is = "data" /\ Output[at + 1].cum)
    BY <1>1, <2>1, OutputAt
  <2> QED
    BY <1>1, <1>5, <2>2 DEF HeaderAt, Seen
<1> QED
  BY <1>1, <1>2, <1>3, <1>4, <1>5

LEMMA SampleOfTick ==
  ASSUME NEW i, NEW kind, kind = "periodic",
         NEW line, line = [is |-> "data", e |-> IntervalOf(i), op |-> OpOf(i), cum |-> FALSE]
  PROVE  SampleOf(kind, line) = TickSample(i)
<1> HIDE DEF IntervalOf, OpOf
<1> QED
  BY DEF SampleOf, TickSample

LEMMA ReadMore ==
  ASSUME NEW at \in 0..(2 * Ticks + 6), NEW s, ReadFrom(s, at)
  PROVE  /\ Output[at + 1].is # "data" => ReadFrom(s, at + 1)
         /\ Output[at + 1].is = "data" =>
              ReadFrom(Append(s, SampleOf(HeaderAt(at), Output[at + 1])), at + 1)
<1>1. /\ s \in Seq(Sample) /\ Seen(at) \in Nat /\ Len(s) \in Nat /\ Seen(at) <= Len(s)
      /\ Ticks \in Nat \ {0} /\ Seen(at + 1) \in Nat
  <2>1. at + 1 \in 0..(2 * Ticks + 7) /\ at \in 0..(2 * Ticks + 7) /\ Ticks \in Nat \ {0}
    BY OutputLength
  <2> QED
    <3>1. Seen(at) \in Nat /\ Seen(at + 1) \in Nat
      BY <2>1, SeenFacts
    <3>2. s \in Seq(Sample) /\ Seen(at) <= Len(s)
      BY DEF ReadFrom
    <3> QED
      BY <2>1, <3>1, <3>2, LenProperties
<1>2. CASE Output[at + 1].is # "data"
  <2>1. Seen(at + 1) = Seen(at)
    BY <1>2, LineCounts
  <2> QED
    BY <1>1, <1>2, <2>1 DEF ReadFrom
<1>3. CASE Output[at + 1].is = "data"
  <2> DEFINE x == SampleOf(HeaderAt(at), Output[at + 1])
             r == Append(s, x)
  <2>1. at > 0 /\ Output[at + 1] \in Line
    BY <1>3, LineCounts
  <2>2. HeaderAt(at) \in {"periodic", "summary"}
    BY <2>1 DEF HeaderAt
  <2>3. Output[at + 1].op \in {"read", "update", "all"}
    <3>1. at + 1 \in 1..(2 * Ticks + 7)
      BY <1>1
    <3> QED
      BY <1>3, <3>1, OutputAt
  <2>4. x \in Sample /\ x.kind = HeaderAt(at)
    <3> HIDE DEF HeaderAt
    <3> QED
      BY <2>1, <2>2, <2>3 DEF Line, Sample, SampleOf
  <2>5. /\ r \in Seq(Sample) /\ Len(r) = Len(s) + 1 /\ r[Len(s) + 1] = x
        /\ \A i \in 1..Len(s) : r[i] = s[i]
    BY <1>1, <2>4, AppendProperties
  <2>6. CASE ~Output[at + 1].cum
    <3>1. at \in 1..(2 * Ticks) /\ Seen(at + 1) = Seen(at) + 1
      BY <1>3, <2>6, LineCounts
    <3>2. Seen(at) = at - 1 /\ Len(s) = at - 1
      BY <1>1, <3>1 DEF Seen, ReadFrom
    <3>3. x = TickSample(at)
      <4>1. at + 1 \in 2..(2 * Ticks + 1) /\ (at + 1) - 1 = at /\ at + 1 \in 1..(2 * Ticks + 7)
        BY <1>1, <3>1
      <4>2. Output[at + 1] = [is |-> "data", e |-> IntervalOf(at), op |-> OpOf(at), cum |-> FALSE]
        BY <4>1, OutputAt
      <4>3. HeaderAt(at) = "periodic"
        BY <1>1, <3>1 DEF HeaderAt
      <4> QED
        BY <4>2, <4>3, SampleOfTick
    <3> HIDE DEF x, r
    <3>4. \A i \in 1..Seen(at + 1) : r[i] = TickSample(i)
      <4> SUFFICES ASSUME NEW i \in 1..at PROVE r[i] = TickSample(i)
        BY <1>1, <3>1, <3>2
      <4>1. i = at \/ i \in 1..(at - 1)
        BY <3>1
      <4>2. \A j \in 1..(at - 1) : s[j] = TickSample(j)
        BY <3>2 DEF ReadFrom
      <4>3. r[at] = x
        BY <2>5, <3>1, <3>2
      <4> QED
        BY <2>5, <3>2, <3>3, <4>1, <4>2, <4>3
    <3> QED
      <4>1. Seen(at + 1) = at /\ Len(r) = at
        BY <1>1, <2>5, <3>1, <3>2
      <4>2. ReadFrom(r, at + 1)
        BY <2>5, <3>1, <3>4, <4>1 DEF ReadFrom
      <4> QED
        BY <1>3, <4>2 DEF r, x
  <2>7. CASE Output[at + 1].cum
    <3>1. at > 2 * Ticks + 1 /\ Seen(at + 1) = Seen(at)
      BY <1>3, <2>7, LineCounts
    <3>2. x.kind = "summary"
      BY <1>1, <2>4, <3>1 DEF HeaderAt
    <3> HIDE DEF x, r
    <3>3. ReadFrom(r, at + 1)
      <4>1. \A i \in 1..Seen(at + 1) : r[i] = TickSample(i)
        BY <1>1, <2>5, <3>1 DEF ReadFrom
      <4>2. \A i \in 1..Len(r) : i > Seen(at + 1) => r[i].kind = "summary"
        <5> SUFFICES ASSUME NEW i \in 1..Len(r), i > Seen(at) PROVE r[i].kind = "summary"
          BY <3>1
        <5>1. i = Len(s) + 1 \/ i \in 1..Len(s)
          BY <1>1, <2>5
        <5> QED
          BY <2>5, <3>2, <5>1 DEF ReadFrom
      <4>3. at + 1 > 2 * Ticks + 1 /\ Seen(at + 1) <= Len(r)
        BY <1>1, <2>5, <3>1
      <4> QED
        BY <1>1, <2>5, <4>1, <4>2, <4>3 DEF ReadFrom
    <3> QED
      BY <1>3, <3>3 DEF r, x
  <2> QED
    BY <2>6, <2>7
<1> QED
  BY <1>2, <1>3

-----------------------------------------------------------------------------
(* It holds at first, and every step keeps it.                             *)

LEMMA InitIInv == Init => IInv
<1> SUFFICES ASSUME Init PROVE IInv
  OBVIOUS
<1>1. /\ 1 \in 1..Tiers /\ Tiers \in Nat /\ MaxUpsets \in Nat
      /\ Len(Output) = 2 * Ticks + 7 /\ 0 \in 0..Len(Output)
  BY SweepAssumption, OutputLength
<1>2. TypesInv
  <2>1. samples \in Seq(Sample) /\ cuts \in [1..Tiers -> [at : 0..Len(Output), end : Ends \cup {"none"}]]
    <3>1. samples = <<>> /\ cuts = [t \in 1..Tiers |-> [at |-> 0, end |-> "none"]]
      BY DEF Init
    <3>2. <<>> \in Seq(Sample)
      BY EmptySeq
    <3>3. [at |-> 0, end |-> "none"] \in [at : 0..Len(Output), end : Ends \cup {"none"}]
      BY <1>1
    <3> QED
      BY <3>1, <3>2, <3>3
  <2>2. counters \in [execs : Nat, rows : Nat, seqs : Nat] /\ before = counters
    BY DEF Init
  <2>3. tier \in 1..Tiers /\ pos \in 0..Len(Output) /\ upsets \in 0..MaxUpsets
    BY <1>1 DEF Init
  <2> QED
    BY <2>1, <2>2, <2>3 DEF Init, TypesInv
<1>3. FloorInv /\ StreamInv
  <2>1. matrix = NoMatrix /\ floor = 0 /\ pc = "network"
    BY DEF Init
  <2>2. FloorInv
    <3>1. matrix \in (SUBSET Followers) \cup {NoMatrix}
      BY <2>1, Zenon
    <3>2. floor \in Nat /\ (floor # 0 => \E S \in SUBSET Followers : Enumerable(S) /\ floor = FloorOf(S))
      BY <2>1
    <3> QED
      BY <3>1, <3>2 DEF FloorInv
  <2> QED
    BY <2>1, <2>2 DEF StreamInv
<1>4. \A t \in 1..Tiers : cuts[t] = NoCut
  BY DEF Init, NoCut
<1>5. CutsInv
  BY <1>4 DEF Init, CutsInv
<1>6. CsvInv
  <2>1. \A t \in 1..Tiers : RowsOfTier(t) = {}
    BY <1>4 DEF RowsOfTier, NoCut
  <2> QED
    BY <2>1 DEF Init, CsvInv
<1>7. CountersInv
  BY DEF Init, CountersInv
<1>8. VerdictInv
  <2>1. pc = "network" /\ failed = {} /\ tier = 1
    BY DEF Init
  <2>2. \A t \in 1..Tiers : ~(t < tier)
    BY <1>1, <2>1
  <2> QED
    BY <2>1, <2>2 DEF VerdictInv
<1> QED
  BY <1>2, <1>3, <1>5, <1>6, <1>7, <1>8 DEF IInv

(* Where a line is read the parser has that many behind it.                *)
LEMMA AtALine ==
  ASSUME IInv, pc = "stream", pos < Len(Output)
  PROVE  /\ pos \in 0..(2 * Ticks + 6) /\ ReadFrom(samples, pos) /\ header = HeaderAt(pos)
         /\ Output[pos + 1] \in Line
<1>1. pos \in 0..Len(Output) /\ header = HeaderAt(pos) /\ ReadFrom(samples, pos)
  BY DEF IInv, TypesInv, StreamInv
<1>2. pos \in 0..(2 * Ticks + 6)
  BY <1>1, OutputLength
<1> QED
  BY <1>1, <1>2, LineCounts

LEMMA ReadLineStep ==
  ASSUME IInv, ReadLine
  PROVE  /\ ReadFrom(samples', pos + 1) /\ header' = HeaderAt(pos + 1) /\ pos' = pos + 1
         /\ pos + 1 \in 1..(2 * Ticks + 7)
<1> DEFINE line == Output[pos + 1]
<1>1. /\ pc = "stream" /\ pos < Len(Output) /\ Parse(line) /\ pos' = pos + 1
  BY DEF ReadLine
<1>2. pos \in 0..(2 * Ticks + 6) /\ ReadFrom(samples, pos) /\ header = HeaderAt(pos)
  BY <1>1, AtALine
<1>3. pos + 1 \in 1..(2 * Ticks + 7)
  BY <1>2, OutputLength
<1>4. CASE line.is # "data"
  <2>1. header' = line.is /\ samples' = samples
    BY <1>1, <1>4 DEF Parse
  <2>2. line.is = HeaderAt(pos + 1) /\ ReadFrom(samples, pos + 1)
    BY <1>2, <1>4, LineCounts, ReadMore
  <2> QED
    BY <1>1, <1>3, <2>1, <2>2
<1>5. CASE line.is = "data"
  <2>1. header' = header /\ samples' = Append(samples, SampleOf(header, line))
    BY <1>1, <1>5 DEF Parse, SampleOf
  <2>2. HeaderAt(pos + 1) = HeaderAt(pos) /\ ReadFrom(Append(samples, SampleOf(HeaderAt(pos), line)), pos + 1)
    BY <1>2, <1>5, LineCounts, ReadMore
  <2> QED
    BY <1>1, <1>2, <1>3, <2>1, <2>2
<1> QED
  BY <1>4, <1>5

(* What a stream leaves when it ends: the samples of the lines read, and   *)
(* perhaps the one of half a line.                                         *)
LEMMA StreamEndsStep ==
  ASSUME IInv, StreamEnds
  PROVE  /\ pc = "stream" /\ pos \in 0..(2 * Ticks + 7)
         /\ \E end \in Ends :
              /\ cuts' = [cuts EXCEPT ![tier] = [at |-> pos, end |-> end]]
              /\ \/ end = "torn" /\ pc' = "raised" /\ samples' = samples /\ csv' = csv
                 \/ /\ end # "torn" /\ pc' = "finish" /\ samples' \in Seq(Sample)
                    /\ csv' = csv \cup KeptOf(tier, pos) \cup TornOf(tier, pos, end)
<1>1. pc = "stream" /\ pos \in 0..(2 * Ticks + 7)
  BY OutputLength DEF StreamEnds, IInv, TypesInv
<1> DEFINE next == Output[pos + 1]
           TornX(end) == [kind |-> header, e |-> next.e, cum |-> next.cum,
                          op |-> IF end = "bare" THEN "all" ELSE "clipped"]
           read(end) == IF end = "whole" THEN samples ELSE Append(samples, TornX(end))
<1>2. PICK end \in Ends :
        /\ end = "whole" \/ (pos < Len(Output) /\ next.is = "data")
        /\ cuts' = [cuts EXCEPT ![tier] = [at |-> pos, end |-> end]]
        /\ IF end = "torn"
           THEN pc' = "raised" /\ UNCHANGED <<samples, csv>>
           ELSE pc' = "finish" /\ samples' = read(end) /\ csv' = csv \cup Rows(read(end))
  BY Zenon DEF StreamEnds
<1>3. CASE end = "torn"
  BY <1>1, <1>2, <1>3
<1>4. CASE end = "whole"
  <2>1. ReadFrom(samples, pos)
    BY <1>1 DEF IInv, StreamInv
  <2>2. samples \in Seq(Sample) /\ Rows(samples) = KeptOf(tier, pos)
    BY <1>1, <2>1, WholeRows DEF ReadFrom
  <2>3. TornOf(tier, pos, end) = {}
    BY <1>4 DEF TornOf
  <2>4. pc' = "finish" /\ samples' = samples /\ csv' = csv \cup Rows(samples)
    BY <1>2, <1>4
  <2>5. csv' = csv \cup KeptOf(tier, pos) \cup TornOf(tier, pos, end)
    BY <2>2, <2>3, <2>4
  <2> QED
    BY <1>1, <1>2, <1>4, <2>2, <2>4, <2>5
<1>5. CASE end \in {"bare", "clipped"}
  <2>1. /\ pos \in 0..(2 * Ticks + 6) /\ ReadFrom(samples, pos) /\ header = HeaderAt(pos)
        /\ next.is = "data"
    BY <1>1, <1>2, <1>5, AtALine
  <2>2. pos > 0 /\ pos \in 1..(2 * Ticks + 6)
    <3>1. pos > 0
      BY <2>1, LineCounts
    <3> QED
      BY <2>1, <3>1
  <2>3. header = IF pos <= 2 * Ticks + 1 THEN "periodic" ELSE "summary"
    BY <2>1, <2>2 DEF HeaderAt
  <2>4. TornX(end) = [kind |-> IF pos <= 2 * Ticks + 1 THEN "periodic" ELSE "summary",
                      e |-> next.e, cum |-> next.cum, op |-> TornLabel(end)]
    BY <2>3 DEF TornLabel
  <2>5. TornX(end) \in Sample
        /\ Rows(Append(samples, TornX(end))) = KeptOf(tier, pos) \cup TornOf(tier, pos, end)
    <3> HIDE DEF TornX
    <3> QED
      BY <1>5, <2>1, <2>2, <2>4, TornRows
  <2> HIDE DEF TornX
  <2>6. pc' = "finish" /\ samples' = Append(samples, TornX(end))
        /\ csv' = csv \cup Rows(Append(samples, TornX(end)))
    BY <1>2, <1>5
  <2>7. samples' \in Seq(Sample)
    BY <2>1, <2>5, <2>6, AppendProperties DEF ReadFrom
  <2>8. csv' = csv \cup KeptOf(tier, pos) \cup TornOf(tier, pos, end)
    BY <2>5, <2>6
  <2> QED
    BY <1>1, <1>2, <1>5, <2>6, <2>7, <2>8
<1> QED
  BY <1>3, <1>4, <1>5 DEF Ends

-----------------------------------------------------------------------------
(* Types and the floor.                                                    *)

LEMMA CountersSet ==
  ASSUME NEW c \in [execs : Nat, rows : Nat, seqs : Nat], NEW e \in Nat, NEW r \in Nat,
         NEW d, d = [c EXCEPT !.execs = e, !.rows = r]
  PROVE  d \in [execs : Nat, rows : Nat, seqs : Nat] /\ d.execs = e /\ d.rows = r
OBVIOUS

LEMMA ExecutedStep ==
  ASSUME counters \in [execs : Nat, rows : Nat, seqs : Nat], NEW line, Executed(line)
  PROVE  /\ counters' \in [execs : Nat, rows : Nat, seqs : Nat]
         /\ line.is # "data" \/ line.cum => counters' = counters
         /\ ~(line.is # "data" \/ line.cum) =>
              /\ counters'.execs = counters.execs + 1
              /\ counters'.rows = IF touches THEN counters.rows + 1 ELSE counters.rows
<1>0. /\ counters.execs + 1 \in Nat /\ counters.rows \in Nat /\ counters.rows + 1 \in Nat
  OBVIOUS
<1>1. CASE line.is # "data" \/ line.cum
  BY <1>1 DEF Executed
<1>2. CASE ~(line.is # "data" \/ line.cum) /\ touches
  <2>1. counters' = [counters EXCEPT !.execs = counters.execs + 1, !.rows = counters.rows + 1]
    BY <1>2 DEF Executed
  <2> QED
    BY <1>0, <1>2, <2>1, CountersSet
<1>3. CASE ~(line.is # "data" \/ line.cum) /\ ~touches
  <2>1. counters' = [counters EXCEPT !.execs = counters.execs + 1, !.rows = counters.rows]
    BY <1>3 DEF Executed
  <2> QED
    BY <1>0, <1>3, <2>1, CountersSet
<1> QED
  BY <1>1, <1>2, <1>3

LEMMA TypesStep == IInv /\ [Next]_vars => TypesInv'
<1> SUFFICES ASSUME IInv, [Next]_vars PROVE TypesInv'
  OBVIOUS
<1>0. TypesInv
  BY DEF IInv
<1>1. CASE ProbeNetwork \/ Checks \/ SampleRaises
  BY <1>0, <1>1 DEF ProbeNetwork, Checks, SampleRaises, TypesInv, externalVars, tierVars, floorVars
<1>2. CASE StartTier
  <2>1. samples' \in Seq(Sample) /\ 0 \in 0..Len(Output)
    BY <1>2, EmptySeq, OutputLength DEF StartTier
  <2> QED
    BY <1>0, <1>2, <2>1 DEF StartTier, TypesInv, externalVars, floorVars
<1>3. CASE ReadLine
  <2>1. ReadFrom(samples', pos + 1) /\ header' = HeaderAt(pos + 1) /\ pos' = pos + 1
        /\ pos + 1 \in 1..(2 * Ticks + 7)
    BY <1>3, ReadLineStep
  <2>2. samples' \in Seq(Sample) /\ header' \in {"none", "periodic", "summary"}
    BY <2>1 DEF ReadFrom, HeaderAt
  <2>3. pos' \in 0..Len(Output)
    BY <2>1, OutputLength
  <2>4. counters' \in [execs : Nat, rows : Nat, seqs : Nat]
    <3>1. Executed(Output[pos + 1])
      BY <1>3 DEF ReadLine
    <3> QED
      BY <1>0, <3>1, ExecutedStep DEF TypesInv
  <2> QED
    BY <1>0, <1>3, <2>2, <2>3, <2>4 DEF ReadLine, TypesInv, externalVars, floorVars
<1>4. CASE StreamEnds
  <2>1. PICK end \in Ends :
          /\ cuts' = [cuts EXCEPT ![tier] = [at |-> pos, end |-> end]]
          /\ \/ end = "torn" /\ pc' = "raised" /\ samples' = samples /\ csv' = csv
             \/ end # "torn" /\ pc' = "finish" /\ samples' \in Seq(Sample)
    BY <1>4, StreamEndsStep
  <2>2. cuts' \in [1..Tiers -> [at : 0..Len(Output), end : Ends \cup {"none"}]]
    BY <1>0, <2>1 DEF TypesInv
  <2>3. samples' \in Seq(Sample) /\ pc' \in {"raised", "finish"}
    BY <1>0, <2>1 DEF TypesInv
  <2>4. UNCHANGED <<engine, touches, tier, pos, header, counters, before, failed, upsets>>
    BY <1>4 DEF StreamEnds, externalVars
  <2> QED
    BY <1>0, <2>2, <2>3, <2>4 DEF TypesInv
<1>5. CASE FinishTier
  <2>1. failed' \subseteq {"mismatch", "lost", "never ran", "scanned", "floor"}
    <3>1. CockroachVerdict \subseteq {"mismatch", "lost", "never ran"}
      BY DEF CockroachVerdict
    <3>2. PostgresVerdict \subseteq {"mismatch", "lost", "never ran", "scanned"}
      BY DEF PostgresVerdict
    <3> QED
      BY <1>0, <1>5, <3>1, <3>2 DEF FinishTier, TypesInv
  <2>2. tier' \in 1..Tiers /\ pc' \in {"start", "ended"}
    <3>1. tier \in 1..Tiers /\ NextTier
      BY <1>0, <1>5 DEF FinishTier, TypesInv
    <3> QED
      BY <3>1, Sizes DEF NextTier
  <2>3. UNCHANGED <<engine, touches, pos, header, samples, counters, before, upsets, cuts>>
    BY <1>5 DEF FinishTier, externalVars, tierVars
  <2> QED
    BY <1>0, <2>1, <2>2, <2>3 DEF TypesInv
<1>6. CASE Upset
  <2>0. counters \in [execs : Nat, rows : Nat, seqs : Nat]
    BY <1>0 DEF TypesInv
  <2>1. counters' \in [execs : Nat, rows : Nat, seqs : Nat]
    <3>1. \/ counters' = [execs |-> 0, rows |-> 0, seqs |-> 0]
          \/ counters' = [counters EXCEPT !.seqs = @ + 1]
      BY <1>6 DEF Upset
    <3> QED
      BY <2>0, <3>1
  <2>2. upsets' \in 0..MaxUpsets
    <3>1. upsets \in 0..MaxUpsets /\ upsets < MaxUpsets /\ upsets' = upsets + 1
      BY <1>0, <1>6 DEF Upset, TypesInv
    <3> QED
      BY <3>1, Sizes
  <2> QED
    BY <1>0, <1>6, <2>1, <2>2 DEF Upset, TypesInv, externalVars, floorVars, tierVars
<1>7. CASE UNCHANGED vars
  BY <1>0, <1>7 DEF vars, TypesInv, externalVars, floorVars, tierVars
<1> QED
  BY <1>1, <1>2, <1>3, <1>4, <1>5, <1>6, <1>7 DEF Next

LEMMA FloorStep == IInv /\ [Next]_vars => FloorInv'
<1> SUFFICES ASSUME IInv, [Next]_vars PROVE FloorInv'
  OBVIOUS
<1>0. FloorInv
  BY DEF IInv
<1>1. CASE ProbeNetwork
  BY <1>0, <1>1 DEF ProbeNetwork, FloorInv
<1>2. CASE Checks /\ ResolveFloor
  <2>1. Measured \in SUBSET Followers
    <3>1. matrix \in SUBSET Followers \/ matrix = NoMatrix
      BY <1>0, Zenon DEF FloorInv
    <3>2. Measured = {} \/ (Measured = matrix /\ matrix # NoMatrix)
      BY Zenon DEF Measured
    <3> QED
      BY <3>1, <3>2
  <2>2. matrix' = matrix
    BY <1>2 DEF Checks
  <2>3. CASE Cardinality(Measured) < Needed
    <3>1. floor' = 0
      BY <1>2, <2>3 DEF ResolveFloor
    <3> QED
      BY <1>0, <2>2, <3>1 DEF FloorInv
  <2>4. CASE ~(Cardinality(Measured) < Needed)
    <3>1. floor' = FloorOf(Measured)
      BY <1>2, <2>4 DEF ResolveFloor
    <3>2. Enumerable(Measured)
      BY <2>1, <2>4, NeededFacts, NearerIsFewer DEF Enumerable
    <3>3. floor' \in Nat
      BY <3>1, <3>2, FloorIsRank
    <3> QED
      BY <1>0, <2>1, <2>2, <3>1, <3>2, <3>3 DEF FloorInv
  <2> QED
    BY <2>3, <2>4
<1>3. CASE UNCHANGED <<matrix, floor>>
  BY <1>0, <1>3 DEF FloorInv
<1>4. ~ProbeNetwork /\ ~(Checks /\ ResolveFloor) => UNCHANGED <<matrix, floor>>
  BY DEF Next, Checks, SampleRaises, StartTier, ReadLine, StreamEnds, FinishTier, Upset, floorVars, vars
<1> QED
  BY <1>1, <1>2, <1>3, <1>4

-----------------------------------------------------------------------------
(* The stream and the rows.                                                *)

(* The record of a tier's stream that ends, and the ones it leaves alone.  *)
LEMMA CutNow ==
  ASSUME TypesInv, NEW end, cuts' = [cuts EXCEPT ![tier] = [at |-> pos, end |-> end]]
  PROVE  /\ tier \in 1..Tiers /\ cuts'[tier].at = pos /\ cuts'[tier].end = end
         /\ \A t \in 1..Tiers : t # tier => cuts'[t] = cuts[t]
<1>1. tier \in 1..Tiers /\ DOMAIN cuts = 1..Tiers
  BY DEF TypesInv
<1>2. cuts'[tier] = [at |-> pos, end |-> end]
  BY <1>1
<1> QED
  BY <1>1, <1>2

LEMMA CutsStep == IInv /\ [Next]_vars => CutsInv'
<1> SUFFICES ASSUME IInv, [Next]_vars PROVE CutsInv'
  OBVIOUS
<1>0. TypesInv /\ CutsInv /\ tier \in 1..Tiers /\ Tiers \in Nat
  BY Sizes DEF IInv, TypesInv
<1>1. CASE ProbeNetwork \/ ReadLine \/ Upset \/ UNCHANGED vars
  <2>1. cuts' = cuts /\ tier' = tier /\ pc' = pc /\ (pc = "finish" => pos' = pos)
    BY <1>1 DEF ProbeNetwork, ReadLine, Upset, vars, tierVars
  <2> QED
    BY <1>0, <2>1 DEF CutsInv
<1>2. CASE Checks \/ SampleRaises \/ StartTier
  <2>1. /\ cuts' = cuts /\ tier' = tier /\ pc' \in {"network", "start", "stream", "raised"}
        /\ (pc \in {"network", "start"} \/ pc' = "raised")
    BY <1>2 DEF Checks, SampleRaises, StartTier
  <2> QED
    BY <1>0, <2>1 DEF CutsInv
<1>3. CASE StreamEnds
  <2>1. PICK end \in Ends :
          /\ cuts' = [cuts EXCEPT ![tier] = [at |-> pos, end |-> end]]
          /\ (end = "torn" /\ pc' = "raised") \/ (end # "torn" /\ pc' = "finish")
    BY <1>3, StreamEndsStep
  <2>2. tier' = tier /\ pos' = pos
    BY <1>3 DEF StreamEnds
  <2>3. /\ cuts'[tier].at = pos /\ cuts'[tier].end = end
        /\ \A t \in 1..Tiers : t # tier => cuts'[t] = cuts[t]
    BY <1>0, <2>1, CutNow
  <2>4. \A t \in 1..Tiers : t > tier => cuts'[t] = NoCut
    BY <1>0, <2>3 DEF CutsInv
  <2>5. pc' \in {"raised", "finish"}
    BY <2>1
  <2> QED
    BY <1>0, <2>1, <2>2, <2>3, <2>4, <2>5 DEF CutsInv
<1>4. CASE FinishTier
  <2>1. cuts' = cuts /\ NextTier
    BY <1>4 DEF FinishTier
  <2>2. (tier' = tier + 1 /\ pc' = "start") \/ (tier' = tier /\ pc' = "ended")
    BY <2>1 DEF NextTier
  <2> QED
    BY <1>0, <2>1, <2>2 DEF CutsInv
<1> QED
  BY <1>1, <1>2, <1>3, <1>4 DEF Next

LEMMA StreamStep == IInv /\ [Next]_vars => StreamInv'
<1> SUFFICES ASSUME IInv, [Next]_vars, pc' = "stream" PROVE header' = HeaderAt(pos') /\ ReadFrom(samples', pos')
  BY DEF StreamInv
<1>1. CASE StartTier
  <2>1. pos' = 0 /\ header' = "none" /\ samples' = <<>>
    BY <1>1 DEF StartTier
  <2>2. Seen(0) = 0 /\ HeaderAt(0) = "none"
    BY DEF Seen, HeaderAt
  <2>3. <<>> \in Seq(Sample) /\ Len(<<>>) = 0
    BY EmptySeq
  <2>4. ReadFrom(<<>>, 0)
    BY <2>2, <2>3 DEF ReadFrom
  <2> QED
    BY <2>1, <2>2, <2>4
<1>2. CASE ReadLine
  BY <1>2, ReadLineStep
<1>3. CASE Upset \/ UNCHANGED vars
  <2>1. header' = header /\ samples' = samples /\ pos' = pos /\ pc = "stream"
    BY <1>3 DEF Upset, vars, tierVars
  <2> QED
    BY <2>1 DEF IInv, StreamInv
<1>4. StartTier \/ ReadLine \/ Upset \/ UNCHANGED vars
  <2>1. ~ProbeNetwork
    BY DEF ProbeNetwork
  <2>2. ~Checks
    BY DEF Checks
  <2>3. ~SampleRaises
    BY DEF SampleRaises
  <2>4. ~StreamEnds
    <3> SUFFICES ASSUME StreamEnds PROVE FALSE
      OBVIOUS
    <3>1. pc' = "raised" \/ pc' = "finish"
      BY StreamEndsStep
    <3> QED
      BY <3>1
  <2>5. ~FinishTier
    BY DEF FinishTier, NextTier
  <2> QED
    BY <2>1, <2>2, <2>3, <2>4, <2>5 DEF Next
<1> QED
  BY <1>1, <1>2, <1>3, <1>4

LEMMA CsvStep == IInv /\ [Next]_vars => CsvInv'
<1> SUFFICES ASSUME IInv, [Next]_vars PROVE CsvInv'
  OBVIOUS
<1>0. TypesInv /\ CutsInv /\ CsvInv /\ tier \in 1..Tiers
  BY DEF IInv, TypesInv
<1>1. CASE UNCHANGED <<cuts, csv>>
  BY <1>0, <1>1 DEF CsvInv, RowsOfTier
<1>2. CASE StreamEnds
  <2>1. pc = "stream"
    BY <1>2, StreamEndsStep
  <2>2. cuts[tier].end = "none"
    BY <1>0, <2>1 DEF CutsInv, NoCut
  <2>3. RowsOfTier(tier) = {}
    BY <2>2 DEF RowsOfTier
  <2>4. PICK end \in Ends :
          /\ cuts' = [cuts EXCEPT ![tier] = [at |-> pos, end |-> end]]
          /\ \/ end = "torn" /\ csv' = csv
             \/ end # "torn" /\ csv' = csv \cup KeptOf(tier, pos) \cup TornOf(tier, pos, end)
    BY <1>2, StreamEndsStep
  <2> DEFINE Now == IF end = "torn" THEN {} ELSE KeptOf(tier, pos) \cup TornOf(tier, pos, end)
  <2>5. /\ cuts'[tier].at = pos /\ cuts'[tier].end = end
        /\ \A t \in 1..Tiers : t # tier => cuts'[t] = cuts[t]
    BY <1>0, <2>4, CutNow
  <2>6. RowsOfTier(tier)' = Now
    <3>1. tier' = tier
      BY <1>2 DEF StreamEnds
    <3> QED
      BY <2>4, <2>5, <3>1 DEF RowsOfTier, Ends
  <2>7. \A t \in 1..Tiers : RowsOfTier(t)' = IF t = tier THEN Now ELSE RowsOfTier(t)
    <3> SUFFICES ASSUME NEW t \in 1..Tiers, t # tier PROVE RowsOfTier(t)' = RowsOfTier(t)
      <4>1. tier' = tier
        BY <1>2 DEF StreamEnds
      <4> QED
        BY <2>6, <4>1
    <3> QED
      BY <2>5 DEF RowsOfTier
  <2>8. csv' = csv \cup Now
    BY <2>4
  <2> HIDE DEF Now
  <2>9. csv' = UNION {RowsOfTier(t)' : t \in 1..Tiers}
    <3> HIDE DEF RowsOfTier
    <3>1. csv = UNION {RowsOfTier(t) : t \in 1..Tiers}
      BY <1>0 DEF CsvInv
    <3> QED
      BY <1>0, <2>3, <2>7, <2>8, <3>1
  <2> QED
    BY <2>9 DEF CsvInv
<1>3. ~StreamEnds => UNCHANGED <<cuts, csv>>
  BY DEF Next, vars, ProbeNetwork, Checks, SampleRaises, StartTier, ReadLine, FinishTier, Upset
<1> QED
  BY <1>1, <1>2, <1>3

-----------------------------------------------------------------------------
(* The counters and the verdicts.                                          *)

LEMMA CountersStep == IInv /\ [Next]_vars => CountersInv'
<1> SUFFICES ASSUME IInv, [Next]_vars PROVE CountersInv'
  OBVIOUS
<1>0. /\ TypesInv /\ CountersInv
      /\ counters \in [execs : Nat, rows : Nat, seqs : Nat]
      /\ before \in [execs : Nat, rows : Nat, seqs : Nat]
  BY DEF IInv, TypesInv
<1>1. CASE ProbeNetwork \/ Checks \/ SampleRaises \/ FinishTier
  <2>1. /\ counters' = counters /\ before' = before
        /\ pc' \notin {"stream", "finish"}
    BY <1>1 DEF ProbeNetwork, Checks, SampleRaises, FinishTier, NextTier
  <2> QED
    BY <1>0, <2>1 DEF CountersInv
<1>2. CASE StartTier
  <2>1. before' = counters /\ counters' = counters /\ pos' = 0 /\ touches' = touches
    BY <1>2 DEF StartTier, externalVars
  <2>2. Seen(0) = 0 /\ Matching(0) = 0
    BY DEF Seen, Matching
  <2>3. Grown'
    BY <1>0, <2>1, <2>2 DEF Grown, Matching
  <2> QED
    BY <1>0, <2>1, <2>3 DEF CountersInv
<1>3. CASE ReadLine
  <2> DEFINE line == Output[pos + 1]
             ran == ~(line.is # "data" \/ line.cum)
  <2>1. /\ pc = "stream" /\ pos \in 0..(2 * Ticks + 6) /\ pos' = pos + 1 /\ before' = before
        /\ touches' = touches /\ Executed(line) /\ line \in Line
    BY <1>3, AtALine DEF ReadLine, externalVars
  <2>2. Seen(pos) \in Nat
    BY <2>1, SeenFacts, Sizes DEF Seen
  <2>3. CASE ~ran
    <3>1. counters' = counters
      BY <1>0, <2>1, <2>3, ExecutedStep
    <3>2. Seen(pos') = Seen(pos)
      BY <2>1, <2>3, LineCounts
    <3>3. Grown => Grown'
      BY <2>1, <3>1, <3>2 DEF Grown, Matching
    <3>4. Flushed => Flushed'
      BY <2>1, <3>1 DEF Flushed, Matching
    <3> QED
      BY <1>0, <2>1, <3>1, <3>3, <3>4 DEF CountersInv
  <2>4. CASE ran
    <3>1. /\ counters'.execs = counters.execs + 1
          /\ counters'.rows = IF touches THEN counters.rows + 1 ELSE counters.rows
      BY <1>0, <2>1, <2>4, ExecutedStep
    <3>2. Seen(pos') = Seen(pos) + 1
      BY <2>1, <2>4, LineCounts
    <3> HIDE DEF line, ran
    <3>3. Grown => Grown'
      BY <1>0, <2>1, <2>2, <3>1, <3>2 DEF Grown, Matching
    <3>4. Flushed => Flushed'
      BY <1>0, <2>1, <3>1 DEF Flushed, Matching
    <3>5. counters'.rows <= counters'.execs
      BY <1>0, <3>1 DEF CountersInv
    <3> QED
      BY <1>0, <2>1, <3>3, <3>4, <3>5 DEF CountersInv
  <2> QED
    BY <2>3, <2>4
<1>4. CASE StreamEnds
  <2>1. /\ counters' = counters /\ before' = before /\ pos' = pos /\ touches' = touches
        /\ pc = "stream"
    BY <1>4 DEF StreamEnds, externalVars
  <2> QED
    BY <1>0, <2>1 DEF CountersInv, Grown, Flushed, Matching
<1>5. CASE Upset
  <2>1. before' = before /\ pc' = pc /\ pos' = pos /\ touches' = touches
    BY <1>5 DEF Upset, externalVars, tierVars
  <2>2. CASE counters' = [execs |-> 0, rows |-> 0, seqs |-> 0]
    <3>1. Flushed' /\ counters'.rows <= counters'.execs
      BY <2>2 DEF Flushed, Matching
    <3> QED
      BY <1>0, <2>1, <3>1 DEF CountersInv
  <2>3. CASE counters' = [counters EXCEPT !.seqs = @ + 1]
    <3>1. counters'.execs = counters.execs /\ counters'.rows = counters.rows
      BY <1>0, <2>3
    <3> QED
      BY <1>0, <2>1, <3>1 DEF CountersInv, Grown, Flushed, Matching
  <2> QED
    BY <1>5, <2>2, <2>3 DEF Upset
<1>6. CASE UNCHANGED vars
  BY <1>0, <1>6 DEF vars, externalVars, tierVars, CountersInv, Grown, Flushed, Matching
<1> QED
  BY <1>1, <1>2, <1>3, <1>4, <1>5, <1>6 DEF Next

(* The keys that are not there are too fast for any floor, even for one    *)
(* taken from a matrix with gaps: nothing vouches for a window that was    *)
(* lost.                                                                   *)
LEMMA NothingVouches ==
  ASSUME FloorInv, ~touches
  PROVE  ~Corroborated
<1>1. SUFFICES ASSUME floor # 0, floor \in Nat, AboveFloor PROVE FALSE
  BY DEF FloorInv, Corroborated, FloorChecked
<1>2. PICK S \in SUBSET Followers : Enumerable(S) /\ floor = FloorOf(S)
  BY <1>1 DEF FloorInv
<1>3. Enumerable(Followers)
  BY NeededFacts DEF Enumerable
<1>4. FloorOf(Followers) <= FloorOf(S)
  BY <1>2, <1>3, FloorOfFewerIsHigher
<1>5. FloorOf(Followers) \in Nat
  BY <1>3, FloorIsRank
<1>6. EmptyCommit \in Nat /\ 10 * EmptyCommit < 9 * FloorOf(Followers)
  BY EmptyCommitAssumption
<1>7. 10 * EmptyCommit >= 9 * floor
  BY <1>1 DEF AboveFloor, WriteTime
<1> QED
  BY <1>1, <1>2, <1>4, <1>5, <1>6, <1>7

Verdict == IF engine = "cockroachdb" THEN CockroachVerdict ELSE PostgresVerdict

(* A tier of keys that are not there, that ran a statement, fails.         *)
LEMMA MissedIsSeen ==
  ASSUME IInv, pc = "finish", ~touches, pos > 1
  PROVE  Verdict # {}
<1>1. /\ counters \in [execs : Nat, rows : Nat, seqs : Nat]
      /\ before \in [execs : Nat, rows : Nat, seqs : Nat]
      /\ pos \in 0..(2 * Ticks + 7) /\ Ticks \in Nat \ {0}
      /\ (Grown \/ Flushed) /\ FloorInv /\ before.rows <= before.execs
  BY OutputLength DEF IInv, TypesInv, CountersInv
<1>2. ~Corroborated
  BY <1>1, NothingVouches
<1>3. Seen(pos) \in Nat /\ Seen(pos) > 0
  BY <1>1 DEF Seen
<1> DEFINE ce == counters.execs
           cr == counters.rows
           be == before.execs
           br == before.rows
<1>4. ce \in Nat /\ cr \in Nat /\ be \in Nat /\ br \in Nat /\ counters.seqs \in Nat /\ before.seqs \in Nat
  BY <1>1
<1>5. (ce > be /\ cr = br) \/ cr = 0
  BY <1>1, <1>3, <1>4 DEF Grown, Flushed, Matching
<1>6. ce - be > 0 => ~Enough(cr - br, ce - be)
  BY <1>4, <1>5 DEF Enough
<1>7. ce - be <= 0 /\ ce > 0 => ~Enough(cr, ce)
  BY <1>4, <1>5 DEF Enough
<1>8. Ran = ce - be /\ Matched = cr - br
  BY DEF Ran, Matched
<1>9. Ran \in Int /\ (Ran > 0 => ~Enough(Matched, Ran))
      /\ (Ran <= 0 /\ counters.execs > 0 => ~Enough(counters.rows, counters.execs))
  BY <1>4, <1>6, <1>7, <1>8
<1> HIDE DEF ce, cr, be, br
<1>10. CockroachVerdict # {}
  <2>1. CASE Ran > 0
    <3>1. CockroachVerdict = {"mismatch"}
      <4>1. ~(Ran <= 0) /\ ~Enough(Matched, Ran)
        BY <1>9, <2>1
      <4> QED
        BY <4>1, Zenon DEF CockroachVerdict
    <3> QED
      BY <3>1
  <2>2. CASE Ran <= 0 /\ counters.execs > 0
    <3>1. CockroachVerdict = {"mismatch"}
      BY <1>9, <2>2 DEF CockroachVerdict
    <3> QED
      BY <3>1
  <2>3. CASE Ran <= 0 /\ ~(counters.execs > 0)
    <3>1. CockroachVerdict = {"lost"} \/ CockroachVerdict = {"never ran"}
      BY <1>2, <2>3 DEF CockroachVerdict
    <3> QED
      BY <3>1
  <2> QED
    BY <1>9, <2>1, <2>2, <2>3
<1>11. PostgresVerdict # {}
  <2>1. PostgresVerdict \in {{"mismatch"}, {"lost"}, {"never ran"}, {"scanned"}}
    <3>1. CASE Ran > 0
      BY <1>2, <1>9, <3>1 DEF PostgresVerdict
    <3>2. CASE Ran <= 0
      BY <1>2, <3>2 DEF PostgresVerdict
    <3>3. Ran > 0 \/ Ran <= 0
      BY <1>9
    <3> QED
      BY <3>1, <3>2, <3>3
  <2> QED
    BY <2>1
<1> QED
  BY <1>10, <1>11 DEF Verdict

(* A tier of loaded keys that ran a statement is not said to have missed.  *)
LEMMA TouchedIsNotMissed ==
  ASSUME IInv, pc = "finish", touches, pos > 1
  PROVE  "mismatch" \notin Verdict
<1>1. /\ counters \in [execs : Nat, rows : Nat, seqs : Nat]
      /\ before \in [execs : Nat, rows : Nat, seqs : Nat]
      /\ pos \in 0..(2 * Ticks + 7) /\ Ticks \in Nat \ {0}
      /\ (Grown \/ Flushed) /\ before.rows <= before.execs
  BY OutputLength DEF IInv, TypesInv, CountersInv
<1>2. Seen(pos) \in Nat /\ Seen(pos) > 0
  BY <1>1 DEF Seen
<1> DEFINE ce == counters.execs
           cr == counters.rows
           be == before.execs
           br == before.rows
<1>3. ce \in Nat /\ cr \in Nat /\ be \in Nat /\ br \in Nat
  BY <1>1
<1>4. (ce > be /\ cr - br = ce - be) \/ cr = ce
  BY <1>1, <1>2, <1>3 DEF Grown, Flushed, Matching
<1>5. ce - be > 0 => Enough(cr - br, ce - be)
  BY <1>1, <1>3, <1>4 DEF Enough
<1>6. ce - be <= 0 => Enough(cr, ce)
  BY <1>3, <1>4 DEF Enough
<1>7. Ran = ce - be /\ Matched = cr - br
  BY DEF Ran, Matched
<1> HIDE DEF ce, cr, be, br
<1>8. "mismatch" \notin CockroachVerdict
  BY <1>3, <1>5, <1>6, <1>7 DEF CockroachVerdict, ce, cr, be, br
<1>9. "mismatch" \notin PostgresVerdict
  BY <1>3, <1>5, <1>6, <1>7 DEF PostgresVerdict, ce, cr, be, br
<1> QED
  BY <1>8, <1>9 DEF Verdict

(* The floor of all the followers is not above what it takes to reach it.  *)
LEMMA TouchedIsAbove ==
  ASSUME touches, floor = FloorOf(Followers)
  PROVE  AboveFloor
<1>1. Enumerable(Followers)
  BY NeededFacts DEF Enumerable
<1>2. FloorOf(Followers) \in Nat
  BY <1>1, FloorIsRank
<1> QED
  BY <1>2 DEF AboveFloor, WriteTime

LEMMA VerdictStep == IInv /\ [Next]_vars => VerdictInv'
<1> SUFFICES ASSUME IInv, [Next]_vars PROVE VerdictInv'
  OBVIOUS
<1>0. TypesInv /\ CutsInv /\ VerdictInv /\ tier \in 1..Tiers /\ Tiers \in Nat
  BY Sizes DEF IInv, TypesInv
<1>1. CASE UNCHANGED <<touches, failed, tier, cuts>> /\ pc' # "ended"
  <2>1. CASE pc = "network"
    <3>1. failed' = {} /\ touches' = touches /\ cuts' = cuts /\ tier' = tier
      BY <1>0, <1>1, <2>1 DEF VerdictInv
    <3>2. ~touches => \A t \in 1..Tiers : t < tier => ~Worked(t)
      BY <1>0, <2>1 DEF VerdictInv
    <3> QED
      BY <1>1, <3>1, <3>2 DEF VerdictInv, Worked
  <2>2. CASE pc # "network"
    <3>1. pc' # "network" /\ floor' = floor
      BY <2>2, <1>1 DEF Next, vars, floorVars, ProbeNetwork, Checks, SampleRaises, StartTier, ReadLine,
                        StreamEnds, FinishTier, NextTier, Upset
    <3> QED
      BY <1>0, <1>1, <3>1 DEF VerdictInv, Worked
  <2> QED
    BY <2>1, <2>2
<1>2. CASE StreamEnds
  <2>1. /\ UNCHANGED <<touches, failed, tier, floor>> /\ pc = "stream"
        /\ pc' \in {"finish", "raised"}
    <3>1. pc = "stream" /\ pc' \in {"finish", "raised"}
      BY <1>2, StreamEndsStep
    <3> QED
      BY <1>2, <3>1 DEF StreamEnds, externalVars, floorVars
  <2>2. PICK end \in Ends : cuts' = [cuts EXCEPT ![tier] = [at |-> pos, end |-> end]]
    BY <1>2, StreamEndsStep
  <2>3. \A t \in 1..Tiers : t # tier => cuts'[t] = cuts[t]
    BY <1>0, <2>2, CutNow
  <2>4. cuts[tier].end = "none"
    BY <1>0, <2>1 DEF CutsInv, NoCut
  <2>5. \A t \in 1..Tiers : t < tier => cuts'[t] = cuts[t]
    BY <1>0, <2>3
  <2>6. \A t \in 1..Tiers : cuts[t].end # "none" => cuts'[t] = cuts[t]
    BY <2>3, <2>4
  <2>7. touches /\ "mismatch" \in failed => \E t \in 1..Tiers : cuts'[t].end # "none" /\ ~(cuts'[t].at > 1)
    BY <1>0, <2>6 DEF VerdictInv, Worked
  <2>8. ~touches /\ failed = {} => \A t \in 1..Tiers : t < tier => ~(cuts'[t].at > 1)
    BY <1>0, <2>5 DEF VerdictInv, Worked
  <2> QED
    BY <1>0, <2>1, <2>7, <2>8 DEF VerdictInv, Worked
<1>3. CASE FinishTier
  <2> DEFINE below == IF FloorChecked /\ ~AboveFloor THEN {"floor"} ELSE {}
  <2>1. /\ pc = "finish" /\ UNCHANGED <<touches, cuts, floor>>
        /\ failed' = failed \cup below \cup Verdict
        /\ (tier < Tiers /\ tier' = tier + 1 /\ pc' = "start") \/ (tier = Tiers /\ tier' = tier /\ pc' = "ended")
    <3>1. FinishTier /\ NextTier
      BY <1>3 DEF FinishTier
    <3>2. (tier < Tiers /\ tier' = tier + 1 /\ pc' = "start") \/ (tier = Tiers /\ tier' = tier /\ pc' = "ended")
      BY <1>0, <3>1 DEF NextTier
    <3> QED
      BY <3>1, <3>2 DEF FinishTier, Verdict, externalVars, floorVars
  <2>2. cuts[tier].at = pos /\ cuts[tier].end # "none"
    BY <1>0, <2>1 DEF CutsInv, Ends
  <2>3. "floor" \notin Verdict
    BY DEF Verdict, CockroachVerdict, PostgresVerdict
  <2>4. touches /\ floor = FloorOf(Followers) => "floor" \notin failed'
    BY <1>0, <2>1, <2>3, TouchedIsAbove DEF VerdictInv
  <2>5. touches /\ "mismatch" \in failed' => \E t \in 1..Tiers : cuts[t].end # "none" /\ ~Worked(t)
    <3>1. SUFFICES ASSUME touches, "mismatch" \in failed', "mismatch" \notin failed PROVE ~Worked(tier)
      BY <1>0, <2>2 DEF VerdictInv
    <3>2. "mismatch" \in Verdict
      BY <2>1, <3>1
    <3> QED
      BY <2>1, <2>2, <3>1, <3>2, TouchedIsNotMissed DEF Worked
  <2>6. ~touches /\ failed' = {} => \A t \in 1..Tiers : t <= tier => ~Worked(t)
    <3>1. SUFFICES ASSUME ~touches, failed' = {}, NEW t \in 1..Tiers, t <= tier PROVE ~Worked(t)
      OBVIOUS
    <3>2. failed = {} /\ Verdict = {}
      BY <2>1, <3>1
    <3>3. CASE t < tier
      BY <1>0, <3>1, <3>2, <3>3 DEF VerdictInv
    <3>4. CASE t = tier
      BY <2>1, <2>2, <3>1, <3>2, <3>4, MissedIsSeen DEF Worked
    <3> QED
      BY <1>0, <3>1, <3>3, <3>4
  <2>7. \A t \in 1..Tiers : t < tier' \/ pc' = "ended" => t <= tier
    BY <1>0, <2>1
  <2>8. pc' # "network"
    BY <2>1
  <2>9. ~touches' /\ failed' = {} => \A t \in 1..Tiers : t < tier' \/ pc' = "ended" => ~Worked(t)'
    BY <2>1, <2>6, <2>7 DEF Worked
  <2>10. touches' /\ "mismatch" \in failed' => \E t \in 1..Tiers : cuts'[t].end # "none" /\ ~Worked(t)'
    BY <2>1, <2>5 DEF Worked
  <2> HIDE DEF below
  <2> QED
    BY <2>1, <2>4, <2>8, <2>9, <2>10 DEF VerdictInv
<1>4. CASE UNCHANGED <<touches, failed, tier, cuts, floor, pc>>
  BY <1>0, <1>4 DEF VerdictInv, Worked
<1>5. CASE ~StreamEnds /\ ~FinishTier
  <2>1. UNCHANGED <<touches, failed, tier, cuts>>
    BY <1>5 DEF Next, vars, externalVars, ProbeNetwork, Checks, SampleRaises, StartTier, ReadLine, Upset
  <2>2. pc' # "ended" \/ UNCHANGED <<floor, pc>>
    BY <1>5 DEF Next, vars, floorVars, ProbeNetwork, Checks, SampleRaises, StartTier, ReadLine, Upset
  <2> QED
    BY <1>1, <1>4, <2>1, <2>2
<1> QED
  BY <1>2, <1>3, <1>5

THEOREM Invariance == Spec => []IInv
<1>1. Init => IInv
  BY InitIInv
<1>2. IInv /\ [Next]_vars => IInv'
  BY TypesStep, FloorStep, CutsStep, StreamStep, CsvStep, CountersStep, VerdictStep DEF IInv
<1> QED
  BY <1>1, <1>2, PTL DEF Spec

-----------------------------------------------------------------------------
(* What follows.                                                           *)

(* A report without a failed check: the keys were there, whatever the      *)
(* server did to its counters.                                             *)
THEOREM SweepPassMeansTouched == Spec => []PassMeansTouched
<1>1. IInv => PassMeansTouched
  BY DEF IInv, TypesInv, VerdictInv, PassMeansTouched
<1> QED
  BY <1>1, Invariance, PTL

(* No sweep over loaded keys that ran in every tier is said to have missed *)
(* them, nor to be too fast for the floor of all followers.                *)
THEOREM SweepMismatchIsReal == Spec => []MismatchIsReal
<1>1. IInv => MismatchIsReal
  <2> SUFFICES ASSUME IInv, \A t \in 1..Tiers : cuts[t].end # "none" => Worked(t)
               PROVE  /\ "mismatch" \in failed => ~touches
                      /\ "floor" \in failed /\ floor = FloorOf(Followers) => ~touches
    BY DEF MismatchIsReal
  <2> QED
    BY DEF IInv, VerdictInv
<1> QED
  BY <1>1, Invariance, PTL

-----------------------------------------------------------------------------
(* The rows, counted.                                                      *)

(* The interval e is the samples 2e - 1 and 2e.                            *)
LEMMA OfTheInterval ==
  ASSUME NEW e \in Nat \ {0}
  PROVE  /\ 2 * e - 1 \in Nat /\ IntervalOf(2 * e - 1) = e /\ OpOf(2 * e - 1) = "read"
         /\ 2 * e \in Nat /\ IntervalOf(2 * e) = e /\ OpOf(2 * e) = "update"
         /\ \A i \in Nat : IntervalOf(i) >= e => i >= 2 * e - 1
         /\ \A i \in Nat : IntervalOf(i) = e => i = 2 * e - 1 \/ i = 2 * e
BY DEF IntervalOf, OpOf

LEMMA CsvOfTier ==
  ASSUME IInv, NEW t \in 1..Tiers
  PROVE  {row \in csv : row.tier = t} = RowsOfTier(t)
<1>1. \A u \in 1..Tiers : \A row \in RowsOfTier(u) : row.tier = u
  <2> SUFFICES ASSUME NEW u \in 1..Tiers, NEW row \in RowsOfTier(u) PROVE row.tier = u
    OBVIOUS
  <2>1. row \in KeptOf(u, cuts[u].at) \/ row \in TornOf(u, cuts[u].at, cuts[u].end)
    BY DEF RowsOfTier
  <2>2. CASE row \in KeptOf(u, cuts[u].at)
    BY <2>2 DEF KeptOf, RowOf
  <2>3. CASE row \in TornOf(u, cuts[u].at, cuts[u].end)
    BY <2>3 DEF TornOf
  <2> QED
    BY <2>1, <2>2, <2>3
<1>2. csv = UNION {RowsOfTier(u) : u \in 1..Tiers}
  BY DEF IInv, CsvInv
<1> HIDE DEF RowsOfTier
<1> QED
  BY <1>1, <1>2

LEMMA CutsType ==
  ASSUME IInv, NEW t \in 1..Tiers
  PROVE  cuts[t].at \in 0..(2 * Ticks + 7) /\ cuts[t].end \in Ends \cup {"none"}
BY OutputLength DEF IInv, TypesInv

(* The rows of a tier, one by one.                                         *)
LEMMA RowsOne ==
  ASSUME IInv, NEW t \in 1..Tiers, cuts[t].end \notin {"none", "torn"}
  PROVE  /\ \A i \in 1..Seen(cuts[t].at) : IntervalOf(i) > Warmup =>
              [tier |-> t, e |-> IntervalOf(i), op |-> OpOf(i), cum |-> FALSE] \in RowsOfTier(t)
         /\ \A row \in RowsOfTier(t) :
              \/ \E i \in 1..Seen(cuts[t].at) :
                   /\ IntervalOf(i) > Warmup
                   /\ row = [tier |-> t, e |-> IntervalOf(i), op |-> OpOf(i), cum |-> FALSE]
              \/ row \in TornOf(t, cuts[t].at, cuts[t].end)
<1>1. RowsOfTier(t) = KeptOf(t, cuts[t].at) \cup TornOf(t, cuts[t].at, cuts[t].end)
  BY DEF RowsOfTier
<1>2. \A i \in Nat : RowOf(t, TickSample(i)) =
                       [tier |-> t, e |-> IntervalOf(i), op |-> OpOf(i), cum |-> FALSE]
  <2> HIDE DEF IntervalOf, OpOf
  <2> QED
    BY DEF RowOf, TickSample
<1>3. Seen(cuts[t].at) \in Nat
  BY CutsType, SeenFacts
<1>4. \A i \in 1..Seen(cuts[t].at) : i \in Nat
  BY <1>3
<1> HIDE DEF TornOf
<1> QED
  BY <1>1, <1>2, <1>4 DEF KeptOf

LEMMA RowsTyped ==
  ASSUME IInv, NEW row \in csv
  PROVE  row.tier \in 1..Tiers /\ row.e \in 1..Ticks
<1>1. PICK t \in 1..Tiers : row \in RowsOfTier(t)
  BY DEF IInv, CsvInv
<1>2. row.tier = t
  BY <1>1, CsvOfTier
<1>3. row \in KeptOf(t, cuts[t].at) \/ row \in TornOf(t, cuts[t].at, cuts[t].end)
  BY <1>1 DEF RowsOfTier
<1>4. \A i \in 1..(2 * Ticks) : IntervalOf(i) \in 1..Ticks
  BY Sizes, OfInterval
<1>5. CASE row \in KeptOf(t, cuts[t].at)
  <2>1. PICK i \in 1..Seen(cuts[t].at) : row = RowOf(t, TickSample(i))
    BY <1>5 DEF KeptOf
  <2>2. i \in 1..(2 * Ticks) /\ i \in Nat
    BY CutsType, SeenFacts, Sizes
  <2>3. row.e = IntervalOf(i)
    BY <2>1, <2>2, TickSampleType DEF RowOf
  <2> QED
    BY <1>2, <1>4, <2>2, <2>3
<1>6. CASE row \in TornOf(t, cuts[t].at, cuts[t].end)
  <2>1. cuts[t].at \in 1..(2 * Ticks) /\ row.e = IntervalOf(cuts[t].at)
    BY <1>6 DEF TornOf
  <2> QED
    BY <1>2, <1>4, <2>1
<1> QED
  BY <1>3, <1>5, <1>6

THEOREM SweepTypes == Spec => []TypeOK
<1>1. IInv => TypeOK
  <2> SUFFICES ASSUME IInv PROVE TypeOK
    OBVIOUS
  <2>1. \A i \in DOMAIN samples : samples[i].kind \in {"periodic", "summary"}
    <3>1. samples \in Seq(Sample)
      BY DEF IInv, TypesInv
    <3>2. DOMAIN samples = 1..Len(samples) /\ \A i \in 1..Len(samples) : samples[i] \in Sample
      BY <3>1, LenProperties, ElementOfSeq
    <3> QED
      BY <3>2 DEF Sample
  <2>2. \A row \in csv : row.tier \in 1..Tiers /\ row.e \in 1..Ticks
    BY RowsTyped
  <2>3. matrix \in (SUBSET Followers) \cup {NoMatrix} /\ floor \in Nat
    BY DEF IInv, FloorInv
  <2> QED
    BY <2>1, <2>2, <2>3 DEF IInv, TypesInv, TypeOK
<1> QED
  BY <1>1, Invariance, PTL

(* No gap: between two intervals a tier has kept lies every other one.     *)
LEMMA NoGap ==
  ASSUME IInv
  PROVE  Regular
<1> SUFFICES ASSUME NEW t \in 1..Tiers, NEW x \in csv, x.tier = t, NEW y \in csv, y.tier = t,
                    y.e > x.e
             PROVE  \E z \in csv : z.tier = t /\ z.e = x.e + 1
  <2>1. \A x \in csv : x.e \in Nat
    BY RowsTyped, Sizes
  <2> QED
    BY <2>1 DEF Regular
<1>1. x \in RowsOfTier(t) /\ y \in RowsOfTier(t)
  BY CsvOfTier
<1>2. cuts[t].end \notin {"none", "torn"}
  BY <1>1 DEF RowsOfTier
<1> DEFINE at == cuts[t].at
           n == Seen(at)
           e == x.e + 1
<1>3. /\ at \in 0..(2 * Ticks + 7) /\ n \in 0..(2 * Ticks) /\ e \in Nat \ {0} /\ y.e \in Nat
      /\ x.e \in Nat
      /\ y.e >= e /\ Ticks \in Nat \ {0} /\ Warmup \in Nat
  <2>1. at \in 0..(2 * Ticks + 7) /\ n \in 0..(2 * Ticks)
    BY CutsType, SeenFacts
  <2>2. x.e \in 1..Ticks /\ y.e \in 1..Ticks
    BY RowsTyped
  <2> QED
    BY <2>1, <2>2, Sizes
<1>4. x.e > Warmup /\ e > Warmup
  <2>1. \/ \E i \in 1..n : IntervalOf(i) > Warmup
              /\ x = [tier |-> t, e |-> IntervalOf(i), op |-> OpOf(i), cum |-> FALSE]
        \/ x \in TornOf(t, at, cuts[t].end)
    BY <1>1, <1>2, RowsOne
  <2>2. x.e > Warmup
    <3>1. ASSUME NEW i \in 1..n, IntervalOf(i) > Warmup,
                 x = [tier |-> t, e |-> IntervalOf(i), op |-> OpOf(i), cum |-> FALSE]
          PROVE  x.e > Warmup
      BY <3>1
    <3>2. x \in TornOf(t, at, cuts[t].end) => x.e > Warmup
      BY DEF TornOf
    <3> QED
      BY <2>1, <3>1, <3>2
  <2> QED
    BY <1>3, <2>2
<1>5. SUFFICES \E z \in RowsOfTier(t) : z.e = e
  BY CsvOfTier
<1> HIDE DEF e, at, n
<1>6. /\ 2 * e - 1 \in Nat \ {0} /\ IntervalOf(2 * e - 1) = e
      /\ \A i \in Nat : IntervalOf(i) >= e => i >= 2 * e - 1
  BY <1>3, OfTheInterval
<1>7. 2 * e - 1 <= n => \E z \in RowsOfTier(t) : z.e = e
  <2> SUFFICES ASSUME 2 * e - 1 <= n PROVE \E z \in RowsOfTier(t) : z.e = e
    OBVIOUS
  <2>1. 2 * e - 1 \in 1..n
    BY <1>3, <1>6
  <2>2. [tier |-> t, e |-> e, op |-> OpOf(2 * e - 1), cum |-> FALSE] \in RowsOfTier(t)
    BY <1>2, <1>4, <1>6, <2>1, RowsOne DEF n, at
  <2> QED
    BY <2>2
<1>8. CASE \E i \in 1..n : y = [tier |-> t, e |-> IntervalOf(i), op |-> OpOf(i), cum |-> FALSE]
  <2>1. PICK i \in 1..n : y = [tier |-> t, e |-> IntervalOf(i), op |-> OpOf(i), cum |-> FALSE]
    BY <1>8
  <2>2. y.e = IntervalOf(i) /\ i \in Nat
    BY <1>3, <2>1
  <2>3. i >= 2 * e - 1
    BY <1>3, <1>6, <2>2
  <2> QED
    BY <1>3, <1>6, <1>7, <2>3
<1>9. CASE y \in TornOf(t, at, cuts[t].end)
  <2>1. at \in 1..(2 * Ticks) /\ y.e = IntervalOf(at)
    BY <1>9 DEF TornOf
  <2>2. at >= 2 * e - 1
    BY <1>3, <1>6, <2>1
  <2>3. n = at - 1
    BY <1>3, <2>1 DEF n, Seen
  <2>4. CASE at = 2 * e - 1
    BY <1>1, <1>6, <2>1, <2>4
  <2>5. CASE at > 2 * e - 1
    BY <1>3, <1>6, <1>7, <2>1, <2>3, <2>5
  <2> QED
    BY <1>3, <1>6, <2>1, <2>2, <2>4, <2>5
<1> QED
  <2>1. \/ \E i \in 1..n : y = [tier |-> t, e |-> IntervalOf(i), op |-> OpOf(i), cum |-> FALSE]
        \/ y \in TornOf(t, at, cuts[t].end)
    BY <1>1, <1>2, RowsOne DEF n, at
  <2> QED
    BY <1>8, <1>9, <2>1

(* metrics.csv holds the intervals of the streams that were read, once, in *)
(* whole tiers and without a gap.                                          *)
THEOREM SweepRowsAreTheTicks == Spec => []RowsAreTheTicks
<1>1. IInv => RowsAreTheTicks
  <2> SUFFICES ASSUME IInv, NEW t \in 1..Tiers
               PROVE  {row \in csv : row.tier = t /\ row.op \in Ops} =
                        IF cuts[t].end \in {"none", "torn"} THEN {}
                        ELSE {[tier |-> t, e |-> Output[i].e, op |-> Output[i].op, cum |-> FALSE] :
                                i \in Measurements(t)}
    BY NoGap DEF RowsAreTheTicks
  <2> DEFINE at == cuts[t].at
             n == Seen(at)
             mine == {row \in RowsOfTier(t) : row.op \in Ops}
  <2>1. {row \in csv : row.tier = t /\ row.op \in Ops} = mine
    <3>1. {row \in csv : row.tier = t} = RowsOfTier(t)
      BY CsvOfTier
    <3> HIDE DEF RowsOfTier
    <3> QED
      BY <3>1
  <2>2. CASE cuts[t].end \in {"none", "torn"}
    BY <2>1, <2>2 DEF RowsOfTier
  <2>3. CASE cuts[t].end \notin {"none", "torn"}
    <3>1. at \in 0..(2 * Ticks + 7) /\ n \in 0..(2 * Ticks) /\ Ticks \in Nat \ {0}
      BY CutsType, SeenFacts, Sizes
    <3> DEFINE Row(i) == [tier |-> t, e |-> IntervalOf(i), op |-> OpOf(i), cum |-> FALSE]
               Of(i) == [tier |-> t, e |-> Output[i].e, op |-> Output[i].op, cum |-> FALSE]
               kept == {i \in 1..n : IntervalOf(i) > Warmup}
    <3>2. mine = {Row(i) : i \in kept}
      <4>1. \A row \in TornOf(t, at, cuts[t].end) : row.op \notin Ops
        BY DEF TornOf, TornLabel, Ops
      <4>2. \A i \in 1..n : Row(i).op \in Ops
        <5>1. \A i \in Nat : OpOf(i) \in Ops
          BY OfInterval DEF Ops
        <5> QED
          BY <3>1, <5>1
      <4>3. ASSUME NEW row \in mine PROVE row \in {Row(i) : i \in kept}
        <5>1. (\E i \in 1..n : IntervalOf(i) > Warmup /\ row = Row(i)) \/ row \in TornOf(t, at, cuts[t].end)
          BY <2>3, RowsOne
        <5> QED
          BY <4>1, <5>1
      <4>4. ASSUME NEW i \in kept PROVE Row(i) \in mine
        BY <2>3, <4>2, RowsOne
      <4> HIDE DEF mine, kept, Row
      <4> QED
        BY <4>3, <4>4
    <3>3. ASSUME NEW i \in Measurements(t)
          PROVE  i - 1 \in kept /\ Of(i) = Row(i - 1)
      <4>1. i \in 1..at /\ Output[i].is = "data" /\ ~Output[i].cum /\ Output[i].e > Warmup
        BY DEF Measurements
      <4>2. i - 1 \in 0..(2 * Ticks + 6) /\ (i - 1) + 1 = i /\ i \in 1..(2 * Ticks + 7)
        BY <3>1, <4>1
      <4>3. i - 1 \in 1..(2 * Ticks)
        BY <4>1, <4>2, LineCounts
      <4>4. Output[i] = [is |-> "data", e |-> IntervalOf(i - 1), op |-> OpOf(i - 1), cum |-> FALSE]
        <5>1. i \in 2..(2 * Ticks + 1)
          BY <3>1, <4>1, <4>3
        <5> QED
          BY <4>2, <5>1, OutputAt
      <4>5. i - 1 \in 1..n
        BY <3>1, <4>1, <4>3 DEF Seen
      <4>6. Output[i].e = IntervalOf(i - 1) /\ Output[i].op = OpOf(i - 1)
        BY <4>4
      <4> QED
        BY <4>1, <4>5, <4>6
    <3>4. ASSUME NEW i \in kept
          PROVE  i + 1 \in Measurements(t) /\ Of(i + 1) = Row(i)
      <4>1. i \in 1..n /\ IntervalOf(i) > Warmup
        OBVIOUS
      <4>2. i + 1 \in 1..at /\ i + 1 \in 2..(2 * Ticks + 1) /\ (i + 1) - 1 = i
            /\ i + 1 \in 1..(2 * Ticks + 7)
        BY <3>1, <4>1 DEF Seen
      <4>3. Output[i + 1] = [is |-> "data", e |-> IntervalOf(i), op |-> OpOf(i), cum |-> FALSE]
        BY <4>2, OutputAt
      <4>4. /\ Output[i + 1].is = "data" /\ Output[i + 1].e = IntervalOf(i)
            /\ Output[i + 1].op = OpOf(i) /\ ~Output[i + 1].cum
        BY <4>3
      <4> QED
        BY <4>1, <4>2, <4>4 DEF Measurements
    <3>5. {Row(i) : i \in kept} = {Of(i) : i \in Measurements(t)}
      <4> HIDE DEF Row, Of, kept
      <4>1. \A i \in kept : i + 1 \in Measurements(t) /\ Of(i + 1) = Row(i)
        BY <3>4
      <4>2. \A i \in Measurements(t) : i - 1 \in kept /\ Of(i) = Row(i - 1)
        BY <3>3
      <4> QED
        BY <4>1, <4>2
    <3> QED
      BY <2>1, <2>3, <3>2, <3>5
  <2> QED
    BY <2>2, <2>3
<1> QED
  BY <1>1, Invariance, PTL

(* Half a tick after a whole one is an interval with one operation less.   *)
THEOREM SweepCutTickIsSeen == Spec => []CutTickIsSeen
<1>1. IInv => CutTickIsSeen
  <2> SUFFICES ASSUME IInv, NEW t \in 1..Tiers, cuts[t].end = "whole", cuts[t].at > 0,
                      Output[cuts[t].at].is = "data", ~Output[cuts[t].at].cum,
                      Output[cuts[t].at].op = "read", Output[cuts[t].at].e > Warmup + 1
               PROVE  ~OpsCovered
    BY DEF CutTickIsSeen, Validates
  <2> DEFINE at == cuts[t].at
             n == Seen(at)
             e == IntervalOf(n)
             Row(i) == [tier |-> t, e |-> IntervalOf(i), op |-> OpOf(i), cum |-> FALSE]
  <2>1. at \in 1..(2 * Ticks + 7) /\ Ticks \in Nat \ {0} /\ Warmup \in Nat
    BY CutsType, Sizes
  <2>2. at - 1 \in 1..(2 * Ticks) /\ n = at - 1 /\ n \in Nat
    <3>1. at - 1 \in 0..(2 * Ticks + 6) /\ (at - 1) + 1 = at
      BY <2>1
    <3>2. at - 1 \in 1..(2 * Ticks)
      BY <3>1, LineCounts
    <3> QED
      BY <2>1, <3>2 DEF Seen
  <2>3. e > Warmup + 1 /\ OpOf(n) = "read" /\ e \in Nat
    <3>1. at \in 2..(2 * Ticks + 1)
      BY <2>1, <2>2
    <3>2. Output[at] = [is |-> "data", e |-> IntervalOf(at - 1), op |-> OpOf(at - 1), cum |-> FALSE]
      BY <2>1, <3>1, OutputAt
    <3>3. Output[at].e = IntervalOf(at - 1) /\ Output[at].op = OpOf(at - 1)
      BY <3>2
    <3> QED
      BY <2>2, <3>3, OfInterval
  <2> HIDE DEF n, at
  <2>4. /\ n = 2 * e - 1 /\ e - 1 \in Nat \ {0} /\ e - 1 > Warmup
        /\ 2 * (e - 1) - 1 \in 1..n /\ 2 * (e - 1) \in 1..n
    BY <2>1, <2>2, <2>3, OfTheInterval DEF OpOf, IntervalOf
  <2> HIDE DEF e
  <2>5. /\ IntervalOf(2 * (e - 1) - 1) = e - 1 /\ OpOf(2 * (e - 1) - 1) = "read"
        /\ IntervalOf(2 * (e - 1)) = e - 1 /\ OpOf(2 * (e - 1)) = "update"
    BY <2>4, OfTheInterval
  <2>6. RowsOfTier(t) \subseteq csv
    BY CsvOfTier
  <2>7. \A row \in RowsOfTier(t) : \E i \in 1..n : row = Row(i)
    BY RowsOne DEF TornOf, n, at
  <2>8. \A i \in 1..n : IntervalOf(i) > Warmup => Row(i) \in csv
    BY <2>6, RowsOne DEF n, at
  <2>9. Row(n) \in csv /\ Row(2 * (e - 1) - 1) \in csv /\ Row(2 * (e - 1)) \in csv
    BY <2>1, <2>2, <2>3, <2>4, <2>5, <2>8 DEF e
  <2>10. OpsAt(t, e) \subseteq {"read"}
    <3> SUFFICES ASSUME NEW row \in csv, row.tier = t, row.e = e PROVE row.op = "read"
      BY DEF OpsAt
    <3>1. PICK i \in 1..n : row = Row(i)
      BY CsvOfTier, <2>7
    <3>2. IntervalOf(i) = e /\ row.op = OpOf(i)
      BY <3>1
    <3>3. i = n \/ i = 2 * e
      <4>1. i \in Nat /\ e \in Nat \ {0}
        BY <2>2, <2>3, <2>4
      <4>2. \A j \in Nat : IntervalOf(j) = e => j = 2 * e - 1 \/ j = 2 * e
        BY <4>1, OfTheInterval
      <4> QED
        BY <2>4, <3>2, <4>1, <4>2
    <3> QED
      BY <2>2, <2>3, <2>4, <3>2, <3>3
  <2>11. {"read", "update"} \subseteq OpsAt(t, e - 1)
    <3>1. /\ Row(2 * (e - 1) - 1) = [tier |-> t, e |-> e - 1, op |-> "read", cum |-> FALSE]
          /\ Row(2 * (e - 1)) = [tier |-> t, e |-> e - 1, op |-> "update", cum |-> FALSE]
      BY <2>5
    <3> QED
      BY <2>9, <3>1 DEF OpsAt
  <2>12. OpsAt(t, e - 1) \subseteq {"read", "update"}
    <3> SUFFICES ASSUME NEW row \in csv, row.tier = t PROVE row.op \in {"read", "update"}
      BY DEF OpsAt
    <3>1. PICK i \in 1..n : row = Row(i)
      BY CsvOfTier, <2>7
    <3> QED
      BY <2>2, <3>1, OfInterval
  <2>13. "read" \in OpsAt(t, e)
    <3>1. Row(n) = [tier |-> t, e |-> e, op |-> "read", cum |-> FALSE]
      BY <2>3 DEF e
    <3> QED
      BY <2>9, <3>1 DEF OpsAt
  <2>14. Cardinality({"read"}) = 1 /\ Cardinality({"read", "update"}) = 2
    <3>1. Cardinality({"read"}) = 1 /\ IsFiniteSet({"read"})
      BY FS_Singleton
    <3>2. Cardinality({"read"} \cup {"update"}) = Cardinality({"read"}) + 1
      BY <3>1, FS_AddElement
    <3>3. {"read", "update"} = {"read"} \cup {"update"}
      OBVIOUS
    <3> QED
      BY <3>1, <3>2, <3>3
  <2>15. Cardinality(OpsAt(t, e)) # Cardinality(OpsAt(t, e - 1))
    <3>1. OpsAt(t, e) = {"read"} /\ OpsAt(t, e - 1) = {"read", "update"}
      BY <2>10, <2>11, <2>12, <2>13
    <3> QED
      BY <2>14, <3>1
  <2>16. Row(n).tier = t /\ Row(n).e = e /\ Row(2 * (e - 1)).tier = t /\ Row(2 * (e - 1)).e = e - 1
    BY <2>5 DEF e
  <2> HIDE DEF Row
  <2> QED
    BY <2>9, <2>15, <2>16 DEF OpsCovered
<1> QED
  BY <1>1, Invariance, PTL
============================================================================
