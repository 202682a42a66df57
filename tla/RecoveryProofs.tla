--------------------------- MODULE RecoveryProofs ---------------------------
(***************************************************************************)
(* Proofs about how throughput came back, for series of any length, any    *)
(* baseline, threshold, hold and settling time, and lines late by any      *)
(* amount below them: what the run reports is what happened, the analysis  *)
(* repeats it, and a bounded alignment holds the truth.                    *)
(***************************************************************************)
EXTENDS Recovery, FiniteSetTheorems, SequenceTheorems, WellFoundedInduction, TLAPS

-----------------------------------------------------------------------------
(* Facts about numbers and finite sets.                                    *)

LEMMA SmallestExists ==
  ASSUME NEW S \in SUBSET Nat, S # {}
  PROVE  \E m \in S : \A x \in S : m <= x
<1> DEFINE R == OpToRel(<, Nat)
<1>1. IsWellFoundedOn(R, Nat)
  BY NatLessThanWellFounded, Zenon
<1>2. \A x, m \in Nat : x < m => <<x, m>> \in R
  BY Zenon DEF OpToRel
<1> HIDE DEF R
<1>3. PICK m \in S : \A x \in S : <<x, m>> \notin R
  BY <1>1, WFMin
<1>4. \A x \in S : ~(x < m)
  BY <1>2, <1>3
<1> QED
  BY <1>4

LEMMA MinIs ==
  ASSUME NEW S \in SUBSET Nat, S # {}
  PROVE  Min(S) \in S /\ \A x \in S : Min(S) <= x
<1>1. \E m \in S : \A x \in S : m <= x
  BY SmallestExists
<1> QED
  BY <1>1, Zenon DEF Min

(* Induction up to n, for a set that holds what has been shown so far.     *)
LEMMA CountingUp ==
  ASSUME NEW n \in Nat, NEW S, 0 \in S,
         \A m \in 0..n : m \in S /\ m < n => m + 1 \in S
  PROVE  \A m \in 0..n : m \in S
<1> DEFINE Bad == {m \in 0..n : m \notin S}
<1>1. SUFFICES ASSUME Bad # {} PROVE FALSE
  OBVIOUS
<1>2. PICK m \in Bad : \A x \in Bad : m <= x
  <2>1. Bad \in SUBSET Nat
    OBVIOUS
  <2> HIDE DEF Bad
  <2> QED
    BY <1>1, <2>1, SmallestExists
<1>3. m \in 0..n /\ m # 0 /\ m \notin S
  BY <1>2
<1>4. m - 1 \in 0..n /\ m - 1 < n /\ (m - 1) + 1 = m
  BY <1>3
<1>5. m - 1 \in S
  BY <1>2, <1>4
<1> QED
  BY <1>3, <1>4, <1>5

-----------------------------------------------------------------------------
(* Totals.                                                                 *)

Counts(u, w, n) == u[0] = 0 /\ \A i \in 1..n : u[i] = u[i - 1] + w[i]

LEMMA CountExists ==
  ASSUME NEW n \in Nat, NEW w \in [1..n -> Nat]
  PROVE  \E u \in [0..n -> Nat] : Counts(u, w, n)
<1> DEFINE S == {m \in 0..n : \E u \in [0..m -> Nat] : Counts(u, w, m)}
<1>1. 0 \in S
  <2>1. [i \in 0..0 |-> 0] \in [0..0 -> Nat] /\ Counts([i \in 0..0 |-> 0], w, 0)
    BY DEF Counts
  <2> QED
    BY <2>1
<1>2. ASSUME NEW m \in 0..n, m \in S, m < n PROVE m + 1 \in S
  <2>1. PICK u \in [0..m -> Nat] : Counts(u, w, m)
    BY <1>2
  <2> DEFINE x == [i \in 0..(m + 1) |-> IF i = m + 1 THEN u[m] + w[m + 1] ELSE u[i]]
  <2>2. x \in [0..(m + 1) -> Nat]
    BY <1>2
  <2>3. x[0] = 0
    BY <2>1 DEF Counts
  <2>4. ASSUME NEW i \in 1..(m + 1) PROVE x[i] = x[i - 1] + w[i]
    <3>1. CASE i = m + 1
      BY <1>2, <3>1
    <3>2. CASE i # m + 1
      <4>1. i \in 1..m /\ i \in 0..(m + 1) /\ i - 1 \in 0..(m + 1) /\ i - 1 # m + 1
        BY <3>2
      <4> QED
        BY <2>1, <3>2, <4>1 DEF Counts
    <3> QED
      BY <3>1, <3>2
  <2>5. Counts(x, w, m + 1)
    BY <2>3, <2>4 DEF Counts
  <2> HIDE DEF x
  <2>6. \E v \in [0..(m + 1) -> Nat] : Counts(v, w, m + 1)
    BY <2>2, <2>5, Zenon
  <2>7. m + 1 \in 0..n
    BY <1>2
  <2> QED
    BY <2>6, <2>7, Zenon
<1>3. \A m \in 0..n : m \in S
  <2> HIDE DEF S
  <2> QED
    BY <1>1, <1>2, CountingUp
<1>4. n \in 0..n
  OBVIOUS
<1> QED
  BY <1>3, <1>4, Zenon

LEMMA TotalIs ==
  ASSUME NEW n \in Nat, NEW w \in [1..n -> Nat], Len(w) = n
  PROVE  \E u \in [0..n -> Nat] : Counts(u, w, n) /\ Total(w) = u[n]
<1>1. PICK u \in [0..n -> Nat] : Counts(u, w, n)
  BY CountExists
<1> DEFINE Step(v) == [i \in 0..Len(w) |-> IF i = 0 THEN 0 ELSE v[i - 1] + w[i]]
           c == CHOOSE v : v = Step(v)
<1>2. u = Step(u)
  BY <1>1 DEF Counts
<1>3. c = Step(c)
  <2> HIDE DEF Step
  <2> QED
    BY <1>2
<1>4. Total(w) = c[n]
  BY DEF Total
<1> HIDE DEF c
<1> DEFINE S == {m \in 0..n : c[m] = u[m]}
<1>5. 0 \in S
  BY <1>1, <1>3 DEF Counts
<1>6. ASSUME NEW m \in 0..n, m \in S, m < n PROVE m + 1 \in S
  <2>1. m + 1 \in 1..n /\ m + 1 \in 0..n /\ (m + 1) - 1 = m /\ m + 1 # 0
    BY <1>6
  <2>2. c[m + 1] = c[m] + w[m + 1]
    BY <1>3, <2>1
  <2>3. u[m + 1] = u[m] + w[m + 1]
    BY <1>1, <2>1 DEF Counts
  <2> QED
    BY <1>6, <2>1, <2>2, <2>3
<1>7. \A m \in 0..n : m \in S
  <2> HIDE DEF S
  <2> QED
    BY <1>5, <1>6, CountingUp
<1> QED
  BY <1>1, <1>4, <1>7

LEMMA Multiples ==
  ASSUME NEW c \in Nat, NEW k \in Nat
  PROVE  c * (k + 1) = c * k + c /\ c * k \in Nat /\ c * 0 = 0
OBVIOUS

LEMMA Adding ==
  ASSUME NEW a \in Nat, NEW b \in Nat, NEW c \in Nat, NEW d \in Nat, a <= b, d <= c
  PROVE  a + d <= b + c
OBVIOUS

(* What no member exceeds, the total does not exceed in their number.      *)
LEMMA TotalOfEqual ==
  ASSUME NEW n \in Nat, NEW w \in [1..n -> Nat], Len(w) = n, NEW part \in SUBSET (1..n),
         NEW c \in Nat, \A i \in 1..n \ part : w[i] = 0
  PROVE  /\ (\A i \in part : w[i] = c) => Total(w) = c * Cardinality(part)
         /\ (\A i \in part : w[i] <= c) => Total(w) <= c * Cardinality(part)
         /\ Total(w) \in Nat /\ IsFiniteSet(part) /\ Cardinality(part) \in Nat
<1>1. PICK u \in [0..n -> Nat] : Counts(u, w, n) /\ Total(w) = u[n]
  BY TotalIs
<1> DEFINE Upto(m) == {i \in part : i <= m}
           k(m) == Cardinality(Upto(m))
           S == {m \in 0..n : /\ (\A i \in part : w[i] = c) => u[m] = c * k(m)
                              /\ (\A i \in part : w[i] <= c) => u[m] <= c * k(m)}
<1>0. \A i \in part : i \in 1..n /\ i \in Nat /\ i >= 1 /\ i <= n
  OBVIOUS
<1>2. IsFiniteSet(1..n)
  BY FS_Interval
<1>3. \A m \in Nat : IsFiniteSet(Upto(m)) /\ k(m) \in Nat
  <2> SUFFICES ASSUME NEW m \in Nat PROVE IsFiniteSet(Upto(m)) /\ k(m) \in Nat
    OBVIOUS
  <2>1. Upto(m) \subseteq 1..n
    OBVIOUS
  <2> HIDE DEF Upto
  <2> QED
    BY <1>2, <2>1, FS_Subset, FS_CardinalityType
<1>4. 0 \in S
  <2>0. \A i \in part : ~(i <= 0)
    BY <1>0
  <2>1. Upto(0) = {}
    BY <2>0, Zenon
  <2>2. k(0) = 0
    BY <2>1, FS_EmptySet
  <2> HIDE DEF k
  <2> QED
    BY <1>1, <2>2 DEF Counts
<1>5. ASSUME NEW m \in 0..n, m \in S, m < n PROVE m + 1 \in S
  <2>1. m + 1 \in 1..n /\ m + 1 \in 0..n /\ (m + 1) - 1 = m /\ m \in Nat /\ m + 1 \in Nat
    BY <1>5
  <2>2. u[m + 1] = u[m] + w[m + 1] /\ u[m] \in Nat /\ w[m + 1] \in Nat /\ u[m + 1] \in Nat
    BY <1>1, <2>1 DEF Counts
  <2>3. CASE m + 1 \in part
    <3>0. \A i \in part : i <= m + 1 <=> i <= m \/ i = m + 1
      BY <1>0, <2>1
    <3>9. ~(m + 1 <= m)
      BY <2>1
    <3>1. Upto(m + 1) = Upto(m) \cup {m + 1} /\ m + 1 \notin Upto(m)
      BY <2>3, <3>0, <3>9, Zenon
    <3> HIDE DEF Upto
    <3>2. k(m + 1) = k(m) + 1
      BY <1>3, <2>1, <3>1, FS_AddElement
    <3> HIDE DEF k
    <3>3. k(m) \in Nat
      BY <1>3, <2>1
    <3>4. c * k(m + 1) = c * k(m) + c /\ c * k(m) \in Nat
      BY <3>2, <3>3, Multiples
    <3>5. (\A i \in part : w[i] = c) => u[m + 1] = c * k(m + 1)
      BY <1>5, <2>2, <2>3, <3>4
    <3>6. (\A i \in part : w[i] <= c) => u[m + 1] <= c * k(m + 1)
      <4> SUFFICES ASSUME \A i \in part : w[i] <= c PROVE u[m + 1] <= c * k(m + 1)
        OBVIOUS
      <4>1. u[m] <= c * k(m) /\ w[m + 1] <= c
        BY <1>5, <2>3
      <4> DEFINE d == c * k(m)
      <4>2. u[m] <= d /\ d \in Nat /\ c * k(m + 1) = d + c
        BY <3>4, <4>1, Zenon
      <4> HIDE DEF d
      <4>3. u[m] + w[m + 1] <= d + c
        BY <2>2, <4>1, <4>2, Adding
      <4> QED
        BY <2>2, <4>2, <4>3, Zenon
    <3>7. m + 1 \in 0..n
      BY <2>1
    <3> QED
      BY <3>5, <3>6, <3>7, Zenon
  <2>4. CASE m + 1 \notin part
    <3>0. \A i \in part : i <= m + 1 <=> i <= m
      BY <1>0, <2>1, <2>4
    <3>1. Upto(m + 1) = Upto(m)
      BY <3>0
    <3>2. k(m + 1) = k(m)
      BY <3>1
    <3>3. u[m + 1] = u[m]
      BY <2>1, <2>2, <2>4
    <3> HIDE DEF k
    <3> QED
      BY <1>5, <2>1, <3>2, <3>3
  <2> QED
    BY <2>3, <2>4
<1>6. \A m \in 0..n : m \in S
  <2> HIDE DEF S
  <2> QED
    BY <1>4, <1>5, CountingUp
<1>7. Upto(n) = part /\ n \in 0..n
  <2>1. \A i \in part : i <= n
    BY <1>0
  <2>2. Upto(n) = part
    BY <2>1, Zenon
  <2> QED
    BY <2>2
<1>8. k(n) = Cardinality(part) /\ IsFiniteSet(part) /\ Cardinality(part) \in Nat
  BY <1>3, <1>7
<1> HIDE DEF k
<1> QED
  BY <1>1, <1>6, <1>7, <1>8

-----------------------------------------------------------------------------
(* Series whose times do not go back.                                      *)

Series(s, n) ==
  /\ n \in Nat /\ s \in [1..n -> [t : Nat, v : Nat]] /\ Len(s) = n
  /\ \A i, j \in 1..n : i <= j => s[i].t <= s[j].t

LEMMA SumIs ==
  ASSUME NEW n, NEW s, Series(s, n), NEW part \in SUBSET (1..n), NEW c \in Nat
  PROVE  /\ (\A i \in part : s[i].v = c) => Sum(s, part) = c * Cardinality(part)
         /\ (\A i \in part : s[i].v <= c) => Sum(s, part) <= c * Cardinality(part)
         /\ Sum(s, part) \in Nat /\ IsFiniteSet(part) /\ Cardinality(part) \in Nat
<1> DEFINE w == [i \in DOMAIN s |-> IF i \in part THEN s[i].v ELSE 0]
<1>1. n \in Nat /\ DOMAIN s = 1..n /\ \A i \in 1..n : s[i].v \in Nat
  BY DEF Series
<1>2. w \in [1..n -> Nat]
  BY <1>1
<1>3. w \in Seq(Nat)
  <2> HIDE DEF w
  <2> QED
    BY <1>1, <1>2
<1>4. Len(w) = n
  <2>1. DOMAIN w = 1..n
    BY <1>1
  <2> HIDE DEF w
  <2> QED
    BY <1>1, <1>3, <2>1, LenProperties
<1>5. \A i \in 1..n : w[i] = IF i \in part THEN s[i].v ELSE 0
  BY <1>1
<1>6. Sum(s, part) = Total(w)
  BY DEF Sum
<1> HIDE DEF w
<1>7. \A i \in 1..n \ part : w[i] = 0
  BY <1>5
<1>8. \A i \in part : w[i] = s[i].v
  BY <1>5
<1>9. /\ (\A i \in part : w[i] = c) => Total(w) = c * Cardinality(part)
      /\ (\A i \in part : w[i] <= c) => Total(w) <= c * Cardinality(part)
      /\ Total(w) \in Nat /\ IsFiniteSet(part) /\ Cardinality(part) \in Nat
  BY <1>1, <1>2, <1>4, <1>7, TotalOfEqual
<1>10. (\A i \in part : s[i].v = c) => \A i \in part : w[i] = c
  BY <1>8
<1>11. (\A i \in part : s[i].v <= c) => \A i \in part : w[i] <= c
  BY <1>8
<1> QED
  BY <1>6, <1>9, <1>10, <1>11

LEMMA LargestExists ==
  ASSUME NEW n \in Nat, NEW S \in SUBSET (1..n), S # {}
  PROVE  \E m \in S : \A x \in S : x <= m
<1> DEFINE D == {n - x : x \in S}
<1>0. \A x \in S : x \in 1..n /\ n - x \in Nat
  OBVIOUS
<1>1. D \in SUBSET Nat /\ D # {}
  BY <1>0
<1>2. PICK d \in D : \A x \in D : d <= x
  <2> HIDE DEF D
  <2> QED
    BY <1>1, SmallestExists
<1>3. PICK m \in S : d = n - m
  BY <1>2
<1>4. \A x \in S : n - m <= n - x
  BY <1>2, <1>3
<1> QED
  BY <1>0, <1>3, <1>4

LEMMA MaxIs ==
  ASSUME NEW n \in Nat, NEW S \in SUBSET (1..n), S # {}
  PROVE  Max(S) \in S /\ \A x \in S : x <= Max(S)
<1>1. \E m \in S : \A x \in S : m >= x
  BY LargestExists
<1>2. Max(S) \in S /\ \A x \in S : Max(S) >= x
  BY <1>1, Zenon DEF Max
<1> QED
  BY <1>2

(* The last Baseline of some positions: there are none only if there were  *)
(* none.                                                                   *)
LEMMA LastOfIs ==
  ASSUME NEW n \in Nat, NEW part \in SUBSET (1..n)
  PROVE  LastOf(part) \in SUBSET part /\ (part # {} => LastOf(part) # {})
<1>1. LastOf(part) \in SUBSET part
  BY DEF LastOf
<1>2. ASSUME part # {} PROVE LastOf(part) # {}
  <2>1. PICK m \in part : \A x \in part : x <= m
    BY <1>2, LargestExists
  <2>2. \A x \in part : ~(x > m)
    BY <2>1
  <2>3. {j \in part : j > m} = {}
    BY <2>2
  <2>4. Cardinality({j \in part : j > m}) < Baseline
    BY <2>3, FS_EmptySet, RecoveryAssumption
  <2> QED
    BY <2>4 DEF LastOf
<1> QED
  BY <1>1, <1>2

(* Position i starts a hold: it is not before at, the series goes on for   *)
(* long enough, and clears the floor for as long.                          *)
StartsHold(s, n, at, base, i) ==
  /\ s[i].t >= at /\ s[n].t - s[i].t >= Hold
  /\ \A j \in 1..n : j >= i /\ s[j].t < s[i].t + Hold => j \in Clear(s, base)

LEMMA RecoveryIsFirstHold ==
  ASSUME NEW n, NEW s, Series(s, n), NEW at \in Int, NEW base
  PROVE  \/ /\ FindRecovery(s, at, base) = None
            /\ \A i \in 1..n : ~StartsHold(s, n, at, base, i)
         \/ \E i \in 1..n : /\ StartsHold(s, n, at, base, i)
                            /\ FindRecovery(s, at, base) = s[i].t
                            /\ \A k \in 1..n : StartsHold(s, n, at, base, k) => i <= k
<1> DEFINE post == From(s, at)
           Span(i) == {j \in post : j >= i /\ s[j].t < s[i].t + Hold}
           held == {i \in post : /\ s[Max(post)].t - s[i].t >= Hold
                                 /\ Span(i) \subseteq Clear(s, base)}
<1>1. n \in Nat /\ DOMAIN s = 1..n /\ (\A i \in 1..n : s[i].t \in Nat)
      /\ \A i, j \in 1..n : i <= j => s[i].t <= s[j].t
  BY DEF Series
<1>2. post = {i \in 1..n : s[i].t >= at}
  BY <1>1 DEF From
<1>3. FindRecovery(s, at, base) = IF held = {} THEN None ELSE s[Min(held)].t
  BY DEF FindRecovery
<1> HIDE DEF post
<1>4. ASSUME NEW i \in 1..n PROVE i \in held <=> StartsHold(s, n, at, base, i)
  <2>1. CASE s[i].t >= at
    <3>1. i \in post /\ post # {} /\ post \in SUBSET (1..n)
      BY <1>2, <2>1
    <3>2. Max(post) = n
      <4>1. n \in 1..n /\ i <= n
        BY <1>1
      <4>2. s[i].t <= s[n].t /\ s[n].t \in Nat /\ s[i].t \in Nat
        BY <1>1, <4>1
      <4>3. n \in post
        BY <1>2, <2>1, <4>1, <4>2
      <4>4. Max(post) \in 1..n /\ n <= Max(post)
        BY <1>1, <3>1, <4>3, MaxIs
      <4> QED
        BY <1>1, <4>4
    <3>3. Span(i) = {j \in 1..n : j >= i /\ s[j].t < s[i].t + Hold}
      <4>1. \A j \in 1..n : j >= i => s[j].t >= at
        <5> SUFFICES ASSUME NEW j \in 1..n, j >= i PROVE s[j].t >= at
          OBVIOUS
        <5>1. s[i].t <= s[j].t /\ s[j].t \in Nat /\ s[i].t \in Nat
          BY <1>1
        <5> QED
          BY <2>1, <5>1
      <4> QED
        BY <1>2, <4>1
    <3> HIDE DEF Span
    <3> QED
      BY <2>1, <3>1, <3>2, <3>3 DEF StartsHold
  <2>2. CASE ~(s[i].t >= at)
    BY <1>2, <2>2 DEF StartsHold
  <2> QED
    BY <2>1, <2>2
<1>5. held \in SUBSET (1..n)
  BY <1>2
<1> HIDE DEF held
<1>6. CASE held = {}
  BY <1>3, <1>4, <1>6
<1>7. CASE held # {}
  <2>1. Min(held) \in held /\ \A x \in held : Min(held) <= x
    <3>1. held \in SUBSET Nat
      BY <1>5
    <3> QED
      BY <1>7, <3>1, MinIs
  <2> DEFINE i == Min(held)
  <2>2. i \in 1..n /\ StartsHold(s, n, at, base, i) /\ FindRecovery(s, at, base) = s[i].t
    BY <1>3, <1>4, <1>5, <1>7, <2>1
  <2>3. \A k \in 1..n : StartsHold(s, n, at, base, k) => i <= k
    BY <1>4, <2>1
  <2> QED
    BY <2>2, <2>3
<1> QED
  BY <1>6, <1>7

-----------------------------------------------------------------------------
(* The inductive invariant.                                                *)

Tick == [wall : Nat, tps : Nat, p50 : Nat]
Positions == 1..Len(ticks)
Live == [i \in DOMAIN ticks |-> OnWall(ticks[i])]

TypesInv ==
  /\ pc \in {"streaming", "recorded"} /\ now \in Nat /\ start \in 0..MaxStart /\ p50 \in P50s
  /\ ticks \in Seq(Tick) /\ Len(ticks) <= MaxTicks
  /\ fault \in Nat \cup {None} /\ events \in [rto : Nat \cup {None}, envelope : Nat]

(* Lines arrive in order, none before its interval is over or later than   *)
(* MaxLate after.                                                          *)
TicksInv ==
  /\ now <= start + Len(ticks) + 1 + MaxLate
  /\ \A i \in Positions : /\ ticks[i].wall \in start + i .. start + i + MaxLate
                          /\ ticks[i].wall <= now
                          /\ ticks[i].tps \in Levels \cup {Steady}
  /\ \A i, j \in Positions : i <= j => ticks[i].wall <= ticks[j].wall

(* The fault follows an interval, and shows in those alone that end after  *)
(* it.                                                                     *)
FaultInv ==
  /\ fault # None => fault <= now /\ ticks # <<>> /\ ticks[1].wall + InjectAt <= fault
  /\ \A i \in Positions :
       IF fault = None \/ start + i <= fault
       THEN ticks[i].tps = Steady /\ ticks[i].p50 = BaseP50 ELSE ticks[i].p50 = p50

EventsInv ==
  pc = "recorded" => /\ events.rto = IF fault = None THEN None ELSE RtoOf(Live, fault)
                     /\ events.envelope >= now

IInv == TypesInv /\ TicksInv /\ FaultInv /\ EventsInv

LEMMA Sizes ==
  /\ {MaxTicks, MaxStart, MaxLate, Settle, TNum, CvNum, ShNum} \subseteq Nat
  /\ {InjectAt, Steady, BaseP50, TDen, Hold, ShDen} \subseteq Nat \ {0}
  /\ MaxLate < Hold /\ MaxLate < Settle
BY RecoveryAssumption

LEMMA LiveIsSeries ==
  ASSUME TypesInv, TicksInv
  PROVE  /\ Series(Live, Len(ticks)) /\ Len(ticks) \in Nat
         /\ \A i \in Positions : Live[i].t = ticks[i].wall /\ Live[i].v = ticks[i].tps
<1> DEFINE n == Len(ticks)
<1>1. n \in Nat /\ DOMAIN ticks = 1..n /\ \A i \in 1..n : ticks[i] \in Tick
  BY LenProperties DEF TypesInv
<1>2. \A i \in 1..n : Live[i].t = ticks[i].wall /\ Live[i].v = ticks[i].tps
  BY <1>1 DEF Live, OnWall
<1>3. Live \in [1..n -> [t : Nat, v : Nat]]
  <2>1. \A i \in 1..n : OnWall(ticks[i]) \in [t : Nat, v : Nat]
    BY <1>1 DEF OnWall, Tick
  <2> QED
    BY <1>1, <2>1 DEF Live
<1>4. Len(Live) = n
  <2>1. Live \in Seq([t : Nat, v : Nat])
    <3> DEFINE Entries == [t : Nat, v : Nat]
    <3>1. n \in Nat /\ Live \in [1..n -> Entries]
      BY <1>1, <1>3, Zenon
    <3> HIDE DEF Entries, n
    <3>2. Live \in Seq(Entries)
      BY <3>1, SeqDef
    <3> QED
      BY <3>2 DEF Entries
  <2>2. DOMAIN Live = 1..n
    BY <1>1 DEF Live
  <2> QED
    BY <1>1, <2>1, <2>2, LenProperties
<1>5. \A i, j \in 1..n : i <= j => Live[i].t <= Live[j].t
  BY <1>2 DEF TicksInv, Positions
<1> QED
  BY <1>1, <1>2, <1>3, <1>4, <1>5 DEF Series, Positions

(* The RTO is a time since the fault.                                      *)
LEMMA RtoType ==
  ASSUME NEW n, NEW s, Series(s, n), NEW at \in Int
  PROVE  RtoOf(s, at) \in Nat \cup {None}
<1> DEFINE base == LastOf(Before(s, at))
           back == FindRecovery(s, at, base)
<1>1. RtoOf(s, at) = IF Sum(s, base) = 0 \/ back = None THEN None ELSE back - at
  BY DEF RtoOf
<1>2. CASE back = None
  BY <1>1, <1>2
<1>3. ASSUME NEW i \in 1..n, StartsHold(s, n, at, base, i), back = s[i].t PROVE back - at \in Nat
  <2>1. s[i].t \in Nat /\ s[i].t >= at
    BY <1>3 DEF Series, StartsHold
  <2> QED
    BY <1>3, <2>1
<1> HIDE DEF base, back
<1>4. back = None \/ back - at \in Nat
  <2>1. \/ back = None
        \/ \E i \in 1..n : StartsHold(s, n, at, base, i) /\ back = s[i].t
    BY RecoveryIsFirstHold DEF base, back
  <2> QED
    BY <1>3, <2>1
<1> QED
  BY <1>1, <1>4

LEMMA InitIInv == Init => IInv
<1> SUFFICES ASSUME Init PROVE IInv
  OBVIOUS
<1>1. /\ pc = "streaming" /\ now = 0 /\ ticks = <<>> /\ fault = None
      /\ events = [rto |-> None, envelope |-> 0] /\ start \in 0..MaxStart /\ p50 \in P50s
  BY DEF Init, Unwritten
<1>2. ticks \in Seq(Tick) /\ Len(ticks) = 0 /\ Positions = {}
  BY <1>1 DEF Positions
<1>3. TypesInv
  BY <1>1, <1>2, Sizes DEF TypesInv
<1>4. TicksInv /\ FaultInv /\ EventsInv
  <2>0. start \in Nat /\ MaxLate \in Nat
    BY <1>1, Sizes
  <2>4. now <= start + Len(ticks) + 1 + MaxLate
    BY <1>1, <1>2, <2>0
  <2>1. TicksInv
    BY <1>2, <2>4 DEF TicksInv
  <2>2. FaultInv
    BY <1>1, <1>2 DEF FaultInv
  <2>3. EventsInv
    BY <1>1 DEF EventsInv
  <2> QED
    BY <2>1, <2>2, <2>3
<1> QED
  BY <1>3, <1>4 DEF IInv

LEMMA StepIInv == IInv /\ [Next]_vars => IInv'
<1> SUFFICES ASSUME IInv, [Next]_vars PROVE IInv'
  OBVIOUS
<1> DEFINE n == Len(ticks)
<1>0. /\ TypesInv /\ TicksInv /\ FaultInv /\ EventsInv
      /\ n \in Nat /\ DOMAIN ticks = 1..n /\ now \in Nat /\ start \in Nat /\ MaxLate \in Nat
      /\ \A i \in 1..n : ticks[i] \in Tick
  <2>1. TypesInv /\ TicksInv /\ FaultInv /\ EventsInv
    BY DEF IInv
  <2>2. /\ n \in Nat /\ DOMAIN ticks = 1..n /\ now \in Nat /\ start \in Nat
        /\ \A i \in 1..n : ticks[i] \in Tick
    BY <2>1, LenProperties DEF TypesInv
  <2> QED
    BY <2>1, <2>2, Sizes
<1>1. CASE Arrive
  <2>1. PICK v \in IF Undisturbed THEN {Steady} ELSE Levels :
          ticks' = Append(ticks, [wall |-> now, tps |-> v, p50 |-> IF Undisturbed THEN BaseP50 ELSE p50])
    BY <1>1 DEF Arrive
  <2>2. /\ pc = "streaming" /\ n < MaxTicks /\ now >= start + n + 1
        /\ UNCHANGED <<pc, now, start, p50, fault, events>>
    BY <1>0, <1>1 DEF Arrive, NextTick
  <2> DEFINE x == [wall |-> now, tps |-> v, p50 |-> IF Undisturbed THEN BaseP50 ELSE p50]
  <2>3. x \in Tick
    <3>1. v \in Nat /\ BaseP50 \in Nat /\ p50 \in Nat
      BY <1>0, <2>1, RecoveryAssumption DEF TypesInv
    <3> QED
      BY <1>0, <3>1 DEF Tick
  <2>4. /\ x.wall = now /\ x.tps = v /\ x.p50 = IF Undisturbed THEN BaseP50 ELSE p50
    OBVIOUS
  <2> HIDE DEF x
  <2>5. /\ ticks' \in Seq(Tick) /\ Len(ticks') = n + 1 /\ ticks'[n + 1] = x
        /\ \A i \in 1..n : ticks'[i] = ticks[i]
    BY <1>0, <2>1, <2>3, AppendProperties DEF TypesInv, x
  <2>6. \A i \in 1..(n + 1) : i \in 1..n \/ i = n + 1
    BY <1>0
  <2>7. TypesInv'
    <3>1. MaxTicks \in Nat
      BY Sizes
    <3>2. Len(ticks') <= MaxTicks
      BY <1>0, <2>2, <2>5, <3>1
    <3> QED
      BY <1>0, <2>2, <2>5, <3>2 DEF TypesInv
  <2>8. TicksInv'
    <3>1. now' <= start' + Len(ticks') + 1 + MaxLate
      BY <1>0, <2>2, <2>5 DEF TicksInv
    <3>2. ASSUME NEW i \in 1..(n + 1)
          PROVE  /\ ticks'[i].wall \in start + i .. start + i + MaxLate
                 /\ ticks'[i].wall <= now
                 /\ ticks'[i].tps \in Levels \cup {Steady}
      <4>1. CASE i \in 1..n
        BY <2>5, <1>0, <4>1 DEF TicksInv, Positions
      <4>2. CASE i = n + 1
        <5>1. v \in Levels \cup {Steady}
          BY <2>1
        <5>2. now \in start + i .. start + i + MaxLate
          BY <1>0, <2>2, <4>2 DEF TicksInv
        <5> QED
          BY <1>0, <2>4, <2>5, <4>2, <5>1, <5>2
      <4> QED
        BY <2>6, <4>1, <4>2
    <3>3. ASSUME NEW i \in 1..(n + 1), NEW j \in 1..(n + 1), i <= j
          PROVE  ticks'[i].wall <= ticks'[j].wall
      <4>1. CASE j \in 1..n
        <5>1. i \in 1..n
          BY <1>0, <3>3, <4>1
        <5> QED
          BY <1>0, <2>5, <3>3, <4>1, <5>1 DEF TicksInv, Positions
      <4>2. CASE j = n + 1
        BY <2>4, <2>5, <3>2, <4>2
      <4> QED
        BY <2>6, <4>1, <4>2
    <3> QED
      BY <2>2, <2>5, <3>1, <3>2, <3>3 DEF TicksInv, Positions
  <2>9. FaultInv'
    <3>1. fault # None => fault <= now /\ ticks' # <<>> /\ ticks'[1].wall + InjectAt <= fault
      <4> SUFFICES ASSUME fault # None
                   PROVE  fault <= now /\ ticks' # <<>> /\ ticks'[1].wall + InjectAt <= fault
        OBVIOUS
      <4>1. fault <= now /\ ticks # <<>> /\ ticks[1].wall + InjectAt <= fault
        BY <1>0 DEF FaultInv
      <4>2. 1 \in 1..n
        <5>1. n # 0
          BY <4>1, <1>0, EmptySeq DEF TypesInv
        <5> QED
          BY <1>0, <5>1
      <4>3. ticks' # <<>>
        BY <1>0, <2>5
      <4> QED
        BY <2>5, <4>1, <4>2, <4>3
    <3>2. ASSUME NEW i \in 1..(n + 1)
          PROVE  IF fault = None \/ start + i <= fault
                 THEN ticks'[i].tps = Steady /\ ticks'[i].p50 = BaseP50 ELSE ticks'[i].p50 = p50
      <4>1. CASE i \in 1..n
        BY <1>0, <2>5, <4>1 DEF FaultInv, Positions
      <4>2. CASE i = n + 1
        <5>1. Undisturbed <=> fault = None \/ start + i <= fault
          BY <4>2 DEF Undisturbed, NextTick
        <5>2. CASE Undisturbed
          BY <2>1, <2>4, <2>5, <4>2, <5>1, <5>2
        <5>3. CASE ~Undisturbed
          BY <2>4, <2>5, <4>2, <5>1, <5>3
        <5> QED
          BY <5>2, <5>3
      <4> QED
        BY <2>6, <4>1, <4>2
    <3> QED
      BY <2>2, <2>5, <3>1, <3>2 DEF FaultInv, Positions
  <2>10. EventsInv'
    BY <2>2 DEF EventsInv
  <2> QED
    BY <2>7, <2>8, <2>9, <2>10 DEF IInv
<1>2. CASE Advance
  <2>1. /\ pc = "streaming" /\ now < start + n + 1 + MaxLate /\ now' = now + 1
        /\ UNCHANGED <<pc, start, p50, ticks, fault, events>>
    <3>1. now < start + n + 1 \/ now < start + n + 1 + MaxLate
      BY <1>0, <1>2 DEF Advance, NextTick
    <3>2. now < start + n + 1 + MaxLate
      BY <1>0, <3>1
    <3> QED
      BY <1>2, <3>2 DEF Advance
  <2>2. TypesInv'
    BY <1>0, <2>1 DEF TypesInv
  <2>3. TicksInv'
    <3>1. now' <= start + n + 1 + MaxLate
      BY <1>0, <2>1
    <3>2. \A i \in 1..n : ticks[i].wall <= now'
      <4> SUFFICES ASSUME NEW i \in 1..n PROVE ticks[i].wall <= now'
        OBVIOUS
      <4>1. ticks[i].wall \in Nat /\ ticks[i].wall <= now
        BY <1>0 DEF Tick, TicksInv, Positions
      <4> QED
        BY <1>0, <2>1, <4>1
    <3> QED
      BY <1>0, <2>1, <3>1, <3>2 DEF TicksInv, Positions
  <2>4. FaultInv'
    <3>1. fault # None => fault <= now'
      BY <1>0, <2>1 DEF FaultInv, TypesInv
    <3> QED
      BY <1>0, <2>1, <3>1 DEF FaultInv, Positions
  <2>5. EventsInv'
    BY <2>1 DEF EventsInv
  <2> QED
    BY <2>2, <2>3, <2>4, <2>5 DEF IInv
<1>3. CASE Inject
  <2>1. /\ pc = "streaming" /\ fault = None /\ ticks # <<>> /\ now >= ticks[1].wall + InjectAt
        /\ fault' = now /\ UNCHANGED <<pc, now, start, p50, ticks, events>>
    BY <1>3 DEF Inject
  <2>2. TypesInv'
    BY <1>0, <2>1 DEF TypesInv
  <2>3. TicksInv'
    BY <1>0, <2>1 DEF TicksInv, Positions
  <2>4. FaultInv'
    <3>1. \A i \in 1..n : /\ start + i <= now
                          /\ ticks[i].tps = Steady /\ ticks[i].p50 = BaseP50
      <4> SUFFICES ASSUME NEW i \in 1..n
                   PROVE  start + i <= now /\ ticks[i].tps = Steady /\ ticks[i].p50 = BaseP50
        OBVIOUS
      <4>1. ticks[i].wall \in start + i .. start + i + MaxLate /\ ticks[i].wall <= now
        BY <1>0 DEF TicksInv, Positions
      <4>2. ticks[i].tps = Steady /\ ticks[i].p50 = BaseP50
        BY <1>0, <2>1 DEF FaultInv, Positions
      <4> QED
        BY <1>0, <4>1, <4>2
    <3>2. now <= now /\ ticks[1].wall + InjectAt <= now
      <4>1. 1 \in 1..n
        <5>1. n # 0
          BY <2>1, <1>0, EmptySeq DEF TypesInv
        <5> QED
          BY <1>0, <5>1
      <4>2. ticks[1].wall \in Nat /\ InjectAt \in Nat
        BY <1>0, <4>1, Sizes DEF Tick
      <4> QED
        BY <1>0, <2>1, <4>2
    <3> QED
      BY <2>1, <3>1, <3>2 DEF FaultInv, Positions
  <2>5. EventsInv'
    BY <2>1 DEF EventsInv
  <2> QED
    BY <2>2, <2>3, <2>4, <2>5 DEF IInv
<1>4. CASE Record
  <2> DEFINE rto == IF fault = None THEN None ELSE RtoOf(Live, fault)
  <2>1. PICK tail \in 0..MaxTail : events' = [rto |-> rto, envelope |-> now + tail]
    BY <1>4 DEF Record, Live
  <2>2. pc' = "recorded" /\ UNCHANGED <<now, start, p50, ticks, fault>>
    BY <1>4 DEF Record
  <2>3. rto \in Nat \cup {None}
    <3>1. ASSUME fault # None PROVE RtoOf(Live, fault) \in Nat \cup {None}
      <4>1. fault \in Int
        BY <1>0, <3>1 DEF TypesInv
      <4> QED
        BY <1>0, <4>1, LiveIsSeries, RtoType
    <3> QED
      BY <3>1
  <2> HIDE DEF rto
  <2>4. tail \in Nat /\ now + tail \in Nat /\ now + tail >= now
    BY <1>0, RecoveryAssumption
  <2>5. events' \in [rto : Nat \cup {None}, envelope : Nat] /\ events'.rto = rto /\ events'.envelope >= now
    BY <2>1, <2>3, <2>4
  <2>6. TypesInv'
    BY <1>0, <2>2, <2>5 DEF TypesInv
  <2>7. TicksInv' /\ FaultInv'
    BY <1>0, <2>2 DEF TicksInv, FaultInv, Positions
  <2>8. EventsInv'
    <3>1. rto = (IF fault = None THEN None ELSE RtoOf(Live, fault))'
      BY <2>2 DEF rto, Live
    <3> QED
      BY <2>2, <2>5, <3>1 DEF EventsInv
  <2> QED
    BY <2>6, <2>7, <2>8 DEF IInv
<1>5. CASE UNCHANGED vars
  <2>1. UNCHANGED <<pc, now, start, p50, ticks, fault, events>>
    BY <1>5 DEF vars
  <2>2. TypesInv' /\ TicksInv' /\ FaultInv'
    BY <1>0, <2>1 DEF TypesInv, TicksInv, FaultInv, Positions
  <2>3. EventsInv'
    BY <1>0, <2>1 DEF EventsInv, Live
  <2> QED
    BY <2>2, <2>3 DEF IInv
<1> QED
  BY <1>1, <1>2, <1>3, <1>4, <1>5 DEF Next

(* The invariant holds in every reachable state.                           *)
THEOREM Invariance == Spec => []IInv
BY InitIInv, StepIInv, PTL DEF Spec

(* The variables have their types.                                         *)
THEOREM RecoveryTypes == Spec => []TypeOK
<1>1. IInv => TypeOK
  <2> SUFFICES ASSUME IInv PROVE TypeOK
    OBVIOUS
  <2>1. DOMAIN ticks = Positions
    BY LenProperties DEF IInv, TypesInv, Positions
  <2> QED
    BY <2>1 DEF IInv, TypesInv, TicksInv, TypeOK
<1> QED
  BY <1>1, Invariance, PTL

-----------------------------------------------------------------------------
(* Floors.                                                                 *)

LEMMA Scaled ==
  ASSUME NEW a \in Nat, NEW b \in Nat, NEW k \in Nat \ {0}
  PROVE  a * k >= b * k <=> a >= b
<1>1. ASSUME a >= b PROVE a * k >= b * k
  <2>1. PICK d \in Nat : a = b + d
    <3>1. a - b \in Nat /\ a = b + (a - b)
      BY <1>1
    <3> QED
      BY <3>1
  <2>2. a * k = b * k + d * k /\ d * k \in Nat /\ b * k \in Nat
    BY <2>1
  <2> QED
    BY <2>2
<1>2. ASSUME ~(a >= b) PROVE ~(a * k >= b * k)
  <2>1. PICK d \in Nat : b = a + d + 1
    <3>1. b - a - 1 \in Nat /\ b = a + (b - a - 1) + 1
      BY <1>2
    <3> QED
      BY <3>1
  <2>2. b * k = a * k + d * k + k /\ d * k \in Nat /\ a * k \in Nat
    BY <2>1
  <2> QED
    BY <2>2
<1> QED
  BY <1>1, <1>2

(* Over a baseline of the steady throughput, clearing the floor is being   *)
(* good; a baseline with less in it asks for no more.                      *)
GoodTps(v) == v * TDen >= Steady * TNum

LEMMA ClearIsGood ==
  ASSUME NEW n, NEW s, Series(s, n), NEW base \in SUBSET (1..n), base # {},
         \A i \in base : s[i].v <= Steady
  PROVE  /\ \A i \in 1..n : GoodTps(s[i].v) => i \in Clear(s, base)
         /\ (\A i \in base : s[i].v = Steady) =>
              \A i \in 1..n : i \in Clear(s, base) => GoodTps(s[i].v)
<1> DEFINE k == Cardinality(base)
           total == Sum(s, base)
<1>1. Steady \in Nat /\ TNum \in Nat /\ TDen \in Nat
  BY Sizes
<1>2. /\ total <= Steady * k /\ total \in Nat /\ k \in Nat /\ IsFiniteSet(base)
      /\ (\A i \in base : s[i].v = Steady) => total = Steady * k
  BY <1>1, SumIs
<1>3. k # 0
  BY <1>2, FS_EmptySet
<1>4. \A i \in 1..n : s[i].v \in Nat /\ DOMAIN s = 1..n
  BY DEF Series
<1>5. \A i \in 1..n : i \in Clear(s, base) <=> s[i].v * k * TDen >= total * TNum
  BY <1>4 DEF Clear
<1> HIDE DEF k, total
<1>6. ASSUME NEW i \in 1..n
      PROVE  /\ GoodTps(s[i].v) <=> s[i].v * k * TDen >= Steady * k * TNum
             /\ s[i].v * k * TDen \in Nat /\ Steady * k * TNum \in Nat
  <2>1. PICK v \in Nat : v = s[i].v
    BY <1>4
  <2>2. v * TDen \in Nat /\ Steady * TNum \in Nat
    BY <1>1
  <2>3. (v * TDen) * k >= (Steady * TNum) * k <=> v * TDen >= Steady * TNum
    BY <1>2, <1>3, <2>2, Scaled
  <2>4. (v * TDen) * k = v * k * TDen /\ (Steady * TNum) * k = Steady * k * TNum
    BY <1>1, <1>2
  <2>5. (v * TDen) * k \in Nat /\ (Steady * TNum) * k \in Nat
    BY <1>2, <2>2
  <2> QED
    BY <2>1, <2>3, <2>4, <2>5 DEF GoodTps
<1>7. total * TNum <= Steady * k * TNum /\ total * TNum \in Nat
  <2>1. PICK d \in Nat : Steady * k = total + d
    <3>1. Steady * k \in Nat
      BY <1>1, <1>2
    <3>2. Steady * k - total \in Nat /\ Steady * k = total + (Steady * k - total)
      BY <1>2, <3>1
    <3> QED
      BY <3>2
  <2>2. (total + d) * TNum = total * TNum + d * TNum /\ d * TNum \in Nat /\ total * TNum \in Nat
    BY <1>1, <1>2
  <2> QED
    BY <2>1, <2>2
<1>8. ASSUME NEW i \in 1..n, GoodTps(s[i].v) PROVE i \in Clear(s, base)
  BY <1>5, <1>6, <1>7, <1>8
<1>9. ASSUME NEW i \in 1..n, total = Steady * k, i \in Clear(s, base) PROVE GoodTps(s[i].v)
  BY <1>5, <1>6, <1>9
<1> QED
  BY <1>2, <1>8, <1>9

(* A baseline of the steady throughput is not nothing.                     *)
LEMMA BaselineCounts ==
  ASSUME NEW n, NEW s, Series(s, n), NEW base \in SUBSET (1..n)
  PROVE  /\ base = {} => Sum(s, base) = 0
         /\ base # {} /\ (\A i \in base : s[i].v = Steady) => Sum(s, base) # 0
<1>1. Steady \in Nat \ {0}
  BY Sizes
<1>2. ASSUME base = {} PROVE Sum(s, base) = 0
  <2>1. Sum(s, base) = Steady * Cardinality(base)
    BY <1>1, <1>2, SumIs
  <2>2. Cardinality(base) = 0
    BY <1>2, FS_EmptySet
  <2> QED
    BY <1>1, <2>1, <2>2
<1>3. ASSUME base # {}, \A i \in base : s[i].v = Steady PROVE Sum(s, base) # 0
  <2>1. Sum(s, base) = Steady * Cardinality(base) /\ IsFiniteSet(base) /\ Cardinality(base) \in Nat
    BY <1>1, <1>3, SumIs
  <2>2. Cardinality(base) # 0
    BY <1>3, <2>1, FS_EmptySet
  <2>3. \A a, b \in Nat \ {0} : a * b # 0
    OBVIOUS
  <2> QED
    BY <1>1, <2>1, <2>2, <2>3
<1> QED
  BY <1>2, <1>3

LEMMA RtoIsFirstHold ==
  ASSUME NEW n, NEW s, Series(s, n), NEW at \in Int, NEW base, base = LastOf(Before(s, at))
  PROVE  /\ RtoOf(s, at) # None =>
              /\ Sum(s, base) # 0
              /\ \E i \in 1..n : /\ StartsHold(s, n, at, base, i)
                                 /\ RtoOf(s, at) = s[i].t - at
                                 /\ \A k \in 1..n : StartsHold(s, n, at, base, k) => i <= k
         /\ Sum(s, base) # 0 /\ (\E i \in 1..n : StartsHold(s, n, at, base, i))
              => RtoOf(s, at) # None
<1> DEFINE back == FindRecovery(s, at, base)
<1>1. RtoOf(s, at) = IF Sum(s, base) = 0 \/ back = None THEN None ELSE back - at
  BY DEF RtoOf
<1>2. \/ back = None /\ \A i \in 1..n : ~StartsHold(s, n, at, base, i)
      \/ \E i \in 1..n : /\ StartsHold(s, n, at, base, i) /\ back = s[i].t
                         /\ \A k \in 1..n : StartsHold(s, n, at, base, k) => i <= k
  BY RecoveryIsFirstHold
<1> HIDE DEF back
<1>3. ASSUME RtoOf(s, at) # None
      PROVE  /\ Sum(s, base) # 0
             /\ \E i \in 1..n : /\ StartsHold(s, n, at, base, i)
                                /\ RtoOf(s, at) = s[i].t - at
                                /\ \A k \in 1..n : StartsHold(s, n, at, base, k) => i <= k
  <2>1. Sum(s, base) # 0 /\ back # None /\ RtoOf(s, at) = back - at
    BY <1>1, <1>3
  <2>2. PICK i \in 1..n : /\ StartsHold(s, n, at, base, i) /\ back = s[i].t
                          /\ \A k \in 1..n : StartsHold(s, n, at, base, k) => i <= k
    BY <1>2, <2>1
  <2>3. RtoOf(s, at) = s[i].t - at
    BY <2>1, <2>2
  <2> QED
    BY <2>1, <2>2, <2>3, Zenon
<1>4. ASSUME Sum(s, base) # 0, NEW i \in 1..n, StartsHold(s, n, at, base, i)
      PROVE  RtoOf(s, at) # None
  <2>1. PICK k \in 1..n : StartsHold(s, n, at, base, k) /\ back = s[k].t
    BY <1>2, <1>4
  <2>2. s[k].t \in Nat /\ s[k].t >= at
    BY <2>1 DEF StartsHold, Series
  <2>3. back # None /\ back - at >= 0
    BY <2>1, <2>2 DEF None
  <2> QED
    BY <1>1, <1>4, <2>3 DEF None
<1> QED
  BY <1>3, <1>4

-----------------------------------------------------------------------------
(* The run, and its clock.                                                 *)

LEMMA TickFacts ==
  ASSUME IInv, fault # None
  PROVE  /\ Len(ticks) \in Nat /\ DOMAIN ticks = Positions /\ Positions = 1..Len(ticks)
         /\ fault \in Nat /\ start \in Nat /\ now \in Nat /\ 1 \in Positions
         /\ {MaxLate, Settle, TNum} \subseteq Nat /\ {InjectAt, Hold} \subseteq Nat \ {0}
         /\ MaxLate < Hold /\ MaxLate < Settle /\ ticks[1].wall + InjectAt <= fault
         /\ \A i \in Positions :
              /\ i \in Nat /\ ticks[i].wall \in Nat /\ ticks[i].wall <= now
              /\ start + i <= ticks[i].wall /\ ticks[i].wall <= start + i + MaxLate
              /\ start + i <= fault => ticks[i].tps = Steady /\ ticks[i].p50 = BaseP50
              /\ start + i > fault => ticks[i].p50 = p50
<1>1. /\ Len(ticks) \in Nat /\ DOMAIN ticks = Positions /\ Positions = 1..Len(ticks)
      /\ fault \in Nat /\ start \in Nat /\ now \in Nat
  BY LenProperties, Sizes DEF IInv, TypesInv, Positions
<1>2. ticks # <<>> /\ ticks[1].wall + InjectAt <= fault
  BY DEF IInv, FaultInv
<1>3. 1 \in Positions
  <2>1. Len(ticks) # 0
    BY <1>2, EmptySeq DEF IInv, TypesInv
  <2> QED
    BY <1>1, <2>1
<1>4. ASSUME NEW i \in Positions
      PROVE  /\ i \in Nat /\ ticks[i].wall \in Nat /\ ticks[i].wall <= now
             /\ start + i <= ticks[i].wall /\ ticks[i].wall <= start + i + MaxLate
             /\ start + i <= fault => ticks[i].tps = Steady /\ ticks[i].p50 = BaseP50
             /\ start + i > fault => ticks[i].p50 = p50
  <2>1. ticks[i].wall \in start + i .. start + i + MaxLate /\ ticks[i].wall <= now
    BY DEF IInv, TicksInv
  <2>2. IF start + i <= fault
        THEN ticks[i].tps = Steady /\ ticks[i].p50 = BaseP50 ELSE ticks[i].p50 = p50
    BY DEF IInv, FaultInv
  <2>3. i \in Nat /\ MaxLate \in Nat
    BY <1>1, Sizes
  <2> QED
    BY <1>1, <2>1, <2>2, <2>3
<1> QED
  BY <1>1, <1>2, <1>3, <1>4, Sizes

(* On the harness's clock the baseline is of the steady throughput.        *)
LEMMA LiveBaseline ==
  ASSUME IInv, fault # None
  PROVE  LET base == LastOf(Before(Live, fault))
         IN  /\ base \in SUBSET Positions /\ base # {}
             /\ \A i \in base : Live[i].v = Steady /\ start + i <= fault
<1> DEFINE pre == Before(Live, fault)
<1>1. Series(Live, Len(ticks)) /\ \A i \in Positions : Live[i].t = ticks[i].wall /\ Live[i].v = ticks[i].tps
  BY LiveIsSeries DEF IInv
<1>2. DOMAIN Live = Positions
  BY TickFacts DEF Live
<1>3. pre \in SUBSET Positions /\ \A i \in Positions : i \in pre <=> ticks[i].wall < fault
  BY <1>1, <1>2 DEF Before
<1> HIDE DEF pre
<1>4. 1 \in pre
  <2>1. 1 \in Positions /\ ticks[1].wall + InjectAt <= fault
        /\ ticks[1].wall \in Nat /\ InjectAt \in Nat \ {0} /\ fault \in Nat
    BY TickFacts
  <2> QED
    BY <1>3, <2>1
<1>5. \A i \in pre : start + i <= fault /\ ticks[i].tps = Steady
  <2> SUFFICES ASSUME NEW i \in pre PROVE start + i <= fault /\ ticks[i].tps = Steady
    OBVIOUS
  <2>1. i \in Positions /\ ticks[i].wall < fault
    BY <1>3, Zenon
  <2> QED
    BY <2>1, TickFacts
<1>6. LastOf(pre) \in SUBSET pre /\ LastOf(pre) # {}
  BY <1>3, <1>4, TickFacts, LastOfIs
<1> QED
  BY <1>1, <1>3, <1>5, <1>6 DEF pre

(* A hold on the harness's clock, in intervals.                            *)
LEMMA LiveHold ==
  ASSUME IInv, fault # None, NEW base, base = LastOf(Before(Live, fault)), NEW i \in Positions
  PROVE  /\ StartsHold(Live, Len(ticks), fault, base, i) =>
              ticks[i].wall >= fault /\ \A k \in 0..(Hold - MaxLate - 1) : Good(i + k)
         /\ ticks[i].wall >= fault /\ (\A k \in 0..(Hold + MaxLate) : Good(i + k))
              => StartsHold(Live, Len(ticks), fault, base, i)
<1> DEFINE n == Len(ticks)
<1>1. Series(Live, n) /\ \A j \in Positions : Live[j].t = ticks[j].wall /\ Live[j].v = ticks[j].tps
  BY LiveIsSeries DEF IInv
<1>2. /\ n \in Nat /\ Positions = 1..n /\ DOMAIN ticks = Positions /\ start \in Nat /\ fault \in Nat
      /\ MaxLate \in Nat /\ Hold \in Nat \ {0} /\ MaxLate < Hold
      /\ \A j \in Positions : /\ j \in Nat /\ ticks[j].wall \in Nat
                              /\ start + j <= ticks[j].wall /\ ticks[j].wall <= start + j + MaxLate
  BY TickFacts
<1>3. \A j \in Positions : j \in Clear(Live, base) <=> Good(j)
  <2>1. base \in SUBSET Positions /\ base # {} /\ \A j \in base : Live[j].v = Steady
    BY LiveBaseline
  <2>2. \A j \in base : Live[j].v <= Steady
    BY <2>1, Sizes
  <2>3. \A j \in 1..n : j \in Clear(Live, base) <=> GoodTps(Live[j].v)
    BY <1>1, <1>2, <2>1, <2>2, ClearIsGood
  <2> QED
    BY <1>1, <1>2, <2>3 DEF GoodTps, Good
<1>4. n \in Positions /\ i \in Nat /\ i >= 1 /\ i <= n
  BY <1>2
<1>5. ASSUME StartsHold(Live, n, fault, base, i)
      PROVE  ticks[i].wall >= fault /\ \A k \in 0..(Hold - MaxLate - 1) : Good(i + k)
  <2>1. /\ ticks[i].wall >= fault /\ ticks[n].wall - ticks[i].wall >= Hold
        /\ \A j \in Positions : j >= i /\ ticks[j].wall < ticks[i].wall + Hold => Good(j)
    BY <1>1, <1>2, <1>3, <1>4, <1>5 DEF StartsHold
  <2>2. ASSUME NEW k \in 0..(Hold - MaxLate - 1) PROVE Good(i + k)
    <3>1. i + k \in Positions
      <4>1. ticks[n].wall <= start + n + MaxLate /\ start + i <= ticks[i].wall
            /\ ticks[n].wall \in Nat /\ ticks[i].wall \in Nat
        BY <1>2, <1>4
      <4> QED
        BY <1>2, <1>4, <2>1, <4>1
    <3>2. ticks[i + k].wall < ticks[i].wall + Hold
      <4>1. ticks[i + k].wall <= start + (i + k) + MaxLate /\ start + i <= ticks[i].wall
            /\ ticks[i + k].wall \in Nat /\ ticks[i].wall \in Nat
        BY <1>2, <3>1
      <4>2. {start, MaxLate, Hold, i, k} \subseteq Nat /\ k <= Hold - MaxLate - 1
        BY <1>2, <1>4
      <4> QED
        BY <4>1, <4>2
    <3> QED
      BY <1>4, <2>1, <3>1, <3>2
  <2> QED
    BY <2>1, <2>2
<1>6. ASSUME ticks[i].wall >= fault, \A k \in 0..(Hold + MaxLate) : Good(i + k)
      PROVE  StartsHold(Live, n, fault, base, i)
  <2>1. i + (Hold + MaxLate) \in Positions
    <3>1. Hold + MaxLate \in 0..(Hold + MaxLate)
      BY <1>2
    <3> QED
      BY <1>2, <1>6, <3>1 DEF Good
  <2>2. ticks[n].wall - ticks[i].wall >= Hold
    <3>1. i + (Hold + MaxLate) <= n
      BY <1>2, <2>1
    <3>2. start + n <= ticks[n].wall /\ ticks[i].wall <= start + i + MaxLate
          /\ ticks[n].wall \in Nat /\ ticks[i].wall \in Nat
      BY <1>2, <1>4
    <3> QED
      BY <1>2, <1>4, <3>1, <3>2
  <2>3. ASSUME NEW j \in Positions, j >= i, ticks[j].wall < ticks[i].wall + Hold PROVE Good(j)
    <3>1. start + j <= ticks[j].wall /\ ticks[i].wall <= start + i + MaxLate
          /\ ticks[j].wall \in Nat /\ ticks[i].wall \in Nat /\ j \in Nat
      BY <1>2
    <3>2. j - i \in 0..(Hold + MaxLate) /\ i + (j - i) = j
      BY <1>2, <1>4, <2>3, <3>1
    <3> QED
      BY <1>6, <3>2
  <2> QED
    BY <1>1, <1>2, <1>3, <1>4, <1>6, <2>2, <2>3 DEF StartsHold
<1> QED
  BY <1>5, <1>6

(* A reported recovery is one that held, and none that held is missed.     *)
THEOREM RecoveryTruth == Spec => []RecoveryIsTrue
<1>1. IInv => RecoveryIsTrue
  <2> SUFFICES ASSUME IInv, Analysed
               PROVE  /\ events.rto # None =>
                           \E i \in DOMAIN ticks :
                             /\ ticks[i].wall = fault + events.rto
                             /\ \A k \in 0..(Hold - MaxLate - 1) : Good(i + k)
                      /\ \A i \in DOMAIN ticks :
                           AfterFault(i) /\ (\A k \in 0..(Hold + MaxLate) : Good(i + k))
                             => events.rto # None /\ fault + events.rto <= ticks[i].wall
    BY DEF RecoveryIsTrue
  <2> DEFINE n == Len(ticks)
             base == LastOf(Before(Live, fault))
  <2>1. fault # None /\ events.rto = RtoOf(Live, fault)
    BY DEF Analysed, IInv, EventsInv
  <2>2. /\ Series(Live, n) /\ Positions = 1..n /\ DOMAIN ticks = Positions
        /\ fault \in Nat /\ start \in Nat
        /\ \A j \in Positions : /\ Live[j].t = ticks[j].wall /\ ticks[j].wall \in Nat /\ j \in Nat
                                /\ start + j <= ticks[j].wall
    BY <2>1, TickFacts, LiveIsSeries DEF IInv
  <2>3. base \in SUBSET (1..n) /\ base # {} /\ \A i \in base : Live[i].v = Steady
    BY <2>1, <2>2, LiveBaseline
  <2>4. base = LastOf(Before(Live, fault))
    OBVIOUS
  <2> HIDE DEF base
  <2>5. Sum(Live, base) # 0
    BY <2>2, <2>3, BaselineCounts
  <2>6. /\ RtoOf(Live, fault) # None =>
             \E i \in 1..n : /\ StartsHold(Live, n, fault, base, i)
                             /\ RtoOf(Live, fault) = Live[i].t - fault
                             /\ \A k \in 1..n : StartsHold(Live, n, fault, base, k) => i <= k
        /\ (\E i \in 1..n : StartsHold(Live, n, fault, base, i)) => RtoOf(Live, fault) # None
    BY <2>2, <2>4, <2>5, RtoIsFirstHold
  <2>7. ASSUME events.rto # None
        PROVE  \E i \in DOMAIN ticks : /\ ticks[i].wall = fault + events.rto
                                       /\ \A k \in 0..(Hold - MaxLate - 1) : Good(i + k)
    <3>1. PICK i \in 1..n : /\ StartsHold(Live, n, fault, base, i)
                            /\ RtoOf(Live, fault) = Live[i].t - fault
      BY <2>1, <2>6, <2>7
    <3>2. \A k \in 0..(Hold - MaxLate - 1) : Good(i + k)
      BY <2>1, <2>2, <2>4, <3>1, LiveHold
    <3>3. ticks[i].wall = fault + events.rto
      BY <2>1, <2>2, <3>1
    <3> QED
      BY <2>2, <3>2, <3>3
  <2>8. ASSUME NEW i \in DOMAIN ticks, AfterFault(i), \A k \in 0..(Hold + MaxLate) : Good(i + k)
        PROVE  events.rto # None /\ fault + events.rto <= ticks[i].wall
    <3>1. ticks[i].wall >= fault
      BY <2>2, <2>8 DEF AfterFault
    <3>2. StartsHold(Live, n, fault, base, i)
      BY <2>1, <2>2, <2>4, <2>8, <3>1, LiveHold
    <3>3. PICK k \in 1..n : k <= i /\ RtoOf(Live, fault) = Live[k].t - fault
      BY <2>2, <2>6, <3>2
    <3>4. ticks[k].wall <= ticks[i].wall
      BY <2>2, <3>3 DEF IInv, TicksInv
    <3> QED
      BY <2>1, <2>2, <2>6, <3>2, <3>3, <3>4
  <2> QED
    BY <2>7, <2>8
<1> QED
  BY <1>1, Invariance, PTL

-----------------------------------------------------------------------------
(* The bounded alignment.                                                  *)

LEMMA PairMinMax ==
  ASSUME NEW a \in Int, NEW b \in Int
  PROVE  /\ Max({a, b}) \in {a, b} /\ Max({a, b}) >= a /\ Max({a, b}) >= b
         /\ Min({a, b}) \in {a, b} /\ Min({a, b}) <= a /\ Min({a, b}) <= b
<1>1. \E m \in {a, b} : \A x \in {a, b} : m >= x
  <2>1. a >= b \/ b >= a
    OBVIOUS
  <2> QED
    BY <2>1
<1>2. Max({a, b}) \in {a, b} /\ \A x \in {a, b} : Max({a, b}) >= x
  BY <1>1, Zenon DEF Max
<1>3. \E m \in {a, b} : \A x \in {a, b} : m <= x
  <2>1. a <= b \/ b <= a
    OBVIOUS
  <2> QED
    BY <2>1
<1>4. Min({a, b}) \in {a, b} /\ \A x \in {a, b} : Min({a, b}) <= x
  BY <1>3, Zenon DEF Min
<1> QED
  BY <1>2, <1>4

(* The later point is the fault on the harness's clock, and the generator  *)
(* did not start later than the earlier one allows.                        *)
Slack == Max({0, events.envelope - Len(ticks)})

LEMMA BoundedPoints ==
  ASSUME IInv, Analysed
  PROVE  /\ Slack \in Nat /\ start <= Slack /\ Max(Offsets("bounded")) = Slack
         /\ FaultPoints("bounded") = {fault, fault - Slack}
         /\ JudgedFrom("bounded") = fault
<1> DEFINE n == Len(ticks)
<1>1. /\ fault # None /\ n \in Nat /\ fault \in Nat /\ start \in Nat /\ now \in Nat /\ Positions = 1..n
      /\ 1 \in Positions
      /\ \A i \in Positions : ticks[i].wall \in Nat /\ ticks[i].wall <= now /\ start + i <= ticks[i].wall
  BY TickFacts DEF Analysed
<1>2. events.envelope \in Nat /\ events.envelope >= now
  BY DEF Analysed, IInv, EventsInv, TypesInv
<1>3. n \in Positions
  BY <1>1
<1>4. start + n <= events.envelope
  BY <1>1, <1>2, <1>3
<1>5. events.envelope - n \in Int
  BY <1>1, <1>2
<1>6. Slack \in {0, events.envelope - n} /\ Slack >= 0 /\ Slack >= events.envelope - n
  <2>1. 0 \in Int
    OBVIOUS
  <2> QED
    BY <1>5, <2>1, PairMinMax, Zenon DEF Slack
<1>7. Slack \in Nat /\ start <= Slack
  BY <1>1, <1>2, <1>4, <1>5, <1>6
<1>8. Offsets("bounded") = {0, Slack}
  BY DEF Offsets, Slack
<1> HIDE DEF Slack
<1>9. Max(Offsets("bounded")) = Slack
  <2>1. Max({0, Slack}) \in {0, Slack} /\ Max({0, Slack}) >= 0 /\ Max({0, Slack}) >= Slack
    <3>1. 0 \in Int /\ Slack \in Int
      BY <1>7
    <3> QED
      BY <3>1, PairMinMax, Zenon
  <2> QED
    BY <1>7, <1>8, <2>1
<1>10. FaultPoints("bounded") = {fault, fault - Slack}
  <2>1. fault - 0 = fault
    BY <1>1
  <2> QED
    BY <1>8, <2>1 DEF FaultPoints
<1>11. JudgedFrom("bounded") = fault
  <2>1. fault \in Int /\ fault - Slack \in Int /\ fault - Slack <= fault
    BY <1>1, <1>7
  <2>2. /\ Max({fault, fault - Slack}) \in {fault, fault - Slack}
        /\ Max({fault, fault - Slack}) >= fault
    BY <2>1, PairMinMax, Zenon
  <2>3. Max({fault, fault - Slack}) = fault
    <3> DEFINE m == Max({fault, fault - Slack})
    <3>1. m \in {fault, fault - Slack} /\ m >= fault
      BY <2>2
    <3> HIDE DEF m
    <3> QED
      BY <2>1, <3>1 DEF m
  <2> QED
    BY <1>10, <2>3, Zenon DEF JudgedFrom
<1> QED
  BY <1>7, <1>9, <1>10, <1>11

LEMMA MeasuredPoint ==
  ASSUME IInv, Analysed
  PROVE  FaultPoints("measured") = {fault} /\ JudgedFrom("measured") = fault
<1>1. fault \in Nat
  BY TickFacts DEF Analysed
<1>2. FaultPoints("measured") = {fault}
  BY <1>1 DEF FaultPoints, Offsets
<1>3. Max({fault}) = fault
  <2>1. Max({fault, fault}) \in {fault, fault}
    BY <1>1, PairMinMax
  <2>2. {fault, fault} = {fault}
    OBVIOUS
  <2> QED
    BY <2>1, <2>2
<1> QED
  BY <1>2, <1>3 DEF JudgedFrom

(* The settled state begins after the settling time, on any alignment.     *)
THEOREM SettledAfterFault == Spec => []SettledIsPostFault
<1>1. IInv => SettledIsPostFault
  <2> SUFFICES ASSUME IInv, Analysed, NEW method \in Methods, NEW i \in DOMAIN ticks,
                      Axis(method, i) >= JudgedFrom(method) + Settle
               PROVE  ticks[i].wall >= fault + Settle
    BY DEF SettledIsPostFault
  <2>1. /\ fault # None /\ DOMAIN ticks = Positions /\ fault \in Nat /\ start \in Nat /\ Settle \in Nat
        /\ ticks[i].wall \in Nat /\ start + i <= ticks[i].wall /\ i \in Nat
    BY TickFacts DEF Analysed
  <2>2. CASE method = "measured"
    BY <2>1, <2>2, MeasuredPoint DEF Axis
  <2>3. CASE method = "bounded"
    <3>1. i >= fault + Settle
      BY <2>3, BoundedPoints DEF Axis
    <3> QED
      BY <2>1, <3>1
  <2> QED
    BY <2>2, <2>3 DEF Methods
<1> QED
  BY <1>1, Invariance, PTL

(* On the generator's axis an interval is as late as its number.           *)
LEMMA BoundedSeries ==
  ASSUME IInv, fault # None
  PROVE  LET s == Throughput("bounded")
         IN  /\ Series(s, Len(ticks)) /\ DOMAIN s = Positions
             /\ \A i \in Positions : s[i].t = i /\ s[i].v = ticks[i].tps
<1> DEFINE s == Throughput("bounded")
           n == Len(ticks)
<1>1. /\ n \in Nat /\ DOMAIN ticks = Positions /\ Positions = 1..n
      /\ \A i \in Positions : i \in Nat
  BY TickFacts
<1>2. \A i \in Positions : ticks[i].tps \in Nat
  <2>1. ticks \in Seq(Tick)
    BY DEF IInv, TypesInv
  <2> SUFFICES ASSUME NEW i \in Positions PROVE ticks[i].tps \in Nat
    OBVIOUS
  <2>2. ticks[i] \in Tick
    BY <1>1, <2>1
  <2> QED
    BY <2>2 DEF Tick
<1>3. s = [i \in Positions |-> [t |-> i, v |-> ticks[i].tps]]
  BY <1>1 DEF Throughput, Axis
<1> HIDE DEF s
<1>4. s \in [1..n -> [t : Nat, v : Nat]]
  BY <1>1, <1>2, <1>3
<1>5. s \in Seq([t : Nat, v : Nat]) /\ DOMAIN s = 1..n
  <2> DEFINE V == [t : Nat, v : Nat]
  <2>1. s \in [1..n -> V] /\ n \in Nat
    BY <1>1, <1>4
  <2>2. DOMAIN s = 1..n
    BY <2>1
  <2> HIDE DEF V, n
  <2>3. s \in Seq(V)
    BY <2>1, SeqDef
  <2> QED
    BY <2>2, <2>3 DEF V
<1>6. Len(s) = n
  BY <1>1, <1>5, LenProperties
<1>7. \A i \in Positions : s[i].t = i /\ s[i].v = ticks[i].tps
  BY <1>3
<1>8. \A i, j \in 1..n : i <= j => s[i].t <= s[j].t
  BY <1>1, <1>7
<1>9. Series(s, n) /\ DOMAIN s = Positions
  BY <1>1, <1>4, <1>5, <1>6, <1>8 DEF Series
<1> QED
  BY <1>7, <1>9 DEF s

(* A point of the fault whose baseline has nothing above the steady        *)
(* throughput in it, and an RTO there.                                     *)
LEMMA BoundedHold ==
  ASSUME IInv, fault # None, NEW at \in Int, at <= fault,
         NEW s, s = Throughput("bounded"), RtoOf(s, at) # None,
         \A i \in DOMAIN ticks : i < at => ticks[i].tps <= Steady
  PROVE  \E i \in Positions :
           /\ RtoOf(s, at) = i - at /\ i >= at /\ Len(ticks) - i >= Hold
           /\ \A k \in Positions :
                k >= at /\ Len(ticks) - k >= Hold
                /\ (\A j \in Positions : j >= k /\ j < k + Hold => Good(j)) => i <= k
           /\ at <= fault - start =>
                \A j \in Positions : j >= i /\ j < i + Hold => Good(j)
<1> DEFINE n == Len(ticks)
           base == LastOf(Before(s, at))
<1>1. /\ Series(s, n) /\ DOMAIN s = Positions
      /\ \A i \in Positions : s[i].t = i /\ s[i].v = ticks[i].tps
  BY BoundedSeries
<1>2. /\ n \in Nat /\ Positions = 1..n /\ DOMAIN ticks = Positions /\ start \in Nat /\ fault \in Nat
      /\ Hold \in Nat \ {0}
      /\ \A i \in Positions : i \in Nat /\ (start + i <= fault => ticks[i].tps = Steady)
  BY TickFacts
<1>3. Before(s, at) \in SUBSET Positions /\ \A i \in Before(s, at) : i < at
  BY <1>1 DEF Before
<1>4. base \in SUBSET Before(s, at)
  BY <1>2, <1>3, LastOfIs
<1>5. base = LastOf(Before(s, at))
  OBVIOUS
<1> HIDE DEF base
<1>6. /\ Sum(s, base) # 0
      /\ \E i \in 1..n : /\ StartsHold(s, n, at, base, i)
                         /\ RtoOf(s, at) = s[i].t - at
                         /\ \A k \in 1..n : StartsHold(s, n, at, base, k) => i <= k
  BY <1>1, <1>5, RtoIsFirstHold
<1>7. base \in SUBSET (1..n)
  BY <1>2, <1>3, <1>4
<1>8. base # {} /\ \A i \in base : s[i].v <= Steady
  <2>1. base # {}
    BY <1>1, <1>6, <1>7, BaselineCounts
  <2>2. ASSUME NEW i \in base PROVE s[i].v <= Steady
    <3>1. i \in Positions /\ i < at
      BY <1>2, <1>3, <1>4
    <3> QED
      BY <1>1, <1>2, <3>1
  <2> QED
    BY <2>1, <2>2
<1>9. /\ \A j \in Positions : Good(j) => j \in Clear(s, base)
      /\ (\A i \in base : s[i].v = Steady) => \A j \in Positions : j \in Clear(s, base) => Good(j)
  <2>1. /\ \A j \in 1..n : GoodTps(s[j].v) => j \in Clear(s, base)
        /\ (\A i \in base : s[i].v = Steady) => \A j \in 1..n : j \in Clear(s, base) => GoodTps(s[j].v)
    BY <1>1, <1>7, <1>8, ClearIsGood
  <2>2. \A j \in Positions : GoodTps(s[j].v) <=> Good(j)
    BY <1>1, <1>2 DEF GoodTps, Good
  <2> QED
    BY <1>2, <2>1, <2>2
<1>10. PICK i \in 1..n : /\ StartsHold(s, n, at, base, i)
                         /\ RtoOf(s, at) = s[i].t - at
                         /\ \A k \in 1..n : StartsHold(s, n, at, base, k) => i <= k
  BY <1>6
<1>11. n \in Positions
  BY <1>2, <1>10
<1>12. /\ i \in Positions /\ RtoOf(s, at) = i - at /\ i >= at /\ n - i >= Hold
       /\ \A j \in Positions : j >= i /\ j < i + Hold => j \in Clear(s, base)
  BY <1>1, <1>2, <1>10, <1>11 DEF StartsHold
<1>13. ASSUME NEW k \in Positions, k >= at, n - k >= Hold,
              \A j \in Positions : j >= k /\ j < k + Hold => Good(j)
       PROVE  i <= k
  <2>1. StartsHold(s, n, at, base, k)
    BY <1>1, <1>2, <1>9, <1>11, <1>13 DEF StartsHold
  <2> QED
    BY <1>2, <1>10, <2>1
<1>14. ASSUME at <= fault - start
       PROVE  \A j \in Positions : j >= i /\ j < i + Hold => Good(j)
  <2>1. ASSUME NEW b \in base PROVE s[b].v = Steady
    <3>1. b \in Positions /\ b < at
      BY <1>3, <1>4
    <3>2. start + b <= fault
      BY <1>2, <1>14, <3>1
    <3> QED
      BY <1>1, <1>2, <3>1, <3>2
  <2> QED
    BY <1>9, <1>12, <2>1
<1> QED
  BY <1>12, <1>13, <1>14

(* A bounded alignment holds what the measured one would say: of every     *)
(* interval, and of the RTO after a clean dip.                             *)
THEOREM BoundsTruth == Spec => []BoundsHoldTruth
<1>1. IInv => BoundsHoldTruth
  <2> SUFFICES ASSUME IInv, Analysed
               PROVE  /\ \A i \in DOMAIN ticks :
                           LET S == SinceFault("bounded", i)
                           IN  Min(S) <= i - FaultInterval /\ i - FaultInterval <= Max(S)
                      /\ Defined("bounded") /\ TrueRto # None /\ CleanDip(Max(Offsets("bounded")))
                           => Min(Rtos("bounded")) <= TrueRto /\ TrueRto <= Max(Rtos("bounded"))
    BY DEF BoundsHoldTruth
  <2> DEFINE s == Throughput("bounded")
             n == Len(ticks)
             early == fault - Slack
  <2>1. /\ Slack \in Nat /\ start <= Slack /\ Max(Offsets("bounded")) = Slack
        /\ FaultPoints("bounded") = {fault, fault - Slack}
    BY BoundedPoints
  <2>2. /\ fault # None /\ fault \in Nat /\ start \in Nat /\ n \in Nat /\ Positions = 1..n
        /\ DOMAIN ticks = Positions /\ Hold \in Nat \ {0}
        /\ \A i \in Positions : i \in Nat /\ (start + i <= fault => ticks[i].tps = Steady)
    BY TickFacts DEF Analysed
  <2>3. FaultInterval = fault - start /\ FaultInterval \in Int /\ early \in Int
        /\ early <= FaultInterval /\ FaultInterval <= fault
    BY <2>1, <2>2 DEF FaultInterval
  <2> HIDE DEF Slack
  <2>4. ASSUME NEW i \in DOMAIN ticks
        PROVE  LET S == SinceFault("bounded", i)
               IN  Min(S) <= i - FaultInterval /\ i - FaultInterval <= Max(S)
    <3> DEFINE a == i - fault
               b == i - early
    <3>1. a \in Int /\ b \in Int /\ a <= i - FaultInterval /\ i - FaultInterval <= b
          /\ i - FaultInterval \in Int
      BY <2>2, <2>3
    <3>2. SinceFault("bounded", i) = {a, b}
      BY <2>1 DEF SinceFault, Axis
    <3> HIDE DEF a, b
    <3>3. Max({a, b}) \in {a, b} /\ Max({a, b}) >= b /\ Min({a, b}) \in {a, b} /\ Min({a, b}) <= a
      BY <3>1, PairMinMax, Zenon
    <3> DEFINE hi == Max({a, b})
               lo == Min({a, b})
    <3>4. hi \in Int /\ lo \in Int /\ hi >= b /\ lo <= a
      BY <3>1, <3>3
    <3> HIDE DEF hi, lo
    <3>5. lo <= i - FaultInterval /\ i - FaultInterval <= hi
      BY <3>1, <3>4
    <3> QED
      BY <3>2, <3>5 DEF hi, lo
  <2>5. ASSUME Defined("bounded"), TrueRto # None, CleanDip(Slack)
        PROVE  Min(Rtos("bounded")) <= TrueRto /\ TrueRto <= Max(Rtos("bounded"))
    <3> DEFINE a == RtoOf(s, fault)
               b == RtoOf(s, early)
    <3>1. Rtos("bounded") = {a, b} /\ a # None /\ b # None
      <4>1. Rtos("bounded") = {a, b}
        BY <2>1 DEF Rtos
      <4> HIDE DEF a, b
      <4> QED
        BY <2>5, <4>1 DEF Defined
    <3>2. TrueRto = RtoOf(s, FaultInterval) /\ TrueRto \in Int
      <4>1. TrueRto = RtoOf(s, FaultInterval)
        BY DEF TrueRto
      <4>2. TrueRto \in Nat \cup {None}
        BY <2>2, <2>3, <4>1, BoundedSeries, RtoType
      <4> QED
        BY <4>1, <4>2 DEF None
    <3>3. \A i \in DOMAIN ticks : i < fault => ticks[i].tps <= Steady
      BY <2>5 DEF CleanDip
    <3>4. PICK d \in Positions : FaultInterval <= d /\ d < FaultInterval + Hold - Slack /\ ~Good(d)
      BY <2>2, <2>5 DEF CleanDip
    <3>5. \A i \in Positions : i >= FaultInterval + TrueRto => Good(i)
      BY <2>2, <2>5 DEF CleanDip
    <3>6. PICK t \in Positions :
            /\ TrueRto = t - FaultInterval /\ t >= FaultInterval /\ n - t >= Hold
            /\ \A k \in Positions :
                 k >= FaultInterval /\ n - k >= Hold
                 /\ (\A j \in Positions : j >= k /\ j < k + Hold => Good(j)) => t <= k
            /\ \A j \in Positions : j >= t /\ j < t + Hold => Good(j)
      <4>1. \A i \in DOMAIN ticks : i < FaultInterval => ticks[i].tps <= Steady
        BY <2>2, <2>3, <3>3
      <4>2. RtoOf(s, FaultInterval) # None
        BY <2>5, <3>2
      <4> HIDE DEF s
      <4>3. s = Throughput("bounded")
        BY DEF s
      <4>4. \E i \in Positions :
             /\ RtoOf(s, FaultInterval) = i - FaultInterval /\ i >= FaultInterval /\ Len(ticks) - i >= Hold
             /\ \A k \in Positions :
                  k >= FaultInterval /\ Len(ticks) - k >= Hold
                  /\ (\A j \in Positions : j >= k /\ j < k + Hold => Good(j)) => i <= k
             /\ FaultInterval <= fault - start =>
                  \A j \in Positions : j >= i /\ j < i + Hold => Good(j)
        <5>1. IInv /\ fault # None /\ FaultInterval \in Int /\ FaultInterval <= fault
          BY <2>2, <2>3
        <5> QED
          BY <4>1, <4>2, <4>3, <5>1, BoundedHold
      <4>5. FaultInterval <= fault - start
        BY <2>2, <2>3
      <4> QED
        BY <3>2, <4>4, <4>5, Zenon
    <3>7. PICK e \in Positions :
            /\ b = e - early /\ e >= early
            /\ \A k \in Positions :
                 k >= early /\ n - k >= Hold
                 /\ (\A j \in Positions : j >= k /\ j < k + Hold => Good(j)) => e <= k
            /\ n - e >= Hold
            /\ \A j \in Positions : j >= e /\ j < e + Hold => Good(j)
      <4>1. \A i \in DOMAIN ticks : i < early => ticks[i].tps <= Steady
        BY <2>2, <2>3, <3>3
      <4>2. early <= fault /\ early <= fault - start
        BY <2>2, <2>3
      <4> HIDE DEF s, early
      <4>3. s = Throughput("bounded")
        BY DEF s
      <4>4. RtoOf(s, early) # None
        BY <3>1
      <4>5. \E i \in Positions :
             /\ RtoOf(s, early) = i - early /\ i >= early /\ Len(ticks) - i >= Hold
             /\ \A k \in Positions :
                  k >= early /\ Len(ticks) - k >= Hold
                  /\ (\A j \in Positions : j >= k /\ j < k + Hold => Good(j)) => i <= k
             /\ early <= fault - start =>
                  \A j \in Positions : j >= i /\ j < i + Hold => Good(j)
        <5>1. IInv /\ fault # None /\ early \in Int /\ early <= fault
          BY <2>2, <2>3, <4>2
        <5> QED
          BY <4>1, <4>3, <4>4, <5>1, BoundedHold
      <4> QED
        BY <4>2, <4>5, Zenon
    <3>8. PICK l \in Positions :
            /\ a = l - fault /\ l >= fault /\ n - l >= Hold
            /\ \A k \in Positions :
                 k >= fault /\ n - k >= Hold
                 /\ (\A j \in Positions : j >= k /\ j < k + Hold => Good(j)) => l <= k
      <4>1. fault \in Int /\ fault <= fault
        BY <2>2
      <4> HIDE DEF s
      <4>2. s = Throughput("bounded")
        BY DEF s
      <4> QED
        BY <2>2, <3>1, <3>3, <4>1, <4>2, BoundedHold
    <3> HIDE DEF a, b, early, s
    <3>9. TrueRto <= b
      <4>1. e >= FaultInterval
        <5> SUFFICES ASSUME ~(e >= FaultInterval) PROVE FALSE
          OBVIOUS
        <5>1. d >= e /\ ~(d < e + Hold)
          BY <2>2, <2>3, <3>4, <3>7
        <5> QED
          BY <2>1, <2>2, <2>3, <3>4, <3>7, <5>1 DEF early
      <4>2. t <= e
        BY <3>6, <3>7, <4>1
      <4> QED
        BY <2>2, <2>3, <3>6, <3>7, <4>2
    <3>10. a <= TrueRto
      <4>1. CASE l <= t
        BY <2>2, <2>3, <3>6, <3>8, <4>1
      <4>2. CASE ~(l <= t) /\ l = fault
        BY <2>2, <2>3, <3>6, <3>8, <4>2
      <4>3. CASE ~(l <= t) /\ l # fault
        <5> DEFINE k == IF t >= fault THEN t ELSE fault
        <5>1. k \in Positions /\ k >= fault /\ n - k >= Hold /\ k >= t /\ k <= l
              /\ (k = t \/ k = fault)
          BY <2>2, <2>3, <3>6, <3>8, <4>3
        <5> HIDE DEF k
        <5>2. \A j \in Positions : j >= k /\ j < k + Hold => Good(j)
          <6> SUFFICES ASSUME NEW j \in Positions, j >= k PROVE Good(j)
            OBVIOUS
          <6>1. j >= FaultInterval + TrueRto
            BY <2>2, <2>3, <3>6, <5>1
          <6> QED
            BY <3>5, <6>1
        <5>3. l <= k
          BY <3>8, <5>1, <5>2
        <5> QED
          BY <2>2, <2>3, <3>6, <3>8, <4>3, <5>1, <5>3
      <4> QED
        BY <4>1, <4>2, <4>3
    <3>11. a \in Int /\ b \in Int
      BY <2>2, <2>3, <3>7, <3>8
    <3>12. /\ Max({a, b}) \in {a, b} /\ Max({a, b}) >= b
           /\ Min({a, b}) \in {a, b} /\ Min({a, b}) <= a
      BY <3>11, PairMinMax, Zenon
    <3> DEFINE hi == Max({a, b})
               lo == Min({a, b})
    <3>13. hi \in Int /\ lo \in Int /\ hi >= b /\ lo <= a
      BY <3>11, <3>12
    <3> HIDE DEF hi, lo
    <3>14. lo <= TrueRto /\ TrueRto <= hi
      BY <3>2, <3>9, <3>10, <3>11, <3>13
    <3> QED
      BY <3>1, <3>14 DEF hi, lo
  <2> QED
    BY <2>1, <2>4, <2>5
<1> QED
  BY <1>1, Invariance, PTL

-----------------------------------------------------------------------------
(* The latency of writes.                                                  *)

LEMMA DistanceScales ==
  ASSUME NEW a \in Nat, NEW b \in Nat, NEW k \in Nat
  PROVE  Distance(a * k, b * k) = Distance(a, b) * k /\ Distance(a, b) \in Nat
<1>1. a * k \in Nat /\ b * k \in Nat
  OBVIOUS
<1>2. CASE a > b
  <2>1. PICK d \in Nat : a = b + d
    <3>1. a - b \in Nat /\ a = b + (a - b)
      BY <1>2
    <3> QED
      BY <3>1
  <2>2. a * k = b * k + d * k /\ d * k \in Nat
    BY <2>1
  <2>3. Distance(a, b) = d
    BY <1>2, <2>1 DEF Distance
  <2>4. Distance(a * k, b * k) = d * k
    BY <1>1, <2>2 DEF Distance
  <2> QED
    BY <2>3, <2>4
<1>3. CASE ~(a > b)
  <2>1. PICK d \in Nat : b = a + d
    <3>1. b - a \in Nat /\ b = a + (b - a)
      BY <1>3
    <3> QED
      BY <3>1
  <2>2. b * k = a * k + d * k /\ d * k \in Nat
    BY <2>1
  <2>3. Distance(a, b) = d
    BY <1>3, <2>1 DEF Distance
  <2>4. Distance(a * k, b * k) = d * k
    BY <1>1, <2>2 DEF Distance
  <2> QED
    BY <2>3, <2>4
<1> QED
  BY <1>2, <1>3

(* A shift of the means is a shift of what they are means of.              *)
LEMMA ShiftScales ==
  ASSUME NEW a \in Nat, NEW b \in Nat, NEW w \in Nat \ {0}, NEW m \in Nat \ {0}
  PROVE  Distance((a * w) * m, (b * m) * w) * ShDen > ShNum * (b * m) * w
           <=> Distance(a, b) * ShDen > ShNum * b
<1>1. ShNum \in Nat /\ ShDen \in Nat
  BY Sizes
<1>2. PICK k \in Nat : k = w * m /\ k # 0
  <2>1. \A x, y \in Nat \ {0} : x * y \in Nat /\ x * y # 0
    OBVIOUS
  <2> QED
    BY <2>1
<1>3. (a * w) * m = a * k /\ (b * m) * w = b * k /\ ShNum * (b * m) * w = (ShNum * b) * k
  BY <1>1, <1>2
<1>4. Distance(a * k, b * k) = Distance(a, b) * k /\ Distance(a, b) \in Nat
  BY DistanceScales
<1>5. PICK d \in Nat : d = Distance(a, b)
  BY <1>4
<1>6. (d * k) * ShDen = (d * ShDen) * k /\ d * ShDen \in Nat /\ ShNum * b \in Nat
  BY <1>1
<1>7. (ShNum * b) * k >= (d * ShDen) * k <=> ShNum * b >= d * ShDen
  BY <1>2, <1>6, Scaled
<1>8. (ShNum * b) * k \in Nat /\ (d * ShDen) * k \in Nat
  BY <1>6
<1>9. (d * ShDen) * k > (ShNum * b) * k <=> d * ShDen > ShNum * b
  BY <1>6, <1>7, <1>8
<1> QED
  BY <1>3, <1>4, <1>5, <1>6, <1>9

(* With the offset measured, a shift of the latency is seen, and only one. *)
THEOREM ShiftSeen == Spec => []ShiftIsSeen
<1>1. IInv => ShiftIsSeen
  <2> SUFFICES ASSUME IInv, Analysed
               PROVE  LatencyClass("measured") \in
                        {"unavailable", "unsettled_within_run",
                         IF Distance(p50, BaseP50) * ShDen > ShNum * BaseP50
                         THEN "structural_latency_shift" ELSE "returned_to_baseline"}
    BY DEF ShiftIsSeen
  <2> DEFINE s == Latency("measured")
             n == Len(ticks)
             w == Window("measured", s)
             base == WriteBaseline("measured")
  <2>1. /\ fault # None /\ n \in Nat /\ Positions = 1..n /\ DOMAIN ticks = Positions
        /\ fault \in Nat /\ start \in Nat /\ Settle \in Nat /\ MaxLate \in Nat /\ MaxLate < Settle
        /\ \A i \in Positions :
             /\ i \in Nat /\ ticks[i].wall \in Nat
             /\ start + i <= ticks[i].wall /\ ticks[i].wall <= start + i + MaxLate
             /\ start + i <= fault => ticks[i].p50 = BaseP50
             /\ start + i > fault => ticks[i].p50 = p50
    BY TickFacts DEF Analysed
  <2>2. BaseP50 \in Nat /\ p50 \in Nat
    BY RecoveryAssumption DEF IInv, TypesInv
  <2>3. JudgedFrom("measured") = fault
    BY MeasuredPoint
  <2>4. s = [i \in Positions |-> [t |-> ticks[i].wall, v |-> ticks[i].p50]]
    BY <2>1 DEF Latency, Axis
  <2>5. \A i \in Positions : s[i].t = ticks[i].wall /\ s[i].v = ticks[i].p50
    BY <2>4
  <2>6. DOMAIN s = Positions
    BY <2>4
  <2>7. Series(s, n)
    <3> HIDE DEF s
    <3>1. s \in [1..n -> [t : Nat, v : Nat]]
      <4>1. \A i \in Positions : ticks[i].p50 \in Nat
        BY <2>1, <2>2
      <4> QED
        BY <2>1, <2>4, <4>1
    <3>2. Len(s) = n
      <4> DEFINE V == [t : Nat, v : Nat]
      <4>1. s \in [1..n -> V] /\ DOMAIN s = 1..n
        BY <2>1, <2>6, <3>1
      <4> HIDE DEF V, n
      <4>2. s \in Seq(V)
        BY <2>1, <4>1, SeqDef
      <4> QED
        BY <2>1, <4>1, <4>2, LenProperties
    <3>3. \A i, j \in 1..n : i <= j => s[i].t <= s[j].t
      BY <2>1, <2>5 DEF IInv, TicksInv
    <3> QED
      BY <2>1, <3>1, <3>2, <3>3 DEF Series
  <2> HIDE DEF s
  <2>8. w \in SUBSET (1..n) /\ \A i \in w : s[i].v = p50
    <3>1. w = {i \in Positions : ticks[i].wall >= fault + Settle}
      BY <2>3, <2>5, <2>6 DEF Window, From
    <3>2. ASSUME NEW i \in Positions, ticks[i].wall >= fault + Settle PROVE start + i > fault
      BY <2>1, <3>2
    <3> HIDE DEF w
    <3> QED
      BY <2>1, <2>5, <3>1, <3>2
  <2>9. base \in SUBSET (1..n) /\ \A i \in base : s[i].v = BaseP50
    <3> DEFINE pre == {i \in Positions : ticks[i].wall < fault}
    <3>1. base = LastOf(pre)
      <4>1. Before(s, fault) = pre
        BY <2>5, <2>6 DEF Before
      <4> QED
        BY <2>3, <4>1 DEF WriteBaseline, s
    <3>2. ASSUME NEW i \in pre PROVE start + i <= fault
      BY <2>1
    <3> HIDE DEF base
    <3>3. base \in SUBSET pre
      BY <2>1, <3>1, LastOfIs
    <3> QED
      BY <2>1, <2>5, <3>2, <3>3
  <2> DEFINE cw == Cardinality(w)
             cb == Cardinality(base)
  <2>10. LatencyClass("measured") =
           IF base = {} \/ cw < 3 THEN "unavailable"
           ELSE IF ~IsSettled(s, w) THEN "unsettled_within_run"
           ELSE IF Distance(Sum(s, w) * cb, Sum(s, base) * cw) * ShDen > ShNum * Sum(s, base) * cw
             THEN "structural_latency_shift"
           ELSE "returned_to_baseline"
    BY DEF LatencyClass, s
  <2> HIDE DEF w, base
  <2>11. Sum(s, w) = p50 * cw /\ cw \in Nat /\ IsFiniteSet(w)
    BY <2>2, <2>7, <2>8, SumIs
  <2>12. Sum(s, base) = BaseP50 * cb /\ cb \in Nat /\ IsFiniteSet(base)
    BY <2>2, <2>7, <2>9, SumIs
  <2>13. base # {} => cb # 0
    BY <2>12, FS_EmptySet
  <2> HIDE DEF cw, cb
  <2>14. ASSUME base # {}, ~(cw < 3)
         PROVE  Distance(Sum(s, w) * cb, Sum(s, base) * cw) * ShDen > ShNum * Sum(s, base) * cw
                  <=> Distance(p50, BaseP50) * ShDen > ShNum * BaseP50
    <3>1. cw \in Nat \ {0} /\ cb \in Nat \ {0}
      BY <2>11, <2>12, <2>13, <2>14
    <3>2. Distance((p50 * cw) * cb, (BaseP50 * cb) * cw) * ShDen > ShNum * (BaseP50 * cb) * cw
            <=> Distance(p50, BaseP50) * ShDen > ShNum * BaseP50
      BY <2>2, <3>1, ShiftScales
    <3> QED
      BY <2>11, <2>12, <3>2
  <2> QED
    BY <2>10, <2>14
<1> QED
  BY <1>1, Invariance, PTL

-----------------------------------------------------------------------------
(* Runs without an RTO.                                                    *)

(* The floor is of the steady throughput: the earliest point of the fault  *)
(* leaves no interval before it that ended after the fault.                *)
LEMMA FloorIsSteady ==
  ASSUME IInv, Analysed, NEW method \in Methods
  PROVE  LET s == Throughput(method)
             base == FloorBaseline(method)
         IN  /\ Series(s, Len(ticks)) /\ DOMAIN s = 1..Len(ticks)
             /\ base \in SUBSET (1..Len(ticks)) /\ \A i \in base : s[i].v = Steady
<1> DEFINE s == Throughput(method)
           n == Len(ticks)
           first == Min(FaultPoints(method))
           pre == Before(s, first)
<1>1. /\ fault # None /\ n \in Nat /\ Positions = 1..n /\ DOMAIN ticks = Positions
      /\ fault \in Nat /\ start \in Nat
      /\ \A i \in Positions :
           /\ i \in Nat /\ ticks[i].wall \in Nat /\ start + i <= ticks[i].wall
           /\ start + i <= fault => ticks[i].tps = Steady
  BY TickFacts DEF Analysed
<1>2. /\ Series(s, n) /\ DOMAIN s = Positions
      /\ \A i \in Positions : s[i].v = ticks[i].tps
      /\ \A i \in Positions : s[i].t < first => start + i <= fault
  <2>1. CASE method = "measured"
    <3>1. s = Live
      BY <2>1 DEF Throughput, Axis, Live, OnWall
    <3>2. first = fault
      <4>1. Min({fault, fault}) \in {fault, fault}
        <5>1. fault \in Int
          BY <1>1
        <5> QED
          BY <5>1, PairMinMax, Zenon
      <4>2. {fault, fault} = {fault}
        OBVIOUS
      <4> QED
        BY <2>1, <4>1, <4>2, MeasuredPoint
    <3>3. Series(Live, n) /\ \A i \in Positions : Live[i].t = ticks[i].wall /\ Live[i].v = ticks[i].tps
      BY LiveIsSeries DEF IInv
    <3>4. DOMAIN Live = Positions
      BY <1>1 DEF Live
    <3> HIDE DEF s, first
    <3>5. ASSUME NEW i \in Positions, s[i].t < first PROVE start + i <= fault
      BY <1>1, <3>1, <3>2, <3>3, <3>5
    <3> QED
      BY <3>1, <3>3, <3>4, <3>5
  <2>2. CASE method = "bounded"
    <3>1. Series(s, n) /\ DOMAIN s = Positions
          /\ \A i \in Positions : s[i].t = i /\ s[i].v = ticks[i].tps
      BY <1>1, <2>2, BoundedSeries
    <3>2. Slack \in Nat /\ start <= Slack /\ FaultPoints(method) = {fault, fault - Slack}
      BY <2>2, BoundedPoints
    <3>3. first <= fault - Slack /\ first \in Int
      <4>1. fault \in Int /\ fault - Slack \in Int
        BY <1>1, <3>2
      <4>2. /\ Min({fault, fault - Slack}) \in {fault, fault - Slack}
            /\ Min({fault, fault - Slack}) <= fault - Slack
        BY <4>1, PairMinMax, Zenon
      <4> QED
        BY <3>2, <4>1, <4>2
    <3> HIDE DEF s, first
    <3>4. ASSUME NEW i \in Positions, s[i].t < first PROVE start + i <= fault
      <4>1. i \in Nat /\ i < first
        BY <1>1, <3>1, <3>4
      <4> QED
        BY <1>1, <3>2, <3>3, <4>1
    <3> QED
      BY <3>1, <3>4
  <2> QED
    BY <2>1, <2>2 DEF Methods
<1>3. FloorBaseline(method) = LastOf(pre)
  BY DEF FloorBaseline
<1>4. pre \in SUBSET (1..n) /\ \A i \in pre : s[i].t < first
  BY <1>1, <1>2 DEF Before
<1> HIDE DEF s, first, pre
<1>5. LastOf(pre) \in SUBSET pre
  BY <1>1, <1>4, LastOfIs
<1>6. ASSUME NEW i \in LastOf(pre) PROVE s[i].v = Steady
  <2>1. i \in Positions /\ s[i].t < first
    BY <1>1, <1>4, <1>5
  <2> QED
    BY <1>1, <1>2, <2>1
<1>7. LastOf(pre) \in SUBSET (1..n)
  BY <1>4, <1>5
<1> QED
  BY <1>1, <1>2, <1>3, <1>6, <1>7 DEF s

(* What is said of a run without an RTO is true of its settled state.      *)
THEOREM ClassifiedFairly == Spec => []ClassificationIsFair
<1>1. IInv => ClassificationIsFair
  <2> SUFFICES ASSUME IInv, Analysed, NEW method \in Methods,
                      FloorBaseline(method) # {}
               PROVE  Classification(method) \in
                        {"unsettled_within_run",
                         IF Sum(Throughput(method), Window(method, Throughput(method))) * TDen
                              < Steady * TNum * Cardinality(Window(method, Throughput(method)))
                         THEN "degraded_steady_state" ELSE "recovered_without_holding"}
    BY DEF ClassificationIsFair
  <2> DEFINE s == Throughput(method)
             n == Len(ticks)
             w == Window(method, s)
             base == FloorBaseline(method)
             cw == Cardinality(w)
             cb == Cardinality(base)
  <2>1. /\ Series(s, n) /\ DOMAIN s = 1..n
        /\ base \in SUBSET (1..n) /\ \A i \in base : s[i].v = Steady
    BY FloorIsSteady
  <2>2. w \in SUBSET (1..n)
    BY <2>1 DEF Window, From
  <2>3. Classification(method) =
          IF ~Settled(method, s) THEN "unsettled_within_run"
          ELSE IF Sum(s, w) * cb * TDen < Sum(s, base) * TNum * cw
            THEN "degraded_steady_state"
          ELSE "recovered_without_holding"
    BY DEF Classification
  <2>4. base # {}
    OBVIOUS
  <2>5. Steady \in Nat /\ TNum \in Nat /\ TDen \in Nat
    BY Sizes
  <2> HIDE DEF w, base
  <2>6. Sum(s, base) = Steady * cb /\ cb \in Nat /\ IsFiniteSet(base)
    BY <2>1, <2>5, SumIs
  <2>7. Sum(s, w) \in Nat /\ cw \in Nat
    BY <2>1, <2>2, <2>5, SumIs
  <2>8. cb \in Nat \ {0}
    BY <2>4, <2>6, FS_EmptySet
  <2> DEFINE total == Sum(s, w)
  <2>9. total \in Nat
    BY <2>7
  <2> HIDE DEF total, cw, cb
  <2>10. total * cb * TDen < (Steady * cb) * TNum * cw <=> total * TDen < Steady * TNum * cw
    <3>1. total * TDen \in Nat /\ Steady * TNum * cw \in Nat
      BY <2>5, <2>7, <2>9
    <3>2. (total * TDen) * cb >= (Steady * TNum * cw) * cb <=> total * TDen >= Steady * TNum * cw
      BY <2>8, <3>1, Scaled
    <3>3. /\ (total * TDen) * cb = total * cb * TDen
          /\ (Steady * TNum * cw) * cb = (Steady * cb) * TNum * cw
      BY <2>5, <2>7, <2>8, <2>9
    <3>4. (total * TDen) * cb \in Nat /\ (Steady * TNum * cw) * cb \in Nat
      BY <2>8, <3>1
    <3> QED
      BY <3>1, <3>2, <3>3, <3>4
  <2>11. Sum(s, w) * cb * TDen < Sum(s, base) * TNum * cw
           <=> Sum(s, w) * TDen < Steady * TNum * cw
    BY <2>6, <2>10 DEF total
  <2> QED
    BY <2>3, <2>11 DEF w, cw
<1> QED
  BY <1>1, Invariance, PTL
=============================================================================
