-------------------------- MODULE RtoMeasureProofs --------------------------
(***************************************************************************)
(* Proofs about the outage measurement for series of any length, any       *)
(* number of outages, any quantile and any slack: the floor stays what the *)
(* healthy cadence made it, an outage above it is found by both            *)
(* instruments, they agree, and none is passed over in silence.            *)
(***************************************************************************)
EXTENDS RtoMeasure, FiniteSetTheorems, WellFoundedInduction, TLAPS

-----------------------------------------------------------------------------
(* Facts about numbers and finite sets.                                    *)

LEMMA SmallestExists ==
  ASSUME NEW S \in SUBSET Nat, S # {}
  PROVE  \E m \in S : \A x \in S : m <= x
<1> DEFINE R == OpToRel(<, Nat)
<1>1. IsWellFoundedOn(R, Nat)
  BY NatLessThanWellFounded, Zenon
<1>2. \A x, m \in Nat : x < m => <<x, m>> \in R
  BY Zenon DEF OpToRel
<1> HIDE DEF R
<1>3. PICK m \in S : \A x \in S : <<x, m>> \notin R
  BY <1>1, WFMin
<1>4. \A x \in S : ~(x < m)
  BY <1>2, <1>3
<1> QED
  BY <1>4

LEMMA LargestExists ==
  ASSUME NEW S \in SUBSET Nat, S # {}, NEW b \in Nat, \A x \in S : x <= b
  PROVE  \E m \in S : \A x \in S : x <= m
<1> DEFINE D == {b - x : x \in S}
<1>1. D \in SUBSET Nat /\ D # {}
  <2>1. \A x \in S : b - x \in Nat
    OBVIOUS
  <2> QED
    BY <2>1
<1>2. PICK d \in D : \A x \in D : d <= x
  <2> HIDE DEF D
  <2> QED
    BY <1>1, SmallestExists
<1>3. PICK m \in S : d = b - m
  BY <1>2
<1>4. \A x \in S : b - m <= b - x
  BY <1>2, <1>3
<1> QED
  BY <1>3, <1>4

LEMMA MinIs ==
  ASSUME NEW S \in SUBSET Nat, S # {}
  PROVE  Min(S) \in S /\ \A x \in S : Min(S) <= x
<1>1. \E m \in S : \A x \in S : m <= x
  BY SmallestExists
<1> QED
  BY <1>1, Zenon DEF Min

LEMMA MaxIs ==
  ASSUME NEW S \in SUBSET Nat, S # {}, NEW b \in Nat, \A x \in S : x <= b
  PROVE  Max(S) \in S /\ \A x \in S : x <= Max(S)
<1>1. \E m \in S : \A x \in S : m >= x
  BY LargestExists
<1>2. Max(S) \in S /\ \A x \in S : Max(S) >= x
  BY <1>1, Zenon DEF Max
<1> QED
  BY <1>2

-----------------------------------------------------------------------------
(* The inductive invariant: an outage lies after the fault, and no write   *)
(* was served while it lasted.                                             *)

TypesInv ==
  /\ now \in 0 .. MaxTime /\ downFrom \in 0 .. now /\ fault \in -1 .. now
  /\ up \in BOOLEAN
  /\ outages \subseteq [from : 0 .. now, to : 0 .. now]
  /\ attempts \subseteq [at : 0 .. now, served : BOOLEAN]

FirstInv == [at |-> 0, served |-> TRUE] \in attempts

OutageInv ==
  /\ \A o \in outages : fault # -1 /\ fault <= o.from /\ o.from <= o.to
                        /\ \A t \in Served : t <= o.from \/ t > o.to
  /\ ~up => fault # -1 /\ fault <= downFrom /\ \A t \in Served : t <= downFrom

IInv == TypesInv /\ FirstInv /\ OutageInv

LEMMA ServedType ==
  ASSUME TypesInv
  PROVE  Served \in SUBSET Nat /\ (\A t \in Served : t <= now) /\ now \in Nat /\ MaxTime \in Nat
<1>1. now \in Nat /\ MaxTime \in Nat
  BY TimeAssumption DEF TypesInv
<1>2. \A a \in attempts : a.at \in 0..now
  BY DEF TypesInv
<1> QED
  BY <1>1, <1>2 DEF Served

LEMMA ServedNext ==
  ASSUME TypesInv, Observe
  PROVE  Served' = Served \/ (up /\ Served' = Served \cup {now + 1})
<1>1. CASE up /\ attempts' = attempts \cup {[at |-> now + 1, served |-> TRUE]}
  <2> DEFINE new == [at |-> now + 1, served |-> TRUE]
  <2>1. new.at = now + 1 /\ new.served = TRUE /\ attempts' = attempts \cup {new}
    BY <1>1
  <2> HIDE DEF new
  <2>2. Served' = Served \cup {now + 1}
    BY <2>1 DEF Served
  <2> QED
    BY <1>1, <2>2
<1>2. CASE attempts' = attempts \cup {[at |-> now + 1, served |-> FALSE]}
  BY <1>2 DEF Served
<1>3. CASE attempts' = attempts
  BY <1>3 DEF Served
<1> QED
  BY <1>1, <1>2, <1>3 DEF Observe

LEMMA InitIInv == Init => IInv
<1> SUFFICES ASSUME Init PROVE IInv
  OBVIOUS
<1>1. TypesInv
  BY TimeAssumption DEF Init, TypesInv
<1>2. FirstInv /\ OutageInv
  BY DEF Init, FirstInv, OutageInv
<1> QED
  BY <1>1, <1>2 DEF IInv

LEMMA StepIInv == IInv /\ [Next]_vars => IInv'
<1> SUFFICES ASSUME IInv, [Next]_vars PROVE IInv'
  OBVIOUS
<1>0. TypesInv /\ FirstInv /\ OutageInv /\ now \in Nat /\ MaxTime \in Nat
  BY ServedType DEF IInv
<1>1. CASE Observe
  <2>1. now' = now + 1 /\ now < MaxTime /\ UNCHANGED <<up, downFrom, outages, fault>>
    BY <1>1 DEF Observe
  <2>2. attempts \subseteq attempts' /\ attempts' \subseteq [at : 0 .. now', served : BOOLEAN]
    <3>1. \A a \in attempts : a \in [at : 0 .. now + 1, served : BOOLEAN]
      BY <1>0 DEF TypesInv
    <3>2. now + 1 \in 0 .. now + 1
      BY <1>0
    <3>3. /\ [at |-> now + 1, served |-> TRUE] \in [at : 0 .. now + 1, served : BOOLEAN]
          /\ [at |-> now + 1, served |-> FALSE] \in [at : 0 .. now + 1, served : BOOLEAN]
      BY <3>2
    <3>4. \/ attempts' = attempts \cup {[at |-> now + 1, served |-> TRUE]}
          \/ attempts' = attempts \cup {[at |-> now + 1, served |-> FALSE]}
          \/ attempts' = attempts
      BY <1>1 DEF Observe
    <3> QED
      BY <2>1, <3>1, <3>3, <3>4
  <2>3. TypesInv'
    <3>1. outages' \subseteq [from : 0 .. now', to : 0 .. now']
      BY <1>0, <2>1 DEF TypesInv
    <3>2. /\ now' \in 0..MaxTime /\ downFrom' \in 0..now' /\ fault' \in -1..now' /\ up' \in BOOLEAN
      BY <1>0, <2>1 DEF TypesInv
    <3> QED
      BY <2>2, <3>1, <3>2 DEF TypesInv
  <2>4. OutageInv'
    <3>1. Served' = Served \/ (up /\ Served' = Served \cup {now + 1})
      BY <1>0, <1>1, ServedNext
    <3>2. \A o \in outages : now + 1 > o.to
      BY <1>0 DEF TypesInv
    <3> QED
      BY <1>0, <2>1, <3>1, <3>2 DEF OutageInv
  <2> QED
    BY <1>0, <2>2, <2>3, <2>4 DEF IInv, FirstInv
<1>2. CASE Fault
  <2>1. fault = -1 /\ fault' = now /\ UNCHANGED <<now, up, downFrom, outages, attempts>>
    BY <1>2 DEF Fault
  <2>2. outages = {} /\ up
    BY <1>0, <2>1 DEF OutageInv, TypesInv
  <2>3. TypesInv'
    BY <1>0, <2>1 DEF TypesInv
  <2> QED
    BY <1>0, <2>1, <2>2, <2>3 DEF IInv, FirstInv, OutageInv
<1>3. CASE GoDown
  <2>1. fault # -1 /\ up' = FALSE /\ downFrom' = now /\ UNCHANGED <<now, outages, fault, attempts>>
    BY <1>3 DEF GoDown
  <2>2. Served' = Served /\ \A t \in Served : t <= now
    BY <1>0, <2>1, ServedType DEF Served
  <2>3. TypesInv'
    <3>0. up' \in BOOLEAN
      BY <2>1
    <3>1. downFrom' \in 0..now'
      BY <1>0, <2>1
    <3>2. now' \in 0..MaxTime /\ fault' \in -1..now' /\ outages' \subseteq [from : 0..now', to : 0..now']
          /\ attempts' \subseteq [at : 0..now', served : BOOLEAN]
      BY <1>0, <2>1 DEF TypesInv
    <3> QED
      BY <3>0, <3>1, <3>2 DEF TypesInv
  <2>4. fault <= now
    BY <1>0 DEF TypesInv
  <2>5. OutageInv'
    BY <1>0, <2>1, <2>2, <2>4 DEF OutageInv
  <2> QED
    BY <1>0, <2>1, <2>3, <2>5 DEF IInv, FirstInv
<1>4. CASE ComeBack
  <2>1. /\ ~up /\ up' = TRUE /\ UNCHANGED <<now, downFrom, fault, attempts>>
        /\ outages' = outages \cup {[from |-> downFrom, to |-> now]}
    BY <1>4 DEF ComeBack
  <2>2. [from |-> downFrom, to |-> now] \in [from : 0 .. now, to : 0 .. now]
    BY <1>0 DEF TypesInv
  <2>3. Served' = Served
    BY <2>1 DEF Served
  <2>4. OutageInv'
    <3> DEFINE new == [from |-> downFrom, to |-> now]
    <3>1. /\ new.from = downFrom /\ new.to = now /\ fault # -1 /\ fault <= downFrom
          /\ (\A t \in Served : t <= downFrom) /\ downFrom <= now
      BY <1>0, <2>1 DEF OutageInv, TypesInv
    <3>2. outages' = outages \cup {new}
      BY <2>1
    <3> HIDE DEF new
    <3> QED
      BY <1>0, <2>1, <2>3, <3>1, <3>2 DEF OutageInv
  <2>5. TypesInv'
    BY <1>0, <2>1, <2>2 DEF TypesInv
  <2> QED
    BY <1>0, <2>1, <2>4, <2>5 DEF IInv, FirstInv
<1>5. CASE UNCHANGED vars
  BY <1>0, <1>5 DEF vars, IInv, TypesInv, FirstInv, OutageInv, Served
<1> QED
  BY <1>1, <1>2, <1>3, <1>4, <1>5 DEF Next

THEOREM Invariance == Spec => []IInv
BY InitIInv, StepIInv, PTL DEF Spec

(* Every variable keeps to its type.                                       *)
THEOREM MeasureTypes == Spec => []TypeOK
<1>1. IInv => TypeOK
  <2> SUFFICES ASSUME IInv PROVE TypeOK
    OBVIOUS
  <2>1. TypesInv /\ now \in Nat /\ MaxTime \in Nat
    BY ServedType DEF IInv
  <2>2. outages \subseteq [from : 0 .. MaxTime, to : 0 .. MaxTime]
        /\ attempts \subseteq [at : 0 .. MaxTime, served : BOOLEAN]
    BY <2>1 DEF TypesInv
  <2> QED
    BY <2>1, <2>2 DEF TypesInv, TypeOK
<1> QED
  BY <1>1, Invariance, PTL

-----------------------------------------------------------------------------
(* Gaps.                                                                   *)

Later(t) == {u \in Served : u > t}

LEMMA GapIs ==
  ASSUME TypesInv, NEW g \in Gaps
  PROVE  /\ g.from \in Served /\ g.to \in Served /\ g.from \in Nat /\ g.to \in Nat
         /\ g.from < g.to /\ g.to <= now /\ g = [from |-> g.from, to |-> Min(Later(g.from))]
         /\ Length(g) \in Nat \ {0} /\ Length(g) <= now
         /\ \A u \in Served : u > g.from => g.to <= u
<1>1. Served \in SUBSET Nat /\ (\A t \in Served : t <= now) /\ now \in Nat
  BY ServedType
<1>2. PICK t \in {v \in Served : \E u \in Served : u > v} :
        g = [from |-> t, to |-> Min({u \in Served : u > t})]
  BY DEF Gaps
<1>3. Later(t) \in SUBSET Nat /\ Later(t) # {}
  BY <1>1, <1>2 DEF Later
<1>4. Min(Later(t)) \in Later(t) /\ \A u \in Later(t) : Min(Later(t)) <= u
  BY <1>3, MinIs
<1>5. g.from = t /\ g.to = Min(Later(t))
  BY <1>2 DEF Later
<1>6. t \in Served /\ g.to \in Served /\ g.to > t /\ \A u \in Served : u > t => g.to <= u
  BY <1>2, <1>4, <1>5 DEF Later
<1>7. g = [from |-> g.from, to |-> Min(Later(g.from))]
  BY <1>2, <1>5 DEF Later
<1> QED
  BY <1>1, <1>5, <1>6, <1>7 DEF Length

LEMMA GapUnique ==
  ASSUME TypesInv, NEW g \in Gaps, NEW h \in Gaps, g.from = h.from
  PROVE  g = h
BY GapIs

(* Between a write at or before a and one after it lies a gap.             *)
LEMMA GapOver ==
  ASSUME TypesInv, NEW a \in Nat, NEW t \in Served, t <= a, NEW u \in Served, u > a
  PROVE  \E g \in Gaps : g.from <= a /\ g.to > a
<1>1. Served \in SUBSET Nat
  BY ServedType
<1> DEFINE Sooner == {v \in Served : v <= a}
<1>2. PICK f \in Sooner : \A v \in Sooner : v <= f
  <2>1. Sooner \in SUBSET Nat /\ Sooner # {} /\ \A v \in Sooner : v <= a
    BY <1>1
  <2> HIDE DEF Sooner
  <2> QED
    BY <2>1, LargestExists
<1> DEFINE g == [from |-> f, to |-> Min({v \in Served : v > f})]
<1>3. f \in Served /\ f <= a /\ f \in Nat /\ u > f
  BY <1>1, <1>2
<1>4. g \in Gaps
  BY <1>3 DEF Gaps
<1>5. g.from = f
  OBVIOUS
<1> HIDE DEF g
<1>6. g.to \in Served /\ g.to \in Nat /\ f < g.to
  BY <1>4, <1>5, GapIs
<1>7. g.to > a
  BY <1>2, <1>3, <1>6
<1> QED
  BY <1>3, <1>4, <1>5, <1>7

LEMMA GapsFinite ==
  ASSUME TypesInv, NEW G \in SUBSET Gaps
  PROVE  IsFiniteSet(G) /\ Cardinality(G) \in Nat
<1> DEFINE f == [g \in G |-> g.from]
<1>1. f \in Injection(G, 0..now)
  <2>1. \A g \in G : g.from \in 0..now
    BY GapIs, ServedType
  <2>2. \A g, h \in G : f[g] = f[h] => g = h
    BY GapUnique
  <2>3. f \in [G -> 0..now]
    BY <2>1
  <2> HIDE DEF f
  <2> QED
    BY <2>2, <2>3 DEF Injection, IsInjective
<1>2. IsFiniteSet(0..now)
  BY FS_Interval, ServedType
<1>3. IsFiniteSet(G)
  BY <1>1, <1>2, FS_Injection
<1> QED
  BY <1>3, FS_CardinalityType

LEMMA ServedFinite ==
  ASSUME TypesInv
  PROVE  IsFiniteSet(Served) /\ Cardinality(Served) \in Nat
<1>1. Served \in SUBSET (0..now) /\ now \in Nat
  BY ServedType
<1>2. IsFiniteSet(0..now)
  BY <1>1, FS_Interval
<1>3. IsFiniteSet(Served)
  BY <1>1, <1>2, FS_Subset
<1> QED
  BY <1>3, FS_CardinalityType

LEMMA LengthsType ==
  ASSUME TypesInv, NEW G \in SUBSET Gaps
  PROVE  /\ Lengths(G) \in SUBSET Nat /\ (\A x \in Lengths(G) : x <= now)
         /\ \A g \in G : Length(g) \in Lengths(G)
<1>1. \A g \in G : Length(g) \in Nat /\ Length(g) <= now
  BY GapIs
<1> HIDE DEF Length
<1> QED
  BY <1>1 DEF Lengths

LEMMA LargestType ==
  ASSUME NEW S \in SUBSET Nat, NEW b \in Nat, \A x \in S : x <= b
  PROVE  Largest(S) \in Nat /\ \A x \in S : x <= Largest(S)
<1>1. S \cup {0} \in SUBSET Nat /\ S \cup {0} # {} /\ \A x \in S \cup {0} : x <= b
  OBVIOUS
<1>2. Max(S \cup {0}) \in S \cup {0} /\ \A x \in S \cup {0} : x <= Max(S \cup {0})
  BY <1>1, MaxIs
<1>3. Largest(S) = Max(S \cup {0})
  BY DEF Largest
<1> QED
  BY <1>1, <1>2, <1>3

(* The longest gap of a set is at least its rank of any of them.           *)
LEMMA RankedType ==
  ASSUME TypesInv, NEW G \in SUBSET Gaps, G # {}, NEW k \in 1..Cardinality(G)
  PROVE  Ranked(G, k) \in Lengths(G) /\ Ranked(G, k) \in Nat
<1> DEFINE Within(v) == {g \in G : Length(g) <= v}
           R == {v \in Lengths(G) : Cardinality(Within(v)) >= k}
<1>1. /\ Lengths(G) \in SUBSET Nat /\ (\A x \in Lengths(G) : x <= now) /\ now \in Nat
      /\ \A g \in G : Length(g) \in Lengths(G)
  BY LengthsType, ServedType
<1>2. PICK m \in Lengths(G) : \A x \in Lengths(G) : x <= m
  <2>1. Lengths(G) # {}
    BY <1>1
  <2> QED
    BY <1>1, <2>1, LargestExists
<1>3. Within(m) = G
  BY <1>1, <1>2
<1>4. Cardinality(G) \in Nat
  BY GapsFinite
<1>5. m \in R /\ R \in SUBSET Nat
  BY <1>1, <1>3, <1>4
<1> HIDE DEF R
<1>6. Min(R) \in R
  BY <1>5, MinIs
<1>7. Ranked(G, k) = Min(R)
  BY DEF Ranked, R
<1> QED
  BY <1>1, <1>6, <1>7 DEF R

LEMMA RankIsIn ==
  ASSUME NEW n \in Nat \ {0}
  PROVE  Rank(n) \in 1..n
<1> DEFINE num == 2 * QNum * n + QDen
           den == 2 * QDen
           low == num \div den
           k   == CASE 2 * (num % den) < den -> low
                    [] 2 * (num % den) > den -> low + 1
                    [] OTHER -> low + (low % 2)
<1>1. num \in Nat /\ den \in Nat \ {0}
  <2>1. QNum \in Nat /\ QDen \in Nat \ {0}
    BY QuantileAssumption
  <2>2. 2 * QNum * n \in Nat
    BY <2>1
  <2> QED
    BY <2>1, <2>2
<1>2. low \in Nat /\ num % den \in Nat
  <2> HIDE DEF num, den
  <2> QED
    BY <1>1
<1>3. k \in Nat
  <2> HIDE DEF num, den
  <2>1. 2 * (num % den) \in Nat /\ den \in Nat
    BY <1>1, <1>2
  <2> HIDE DEF low
  <2>2. low % 2 \in Nat
    BY <1>2
  <2> QED
    BY <1>2, <2>1, <2>2
<1> HIDE DEF k
<1>4. Max({1, k}) \in {1, k} /\ \A x \in {1, k} : x <= Max({1, k})
  <2>1. {1, k} \in SUBSET Nat /\ {1, k} # {} /\ \A x \in {1, k} : x <= k + 1
    BY <1>3
  <2>2. k + 1 \in Nat
    BY <1>3
  <2> QED
    BY <2>1, <2>2, MaxIs
<1> DEFINE m == Max({1, k})
<1>5. m \in Nat \ {0}
  BY <1>3, <1>4
<1> HIDE DEF m
<1>6. Min({n, m}) \in {n, m} /\ \A x \in {n, m} : Min({n, m}) <= x
  <2>1. {n, m} \in SUBSET Nat /\ {n, m} # {}
    BY <1>5
  <2> QED
    BY <2>1, MinIs
<1>7. Rank(n) = Min({n, m})
  BY DEF Rank, k, m
<1> QED
  BY <1>5, <1>6, <1>7

LEMMA QuantileType ==
  ASSUME TypesInv, NEW G \in SUBSET Gaps
  PROVE  Quantile(G) \in Nat
<1>1. CASE G = {}
  BY <1>1 DEF Quantile
<1>2. CASE G # {}
  <2>1. Cardinality(G) \in Nat \ {0}
    BY <1>2, GapsFinite, FS_EmptySet
  <2>2. Rank(Cardinality(G)) \in 1..Cardinality(G)
    BY <2>1, RankIsIn
  <2>3. Ranked(G, Rank(Cardinality(G))) \in Nat
    BY <1>2, <2>2, RankedType
  <2> QED
    BY <1>2, <2>3 DEF Quantile
<1> QED
  BY <1>1, <1>2

(* The floors are numbers, none below the resolution it is to clear.       *)
LEMMA FloorTypes ==
  ASSUME TypesInv
  PROVE  /\ Resolution \in Nat /\ NoiseFloor \in Nat
         /\ TypicalGap \in Nat /\ AuditFloor \in Nat /\ TypicalGap <= AuditFloor
<1>1. Healthy \in SUBSET Gaps /\ Gaps \in SUBSET Gaps
  BY DEF Healthy
<1>2. Resolution \in Nat
  BY <1>1, QuantileType DEF Resolution
<1>3. Largest(Lengths(Healthy)) \in Nat
  BY <1>1, LengthsType, LargestType, ServedType
<1>4. TypicalGap \in Nat
  <2>1. CASE Gaps = {}
    BY <2>1 DEF TypicalGap
  <2>2. CASE Gaps # {}
    <3>1. Cardinality(Gaps) \in Nat \ {0}
      BY <1>1, <2>2, GapsFinite, FS_EmptySet
    <3>2. (Cardinality(Gaps) \div 2) + 1 \in 1..Cardinality(Gaps)
      BY <3>1
    <3>3. Ranked(Gaps, (Cardinality(Gaps) \div 2) + 1) \in Nat
      BY <1>1, <2>2, <3>2, RankedType
    <3> QED
      BY <2>2, <3>3 DEF TypicalGap
  <2> QED
    BY <2>1, <2>2
<1>5. NoiseFloor \in Nat
  BY <1>2, <1>3 DEF NoiseFloor
<1>6. AuditFloor \in Nat /\ TypicalGap <= AuditFloor
  BY <1>3, <1>4 DEF AuditFloor
<1> QED
  BY <1>2, <1>4, <1>5, <1>6

-----------------------------------------------------------------------------
(* The verdicts.                                                           *)

(* max(qualifying, key=duration)                                           *)
LEMMA LargestIs ==
  ASSUME TypesInv, NEW G \in SUBSET Gaps, G # {}
  PROVE  /\ LargestOf(G) \in G
         /\ \A h \in G : Length(h) <= Length(LargestOf(G))
         /\ \A h \in G : Length(h) = Length(LargestOf(G)) => LargestOf(G).from <= h.from
<1>1. /\ Lengths(G) \in SUBSET Nat /\ (\A x \in Lengths(G) : x <= now) /\ now \in Nat
      /\ \A g \in G : Length(g) \in Lengths(G)
  BY LengthsType, ServedType
<1>2. PICK m \in Lengths(G) : \A x \in Lengths(G) : x <= m
  <2>1. Lengths(G) # {}
    BY <1>1
  <2> QED
    BY <1>1, <2>1, LargestExists
<1> DEFINE Longest == {g \in G : Length(g) = m}
           Starts == {g.from : g \in Longest}
<1>3. Starts \in SUBSET Nat /\ Starts # {}
  <2>1. Longest # {}
    BY <1>2 DEF Lengths
  <2>2. \A g \in G : g.from \in Nat
    BY GapIs
  <2> QED
    BY <2>1, <2>2
<1>4. PICK f \in Starts : \A x \in Starts : f <= x
  <2> HIDE DEF Starts
  <2> QED
    BY <1>3, SmallestExists
<1>5. PICK g \in Longest : f = g.from
  BY <1>4
<1>6. \A h \in G : Length(h) <= Length(g)
  BY <1>1, <1>2, <1>5
<1>7. \A h \in G : Length(h) = Length(g) => g.from <= h.from
  BY <1>4, <1>5
<1>8. \E x \in G : /\ \A h \in G : Length(h) <= Length(x)
                   /\ \A h \in G : Length(h) = Length(x) => x.from <= h.from
  BY <1>5, <1>6, <1>7
<1> QED
  BY <1>8, Zenon DEF LargestOf

(* An outage that a served write closed is inside a gap.                   *)
LEMMA OutageHasGap ==
  ASSUME IInv, NEW o \in outages, NEW u \in Served, u > o.to
  PROVE  \E g \in AfterFault : g.from <= o.from /\ g.to > o.to
<1>1. /\ TypesInv /\ o.from \in Nat /\ o.to \in Nat /\ fault \in Int /\ fault <= o.from
      /\ o.from <= o.to
      /\ \A t \in Served : t <= o.from \/ t > o.to
  BY ServedType DEF IInv, TypesInv, OutageInv
<1>2. 0 \in Served
  BY DEF IInv, FirstInv, Served
<1>3. u \in Nat /\ u > o.from
  BY <1>1, ServedType
<1>4. PICK g \in Gaps : g.from <= o.from /\ g.to > o.from
  BY <1>1, <1>2, <1>3, GapOver
<1>5. g.to \in Served /\ g.to \in Nat
  BY <1>1, GapIs
<1>6. g.to > o.to
  BY <1>1, <1>4, <1>5
<1>7. g.to >= fault
  BY <1>1, <1>4, <1>5
<1> QED
  BY <1>4, <1>6, <1>7 DEF AfterFault

LEMMA TwoServed ==
  ASSUME TypesInv, NEW t \in Served, NEW u \in Served, t < u
  PROVE  Cardinality(Served) >= 2
<1>1. t # u
  BY ServedType
<1>2. Cardinality({t}) = 1 /\ IsFiniteSet({t})
  BY FS_Singleton
<1>3. Cardinality({t} \cup {u}) = 2
  BY <1>1, <1>2, FS_AddElement
<1>4. {t} \cup {u} \in SUBSET Served
  OBVIOUS
<1> QED
  BY <1>3, <1>4, ServedFinite, FS_Subset

(* What both instruments report, once a gap clears their floor.            *)
LEMMA ProbeFinds ==
  ASSUME TypesInv, NEW g \in AfterFault, Length(g) > NoiseFloor, NEW end
  PROVE  /\ MeasureRto(end).kind = "outage"
         /\ MeasureRto(end).gap = LargestOf(Qualifying(NoiseFloor))
         /\ Qualifying(NoiseFloor) \in SUBSET Gaps /\ g \in Qualifying(NoiseFloor)
         /\ Length(MeasureRto(end).gap) >= Length(g)
<1> DEFINE Q == Qualifying(NoiseFloor)
<1>1. g \in Gaps /\ Q \in SUBSET Gaps /\ g \in Q
  BY DEF AfterFault, Qualifying
<1>2. Cardinality(Served) >= 2 /\ Cardinality(Served) \in Nat
  BY <1>1, GapIs, TwoServed, ServedFinite
<1>3. MeasureRto(end) = [kind |-> "outage", gap |-> LargestOf(Q), quotable |-> Attributable]
  <2> HIDE DEF Q
  <2>1. Q # {} /\ ~(Cardinality(Served) < 2)
    BY <1>1, <1>2
  <2> QED
    BY <2>1, Zenon DEF MeasureRto, Reported, Q
<1>4. MeasureRto(end).kind = "outage" /\ MeasureRto(end).gap = LargestOf(Q)
  BY <1>3
<1> HIDE DEF Q
<1>5. Length(LargestOf(Q)) >= Length(g)
  <2>1. LargestOf(Q) \in Q /\ \A h \in Q : Length(h) <= Length(LargestOf(Q))
    BY <1>1, LargestIs
  <2>2. Length(LargestOf(Q)) \in Nat /\ Length(g) \in Nat
    BY <1>1, <2>1, GapIs
  <2> QED
    BY <1>1, <2>1, <2>2
<1> QED
  BY <1>1, <1>4, <1>5 DEF Q

LEMMA AuditFinds ==
  ASSUME TypesInv, fault \in Int, Healthy # {}, NEW g \in AfterFault, Length(g) > AuditFloor, NEW end
  PROVE  /\ AvailabilityRto(end).kind = "outage"
         /\ AvailabilityRto(end).gap = LargestOf(AuditQualifying)
         /\ AuditQualifying \in SUBSET Gaps /\ g \in AuditQualifying
         /\ Length(AvailabilityRto(end).gap) >= Length(g)
<1> DEFINE Q == AuditQualifying
<1>1. g \in Gaps /\ Q \in SUBSET Gaps /\ g \in Q
  BY DEF AfterFault, Qualifying, AuditQualifying
<1>2. AckedAfter # {}
  <2>1. g.to \in Served /\ g.to >= fault
    BY <1>1, GapIs DEF AfterFault
  <2> QED
    BY <2>1 DEF AckedAfter
<1>3. AvailabilityRto(end) = [kind |-> "outage", gap |-> LargestOf(Q), quotable |-> TRUE]
  <2> HIDE DEF Q
  <2>1. Q # {}
    BY <1>1
  <2> QED
    BY <1>2, <2>1, Zenon DEF AvailabilityRto, Q
<1>4. AvailabilityRto(end).kind = "outage" /\ AvailabilityRto(end).gap = LargestOf(Q)
  BY <1>3
<1> HIDE DEF Q
<1>5. Length(LargestOf(Q)) >= Length(g)
  <2>1. LargestOf(Q) \in Q /\ \A h \in Q : Length(h) <= Length(LargestOf(Q))
    BY <1>1, LargestIs
  <2>2. Length(LargestOf(Q)) \in Nat /\ Length(g) \in Nat
    BY <1>1, <2>1, GapIs
  <2> QED
    BY <1>1, <2>1, <2>2
<1> QED
  BY <1>1, <1>4, <1>5 DEF Q

(* Whatever follows the fault: an outage above its floor that a served     *)
(* write closed is found by each instrument, and not understated.          *)
THEOREM MeasureOutageIsFound == Spec => []OutageIsFound
<1>1. IInv => OutageIsFound
  <2> SUFFICES ASSUME IInv, NEW o \in Witnessed, Healthy # {}
               PROVE  /\ Length(o) > NoiseFloor =>
                           /\ MeasureRto(now).kind = "outage"
                           /\ Length(MeasureRto(now).gap) >= Length(o)
                      /\ Length(o) > AuditFloor =>
                           /\ AvailabilityRto(now).kind = "outage"
                           /\ Length(AvailabilityRto(now).gap) >= Length(o)
    BY DEF OutageIsFound
  <2>1. /\ TypesInv /\ o \in outages /\ o.from \in Nat /\ o.to \in Nat /\ fault \in Int
        /\ NoiseFloor \in Nat /\ AuditFloor \in Nat
    BY FloorTypes, ServedType DEF IInv, TypesInv, Witnessed
  <2>2. PICK g \in AfterFault : g.from <= o.from /\ g.to > o.to
    <3>1. PICK u \in Served : u > o.to
      BY DEF Witnessed
    <3> QED
      BY <2>1, <3>1, OutageHasGap
  <2>3. g.from \in Nat /\ g.to \in Nat
    BY <2>1, GapIs DEF AfterFault
  <2>4. Length(g) >= Length(o) /\ Length(o) \in Int /\ Length(g) \in Int
    BY <2>1, <2>2, <2>3 DEF Length
  <2>5. ASSUME Length(o) > NoiseFloor
        PROVE  MeasureRto(now).kind = "outage" /\ Length(MeasureRto(now).gap) >= Length(o)
    <3>1. Length(g) > NoiseFloor
      BY <2>1, <2>4, <2>5
    <3>2. /\ MeasureRto(now).kind = "outage" /\ Length(MeasureRto(now).gap) >= Length(g)
          /\ MeasureRto(now).gap = LargestOf(Qualifying(NoiseFloor))
          /\ Qualifying(NoiseFloor) \in SUBSET Gaps /\ g \in Qualifying(NoiseFloor)
      BY <2>1, <3>1, ProbeFinds
    <3>3. MeasureRto(now).gap \in Gaps
      BY <2>1, <3>2, LargestIs
    <3>4. Length(MeasureRto(now).gap) \in Nat
      BY <2>1, <3>3, GapIs
    <3> QED
      BY <2>4, <3>2, <3>4
  <2>6. ASSUME Length(o) > AuditFloor
        PROVE  AvailabilityRto(now).kind = "outage" /\ Length(AvailabilityRto(now).gap) >= Length(o)
    <3>1. Length(g) > AuditFloor
      BY <2>1, <2>4, <2>6
    <3>2. /\ AvailabilityRto(now).kind = "outage" /\ Length(AvailabilityRto(now).gap) >= Length(g)
          /\ AvailabilityRto(now).gap = LargestOf(AuditQualifying)
          /\ AuditQualifying \in SUBSET Gaps /\ g \in AuditQualifying
      BY <2>1, <3>1, AuditFinds
    <3>3. AvailabilityRto(now).gap \in Gaps
      BY <2>1, <3>2, LargestIs
    <3>4. Length(AvailabilityRto(now).gap) \in Nat
      BY <2>1, <3>3, GapIs
    <3> QED
      BY <2>4, <3>2, <3>4
  <2> QED
    BY <2>5, <2>6
<1> QED
  BY <1>1, Invariance, PTL

-----------------------------------------------------------------------------
(* The two instruments.                                                    *)

LEMMA ProbeReports ==
  ASSUME NEW end, MeasureRto(end).kind = "outage"
  PROVE  Qualifying(NoiseFloor) # {} /\ MeasureRto(end).gap = LargestOf(Qualifying(NoiseFloor))
<1> DEFINE Q == Qualifying(NoiseFloor)
<1>1. \/ Q # {} /\ MeasureRto(end) = [kind |-> "outage", gap |-> LargestOf(Q), quotable |-> Attributable]
      \/ MeasureRto(end) \in {Verdict("too few"), Verdict("truncated"), Verdict("stopped observing"),
                              Verdict("below resolution")}
  BY Zenon DEF MeasureRto, Reported
<1>2. MeasureRto(end) \notin {Verdict("too few"), Verdict("truncated"), Verdict("stopped observing"),
                              Verdict("below resolution")}
  <2>1. /\ Verdict("too few").kind # "outage" /\ Verdict("truncated").kind # "outage"
        /\ Verdict("stopped observing").kind # "outage" /\ Verdict("below resolution").kind # "outage"
    BY DEF Verdict
  <2> QED
    BY <2>1, Zenon
<1> HIDE DEF Q
<1>3. Q # {} /\ MeasureRto(end) = [kind |-> "outage", gap |-> LargestOf(Q), quotable |-> Attributable]
  BY <1>1, <1>2, Zenon
<1>4. MeasureRto(end).gap = LargestOf(Q)
  BY <1>3
<1> QED
  BY <1>3, <1>4 DEF Q

LEMMA AuditReports ==
  ASSUME NEW end, AvailabilityRto(end).kind = "outage"
  PROVE  AuditQualifying # {} /\ AvailabilityRto(end).gap = LargestOf(AuditQualifying)
<1> DEFINE Q == AuditQualifying
<1>1. \/ Q # {} /\ AvailabilityRto(end) = [kind |-> "outage", gap |-> LargestOf(Q), quotable |-> TRUE]
      \/ AvailabilityRto(end) \in {Verdict("none after fault"), Verdict("unmeasured"), Verdict("next write")}
  BY Zenon DEF AvailabilityRto
<1>2. AvailabilityRto(end) \notin {Verdict("none after fault"), Verdict("unmeasured"), Verdict("next write")}
  <2>1. /\ Verdict("none after fault").kind # "outage" /\ Verdict("unmeasured").kind # "outage"
        /\ Verdict("next write").kind # "outage"
    BY DEF Verdict
  <2> QED
    BY <2>1, Zenon
<1> HIDE DEF Q
<1>3. Q # {} /\ AvailabilityRto(end) = [kind |-> "outage", gap |-> LargestOf(Q), quotable |-> TRUE]
  BY <1>1, <1>2, Zenon
<1>4. AvailabilityRto(end).gap = LargestOf(Q)
  BY <1>3
<1> QED
  BY <1>3, <1>4 DEF Q

(* The first of the longest gaps is the same above any floor it clears.    *)
LEMMA SameLargest ==
  ASSUME TypesInv, NEW a \in Nat, NEW b \in Nat, Qualifying(a) # {}, Qualifying(b) # {}
  PROVE  LargestOf(Qualifying(a)) = LargestOf(Qualifying(b))
<1> DEFINE A == Qualifying(a)
           B == Qualifying(b)
           x == LargestOf(A)
           y == LargestOf(B)
<1>1. A \in SUBSET Gaps /\ B \in SUBSET Gaps
  BY DEF Qualifying, AfterFault
<1>2. /\ x \in A /\ y \in B
      /\ \A h \in A : Length(h) <= Length(x) /\ (Length(h) = Length(x) => x.from <= h.from)
      /\ \A h \in B : Length(h) <= Length(y) /\ (Length(h) = Length(y) => y.from <= h.from)
  <2> HIDE DEF A, B
  <2> QED
    BY <1>1, LargestIs DEF A, B
<1> HIDE DEF x, y
<1>3. /\ x \in Gaps /\ y \in Gaps /\ Length(x) \in Nat /\ Length(y) \in Nat
      /\ x.from \in Nat /\ y.from \in Nat
  BY <1>1, <1>2, GapIs
<1>4. x \in AfterFault /\ y \in AfterFault /\ Length(x) > a /\ Length(y) > b
  BY <1>2 DEF Qualifying
<1>5. Length(x) = Length(y)
  <2>1. Length(x) >= Length(y) => x \in B
    BY <1>3, <1>4 DEF Qualifying
  <2>2. Length(y) >= Length(x) => y \in A
    BY <1>3, <1>4 DEF Qualifying
  <2> QED
    BY <1>2, <1>3, <2>1, <2>2
<1>6. x \in B /\ y \in A
  BY <1>3, <1>4, <1>5 DEF Qualifying
<1>7. x.from = y.from
  BY <1>2, <1>3, <1>5, <1>6
<1>8. x = y
  BY <1>3, <1>7, GapUnique
<1> QED
  BY <1>8 DEF x, y

(* Shown the same writes, the instruments date the same outage.            *)
THEOREM MeasureInstrumentsAgree == Spec => []InstrumentsAgree
<1>1. IInv => InstrumentsAgree
  <2> SUFFICES ASSUME IInv, MeasureRto(now).kind = "outage", AvailabilityRto(now).kind = "outage"
               PROVE  MeasureRto(now).gap = AvailabilityRto(now).gap
    BY DEF InstrumentsAgree
  <2>1. TypesInv /\ NoiseFloor \in Nat /\ AuditFloor \in Nat
    BY FloorTypes DEF IInv
  <2>2. Qualifying(NoiseFloor) # {} /\ MeasureRto(now).gap = LargestOf(Qualifying(NoiseFloor))
    BY ProbeReports
  <2>3. AuditQualifying # {} /\ AvailabilityRto(now).gap = LargestOf(AuditQualifying)
    BY AuditReports
  <2>4. AuditQualifying = Qualifying(AuditFloor)
    BY <2>3 DEF AuditQualifying
  <2> QED
    BY <2>1, <2>2, <2>3, <2>4, SameLargest
<1> QED
  BY <1>1, Invariance, PTL

-----------------------------------------------------------------------------
(* The floor.                                                              *)

GapsOf(S) == {[from |-> t, to |-> Min({u \in S : u > t})] : t \in {v \in S : \E u \in S : u > v}}

(* A write later than all others adds a gap that closes with it.           *)
LEMMA GapsGrow ==
  ASSUME NEW S \in SUBSET Nat, NEW n \in Nat, \A s \in S : s < n, NEW f \in Int, f <= n
  PROVE  {g \in GapsOf(S \cup {n}) : g.to < f} = {g \in GapsOf(S) : g.to < f}
<1> DEFINE T == S \cup {n}
           InS(t) == {u \in S : u > t}
           InT(t) == {u \in T : u > t}
           Gap(t) == [from |-> t, to |-> Min(InS(t))]
           GapT(t) == [from |-> t, to |-> Min(InT(t))]
<1>1. ASSUME NEW t \in S, InS(t) # {}
      PROVE  Min(InT(t)) = Min(InS(t)) /\ InT(t) # {}
  <2>1. InS(t) \in SUBSET Nat /\ InT(t) \in SUBSET Nat /\ InT(t) = InS(t) \cup {n}
    OBVIOUS
  <2>2. Min(InS(t)) \in InS(t) /\ \A x \in InS(t) : Min(InS(t)) <= x
    BY <1>1, <2>1, MinIs
  <2>3. Min(InT(t)) \in InT(t) /\ \A x \in InT(t) : Min(InT(t)) <= x
    BY <1>1, <2>1, MinIs
  <2>4. Min(InS(t)) \in Nat /\ Min(InT(t)) \in Nat /\ Min(InS(t)) < n
    BY <2>1, <2>2, <2>3
  <2>5. Min(InT(t)) <= Min(InS(t))
    BY <2>1, <2>2, <2>3
  <2>6. Min(InT(t)) \in InS(t)
    BY <2>1, <2>3, <2>4, <2>5
  <2> QED
    BY <1>1, <2>1, <2>2, <2>4, <2>5, <2>6
<1>2. ASSUME NEW t \in T, InT(t) # {}, Min(InT(t)) < n
      PROVE  t \in S /\ InS(t) # {}
  <2>1. InT(t) \in SUBSET Nat
    OBVIOUS
  <2>2. Min(InT(t)) \in InT(t)
    BY <1>2, <2>1, MinIs
  <2>3. Min(InT(t)) \in S /\ Min(InT(t)) > t /\ t \in Nat /\ Min(InT(t)) \in Nat
    <3>1. Min(InT(t)) \in T /\ Min(InT(t)) > t
      BY <2>2
    <3> DEFINE m == Min(InT(t))
    <3>2. m \in T /\ m > t /\ m < n /\ T \in SUBSET Nat
      BY <1>2, <3>1
    <3> HIDE DEF m
    <3>3. m \in Nat /\ m # n /\ t \in Nat
      BY <1>2, <3>2
    <3>4. m \in S
      BY <3>2, <3>3
    <3> QED
      BY <3>2, <3>3, <3>4 DEF m
  <2>4. t # n
    BY <1>2, <2>3
  <2>5. Min(InT(t)) \in InS(t)
    BY <2>3
  <2> QED
    BY <2>4, <2>5
<1>3. ASSUME NEW g \in GapsOf(S) PROVE g \in GapsOf(T)
  <2>1. PICK t \in S : InS(t) # {} /\ g = Gap(t)
    BY <1>3 DEF GapsOf
  <2>2. g = GapT(t) /\ InT(t) # {} /\ t \in T
    BY <1>1, <2>1
  <2>3. t \in {v \in T : \E u \in T : u > v}
    BY <2>2
  <2> QED
    BY <2>2, <2>3, Zenon DEF GapsOf
<1>4. ASSUME NEW g \in GapsOf(T), g.to < f PROVE g \in GapsOf(S)
  <2>1. PICK t \in T : InT(t) # {} /\ g = GapT(t)
    BY <1>4 DEF GapsOf
  <2>2. g.to = Min(InT(t)) /\ g.to \in Nat
    <3>1. InT(t) \in SUBSET Nat
      OBVIOUS
    <3>2. Min(InT(t)) \in InT(t)
      BY <2>1, <3>1, MinIs
    <3> QED
      BY <2>1, <3>1, <3>2
  <2>3. Min(InT(t)) < n
    BY <1>4, <2>2
  <2>4. t \in S /\ InS(t) # {}
    BY <1>2, <2>1, <2>3
  <2>5. g = Gap(t)
    BY <1>1, <2>1, <2>4
  <2>6. t \in {v \in S : \E u \in S : u > v}
    BY <2>4
  <2> QED
    BY <2>5, <2>6, Zenon DEF GapsOf
<1> QED
  BY <1>3, <1>4

LEMMA HealthyStays ==
  ASSUME IInv, [Next]_vars, fault # -1
  PROVE  Healthy' = Healthy
<1>0. TypesInv /\ Served \in SUBSET Nat /\ (\A t \in Served : t <= now) /\ now \in Nat
      /\ fault \in Int /\ fault <= now
  BY ServedType DEF IInv, TypesInv
<1>1. Healthy = {g \in GapsOf(Served) : g.to < fault} /\ Healthy' = {g \in GapsOf(Served') : g.to < fault'}
  BY DEF Healthy, Gaps, GapsOf
<1>2. fault' = fault /\ (Served' = Served \/ Served' = Served \cup {now + 1})
  <2>1. CASE Observe
    BY <1>0, <2>1, ServedNext DEF Observe
  <2>2. CASE GoDown \/ ComeBack \/ UNCHANGED vars
    BY <2>2 DEF GoDown, ComeBack, vars, Served
  <2>3. ~Fault
    BY DEF Fault
  <2> QED
    BY <2>1, <2>2, <2>3 DEF Next
<1>3. CASE Served' = Served
  BY <1>1, <1>2, <1>3
<1>4. CASE Served' = Served \cup {now + 1}
  <2>1. now + 1 \in Nat /\ (\A s \in Served : s < now + 1) /\ fault <= now + 1
    BY <1>0
  <2>2. {g \in GapsOf(Served \cup {now + 1}) : g.to < fault} = {g \in GapsOf(Served) : g.to < fault}
    BY <1>0, <2>1, GapsGrow
  <2> QED
    BY <1>1, <1>2, <1>4, <2>2
<1> QED
  BY <1>2, <1>3, <1>4

(* Nothing that happens after the fault moves the noise floor.             *)
THEOREM MeasureFloorIsFixed == Spec => FloorIsFixed
<1>1. IInv /\ [Next]_vars => [fault # -1 /\ Healthy # {} /\ Served # {} => NoiseFloor' = NoiseFloor]_vars
  <2> SUFFICES ASSUME IInv, [Next]_vars, fault # -1, Healthy # {} PROVE NoiseFloor' = NoiseFloor
    OBVIOUS
  <2>1. Healthy' = Healthy
    BY HealthyStays
  <2> QED
    BY <2>1 DEF NoiseFloor, Resolution
<1> QED
  BY <1>1, Invariance, PTL DEF Spec, FloorIsFixed

-----------------------------------------------------------------------------
(* No silence.                                                             *)

(* What is behind a downtime: an interval without a served write that      *)
(* began after the fault.                                                  *)
LEMMA DownFacts ==
  ASSUME IInv, NEW end \in Nat, NEW d \in Downtime(end)
  PROVE  \E from, to \in Nat :
           /\ fault <= from /\ d \in Int /\ d <= to - from /\ d <= end - from
           /\ \/ \A t \in Served : t <= from
              \/ \E g \in AfterFault : g.from <= from /\ g.to > to
<1>1. TypesInv /\ OutageInv /\ now \in Nat /\ Served \in SUBSET Nat /\ \A t \in Served : t <= now
  BY ServedType DEF IInv
<1>2. PICK o \in outages \cup (IF up THEN {} ELSE {[from |-> downFrom, to |-> now]}) :
        d = Min({o.to, end}) - o.from
  BY DEF Downtime
<1>3. /\ o.from \in Nat /\ o.to \in Nat /\ fault <= o.from
      /\ \/ \A t \in Served : t <= o.from
         \/ \E g \in AfterFault : g.from <= o.from /\ g.to > o.to
  <2>1. CASE o \in outages
    <3>1. o.from \in Nat /\ o.to \in Nat /\ fault <= o.from /\ \A t \in Served : t <= o.from \/ t > o.to
      BY <1>1, <2>1 DEF TypesInv, OutageInv
    <3>2. (\E u \in Served : u > o.to) => \E g \in AfterFault : g.from <= o.from /\ g.to > o.to
      BY <2>1, OutageHasGap
    <3> QED
      BY <3>1, <3>2
  <2>2. CASE o \notin outages
    <3>1. ~up /\ o = [from |-> downFrom, to |-> now]
      BY <1>2, <2>2
    <3>2. o.from = downFrom /\ o.to = now
      BY <3>1
    <3>3. downFrom \in Nat /\ fault <= downFrom /\ \A t \in Served : t <= downFrom
      BY <1>1, <3>1 DEF OutageInv, TypesInv
    <3> QED
      BY <1>1, <3>2, <3>3
  <2> QED
    BY <2>1, <2>2
<1>4. Min({o.to, end}) \in {o.to, end} /\ \A x \in {o.to, end} : Min({o.to, end}) <= x
  <2>1. {o.to, end} \in SUBSET Nat /\ {o.to, end} # {}
    BY <1>3
  <2> QED
    BY <2>1, MinIs
<1>5. d \in Int /\ d <= o.to - o.from /\ d <= end - o.from
  BY <1>2, <1>3, <1>4
<1> QED
  BY <1>3, <1>5

(* The last served write, and the last attempt.                            *)
LEMMA LastFacts ==
  ASSUME IInv
  PROVE  /\ Max(Served) \in Served /\ Max(Served) \in Nat /\ \A t \in Served : t <= Max(Served)
         /\ Last \in Nat
<1>1. TypesInv /\ now \in Nat /\ Served \in SUBSET Nat /\ \A t \in Served : t <= now
  BY ServedType DEF IInv
<1>2. 0 \in Served /\ attempts # {}
  BY DEF IInv, FirstInv, Served
<1>3. Max(Served) \in Served /\ \A t \in Served : t <= Max(Served)
  BY <1>1, <1>2, MaxIs
<1> DEFINE A == {a.at : a \in attempts}
<1>4. A \in SUBSET Nat /\ A # {} /\ \A x \in A : x <= now
  <2>1. \A a \in attempts : a.at \in Nat /\ a.at <= now
    BY <1>1 DEF TypesInv
  <2> QED
    BY <1>2, <2>1
<1> HIDE DEF A
<1>5. Max(A) \in Nat
  BY <1>1, <1>4, MaxIs
<1>6. Last = Max(A)
  BY DEF Last, A
<1> QED
  BY <1>1, <1>3, <1>5, <1>6

LEMMA BelowMeans ==
  ASSUME NEW end, MeasureRto(end).kind = "below resolution"
  PROVE  /\ ~(Max(Served) >= fault /\ OpenGap > NoiseFloor)
         /\ ~CoverageTruncated(end)
<1> DEFINE Q == Qualifying(NoiseFloor)
<1>1. \/ MeasureRto(end) = [kind |-> "outage", gap |-> LargestOf(Q), quotable |-> Attributable]
      \/ MeasureRto(end) \in {Verdict("too few"), Verdict("truncated"), Verdict("stopped observing")}
      \/ /\ ~(Max(Served) >= fault /\ OpenGap > NoiseFloor)
         /\ ~CoverageTruncated(end)
  BY Zenon DEF MeasureRto, Reported
<1>2. MeasureRto(end) \notin {Verdict("too few"), Verdict("truncated"), Verdict("stopped observing")}
  <2>1. /\ Verdict("too few").kind # "below resolution" /\ Verdict("truncated").kind # "below resolution"
        /\ Verdict("stopped observing").kind # "below resolution"
    BY DEF Verdict
  <2> QED
    BY <2>1, Zenon
<1>3. MeasureRto(end) # [kind |-> "outage", gap |-> LargestOf(Q), quotable |-> Attributable]
  <2>1. ASSUME NEW g, NEW q PROVE [kind |-> "outage", gap |-> g, quotable |-> q].kind # "below resolution"
    OBVIOUS
  <2> HIDE DEF Q
  <2> QED
    BY <2>1, Zenon
<1> QED
  BY <1>1, <1>2, <1>3, Zenon

LEMMA NextWriteMeans ==
  ASSUME NEW end, AvailabilityRto(end).kind \notin {"outage", "none after fault", "unmeasured"}
  PROVE  AuditQualifying = {} /\ ~AuditTruncated(end)
<1> DEFINE Q == AuditQualifying
<1>1. \/ AvailabilityRto(end) = [kind |-> "outage", gap |-> LargestOf(Q), quotable |-> TRUE]
      \/ AvailabilityRto(end) \in {Verdict("none after fault"), Verdict("unmeasured")}
      \/ Q = {} /\ ~AuditTruncated(end)
  BY Zenon DEF AvailabilityRto
<1>2. AvailabilityRto(end) \notin {Verdict("none after fault"), Verdict("unmeasured")}
  <2>1. Verdict("none after fault").kind = "none after fault" /\ Verdict("unmeasured").kind = "unmeasured"
    BY DEF Verdict
  <2> QED
    BY <2>1, Zenon
<1>3. AvailabilityRto(end) # [kind |-> "outage", gap |-> LargestOf(Q), quotable |-> TRUE]
  <2>1. ASSUME NEW g PROVE [kind |-> "outage", gap |-> g, quotable |-> TRUE].kind = "outage"
    OBVIOUS
  <2> HIDE DEF Q
  <2> QED
    BY <2>1, Zenon
<1> QED
  BY <1>1, <1>2, <1>3, Zenon

LEMMA NoInterruptionMeans ==
  ASSUME NEW end, Claim(end) = "no interruption"
  PROVE  /\ AvailabilityRto(end).kind \notin {"none after fault", "unmeasured"}
         /\ AvailabilityRto(end).kind = "outage" => AvailabilityRto(end).gap.to - fault < TypicalGap
<1>1. "unmeasured" # "no interruption" /\ "no write acknowledged" # "no interruption"
      /\ "resumed" # "no interruption"
  OBVIOUS
<1> QED
  BY <1>1, Zenon DEF Claim

(* An outage that exceeds the floor and what the instrument may fail to    *)
(* see at the end is not passed over, closed or open.                      *)
THEOREM MeasureNoSilentOutage == Spec => []NoSilentOutage
<1>1. IInv => NoSilentOutage
  <2> DEFINE probeSlack == Resolution * PeriodSlack
             auditSlack == TypicalGap * CadenceSlack
  <2> SUFFICES ASSUME IInv, fault # -1, Healthy # {}, AckedAfter # {},
                      NEW end \in ObservationEnds, NEW d \in Downtime(end)
               PROVE  /\ d > NoiseFloor + probeSlack => MeasureRto(end).kind # "below resolution"
                      /\ d > AuditFloor + auditSlack /\ ~PauseIsTaken => Claim(end) # "no interruption"
    BY DEF NoSilentOutage
  <2>1. /\ TypesInv /\ end \in Nat /\ fault \in Nat
        /\ NoiseFloor \in Nat /\ AuditFloor \in Nat /\ TypicalGap \in Nat /\ TypicalGap <= AuditFloor
        /\ probeSlack \in Nat /\ auditSlack \in Nat
    <3>1. TypesInv /\ fault \in Nat /\ now \in Nat
      BY ServedType DEF IInv, TypesInv
    <3>2. PeriodSlack \in Nat /\ CadenceSlack \in Nat
      BY SlackAssumption
    <3>3. Resolution \in Nat /\ TypicalGap \in Nat /\ NoiseFloor \in Nat /\ AuditFloor \in Nat
          /\ TypicalGap <= AuditFloor
      BY <3>1, FloorTypes
    <3>4. probeSlack \in Nat /\ auditSlack \in Nat
      BY <3>2, <3>3
    <3>5. end \in Nat
      BY <3>1 DEF ObservationEnds
    <3> QED
      BY <3>1, <3>3, <3>4, <3>5
  <2>2. PICK from \in Nat, to \in Nat :
           /\ fault <= from /\ d \in Int /\ d <= to - from /\ d <= end - from
           /\ \/ \A t \in Served : t <= from
              \/ \E g \in AfterFault : g.from <= from /\ g.to > to
    BY <2>1, DownFacts
  <2>3. Max(Served) \in Nat /\ Last \in Nat /\ Max(Served) >= fault
        /\ ((\A t \in Served : t <= from) => Max(Served) <= from)
    <3>1. PICK t \in Served : t >= fault
      BY DEF AckedAfter
    <3>2. t \in Nat
      BY <2>1, ServedType
    <3> QED
      BY <2>1, <3>1, <3>2, LastFacts
  <2>4. ASSUME NEW g \in AfterFault, g.from <= from, g.to > to
        PROVE  Length(g) > d /\ Length(g) \in Nat
    <3>1. g.from \in Nat /\ g.to \in Nat /\ Length(g) \in Nat
      BY <2>1, GapIs DEF AfterFault
    <3> QED
      BY <2>2, <2>4, <3>1 DEF Length
  <2> HIDE DEF probeSlack, auditSlack
  <2>5. ASSUME d > NoiseFloor + probeSlack PROVE MeasureRto(end).kind # "below resolution"
    <3>1. CASE \A t \in Served : t <= from
      <4>1. SUFFICES ASSUME MeasureRto(end).kind = "below resolution" PROVE FALSE
        OBVIOUS
      <4>2. OpenGap <= NoiseFloor /\ OpenGap = Last - Max(Served)
        <5>1. ~(OpenGap > NoiseFloor)
          BY <2>3, <4>1, BelowMeans
        <5> QED
          BY <2>1, <2>3, <5>1 DEF OpenGap
      <4>3. end - Last <= probeSlack
        <5>1. attempts # {}
          BY DEF IInv, FirstInv
        <5>2. ~(end - Last > Resolution * PeriodSlack)
          BY <4>1, <5>1, BelowMeans DEF CoverageTruncated
        <5> QED
          BY <2>1, <2>3, <5>2 DEF probeSlack
      <4> QED
        BY <2>1, <2>2, <2>3, <2>5, <3>1, <4>2, <4>3
    <3>2. CASE \E g \in AfterFault : g.from <= from /\ g.to > to
      <4>1. PICK g \in AfterFault : g.from <= from /\ g.to > to
        BY <3>2
      <4>2. Length(g) > NoiseFloor
        BY <2>1, <2>2, <2>4, <2>5, <4>1
      <4>3. MeasureRto(end).kind = "outage"
        BY <2>1, <4>2, ProbeFinds
      <4> QED
        BY <4>3
    <3> QED
      BY <2>2, <3>1, <3>2
  <2>6. ASSUME d > AuditFloor + auditSlack, ~PauseIsTaken, Claim(end) = "no interruption" PROVE FALSE
    <3>0. d > AuditFloor + auditSlack
      BY <2>6
    <3>1. /\ AvailabilityRto(end).kind \notin {"none after fault", "unmeasured"}
          /\ AvailabilityRto(end).kind = "outage" => AvailabilityRto(end).gap.to - fault < TypicalGap
      BY <2>6, NoInterruptionMeans
    <3>2. CASE AvailabilityRto(end).kind = "outage"
      <4> DEFINE g == LargestOf(AuditQualifying)
      <4>1. AuditQualifying # {} /\ AvailabilityRto(end).gap = g
        BY <3>2, AuditReports
      <4>2. AuditQualifying \in SUBSET Gaps
        BY DEF AuditQualifying, Qualifying, AfterFault
      <4>3. g \in AuditQualifying /\ g \in Gaps
        BY <2>1, <4>1, <4>2, LargestIs
      <4> HIDE DEF g
      <4>4. g.from \in Nat /\ g.to \in Nat
        BY <2>1, <4>3, GapIs
      <4>5. Length(g) > AuditFloor
        BY <4>1, <4>3 DEF AuditQualifying, Qualifying
      <4>6. g.to - fault < TypicalGap
        BY <3>1, <3>2, <4>1
      <4>7. ~(g.from < fault)
        BY <2>6, <4>3, <4>6 DEF PauseIsTaken
      <4> QED
        BY <2>1, <4>4, <4>5, <4>6, <4>7 DEF Length
    <3>3. CASE AvailabilityRto(end).kind # "outage"
      <4>1. AuditQualifying = {} /\ ~AuditTruncated(end)
        BY <3>1, <3>3, NextWriteMeans
      <4>2. CASE \A t \in Served : t <= from
        <5>1. ~(end - Max(Served) > auditSlack)
          BY <4>1 DEF AuditTruncated, auditSlack
        <5> QED
          BY <2>1, <2>2, <2>3, <3>0, <4>2, <5>1
      <4>3. CASE \E g \in AfterFault : g.from <= from /\ g.to > to
        <5>1. PICK g \in AfterFault : g.from <= from /\ g.to > to
          BY <4>3
        <5>2. Length(g) > AuditFloor
          BY <2>1, <2>2, <2>4, <3>0, <5>1
        <5>3. g \in AuditQualifying
          BY <2>1, <5>2, AuditFinds
        <5> QED
          BY <4>1, <5>3
      <4> QED
        BY <2>2, <4>2, <4>3
    <3> QED
      BY <3>2, <3>3
  <2> QED
    BY <2>5, <2>6 DEF probeSlack, auditSlack
<1> QED
  BY <1>1, Invariance, PTL
=============================================================================
