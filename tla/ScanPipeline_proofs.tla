------------------------- MODULE ScanPipeline_proofs -------------------------
(***************************************************************************)
(* Theorems about ScanPipeline for every value of its constants: the       *)
(* types, that what is published is no older than the gate required and    *)
(* never goes back, and that the input gates leave the coverage that       *)
(* MIN_REPORT_COVERAGE is set to.                                          *)
(***************************************************************************)
EXTENDS ScanPipeline, FiniteSetTheorems, WellFoundedInduction, TLAPS

-----------------------------------------------------------------------------
(* Latest. *)

(* A non-empty set of natural numbers with an upper bound has a greatest. *)
LEMMA GreatestExists ==
    ASSUME NEW N \in Nat, NEW S \in SUBSET (0..N), S # {}
    PROVE  \E d \in S : \A x \in S : x <= d
<1> DEFINE Less == {ss \in Nat \X Nat : ss[1] < ss[2]}
           T == {N - x : x \in S}
<1>1. IsWellFoundedOn(Less, Nat)
  BY NatLessThanWellFounded DEF OpToRel
<1>2. T \in SUBSET Nat /\ T # {}
  <2>1. \A x \in S : N - x \in Nat
    OBVIOUS
  <2> QED
    BY <2>1
<1> HIDE DEF Less
<1>3. PICK m \in T : \A y \in T : <<y, m>> \notin Less
  <2> HIDE DEF T
  <2> QED
    BY <1>1, <1>2, WFMin
<1>4. PICK d \in S : m = N - d
  BY <1>3
<1>5. ASSUME NEW x \in S  PROVE x <= d
  <2>1. N - x \in T /\ N - x \in Nat /\ m \in Nat
    BY <1>2, <1>3
  <2>2. <<N - x, m>> \notin Less
    BY <1>3, <2>1
  <2>3. ~ (N - x < m)
    BY <2>1, <2>2 DEF Less
  <2> QED
    BY <2>3, <1>4
<1> QED
  BY <1>5

(* d is the latest of some days: what Latest chooses, and nothing else is. *)
IsLatest(days, d) == d \in days /\ \A x \in days : x <= d

LEMMA LatestType ==
    ASSUME NEW days \in SUBSET Day
    PROVE  /\ Latest(days) \in 0..MaxDay
           /\ \A x \in days : x <= Latest(days)
           /\ Latest(days) # 0 => IsLatest(days, Latest(days))
           /\ days # {} => IsLatest(days, Latest(days))
<1>1. CASE days = {}
  BY <1>1, PipelineAssumption DEF Latest
<1>2. CASE days # {}
  <2>1. days \in SUBSET (0..MaxDay)
    BY PipelineAssumption DEF Day
  <2>2. \E d \in days : \A x \in days : x <= d
    BY <1>2, <2>1, GreatestExists, PipelineAssumption
  <2>3. IsLatest(days, Latest(days))
    BY <1>2, <2>2 DEF Latest, IsLatest
  <2> QED
    BY <2>1, <2>3 DEF IsLatest
<1> QED
  BY <1>1, <1>2

LEMMA LatestIsUnique ==
    ASSUME NEW days \in SUBSET Day, NEW d, IsLatest(days, d)
    PROVE  Latest(days) = d
<1>1. IsLatest(days, Latest(days))
  BY LatestType DEF IsLatest
<1>2. d \in 1..MaxDay /\ Latest(days) \in 1..MaxDay
  BY <1>1 DEF IsLatest, Day
<1> QED
  BY <1>1, <1>2, PipelineAssumption DEF IsLatest

LEMMA LatestGrows ==
    ASSUME NEW few \in SUBSET Day, NEW many \in SUBSET Day, few \subseteq many
    PROVE  Latest(few) <= Latest(many)
<1>1. CASE few = {}
  <2>1. Latest(few) = 0
    BY <1>1 DEF Latest
  <2> QED
    BY <2>1, LatestType, PipelineAssumption
<1>2. CASE few # {}
  <2>1. Latest(few) \in many
    BY <1>2, LatestType DEF IsLatest
  <2> QED
    BY <2>1, LatestType
<1> QED
  BY <1>1, <1>2

-----------------------------------------------------------------------------
(* Types. *)

AllStored == UNION {stored[c] : c \in Company}
WeekdaysPast == {d \in Weekday : d <= day}

(* The temporary file is whole when it is about to become the cache. *)
TypeInv ==
    /\ PipelineTypeOK
    /\ At("written") => temporary \in Wholes

LEMMA DaysType ==
    ASSUME PipelineTypeOK
    PROVE  /\ AllStored \subseteq Day
           /\ WeekdaysPast \subseteq Day
           /\ benchmark \subseteq Day
           /\ NewestStock = Latest(AllStored)
           /\ Expected = Latest(WeekdaysPast)
           /\ NewestStock \in 0..MaxDay
           /\ Expected \in 0..MaxDay
           /\ Latest(benchmark) \in 0..MaxDay
<1>1. AllStored \subseteq Day
  BY DEF AllStored, PipelineTypeOK
<1>2. WeekdaysPast \subseteq Day
  BY PipelineAssumption DEF WeekdaysPast
<1>3. benchmark \subseteq Day
  BY DEF PipelineTypeOK
<1>4. NewestStock = Latest(AllStored) /\ Expected = Latest(WeekdaysPast)
  BY DEF NewestStock, Expected, AllStored, WeekdaysPast
<1> QED
  BY <1>1, <1>2, <1>3, <1>4, LatestType

LEMMA TypeStep == TypeInv /\ [Next]_vars => TypeInv'
<1> SUFFICES ASSUME PipelineTypeOK, At("written") => temporary \in Wholes, [Next]_vars
             PROVE  TypeInv'
  BY DEF TypeInv
<1> USE DEF TypeInv, PipelineTypeOK, At, GoTo, disk, tables
<1>0. MaxDay \in Nat /\ MaxKills \in Nat /\ 0 \in 0..MaxDay
  BY PipelineAssumption
<1>1. CASE EndDay
  <2>1. day' \in 0..MaxDay
    BY <1>0, <1>1 DEF EndDay
  <2> QED
    BY <1>1, <2>1 DEF EndDay, Disturbed
<1>2. ASSUME NEW c \in Company, NEW d \in Day, StoreCandle(c, d)  PROVE TypeInv'
  BY <1>2 DEF StoreCandle, Disturbed
<1>3. ASSUME NEW d \in Day, StoreBenchmark(d)  PROVE TypeInv'
  BY <1>3 DEF StoreBenchmark, Disturbed
<1>4. ASSUME NEW c \in Company, StoreQuote(c)  PROVE TypeInv'
  BY <1>4 DEF StoreQuote, Disturbed
<1>5. CASE Validate
  <2>1. cache' \in {Absent} \cup Wholes /\ temporary' \in {Absent, Partial} \cup Wholes
    BY <1>5 DEF Validate
  <2>2. /\ run'.stage = "validated"
        /\ run' \in [stage : Stages, expected : 0..MaxDay, session : 0..MaxDay,
                     reports : SUBSET Company, lost : SUBSET Company, quiet : BOOLEAN]
    BY <1>0, <1>5 DEF Validate, Idle, Stages
  <2> QED
    BY <1>5, <2>1, <2>2 DEF Validate
<1>6. CASE GateBuild
  <2>1. Expected \in 0..MaxDay
    BY DaysType
  <2> QED
    BY <1>6, <2>1 DEF GateBuild, Stages
<1>7. ASSUME NEW from, NEW to \in {"queried", "loading"}, QueryStock(from, to)
      PROVE  TypeInv'
  <2>1. NewestStock \in 0..MaxDay
    BY DaysType
  <2> QED
    BY <1>7, <2>1 DEF QueryStock, Stages
<1>8. ASSUME NEW from, NEW to \in {"aligned", "required"}, QueryBenchmark(from, to)
      PROVE  TypeInv'
  BY <1>8 DEF QueryBenchmark, Stages
<1>9. ASSUME NEW lost \in SUBSET OnSession, Scan(lost)  PROVE TypeInv'
  <2>1. OnSession \subseteq Company
    BY DEF OnSession
  <2>2. (IF run.quiet THEN lost ELSE {}) \in SUBSET Company
    BY <2>1
  <2>3. cache' = cache /\ temporary' = Partial
    BY <1>9 DEF Scan, OpenTemporary
  <2> QED
    BY <1>9, <2>1, <2>2, <2>3 DEF Scan, Stages
<1>11. CASE WriteTemporary
  <2>1. Whole(run.session, run.reports) \in Wholes
    BY DEF Whole, Wholes
  <2> QED
    BY <1>11, <2>1 DEF WriteTemporary, Stages
<1>12. CASE ReplaceCache
  BY <1>12 DEF ReplaceCache, Stages
<1>13. CASE ProceedToPublish
  BY <1>0, <1>13 DEF ProceedToPublish, Idle, Stages
<1>14. CASE LoadAndPublish
  <2>1. cache \in Wholes
    BY <1>14 DEF LoadAndPublish, Loads, Absent
  <2>2. cache.session \in 0..MaxDay
    BY <2>1 DEF Wholes
  <2> QED
    BY <1>0, <1>14, <2>2 DEF LoadAndPublish, Idle, Stages
<1>15. CASE Refuse
  BY <1>0, <1>15 DEF Refuse, Idle, Stages
<1>16. CASE Kill
  BY <1>0, <1>16 DEF Kill, Idle, Stages
<1>17. CASE UNCHANGED vars
  BY <1>17 DEF vars
<1> QED
  BY <1>1, <1>2, <1>3, <1>4, <1>5, <1>6, <1>7, <1>8, <1>9, <1>11, <1>12, <1>13,
     <1>14, <1>15, <1>16, <1>17 DEF Next, Ingestion, Workflow

LEMMA TypeInvariant == Spec => []TypeInv
<1>1. Init => TypeInv
  BY PipelineAssumption DEF Init, TypeInv, PipelineTypeOK, At, Absent, Idle, Stages
<1> QED
  BY <1>1, TypeStep, PTL DEF Spec

(***************************************************************************)
(* Every variable has its type; in particular the cache is absent or       *)
(* whole, wherever save is killed.                                         *)
(***************************************************************************)
THEOREM TypeCorrect == Spec => []PipelineTypeOK
BY TypeInvariant, PTL DEF TypeInv

-----------------------------------------------------------------------------
(* What is published is no older than what the gate required. *)

LEMMA CoversSome ==
    ASSUME NEW part, NEW whole, NEW percent \in 1..100, IsFiniteSet(part), IsFiniteSet(whole),
           Covers(part, whole, percent)
    PROVE  part # {}
<1> SUFFICES ASSUME part = {}  PROVE FALSE
  OBVIOUS
<1>1. Cardinality(part) = 0
  BY FS_EmptySet
<1>2. Cardinality(whole) \in Nat /\ Cardinality(whole) # 0
  BY FS_CardinalityType, FS_EmptySet DEF Covers
<1>3. percent * Cardinality(whole) <= 0
  BY <1>1 DEF Covers
<1>4. percent * Cardinality(whole) >= Cardinality(whole)
  BY <1>2
<1> QED
  BY <1>2, <1>3, <1>4

LEMMA InstrumentsFinite ==
    ASSUME NEW d
    PROVE  /\ Instruments(d) \in SUBSET Company
           /\ IsFiniteSet(Instruments(d))
           /\ Cardinality(Instruments(d)) \in 0..Cardinality(Company)
<1>1. IsFiniteSet(Company) /\ Instruments(d) \in SUBSET Company
  BY PipelineAssumption DEF Instruments
<1>2. IsFiniteSet(Instruments(d)) /\ Cardinality(Instruments(d)) <= Cardinality(Company)
  BY <1>1, FS_Subset
<1>3. Cardinality(Instruments(d)) \in Nat /\ Cardinality(Company) \in Nat
  BY <1>1, <1>2, FS_CardinalityType
<1> QED
  BY <1>1, <1>2, <1>3

(* A session is aligned only if the benchmark has it: the order that       *)
(* best_common_session sorts by has a first element.                       *)
LEMMA AlignedIsCommon ==
    ASSUME PipelineTypeOK, Aligned # 0
    PROVE  Aligned \in CommonSessions
<1>1. CommonSessions # {}
  BY DEF Aligned
<1>2. CommonSessions \in SUBSET (0..MaxDay)
  <2>1. benchmark \subseteq 1..MaxDay
    BY DEF PipelineTypeOK, Day
  <2>2. 1..MaxDay \subseteq 0..MaxDay
    OBVIOUS
  <2>3. CommonSessions \subseteq benchmark
    BY DEF CommonSessions
  <2> QED
    BY <2>1, <2>2, <2>3
<1> DEFINE sizes == {Cardinality(Instruments(d)) : d \in CommonSessions}
<1>3. sizes \in SUBSET (0..Cardinality(Company)) /\ sizes # {} /\ Cardinality(Company) \in Nat
  BY <1>1, InstrumentsFinite, FS_CardinalityType, PipelineAssumption
<1>4. PICK n \in sizes : \A x \in sizes : x <= n
  <2> HIDE DEF sizes
  <2> QED
    BY <1>3, GreatestExists
<1> DEFINE fullest == {d \in CommonSessions : Cardinality(Instruments(d)) = n}
<1>5. PICK d \in fullest : \A e \in fullest : e <= d
  <2>1. fullest \in SUBSET (0..MaxDay) /\ fullest # {}
    BY <1>2, <1>4
  <2> HIDE DEF fullest
  <2> QED
    BY <2>1, GreatestExists, PipelineAssumption
<1>6. ASSUME NEW e \in CommonSessions  PROVE Better(d, e)
  <2>1. Cardinality(Instruments(e)) \in Nat /\ n \in Nat /\ Cardinality(Instruments(e)) <= n
    BY <1>3, <1>4, InstrumentsFinite
  <2>2. CASE Cardinality(Instruments(e)) = n
    <3>1. e <= d /\ e \in Int /\ d \in Int
      BY <1>2, <1>5, <2>2
    <3> QED
      BY <2>2, <3>1, <1>5 DEF Better
  <2>3. CASE Cardinality(Instruments(e)) < n
    BY <2>1, <2>3, <1>5 DEF Better
  <2> QED
    BY <2>1, <2>2, <2>3
<1> QED
  BY <1>1, <1>5, <1>6 DEF Aligned

LEMMA GateSession ==
    ASSUME PipelineTypeOK, InputsReady
    PROVE  Expected = Aligned /\ Expected \in benchmark /\ Expected <= Latest(benchmark)
<1>1. Expected \in benchmark
  BY AlignedIsCommon DEF InputsReady, CommonSessions
<1>2. \A d \in benchmark : d <= Latest(benchmark)
  BY DaysType, LatestType
<1> QED
  BY <1>1, <1>2 DEF InputsReady

PastGate == Stages \ {"idle", "validated"}

(* The benchmark's newest session bounds what a run requires and what was  *)
(* published; the session that a run is about to load is that newest one   *)
(* when it was read.                                                       *)
GateInv ==
    /\ GateHolds
    /\ published.session <= Latest(benchmark)
    /\ run.stage \in PastGate => run.expected <= Latest(benchmark)
    /\ At("required") => /\ run.expected <= run.session
                         /\ published.session <= run.session
                         /\ run.session <= Latest(benchmark)

LEMMA GateStep ==
    PipelineTypeOK /\ PipelineTypeOK' /\ GateInv /\ [Next]_vars =>
        GateInv' /\ published'.session >= published.session
<1> SUFFICES ASSUME PipelineTypeOK, PipelineTypeOK', GateInv, [Next]_vars
             PROVE  GateInv' /\ published'.session >= published.session
  OBVIOUS
<1> USE DEF GateInv, GateHolds, At, GoTo, PastGate, Stages, disk, tables
<1>0. /\ Latest(benchmark) \in Int /\ Latest(benchmark') \in Int
      /\ published.session \in Int /\ published.expected \in Int
      /\ run.session \in Int /\ run.expected \in Int
      /\ 0 <= Latest(benchmark) /\ 0 <= run.session /\ MaxDay \in Nat
  BY DaysType, LatestType, PipelineAssumption DEF PipelineTypeOK
<1>t. run \in [stage : Stages, expected : 0..MaxDay, session : 0..MaxDay,
               reports : SUBSET Company, lost : SUBSET Company, quiet : BOOLEAN]
  BY DEF PipelineTypeOK
<1>1. CASE EndDay
  BY <1>0, <1>t, <1>1 DEF EndDay, Disturbed
<1>2. ASSUME NEW c \in Company, NEW d \in Day, StoreCandle(c, d)
      PROVE  GateInv' /\ published'.session >= published.session
  BY <1>0, <1>t, <1>2 DEF StoreCandle, Disturbed
<1>3. ASSUME NEW d \in Day, StoreBenchmark(d)
      PROVE  GateInv' /\ published'.session >= published.session
  <2>1. Latest(benchmark) <= Latest(benchmark')
    BY <1>3, LatestGrows DEF StoreBenchmark, PipelineTypeOK
  <2> QED
    BY <1>0, <1>t, <1>3, <2>1 DEF StoreBenchmark, Disturbed
<1>4. ASSUME NEW c \in Company, StoreQuote(c)
      PROVE  GateInv' /\ published'.session >= published.session
  BY <1>0, <1>t, <1>4 DEF StoreQuote, Disturbed
<1>5. CASE Validate
  BY <1>0, <1>t, <1>5 DEF Validate, Idle
<1>6. CASE GateBuild
  <2>1. Expected <= Latest(benchmark)
    BY <1>6, GateSession DEF GateBuild
  <2> QED
    BY <1>0, <1>t, <1>6, <2>1 DEF GateBuild
<1>7. ASSUME NEW from \in {"gated", "checked"}, NEW to \in {"queried", "loading"},
             QueryStock(from, to)
      PROVE  GateInv' /\ published'.session >= published.session
  BY <1>0, <1>t, <1>7 DEF QueryStock
<1>8. ASSUME NEW from \in {"queried", "loading"}, NEW to \in {"aligned", "required"},
             QueryBenchmark(from, to)
      PROVE  GateInv' /\ published'.session >= published.session
  BY <1>0, <1>t, <1>8 DEF QueryBenchmark
<1>9. ASSUME NEW lost \in SUBSET OnSession, Scan(lost)
      PROVE  GateInv' /\ published'.session >= published.session
  BY <1>0, <1>t, <1>9 DEF Scan
<1>11. CASE WriteTemporary
  BY <1>0, <1>t, <1>11 DEF WriteTemporary
<1>12. CASE ReplaceCache
  BY <1>0, <1>t, <1>12 DEF ReplaceCache
<1>13. CASE ProceedToPublish
  BY <1>0, <1>t, <1>13 DEF ProceedToPublish, Idle
<1>14. CASE LoadAndPublish
  BY <1>0, <1>t, <1>14 DEF LoadAndPublish, Loads, Idle
<1>15. CASE Refuse
  BY <1>0, <1>t, <1>15 DEF Refuse, Idle
<1>16. CASE Kill
  BY <1>0, <1>t, <1>16 DEF Kill, Idle
<1>17. CASE UNCHANGED vars
  BY <1>0, <1>17 DEF vars
<1> QED
  BY <1>1, <1>2, <1>3, <1>4, <1>5, <1>6, <1>7, <1>8, <1>9, <1>11, <1>12, <1>13,
     <1>14, <1>15, <1>16, <1>17 DEF Next, Ingestion, Workflow

LEMMA GateInvariant == Spec => [](PipelineTypeOK /\ GateInv)
<1>1. Init => GateInv
  <2> SUFFICES ASSUME Init  PROVE GateInv
    OBVIOUS
  <2>1. Latest(benchmark) = 0
    BY DEF Init, Latest
  <2> QED
    BY <2>1 DEF Init, GateInv, GateHolds, At, PastGate, Idle
<1>2. PipelineTypeOK /\ PipelineTypeOK' /\ GateInv /\ [Next]_vars => GateInv'
  BY GateStep
<1> QED
  BY <1>1, <1>2, TypeCorrect, PTL DEF Spec

(***************************************************************************)
(* What is published is of no older session than the one that the build's  *)
(* gate required, however the tables change between the commands.          *)
(***************************************************************************)
THEOREM GateIsKept == Spec => []GateHolds
BY GateInvariant, PTL DEF GateInv

(***************************************************************************)
(* Publications never go back in time.                                     *)
(***************************************************************************)
THEOREM PublicationsGoForward == Spec => PublishedForward
<1>1. (PipelineTypeOK /\ GateInv) /\ (PipelineTypeOK /\ GateInv)' /\ [Next]_vars =>
          [published'.session >= published.session]_published
  BY GateStep
<1> QED
  BY <1>1, GateInvariant, PTL DEF Spec, PublishedForward

-----------------------------------------------------------------------------
(* The input gates leave MIN_REPORT_COVERAGE. *)

(* Two parts of a finite set overlap by what their coverages exceed the    *)
(* whole.                                                                  *)
LEMMA CoveragesOverlap ==
    ASSUME NEW whole, IsFiniteSet(whole),
           NEW one \in SUBSET whole, NEW other \in SUBSET whole,
           NEW p \in 1..100, NEW q \in 1..100, NEW r \in 0..(p + q - 100),
           Covers(one, whole, p), Covers(other, whole, q)
    PROVE  Covers(one \cap other, whole, r)
<1> DEFINE n == Cardinality(whole)
           a == Cardinality(one)
           b == Cardinality(other)
           u == Cardinality(one \cup other)
           i == Cardinality(one \cap other)
<1>1. IsFiniteSet(one) /\ IsFiniteSet(other) /\ IsFiniteSet(one \cap other)
  BY FS_Subset, FS_Intersection
<1>2. IsFiniteSet(one \cup other) /\ u = a + b - i
  BY <1>1, FS_Union
<1>3. u <= n
  <2>1. one \cup other \in SUBSET whole
    OBVIOUS
  <2> QED
    BY <2>1, FS_Subset
<1>4. n \in Nat /\ a \in Nat /\ b \in Nat /\ u \in Nat /\ i \in Nat
  BY <1>1, <1>2, FS_CardinalityType
<1>5. 100 * a >= p * n /\ 100 * b >= q * n /\ whole # {}
  BY DEF Covers
<1> HIDE DEF n, a, b, u, i
<1>6. i >= a + b - n
  BY <1>2, <1>3, <1>4
<1>7. 100 * i >= p * n + q * n - 100 * n
  <2>1. p * n \in Int /\ q * n \in Int
    BY <1>4
  <2> QED
    BY <1>4, <1>5, <1>6, <2>1
<1>8. r * n <= p * n + q * n - 100 * n
  <2>1. r <= p + q - 100 /\ r \in Int /\ p + q - 100 \in Int
    OBVIOUS
  <2>2. r * n <= (p + q - 100) * n
    BY <1>4, <2>1
  <2>3. (p + q - 100) * n = p * n + q * n - 100 * n
    BY <1>4
  <2> QED
    BY <2>2, <2>3
<1>9. 100 * i >= r * n
  <2>1. r * n \in Int /\ p * n + q * n - 100 * n \in Int
    BY <1>4
  <2> QED
    BY <1>4, <1>7, <1>8, <2>1
<1> QED
  BY <1>5, <1>9 DEF Covers, n, i

LEMMA CoversMore ==
    ASSUME NEW whole, IsFiniteSet(whole), NEW more \in SUBSET whole, NEW part \in SUBSET more,
           NEW percent \in Nat, Covers(part, whole, percent)
    PROVE  Covers(more, whole, percent)
<1>1. IsFiniteSet(more)
  BY FS_Subset
<1>2. /\ Cardinality(part) <= Cardinality(more)
      /\ Cardinality(part) \in Nat /\ Cardinality(more) \in Nat /\ Cardinality(whole) \in Nat
  BY <1>1, FS_Subset, FS_CardinalityType
<1>3. percent * Cardinality(whole) \in Int
  BY <1>2
<1> QED
  BY <1>2, <1>3 DEF Covers

(* What a run that was not disturbed knows of the tables, stage by stage:  *)
(* the gate's session and its coverages; the newest session; the reports,  *)
(* kept or lost.                                                           *)
(* Days are characterised by IsLatest, which needs no choice.              *)
Gated == {"gated", "queried", "aligned", "writing", "written", "built"}
Queried == Gated \ {"gated"}
Scanned == Queried \ {"queried", "aligned"}

QuietInv ==
    run.quiet =>
        /\ run.stage \in Gated =>
              /\ IsLatest(WeekdaysPast, run.expected)
              /\ run.expected \in benchmark
              /\ Covers(Instruments(run.expected), Company, MIN_STOCK_COVERAGE)
              /\ Covers(quotes, Company, MIN_QUOTE_COVERAGE)
        /\ run.stage \in Queried =>
              IsLatest(AllStored, run.session) \/ (At("queried") /\ run.session = 0)
        /\ run.stage \in Scanned => run.reports \cup run.lost = OnSession

LEMMA QuietStep == PipelineTypeOK /\ QuietInv /\ [Next]_vars => QuietInv'
<1> SUFFICES ASSUME PipelineTypeOK, QuietInv, [Next]_vars  PROVE QuietInv'
  OBVIOUS
<1> USE DEF QuietInv, At, GoTo, disk, tables, Gated, Queried, Scanned
<1>t. run \in [stage : Stages, expected : 0..MaxDay, session : 0..MaxDay,
               reports : SUBSET Company, lost : SUBSET Company, quiet : BOOLEAN]
  BY DEF PipelineTypeOK
<1>1. CASE Disturbed
  BY <1>t, <1>1 DEF Disturbed
<1>2. CASE run' = Idle
  BY <1>2 DEF Idle
<1>3. CASE Validate
  BY <1>3 DEF Validate, Idle
<1> DEFINE Still == day' = day /\ stored' = stored /\ benchmark' = benchmark /\ quotes' = quotes
<1> USE DEF IsLatest, WeekdaysPast, AllStored, Instruments, Covers, OnSession
<1>4. CASE GateBuild
  <2>1. Expected = Aligned /\ Aligned # 0 /\ Expected \in benchmark
    BY <1>4, GateSession DEF GateBuild, InputsReady
  <2>2. IsLatest(WeekdaysPast, Expected)
    BY <2>1, DaysType, LatestType
  <2>3. /\ Covers(Instruments(Expected), Company, MIN_STOCK_COVERAGE)
        /\ Covers(quotes, Company, MIN_QUOTE_COVERAGE)
    BY <1>4, <2>1 DEF GateBuild, InputsReady
  <2>4. Still /\ run'.stage = "gated" /\ run'.expected = Expected
    BY <1>t, <1>4 DEF GateBuild
  <2> QED
    BY <2>1, <2>2, <2>3, <2>4
<1>5. CASE QueryStock("gated", "queried")
  <2>1. Still /\ run' = [run EXCEPT !.stage = "queried", !.session = NewestStock]
    BY <1>5 DEF QueryStock
  <2>2. NewestStock = 0 \/ IsLatest(AllStored, NewestStock)
    <3> HIDE DEF IsLatest, AllStored
    <3> QED
      BY DaysType, LatestType
  <2>3. run.stage = "gated" /\ run'.stage = "queried" /\ run'.session = NewestStock
        /\ run'.quiet = run.quiet /\ run'.expected = run.expected
    BY <1>t, <1>5, <2>1 DEF QueryStock
  <2>4. run'.session = 0 \/ IsLatest(AllStored, run.session)'
    <3>1. AllStored' = AllStored
      BY <2>1
    <3> HIDE DEF AllStored
    <3> QED
      BY <2>2, <2>3, <3>1
  <2> HIDE DEF AllStored
  <2> QED
    BY <2>1, <2>3, <2>4
<1>6. CASE QueryBenchmark("queried", "aligned")
  BY <1>t, <1>6 DEF QueryBenchmark
<1>7. ASSUME NEW lost \in SUBSET OnSession, Scan(lost)  PROVE QuietInv'
  <2> SUFFICES ASSUME run'.quiet  PROVE QuietInv'
    OBVIOUS
  <2>1. Still
    BY <1>7 DEF Scan
  <2>2. /\ run.stage = "aligned" /\ run'.stage = "writing" /\ run.quiet
        /\ run'.expected = run.expected /\ run'.session = run.session
        /\ run'.reports = OnSession \ lost
        /\ run'.lost = IF run.quiet THEN lost ELSE {}
    <3> HIDE DEF OnSession, QuietInv
    <3> QED
      BY <1>t, <1>7 DEF Scan
  <2>3. run'.reports \cup run'.lost = OnSession
    <3> HIDE DEF OnSession, QuietInv
    <3> QED
      BY <1>7, <2>2
  <2>4. OnSession' = OnSession
    BY <2>1, <2>2
  <2>5. /\ IsLatest(WeekdaysPast, run.expected) /\ run.expected \in benchmark
        /\ Covers(Instruments(run.expected), Company, MIN_STOCK_COVERAGE)
        /\ Covers(quotes, Company, MIN_QUOTE_COVERAGE)
        /\ IsLatest(AllStored, run.session)
    <3> HIDE DEF IsLatest, WeekdaysPast, AllStored, Instruments, Covers, OnSession
    <3> QED
      BY <2>2
  <2>6. WeekdaysPast' = WeekdaysPast /\ AllStored' = AllStored
    BY <2>1
  <2> HIDE DEF IsLatest, WeekdaysPast, AllStored, Instruments, Covers, OnSession
  <2>7. /\ IsLatest(WeekdaysPast', run'.expected) /\ run'.expected \in benchmark'
        /\ Covers(Instruments(run.expected), Company, MIN_STOCK_COVERAGE)
        /\ Covers(quotes', Company, MIN_QUOTE_COVERAGE)
        /\ IsLatest(AllStored', run'.session)
    BY <2>1, <2>2, <2>5, <2>6
  <2>8. Instruments(run.expected)' = Instruments(run.expected)
    BY <2>1, <2>2 DEF Instruments
  <2> QED
    BY <2>2, <2>3, <2>4, <2>7, <2>8
<1>9. CASE WriteTemporary
  BY <1>t, <1>9 DEF WriteTemporary
<1>10. CASE ReplaceCache
  BY <1>t, <1>10 DEF ReplaceCache
<1>11. CASE ProceedToPublish
  BY <1>t, <1>11 DEF ProceedToPublish, Idle
<1>12. CASE QueryStock("checked", "loading")
  BY <1>t, <1>12 DEF QueryStock
<1>13. CASE QueryBenchmark("loading", "required")
  BY <1>t, <1>13 DEF QueryBenchmark
<1>14. CASE UNCHANGED vars
  BY <1>14 DEF vars
<1> QED
  BY <1>1, <1>2, <1>3, <1>4, <1>5, <1>6, <1>7, <1>9, <1>10, <1>11, <1>12, <1>13, <1>14
  DEF Next, Ingestion, Workflow, EndDay, StoreCandle, StoreBenchmark, StoreQuote,
      LoadAndPublish, Refuse, Kill

LEMMA QuietInvariant == Spec => [](PipelineTypeOK /\ QuietInv)
<1>1. Init => QuietInv
  BY DEF Init, Idle, QuietInv
<1> QED
  BY <1>1, QuietStep, TypeCorrect, PTL DEF Spec

LEMMA QuietCovers == PipelineTypeOK /\ QuietInv => BuiltCovers
<1> SUFFICES ASSUME PipelineTypeOK, QuietInv, At("built"), run.quiet, NewestStock <= Expected
             PROVE  Covers(run.reports \cup run.lost, Company, MIN_REPORT_COVERAGE)
  BY DEF BuiltCovers
<1>1. /\ IsLatest(WeekdaysPast, run.expected) /\ run.expected \in benchmark
      /\ Covers(Instruments(run.expected), Company, MIN_STOCK_COVERAGE)
      /\ Covers(quotes, Company, MIN_QUOTE_COVERAGE)
      /\ IsLatest(AllStored, run.session)
      /\ run.reports \cup run.lost = {c \in quotes : Latest(stored[c]) = run.session}
  BY DEF QuietInv, At, Gated, Queried, Scanned, OnSession
<1>2. Expected = run.expected /\ NewestStock = run.session
  BY <1>1, DaysType, LatestIsUnique
<1>3. IsFiniteSet(Company) /\ IsFiniteSet(Instruments(run.expected))
  BY InstrumentsFinite, PipelineAssumption
<1>4. PICK c \in Instruments(run.expected) : TRUE
  BY <1>1, <1>3, CoversSome, PipelineAssumption
<1>5. run.session = run.expected
  <2>1. run.expected \in AllStored
    BY <1>4 DEF Instruments, AllStored
  <2>2. run.expected <= run.session
    BY <1>1, <2>1 DEF IsLatest
  <2>3. run.session \in Int /\ run.expected \in Int
    BY <1>2, DaysType
  <2> QED
    BY <1>2, <2>2, <2>3
<1>6. Instruments(run.expected) \cap quotes \subseteq run.reports \cup run.lost
  <2> SUFFICES ASSUME NEW x \in Instruments(run.expected) \cap quotes
               PROVE  Latest(stored[x]) = run.session
    BY <1>1
  <2>1. x \in Company /\ stored[x] \in SUBSET Day /\ run.session \in stored[x]
    BY <1>5 DEF Instruments, PipelineTypeOK
  <2>2. \A d \in stored[x] : d <= run.session
    BY <1>1, <2>1 DEF IsLatest, AllStored
  <2> QED
    BY <2>1, <2>2, LatestIsUnique DEF IsLatest
<1>7. /\ Instruments(run.expected) \in SUBSET Company /\ quotes \in SUBSET Company
      /\ run.reports \cup run.lost \in SUBSET Company
  BY <1>1, InstrumentsFinite DEF PipelineTypeOK
<1>8. Covers(Instruments(run.expected) \cap quotes, Company, MIN_REPORT_COVERAGE)
  BY <1>1, <1>3, <1>7, CoveragesOverlap, PipelineAssumption
<1>9. MIN_REPORT_COVERAGE \in Nat
  BY PipelineAssumption
<1> QED
  BY <1>3, <1>6, <1>7, <1>8, <1>9, CoversMore

(***************************************************************************)
(* When inputs pass the stock and the quote gate and stand still, each of  *)
(* MIN_REPORT_COVERAGE of the companies has a report in the cache or an    *)
(* exception that the scan swallowed.                                      *)
(***************************************************************************)
THEOREM GatesCover == Spec => []BuiltCovers
BY QuietInvariant, QuietCovers, PTL
=============================================================================
