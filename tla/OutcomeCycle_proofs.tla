------------------------ MODULE OutcomeCycle_proofs ------------------------
(***************************************************************************)
(* Theorems about OutcomeCycle for every value of its constants.           *)
(***************************************************************************)
EXTENDS OutcomeCycle, FiniteSetTheorems, WellFoundedInduction, TLAPS

-----------------------------------------------------------------------------
(* Extremes of sets of numbers. *)

(* A non-empty set of natural numbers has a least element. *)
LEMMA LowestOfNaturals ==
    ASSUME NEW S \in SUBSET Nat, S # {}
    PROVE  Lowest(S) \in S /\ \A x \in S : Lowest(S) <= x
<1> DEFINE Less == {ss \in Nat \X Nat : ss[1] < ss[2]}
<1>1. IsWellFoundedOn(Less, Nat)
  BY NatLessThanWellFounded DEF OpToRel
<1> HIDE DEF Less
<1>2. PICK d \in S : \A x \in S : <<x, d>> \notin Less
  BY <1>1, WFMin
<1>3. ASSUME NEW x \in S  PROVE d <= x
  <2>1. x \in Nat /\ d \in Nat
    OBVIOUS
  <2>2. <<x, d>> \notin Less
    BY <1>2
  <2>3. ~ (x < d)
    BY <2>1, <2>2 DEF Less
  <2> QED
    BY <2>1, <2>3
<1> QED
  BY <1>3 DEF Lowest

(* A non-empty set of natural numbers with an upper bound has a greatest. *)
LEMMA HighestOfBounded ==
    ASSUME NEW N \in Nat, NEW S \in SUBSET (0..N), S # {}
    PROVE  Highest(S) \in S /\ \A x \in S : x <= Highest(S)
<1> DEFINE T == {N - x : x \in S}
<1>1. T \in SUBSET Nat /\ T # {}
  <2>1. \A x \in S : N - x \in Nat
    OBVIOUS
  <2> QED
    BY <2>1
<1>2. Lowest(T) \in T /\ \A y \in T : Lowest(T) <= y
  BY <1>1, LowestOfNaturals
<1>3. PICK d \in S : Lowest(T) = N - d
  BY <1>2
<1>4. \A x \in S : N - d <= N - x
  BY <1>2, <1>3
<1>5. \A x \in S : x <= d
  BY <1>4
<1> QED
  BY <1>5 DEF Highest

-----------------------------------------------------------------------------
(* Types of the operators of the model. *)

History == [Session -> Candle \cup {Null}]

(* What is stored is a candle, at a session. *)
LEMMA StoredType ==
    ASSUME NEW history \in History
    PROVE  /\ Stored(history) \subseteq Session
           /\ \A d \in Stored(history) : history[d] \in Candle
BY DEF History, Stored

LEMMA LatestStoredType ==
    ASSUME NEW history \in History
    PROVE  /\ LatestStored(history) \in 0..MaxSession
           /\ \A d \in Stored(history) : d <= LatestStored(history)
<1>1. CASE Stored(history) = {}
  BY <1>1, CycleAssumption DEF LatestStored
<1>2. CASE Stored(history) # {}
  <2>1. Stored(history) \in SUBSET (0..MaxSession)
    BY StoredType DEF Session
  <2> QED
    BY <1>2, <2>1, HighestOfBounded, CycleAssumption DEF LatestStored
<1> QED
  BY <1>1, <1>2

LEMMA UpsertType ==
    ASSUME NEW history \in History, NEW lo, NEW hi, NEW answer \in Answers(lo, hi)
    PROVE  Upsert(history, answer) \in History
<1>1. PICK D \in SUBSET Session : answer \in [D -> Candle]
  BY DEF Answers
<1> QED
  BY <1>1 DEF Upsert, History

LEMMA PrunedType ==
    ASSUME NEW history \in History
    PROVE  Pruned(history) \in History
BY DEF Pruned, History

LEMMA WindowType ==
    ASSUME NEW history \in History, NEW e
    PROVE  /\ Window(history, e) \subseteq Session
           /\ \A d \in Window(history, e) : history[d] \in Candle /\ d > e
BY StoredType DEF Window, Forward

LEMMA PositionType ==
    ASSUME NEW S \in SUBSET Session, NEW d
    PROVE  Position(S, d) \in Nat
<1>1. IsFiniteSet(1..MaxSession)
  BY FS_Interval, CycleAssumption
<1>2. {x \in S : x <= d} \in SUBSET (1..MaxSession)
  BY DEF Session
<1> QED
  BY <1>1, <1>2, FS_Subset, FS_CardinalityType DEF Position

(* Labelling a row yields labels. *)
LEMMA RelabelledType ==
    ASSUME NEW row \in Row, NEW history \in History,
           NEW W \in SUBSET Session, W # {}, \A d \in W : history[d] \in Candle
    PROVE  Relabelled(row, history, W) \in Labels
<1> DEFINE pivot == row.obs.pivot
           touch == Touching(history, W, pivot)
           old   == row.labels
<1>1. old \in Labels /\ pivot \in Price
  BY DEF Row, Observations
<1>2. \A d \in W : /\ history[d].high \in Price
                   /\ history[d].low \in Price
                   /\ history[d].close \in Price
  BY CycleAssumption
<1>3. ASSUME NEW h \in HORIZONS
      PROVE  ReturnAfter(history, W, h, old.returns[h]) \in Price \cup {Null}
  <2>1. old.returns[h] \in Price \cup {Null}
    BY <1>1 DEF Labels
  <2>2. \A d \in Nth(W, h) : d \in W
    BY DEF Nth
  <2> QED
    BY <1>2, <2>1, <2>2 DEF ReturnAfter
<1>4. Highest({history[d].high : d \in W}) \in Price
  <2>1. {history[d].high : d \in W} \in SUBSET (0..MaxPrice)
    BY <1>2 DEF Price
  <2>2. {history[d].high : d \in W} # {}
    OBVIOUS
  <2>3. Highest({history[d].high : d \in W}) \in {history[d].high : d \in W}
    BY <2>1, <2>2, HighestOfBounded, CycleAssumption
  <2> QED
    BY <1>2, <2>3
<1>5. Lowest({history[d].low : d \in W}) \in Price
  <2>1. {history[d].low : d \in W} \in SUBSET Nat
    BY <1>2 DEF Price
  <2>2. {history[d].low : d \in W} # {}
    OBVIOUS
  <2>3. Lowest({history[d].low : d \in W}) \in {history[d].low : d \in W}
    BY <2>1, <2>2, LowestOfNaturals
  <2> QED
    BY <1>2, <2>3
<1>6. touch # {} => Lowest(touch) \in Session
  <2>1. touch \subseteq Session
    BY DEF Touching
  <2>2. Session \subseteq Nat
    BY DEF Session
  <2>3. touch # {} => Lowest(touch) \in touch
    BY <2>1, <2>2, LowestOfNaturals
  <2> QED
    BY <2>1, <2>3
<1>7. Position(W, Lowest(touch)) \in Nat
  BY PositionType
<1>8. Highest(W) \in Session
  <2>1. W \in SUBSET (0..MaxSession)
    BY DEF Session
  <2> QED
    BY <2>1, HighestOfBounded, CycleAssumption
<1>9. ASSUME NEW found \in BOOLEAN, NEW was \in BOOLEAN \cup {Null}
      PROVE  BreakoutFlag(touch, W, found, was) \in BOOLEAN \cup {Null}
  BY <1>9 DEF BreakoutFlag
<1>10. Fails(history, W, Lowest(touch), pivot) \in BOOLEAN /\ Full(W) \in BOOLEAN
  BY DEF Fails, Full
<1>11. /\ BreakoutFlag(touch, W, TRUE, old.breakout_occurred) \in BOOLEAN \cup {Null}
       /\ BreakoutFlag(touch, W, Fails(history, W, Lowest(touch), pivot),
                       old.failed_breakout) \in BOOLEAN \cup {Null}
  BY <1>1, <1>9, <1>10 DEF Labels
<1>12. /\ old.breakout_session \in Session \cup {Null}
       /\ old.sessions_to_breakout \in Nat \cup {Null}
  BY <1>1 DEF Labels
<1>13. [h \in HORIZONS |-> ReturnAfter(history, W, h, old.returns[h])]
         \in [HORIZONS -> Price \cup {Null}]
  BY <1>3
<1> HIDE DEF pivot, touch, old
<1> QED
  BY <1>4, <1>5, <1>6, <1>7, <1>8, <1>10, <1>11, <1>12, <1>13
  DEF Relabelled, Labels, pivot, touch, old

(* One iteration of evaluate_pending keeps the row a row, and what it      *)
(* observed as it was.                                                     *)
LEMMA EvaluateType ==
    ASSUME NEW row \in Row, NEW history \in History, NEW e
    PROVE  /\ Evaluate(row, history, e) \in Row
           /\ Evaluate(row, history, e).obs = row.obs
<1>1. CASE Window(history, e) = {}
  BY <1>1 DEF Evaluate
<1>2. CASE Window(history, e) # {}
  <2>1. Relabelled(row, history, Window(history, e)) \in Labels
    BY <1>2, WindowType, RelabelledType
  <2>2. Evaluate(row, history, e)
          = [row EXCEPT !.labels = Relabelled(row, history, Window(history, e))]
    BY <1>2 DEF Evaluate
  <2> QED
    BY <2>1, <2>2 DEF Row
<1> QED
  BY <1>1, <1>2

-----------------------------------------------------------------------------
(* Type correctness. *)

(***************************************************************************)
(* TypeOK is not inductive alone: the evaluation loop saves rows it loaded *)
(* earlier, so that they exist, and are still pending because no other     *)
(* step labels a row, has to be carried along.                             *)
(***************************************************************************)
TypeInv == TypeOK /\ (phase = "evaluating" => todo \subseteq Pending)

(* What capture records of a report it accepts. *)
LEMMA ObservedType ==
    ASSUME TypeOK, NEW s \in Symbol, NEW r \in Report, ReportFits(s, r), Capturable(r)
    PROVE  Observed(s, r) \in Observations
<1>1. Stored(candles[s]) # {}
  BY DEF ReportFits, Capturable
<1>2. candles[s] \in History
  BY DEF TypeOK, History
<1>3. LatestStored(candles[s]) \in Session
  <2>1. Stored(candles[s]) \in SUBSET (0..MaxSession)
    BY <1>2, StoredType DEF Session
  <2>2. LatestStored(candles[s]) \in Stored(candles[s])
    BY <1>1, <2>1, HighestOfBounded, CycleAssumption DEF LatestStored
  <2> QED
    BY <1>2, <2>2, StoredType
<1>4. r.level \in Price /\ r.last_price \in Price
  BY CycleAssumption DEF Report, Capturable
<1> QED
  BY <1>3, <1>4 DEF Observed, Observations

(* A saved setup is the labelled row, and no other row is touched. *)
LEMMA SaveEffect ==
    ASSUME TypeInv, NEW k \in Symbol \X Session, SaveOutcome(k)
    PROVE  /\ setups' \in [Symbol -> [Session -> Row \cup {Null}]]
           /\ setups[k[1]][k[2]] \in Row
           /\ setups'[k[1]][k[2]] = Evaluate(setups[k[1]][k[2]], view[k[1]], k[2])
           /\ setups'[k[1]][k[2]] \in Row
           /\ setups'[k[1]][k[2]].obs = setups[k[1]][k[2]].obs
           /\ \A j \in Symbol \X Session : j # k => setups'[j[1]][j[2]] = setups[j[1]][j[2]]
<1>1. setups[k[1]][k[2]] \in Row
  BY DEF TypeInv, TypeOK, SaveOutcome, Recorded, Pending
<1>2. view[k[1]] \in History
  BY DEF TypeInv, TypeOK, History
<1>3. /\ Evaluate(setups[k[1]][k[2]], view[k[1]], k[2]) \in Row
      /\ Evaluate(setups[k[1]][k[2]], view[k[1]], k[2]).obs = setups[k[1]][k[2]].obs
  BY <1>1, <1>2, EvaluateType
<1>4. setups \in [Symbol -> [Session -> Row \cup {Null}]]
  BY DEF TypeInv, TypeOK
<1>5. setups' = [setups EXCEPT ![k[1]][k[2]] =
                   Evaluate(setups[k[1]][k[2]], view[k[1]], k[2])]
  BY DEF SaveOutcome
<1> QED
  BY <1>1, <1>3, <1>4, <1>5

(* What a scan does to one key: nothing, or a fresh row where there was none. *)
LEMMA CaptureEffect ==
    ASSUME TypeInv, ScanAndCapture
    PROVE  /\ setups' \in [Symbol -> [Session -> Row \cup {Null}]]
           /\ \A k \in Symbol \X Session :
                \/ setups'[k[1]][k[2]] = setups[k[1]][k[2]]
                \/ /\ setups[k[1]][k[2]] = Null
                   /\ \E o \in Observations :
                        setups'[k[1]][k[2]] = [obs |-> o, labels |-> NoLabels]
<1>1. PICK reports \in [Symbol -> Report] :
        /\ \A s \in Symbol : ReportFits(s, reports[s])
        /\ setups' = [s \in Symbol |-> GetOrCreate(setups[s], s, session, reports[s])]
  BY DEF ScanAndCapture
<1>2. ASSUME NEW o \in Observations
      PROVE  [obs |-> o, labels |-> NoLabels] \in Row
  BY DEF Row, Labels, NoLabels
<1>3. ASSUME NEW s \in Symbol
      PROVE  LET rows == GetOrCreate(setups[s], s, session, reports[s]) IN
             /\ rows \in [Session -> Row \cup {Null}]
             /\ \A d \in Session :
                  \/ rows[d] = setups[s][d]
                  \/ /\ setups[s][d] = Null
                     /\ \E o \in Observations : rows[d] = [obs |-> o, labels |-> NoLabels]
  <2>1. setups[s] \in [Session -> Row \cup {Null}]
    BY DEF TypeInv, TypeOK
  <2>2. CASE Capturable(reports[s]) /\ setups[s][session] = Null
    <3>1. Observed(s, reports[s]) \in Observations
      BY <1>1, <2>2, ObservedType DEF TypeInv
    <3>2. GetOrCreate(setups[s], s, session, reports[s])
            = [setups[s] EXCEPT ![session] =
                 [obs |-> Observed(s, reports[s]), labels |-> NoLabels]]
      BY <2>2 DEF GetOrCreate
    <3> QED
      BY <1>2, <2>1, <2>2, <3>1, <3>2
  <2>3. CASE ~ (Capturable(reports[s]) /\ setups[s][session] = Null)
    BY <2>1, <2>3 DEF GetOrCreate
  <2> QED
    BY <2>2, <2>3
<1> QED
  BY <1>1, <1>3

(* Every variable keeps its type, whatever the bounds, the horizons, the   *)
(* retention and the number of symbols.                                    *)
LEMMA TypeInvariant == Spec => []TypeInv
<1>1. Init => TypeInv
  <2> SUFFICES ASSUME Init  PROVE TypeInv
    OBVIOUS
  <2>1. 0 \in 0..MaxSession
    BY CycleAssumption
  <2>2. /\ candles \in [Symbol -> [Session -> Candle \cup {Null}]]
        /\ view \in [Symbol -> [Session -> Candle \cup {Null}]]
        /\ setups \in [Symbol -> [Session -> Row \cup {Null}]]
        /\ repair \in [Symbol -> RequestRange \cup {Null}]
    BY DEF Init
  <2> QED
    BY <2>1, <2>2 DEF Init, TypeInv, TypeOK, Phases
<1>2. TypeInv /\ [Next]_vars => TypeInv'
  <2> SUFFICES ASSUME TypeInv, [Next]_vars  PROVE TypeInv'
    OBVIOUS
  <2> USE DEF TypeInv, TypeOK, Recorded, Pending
  <2>1. ASSUME CloseSession  PROVE TypeInv'
    <3>1. latest + 1 \in 0..MaxSession
      BY <2>1, CycleAssumption DEF CloseSession
    <3> QED
      BY <2>1, <3>1 DEF CloseSession, cycleVars
  <2>2. ASSUME StartCycle  PROVE TypeInv'
    BY <2>2 DEF StartCycle, Phases
  <2>3. ASSUME NEW s \in Symbol, SyncSymbol(s)  PROVE TypeInv'
    <3>1. PICK answer \in Answers(LatestStored(candles[s]) + 1, session) :
            candles' = [candles EXCEPT ![s] = Upsert(candles[s], answer)]
      BY <2>3 DEF SyncSymbol
    <3>2. Upsert(candles[s], answer) \in [Session -> Candle \cup {Null}]
      BY UpsertType DEF History
    <3> QED
      BY <2>3, <3>1, <3>2 DEF SyncSymbol
  <2>4. ASSUME SyncBenchmark  PROVE TypeInv'
    <3>1. bench' \in 0..MaxSession
      BY <2>4 DEF SyncBenchmark, Session
    <3> QED
      BY <2>4, <3>1 DEF SyncBenchmark, Phases
  <2>5. ASSUME PruneRetention  PROVE TypeInv'
    <3>1. \A s \in Symbol : Pruned(candles[s]) \in [Session -> Candle \cup {Null}]
      BY PrunedType DEF History
    <3> QED
      BY <2>5, <3>1 DEF PruneRetention, Phases
  <2>6. ASSUME CheckAlignment  PROVE TypeInv'
    BY <2>6 DEF CheckAlignment, Phases
  <2>7. ASSUME ScanAndCapture  PROVE TypeInv'
    BY <2>7, CaptureEffect DEF ScanAndCapture, Phases
  <2>8. ASSUME LoadPending  PROVE TypeInv'
    BY <2>8 DEF LoadPending, Phases
  <2>9. ASSUME NEW k \in Symbol \X Session, SaveOutcome(k)  PROVE TypeInv'
    <3>1. todo' \subseteq Pending'
      <4> SUFFICES ASSUME NEW j \in todo'  PROVE j \in Pending'
        OBVIOUS
      <4>1. j \in Pending /\ j # k
        BY <2>9 DEF SaveOutcome
      <4>2. setups'[j[1]][j[2]] = setups[j[1]][j[2]]
        BY <2>9, <4>1, SaveEffect
      <4> QED
        BY <4>1, <4>2
    <3> QED
      BY <2>9, <3>1, SaveEffect DEF SaveOutcome
  <2>10. ASSUME RetryEvaluation  PROVE TypeInv'
    BY <2>10 DEF RetryEvaluation
  <2>11. ASSUME CycleOver  PROVE TypeInv'
    <3>1. session' \in 0..MaxSession
      BY <2>11, CycleAssumption DEF CycleOver
    <3>2. view' \in [Symbol -> [Session -> Candle \cup {Null}]]
      BY <2>11 DEF CycleOver
    <3> QED
      BY <2>11, <3>1, <3>2 DEF CycleOver, Phases
  <2>12. ASSUME RepairBenchmark  PROVE TypeInv'
    <3>1. bench' \in 0..MaxSession
      BY <2>12 DEF RepairBenchmark, Session
    <3> QED
      BY <2>12, <3>1 DEF RepairBenchmark, cycleVars
  <2>13. ASSUME NEW s \in Symbol, RepairRequest(s)  PROVE TypeInv'
    <3>1. latest \in Session
      BY <2>13 DEF RepairRequest, Session
    <3>2. (IF Underfilled(s) THEN 1 ELSE LatestStored(candles[s]) + 1) \in Session
      <4>1. LatestStored(candles[s]) \in 0..MaxSession
        BY LatestStoredType DEF History
      <4> QED
        BY <2>13, <4>1, CycleAssumption DEF RepairRequest, Session
    <3>3. repair' \in [Symbol -> RequestRange \cup {Null}]
      BY <2>13, <3>1, <3>2 DEF RepairRequest, RequestRange
    <3> QED
      BY <2>13, <3>3 DEF RepairRequest, cycleVars
  <2>14. ASSUME NEW s \in Symbol, RepairFlush(s)  PROVE TypeInv'
    <3>1. PICK answer \in Answers(repair[s].lo, repair[s].hi) :
            candles' = [candles EXCEPT ![s] = Upsert(candles[s], answer)]
      BY <2>14 DEF RepairFlush
    <3>2. Upsert(candles[s], answer) \in [Session -> Candle \cup {Null}]
      BY UpsertType DEF History
    <3>3. candles' \in [Symbol -> [Session -> Candle \cup {Null}]]
      BY <3>1, <3>2
    <3>4. repair' \in [Symbol -> RequestRange \cup {Null}]
      BY <2>14 DEF RepairFlush
    <3> QED
      BY <2>14, <3>3, <3>4 DEF RepairFlush, cycleVars
  <2>15. ASSUME UNCHANGED vars  PROVE TypeInv'
    BY <2>15 DEF vars, cycleVars
  <2> QED
    BY <2>1, <2>2, <2>3, <2>4, <2>5, <2>6, <2>7, <2>8, <2>9, <2>10, <2>11,
       <2>12, <2>13, <2>14, <2>15
    DEF Next, Cycle, Repair, FinishCycle, Crash
<1> QED
  BY <1>1, <1>2, PTL DEF Spec

(* TypeOK holds in every reachable state, whatever the bounds, horizons,   *)
(* retention and symbols.                                                  *)
THEOREM TypeCorrect == Spec => []TypeOK
BY TypeInvariant, PTL DEF TypeInv

-----------------------------------------------------------------------------
(* What a step may do to a row. *)

(***************************************************************************)
(* Each key keeps its row, or is captured while it has none, or is         *)
(* labelled by evaluate_pending while it is pending.                       *)
(***************************************************************************)
Captured(k) ==
    /\ setups[k[1]][k[2]] = Null
    /\ \E o \in Observations : setups'[k[1]][k[2]] = [obs |-> o, labels |-> NoLabels]

Labelled(k) ==
    /\ SaveOutcome(k)
    /\ setups[k[1]][k[2]] \in Row
    /\ ~ setups[k[1]][k[2]].labels.is_complete
    /\ setups'[k[1]][k[2]] = Evaluate(setups[k[1]][k[2]], view[k[1]], k[2])
    /\ setups'[k[1]][k[2]].obs = setups[k[1]][k[2]].obs

LEMMA RowSteps ==
    ASSUME TypeInv, [Next]_vars
    PROVE  \/ \A k \in Symbol \X Session :
                setups'[k[1]][k[2]] = setups[k[1]][k[2]] \/ Captured(k)
           \/ \E k \in Symbol \X Session :
                /\ Labelled(k)
                /\ \A j \in (Symbol \X Session) \ {k} :
                     setups'[j[1]][j[2]] = setups[j[1]][j[2]]
<1>1. CASE ScanAndCapture
  BY <1>1, CaptureEffect DEF Captured
<1>2. ASSUME NEW k \in Symbol \X Session, SaveOutcome(k)
      PROVE  /\ Labelled(k)
             /\ \A j \in (Symbol \X Session) \ {k} :
                  setups'[j[1]][j[2]] = setups[j[1]][j[2]]
  <2>1. k \in Pending
    BY <1>2 DEF SaveOutcome, TypeInv
  <2> QED
    BY <1>2, <2>1, SaveEffect DEF Labelled, Pending
<1>3. CASE UNCHANGED setups
  BY <1>3
<1> QED
  BY <1>1, <1>2, <1>3
  DEF Next, CloseSession, Cycle, StartCycle, SyncSymbol, SyncBenchmark,
      PruneRetention, CheckAlignment, LoadPending, RetryEvaluation, FinishCycle,
      Crash, CycleOver, Repair, RepairBenchmark, RepairRequest, RepairFlush, vars

(* A recorded setup is never deleted and what it observed never changes,   *)
(* for any number of symbols and sessions and with repairs overlapping.    *)
THEOREM ObservationsAreImmutable == Spec => ObservationImmutable
<1>1. TypeInv /\ [Next]_vars =>
        [\A k \in Symbol \X Session :
          setups[k[1]][k[2]] # Null =>
            /\ setups'[k[1]][k[2]] # Null
            /\ setups'[k[1]][k[2]].obs = setups[k[1]][k[2]].obs]_vars
  <2> SUFFICES ASSUME TypeInv, [Next]_vars,
                      NEW k \in Symbol \X Session, setups[k[1]][k[2]] # Null
               PROVE  /\ setups'[k[1]][k[2]] # Null
                      /\ setups'[k[1]][k[2]].obs = setups[k[1]][k[2]].obs
    OBVIOUS
  <2>1. CASE setups'[k[1]][k[2]] = setups[k[1]][k[2]]
    BY <2>1
  <2>2. CASE Labelled(k)
    <3>1. setups'[k[1]][k[2]] \in Row
      BY <2>2, SaveEffect DEF Labelled
    <3> QED
      BY <2>2, <3>1, NullAssumption DEF Labelled
  <2> QED
    BY <2>1, <2>2, RowSteps DEF Captured
<1> QED
  BY <1>1, TypeInvariant, PTL DEF Spec, ObservationImmutable

(* A complete row keeps every label for good: no step of any process       *)
(* touches it again.                                                       *)
THEOREM CompleteRowsAreFinal == Spec => CompleteIsFinal
<1>1. TypeInv /\ [Next]_vars =>
        [\A k \in Recorded :
          RowOf(k).labels.is_complete => setups'[k[1]][k[2]] = RowOf(k)]_vars
  BY RowSteps DEF Captured, Labelled, Recorded, RowOf
<1> QED
  BY <1>1, TypeInvariant, PTL DEF Spec, CompleteIsFinal

-----------------------------------------------------------------------------
(* The rows implement the ledger. *)

(* The ledger entry of a row. *)
EntryOf(row) ==
    IF row = Null THEN Null
    ELSE [observed |-> row.obs,
          known    |-> {h \in HORIZONS : row.labels.returns[h] # Null},
          closed   |-> row.labels.is_complete]

LEMMA EntryType ==
    ASSUME NEW row \in Row \cup {Null}
    PROVE  EntryOf(row) \in Ledger!Entry \cup {Null}
<1>1. CASE row = Null
  BY <1>1 DEF EntryOf
<1>2. CASE row \in Row
  <2>1. row.obs \in Observations /\ row.labels.is_complete \in BOOLEAN
    BY <1>2 DEF Row, Labels
  <2> QED
    BY <1>2, <2>1, NullAssumption DEF EntryOf, Ledger!Entry
<1> QED
  BY <1>1, <1>2

LEMMA ViewOfRows ==
    /\ LedgerView = [k \in Symbol \X Session |-> EntryOf(setups[k[1]][k[2]])]
    /\ LedgerView' = [k \in Symbol \X Session |-> EntryOf(setups'[k[1]][k[2]])]
BY DEF LedgerView, EntryOf

(* A row that has just been captured is a fresh entry. *)
LEMMA FreshEntry ==
    ASSUME NEW o \in Observations
    PROVE  EntryOf([obs |-> o, labels |-> NoLabels])
             = [observed |-> o, known |-> {}, closed |-> FALSE]
<1> DEFINE row == [obs |-> o, labels |-> NoLabels]
<1>1. row # Null
  <2>1. NoLabels \in Labels
    BY DEF Labels, NoLabels
  <2>2. row \in Row
    BY <2>1 DEF Row
  <2> QED
    BY <2>2, NullAssumption
<1>2. row.obs = o /\ row.labels = NoLabels
  OBVIOUS
<1>3. NoLabels.is_complete = FALSE
  BY DEF NoLabels
<1>4. {h \in HORIZONS : NoLabels.returns[h] # Null} = {}
  BY DEF NoLabels
<1> HIDE DEF row
<1>5. EntryOf(row) = [observed |-> row.obs,
                      known    |-> {h \in HORIZONS : row.labels.returns[h] # Null},
                      closed   |-> row.labels.is_complete]
  BY <1>1 DEF EntryOf
<1>6. EntryOf(row) = [observed |-> o, known |-> {}, closed |-> FALSE]
  BY <1>2, <1>3, <1>4, <1>5, Zenon
<1> QED
  BY <1>6 DEF row

(* Labelling a row is a step of its entry. *)
LEMMA EntryStep ==
    ASSUME NEW row \in Row, NEW history \in History, NEW e,
           ~ row.labels.is_complete, Window(history, e) # {}
    PROVE  \E gained \in SUBSET HORIZONS :
             EntryOf(Evaluate(row, history, e))
               = [observed |-> row.obs,
                  known    |-> EntryOf(row).known \cup gained,
                  closed   |-> WINDOW \in gained]
<1> DEFINE W      == Window(history, e)
           gained == {h \in HORIZONS : Nth(W, h) # {}}
           labels == Relabelled(row, history, W)
           next   == Evaluate(row, history, e)
<1>1. next \in Row /\ next.labels = labels /\ next.obs = row.obs
  <2>1. next = [row EXCEPT !.labels = labels]
    BY DEF Evaluate
  <2>2. next \in Row /\ next.obs = row.obs
    BY EvaluateType
  <2> QED
    BY <2>1, <2>2 DEF Row
<1>2. labels.is_complete = (WINDOW \in gained)
  BY CycleAssumption DEF Relabelled, Full
<1>3. ASSUME NEW h \in HORIZONS
      PROVE  (labels.returns[h] # Null) <=> (row.labels.returns[h] # Null \/ h \in gained)
  <2>1. labels.returns[h] = ReturnAfter(history, W, h, row.labels.returns[h])
    BY DEF Relabelled
  <2>2. ASSUME h \in gained
        PROVE  ReturnAfter(history, W, h, row.labels.returns[h]) # Null
    <3>1. PICK d \in Nth(W, h) :
            ReturnAfter(history, W, h, row.labels.returns[h]) = history[d].close
      BY <2>2 DEF ReturnAfter
    <3>2. history[d] \in Candle
      BY <3>1, WindowType DEF Nth
    <3>3. history[d].close \in Int
      BY <3>2, CycleAssumption DEF Price
    <3> QED
      BY <3>1, <3>3, CycleAssumption
  <2>3. CASE h \notin gained
    BY <2>1, <2>3 DEF ReturnAfter
  <2> QED
    BY <2>1, <2>2, <2>3
<1>4. EntryOf(row) = [observed |-> row.obs,
                      known    |-> {h \in HORIZONS : row.labels.returns[h] # Null},
                      closed   |-> row.labels.is_complete]
  BY NullAssumption DEF EntryOf
<1>5. EntryOf(next) = [observed |-> row.obs,
                       known    |-> {h \in HORIZONS : labels.returns[h] # Null},
                       closed   |-> labels.is_complete]
  BY <1>1, NullAssumption DEF EntryOf
<1>6. {h \in HORIZONS : labels.returns[h] # Null}
        = {h \in HORIZONS : row.labels.returns[h] # Null} \cup gained
  BY <1>3
<1>7. EntryOf(next) = [observed |-> row.obs,
                       known    |-> EntryOf(row).known \cup gained,
                       closed   |-> WINDOW \in gained]
  BY <1>2, <1>4, <1>5, <1>6
<1>8. gained \in SUBSET HORIZONS
  OBVIOUS
<1> QED
  BY <1>7, <1>8

(* The setup rows implement the ledger: immutable observations whose       *)
(* horizons become known once and for all, closed by the last one.         *)
THEOREM ImplementsLedger == Spec => LedgerImplemented
<1>1. Init => Ledger!LedgerInit
  BY DEF Init, Ledger!LedgerInit, LedgerView
<1>2. TypeInv /\ [Next]_vars => [Ledger!LedgerNext]_LedgerView
  <2> SUFFICES ASSUME TypeInv, [Next]_vars
               PROVE  Ledger!LedgerNext \/ LedgerView' = LedgerView
    OBVIOUS
  <2>1. CASE \A k \in Symbol \X Session :
               setups'[k[1]][k[2]] = setups[k[1]][k[2]] \/ Captured(k)
    <3>1. ASSUME NEW k \in Symbol \X Session
          PROVE  /\ LedgerView'[k] \in Ledger!Entry \cup {Null}
                 /\ \/ LedgerView'[k] = LedgerView[k]
                    \/ LedgerView[k] = Null /\ LedgerView'[k] \in Ledger!Fresh
      <4>1. LedgerView[k] = EntryOf(setups[k[1]][k[2]])
            /\ LedgerView'[k] = EntryOf(setups'[k[1]][k[2]])
        BY ViewOfRows
      <4>2. CASE setups'[k[1]][k[2]] = setups[k[1]][k[2]]
        <5>1. setups[k[1]][k[2]] \in Row \cup {Null}
          BY DEF TypeInv, TypeOK
        <5> QED
          BY <4>1, <4>2, <5>1, EntryType
      <4>3. CASE Captured(k)
        <5>1. PICK o \in Observations :
                setups'[k[1]][k[2]] = [obs |-> o, labels |-> NoLabels]
          BY <4>3 DEF Captured
        <5>2. setups'[k[1]][k[2]] \in Row
          BY <5>1 DEF Row, Labels, NoLabels
        <5>3. EntryOf(setups'[k[1]][k[2]]) = [observed |-> o, known |-> {}, closed |-> FALSE]
          BY <5>1, FreshEntry
        <5>4. LedgerView'[k] \in Ledger!Fresh
          BY <4>1, <5>3 DEF Ledger!Fresh
        <5>5. LedgerView[k] = Null
          BY <4>1, <4>3 DEF Captured, EntryOf
        <5> QED
          BY <4>1, <5>2, <5>4, <5>5, EntryType
      <4> QED
        BY <2>1, <4>2, <4>3
    <3>2. LedgerView' \in [Symbol \X Session -> Ledger!Entry \cup {Null}]
      BY <3>1, ViewOfRows
    <3>3. Ledger!Record
      BY <3>1, <3>2 DEF Ledger!Record
    <3> QED
      BY <3>3 DEF Ledger!LedgerNext
  <2>2. ASSUME NEW k \in Symbol \X Session, Labelled(k),
               \A j \in (Symbol \X Session) \ {k} :
                 setups'[j[1]][j[2]] = setups[j[1]][j[2]]
        PROVE  Ledger!LedgerNext \/ LedgerView' = LedgerView
    <3> DEFINE row     == setups[k[1]][k[2]]
               history == view[k[1]]
    <3>1. row \in Row /\ ~ row.labels.is_complete
          /\ setups'[k[1]][k[2]] = Evaluate(row, history, k[2])
      BY <2>2 DEF Labelled
    <3>2. history \in History
      BY DEF TypeInv, TypeOK, History
    <3>3. LedgerView' = [LedgerView EXCEPT ![k] = EntryOf(Evaluate(row, history, k[2]))]
      BY <2>2, <3>1, ViewOfRows
    <3>4. CASE Window(history, k[2]) = {}
      BY <3>1, <3>3, <3>4, ViewOfRows DEF Evaluate
    <3>5. CASE Window(history, k[2]) # {}
      <4> HIDE DEF row, history
      <4>1. PICK gained \in SUBSET HORIZONS :
              EntryOf(Evaluate(row, history, k[2]))
                = [observed |-> row.obs,
                   known    |-> EntryOf(row).known \cup gained,
                   closed   |-> WINDOW \in gained]
        BY <3>1, <3>2, <3>5, EntryStep
      <4>2. LedgerView[k] = EntryOf(row)
        BY ViewOfRows DEF row
      <4>3. /\ EntryOf(row) # Null
            /\ ~ EntryOf(row).closed
            /\ EntryOf(row).observed = row.obs
        <5>1. EntryOf(row) \in Ledger!Entry \cup {Null} /\ row # Null
          BY <3>1, EntryType, NullAssumption
        <5>2. EntryOf(row) = [observed |-> row.obs,
                      known    |-> {h \in HORIZONS : row.labels.returns[h] # Null},
                      closed   |-> row.labels.is_complete]
          BY <5>1 DEF EntryOf
        <5>3. EntryOf(row) \in Ledger!Entry
          <6>1. row.obs \in Observations /\ row.labels.is_complete \in BOOLEAN
            BY <3>1 DEF Row, Labels
          <6> QED
            BY <5>2, <6>1 DEF Ledger!Entry
        <5> QED
          BY <3>1, <5>2, <5>3, EntryAssumption
      <4>4. LedgerView' = [LedgerView EXCEPT ![k] =
                             [observed |-> LedgerView[k].observed,
                              known    |-> LedgerView[k].known \cup gained,
                              closed   |-> WINDOW \in gained]]
        BY <3>3, <4>1, <4>2, <4>3
      <4>5. Ledger!Label(k)
        BY <4>2, <4>3, <4>4 DEF Ledger!Label
      <4> QED
        BY <4>5 DEF Ledger!LedgerNext
    <3> QED
      BY <3>4, <3>5
  <2> QED
    BY <2>1, <2>2, RowSteps
<1> QED
  BY <1>1, <1>2, TypeInvariant, PTL DEF Spec, LedgerImplemented, Ledger!LedgerSpec

-----------------------------------------------------------------------------
(* The labels of a row agree. *)

(* Positions have no holes: a set with an h-th session has every earlier   *)
(* one.                                                                    *)
LEMMA NthDownward ==
    ASSUME NEW W \in SUBSET Session, NEW g \in Nat \ {0}, NEW h \in Nat,
           g < h, Nth(W, h) # {}
    PROVE  Nth(W, g) # {}
<1> DEFINE UpTo(d) == {x \in W : x <= d}
           A == {x \in W : Position(W, x) >= g}
<1>1. W \subseteq Nat /\ W \in SUBSET (0..MaxSession)
  BY DEF Session
<1>2. \A d \in W : IsFiniteSet(UpTo(d)) /\ Position(W, d) \in Nat
                   /\ Position(W, d) = Cardinality(UpTo(d))
  <2>1. IsFiniteSet(0..MaxSession)
    BY FS_Interval, CycleAssumption
  <2>2. \A d \in W : IsFiniteSet(UpTo(d))
    BY <1>1, <2>1, FS_Subset
  <2> QED
    BY <2>2, PositionType DEF Position
<1>3. A # {} /\ A \in SUBSET Nat
  <2>1. PICK d \in W : Position(W, d) = h
    BY DEF Nth
  <2>2. d \in A
    BY <2>1
  <2> QED
    BY <1>1, <2>2
<1> DEFINE m == Lowest(A)
<1>4. m \in A /\ \A x \in A : m <= x
  BY <1>3, LowestOfNaturals
<1> HIDE DEF m
<1>5. m \in W /\ m \in Nat /\ Position(W, m) \in Nat /\ Position(W, m) >= g
  BY <1>1, <1>2, <1>4
<1>6. CASE Position(W, m) > g
  <2> DEFINE B == UpTo(m) \ {m}
  <2>1. m \in UpTo(m)
    BY <1>5
  <2>2. IsFiniteSet(B) /\ Cardinality(B) = Position(W, m) - 1
    <3>1. IsFiniteSet(UpTo(m)) /\ Position(W, m) = Cardinality(UpTo(m))
      BY <1>2, <1>5
    <3> HIDE DEF UpTo
    <3> QED
      BY <2>1, <3>1, FS_RemoveElement
  <2>3. B # {}
    BY <1>5, <1>6, <2>2, FS_EmptySet
  <2>4. B \in SUBSET (0..MaxSession)
    BY <1>1
  <2> DEFINE p == Highest(B)
  <2>5. p \in B /\ \A x \in B : x <= p
    BY <2>3, <2>4, HighestOfBounded, CycleAssumption
  <2> HIDE DEF p
  <2>6. p \in W /\ p \in Nat /\ p < m
    BY <1>1, <1>5, <2>5
  <2>7. UpTo(p) = B
    <3>1. ASSUME NEW x \in W  PROVE x <= p <=> (x <= m /\ x # m)
      <4>1. x \in Nat
        BY <1>1
      <4>2. (x <= m /\ x # m) => x <= p
        BY <2>5
      <4> QED
        BY <1>5, <2>6, <4>1, <4>2
    <3> QED
      BY <3>1
  <2>8. Position(W, p) = Position(W, m) - 1
    BY <1>2, <2>2, <2>6, <2>7
  <2>9. p \in A
    BY <1>5, <1>6, <2>6, <2>8
  <2> QED
    BY <1>4, <1>5, <2>6, <2>9
<1>7. CASE Position(W, m) = g
  BY <1>5, <1>7 DEF Nth
<1> QED
  BY <1>5, <1>6, <1>7

(* The agreement of the labels of one row. *)
Agreeing(l) ==
    /\ \A h, g \in HORIZONS : (g < h /\ l.returns[h] # Null) => l.returns[g] # Null
    /\ l.is_complete <=> l.returns[WINDOW] # Null
    /\ l.is_complete => l.breakout_occurred # Null /\ l.failed_breakout # Null
    /\ l.breakout_occurred # Null => l.evaluated_through # Null
    /\ l.evaluated_through # Null => l.mae <= l.mfe

(* A row that has just been captured has no labels to disagree. *)
LEMMA FreshAgrees == Agreeing(NoLabels)
BY CycleAssumption DEF Agreeing, NoLabels

(* The excursions of a window enclose its closes, the lower below the      *)
(* upper.                                                                  *)
LEMMA ExcursionsOrdered ==
    ASSUME NEW history, NEW W, W # {}, \A d \in W : history[d] \in Candle
    PROVE  Lowest({history[d].low : d \in W}) <= Highest({history[d].high : d \in W})
<1> DEFINE lows  == {history[d].low : d \in W}
           highs == {history[d].high : d \in W}
<1>1. \A d \in W : /\ history[d].low \in 1..MaxPrice /\ history[d].high \in 1..MaxPrice
                   /\ history[d].close \in 1..MaxPrice
                   /\ history[d].low <= history[d].close
                   /\ history[d].close <= history[d].high
  BY CycleAssumption DEF Price
<1>2. lows \in SUBSET Nat /\ lows # {} /\ highs \in SUBSET (0..MaxPrice) /\ highs # {}
  BY <1>1
<1>3. Lowest(lows) \in lows /\ \A x \in lows : Lowest(lows) <= x
  BY <1>2, LowestOfNaturals
<1>4. Highest(highs) \in highs /\ \A x \in highs : x <= Highest(highs)
  BY <1>2, HighestOfBounded, CycleAssumption
<1>5. PICK d \in W : TRUE
  OBVIOUS
<1>6. Lowest(lows) <= history[d].low /\ history[d].high <= Highest(highs)
  BY <1>3, <1>4, <1>5
<1>7. Lowest(lows) \in Nat /\ Highest(highs) \in 0..MaxPrice
  BY <1>2, <1>3, <1>4
<1> HIDE DEF lows, highs
<1>8. Lowest(lows) <= Highest(highs)
  BY <1>1, <1>5, <1>6, <1>7
<1> QED
  BY <1>8 DEF lows, highs

(* Labelling an incomplete row whose labels agree leaves them agreeing. *)
LEMMA RelabelledAgrees ==
    ASSUME NEW row \in Row, NEW history \in History,
           NEW W \in SUBSET Session, W # {}, \A d \in W : history[d] \in Candle,
           ~ row.labels.is_complete, Agreeing(row.labels)
    PROVE  Agreeing(Relabelled(row, history, W))
<1> DEFINE pivot == row.obs.pivot
           touch == Touching(history, W, pivot)
           old   == row.labels
           new   == Relabelled(row, history, W)
<1>1. new \in Labels
  BY RelabelledType
<1>2. ASSUME NEW h \in HORIZONS
      PROVE  (new.returns[h] # Null) <=> (old.returns[h] # Null \/ Nth(W, h) # {})
  <2>1. new.returns[h] = ReturnAfter(history, W, h, old.returns[h])
    BY DEF Relabelled
  <2>2. ASSUME Nth(W, h) # {}
        PROVE  ReturnAfter(history, W, h, old.returns[h]) # Null
    <3>1. PICK d \in Nth(W, h) :
            ReturnAfter(history, W, h, old.returns[h]) = history[d].close
      BY <2>2 DEF ReturnAfter
    <3>2. history[d] \in Candle
      BY <3>1 DEF Nth
    <3>3. history[d].close \in Int
      BY <3>2, CycleAssumption DEF Price
    <3> QED
      BY <3>1, <3>3, CycleAssumption
  <2>3. CASE Nth(W, h) = {}
    BY <2>1, <2>3 DEF ReturnAfter
  <2> QED
    BY <2>1, <2>2, <2>3
<1>3. ASSUME NEW h \in HORIZONS, NEW g \in HORIZONS, g < h, new.returns[h] # Null
      PROVE  new.returns[g] # Null
  <2>1. g \in Nat \ {0} /\ h \in Nat
    BY CycleAssumption
  <2>2. Nth(W, h) # {} => Nth(W, g) # {}
    BY <1>3, <2>1, NthDownward
  <2>3. old.returns[h] # Null => old.returns[g] # Null
    BY <1>3 DEF Agreeing
  <2> QED
    BY <1>2, <1>3, <2>2, <2>3
<1>4. new.is_complete <=> new.returns[WINDOW] # Null
  <2>1. new.is_complete = (Nth(W, WINDOW) # {})
    BY DEF Relabelled, Full
  <2>2. old.returns[WINDOW] = Null
    BY DEF Agreeing
  <2> QED
    BY <1>2, <2>1, <2>2, CycleAssumption
<1>5. new.is_complete => new.breakout_occurred # Null /\ new.failed_breakout # Null
  <2> SUFFICES ASSUME Full(W)
               PROVE  new.breakout_occurred # Null /\ new.failed_breakout # Null
    BY DEF Relabelled
  <2>1. new.breakout_occurred \in BOOLEAN
    BY DEF Relabelled, BreakoutFlag
  <2>2. new.failed_breakout \in BOOLEAN
    BY DEF Relabelled, BreakoutFlag, Fails
  <2> QED
    BY <2>1, <2>2, NullAssumption
<1>6. new.evaluated_through # Null
  <2>1. W \in SUBSET (0..MaxSession)
    BY DEF Session
  <2>2. Highest(W) \in 0..MaxSession
    BY <2>1, HighestOfBounded, CycleAssumption
  <2>3. new.evaluated_through = Highest(W)
    BY DEF Relabelled
  <2> QED
    BY <2>2, <2>3, CycleAssumption
<1>7. new.mae <= new.mfe
  BY ExcursionsOrdered DEF Relabelled
<1> HIDE DEF new
<1>8. Agreeing(new)
  BY <1>3, <1>4, <1>5, <1>6, <1>7 DEF Agreeing
<1> QED
  BY <1>8 DEF new

(* LabelsAgree is kept row by row: rows whose labels agree.                *)
RowsAgree ==
    \A k \in Symbol \X Session :
        setups[k[1]][k[2]] # Null => Agreeing(setups[k[1]][k[2]].labels)

LEMMA RowsAgreeStep ==
    ASSUME TypeInv, RowsAgree, [Next]_vars
    PROVE  RowsAgree'
<1> SUFFICES ASSUME NEW k \in Symbol \X Session, setups'[k[1]][k[2]] # Null
             PROVE  Agreeing(setups'[k[1]][k[2]].labels)
  BY DEF RowsAgree
<1>1. CASE setups'[k[1]][k[2]] = setups[k[1]][k[2]]
  BY <1>1 DEF RowsAgree
<1>2. CASE Captured(k)
  <2>1. PICK o \in Observations :
          setups'[k[1]][k[2]] = [obs |-> o, labels |-> NoLabels]
    BY <1>2 DEF Captured
  <2> QED
    BY <2>1, FreshAgrees
<1>3. CASE Labelled(k)
  <2> DEFINE row     == setups[k[1]][k[2]]
             history == view[k[1]]
             W       == Window(history, k[2])
  <2>1. /\ row \in Row /\ ~ row.labels.is_complete
        /\ setups'[k[1]][k[2]] = Evaluate(row, history, k[2])
    BY <1>3 DEF Labelled
  <2>2. history \in History
    BY DEF TypeInv, TypeOK, History
  <2>3. Agreeing(row.labels)
    BY <2>1, NullAssumption DEF RowsAgree
  <2>4. W \in SUBSET Session /\ \A d \in W : history[d] \in Candle
    BY <2>2, WindowType
  <2> HIDE DEF row, history
  <2>5. CASE W = {}
    BY <2>1, <2>3, <2>5 DEF Evaluate
  <2>6. CASE W # {}
    <3>1. Agreeing(Relabelled(row, history, W))
      BY <2>1, <2>2, <2>3, <2>4, <2>6, RelabelledAgrees
    <3>2. Evaluate(row, history, k[2]).labels = Relabelled(row, history, W)
      BY <2>1, <2>6 DEF Evaluate, Row
    <3> QED
      BY <2>1, <3>1, <3>2
  <2> QED
    BY <2>5, <2>6
<1> QED
  BY <1>1, <1>2, <1>3, RowSteps

(* The labels of every row agree, whatever the number of horizons and the  *)
(* length of the window, and however evaluations, retries, crashes,        *)
(* pruning and repairs interleave.                                         *)
THEOREM LabelsAlwaysAgree == Spec => []LabelsAgree
<1>1. Init => RowsAgree
  BY DEF Init, RowsAgree
<1>2. TypeInv /\ RowsAgree /\ [Next]_vars => RowsAgree'
  BY RowsAgreeStep
<1>3. RowsAgree => LabelsAgree
  BY DEF RowsAgree, LabelsAgree, Agreeing, Recorded, RowOf
<1> QED
  BY <1>1, <1>2, <1>3, TypeInvariant, PTL DEF Spec

-----------------------------------------------------------------------------
(* Forward-only labels, when the repair job does not overlap a cycle.      *)

(* No candle is stored after session n. *)
Bounded(history, n) == \A d \in Stored(history) : d <= n

LEMMA UpsertBounded ==
    ASSUME NEW history \in History, NEW lo \in Int, NEW hi \in Int, NEW n \in Int,
           NEW answer \in Answers(lo, hi), Bounded(history, n), hi <= n
    PROVE  Bounded(Upsert(history, answer), n)
<1>1. PICK D \in SUBSET {d \in Session : lo <= d /\ d <= hi} : answer \in [D -> Candle]
  BY DEF Answers
<1> SUFFICES ASSUME NEW d \in Stored(Upsert(history, answer))  PROVE d <= n
  BY DEF Bounded
<1>2. d \in Session /\ d \in Int
  BY DEF Stored, Session
<1>3. CASE d \in D
  BY <1>1, <1>2, <1>3
<1>4. CASE d \notin D
  <2>1. d \in Stored(history)
    BY <1>1, <1>2, <1>4 DEF Stored, Upsert
  <2> QED
    BY <2>1 DEF Bounded
<1> QED
  BY <1>3, <1>4

LEMMA PrunedBounded ==
    ASSUME NEW history \in History, NEW n, Bounded(history, n)
    PROVE  Bounded(Pruned(history), n)
BY DEF Bounded, Pruned, Stored

LEMMA LatestBounded ==
    ASSUME NEW history \in History, NEW n \in Nat, Bounded(history, n)
    PROVE  LatestStored(history) <= n
<1>1. CASE Stored(history) = {}
  BY <1>1 DEF LatestStored
<1>2. CASE Stored(history) # {}
  <2>1. Stored(history) \in SUBSET (0..MaxSession)
    BY StoredType DEF Session
  <2>2. LatestStored(history) \in Stored(history)
    BY <1>2, <2>1, HighestOfBounded, CycleAssumption DEF LatestStored
  <2> QED
    BY <2>2 DEF Bounded
<1> QED
  BY <1>1, <1>2

(***************************************************************************)
(* What keeps labels forward: while a cycle runs no repair holds an answer *)
(* and no candle is newer than the session the cycle resolved, so a        *)
(* snapshot is taken from that session or an older one; and labels come    *)
(* from later ones.                                                        *)
(***************************************************************************)
CandlesInTime ==
    \A s \in Symbol : /\ Bounded(candles[s], latest)
                      /\ phase # "idle" => Bounded(candles[s], session)

RepairsInTime ==
    /\ \A s \in Symbol : repair[s] # Null => repair[s].hi <= latest
    /\ phase # "idle" => RepairIdle

RowsForward ==
    \A k \in Symbol \X Session :
        setups[k[1]][k[2]] # Null =>
            /\ setups[k[1]][k[2]].obs.seen <= k[2]
            /\ LET l == setups[k[1]][k[2]].labels IN
               l.evaluated_through # Null => l.evaluated_through > k[2]

ForwardInv == session <= latest /\ CandlesInTime /\ RepairsInTime /\ RowsForward

(* A row captured now belongs to the session of the cycle, and has seen    *)
(* its symbol's history, which reaches the benchmark's session.            *)
LEMMA CaptureSeen ==
    ASSUME TypeInv, ScanAndCapture, NEW k \in Symbol \X Session,
           setups'[k[1]][k[2]] # setups[k[1]][k[2]]
    PROVE  /\ k[2] = session
           /\ setups'[k[1]][k[2]].obs.seen = LatestStored(candles[k[1]])
           /\ setups'[k[1]][k[2]].obs.mature =
                (Cardinality(Stored(candles[k[1]])) >= MINIMUM_SCANNER_HISTORY_SESSIONS)
           /\ setups'[k[1]][k[2]].labels = NoLabels
           /\ bench <= LatestStored(candles[k[1]])
<1>1. PICK reports \in [Symbol -> Report] :
        /\ \A s \in Symbol : ReportFits(s, reports[s])
        /\ setups' = [s \in Symbol |-> GetOrCreate(setups[s], s, session, reports[s])]
  BY DEF ScanAndCapture
<1> DEFINE s == k[1]
           row == [obs |-> Observed(s, reports[s]), labels |-> NoLabels]
<1>2. setups[s] \in [Session -> Row \cup {Null}] /\ s \in Symbol /\ k[2] \in Session
  BY DEF TypeInv, TypeOK
<1>3. setups'[s] = GetOrCreate(setups[s], s, session, reports[s])
  BY <1>1, <1>2
<1>4. setups'[s] = [setups[s] EXCEPT ![session] = row] /\ Capturable(reports[s])
  BY <1>3 DEF GetOrCreate
<1>5. k[2] = session /\ setups'[s][k[2]] = row
  BY <1>2, <1>4
<1>6. /\ row.obs.seen = LatestStored(candles[s]) /\ row.labels = NoLabels
      /\ row.obs.mature =
           (Cardinality(Stored(candles[s])) >= MINIMUM_SCANNER_HISTORY_SESSIONS)
  BY DEF Observed
<1>7. bench <= LatestStored(candles[s])
  <2>1. candles[s] \in History /\ bench \in Nat
    BY <1>2 DEF TypeInv, TypeOK, History
  <2>2. LatestStored(candles[s]) \in Nat
    BY <2>1, LatestStoredType
  <2>3. ~ (LatestStored(candles[s]) < bench)
    BY <1>1, <1>2, <1>4 DEF ReportFits, Capturable
  <2> QED
    BY <2>1, <2>2, <2>3
<1> QED
  BY <1>5, <1>6, <1>7

(* What a step does to one key, and with which action. *)
LEMMA KeySteps ==
    ASSUME TypeInv, [Next]_vars, NEW k \in Symbol \X Session
    PROVE  \/ setups'[k[1]][k[2]] = setups[k[1]][k[2]]
           \/ ScanAndCapture
           \/ Labelled(k)
<1>1. ASSUME NEW j \in Symbol \X Session, SaveOutcome(j)
      PROVE  setups'[k[1]][k[2]] = setups[k[1]][k[2]] \/ Labelled(k)
  <2>1. j \in Pending
    BY <1>1 DEF SaveOutcome, TypeInv
  <2> QED
    BY <1>1, <2>1, SaveEffect DEF Labelled, Pending
<1> QED
  BY <1>1 DEF Next, CloseSession, Cycle, StartCycle, SyncSymbol, SyncBenchmark,
     PruneRetention, CheckAlignment, LoadPending, RetryEvaluation, FinishCycle,
     Crash, CycleOver, Repair, RepairBenchmark, RepairRequest, RepairFlush, vars

LEMMA RowsForwardStep ==
    ASSUME TypeInv, ForwardInv, [Next]_vars
    PROVE  RowsForward'
<1> SUFFICES ASSUME NEW k \in Symbol \X Session, setups'[k[1]][k[2]] # Null
             PROVE  LET row == setups'[k[1]][k[2]] IN
                    /\ row.obs.seen <= k[2]
                    /\ row.labels.evaluated_through # Null
                         => row.labels.evaluated_through > k[2]
  BY DEF RowsForward
<1>1. CASE setups'[k[1]][k[2]] = setups[k[1]][k[2]]
  BY <1>1 DEF ForwardInv, RowsForward
<1>2. CASE ScanAndCapture /\ setups'[k[1]][k[2]] # setups[k[1]][k[2]]
  <2>1. k[1] \in Symbol /\ candles[k[1]] \in History /\ session \in Nat
    BY DEF TypeInv, TypeOK, History
  <2>2. Bounded(candles[k[1]], session)
    BY <1>2, <2>1 DEF ScanAndCapture, ForwardInv, CandlesInTime
  <2>3. LatestStored(candles[k[1]]) <= session
    BY <2>1, <2>2, LatestBounded
  <2> QED
    BY <1>2, <2>3, CaptureSeen DEF NoLabels
<1>3. CASE Labelled(k)
  <2> DEFINE row     == setups[k[1]][k[2]]
             history == view[k[1]]
             W       == Window(history, k[2])
  <2>1. /\ row \in Row /\ setups'[k[1]][k[2]] = Evaluate(row, history, k[2])
        /\ setups'[k[1]][k[2]].obs = row.obs
    BY <1>3 DEF Labelled
  <2>2. history \in History
    BY DEF TypeInv, TypeOK, History
  <2>3. row.obs.seen <= k[2] /\ (row.labels.evaluated_through # Null
                                   => row.labels.evaluated_through > k[2])
    BY <2>1, NullAssumption DEF ForwardInv, RowsForward
  <2>4. W \in SUBSET (0..MaxSession) /\ \A d \in W : d > k[2]
    BY <2>2, WindowType DEF Session
  <2> HIDE DEF row, history
  <2>5. CASE W = {}
    BY <2>1, <2>3, <2>5 DEF Evaluate
  <2>6. CASE W # {}
    <3>1. Highest(W) > k[2]
      BY <2>4, <2>6, HighestOfBounded, CycleAssumption
    <3>2. Evaluate(row, history, k[2]).labels = Relabelled(row, history, W)
      BY <2>1, <2>6 DEF Evaluate, Row
    <3>3. Relabelled(row, history, W).evaluated_through = Highest(W)
      BY DEF Relabelled
    <3> QED
      BY <2>1, <2>3, <3>1, <3>2, <3>3
  <2> QED
    BY <2>5, <2>6
<1> QED
  BY <1>1, <1>2, <1>3, KeySteps

LEMMA ForwardInvariant ==
    ASSUME ~ RepairOverlaps
    PROVE  Spec => []ForwardInv
<1>1. Init => ForwardInv
  <2> SUFFICES ASSUME Init  PROVE ForwardInv
    OBVIOUS
  <2>1. \A s \in Symbol : Stored(candles[s]) = {}
    BY DEF Init, Stored
  <2> QED
    BY <2>1 DEF Init, ForwardInv, CandlesInTime, RepairsInTime, RowsForward, Bounded
<1>2. TypeInv /\ ForwardInv /\ [Next]_vars => ForwardInv'
  <2> SUFFICES ASSUME TypeInv, ForwardInv, [Next]_vars
               PROVE  session' <= latest' /\ CandlesInTime' /\ RepairsInTime'
    BY RowsForwardStep DEF ForwardInv
  <2> DEFINE Goal == session' <= latest' /\ CandlesInTime' /\ RepairsInTime'
  <2>0. /\ session \in Nat /\ latest \in Nat /\ session <= latest
        /\ \A s \in Symbol : candles[s] \in History
        /\ \A s \in Symbol : \A d \in Stored(candles[s]) : d \in Nat
    BY StoredType DEF TypeInv, TypeOK, ForwardInv, History, Session
  <2> USE DEF ForwardInv, CandlesInTime, RepairsInTime
  <2>1. ASSUME CloseSession  PROVE Goal
    <3>1. latest' = latest + 1 /\ UNCHANGED <<candles, session, phase, repair>>
      BY <2>1 DEF CloseSession, cycleVars
    <3>2. \A s \in Symbol : Bounded(candles[s], latest + 1)
      BY <2>0 DEF Bounded
    <3>3. \A s \in Symbol : repair[s] # Null => repair[s].hi <= latest + 1
      <4>1. \A s \in Symbol : repair[s] # Null => repair[s].hi \in Nat
        BY DEF TypeInv, TypeOK, RequestRange, Session
      <4> QED
        BY <2>0, <4>1
    <3> QED
      BY <2>0, <3>1, <3>2, <3>3 DEF RepairIdle
  <2>2. ASSUME StartCycle  PROVE Goal
    BY <2>0, <2>2 DEF StartCycle, RepairIdle
  <2>3. ASSUME NEW s \in Symbol, SyncSymbol(s)  PROVE Goal
    <3>1. PICK answer \in Answers(LatestStored(candles[s]) + 1, session) :
            candles' = [candles EXCEPT ![s] = Upsert(candles[s], answer)]
      BY <2>3 DEF SyncSymbol
    <3>2. LatestStored(candles[s]) + 1 \in Int
      BY <2>0, LatestStoredType
    <3>3. Bounded(Upsert(candles[s], answer), session)
          /\ Bounded(Upsert(candles[s], answer), latest)
      BY <2>0, <2>3, <3>2, UpsertBounded DEF SyncSymbol
    <3>4. \A t \in Symbol : Bounded(candles'[t], session) /\ Bounded(candles'[t], latest)
      BY <2>3, <3>1, <3>3 DEF SyncSymbol, TypeInv, TypeOK
    <3> QED
      BY <2>0, <2>3, <3>4 DEF SyncSymbol, RepairIdle
  <2>4. ASSUME SyncBenchmark  PROVE Goal
    BY <2>0, <2>4 DEF SyncBenchmark, RepairIdle
  <2>5. ASSUME PruneRetention  PROVE Goal
    <3>1. \A s \in Symbol : /\ Bounded(Pruned(candles[s]), session)
                            /\ Bounded(Pruned(candles[s]), latest)
      BY <2>0, <2>5, PrunedBounded DEF PruneRetention
    <3>2. \A s \in Symbol : candles'[s] = Pruned(candles[s])
      BY <2>5 DEF PruneRetention
    <3> QED
      BY <2>0, <2>5, <3>1, <3>2 DEF PruneRetention, RepairIdle
  <2>6. ASSUME CheckAlignment \/ ScanAndCapture \/ LoadPending \/ RetryEvaluation
               \/ RepairBenchmark \/ UNCHANGED vars
               \/ \E k \in Symbol \X Session : SaveOutcome(k)
        PROVE  Goal
    <3>1. /\ UNCHANGED <<latest, candles, session, repair>>
          /\ phase' # "idle" => phase # "idle"
      BY <2>6 DEF CheckAlignment, ScanAndCapture, LoadPending, RetryEvaluation,
         RepairBenchmark, SaveOutcome, vars, cycleVars
    <3> QED
      BY <2>0, <3>1 DEF RepairIdle
  <2>7. ASSUME CycleOver  PROVE Goal
    BY <2>0, <2>7 DEF CycleOver
  <2>8. ASSUME NEW s \in Symbol, RepairRequest(s)  PROVE Goal
    <3>1. phase = "idle" /\ UNCHANGED <<latest, candles, session, phase>>
      BY <2>8 DEF RepairRequest, RepairMayRun, cycleVars
    <3>2. \A t \in Symbol : repair'[t] # Null => repair'[t].hi <= latest
      BY <2>0, <2>8 DEF RepairRequest, TypeInv, TypeOK
    <3> QED
      BY <2>0, <3>1, <3>2
  <2>9. ASSUME NEW s \in Symbol, RepairFlush(s)  PROVE Goal
    <3>1. /\ phase = "idle" /\ UNCHANGED <<latest, session, phase>>
      BY <2>9 DEF RepairFlush, RepairIdle, cycleVars
    <3>2. PICK answer \in Answers(repair[s].lo, repair[s].hi) :
            candles' = [candles EXCEPT ![s] = Upsert(candles[s], answer)]
      BY <2>9 DEF RepairFlush
    <3>3. repair[s].lo \in Int /\ repair[s].hi \in Int /\ repair[s].hi <= latest
      BY <2>9 DEF RepairFlush, TypeInv, TypeOK, RequestRange, Session
    <3>4. Bounded(Upsert(candles[s], answer), latest)
      BY <2>0, <3>3, UpsertBounded
    <3>5. \A t \in Symbol : Bounded(candles'[t], latest)
      BY <3>2, <3>4 DEF TypeInv, TypeOK
    <3>6. \A t \in Symbol : repair'[t] # Null => repair'[t].hi <= latest
      BY <2>9 DEF RepairFlush, TypeInv, TypeOK
    <3> QED
      BY <2>0, <3>1, <3>5, <3>6
  <2> QED
    BY <2>1, <2>2, <2>3, <2>4, <2>5, <2>6, <2>7, <2>8, <2>9
    DEF Next, Cycle, Repair, FinishCycle, Crash
<1> QED
  BY <1>1, <1>2, TypeInvariant, PTL DEF Spec

(* When the repair job never overlaps a cycle, labels come only from       *)
(* sessions after the one the snapshot was taken from, whatever the        *)
(* symbols, prices, horizons, window and retention.                        *)
THEOREM LabelsAreForward ==
    ASSUME ~ RepairOverlaps
    PROVE  Spec => []ForwardOnly
<1>1. TypeInv /\ ForwardInv => ForwardOnly
  <2> SUFFICES ASSUME TypeInv, ForwardInv, NEW k \in Recorded,
                      RowOf(k).labels.evaluated_through # Null
               PROVE  RowOf(k).labels.evaluated_through > RowOf(k).obs.seen
    BY DEF ForwardOnly
  <2>1. RowOf(k) \in Row /\ k \in Symbol \X Session
    BY DEF TypeInv, TypeOK, Recorded, RowOf
  <2>2. /\ RowOf(k).obs.seen \in Nat /\ k[2] \in Nat
        /\ RowOf(k).labels.evaluated_through \in Nat
    BY <2>1 DEF Row, Labels, Observations, Session
  <2>3. RowOf(k).obs.seen <= k[2] /\ RowOf(k).labels.evaluated_through > k[2]
    BY <2>1 DEF ForwardInv, RowsForward, RowOf, Recorded
  <2> QED
    BY <2>2, <2>3
<1> QED
  BY <1>1, ForwardInvariant, TypeInvariant, PTL

-----------------------------------------------------------------------------
(* Initial parts of a set of sessions, and what is read from them.         *)

(* W holds whatever of F comes before one of its own sessions. *)
Initial(W, F) == W \subseteq F /\ \A x \in F, y \in W : x <= y => x \in W

LEMMA UpToFinite ==
    ASSUME NEW S \in SUBSET Session, NEW d
    PROVE  IsFiniteSet({x \in S : x <= d}) /\ IsFiniteSet({x \in S : x >= d})
           /\ IsFiniteSet(S)
<1>1. IsFiniteSet(1..MaxSession)
  BY FS_Interval, CycleAssumption
<1>2. /\ {x \in S : x <= d} \in SUBSET (1..MaxSession)
      /\ {x \in S : x >= d} \in SUBSET (1..MaxSession)
      /\ S \in SUBSET (1..MaxSession)
  BY DEF Session
<1> QED
  BY <1>1, <1>2, FS_Subset

(* Positions follow the sessions, and no two sessions share one.           *)
LEMMA PositionIncreases ==
    ASSUME NEW S \in SUBSET Session, NEW c \in S, NEW d \in S, c < d
    PROVE  Position(S, c) < Position(S, d)
<1> DEFINE C == {x \in S : x <= c}
           D == {x \in S : x <= d}
<1>1. IsFiniteSet(C) /\ IsFiniteSet(D)
  BY UpToFinite
<1>2. S \in SUBSET Nat /\ c \in Nat /\ d \in Nat
  BY DEF Session
<1>3. C \in SUBSET D /\ d \in D /\ d \notin C
  <2>1. ASSUME NEW x \in S, x <= c  PROVE x <= d
    <3>1. x \in Nat
      BY <1>2
    <3> QED
      BY <1>2, <2>1, <3>1
  <2>2. d <= d /\ ~ (d <= c)
    BY <1>2
  <2> QED
    BY <2>1, <2>2
<1>4. Cardinality(C) <= Cardinality(D) /\ C # D
      /\ (Cardinality(D) = Cardinality(C) => D = C)
  BY <1>1, <1>3, FS_Subset
<1>5. Cardinality(C) \in Nat /\ Cardinality(D) \in Nat
  BY <1>1, FS_CardinalityType
<1> HIDE DEF C, D
<1>6. Cardinality(C) < Cardinality(D)
  BY <1>4, <1>5
<1> QED
  BY <1>6 DEF Position, C, D

LEMMA NthUnique ==
    ASSUME NEW S \in SUBSET Session, NEW n, NEW c \in Nth(S, n), NEW d \in Nth(S, n)
    PROVE  c = d
<1>1. c \in S /\ d \in S /\ Position(S, c) = n /\ Position(S, d) = n
  BY DEF Nth
<1>2. c \in Nat /\ d \in Nat /\ n \in Nat
  BY <1>1, PositionType DEF Session
<1>3. ~ (c < d) /\ ~ (d < c)
  BY <1>1, <1>2, PositionIncreases
<1> QED
  BY <1>2, <1>3

LEMMA InitialPosition ==
    ASSUME NEW F \in SUBSET Session, NEW W, Initial(W, F), NEW d \in W
    PROVE  Position(W, d) = Position(F, d)
<1>1. {x \in W : x <= d} = {x \in F : x <= d}
  BY DEF Initial
<1> QED
  BY <1>1 DEF Position

(* The window is an initial part of the forward sessions, whose positions  *)
(* are those of its own.                                                   *)
LEMMA WindowInitial ==
    ASSUME NEW history \in History, NEW e
    PROVE  /\ Initial(Window(history, e), Forward(history, e))
           /\ \A d \in Window(history, e) :
                Position(Window(history, e), d) \in 1..WINDOW
<1> DEFINE F == Forward(history, e)
           W == Window(history, e)
<1>1. F \in SUBSET Session
  BY StoredType DEF Forward
<1>2. ASSUME NEW x \in F, NEW y \in W, x <= y  PROVE x \in W
  <2>1. x \in Nat /\ y \in Nat /\ y \in F /\ Position(F, y) <= WINDOW
    BY <1>1 DEF Window, Session
  <2>2. Position(F, x) \in Nat /\ Position(F, y) \in Nat
    BY <1>1, PositionType
  <2>3. x = y \/ Position(F, x) < Position(F, y)
    BY <1>1, <1>2, <2>1, PositionIncreases
  <2>4. Position(F, x) <= WINDOW
    BY <2>1, <2>2, <2>3, CycleAssumption
  <2> QED
    BY <2>4 DEF Window
<1>3. Initial(W, F)
  BY <1>2 DEF Initial, Window
<1>4. ASSUME NEW d \in W  PROVE Position(W, d) \in 1..WINDOW
  <2>1. Position(W, d) = Position(F, d) /\ Position(F, d) <= WINDOW
    BY <1>1, <1>3, InitialPosition DEF Window
  <2>2. W \in SUBSET Session /\ d \in Nat
    BY <1>1 DEF Window, Session
  <2>3. {x \in W : x <= d} # {}
    BY <2>2
  <2>4. Position(W, d) \in Nat /\ Position(W, d) # 0
    BY <2>2, <2>3, PositionType, UpToFinite, FS_EmptySet DEF Position
  <2> QED
    BY <2>1, <2>4, CycleAssumption
<1> QED
  BY <1>3, <1>4

(* An initial part has the n-th session of the whole, if any. *)
LEMMA InitialNth ==
    ASSUME NEW W \in SUBSET Session, NEW V, Initial(V, W), NEW n, Nth(V, n) # {}
    PROVE  /\ Nth(W, n) # {}
           /\ (CHOOSE d \in Nth(W, n) : TRUE) = (CHOOSE d \in Nth(V, n) : TRUE)
<1>1. PICK v \in Nth(V, n) : v = (CHOOSE d \in Nth(V, n) : TRUE)
  OBVIOUS
<1>2. v \in V /\ Position(V, v) = n
  BY DEF Nth
<1>3. v \in W /\ Position(W, v) = n
  BY <1>2, InitialPosition DEF Initial
<1>4. v \in Nth(W, n)
  BY <1>3 DEF Nth
<1>5. (CHOOSE d \in Nth(W, n) : TRUE) \in Nth(W, n)
  BY <1>4
<1> QED
  BY <1>1, <1>4, <1>5, NthUnique

LEMMA LowestMonotone ==
    ASSUME NEW T \in SUBSET Nat, NEW S \in SUBSET T, S # {}
    PROVE  Lowest(T) <= Lowest(S)
<1>1. Lowest(S) \in S
  BY LowestOfNaturals
<1>2. \A x \in T : Lowest(T) <= x
  BY LowestOfNaturals
<1> QED
  BY <1>1, <1>2

LEMMA HighestMonotone ==
    ASSUME NEW N \in Nat, NEW T \in SUBSET (0..N), NEW S \in SUBSET T, S # {}
    PROVE  Highest(S) <= Highest(T)
<1>1. Highest(S) \in S
  BY HighestOfBounded
<1>2. \A x \in T : x <= Highest(T)
  BY HighestOfBounded
<1> QED
  BY <1>1, <1>2

-----------------------------------------------------------------------------
(* The labels of a row are those of one evaluation from scratch.           *)

(* What one evaluation over the sessions W makes of an unlabelled row. *)
Fresh(o, history, W) == Relabelled([obs |-> o, labels |-> NoLabels], history, W)

LEMMA FreshFields ==
    ASSUME NEW o, NEW history, NEW W
    PROVE  LET touch == Touching(history, W, o.pivot)
               l     == Fresh(o, history, W)
           IN  /\ l.returns = [h \in HORIZONS |-> ReturnAfter(history, W, h, Null)]
               /\ l.mfe = Highest({history[d].high : d \in W})
               /\ l.mae = Lowest({history[d].low : d \in W})
               /\ l.breakout_occurred = BreakoutFlag(touch, W, TRUE, Null)
               /\ l.breakout_session = IF touch # {} THEN Lowest(touch) ELSE Null
               /\ l.sessions_to_breakout =
                    IF touch # {} THEN Position(W, Lowest(touch)) ELSE Null
               /\ l.failed_breakout =
                    BreakoutFlag(touch, W, Fails(history, W, Lowest(touch), o.pivot), Null)
               /\ l.evaluated_through = Highest(W)
               /\ l.is_complete = Full(W)
BY DEF Fresh, Relabelled, NoLabels

(* The labels read nothing but the candles of W. *)
LEMMA FreshReads ==
    ASSUME NEW o, NEW h1, NEW h2, NEW W, \A d \in W : h1[d] = h2[d]
    PROVE  Fresh(o, h1, W) = Fresh(o, h2, W)
<1>1. Touching(h1, W, o.pivot) = Touching(h2, W, o.pivot)
  BY DEF Touching
<1>2. \A f : Fails(h1, W, f, o.pivot) = Fails(h2, W, f, o.pivot)
  BY DEF Fails
<1>3. /\ {h1[d].high : d \in W} = {h2[d].high : d \in W}
      /\ {h1[d].low : d \in W} = {h2[d].low : d \in W}
  OBVIOUS
<1>4. ASSUME NEW h \in HORIZONS
      PROVE  ReturnAfter(h1, W, h, Null) = ReturnAfter(h2, W, h, Null)
  <2>1. Nth(W, h) # {} => (CHOOSE d \in Nth(W, h) : TRUE) \in W
    BY DEF Nth
  <2> QED
    BY <2>1 DEF ReturnAfter
<1>5. [h \in HORIZONS |-> ReturnAfter(h1, W, h, Null)]
        = [h \in HORIZONS |-> ReturnAfter(h2, W, h, Null)]
  BY <1>4
<1> QED
  BY <1>1, <1>2, <1>3, <1>5 DEF Fresh, Relabelled, NoLabels

(***************************************************************************)
(* Evaluating an incomplete row again, over a window that continues the    *)
(* one it was labelled from, gives what one evaluation of it would.        *)
(***************************************************************************)
LEMMA Incremental ==
    ASSUME NEW row, NEW history, NEW W \in SUBSET Session, NEW V,
           Initial(V, W), ~ Full(V), row.labels = Fresh(row.obs, history, V)
    PROVE  Relabelled(row, history, W) = Fresh(row.obs, history, W)
<1> DEFINE pivot  == row.obs.pivot
           touch  == Touching(history, W, pivot)
           before == Touching(history, V, pivot)
           old    == row.labels
<1>1. touch = {} => before = {}
  BY DEF Initial, Touching
<1>2. /\ old.returns = [h \in HORIZONS |-> ReturnAfter(history, V, h, Null)]
      /\ old.breakout_occurred = BreakoutFlag(before, V, TRUE, Null)
      /\ old.failed_breakout =
           BreakoutFlag(before, V, Fails(history, V, Lowest(before), pivot), Null)
      /\ old.breakout_session = IF before # {} THEN Lowest(before) ELSE Null
      /\ old.sessions_to_breakout =
           IF before # {} THEN Position(V, Lowest(before)) ELSE Null
  <2> DEFINE l == Fresh(row.obs, history, V)
  <2>1. /\ l.returns = [h \in HORIZONS |-> ReturnAfter(history, V, h, Null)]
        /\ l.breakout_occurred = BreakoutFlag(before, V, TRUE, Null)
        /\ l.failed_breakout =
             BreakoutFlag(before, V, Fails(history, V, Lowest(before), pivot), Null)
        /\ l.breakout_session = IF before # {} THEN Lowest(before) ELSE Null
        /\ l.sessions_to_breakout =
             IF before # {} THEN Position(V, Lowest(before)) ELSE Null
    BY DEF Fresh, Relabelled, NoLabels
  <2>2. old = l
    OBVIOUS
  <2> HIDE DEF l, old, before, pivot
  <2> QED
    BY <2>1, <2>2
<1> HIDE DEF pivot, touch, before, old
<1>3. touch = {} => /\ old.breakout_occurred = Null
                    /\ old.failed_breakout = Null
                    /\ old.breakout_session = Null
                    /\ old.sessions_to_breakout = Null
  BY <1>1, <1>2 DEF BreakoutFlag
<1>4. ASSUME NEW h \in HORIZONS
      PROVE  ReturnAfter(history, W, h, old.returns[h]) = ReturnAfter(history, W, h, Null)
  <2>1. old.returns[h] = ReturnAfter(history, V, h, Null)
    BY <1>2
  <2>2. Nth(W, h) = {} => Nth(V, h) = {}
    BY InitialNth
  <2> QED
    BY <2>1, <2>2 DEF ReturnAfter
<1>5. [h \in HORIZONS |-> ReturnAfter(history, W, h, old.returns[h])]
        = [h \in HORIZONS |-> ReturnAfter(history, W, h, Null)]
  BY <1>4
<1>6. ASSUME NEW found, NEW was, touch = {} => was = Null
      PROVE  BreakoutFlag(touch, W, found, was) = BreakoutFlag(touch, W, found, Null)
  BY <1>6 DEF BreakoutFlag
<1>7. /\ BreakoutFlag(touch, W, TRUE, old.breakout_occurred)
           = BreakoutFlag(touch, W, TRUE, Null)
      /\ BreakoutFlag(touch, W, Fails(history, W, Lowest(touch), pivot), old.failed_breakout)
           = BreakoutFlag(touch, W, Fails(history, W, Lowest(touch), pivot), Null)
  BY <1>3, <1>6
<1>8. /\ (IF touch # {} THEN Lowest(touch) ELSE old.breakout_session)
           = (IF touch # {} THEN Lowest(touch) ELSE Null)
      /\ (IF touch # {} THEN Position(W, Lowest(touch)) ELSE old.sessions_to_breakout)
           = (IF touch # {} THEN Position(W, Lowest(touch)) ELSE Null)
  BY <1>3
<1> QED
  BY <1>5, <1>7, <1>8 DEF Relabelled, Fresh, NoLabels, pivot, touch, old

(* What one evaluation yields is of the right type, and tells one story of *)
(* the breakout.                                                           *)
BreakoutTold(l, e) ==
    /\ (l.breakout_occurred = TRUE) <=> (l.breakout_session # Null)
    /\ (l.breakout_occurred = TRUE) <=> (l.sessions_to_breakout # Null)
    /\ l.breakout_session # Null =>
         /\ e < l.breakout_session
         /\ l.breakout_session <= l.evaluated_through
         /\ l.sessions_to_breakout \in 1..WINDOW

LEMMA TouchingType ==
    ASSUME NEW W \in SUBSET Session, NEW history, NEW pivot,
           Touching(history, W, pivot) # {}
    PROVE  LET touch == Touching(history, W, pivot) IN
           /\ Lowest(touch) \in touch /\ Lowest(touch) \in W
           /\ \A d \in touch : Lowest(touch) <= d
<1>1. Touching(history, W, pivot) \in SUBSET Nat
      /\ Touching(history, W, pivot) \in SUBSET W
  <2>1. \A d \in W : d \in Nat
    BY DEF Session
  <2> QED
    BY <2>1 DEF Touching
<1> QED
  BY <1>1, LowestOfNaturals

LEMMA FreshTold ==
    ASSUME NEW o, NEW history, NEW e, NEW W \in SUBSET Session,
           \A d \in W : d > e /\ Position(W, d) \in 1..WINDOW
    PROVE  BreakoutTold(Fresh(o, history, W), e)
<1> DEFINE touch == Touching(history, W, o.pivot)
           first == Lowest(touch)
           l     == Fresh(o, history, W)
<1>1. CASE touch = {}
  <2>1. /\ l.breakout_occurred \in {FALSE, Null}
        /\ l.breakout_session = Null /\ l.sessions_to_breakout = Null
    BY <1>1 DEF Fresh, Relabelled, NoLabels, BreakoutFlag
  <2>2. l.breakout_occurred # TRUE
    BY <2>1, NullAssumption
  <2> QED
    BY <2>1, <2>2 DEF BreakoutTold
<1>2. CASE touch # {}
  <2>1. /\ l.breakout_occurred = TRUE /\ l.breakout_session = first
        /\ l.sessions_to_breakout = Position(W, first)
        /\ l.evaluated_through = Highest(W)
    BY <1>2 DEF Fresh, Relabelled, NoLabels, BreakoutFlag
  <2>2. first \in W
    BY <1>2, TouchingType
  <2> HIDE DEF first, l
  <2>3. W \in SUBSET (0..MaxSession) /\ first \in Int
    BY <2>2 DEF Session
  <2>4. first <= Highest(W)
    BY <2>2, <2>3, HighestOfBounded, CycleAssumption
  <2>5. e < first /\ Position(W, first) \in 1..WINDOW
    BY <2>2, <2>3
  <2>6. first # Null /\ Position(W, first) # Null
    BY <2>3, <2>5, CycleAssumption
  <2>7. BreakoutTold(l, e)
    BY <2>1, <2>4, <2>5, <2>6, Zenon DEF BreakoutTold
  <2> QED
    BY <2>7 DEF l
<1> QED
  BY <1>1, <1>2

LEMMA NoLabelsTold ==
    ASSUME NEW e
    PROVE  BreakoutTold(NoLabels, e)
BY NullAssumption DEF BreakoutTold, NoLabels

(* An evaluation over a window that continues another advances its labels. *)
LEMMA FreshAdvances ==
    ASSUME NEW o, NEW history, NEW W \in SUBSET Session, NEW V, V # {},
           Initial(V, W), \A d \in W : history[d] \in Candle
    PROVE  Advances(Fresh(o, history, V), Fresh(o, history, W))
<1> DEFINE old    == Fresh(o, history, V)
           new    == Fresh(o, history, W)
           before == Touching(history, V, o.pivot)
           touch  == Touching(history, W, o.pivot)
<1>1. V \in SUBSET W
  BY DEF Initial
<1>2. ASSUME NEW h \in HORIZONS, old.returns[h] # Null
      PROVE  new.returns[h] = old.returns[h]
  <2>1. /\ old.returns[h] = ReturnAfter(history, V, h, Null)
        /\ new.returns[h] = ReturnAfter(history, W, h, Null)
    BY DEF Fresh, Relabelled, NoLabels
  <2>2. Nth(V, h) # {}
    BY <1>2, <2>1 DEF ReturnAfter
  <2> QED
    BY <2>1, <2>2, InitialNth DEF ReturnAfter
<1>3. new.evaluated_through >= old.evaluated_through
  <2>1. W \in SUBSET (0..MaxSession)
    BY DEF Session
  <2>2. Highest(V) <= Highest(W)
    BY <1>1, <2>1, HighestMonotone, CycleAssumption
  <2>3. old.evaluated_through = Highest(V) /\ new.evaluated_through = Highest(W)
    BY DEF Fresh, Relabelled
  <2>4. Highest(V) \in Int /\ Highest(W) \in Int
    <3>1. W # {} /\ V \in SUBSET (0..MaxSession)
      BY <1>1, <2>1
    <3>2. Highest(V) \in 0..MaxSession /\ Highest(W) \in 0..MaxSession
      BY <2>1, <3>1, HighestOfBounded, CycleAssumption
    <3> QED
      BY <3>2
  <2> QED
    BY <2>2, <2>3, <2>4
<1>4. new.mfe >= old.mfe /\ new.mae <= old.mae
  <2> DEFINE Highs(S) == {history[d].high : d \in S}
             Lows(S)  == {history[d].low : d \in S}
  <2>1. \A d \in W : history[d].high \in 0..MaxPrice /\ history[d].low \in Nat
    BY CycleAssumption DEF Price
  <2>2. /\ Highs(W) \in SUBSET (0..MaxPrice) /\ Lows(W) \in SUBSET Nat
        /\ Highs(V) \in SUBSET Highs(W) /\ Lows(V) \in SUBSET Lows(W)
        /\ Highs(V) # {} /\ Lows(V) # {}
    BY <1>1, <2>1
  <2>3. /\ old.mfe = Highest(Highs(V)) /\ new.mfe = Highest(Highs(W))
        /\ old.mae = Lowest(Lows(V)) /\ new.mae = Lowest(Lows(W))
    BY DEF Fresh, Relabelled
  <2> HIDE DEF Highs, Lows, old, new
  <2>4. Highest(Highs(V)) <= Highest(Highs(W)) /\ Lowest(Lows(W)) <= Lowest(Lows(V))
    BY <2>2, HighestMonotone, LowestMonotone, CycleAssumption
  <2>5. Highest(Highs(V)) \in Highs(V) /\ Highest(Highs(W)) \in Highs(W)
    BY <2>2, HighestOfBounded, CycleAssumption
  <2>6. Highest(Highs(V)) \in Int /\ Highest(Highs(W)) \in Int
    BY <2>2, <2>5
  <2> QED
    BY <2>3, <2>4, <2>6
<1>5. ASSUME old.breakout_session # Null
      PROVE  /\ new.breakout_session = old.breakout_session
             /\ new.sessions_to_breakout = old.sessions_to_breakout
             /\ old.failed_breakout => new.failed_breakout
  <2>1. before # {}
    BY <1>5 DEF Fresh, Relabelled, NoLabels
  <2>2. before \in SUBSET touch /\ touch # {}
    BY <1>1, <2>1 DEF Touching
  <2>3. Lowest(before) \in before /\ Lowest(before) \in V
        /\ \A d \in before : Lowest(before) <= d
    BY <1>1, <2>1, TouchingType
  <2>4. Lowest(touch) \in touch /\ Lowest(touch) \in W
        /\ \A d \in touch : Lowest(touch) <= d
    BY <2>2, TouchingType
  <2>5. Lowest(touch) <= Lowest(before)
    BY <2>2, <2>3, <2>4
  <2>6. Lowest(touch) \in before
    <3>1. Lowest(touch) \in V
      BY <2>3, <2>4, <2>5 DEF Initial
    <3>2. history[Lowest(touch)].high >= o.pivot
      BY <2>4 DEF Touching
    <3> QED
      BY <3>1, <3>2 DEF Touching
  <2>7. Lowest(touch) \in Nat /\ Lowest(before) \in Nat
    <3>1. \A d \in W : d \in Nat
      BY DEF Session
    <3> QED
      BY <1>1, <2>3, <2>4, <3>1
  <2>8. Lowest(touch) = Lowest(before)
    BY <2>3, <2>5, <2>6, <2>7
  <2>9. Position(V, Lowest(before)) = Position(W, Lowest(before))
    BY <2>3, InitialPosition
  <2>10. /\ old.breakout_session = Lowest(before)
         /\ new.breakout_session = Lowest(touch)
         /\ old.sessions_to_breakout = Position(V, Lowest(before))
         /\ new.sessions_to_breakout = Position(W, Lowest(touch))
         /\ old.failed_breakout = Fails(history, V, Lowest(before), o.pivot)
         /\ new.failed_breakout = Fails(history, W, Lowest(touch), o.pivot)
    BY <2>1, <2>2 DEF Fresh, Relabelled, NoLabels, BreakoutFlag
  <2>11. Fails(history, V, Lowest(before), o.pivot)
           => Fails(history, W, Lowest(touch), o.pivot)
    BY <1>1, <2>8 DEF Fails
  <2> QED
    BY <2>8, <2>9, <2>10, <2>11
<1> HIDE DEF old, new
<1>6. Advances(old, new)
  BY <1>2, <1>3, <1>4, <1>5 DEF Advances
<1> QED
  BY <1>6 DEF old, new

(* An evaluated row has its excursions.                                    *)
Measured(l) == l.evaluated_through # Null => l.mfe \in Int /\ l.mae \in Int

LEMMA RelabelledMeasured ==
    ASSUME NEW row, NEW history, NEW W, W # {}, \A d \in W : history[d] \in Candle
    PROVE  Measured(Relabelled(row, history, W))
<1> DEFINE lows  == {history[d].low : d \in W}
           highs == {history[d].high : d \in W}
<1>1. \A d \in W : history[d].low \in Nat /\ history[d].high \in 0..MaxPrice
  BY CycleAssumption DEF Price
<1>2. lows \in SUBSET Nat /\ lows # {} /\ highs \in SUBSET (0..MaxPrice) /\ highs # {}
  BY <1>1
<1>3. Lowest(lows) \in lows /\ Highest(highs) \in highs
  BY <1>2, LowestOfNaturals, HighestOfBounded, CycleAssumption
<1>4. Lowest(lows) \in Int /\ Highest(highs) \in Int
  BY <1>2, <1>3
<1> QED
  BY <1>4 DEF Relabelled, Measured

(* Labels that do not change advance, and so do the first ones of a row.   *)
LEMMA SameAdvances ==
    ASSUME NEW l \in Labels, Measured(l)
    PROVE  Advances(l, l)
<1>1. l.evaluated_through # Null => l.evaluated_through \in Int
  <2>1. l.evaluated_through \in Session \cup {Null}
    BY DEF Labels
  <2> QED
    BY <2>1 DEF Session
<1> QED
  BY <1>1 DEF Advances, Measured

LEMMA FirstAdvances ==
    ASSUME NEW l
    PROVE  Advances(NoLabels, l)
BY DEF Advances, NoLabels

-----------------------------------------------------------------------------
(* What ingestion and pruning leave of a history.                          *)

(* h2 has the forward sessions of h1, the same, and only later ones more. *)
Kept(h1, h2, e) ==
    /\ Forward(h1, e) \subseteq Forward(h2, e)
    /\ \A x \in Forward(h2, e) \ Forward(h1, e), y \in Forward(h1, e) : y < x
    /\ \A d \in Forward(h1, e) : h2[d] = h1[d]

LEMMA ForwardType ==
    ASSUME NEW history \in History, NEW e
    PROVE  /\ Forward(history, e) \in SUBSET Session
           /\ \A d \in Forward(history, e) : d \in Nat
BY StoredType DEF Forward, Session

LEMMA WindowKept ==
    ASSUME NEW h1 \in History, NEW h2 \in History, NEW e, Kept(h1, h2, e),
           NEW W \in SUBSET Window(h1, e), Initial(W, Forward(h1, e))
    PROVE  W \in SUBSET Window(h2, e) /\ Initial(W, Forward(h2, e))
<1> DEFINE F1 == Forward(h1, e)
           F2 == Forward(h2, e)
<1>1. /\ F1 \in SUBSET Session /\ F2 \in SUBSET Session
      /\ \A d \in F1 : d \in Nat
      /\ \A d \in F2 : d \in Nat
  BY ForwardType
<1>2. W \in SUBSET F1 /\ F1 \in SUBSET F2
  BY DEF Window, Kept
<1>3. ASSUME NEW x \in F2, NEW y \in W, x <= y  PROVE x \in F1
  <2>1. x \in Nat /\ y \in Nat /\ y \in F1
    BY <1>1, <1>2
  <2>2. ~ (y < x)
    BY <1>3, <2>1
  <2> QED
    BY <2>1, <2>2 DEF Kept
<1>4. Initial(W, F2)
  BY <1>2, <1>3 DEF Initial
<1>5. ASSUME NEW d \in W  PROVE d \in Window(h2, e)
  <2>1. Position(W, d) = Position(F1, d) /\ Position(W, d) = Position(F2, d)
    BY <1>1, <1>4, InitialPosition
  <2>2. Position(F1, d) <= WINDOW
    BY DEF Window
  <2> QED
    BY <1>2, <2>1, <2>2 DEF Window
<1> QED
  BY <1>4, <1>5

LEMMA UpsertGrows ==
    ASSUME NEW history \in History, NEW lo, NEW hi, NEW answer \in Answers(lo, hi)
    PROVE  Stored(history) \in SUBSET Stored(Upsert(history, answer))
<1>1. PICK D \in SUBSET Session : answer \in [D -> Candle]
  BY DEF Answers
<1> QED
  BY <1>1, CycleAssumption DEF Stored, Upsert

LEMMA LatestGrows ==
    ASSUME NEW h1 \in History, NEW h2 \in History, Stored(h1) \in SUBSET Stored(h2)
    PROVE  LatestStored(h1) <= LatestStored(h2)
<1>1. LatestStored(h2) \in 0..MaxSession
  BY LatestStoredType
<1>2. CASE Stored(h1) = {}
  BY <1>1, <1>2 DEF LatestStored
<1>3. CASE Stored(h1) # {}
  <2>1. Stored(h2) \in SUBSET (0..MaxSession) /\ Stored(h2) # {}
    BY <1>3, StoredType DEF Session
  <2>2. Highest(Stored(h1)) <= Highest(Stored(h2))
    BY <1>3, <2>1, HighestMonotone, CycleAssumption
  <2> QED
    BY <1>3, <2>1, <2>2 DEF LatestStored
<1> QED
  BY <1>2, <1>3

LEMMA StoredGrows ==
    ASSUME NEW h1 \in History, NEW h2 \in History, Stored(h1) \in SUBSET Stored(h2)
    PROVE  Cardinality(Stored(h1)) <= Cardinality(Stored(h2))
<1>1. Stored(h2) \in SUBSET Session
  BY StoredType
<1>2. IsFiniteSet(Stored(h2))
  BY <1>1, UpToFinite
<1> QED
  BY <1>2, FS_Subset

(* Candles asked for after the latest stored one are only appended. *)
LEMMA AppendKept ==
    ASSUME NEW history \in History, NEW lo \in Int, NEW hi, NEW e,
           NEW answer \in Answers(lo, hi), LatestStored(history) < lo
    PROVE  Kept(history, Upsert(history, answer), e)
<1> DEFINE next == Upsert(history, answer)
<1>1. PICK D \in SUBSET {d \in Session : lo <= d /\ d <= hi} : answer \in [D -> Candle]
  BY DEF Answers
<1>2. \A d \in Stored(history) : d \in Nat /\ d <= LatestStored(history)
  BY StoredType, LatestStoredType DEF Session
<1>3. LatestStored(history) \in Nat
  BY LatestStoredType
<1>4. \A d \in D : d \in Nat /\ lo <= d
  BY <1>1 DEF Session
<1>5. \A d \in Stored(history) : d \notin D
  BY <1>2, <1>3, <1>4
<1>6. \A d \in Stored(history) : d \in Session /\ next[d] = history[d]
  BY <1>1, <1>5 DEF Upsert, Stored
<1>7. Forward(history, e) \subseteq Forward(next, e)
  BY <1>6 DEF Forward, Stored
<1>8. ASSUME NEW x \in Forward(next, e) \ Forward(history, e), NEW y \in Forward(history, e)
      PROVE  y < x
  <2>1. x \in D
    BY <1>1 DEF Forward, Stored, Upsert
  <2>2. y \in Stored(history)
    BY DEF Forward
  <2> QED
    BY <1>2, <1>3, <1>4, <2>1, <2>2
<1>9. \A d \in Forward(history, e) : next[d] = history[d]
  BY <1>6 DEF Forward
<1> QED
  BY <1>7, <1>8, <1>9 DEF Kept

(* Pruning leaves the sessions after one that is within the retention. *)
LEMMA PrunedKept ==
    ASSUME NEW history \in History, NEW n \in Nat, NEW e \in Nat,
           Bounded(history, n), n - e <= STOCK_RETENTION_SESSIONS
    PROVE  Kept(history, Pruned(history), e)
<1>1. ASSUME NEW d \in Forward(history, e)
      PROVE  /\ d \in Session
             /\ Cardinality({x \in Stored(history) : x >= d}) <= STOCK_RETENTION_SESSIONS
  <2> DEFINE S == {x \in Stored(history) : x >= d}
  <2>1. \A x \in Stored(history) : x \in Nat /\ x <= n
    BY StoredType DEF Bounded, Session
  <2>2. d \in Nat /\ d > e /\ d <= n /\ d \in Session
    BY <2>1, StoredType DEF Forward
  <2>3. S \in SUBSET (d..n)
    BY <2>1, <2>2
  <2>4. IsFiniteSet(d..n) /\ Cardinality(d..n) = n - d + 1
    BY <2>2, FS_Interval
  <2>5. Cardinality(S) <= n - d + 1 /\ IsFiniteSet(S)
    BY <2>3, <2>4, FS_Subset
  <2>6. Cardinality(S) \in Nat
    BY <2>5, FS_CardinalityType
  <2> HIDE DEF S
  <2>7. Cardinality(S) <= STOCK_RETENTION_SESSIONS
    BY <2>2, <2>5, <2>6, CycleAssumption
  <2> QED
    BY <2>2, <2>7 DEF S
<1>2. ASSUME NEW d \in Forward(history, e)
      PROVE  Pruned(history)[d] = history[d]
  <2>1. d \in Session
        /\ Cardinality({x \in Stored(history) : x >= d}) <= STOCK_RETENTION_SESSIONS
    BY <1>1
  <2>2. Cardinality({x \in Stored(history) : x >= d}) \in Nat
    <3>1. Stored(history) \in SUBSET Session
      BY StoredType
    <3> QED
      BY <3>1, UpToFinite, FS_CardinalityType
  <2> QED
    BY <2>1, <2>2, CycleAssumption DEF Pruned
<1> QED
  BY <1>1, <1>2 DEF Kept, Forward, Stored, Pruned

(* Pruning keeps the latest candle. *)
LEMMA LatestPruned ==
    ASSUME NEW history \in History
    PROVE  LatestStored(history) <= LatestStored(Pruned(history))
<1>1. CASE Stored(history) = {}
  <2>1. LatestStored(Pruned(history)) \in 0..MaxSession
    BY PrunedType, LatestStoredType
  <2> QED
    BY <1>1, <2>1 DEF LatestStored
<1>2. CASE Stored(history) # {}
  <2> DEFINE n == LatestStored(history)
             S == {x \in Stored(history) : x >= n}
  <2>1. Stored(history) \in SUBSET (0..MaxSession)
    BY StoredType DEF Session
  <2>2. n \in Stored(history) /\ n \in Nat
    <3>1. n = Highest(Stored(history))
      BY <1>2 DEF LatestStored
    <3>2. Highest(Stored(history)) \in Stored(history)
      BY <1>2, <2>1, HighestOfBounded, CycleAssumption
    <3>3. \A x \in Stored(history) : x \in Nat
      BY <2>1
    <3> HIDE DEF n
    <3> QED
      BY <3>1, <3>2, <3>3
  <2>3. \A x \in Stored(history) : x \in Nat /\ x <= n
    BY <2>1, LatestStoredType
  <2> HIDE DEF n
  <2>4. S = {n}
    <3>1. ASSUME NEW x \in S  PROVE x = n
      BY <2>2, <2>3, <3>1
    <3>2. n \in S
      BY <2>2
    <3> QED
      BY <3>1, <3>2
  <2>5. Cardinality(S) = 1
    BY <2>4, FS_Singleton
  <2>6. 1 <= STOCK_RETENTION_SESSIONS
    BY CycleAssumption
  <2>7. ~ (Cardinality(S) > STOCK_RETENTION_SESSIONS)
    BY <2>5, <2>6, CycleAssumption
  <2>8. n \in Stored(Pruned(history))
    BY <2>2, <2>7 DEF Stored, Pruned
  <2> QED
    BY <2>8, PrunedType, LatestStoredType DEF n
<1> QED
  BY <1>1, <1>2

(* Pruning never makes a full history short. *)
LEMMA PrunedFull ==
    ASSUME NEW history \in History, NEW n \in Nat, n <= STOCK_RETENTION_SESSIONS,
           n <= Cardinality(Stored(history))
    PROVE  n <= Cardinality(Stored(Pruned(history)))
<1> DEFINE S       == Stored(history)
           From(d) == {x \in S : x >= d}
           B       == {d \in S : Cardinality(From(d)) > STOCK_RETENTION_SESSIONS}
           K       == Stored(Pruned(history))
<1>1. S \in SUBSET Session /\ S \in SUBSET (0..MaxSession) /\ \A x \in S : x \in Nat
  BY StoredType DEF Session
<1>2. K = S \ B
  BY DEF Stored, Pruned
<1>3. K \in SUBSET Session
  BY <1>1, <1>2
<1>4. IsFiniteSet(K) /\ Cardinality(K) \in Nat
  BY <1>3, UpToFinite, FS_CardinalityType
<1>5. CASE B = {}
  BY <1>2, <1>5
<1>6. CASE B # {}
  <2> DEFINE m == Highest(B)
  <2>1. m \in B /\ \A x \in B : x <= m
    BY <1>1, <1>6, HighestOfBounded, CycleAssumption
  <2> HIDE DEF m
  <2>2. m \in S /\ m \in Nat /\ Cardinality(From(m)) > STOCK_RETENTION_SESSIONS
    BY <1>1, <2>1
  <2>3. From(m) \ {m} \in SUBSET K
    <3>1. ASSUME NEW x \in From(m) \ {m}  PROVE x \in K
      <4>1. x \in S /\ x \in Nat /\ x > m
        BY <1>1, <2>2, <3>1
      <4>2. x \notin B
        BY <2>1, <2>2, <4>1
      <4> QED
        BY <1>2, <4>1, <4>2
    <3> QED
      BY <3>1
  <2>4. IsFiniteSet(From(m)) /\ m \in From(m)
    <3>1. m >= m
      BY <2>2
    <3>2. IsFiniteSet({x \in S : x >= m})
      BY <1>1, UpToFinite
    <3> QED
      BY <2>2, <3>1, <3>2
  <2> DEFINE Tail == From(m)
  <2>5. /\ Tail \ {m} \in SUBSET K /\ IsFiniteSet(Tail) /\ m \in Tail
        /\ Cardinality(Tail) > STOCK_RETENTION_SESSIONS
    BY <2>2, <2>3, <2>4
  <2> HIDE DEF Tail, K, From
  <2>6. Cardinality(Tail \ {m}) = Cardinality(Tail) - 1 /\ Cardinality(Tail) \in Nat
    BY <2>5, FS_RemoveElement, FS_CardinalityType
  <2>7. Cardinality(Tail \ {m}) <= Cardinality(K)
    BY <1>4, <2>5, FS_Subset
  <2>8. n <= Cardinality(K)
    BY <1>4, <2>5, <2>6, <2>7, CycleAssumption
  <2> QED
    BY <2>8 DEF K
<1> QED
  BY <1>5, <1>6

-----------------------------------------------------------------------------
(* Setups captured from a full history, when repairs do not overlap.       *)

(***************************************************************************)
(* While the jobs do not overlap, an evaluation reads the candles that are *)
(* stored; no pending setup and no running cycle is older than the         *)
(* retention; a symbol has a candle of the session of each of its setups,  *)
(* or a later one; a full history stays full, so that a repair asks it     *)
(* only for candles after its latest; and the labels of a pending setup    *)
(* captured from it are those that one evaluation over an initial part of  *)
(* its window would give.                                                  *)
(***************************************************************************)
Settled(row, history, e) ==
    \/ row.labels = NoLabels
    \/ \E W \in SUBSET Window(history, e) :
         /\ W # {}
         /\ Initial(W, Forward(history, e))
         /\ ~ Full(W)
         /\ row.labels = Fresh(row.obs, history, W)

FullHistory(history) ==
    MINIMUM_SCANNER_HISTORY_SESSIONS <= Cardinality(Stored(history))

CycleReads ==
    /\ phase = "evaluating" => view = candles
    /\ phase = "aligned" => bench = session

InRetention ==
    /\ phase # "idle" => latest - session <= STOCK_RETENTION_SESSIONS
    /\ \A k \in Pending : latest - k[2] <= STOCK_RETENTION_SESSIONS

RequestsLater ==
    \A s \in Symbol :
        repair[s] # Null =>
            Underfilled(s) \/ LatestStored(candles[s]) < repair[s].lo

RowsReached == \A k \in Recorded : k[2] <= LatestStored(candles[k[1]])

MatureFull ==
    \A k \in Recorded :
        RowOf(k).obs.mature => FullHistory(candles[k[1]])

RowsMeasured == \A k \in Recorded : Measured(RowOf(k).labels)

RowsSettled ==
    \A k \in Recorded :
        RowOf(k).obs.mature =>
            /\ BreakoutTold(RowOf(k).labels, k[2])
            /\ ~ RowOf(k).labels.is_complete
                 => Settled(RowOf(k), candles[k[1]], k[2])

MatureInv ==
    /\ CycleReads
    /\ InRetention
    /\ RequestsLater
    /\ RowsReached
    /\ MatureFull
    /\ RowsMeasured
    /\ RowsSettled

Inv == TypeInv /\ ForwardInv /\ MatureInv

LEMMA SettledKept ==
    ASSUME NEW row, NEW h1 \in History, NEW h2 \in History, NEW e,
           Kept(h1, h2, e), Settled(row, h1, e)
    PROVE  Settled(row, h2, e)
<1>1. CASE row.labels = NoLabels
  BY <1>1 DEF Settled
<1>2. ASSUME NEW W \in SUBSET Window(h1, e), W # {}, Initial(W, Forward(h1, e)),
             ~ Full(W), row.labels = Fresh(row.obs, h1, W)
      PROVE  Settled(row, h2, e)
  <2>1. W \in SUBSET Window(h2, e) /\ Initial(W, Forward(h2, e))
    BY <1>2, WindowKept
  <2>2. \A d \in W : h2[d] = h1[d]
    BY DEF Kept, Window
  <2>3. Fresh(row.obs, h2, W) = Fresh(row.obs, h1, W)
    BY <2>2, FreshReads
  <2> QED
    BY <1>2, <2>1, <2>3 DEF Settled
<1> QED
  BY <1>1, <1>2 DEF Settled

(* A settled row, evaluated again, is settled or complete; it tells one    *)
(* story of the breakout, and its labels have advanced.                    *)
LEMMA SettledEvaluated ==
    ASSUME NEW row \in Row, NEW history \in History, NEW e,
           Settled(row, history, e), Window(history, e) # {}
    PROVE  LET next == Evaluate(row, history, e) IN
           /\ ~ next.labels.is_complete => Settled(next, history, e)
           /\ BreakoutTold(next.labels, e)
           /\ Advances(row.labels, next.labels)
<1> DEFINE W    == Window(history, e)
           next == Evaluate(row, history, e)
<1>1. W \in SUBSET Session /\ \A d \in W : history[d] \in Candle /\ d > e
  BY WindowType
<1>2. Initial(W, Forward(history, e)) /\ \A d \in W : Position(W, d) \in 1..WINDOW
  BY WindowInitial
<1>3. next.labels = Relabelled(row, history, W) /\ next.obs = row.obs
  BY DEF Evaluate, Row
<1> HIDE DEF W, next
<1>4. /\ next.labels = Fresh(row.obs, history, W)
      /\ Advances(row.labels, next.labels)
  <2>1. CASE row.labels = NoLabels
    <3>1. row = [obs |-> row.obs, labels |-> NoLabels]
      BY <2>1 DEF Row
    <3> QED
      BY <1>3, <2>1, <3>1, FirstAdvances DEF Fresh
  <2>2. ASSUME NEW V \in SUBSET W, V # {}, Initial(V, Forward(history, e)),
               ~ Full(V), row.labels = Fresh(row.obs, history, V)
        PROVE  /\ next.labels = Fresh(row.obs, history, W)
               /\ Advances(row.labels, next.labels)
    <3>1. Initial(V, W)
      BY <1>2, <2>2 DEF Initial
    <3>2. Relabelled(row, history, W) = Fresh(row.obs, history, W)
      BY <1>1, <2>2, <3>1, Incremental
    <3> QED
      BY <1>1, <1>3, <2>2, <3>1, <3>2, FreshAdvances
  <2> QED
    BY <2>1, <2>2 DEF Settled, W
<1>5. next.labels.is_complete = Full(W)
  BY <1>3 DEF Relabelled
<1>6. ~ Full(W) => Settled(next, history, e)
  BY <1>2, <1>3, <1>4 DEF Settled, W
<1>7. BreakoutTold(next.labels, e)
  BY <1>1, <1>2, <1>4, FreshTold
<1> QED
  BY <1>4, <1>5, <1>6, <1>7 DEF next

(* What a step leaves of the candles of a symbol: its latest one, a full   *)
(* history full, and then the sessions within the retention.               *)
LEMMA CandleSteps ==
    ASSUME ~ RepairOverlaps, Inv, [Next]_vars, NEW s \in Symbol
    PROVE  /\ candles[s] \in History /\ candles'[s] \in History
           /\ LatestStored(candles[s]) <= LatestStored(candles'[s])
           /\ FullHistory(candles[s]) => FullHistory(candles'[s])
           /\ \A e \in Nat :
                (FullHistory(candles[s]) /\ latest - e <= STOCK_RETENTION_SESSIONS)
                  => Kept(candles[s], candles'[s], e)
<1> DEFINE h    == candles[s]
           next == candles'[s]
           Goal == /\ next \in History
                   /\ LatestStored(h) <= LatestStored(next)
                   /\ FullHistory(h) => FullHistory(next)
                   /\ \A e \in Nat :
                        (FullHistory(h) /\ latest - e <= STOCK_RETENTION_SESSIONS)
                          => Kept(h, next, e)
<1>1. /\ h \in History /\ latest \in Nat /\ session \in Nat
      /\ LatestStored(h) \in Nat /\ Cardinality(Stored(h)) \in Nat
  <2>1. h \in History /\ latest \in Nat /\ session \in Nat
    BY DEF Inv, TypeInv, TypeOK, History
  <2>2. Stored(h) \in SUBSET Session
    BY <2>1, StoredType
  <2>3. IsFiniteSet(Stored(h))
    BY <2>2, UpToFinite
  <2>4. Cardinality(Stored(h)) \in Nat
    BY <2>3, FS_CardinalityType
  <2> QED
    BY <2>1, <2>4, LatestStoredType
<1>2. ASSUME next = h  PROVE Goal
  BY <1>1, <1>2 DEF Kept
<1>3. ASSUME NEW lo \in Int, NEW hi \in Int, NEW answer \in Answers(lo, hi),
             next = Upsert(h, answer),
             ~ FullHistory(h) \/ LatestStored(h) < lo
      PROVE  Goal
  <2>1. next \in History /\ Stored(h) \in SUBSET Stored(next)
    BY <1>1, <1>3, UpsertType, UpsertGrows
  <2>2. LatestStored(h) <= LatestStored(next)
        /\ Cardinality(Stored(h)) <= Cardinality(Stored(next))
    BY <1>1, <2>1, LatestGrows, StoredGrows
  <2>3. Cardinality(Stored(next)) \in Nat
    <3>1. Stored(next) \in SUBSET Session
      BY <2>1, StoredType
    <3> QED
      BY <3>1, UpToFinite, FS_CardinalityType
  <2>4. FullHistory(h) => FullHistory(next)
    BY <1>1, <2>2, <2>3, CycleAssumption DEF FullHistory
  <2>5. LatestStored(h) < lo => \A e \in Nat : Kept(h, next, e)
    BY <1>1, <1>3, AppendKept
  <2> HIDE DEF h, next
  <2> QED
    BY <1>3, <2>1, <2>2, <2>4, <2>5
<1>4. ASSUME PruneRetention  PROVE Goal
  <2>1. next = Pruned(h)
    BY <1>4 DEF PruneRetention
  <2>2. Bounded(h, latest)
    BY DEF Inv, ForwardInv, CandlesInTime
  <2>3. \A e \in Nat : latest - e <= STOCK_RETENTION_SESSIONS => Kept(h, next, e)
    BY <1>1, <2>1, <2>2, PrunedKept
  <2>4. /\ next \in History /\ LatestStored(h) <= LatestStored(next)
        /\ FullHistory(h) => FullHistory(next)
    BY <1>1, <2>1, PrunedType, LatestPruned, PrunedFull, CycleAssumption DEF FullHistory
  <2> QED
    BY <2>3, <2>4
<1>5. ASSUME NEW t \in Symbol, SyncSymbol(t)  PROVE Goal
  <2>1. CASE t # s
    BY <1>2, <1>5, <2>1 DEF SyncSymbol
  <2>2. CASE t = s
    <3>1. PICK answer \in Answers(LatestStored(h) + 1, session) :
            candles' = [candles EXCEPT ![s] = Upsert(h, answer)]
      BY <1>5, <2>2 DEF SyncSymbol
    <3>2. next = Upsert(h, answer)
      BY <3>1 DEF Inv, TypeInv, TypeOK
    <3>3. LatestStored(h) + 1 \in Int /\ LatestStored(h) < LatestStored(h) + 1
      BY <1>1
    <3> HIDE DEF h, next, Goal
    <3> QED
      BY <1>1, <1>3, <3>2, <3>3
  <2> QED
    BY <2>1, <2>2
<1>6. ASSUME NEW t \in Symbol, RepairFlush(t)  PROVE Goal
  <2>1. CASE t # s
    BY <1>2, <1>6, <2>1 DEF RepairFlush
  <2>2. CASE t = s
    <3>1. PICK answer \in Answers(repair[s].lo, repair[s].hi) :
            candles' = [candles EXCEPT ![s] = Upsert(h, answer)]
      BY <1>6, <2>2 DEF RepairFlush
    <3>2. next = Upsert(h, answer)
      BY <3>1 DEF Inv, TypeInv, TypeOK
    <3>3. repair[s].lo \in Int /\ repair[s].hi \in Int
      BY <1>6, <2>2 DEF RepairFlush, Inv, TypeInv, TypeOK, RequestRange, Session
    <3>4. ~ FullHistory(h) \/ LatestStored(h) < repair[s].lo
      BY <1>1, <1>6, <2>2, CycleAssumption
      DEF RepairFlush, Inv, MatureInv, RequestsLater, Underfilled, FullHistory
    <3> HIDE DEF h, next, Goal
    <3> QED
      BY <1>3, <3>1, <3>2, <3>3, <3>4
  <2> QED
    BY <2>1, <2>2
<1>7. \/ candles' = candles
      \/ PruneRetention
      \/ \E t \in Symbol : SyncSymbol(t)
      \/ \E t \in Symbol : RepairFlush(t)
  BY DEF Next, CloseSession, Cycle, StartCycle, SyncBenchmark, CheckAlignment,
     ScanAndCapture, LoadPending, SaveOutcome, RetryEvaluation, FinishCycle, Crash,
     CycleOver, Repair, RepairBenchmark, RepairRequest, vars
<1> QED
  BY <1>1, <1>2, <1>4, <1>5, <1>6, <1>7

LEMMA CycleReadsStep ==
    ASSUME ~ RepairOverlaps, Inv, [Next]_vars
    PROVE  CycleReads'
<1> USE DEF Inv, MatureInv, CycleReads
<1>1. CASE CloseSession \/ UNCHANGED vars
  BY <1>1 DEF CloseSession, vars, cycleVars
<1>2. CASE StartCycle \/ SyncBenchmark \/ PruneRetention \/ CheckAlignment
           \/ ScanAndCapture \/ LoadPending \/ RetryEvaluation \/ CycleOver
  BY <1>2 DEF StartCycle, SyncBenchmark, PruneRetention, CheckAlignment,
     ScanAndCapture, LoadPending, RetryEvaluation, CycleOver
<1>3. CASE \/ \E s \in Symbol : SyncSymbol(s)
           \/ \E k \in Symbol \X Session : SaveOutcome(k)
  BY <1>3 DEF SyncSymbol, SaveOutcome
<1>4. CASE Repair
  <2>1. phase = "idle" /\ UNCHANGED phase
    BY <1>4 DEF Repair, RepairBenchmark, RepairRequest, RepairFlush, RepairMayRun,
       ForwardInv, RepairsInTime, RepairIdle, cycleVars
  <2> QED
    BY <2>1
<1> QED
  BY <1>1, <1>2, <1>3, <1>4 DEF Next, Cycle, FinishCycle, Crash

LEMMA RequestsLaterStep ==
    ASSUME ~ RepairOverlaps, Inv, [Next]_vars
    PROVE  RequestsLater'
<1> USE DEF Inv, MatureInv, RequestsLater, Underfilled
<1>1. CASE UNCHANGED <<candles, repair>>
  BY <1>1
<1>2. CASE PruneRetention \/ \E s \in Symbol : SyncSymbol(s)
  <2>1. RepairIdle /\ UNCHANGED repair
    BY <1>2 DEF PruneRetention, SyncSymbol, ForwardInv, RepairsInTime
  <2> QED
    BY <2>1 DEF RepairIdle
<1>3. ASSUME NEW s \in Symbol, RepairRequest(s)  PROVE RequestsLater'
  <2>1. repair'[s] = [lo |-> IF Underfilled(s) THEN 1 ELSE LatestStored(candles[s]) + 1,
                      hi |-> latest]
        /\ UNCHANGED candles
    BY <1>3 DEF RepairRequest, TypeInv, TypeOK
  <2>2. LatestStored(candles[s]) \in Nat
    BY LatestStoredType DEF TypeInv, TypeOK, History
  <2>3. Underfilled(s) \/ LatestStored(candles[s]) < repair'[s].lo
    BY <2>1, <2>2
  <2>4. \A t \in Symbol \ {s} : repair'[t] = repair[t]
    BY <1>3 DEF RepairRequest, TypeInv, TypeOK
  <2> QED
    BY <2>1, <2>3, <2>4
<1>4. ASSUME NEW s \in Symbol, RepairFlush(s)  PROVE RequestsLater'
  <2>1. repair'[s] = Null
        /\ \A t \in Symbol \ {s} : repair'[t] = repair[t] /\ candles'[t] = candles[t]
    BY <1>4 DEF RepairFlush, TypeInv, TypeOK
  <2> QED
    BY <2>1
<1> QED
  BY <1>1, <1>2, <1>3, <1>4
  DEF Next, CloseSession, Cycle, StartCycle, SyncBenchmark, CheckAlignment,
      ScanAndCapture, LoadPending, SaveOutcome, RetryEvaluation, FinishCycle, Crash,
      CycleOver, Repair, RepairBenchmark, vars

LEMMA InRetentionStep ==
    ASSUME ~ RepairOverlaps, Inv, [Next]_vars
    PROVE  InRetention'
<1>1. latest \in Nat /\ session \in Nat
  BY DEF Inv, TypeInv, TypeOK
<1>2. InRetention
  BY DEF Inv, MatureInv
<1>3. ASSUME ~ ScanAndCapture  PROVE Pending' \subseteq Pending
  <2> SUFFICES ASSUME NEW k \in Pending'  PROVE k \in Pending
    OBVIOUS
  <2>1. k \in Symbol \X Session
    BY DEF Pending, Recorded
  <2>2. setups'[k[1]][k[2]] = setups[k[1]][k[2]] \/ Labelled(k)
    BY <1>3, <2>1, KeySteps DEF Inv
  <2> QED
    BY <2>1, <2>2, NullAssumption DEF Pending, Recorded, Labelled
<1>4. CASE CloseSession
  <2>1. /\ latest' = latest + 1 /\ UNCHANGED <<session, phase>>
        /\ \A k \in Pending : latest + 1 - k[2] <= STOCK_RETENTION_SESSIONS
        /\ phase # "idle" => latest + 1 - session <= STOCK_RETENTION_SESSIONS
    BY <1>4 DEF CloseSession, PendingWithinRetention, cycleVars
  <2>2. ~ ScanAndCapture
    BY <1>1, <2>1 DEF ScanAndCapture
  <2>3. ASSUME NEW k \in Pending'
        PROVE  latest' - k[2] <= STOCK_RETENTION_SESSIONS
    <3>1. k \in Pending
      BY <1>3, <2>2
    <3>2. k[2] \in Nat
      BY <3>1 DEF Pending, Recorded, Session
    <3> QED
      BY <1>1, <2>1, <3>1, <3>2, CycleAssumption
  <2>4. phase' # "idle" => latest' - session' <= STOCK_RETENTION_SESSIONS
    BY <1>1, <2>1, CycleAssumption
  <2> QED
    BY <2>3, <2>4 DEF InRetention
<1>5. CASE StartCycle
  <2>1. latest' = latest /\ session' = latest /\ ~ ScanAndCapture
    BY <1>5 DEF StartCycle, ScanAndCapture
  <2>2. latest - latest <= STOCK_RETENTION_SESSIONS
    BY <1>1, CycleAssumption
  <2> QED
    BY <1>2, <1>3, <2>1, <2>2 DEF InRetention
<1>6. CASE ScanAndCapture
  <2>1. /\ UNCHANGED <<latest, session>>
        /\ latest - session <= STOCK_RETENTION_SESSIONS
    BY <1>2, <1>6 DEF ScanAndCapture, InRetention
  <2>2. ASSUME NEW k \in Pending'
        PROVE  latest - k[2] <= STOCK_RETENTION_SESSIONS
    <3>1. k \in Symbol \X Session
      BY DEF Pending, Recorded
    <3>2. CASE setups'[k[1]][k[2]] = setups[k[1]][k[2]]
      BY <1>2, <3>1, <3>2 DEF Pending, Recorded, InRetention
    <3>3. CASE setups'[k[1]][k[2]] # setups[k[1]][k[2]]
      BY <1>6, <2>1, <3>1, <3>3, CaptureSeen DEF Inv
    <3> QED
      BY <3>2, <3>3
  <2> QED
    BY <2>1, <2>2 DEF InRetention
<1>7. CASE CycleOver
  <2>1. phase' = "idle" /\ UNCHANGED <<latest, setups>>
    BY <1>7 DEF CycleOver
  <2> QED
    BY <1>2, <2>1 DEF InRetention, Pending, Recorded
<1>8. CASE ~ ScanAndCapture /\ UNCHANGED <<latest, session>>
           /\ (phase' # "idle" => phase # "idle")
  BY <1>2, <1>3, <1>8 DEF InRetention
<1>9. \/ CloseSession \/ StartCycle \/ ScanAndCapture \/ CycleOver
      \/ (UNCHANGED <<latest, session>> /\ (phase' # "idle" => phase # "idle"))
  BY DEF Next, Cycle, SyncSymbol, SyncBenchmark, PruneRetention, CheckAlignment,
     LoadPending, SaveOutcome, RetryEvaluation, FinishCycle, Crash, Repair,
     RepairBenchmark, RepairRequest, RepairFlush, vars, cycleVars
<1> QED
  BY <1>4, <1>5, <1>6, <1>7, <1>8, <1>9

(* What a step makes of one recorded row captured from a full history, and *)
(* of the others.                                                          *)
LEMMA RowInvStep ==
    ASSUME ~ RepairOverlaps, Inv, [Next]_vars, NEW k \in Recorded'
    PROVE  LET row == setups'[k[1]][k[2]] IN
           /\ k[2] <= LatestStored(candles'[k[1]])
           /\ Measured(row.labels)
           /\ row.obs.mature =>
                /\ FullHistory(candles'[k[1]])
                /\ BreakoutTold(row.labels, k[2])
                /\ ~ row.labels.is_complete => Settled(row, candles'[k[1]], k[2])
<1> DEFINE row == setups[k[1]][k[2]]
           new == setups'[k[1]][k[2]]
           h   == candles[k[1]]
           Goal == /\ k[2] <= LatestStored(candles'[k[1]])
                   /\ Measured(new.labels)
                   /\ new.obs.mature =>
                        /\ FullHistory(candles'[k[1]])
                        /\ BreakoutTold(new.labels, k[2])
                        /\ ~ new.labels.is_complete => Settled(new, candles'[k[1]], k[2])
<1>1. k \in Symbol \X Session /\ k[1] \in Symbol /\ k[2] \in Nat /\ new # Null
  BY DEF Recorded, Session
<1>2. /\ h \in History /\ candles'[k[1]] \in History
      /\ LatestStored(h) \in Nat /\ LatestStored(candles'[k[1]]) \in Nat
      /\ LatestStored(h) <= LatestStored(candles'[k[1]])
      /\ FullHistory(h) => FullHistory(candles'[k[1]])
      /\ (FullHistory(h) /\ latest - k[2] <= STOCK_RETENTION_SESSIONS)
           => Kept(h, candles'[k[1]], k[2])
  BY <1>1, CandleSteps, LatestStoredType
<1>3. row # Null =>
        /\ k[2] <= LatestStored(h)
        /\ Measured(row.labels)
        /\ row.obs.mature =>
             /\ FullHistory(h)
             /\ BreakoutTold(row.labels, k[2])
             /\ ~ row.labels.is_complete =>
                  /\ Settled(row, h, k[2])
                  /\ latest - k[2] <= STOCK_RETENTION_SESSIONS
  BY <1>1 DEF Inv, MatureInv, InRetention, RowsReached, MatureFull, RowsMeasured,
     RowsSettled, Pending, Recorded, RowOf
<1>4. ASSUME new = row  PROVE Goal
  <2>1. k[2] <= LatestStored(candles'[k[1]])
    BY <1>1, <1>2, <1>3, <1>4
  <2>2. ASSUME row.obs.mature, ~ row.labels.is_complete
        PROVE  Settled(row, candles'[k[1]], k[2])
    BY <1>1, <1>2, <1>3, <1>4, <2>2, SettledKept
  <2> HIDE DEF row, new, h
  <2> QED
    BY <1>1, <1>2, <1>3, <1>4, <2>1, <2>2
<1>5. ASSUME ScanAndCapture, new # row  PROVE Goal
  <2>1. /\ k[2] = session /\ new.labels = NoLabels
        /\ new.obs.mature =
             (Cardinality(Stored(h)) >= MINIMUM_SCANNER_HISTORY_SESSIONS)
        /\ bench <= LatestStored(h)
    BY <1>1, <1>5, CaptureSeen DEF Inv
  <2>2. bench = session /\ candles' = candles
    BY <1>5 DEF ScanAndCapture, Inv, MatureInv, CycleReads
  <2>3. Measured(NoLabels) /\ BreakoutTold(NoLabels, k[2])
    BY NoLabelsTold DEF Measured, NoLabels
  <2>4. new.obs.mature => FullHistory(h)
    <3>1. Cardinality(Stored(h)) \in Nat
      <4>1. Stored(h) \in SUBSET Session
        BY <1>2, StoredType
      <4>2. IsFiniteSet(Stored(h))
        BY <4>1, UpToFinite
      <4> QED
        BY <4>2, FS_CardinalityType
    <3> QED
      BY <2>1, <3>1, CycleAssumption DEF FullHistory
  <2>5. Settled(new, h, k[2])
    BY <2>1 DEF Settled
  <2> HIDE DEF row, new
  <2> QED
    BY <2>1, <2>2, <2>3, <2>4, <2>5
<1>6. ASSUME Labelled(k)  PROVE Goal
  <2>1. /\ row \in Row /\ ~ row.labels.is_complete
        /\ new = Evaluate(row, view[k[1]], k[2])
        /\ new.obs = row.obs
    BY <1>6 DEF Labelled
  <2>2. view = candles /\ candles' = candles
    BY <1>6 DEF Labelled, SaveOutcome, Inv, MatureInv, CycleReads
  <2>3. row # Null
    BY <2>1, NullAssumption
  <2> DEFINE W == Window(h, k[2])
  <2>4. CASE W = {}
    <3>1. new = row
      BY <2>1, <2>2, <2>4 DEF Evaluate
    <3> QED
      BY <1>4, <3>1
  <2>5. CASE W # {}
    <3>1. Measured(new.labels)
      <4>1. \A d \in W : h[d] \in Candle
        BY <1>2, WindowType
      <4>2. new.labels = Relabelled(row, h, W)
        BY <2>1, <2>2, <2>5 DEF Evaluate, Row
      <4> HIDE DEF W, h, row, new
      <4> QED
        BY <2>5, <4>1, <4>2, RelabelledMeasured
    <3>2. ASSUME row.obs.mature
          PROVE  /\ BreakoutTold(new.labels, k[2])
                 /\ ~ new.labels.is_complete => Settled(new, h, k[2])
      <4>1. Settled(row, h, k[2])
        BY <1>3, <2>1, <2>3, <3>2
      <4>2. new = Evaluate(row, h, k[2])
        BY <2>1, <2>2
      <4> HIDE DEF row, new, h
      <4> QED
        BY <1>2, <2>1, <2>5, <4>1, <4>2, SettledEvaluated
    <3> QED
      BY <1>3, <2>1, <2>2, <2>3, <3>1, <3>2
  <2> QED
    BY <2>4, <2>5
<1> QED
  BY <1>1, <1>4, <1>5, <1>6, KeySteps DEF Inv

(* The invariant behind the theorems about setups captured from a full     *)
(* history.                                                                *)
LEMMA InvStep ==
    ASSUME ~ RepairOverlaps, Inv, [Next]_vars, TypeInv', ForwardInv'
    PROVE  Inv'
<1>1. RowsReached' /\ MatureFull' /\ RowsMeasured' /\ RowsSettled'
  BY RowInvStep DEF RowsReached, MatureFull, RowsMeasured, RowsSettled, RowOf
<1> QED
  BY <1>1, CycleReadsStep, InRetentionStep, RequestsLaterStep DEF Inv, MatureInv

LEMMA Invariance ==
    ASSUME ~ RepairOverlaps
    PROVE  Spec => []Inv
<1>1. Init => MatureInv
  <2> SUFFICES ASSUME Init  PROVE MatureInv
    OBVIOUS
  <2>1. Recorded = {}
    BY DEF Init, Recorded
  <2> QED
    BY <2>1 DEF Init, MatureInv, CycleReads, InRetention, RequestsLater, RowsReached,
       MatureFull, RowsMeasured, RowsSettled, Pending
<1>2. Spec => []ForwardInv
  BY ForwardInvariant
<1>3. Inv /\ [Next]_vars /\ TypeInv' /\ ForwardInv' => Inv'
  BY InvStep
<1>4. TypeInv /\ ForwardInv /\ MatureInv => Inv
  BY DEF Inv
<1> QED
  BY <1>1, <1>2, <1>3, <1>4, TypeInvariant, PTL DEF Spec

(* When the repair job never overlaps a cycle, a setup captured from a     *)
(* full history is never refetched: its symbol stays full, and a repair    *)
(* asks it only for sessions after the setup's own.                        *)
THEOREM MatureIsNeverRefetched ==
    ASSUME ~ RepairOverlaps
    PROVE  Spec => []MatureStaysFull
<1>1. Inv => MatureStaysFull
  <2> SUFFICES ASSUME Inv, NEW k \in Recorded, RowOf(k).obs.mature
               PROVE  /\ Cardinality(Stored(candles[k[1]]))
                           >= MINIMUM_SCANNER_HISTORY_SESSIONS
                      /\ repair[k[1]] # Null => repair[k[1]].lo > k[2]
    BY DEF MatureStaysFull
  <2>1. k[1] \in Symbol /\ k[2] \in Nat /\ candles[k[1]] \in History
    BY DEF Inv, TypeInv, TypeOK, History, Recorded, Session
  <2>2. Cardinality(Stored(candles[k[1]])) \in Nat
    <3>1. Stored(candles[k[1]]) \in SUBSET Session
      BY <2>1, StoredType
    <3>2. IsFiniteSet(Stored(candles[k[1]]))
      BY <3>1, UpToFinite
    <3> QED
      BY <3>2, FS_CardinalityType
  <2>3. /\ MINIMUM_SCANNER_HISTORY_SESSIONS <= Cardinality(Stored(candles[k[1]]))
        /\ k[2] <= LatestStored(candles[k[1]])
    BY DEF Inv, MatureInv, MatureFull, RowsReached, FullHistory
  <2>4. Cardinality(Stored(candles[k[1]])) >= MINIMUM_SCANNER_HISTORY_SESSIONS
    BY <2>2, <2>3, CycleAssumption
  <2>5. ASSUME repair[k[1]] # Null  PROVE repair[k[1]].lo > k[2]
    <3>1. repair[k[1]].lo \in Nat
      BY <2>1, <2>5 DEF Inv, TypeInv, TypeOK, RequestRange, Session
    <3>2. LatestStored(candles[k[1]]) \in Nat
      BY <2>1, LatestStoredType
    <3>3. LatestStored(candles[k[1]]) < repair[k[1]].lo
      BY <2>1, <2>2, <2>3, <2>5, CycleAssumption
      DEF Inv, MatureInv, RequestsLater, Underfilled
    <3> QED
      BY <2>1, <2>3, <3>1, <3>2, <3>3
  <2> QED
    BY <2>4, <2>5
<1> QED
  BY <1>1, Invariance, PTL

(* When the jobs do not overlap, the breakout labels of a setup captured   *)
(* from a full history tell one story, however often it is evaluated.      *)
THEOREM MatureBreakoutsAgree ==
    ASSUME ~ RepairOverlaps
    PROVE  Spec => []MatureBreakoutAgrees
<1>1. Inv => MatureBreakoutAgrees
  BY DEF Inv, MatureInv, RowsSettled, BreakoutTold, MatureBreakoutAgrees
<1> QED
  BY <1>1, Invariance, PTL

(* When the jobs do not overlap, the labels of a setup captured from a     *)
(* full history only advance, whatever is ingested and pruned between      *)
(* evaluations, for any horizons and any window.                           *)
THEOREM MatureLabelsOnlyAdvance ==
    ASSUME ~ RepairOverlaps
    PROVE  Spec => MatureLabelsAdvance
<1>1. Inv /\ [Next]_vars =>
        [\A k \in Symbol \X Session :
          (setups[k[1]][k[2]] # Null /\ setups[k[1]][k[2]].obs.mature) =>
            Advances(setups[k[1]][k[2]].labels, setups'[k[1]][k[2]].labels)]_vars
  <2> SUFFICES ASSUME Inv, [Next]_vars, NEW k \in Symbol \X Session,
                      setups[k[1]][k[2]] # Null, setups[k[1]][k[2]].obs.mature
               PROVE  Advances(setups[k[1]][k[2]].labels, setups'[k[1]][k[2]].labels)
    OBVIOUS
  <2> DEFINE row == setups[k[1]][k[2]]
             new == setups'[k[1]][k[2]]
             h   == candles[k[1]]
  <2>1. row \in Row /\ row.labels \in Labels /\ Measured(row.labels) /\ h \in History
    BY DEF Inv, TypeInv, TypeOK, History, MatureInv, RowsMeasured, Recorded, RowOf, Row
  <2>2. CASE new = row
    BY <2>1, <2>2, SameAdvances
  <2>3. CASE Labelled(k)
    <3>1. /\ ~ row.labels.is_complete
          /\ new = Evaluate(row, h, k[2])
      BY <2>3 DEF Labelled, SaveOutcome, Inv, MatureInv, CycleReads
    <3>2. Settled(row, h, k[2])
      BY <3>1 DEF Inv, MatureInv, RowsSettled, Recorded, RowOf
    <3> HIDE DEF row, new, h
    <3>3. Advances(row.labels, new.labels)
      <4>1. CASE Window(h, k[2]) = {}
        BY <2>1, <3>1, <4>1, SameAdvances DEF Evaluate
      <4>2. CASE Window(h, k[2]) # {}
        BY <2>1, <3>1, <3>2, <4>2, SettledEvaluated
      <4> QED
        BY <4>1, <4>2
    <3> QED
      BY <3>3 DEF row, new
  <2> QED
    BY <2>2, <2>3, RowSteps DEF Captured, Inv
<1> QED
  BY <1>1, Invariance, PTL DEF Spec, MatureLabelsAdvance
=============================================================================
