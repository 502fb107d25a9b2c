---------------------------- MODULE OutcomeCycle ----------------------------
(***************************************************************************)
(* The durable pre-breakout outcome cycle: the scheduled job that ingests  *)
(* daily candles, prunes them, scans, captures the setups it finds         *)
(* (PreBreakoutOutcomeService.capture) and labels the setups still pending *)
(* (evaluate_pending), with the history-repair job writing to the same     *)
(* candle table from another workflow.                                     *)
(*                                                                         *)
(* Sessions are 1..MaxSession, session d closing when latest becomes d.    *)
(* A percentage return is a strictly increasing function of the price it   *)
(* is computed from, the evaluation price of a row being fixed, so a       *)
(* return, and the two excursions, are represented by that price.          *)
(***************************************************************************)
EXTENDS Integers, FiniteSets

CONSTANTS
    Symbol,                         \* scanner-eligible instruments
    MaxSession,                     \* bound: sessions the exchange closes
    MaxPrice,                       \* bound: prices are 1..MaxPrice
    Candle,                         \* the [high, low, close] a session can have
    Level,                          \* the breakout levels the scan can report
    Quote,                          \* the last prices the scan can report
    HORIZONS,                       \* return horizons, (1, 3, 5, 10, 20)
    WINDOW,                         \* forward sessions of a complete row, 20
    STOCK_RETENTION_SESSIONS,       \* candles kept per company, 272
    MINIMUM_SCANNER_HISTORY_SESSIONS,  \* a company below it is repaired, 252
    RepairOverlaps,                 \* may the repair job run during a cycle?
    Null                            \* a database NULL, a missing candle or row

Session == 1..MaxSession
Price   == 1..MaxPrice

ASSUME CycleAssumption ==
    /\ MaxSession \in Nat \ {0}
    /\ MaxPrice \in Nat \ {0}
    /\ Candle \subseteq [high : Price, low : Price, close : Price]
    /\ \A c \in Candle : c.low <= c.close /\ c.close <= c.high
    /\ Level \subseteq Price
    /\ Quote \subseteq Price
    /\ WINDOW \in Nat
    /\ HORIZONS \subseteq 1..WINDOW
    /\ WINDOW \in HORIZONS
    /\ STOCK_RETENTION_SESSIONS \in Nat
    /\ MINIMUM_SCANNER_HISTORY_SESSIONS \in Nat
    /\ WINDOW <= STOCK_RETENTION_SESSIONS
    /\ MINIMUM_SCANNER_HISTORY_SESSIONS <= STOCK_RETENTION_SESSIONS
    /\ RepairOverlaps \in BOOLEAN
    /\ Null \notin Int
    /\ Null \notin Candle

VARIABLES
    latest,     \* latest session the exchange has closed
    bench,      \* latest CloudBenchmarkCandle session, 0 when there is none
    candles,    \* CloudDailyCandle: [Symbol -> [Session -> candle or Null]]
    setups,     \* PreBreakoutSetupOutcome: [Symbol -> [Session -> row or Null]]
    phase,      \* where the running cycle is, "idle" between runs
    session,    \* the cycle's resolved session (ingestion.latest_session)
    todo,       \* symbols still to be requested, then setups still to be saved
    view,       \* the candles evaluate_pending loaded
    retried,    \* has _database_phase used its one retry?
    repair      \* the repair job: the range it requested per symbol, or Null

cycleVars == <<phase, session, todo, view, retried>>
vars == <<latest, bench, candles, setups, phase, session, todo, view, retried, repair>>

Phases == {"idle", "history", "benchmark", "pruned", "aligned", "captured",
           "evaluating"}

(***************************************************************************)
(* A row of PreBreakoutSetupOutcome.  seen (the session the snapshot was   *)
(* taken from) and mature (the symbol had a full history then) are history *)
(* variables: the code stores them only inside feature_snapshot.           *)
(***************************************************************************)
Labels == [returns            : [HORIZONS -> Price \cup {Null}],
           mfe                : Price \cup {Null},
           mae                : Price \cup {Null},
           breakout_occurred  : BOOLEAN \cup {Null},
           breakout_session   : Session \cup {Null},
           sessions_to_breakout : Nat \cup {Null},
           failed_breakout    : BOOLEAN \cup {Null},
           evaluated_through  : Session \cup {Null},
           is_complete        : BOOLEAN]

Observations == [price : Price, pivot : Price, seen : Session, mature : BOOLEAN]

Row == [obs : Observations, labels : Labels]

(* A range of sessions requested from the provider. *)
RequestRange == [lo : Session, hi : Session]

ASSUME NullAssumption ==
    Null \notin Row /\ Null \notin RequestRange /\ Null \notin BOOLEAN

NoLabels == [returns |-> [h \in HORIZONS |-> Null], mfe |-> Null, mae |-> Null,
             breakout_occurred |-> Null, breakout_session |-> Null,
             sessions_to_breakout |-> Null, failed_breakout |-> Null,
             evaluated_through |-> Null, is_complete |-> FALSE]

-----------------------------------------------------------------------------
(* Sets of sessions. *)

Lowest(S)  == CHOOSE d \in S : \A x \in S : d <= x
Highest(S) == CHOOSE d \in S : \A x \in S : x <= d

(* How many sessions of S are not after d: its one-based position. *)
Position(S, d) == Cardinality({x \in S : x <= d})

(* The n-th session of S, as a set: empty when S has fewer than n. *)
Nth(S, n) == {d \in S : Position(S, d) = n}

Stored(history) == {d \in Session : history[d] # Null}

(* Max("session_date"), 0 for a company without candles. *)
LatestStored(history) ==
    IF Stored(history) = {} THEN 0 ELSE Highest(Stored(history))

(* What the provider may answer for the sessions lo..hi: any of them. *)
Answers(lo, hi) == UNION {[D -> Candle] : D \in SUBSET {d \in Session : lo <= d /\ d <= hi}}

(* bulk_create(update_conflicts=True): the answer replaces what is stored. *)
Upsert(history, answer) ==
    [d \in Session |-> IF d \in DOMAIN answer THEN answer[d] ELSE history[d]]

(* prune_retention: the newest STOCK_RETENTION_SESSIONS rows survive. *)
Pruned(history) ==
    [d \in Session |->
        IF Cardinality({x \in Stored(history) : x >= d}) > STOCK_RETENTION_SESSIONS
        THEN Null ELSE history[d]]

-----------------------------------------------------------------------------
(* evaluate_pending on one row.  Definitions whose name ends in Mutant are   *)
(* faulty variants of the one that follows; no specification uses them.      *)

ForwardMutant(history, e) == {d \in Stored(history) : d >= e}

(* candle.session_date > setup.evaluation_session *)
Forward(history, e) == {d \in Stored(history) : d > e}

WindowMutant(history, e) == Forward(history, e)

(* ... and the first 20 of them. *)
Window(history, e) ==
    {d \in Forward(history, e) : Position(Forward(history, e), d) <= WINDOW}

FullMutant(W) == Nth(W, WINDOW + 1) # {}

(* len(candles) >= 20 *)
Full(W) == Nth(W, WINDOW) # {}

(* The sessions whose high reaches the pivot. *)
Touching(history, W, pivot) == {d \in W : history[d].high >= pivot}

ReturnAfterMutant(history, W, h, old) ==
    IF Nth(W, h + 1) # {} THEN history[CHOOSE d \in Nth(W, h) : TRUE].close ELSE old

(* The h-session return, once there are h forward sessions. *)
ReturnAfter(history, W, h, old) ==
    IF Nth(W, h) # {} THEN history[CHOOSE d \in Nth(W, h) : TRUE].close ELSE old

BreakoutFlagMutant(touch, W, found, old) == IF touch # {} THEN found ELSE old

(* Decided by a breakout, or by a full window without one; else unchanged. *)
BreakoutFlag(touch, W, found, old) ==
    IF touch # {} THEN found ELSE IF Full(W) THEN FALSE ELSE old

(* A close below the pivot from the breakout session on. *)
Fails(history, W, first, pivot) ==
    \E d \in W : d >= first /\ history[d].close < pivot

Relabelled(row, history, W) ==
    LET pivot == row.obs.pivot
        touch == Touching(history, W, pivot)
        first == Lowest(touch)
        old   == row.labels
    IN  [returns |-> [h \in HORIZONS |-> ReturnAfter(history, W, h, old.returns[h])],
         mfe |-> Highest({history[d].high : d \in W}),
         mae |-> Lowest({history[d].low : d \in W}),
         breakout_occurred |-> BreakoutFlag(touch, W, TRUE, old.breakout_occurred),
         breakout_session |-> IF touch # {} THEN first ELSE old.breakout_session,
         sessions_to_breakout |->
             IF touch # {} THEN Position(W, first) ELSE old.sessions_to_breakout,
         failed_breakout |->
             BreakoutFlag(touch, W, Fails(history, W, first, pivot), old.failed_breakout),
         evaluated_through |-> Highest(W),
         is_complete |-> Full(W)]

(* A row without forward candles is skipped. *)
Evaluate(row, history, e) ==
    LET W == Window(history, e)
    IN  IF W = {} THEN row ELSE [row EXCEPT !.labels = Relabelled(row, history, W)]

-----------------------------------------------------------------------------
Init ==
    /\ latest = 0
    /\ bench = 0
    /\ candles = [s \in Symbol |-> [d \in Session |-> Null]]
    /\ setups = [s \in Symbol |-> [d \in Session |-> Null]]
    /\ phase = "idle"
    /\ session = 0
    /\ todo = {}
    /\ view = candles
    /\ retried = FALSE
    /\ repair = [s \in Symbol |-> Null]

Recorded == {k \in Symbol \X Session : setups[k[1]][k[2]] # Null}
Pending  == {k \in Recorded : ~ setups[k[1]][k[2]].labels.is_complete}

RepairIdle == \A s \in Symbol : repair[s] = Null

(***************************************************************************)
(* The exchange closes a session.  Environment bound: no setup is left     *)
(* pending, and no cycle running, for more than STOCK_RETENTION_SESSIONS   *)
(* sessions, 272 in the code, so that pruning never reaches a candle that  *)
(* is still to be labelled.                                                *)
(***************************************************************************)
PendingWithinRetention ==
    /\ \A k \in Pending : latest + 1 - k[2] <= STOCK_RETENTION_SESSIONS
    /\ phase # "idle" => latest + 1 - session <= STOCK_RETENTION_SESSIONS

CloseSession ==
    /\ latest < MaxSession
    /\ PendingWithinRetention
    /\ latest' = latest + 1
    /\ UNCHANGED <<bench, candles, setups, cycleVars, repair>>

(* The workflow's concurrency group admits one cycle at a time. *)
StartCycle ==
    /\ phase = "idle"
    /\ latest > 0
    /\ RepairOverlaps \/ RepairIdle
    /\ phase' = "history"
    /\ session' = latest
    /\ todo' = Symbol
    /\ UNCHANGED <<latest, bench, candles, setups, view, retried, repair>>

SyncSymbolMutant(s) ==
    /\ phase = "history"
    /\ s \in todo
    /\ LatestStored(candles[s]) < session
    /\ \E answer \in Answers(LatestStored(candles[s]), session) :
         candles' = [candles EXCEPT ![s] = Upsert(candles[s], answer)]
    /\ todo' = todo \ {s}
    /\ UNCHANGED <<latest, bench, setups, phase, session, view, retried, repair>>

(***************************************************************************)
(* sync_stock_history for one company, include_insufficient = False: only  *)
(* a company behind the session is asked, from the day after its latest    *)
(* candle.  The answer may be empty, partial or have gaps.                 *)
(***************************************************************************)
SyncSymbol(s) ==
    /\ phase = "history"
    /\ s \in todo
    /\ LatestStored(candles[s]) < session
    /\ \E answer \in Answers(LatestStored(candles[s]) + 1, session) :
         candles' = [candles EXCEPT ![s] = Upsert(candles[s], answer)]
    /\ todo' = todo \ {s}
    /\ UNCHANGED <<latest, bench, setups, phase, session, view, retried, repair>>

(* sync_benchmark, after as many companies as the batch limit lets through. *)
SyncBenchmark ==
    /\ phase = "history"
    /\ \E b \in {bench} \cup {d \in Session : bench < d /\ d <= session} : bench' = b
    /\ phase' = "benchmark"
    /\ todo' = {}
    /\ UNCHANGED <<latest, candles, setups, session, view, retried, repair>>

PruneRetention ==
    /\ phase = "benchmark"
    /\ candles' = [s \in Symbol |-> Pruned(candles[s])]
    /\ phase' = "pruned"
    /\ UNCHANGED <<latest, bench, setups, session, todo, view, retried, repair>>

(* benchmark_ready; its session count is left open.  Otherwise no scan. *)
CheckAlignment ==
    /\ phase = "pruned"
    /\ phase' \in IF bench = session THEN {"aligned", "captured"} ELSE {"captured"}
    /\ UNCHANGED <<latest, bench, candles, setups, session, todo, view, retried, repair>>

(***************************************************************************)
(* scan_live_market followed by capture.  A report carries what capture    *)
(* looks at: whether the engine qualifies the setup, the level and last    *)
(* price (0 and Null when there is none), and the data-quality state.  The *)
(* gate marks a symbol STALE by the benchmark session as the scan reads    *)
(* it; EMPTY is a symbol without candles.                                  *)
(***************************************************************************)
Report ==
    [qualifies : BOOLEAN, level : Level \cup {Null}, last_price : Quote \cup {0},
     state : {"FRESH", "PARTIAL", "STALE", "INVALID"}, stale_market_data : BOOLEAN]

ReportFits(s, r) ==
    /\ Stored(candles[s]) = {} => r.state = "INVALID"
    /\ Stored(candles[s]) # {} =>
         /\ LatestStored(candles[s]) < bench => r.state \in {"STALE", "INVALID"}
         /\ LatestStored(candles[s]) >= bench => r.state # "STALE"

CapturableMutant(r) ==
    r.qualifies /\ r.level # Null /\ r.state \notin {"STALE", "INVALID"} /\ ~ r.stale_market_data

Capturable(r) ==
    /\ r.qualifies
    /\ r.level # Null
    /\ r.last_price > 0
    /\ r.state \notin {"STALE", "INVALID"}
    /\ ~ r.stale_market_data

Observed(s, r) ==
    [price |-> r.last_price, pivot |-> r.level, seen |-> LatestStored(candles[s]),
     mature |-> Cardinality(Stored(candles[s])) >= MINIMUM_SCANNER_HISTORY_SESSIONS]

GetOrCreateMutant(rows, s, e, r) ==
    IF Capturable(r)
    THEN [rows EXCEPT ![e] = [obs |-> Observed(s, r), labels |-> NoLabels]]
    ELSE rows

(* get_or_create on (symbol, exchange, evaluation_session). *)
GetOrCreate(rows, s, e, r) ==
    IF Capturable(r) /\ rows[e] = Null
    THEN [rows EXCEPT ![e] = [obs |-> Observed(s, r), labels |-> NoLabels]]
    ELSE rows

ScanAndCapture ==
    /\ phase = "aligned"
    /\ \E reports \in [Symbol -> Report] :
         /\ \A s \in Symbol : ReportFits(s, reports[s])
         /\ setups' = [s \in Symbol |-> GetOrCreate(setups[s], s, session, reports[s])]
    /\ phase' = "captured"
    /\ UNCHANGED <<latest, bench, candles, session, todo, view, retried, repair>>

LoadPendingMutant ==
    /\ phase = "captured"
    /\ phase' = "evaluating"
    /\ todo' = Recorded
    /\ view' = candles
    /\ retried' = FALSE
    /\ UNCHANGED <<latest, bench, candles, setups, session, repair>>

(* evaluate_pending reads the pending setups and their candles. *)
LoadPending ==
    /\ phase = "captured"
    /\ phase' = "evaluating"
    /\ todo' = Pending
    /\ view' = candles
    /\ retried' = FALSE
    /\ UNCHANGED <<latest, bench, candles, setups, session, repair>>

(* One setup of the loop: the newest evaluation session first. *)
SaveOutcome(k) ==
    /\ phase = "evaluating"
    /\ k \in todo
    /\ \A other \in todo : other[2] <= k[2]
    /\ setups' = [setups EXCEPT ![k[1]][k[2]] = Evaluate(@, view[k[1]], k[2])]
    /\ todo' = todo \ {k}
    /\ UNCHANGED <<latest, bench, candles, phase, session, view, retried, repair>>

(* _database_phase: one OperationalError restarts the whole evaluation. *)
RetryEvaluation ==
    /\ phase = "evaluating"
    /\ ~ retried
    /\ retried' = TRUE
    /\ todo' = Pending
    /\ view' = candles
    /\ UNCHANGED <<latest, bench, candles, setups, phase, session, repair>>

CycleOver ==
    /\ phase' = "idle"
    /\ session' = 0
    /\ todo' = {}
    /\ view' = [s \in Symbol |-> [d \in Session |-> Null]]
    /\ retried' = FALSE
    /\ UNCHANGED <<latest, bench, candles, setups, repair>>

FinishCycle == phase = "evaluating" /\ todo = {} /\ CycleOver

(* The job is killed (timeout, lost database, unhandled exception). *)
Crash == phase # "idle" /\ CycleOver

-----------------------------------------------------------------------------
(* The repair job: sync_benchmark, and sync_stock_history with             *)
(* include_insufficient = True, between whose read and flush other         *)
(* processes run when RepairOverlaps.                                      *)

RepairMayRun == RepairOverlaps \/ phase = "idle"

RepairBenchmark ==
    /\ RepairMayRun
    /\ \E b \in {d \in Session : bench < d /\ d <= latest} : bench' = b
    /\ UNCHANGED <<latest, candles, setups, cycleVars, repair>>

UnderfilledMutant(s) ==
    Cardinality(Stored(candles[s])) <= MINIMUM_SCANNER_HISTORY_SESSIONS

Underfilled(s) ==
    Cardinality(Stored(candles[s])) < MINIMUM_SCANNER_HISTORY_SESSIONS

(* An underfilled company is asked for its whole window again. *)
RepairRequest(s) ==
    /\ RepairMayRun
    /\ latest > 0
    /\ repair[s] = Null
    /\ Underfilled(s) \/ LatestStored(candles[s]) < latest
    /\ repair' = [repair EXCEPT ![s] =
         [lo |-> IF Underfilled(s) THEN 1 ELSE LatestStored(candles[s]) + 1,
          hi |-> latest]]
    /\ UNCHANGED <<latest, bench, candles, setups, cycleVars>>

RepairFlush(s) ==
    /\ repair[s] # Null
    /\ \E answer \in Answers(repair[s].lo, repair[s].hi) :
         candles' = [candles EXCEPT ![s] = Upsert(candles[s], answer)]
    /\ repair' = [repair EXCEPT ![s] = Null]
    /\ UNCHANGED <<latest, bench, setups, cycleVars>>

-----------------------------------------------------------------------------
Cycle ==
    \/ StartCycle
    \/ \E s \in Symbol : SyncSymbol(s)
    \/ SyncBenchmark
    \/ PruneRetention
    \/ CheckAlignment
    \/ ScanAndCapture
    \/ LoadPending
    \/ \E k \in Symbol \X Session : SaveOutcome(k)
    \/ RetryEvaluation
    \/ FinishCycle

Repair ==
    \/ RepairBenchmark
    \/ \E s \in Symbol : RepairRequest(s)
    \/ \E s \in Symbol : RepairFlush(s)

Next == CloseSession \/ Cycle \/ Crash \/ Repair

Spec == Init /\ [][Next]_vars

(***************************************************************************)
(* The workflow runs on a schedule for ever and a killed run is followed   *)
(* by another, so no step of the cycle fails on every run that reaches it; *)
(* a repair that has its answer writes it or ends.                         *)
(***************************************************************************)
Fairness ==
    /\ SF_vars(StartCycle)
    /\ SF_vars(SyncBenchmark)
    /\ SF_vars(PruneRetention)
    /\ SF_vars(CheckAlignment)
    /\ SF_vars(ScanAndCapture)
    /\ SF_vars(LoadPending)
    /\ \A k \in Symbol \X Session : SF_vars(SaveOutcome(k))
    /\ SF_vars(FinishCycle)
    /\ WF_vars(\E s \in Symbol : RepairFlush(s))

FairSpec == Spec /\ Fairness

-----------------------------------------------------------------------------
(***************************************************************************)
(* Properties.                                                             *)
(***************************************************************************)

(* Every variable has its type; a candle table holds candles. *)
TypeOK ==
    /\ latest \in 0..MaxSession
    /\ bench \in 0..MaxSession
    /\ candles \in [Symbol -> [Session -> Candle \cup {Null}]]
    /\ setups \in [Symbol -> [Session -> Row \cup {Null}]]
    /\ phase \in Phases
    /\ session \in 0..MaxSession
    /\ todo \subseteq Symbol \cup (Symbol \X Session)
    /\ view \in [Symbol -> [Session -> Candle \cup {Null}]]
    /\ retried \in BOOLEAN
    /\ repair \in [Symbol -> RequestRange \cup {Null}]

RowOf(k) == setups[k[1]][k[2]]

(***************************************************************************)
(* The labels of a setup come from sessions after the one its snapshot was *)
(* taken from: "forward-only outcome labels".  It fails when the repair    *)
(* job stores a newer session between the cycle resolving its session and  *)
(* the scan: capture records the report under the older session.           *)
(***************************************************************************)
ForwardOnly ==
    \A k \in Recorded :
        RowOf(k).labels.evaluated_through # Null
            => RowOf(k).labels.evaluated_through > RowOf(k).obs.seen

(***************************************************************************)
(* However evaluations, retries, crashes, pruning and repairs interleave,  *)
(* the labels of a row agree: a return is known only with every shorter    *)
(* one; a row is complete exactly when it has the last return, and then    *)
(* its breakout is decided; a row with a decided breakout has an evaluated *)
(* session; and in an evaluated row the worst excursion is not above the   *)
(* best.                                                                   *)
(***************************************************************************)
LabelsAgree ==
    \A k \in Recorded :
        LET l == RowOf(k).labels IN
        /\ \A h, g \in HORIZONS : (g < h /\ l.returns[h] # Null) => l.returns[g] # Null
        /\ l.is_complete <=> l.returns[WINDOW] # Null
        /\ l.is_complete => l.breakout_occurred # Null /\ l.failed_breakout # Null
        /\ l.breakout_occurred # Null => l.evaluated_through # Null
        /\ l.evaluated_through # Null => l.mae <= l.mfe

(***************************************************************************)
(* A setup captured from a full history never becomes a candidate for the  *)
(* repair's whole-window refetch: pruning keeps its symbol full.  It is    *)
(* what keeps repairs away from candles that are already labelled.         *)
(***************************************************************************)
MatureStaysFull ==
    \A k \in Recorded :
        RowOf(k).obs.mature
            => /\ Cardinality(Stored(candles[k[1]])) >= MINIMUM_SCANNER_HISTORY_SESSIONS
               /\ repair[k[1]] # Null => repair[k[1]].lo > k[2]

(***************************************************************************)
(* The breakout labels of a setup captured from a full history tell one    *)
(* story: a breakout has a session inside the window and a position, no    *)
(* breakout has neither.                                                   *)
(***************************************************************************)
MatureBreakoutAgrees ==
    \A k \in Recorded :
        LET l == RowOf(k).labels IN
        RowOf(k).obs.mature =>
            /\ (l.breakout_occurred = TRUE) <=> (l.breakout_session # Null)
            /\ (l.breakout_occurred = TRUE) <=> (l.sessions_to_breakout # Null)
            /\ l.breakout_session # Null =>
                 /\ k[2] < l.breakout_session
                 /\ l.breakout_session <= l.evaluated_through
                 /\ l.sessions_to_breakout \in 1..WINDOW

(***************************************************************************)
(* A recorded setup is never deleted and what it observed never changes.   *)
(***************************************************************************)
ObservationImmutable ==
    [][\A k \in Symbol \X Session :
          setups[k[1]][k[2]] # Null =>
            /\ setups'[k[1]][k[2]] # Null
            /\ setups'[k[1]][k[2]].obs = setups[k[1]][k[2]].obs]_vars

(***************************************************************************)
(* A complete row keeps every label for good, whatever is ingested, pruned *)
(* or repaired after it, and however the evaluation that completed it is   *)
(* retried.                                                                *)
(***************************************************************************)
CompleteIsFinal ==
    [][\A k \in Recorded :
          RowOf(k).labels.is_complete => setups'[k[1]][k[2]] = RowOf(k)]_vars

(***************************************************************************)
(* For a setup captured from a full history, labels only advance: a known  *)
(* return is never overwritten by another value, the evaluated session     *)
(* moves forward, a breakout stays where it was found and a failure stays  *)
(* a failure, and the excursions only widen.                               *)
(***************************************************************************)
Advances(old, new) ==
    /\ \A h \in HORIZONS : old.returns[h] # Null => new.returns[h] = old.returns[h]
    /\ old.evaluated_through # Null =>
         /\ new.evaluated_through >= old.evaluated_through
         /\ new.mfe >= old.mfe
         /\ new.mae <= old.mae
    /\ old.breakout_session # Null =>
         /\ new.breakout_session = old.breakout_session
         /\ new.sessions_to_breakout = old.sessions_to_breakout
         /\ old.failed_breakout => new.failed_breakout

MatureLabelsAdvance ==
    [][\A k \in Symbol \X Session :
          (setups[k[1]][k[2]] # Null /\ setups[k[1]][k[2]].obs.mature) =>
            Advances(setups[k[1]][k[2]].labels, setups'[k[1]][k[2]].labels)]_vars

(***************************************************************************)
(* A pending setup whose window is stored is eventually complete, however  *)
(* runs are killed, retried and delayed.                                   *)
(***************************************************************************)
WindowStored(k) == Nth(Window(candles[k[1]], k[2]), WINDOW) # {}

EventuallyComplete ==
    \A k \in Symbol \X Session :
        (k \in Pending /\ WindowStored(k)) ~> (k \in Recorded \ Pending)

(***************************************************************************)
(* The rows implement the ledger of immutable observations.                *)
(***************************************************************************)
LedgerView ==
    [k \in Symbol \X Session |->
        IF setups[k[1]][k[2]] = Null THEN Null
        ELSE [observed |-> setups[k[1]][k[2]].obs,
              known    |-> {h \in HORIZONS : setups[k[1]][k[2]].labels.returns[h] # Null},
              closed   |-> setups[k[1]][k[2]].labels.is_complete]]

Ledger == INSTANCE SetupLedger WITH
    Key <- Symbol \X Session, Observation <- Observations, Horizon <- HORIZONS,
    LastHorizon <- WINDOW, Absent <- Null, ledger <- LedgerView

ASSUME EntryAssumption == Null \notin Ledger!Entry

LedgerImplemented == Ledger!LedgerSpec
=============================================================================
