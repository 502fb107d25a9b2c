----------------------------- MODULE HistorySync -----------------------------
(***************************************************************************)
(* CloudEODIngestionService.sync_stock_history: the batch job that keeps   *)
(* CloudDailyCandle current.  A run reads the companies once, orders the   *)
(* pending ones so that the least recently attempted come first, requests  *)
(* at most a batch of them, and only then writes, in this order and each   *)
(* in a transaction of its own: the attempt stamps, the buffered candles,  *)
(* the three-year-high summaries.  It is run by the outcome cycle and,     *)
(* with include_insufficient, by the repair workflow, which share no lock. *)
(* A candle is represented by its high.  Definitions whose name ends in    *)
(* Mutant are faulty variants of the one that follows; no specification    *)
(* uses them.                                                              *)
(***************************************************************************)
EXTENDS Integers, FiniteSets

CONSTANTS
    Company,                        \* scanner-eligible companies, as numbers:
                                    \* the symbol order, which breaks ties
    Job,                            \* the workflows that run the sync
    RepairJob,                      \* those with include_insufficient = True
    Overlap,                        \* may two jobs run at the same time?
    MaxSession,                     \* bound: sessions the exchange closes
    MaxCrashes,                     \* bound: runs that are killed
    MaxPrice,                       \* bound: the highs of a session are 1..MaxPrice
    BATCH_LIMIT,                    \* companies of one run, 500
    WRITE_BATCH_SIZE,               \* buffered rows that force a flush, 5000
    FULL_HISTORY,                   \* an answer this long resets the high, 500
    MINIMUM_SCANNER_HISTORY_SESSIONS,
    Null

Session == 1..MaxSession
Price   == 1..MaxPrice

ASSUME SyncAssumption ==
    /\ Company \subseteq Nat /\ IsFiniteSet(Company)
    /\ RepairJob \subseteq Job
    /\ Overlap \in BOOLEAN
    /\ MaxSession \in Nat \ {0}
    /\ MaxCrashes \in Nat
    /\ MaxPrice \in Nat \ {0}
    /\ BATCH_LIMIT \in Nat \ {0}
    /\ WRITE_BATCH_SIZE \in Nat \ {0}
    /\ FULL_HISTORY \in Nat
    /\ MINIMUM_SCANNER_HISTORY_SESSIONS \in Nat
    /\ Null \notin Int /\ Null \notin Job

VARIABLES
    latest,     \* latest session the exchange has closed
    candles,    \* CloudDailyCandle: [Company -> [Session -> high or Null]]
    high,       \* Company.three_year_high, Null when there is none
    success,    \* Company.history_sync_last_success_session, 0 for NULL
    attempts,   \* the attempts that count: of every company the
                \* history_sync_last_attempt_at in the database (by = Null),
                \* and those a running job holds in memory
    before,     \* pairs of attempts, the one made before the other
    run,        \* the state of each job's running command
    crashes     \* runs killed so far

stamps == <<attempts, before>>
vars == <<latest, candles, high, success, stamps, run, crashes>>

NoCandles == [d \in Session |-> Null]

(* A command between runs holds nothing. *)
Idle == [stage |-> "idle", target |-> 0, queue |-> [c \in {} |-> 0], start |-> [c \in Company |-> 1],
         high |-> [c \in Company |-> Null], success |-> [c \in Company |-> 0],
         buffer |-> [c \in Company |-> NoCandles], summaries |-> {}]

Init ==
    /\ latest = 0
    /\ candles = [c \in Company |-> NoCandles]
    /\ high = [c \in Company |-> Null]
    /\ success = [c \in Company |-> 0]
    /\ attempts = {}
    /\ before = {}
    /\ run = [j \in Job |-> Idle]
    /\ crashes = 0

-----------------------------------------------------------------------------
Stored(history) == {d \in Session : history[d] # Null}

LatestStored(history) ==
    IF Stored(history) = {} THEN 0
    ELSE CHOOSE d \in Stored(history) : \A x \in Stored(history) : x <= d

Underfilled(c) ==
    Cardinality(Stored(candles[c])) < MINIMUM_SCANNER_HISTORY_SESSIONS

Behind(c) == LatestStored(candles[c]) < latest

(* The companies the job works on; include_insufficient adds the underfilled. *)
Pending(j) == {c \in Company : Behind(c) \/ (j \in RepairJob /\ Underfilled(c))}

Attempt == [by : Job \cup {Null}, of : Company]

(* The attempt in the database, as its place in the order of time; 0 for NULL. *)
Saved(c) == [by |-> Null, of |-> c]
AttemptTime(c) ==
    IF Saved(c) \in attempts
    THEN 1 + Cardinality({t \in attempts : <<t, Saved(c)>> \in before}) ELSE 0

(* repair_phase: without candles, without attempt; underfilled; the rest. *)
RepairPhase(j, c) ==
    IF j \notin RepairJob THEN 0
    ELSE IF ~ Underfilled(c) THEN 3
    ELSE IF Saved(c) \in attempts THEN 2
    ELSE IF Stored(candles[c]) = {} THEN 0 ELSE 1

SortKeyMutant(j, c) ==
    <<RepairPhase(j, c), 0,
      IF j \in RepairJob THEN Cardinality(Stored(candles[c])) ELSE 0,
      LatestStored(candles[c]), c>>

(* pending.sort(key = ...); the key's two repeated entries decide nothing. *)
SortKey(j, c) ==
    <<RepairPhase(j, c), AttemptTime(c),
      IF j \in RepairJob THEN Cardinality(Stored(candles[c])) ELSE 0,
      LatestStored(candles[c]), c>>

(* Python's order on tuples of one length. *)
TupleLess(k, l) ==
    \E i \in DOMAIN k : k[i] < l[i] /\ \A n \in 1..(i - 1) : k[n] = l[n]

(* pending[:limit]: each company of the batch with its place in it. *)
Batch(j) ==
    LET key == [c \in Pending(j) |-> SortKey(j, c)]
        place == [c \in Pending(j) |->
                    Cardinality({d \in Pending(j) : TupleLess(key[d], key[c])})]
    IN  [c \in {d \in Pending(j) : place[d] < BATCH_LIMIT} |-> place[c]]

(* An empty or underfilled company is asked for its whole window. *)
StartOf(j, c) ==
    IF (j \in RepairJob /\ Underfilled(c)) \/ Stored(candles[c]) = {}
    THEN 1 ELSE LatestStored(candles[c]) + 1

-----------------------------------------------------------------------------
CloseSession ==
    /\ latest < MaxSession
    /\ latest' = latest + 1
    /\ UNCHANGED <<candles, high, success, stamps, run, crashes>>

(***************************************************************************)
(* The queries and the sort; of what is read, only what the batch uses is  *)
(* kept.  A run with nothing pending changes nothing.                      *)
(***************************************************************************)
StartSync(j) ==
    /\ run[j].stage = "idle"
    /\ Overlap \/ \A k \in Job : run[k].stage = "idle"
    /\ Pending(j) # {}
    /\ LET queue == Batch(j)
           read(value, none) ==
               [c \in Company |-> IF c \in DOMAIN queue THEN value[c] ELSE none[c]]
       IN  run' = [run EXCEPT ![j] =
             [Idle EXCEPT !.stage = "requesting", !.target = latest, !.queue = queue,
                          !.start = read([c \in Company |-> StartOf(j, c)], @),
                          !.high = read(high, @), !.success = read(success, @)]]
    /\ UNCHANGED <<latest, candles, high, success, stamps, crashes>>

(* Every company of the batch is stamped, in memory, before it is requested. *)
Stamp(j, c) ==
    LET t == [by |-> j, of |-> c]
    IN  attempts' = attempts \cup {t} /\ before' = before \cup (attempts \X {t})

(* The company whose turn it is. *)
Turn(j, c) ==
    /\ run[j].stage = "requesting"
    /\ c \in DOMAIN run[j].queue
    /\ \A d \in DOMAIN run[j].queue : run[j].queue[c] <= run[j].queue[d]

Rest(queue, c) == [d \in DOMAIN queue \ {c} |-> queue[d]]

(* The request fails for good, or its answer has no valid candle. *)
RequestFails(j, c) ==
    /\ Turn(j, c)
    /\ Stamp(j, c)
    /\ run' = [run EXCEPT ![j].queue = Rest(@, c)]
    /\ UNCHANGED <<latest, candles, high, success, crashes>>

(***************************************************************************)
(* An answer is some of the requested sessions.  Environment: one that is  *)
(* long enough to replace the high leaves out no candle already stored.    *)
(***************************************************************************)
AnswerSessions(j, c) ==
    {D \in SUBSET (run[j].start[c]..run[j].target) :
        /\ D # {}
        /\ Cardinality(D) >= FULL_HISTORY => Stored(candles[c]) \subseteq D}

Overwrite(history, answer) ==
    [d \in Session |-> IF answer[d] # Null THEN answer[d] ELSE history[d]]

Highest(answer) ==
    CHOOSE p \in Price : /\ \E d \in Session : answer[d] = p
                         /\ \A d \in Stored(answer) : answer[d] <= p

HighAfter(old, answer) ==
    IF old = Null \/ Highest(answer) >= old \/ Cardinality(Stored(answer)) >= FULL_HISTORY
    THEN Highest(answer) ELSE old

BufferedMutant(r, c, answer) ==
    [r EXCEPT !.queue = Rest(@, c),
              !.buffer[c] = Overwrite(@, answer),
              !.high[c] = HighAfter(@, answer),
              !.success[c] = r.target,
              !.summaries = @ \cup {c}]

Buffered(r, c, answer) ==
    [r EXCEPT !.queue = Rest(@, c),
              !.buffer[c] = Overwrite(@, answer),
              !.high[c] = HighAfter(@, answer),
              !.success[c] = LatestStored(answer),
              !.summaries = @ \cup {c}]

BufferedRows(r) ==
    Cardinality({k \in Company \X Session : r.buffer[k[1]][k[2]] # Null})

(* _flush_stock_rows: one upsert of everything buffered. *)
Flushed(r) == [c \in Company |-> Overwrite(candles[c], r.buffer[c])]

EmptiedMutant(r) == [r EXCEPT !.buffer = [c \in Company |-> NoCandles], !.summaries = {}]

Emptied(r) == [r EXCEPT !.buffer = [c \in Company |-> NoCandles]]

(***************************************************************************)
(* The answer is buffered and the summaries updated in memory.  A buffer   *)
(* that has reached WRITE_BATCH_SIZE is flushed; when that flush fails the *)
(* company counts as failed, and the run goes on with the buffer as it is. *)
(***************************************************************************)
RequestAnswered(j, c) ==
    /\ Turn(j, c)
    /\ Stamp(j, c)
    /\ \E D \in AnswerSessions(j, c) : \E a \in [D -> Price] :
         LET answer == [d \in Session |-> IF d \in D THEN a[d] ELSE Null]
             r == Buffered(run[j], c, answer)
         IN  \/ /\ BufferedRows(r) >= WRITE_BATCH_SIZE
                /\ candles' = Flushed(r)
                /\ run' = [run EXCEPT ![j] = Emptied(r)]
             \/ /\ candles' = candles \* no flush is due, or it failed
                /\ run' = [run EXCEPT ![j] = r]
    /\ UNCHANGED <<latest, high, success, crashes>>

(* The companies the run has attempted. *)
Mine(j) == {c \in Company : [by |-> j, of |-> c] \in attempts}

Settled(j, t) == IF t.by = j THEN Saved(t.of) ELSE t

Keep(kept, j) ==
    /\ attempts' = {Settled(j, t) : t \in kept}
    /\ before' = {<<Settled(j, p[1]), Settled(j, p[2])>> : p \in before \cap (kept \X kept)}

StampAttemptsMutant(j) ==
    /\ run[j].stage = "requesting"
    /\ DOMAIN run[j].queue = {}
    /\ Keep(attempts, j)
    /\ success' = [c \in Company |-> IF c \in Mine(j) THEN run[j].success[c] ELSE success[c]]
    /\ run' = [run EXCEPT ![j].stage = "stamped"]
    /\ UNCHANGED <<latest, candles, high, crashes>>

(* bulk_update of the two sync columns; a company has one attempt. *)
StampAttempts(j) ==
    /\ run[j].stage = "requesting"
    /\ DOMAIN run[j].queue = {}
    /\ Keep({t \in attempts : t.by = Null => t.of \notin Mine(j)}, j)
    /\ success' = [c \in Company |-> IF c \in Mine(j) THEN run[j].success[c] ELSE success[c]]
    /\ run' = [run EXCEPT ![j].stage = "stamped"]
    /\ UNCHANGED <<latest, candles, high, crashes>>

FlushRows(j) ==
    /\ run[j].stage = "stamped"
    /\ candles' = Flushed(run[j])
    /\ run' = [run EXCEPT ![j] = [Emptied(run[j]) EXCEPT !.stage = "flushed"]]
    /\ UNCHANGED <<latest, high, success, stamps, crashes>>

SaveSummaries(j) ==
    /\ run[j].stage = "flushed"
    /\ high' = [c \in Company |-> IF c \in run[j].summaries THEN run[j].high[c] ELSE high[c]]
    /\ run' = [run EXCEPT ![j] = Idle]
    /\ UNCHANGED <<latest, candles, success, stamps, crashes>>

(* The runner is killed, or one of the three writes raises. *)
Crash(j) ==
    /\ run[j].stage # "idle"
    /\ crashes < MaxCrashes
    /\ crashes' = crashes + 1
    /\ attempts' = {t \in attempts : t.by # j}
    /\ before' = {p \in before : p[1].by # j /\ p[2].by # j}
    /\ run' = [run EXCEPT ![j] = Idle]
    /\ UNCHANGED <<latest, candles, high, success>>

Step(j) ==
    \/ \E c \in Company : RequestFails(j, c)
    \/ \E c \in Company : RequestAnswered(j, c)
    \/ StampAttempts(j)
    \/ FlushRows(j)
    \/ SaveSummaries(j)

Next ==
    \/ CloseSession
    \/ \E j \in Job : StartSync(j)
    \/ \E j \in Job : Step(j)
    \/ \E j \in Job : Crash(j)

Spec == Init /\ [][Next]_vars

(* The cycle's job is scheduled for ever; the repair is started by hand,   *)
(* and may never be again.  A run that is not killed goes on.              *)
Fairness ==
    /\ \A j \in Job \ RepairJob : WF_vars(StartSync(j))
    /\ \A j \in Job : WF_vars(Step(j))

FairSpec == Spec /\ Fairness

-----------------------------------------------------------------------------
(***************************************************************************)
(* Properties.                                                             *)
(***************************************************************************)

Stages == {"idle", "requesting", "stamped", "flushed"}

History == [Session -> Price \cup {Null}]

Runs == [stage : Stages, target : 0..MaxSession,
         queue : UNION {[S -> 0..Cardinality(Company)] : S \in SUBSET Company},
         start : [Company -> Session], high : [Company -> Price \cup {Null}],
         success : [Company -> 0..MaxSession], buffer : [Company -> History],
         summaries : SUBSET Company]

(* The attempts are made one after the other. *)
StrictOrder ==
    /\ before \subseteq attempts \X attempts
    /\ \A t, u \in attempts : t # u => <<t, u>> \in before \/ <<u, t>> \in before
    /\ \A t, u \in attempts : ~ (<<t, u>> \in before /\ <<u, t>> \in before)
    /\ \A t, u, v \in attempts :
         <<t, u>> \in before /\ <<u, v>> \in before => <<t, v>> \in before

(* Every variable has its type; no two attempts are at the same time, those *)
(* of one company included.                                                 *)
TypeOK ==
    /\ latest \in 0..MaxSession
    /\ candles \in [Company -> History]
    /\ high \in [Company -> Price \cup {Null}]
    /\ success \in [Company -> 0..MaxSession]
    /\ attempts \subseteq Attempt
    /\ StrictOrder
    /\ run \in [Job -> Runs]
    /\ crashes \in 0..MaxCrashes

Quiet == \A j \in Job : run[j].stage = "idle"

(***************************************************************************)
(* Company.three_year_high is the breakout reference the scanner reads     *)
(* instead of three years of candles: between undisturbed runs it is not   *)
(* below the high of any stored candle, although it is written after them, *)
(* by another statement, and from a copy read before the requests.         *)
(***************************************************************************)
HighCoversHistory ==
    (Quiet /\ crashes = 0) =>
        \A c \in Company : \A d \in Stored(candles[c]) :
            high[c] # Null /\ high[c] >= candles[c][d]

(***************************************************************************)
(* Between undisturbed runs a company's last success names a session that  *)
(* its candles reach, although it is written before them: a flush that     *)
(* failed half way through the batch has lost nothing.                     *)
(***************************************************************************)
SuccessIsStored ==
    (Quiet /\ crashes = 0) =>
        \A c \in Company :
            /\ success[c] <= LatestStored(candles[c])
            /\ (success[c] = 0) <=> (Stored(candles[c]) = {})

(***************************************************************************)
(* The same reference when runs may be killed, once no job has anything    *)
(* left to do: what the comment on the column says of it.                  *)
(***************************************************************************)
HighAlwaysCovers ==
    (Quiet /\ \A j \in Job : Pending(j) = {}) =>
        \A c \in Company : \A d \in Stored(candles[c]) :
            high[c] # Null /\ high[c] >= candles[c][d]

(***************************************************************************)
(* Rotation: a company that is behind is attempted, however many others    *)
(* are pending, fail on every attempt, or are underfilled for good, and    *)
(* whether or not another job runs the sync at the same time.              *)
(***************************************************************************)
EventuallyAttempted ==
    \A c \in Company :
        Behind(c) ~> (~ Behind(c) \/ \E j \in Job : c \in Mine(j))
=============================================================================
