---------------------------- MODULE ScanPipeline ----------------------------
(***************************************************************************)
(* The commands that the scanner workflows run one after the other:        *)
(* validate_scanner_data_readiness, build_technical_scan_cache, in the     *)
(* dry run validate_scanner_data_readiness --check-cache, and the command  *)
(* that publishes (in the dry run, that projects only).  They share nothing but the cache file on the runner's  *)
(* disk and the cloud tables, which the outcome cycle and the repair job   *)
(* fill meanwhile.  Each command works out the session anew: the gates     *)
(* take the most complete one, ScanReportCacheService the newest one.      *)
(* Days are numbered; a weekend day may be a session, and a weekday need   *)
(* not be one.  Definitions whose name ends in Mutant are faulty variants  *)
(* of the one that follows; no specification uses them.                    *)
(***************************************************************************)
EXTENDS Integers, FiniteSets

CONSTANTS
    Company,                \* the scanner-eligible companies
    Listing,                \* [Company -> 0..MaxDay]: listing_date, 0 when it
                            \* is unknown or lies before the stored history
    Quoted,                 \* those that have a quote to begin with
    Weekday,                \* the days that are no weekend days
    MaxDay,                 \* bound: days that pass
    MaxKills,               \* bound: runs that are killed
    REQUIRED_DAILY_HISTORY, \* sessions of a sufficient history, 252
    MIN_STOCK_COVERAGE,     \* per cent, 95
    MIN_QUOTE_COVERAGE,     \* 95
    MIN_HISTORY_COVERAGE,   \* 95
    MIN_REPORT_COVERAGE     \* 90

Day == 1..MaxDay

ASSUME PipelineAssumption ==
    /\ IsFiniteSet(Company) /\ Company # {}
    /\ MaxDay \in Nat /\ MaxKills \in Nat
    /\ Weekday \subseteq Day
    /\ Listing \in [Company -> 0..MaxDay]
    /\ Quoted \subseteq Company
    /\ REQUIRED_DAILY_HISTORY \in Nat \ {0}
    /\ MIN_STOCK_COVERAGE \in 1..100
    /\ MIN_QUOTE_COVERAGE \in 1..100
    /\ MIN_HISTORY_COVERAGE \in 1..100
    /\ MIN_REPORT_COVERAGE \in 0..(MIN_STOCK_COVERAGE + MIN_QUOTE_COVERAGE - 100)

VARIABLES
    day,        \* the last day whose 16:00 has passed
    stored,     \* CloudDailyCandle: [Company -> the sessions stored]
    benchmark,  \* CloudBenchmarkCandle: the sessions stored
    quotes,     \* the companies with a CloudQuoteSnapshot
    cache,      \* latest_scan_reports.json
    temporary,  \* latest_scan_reports.json.tmp
    run,        \* the workflow run: how far it is and what it holds
    published,  \* of the last reports projected for the sheet: their session,
                \* and the one that the build's gate had required
    kills       \* runs killed so far

tables == <<stored, benchmark, quotes>>
disk == <<cache, temporary>>
vars == <<day, tables, disk, run, published, kills>>

(* A file holds nothing, a part of a payload, or one whole payload. *)
Absent == [state |-> "absent"]
Partial == [state |-> "partial"]
Whole(session, reports) == [state |-> "whole", session |-> session, reports |-> reports]

(* quiet: day and tables are still those that build's readiness gate saw;  *)
(* while they are, lost has the companies whose report the scan dropped.   *)
(* expected, of the build's gate, quiet and lost are there for the         *)
(* properties only.                                                        *)
Idle == [stage |-> "idle", expected |-> 0, session |-> 0, reports |-> {}, lost |-> {},
         quiet |-> FALSE]

Init ==
    /\ day = 0
    /\ stored = [c \in Company |-> {}]
    /\ benchmark = {}
    /\ quotes = Quoted
    /\ cache = Absent
    /\ temporary = Absent
    /\ run = Idle
    /\ published = [session |-> 0, expected |-> 0]
    /\ kills = 0

-----------------------------------------------------------------------------
(* The latest of some days, 0 for none. *)
Latest(days) == IF days = {} THEN 0 ELSE CHOOSE d \in days : \A x \in days : x <= d

(* expected_latest_completed_session: the calendar knows no holidays. *)
Expected == Latest({d \in Weekday : d <= day})

Instruments(d) == {c \in Company : d \in stored[c]}

(* best_common_session: the most instruments, among those the newest. *)
CommonSessions == {d \in benchmark : d <= Expected /\ Instruments(d) # {}}
BetterMutant(d, e) ==
    \/ Cardinality(Instruments(d)) > Cardinality(Instruments(e))
    \/ Cardinality(Instruments(d)) = Cardinality(Instruments(e)) /\ d <= e
Better(d, e) ==
    \/ Cardinality(Instruments(d)) > Cardinality(Instruments(e))
    \/ Cardinality(Instruments(d)) = Cardinality(Instruments(e)) /\ d >= e
Aligned ==
    IF CommonSessions = {} THEN 0
    ELSE CHOOSE d \in CommonSessions : \A e \in CommonSessions : Better(d, e)

Sufficient == {c \in Company : Cardinality(stored[c]) >= REQUIRED_DAILY_HISTORY}

(* mature_companies: all but those listed too late to have a full history. *)
Calendar == {d \in 1..Expected : Instruments(d) # {}}
LegitimatelyNew ==
    IF Cardinality(Calendar) < REQUIRED_DAILY_HISTORY THEN {}
    ELSE {c \in Company \ Sufficient :
            Cardinality({d \in Calendar : d >= Listing[c]}) < REQUIRED_DAILY_HISTORY}
Mature == Company \ LegitimatelyNew

(* _coverage is not below the minimum. *)
Covers(part, whole, percent) ==
    whole # {} /\ 100 * Cardinality(part) >= percent * Cardinality(whole)

InputsReadyStaleMutant ==
    /\ Aligned # 0
    /\ Covers(Instruments(Aligned), Company, MIN_STOCK_COVERAGE)
    /\ Covers(quotes, Company, MIN_QUOTE_COVERAGE)
    /\ Covers(Sufficient, Mature, MIN_HISTORY_COVERAGE)

InputsReadyQuoteMutant ==
    /\ Aligned # 0 /\ Aligned = Expected
    /\ Covers(Instruments(Aligned), Company, MIN_STOCK_COVERAGE)
    /\ Covers(Sufficient, Mature, MIN_HISTORY_COVERAGE)

(* failures(collect()) is empty. *)
InputsReady ==
    /\ Aligned # 0 /\ Aligned = Expected
    /\ Covers(Instruments(Aligned), Company, MIN_STOCK_COVERAGE)
    /\ Covers(quotes, Company, MIN_QUOTE_COVERAGE)
    /\ Covers(Sufficient, Mature, MIN_HISTORY_COVERAGE)

(* load(expected_session = ...) returns the reports of the cache. *)
Loads(session) == session # 0 /\ cache.state = "whole" /\ cache.session = session

(* failures(collect(check_cache = True)) is empty. *)
ReportsReady ==
    /\ InputsReady
    /\ Loads(Aligned)
    /\ Covers(cache.reports \cap Mature, Mature, MIN_REPORT_COVERAGE)

-----------------------------------------------------------------------------
(* Environment: time, and the jobs that fill the tables. *)
Disturbed == run' = [run EXCEPT !.quiet = FALSE, !.lost = {}]

EndDay ==
    /\ day < MaxDay
    /\ day' = day + 1
    /\ Disturbed
    /\ UNCHANGED <<tables, disk, published, kills>>

StoreCandle(c, d) ==
    /\ d <= day /\ d >= Listing[c] /\ d \notin stored[c]
    /\ stored' = [stored EXCEPT ![c] = @ \cup {d}]
    /\ Disturbed
    /\ UNCHANGED <<day, benchmark, quotes, disk, published, kills>>

StoreBenchmark(d) ==
    /\ d <= day /\ d > Latest(benchmark) \* sync_benchmark asks from there on
    /\ benchmark' = benchmark \cup {d}
    /\ Disturbed
    /\ UNCHANGED <<day, stored, quotes, disk, published, kills>>

StoreQuote(c) ==
    /\ c \notin quotes
    /\ quotes' = quotes \cup {c}
    /\ Disturbed
    /\ UNCHANGED <<day, stored, benchmark, disk, published, kills>>

-----------------------------------------------------------------------------
At(stage) == run.stage = stage
GoTo(stage) == run' = [run EXCEPT !.stage = stage]

(* validate_scanner_data_readiness, on a new runner or on the old disk. *)
Validate ==
    /\ At("idle") /\ InputsReady
    /\ \/ UNCHANGED disk
       \/ cache' = Absent /\ temporary' = Absent
    /\ run' = [Idle EXCEPT !.stage = "validated"]
    /\ UNCHANGED <<day, tables, published, kills>>

(* The build command collects and judges once more. *)
GateBuild ==
    /\ At("validated") /\ InputsReady
    /\ run' = [run EXCEPT !.stage = "gated", !.expected = Expected, !.quiet = TRUE]
    /\ UNCHANGED <<day, tables, disk, published, kills>>

(* latest_aligned_session, by two queries: the newest session of any        *)
(* company, then the benchmark's, which must be the same.                   *)
NewestStock == Latest(UNION {stored[c] : c \in Company})

QueryStock(from, to) ==
    /\ At(from)
    /\ run' = [run EXCEPT !.stage = to, !.session = NewestStock]
    /\ UNCHANGED <<day, tables, disk, published, kills>>

QueryBenchmarkMutant(from, to) ==
    /\ At(from)
    /\ Aligned # 0
    /\ run' = [run EXCEPT !.stage = to, !.session = Aligned]
    /\ UNCHANGED <<day, tables, disk, published, kills>>

QueryBenchmark(from, to) ==
    /\ At(from)
    /\ run.session # 0 /\ run.session = Latest(benchmark)
    /\ GoTo(to)
    /\ UNCHANGED <<day, tables, disk, published, kills>>

(* The companies with a quote whose newest candle is of the session: the    *)
(* build keeps these reports of what scan_live_market returns.              *)
OnSession == {c \in quotes : Latest(stored[c]) = run.session}

OpenTemporaryMutant == cache' = Partial /\ UNCHANGED temporary

(* save: the temporary file is opened, written, and takes the cache's name. *)
OpenTemporary == temporary' = Partial /\ UNCHANGED cache

(* scan_live_market builds a snapshot and judges it company by company, and *)
(* goes on without those, lost, for which either raises.  Nobody can tell   *)
(* that the scan is over before save opens the file: they are one action.   *)
Scan(lost) ==
    /\ At("aligned")
    /\ OpenTemporary
    /\ run' = [run EXCEPT !.stage = "writing", !.reports = OnSession \ lost,
                          !.lost = IF run.quiet THEN lost ELSE {}]
    /\ UNCHANGED <<day, tables, published, kills>>

WriteTemporary ==
    /\ At("writing")
    /\ temporary' = Whole(run.session, run.reports)
    /\ GoTo("written")
    /\ UNCHANGED <<day, tables, cache, published, kills>>

ReplaceCache ==
    /\ At("written")
    /\ cache' = temporary
    /\ temporary' = Absent
    /\ GoTo("built")
    /\ UNCHANGED <<day, tables, published, kills>>

(* The live workflow publishes as soon as the cache is built; the dry run   *)
(* goes on after validate_scanner_data_readiness --check-cache, or not.     *)
(* The build command's process is over, and what it held is gone.           *)
ProceedToPublish ==
    /\ At("built")
    /\ run' = [Idle EXCEPT !.stage = "checked", !.expected = run.expected]
    /\ UNCHANGED <<day, tables, disk, published, kills>>

(* load_valid has its session; what is loaded is published, unless there is *)
(* nothing in it (EmptyScannerReportSet).                                   *)
LoadAndPublish ==
    /\ At("required")
    /\ Loads(run.session) /\ cache.reports # {}
    /\ published' = [session |-> cache.session, expected |-> run.expected]
    /\ run' = Idle
    /\ UNCHANGED <<day, tables, disk, kills>>

(* A command that finds its condition unmet fails, and the run with it. *)
Refuse ==
    /\ \/ At("validated") /\ ~ InputsReady
       \/ run.stage \in {"queried", "loading"} /\ ~ (run.session # 0 /\ run.session = Latest(benchmark))
       \/ At("built") /\ ~ ReportsReady
       \/ At("required") /\ ~ (Loads(run.session) /\ cache.reports # {})
    /\ run' = Idle
    /\ UNCHANGED <<day, tables, disk, published, kills>>

(* A run is cancelled or times out, or the disk or the database fails it. *)
Kill ==
    /\ ~ At("idle")
    /\ kills < MaxKills
    /\ kills' = kills + 1
    /\ run' = Idle
    /\ UNCHANGED <<day, tables, disk, published>>

Workflow ==
    \/ Validate
    \/ GateBuild
    \/ QueryStock("gated", "queried") \/ QueryBenchmark("queried", "aligned")
    \/ \E lost \in SUBSET OnSession : Scan(lost)
    \/ WriteTemporary \/ ReplaceCache
    \/ ProceedToPublish
    \/ QueryStock("checked", "loading") \/ QueryBenchmark("loading", "required")
    \/ LoadAndPublish
    \/ Refuse

Ingestion ==
    \/ \E c \in Company, d \in Day : StoreCandle(c, d)
    \/ \E d \in Day : StoreBenchmark(d)
    \/ \E c \in Company : StoreQuote(c)

Next == EndDay \/ Ingestion \/ Workflow \/ Kill

Spec == Init /\ [][Next]_vars

(* A scan that drops no more reports than the report gate puts up with. *)
ScanSucceeds ==
    \E lost \in SUBSET OnSession :
        Scan(lost) /\ Covers((OnSession \ lost) \cap Mature, Mature, MIN_REPORT_COVERAGE)

(* The workflow is scheduled for ever, and a run that is not killed goes    *)
(* on.  Nothing in the code bounds how many companies' scans raise; it is   *)
(* assumed that they are again and again few enough.                        *)
Fairness == WF_vars(Workflow) /\ SF_vars(ScanSucceeds)

FairSpec == Spec /\ Fairness

-----------------------------------------------------------------------------
(***************************************************************************)
(* Properties.                                                             *)
(***************************************************************************)

Stages == {"idle", "validated", "gated", "queried", "aligned", "writing",
           "written", "built", "checked", "loading", "required"}

Wholes == [state : {"whole"}, session : 0..MaxDay, reports : SUBSET Company]

(* Every variable has its type.  The cache file is never a part of a        *)
(* payload, wherever in save a run is killed; the temporary file may be.    *)
PipelineTypeOK ==
    /\ day \in 0..MaxDay
    /\ stored \in [Company -> SUBSET Day]
    /\ benchmark \subseteq Day
    /\ quotes \subseteq Company
    /\ cache \in {Absent} \cup Wholes
    /\ temporary \in {Absent, Partial} \cup Wholes
    /\ run \in [stage : Stages, expected : 0..MaxDay, session : 0..MaxDay,
                reports : SUBSET Company, lost : SUBSET Company, quiet : BOOLEAN]
    /\ published \in [session : 0..MaxDay, expected : 0..MaxDay]
    /\ kills \in 0..MaxKills

(***************************************************************************)
(* What is published is of no older session than the one that the build's  *)
(* readiness gate required, although the gate and the two commands after   *)
(* it each work out the session from tables that change under them.        *)
(***************************************************************************)
GateHolds == published.session >= published.expected

(***************************************************************************)
(* Two publications never go back in time, whatever gaps the repair job    *)
(* fills in between and whatever file an earlier run left on the disk.     *)
(***************************************************************************)
PublishedForward == [][published'.session >= published.session]_published

(***************************************************************************)
(* While the tables stand still after the build's gate, and no session is  *)
(* stored beyond the expected one, the two input gates alone give every    *)
(* one of MIN_REPORT_COVERAGE of the eligible companies a report or a scan *)
(* that raised for it: gate, session and scan, worked out one after the    *)
(* other and from different queries, lose no company between them, and     *)
(* what the cache is short of is the errors that scan_live_market swallows.*)
(***************************************************************************)
BuiltCovers ==
    (At("built") /\ run.quiet /\ NewestStock <= Expected) =>
        Covers(run.reports \cup run.lost, Company, MIN_REPORT_COVERAGE)

(***************************************************************************)
(* Once every company, the benchmark and the quotes have the day, the day  *)
(* is published: the gates and the two ways of working out the session     *)
(* agree on it, and nothing that killed runs left on the disk, or a scan   *)
(* that dropped every report, is in the way.                               *)
(***************************************************************************)
Complete ==
    /\ day \in Weekday
    /\ \A c \in Company : day \in stored[c]
    /\ Latest(benchmark) = day
    /\ quotes = Company
    /\ Covers(Sufficient, Mature, MIN_HISTORY_COVERAGE)

EventuallyPublished == Complete ~> (published.session = day \/ ~ Complete)
=============================================================================
