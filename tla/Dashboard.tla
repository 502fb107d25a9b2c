------------------------------ MODULE Dashboard ------------------------------
(***************************************************************************)
(* The two pages drawn from what is stored: the dashboard (apps/dashboard/ *)
(* services/dashboard_service.py home) and a stock's page (services/       *)
(* stock_detail_service.py).  A request takes the time once, then reads    *)
(* the quotes, the scan cache and the index quotes one after the other,    *)
(* while the clock goes on and all of them are written.                    *)
(***************************************************************************)
EXTENDS MarketStatus, FiniteSets, FiniteSetsExt

CONSTANTS Companies,      \* the eligible companies
          Sector,         \* the sector of each, "" for none
          IndexKeys,
          Coherence,      \* BATCH_COHERENCE_SECONDS
          Lags,           \* how far behind the clock a stamp is when stored
          Lead,           \* how far ahead of it, at most
          Reports,        \* what the scanner may report of a company
          Horizon         \* the last instant

Report == [company : Companies, session : Int, lifecycle : STRING, breakout : BOOLEAN,
           prebreakout : BOOLEAN, overall : Nat, classification : STRING]

ASSUME DashboardAssumption ==
    /\ {Coherence, Lead, Horizon} \subseteq Nat
    /\ Lags \subseteq Int /\ \A lag \in Lags : lag >= -Lead
    /\ Reports \subseteq Report

VARIABLES now,
          equity,     \* company -> its row of the quote table, <<>> for none
          indices,    \* index -> its row
          aligned,    \* the latest session of stocks and benchmark, Unknown if they differ
          cache,      \* the scan cache: <<>> or [session, reports]
          home,       \* the request for the dashboard
          detail      \* the last stock page

stored == <<equity, indices, aligned, cache>>
pageVars == <<now, stored, home, detail>>

(* CARD_LIMIT and MOVER_LIMIT are not reached.                             *)
Quote == [stamp : Nat \cup {Unknown}, session : Int, priced : BOOLEAN,
          change : -1..1]

(* The last trade a quote with this stamp can tell of, or the one before.  *)
LastTrade(stamp) ==
    LastWeekday(IF TimeOfDay(stamp) < Open THEN Day(stamp) - 1 ELSE Day(stamp))
Trades(stamp) ==
    IF stamp = Unknown THEN {Unknown}
    ELSE {Unknown, LastTrade(stamp), LastWeekday(LastTrade(stamp) - 1)}

Stamps == {Unknown} \cup {now - lag : lag \in {l \in Lags : l <= now}}
Provided ==
    UNION {[stamp : {s}, session : Trades(s), priced : BOOLEAN, change : -1..1] : s \in Stamps}

Latest(S) == IF S = {} THEN Unknown ELSE Max(S)

-----------------------------------------------------------------------------
(* _quote_freshness: one status for all, from the newest stamp and the     *)
(* newest trade, and the quotes close enough to that stamp to be counted.  *)

Rows(table) == {table[c][1] : c \in {d \in DOMAIN table : table[d] # <<>>}}
LatestStamp(table) == Latest({q.stamp : q \in Rows(table)})
LatestTrade(table) == Latest({q.session : q \in Rows(table)})

QuoteStatus(at, table) == ForProviderTimestamp(at, LatestStamp(table), LatestTrade(table))

(* Every priced quote would be counted under the newest one's status.      *)
IsCoherentMutant(q, latest) == q.stamp # Unknown /\ q.priced
IsCoherent(q, latest) == q.stamp # Unknown /\ latest - q.stamp <= Coherence /\ q.priced
Coherent(at, table) ==
    IF QuoteStatus(at, table) = "STALE" THEN {}
    ELSE {c \in DOMAIN table : table[c] # <<>> /\ IsCoherent(table[c][1], LatestStamp(table))}

Moved(counted, change) == {c \in DOMAIN counted : counted[c].change = change}

TopMovers(status, counted) ==
    [status |-> status, gainers |-> Moved(counted, 1), losers |-> Moved(counted, -1)]

UnlessEmpty(status, S) == IF S # {} \/ status = "STALE" THEN status ELSE "DATA_UNAVAILABLE"

Breadth(status, counted) ==
    [status |-> UnlessEmpty(status, DOMAIN counted),
     advances |-> Cardinality(Moved(counted, 1)),
     declines |-> Cardinality(Moved(counted, -1)),
     unchanged |-> Cardinality(Moved(counted, 0)),
     covered |-> Cardinality(DOMAIN counted)]

(* A sector's average has the sign of the sum of its changes.              *)
SectorItems(status, counted) ==
    LET names == {Sector[c] : c \in DOMAIN counted} \ {""}
        Of(s) == {c \in DOMAIN counted : Sector[c] = s}
    IN  [status |-> IF names = {} THEN "DATA_UNAVAILABLE" ELSE UnlessEmpty(status, names),
         items |-> [s \in names |->
                       Cardinality(Moved(counted, 1) \cap Of(s))
                         - Cardinality(Moved(counted, -1) \cap Of(s))]]

-----------------------------------------------------------------------------
(* _load_reports and the sections drawn from them.                         *)

NoReports(error) == [reports |-> {}, session |-> Unknown, error |-> error]

(* load_valid: a cache of another session than the stored candles' is      *)
(* refused as stale.                                                       *)
LoadReports ==
    CASE aligned = Unknown -> NoReports("unavailable")
      [] aligned # Unknown /\ cache = <<>> -> NoReports("unavailable")
      [] aligned # Unknown /\ cache # <<>> ->
           IF cache[1].session # aligned THEN NoReports("stale")
           ELSE [reports |-> cache[1].reports, session |-> cache[1].session, error |-> ""]

Forming == {"NEAR_PIVOT", "TIGHTENING", "CONTRACTING", "BASE_BUILDING"}
SetupState(r) ==
    CASE r.lifecycle = "EXTENDED_AFTER_BREAKOUT" -> "CLIMBING"
      [] r.lifecycle # "EXTENDED_AFTER_BREAKOUT" /\ r.breakout -> "BREAKOUT CONFIRMED"
      [] r.lifecycle # "EXTENDED_AFTER_BREAKOUT" /\ ~r.breakout ->
           CASE r.lifecycle = "FAILED_BREAKOUT" -> "FAILED ATTEMPT"
             [] r.lifecycle = "BREAKOUT_IN_PROGRESS" -> "BREAKOUT ATTEMPT"
             [] r.lifecycle = "BREAKOUT_READY" -> "PRE-BREAKOUT READY"
             [] r.lifecycle \in Forming -> "FORMING"
             [] OTHER -> r.classification

(* What both sections and the stage summary say of themselves.             *)
SectionStatus(at, loaded) ==
    IF loaded.reports # {} THEN ForScannerSession(at, loaded.session)
    ELSE IF loaded.error = "stale" THEN "STALE" ELSE "DATA_UNAVAILABLE"

Stages == {"FORMING", "PRE-BREAKOUT READY", "BREAKOUT ATTEMPT", "BREAKOUT CONFIRMED",
           "CLIMBING", "FAILED ATTEMPT"}
StageSummary(loaded) ==
    LET In(stage) == {r \in loaded.reports : SetupState(r) = stage}
    IN  [stage \in {s \in Stages : In(s) # {}} |-> Cardinality(In(stage))]

ReportCard(r) == [company |-> r.company, session |-> r.session, state |-> SetupState(r)]
ScannerSections(at, loaded) ==
    [status |-> SectionStatus(at, loaded),
     priority |-> {ReportCard(r) : r \in {x \in loaded.reports : x.overall >= 70}},
     prebreakout |-> {ReportCard(r) : r \in {x \in loaded.reports : x.prebreakout \/ x.breakout}},
     stages |-> StageSummary(loaded)]

-----------------------------------------------------------------------------
(* _indices: a status for each, and the worst of them for all.             *)

CombinedStatus(states) ==
    CASE "STALE" \in states -> "STALE"
      [] "STALE" \notin states /\ "DATA_UNAVAILABLE" \in states -> "DATA_UNAVAILABLE"
      [] states \cap {"STALE", "DATA_UNAVAILABLE"} = {} ->
           IF "LIVE" \in states THEN "LIVE"
           ELSE IF states # {} THEN "MARKET_CLOSED" ELSE "DATA_UNAVAILABLE"

IndexItem(at, row) ==
    IF row = <<>> THEN [status |-> "DATA_UNAVAILABLE", stamp |-> Unknown]
    ELSE [status |-> ForProviderTimestamp(at, row[1].stamp, row[1].session),
          stamp |-> row[1].stamp]
IndexItems(at) ==
    LET items == [k \in IndexKeys |-> IndexItem(at, indices[k])]
    IN  [items |-> items,
         status |-> CombinedStatus({items[k].status : k \in {j \in IndexKeys : indices[j] # <<>>}})]

-----------------------------------------------------------------------------
(* A request.                                                              *)

NoHome == [step |-> "idle", at |-> 0, meta |-> <<>>, counted |-> <<>>, movers |-> <<>>,
           breadth |-> <<>>, sectors |-> <<>>, sections |-> <<>>, indices |-> <<>>]
NoDetail == [at |-> 0, quote |-> <<>>, state |-> "DATA_UNAVAILABLE"]

PagesInit ==
    /\ now \in 0..Horizon
    /\ aligned \in {Unknown} \cup 0..Day(now)
    /\ equity = [c \in Companies |-> <<>>]
    /\ indices = [k \in IndexKeys |-> <<>>]
    /\ cache = <<>>
    /\ home = NoHome
    /\ detail = NoDetail

HomeStarts ==
    /\ home.step \in {"idle", "shown"}
    /\ home' = [NoHome EXCEPT !.step = "quotes", !.at = now]
    /\ UNCHANGED <<now, stored, detail>>

HomeReadsQuotes ==
    /\ home.step = "quotes"
    /\ LET status == QuoteStatus(home.at, equity)
           counted == [c \in Coherent(home.at, equity) |-> equity[c][1]]
       IN  home' = [home EXCEPT !.step = "reports", !.counted = counted,
                                !.meta = <<LatestStamp(equity), LatestTrade(equity)>>,
                                !.movers = TopMovers(status, counted),
                                !.breadth = Breadth(status, counted),
                                !.sectors = SectorItems(status, counted)]
    /\ UNCHANGED <<now, stored, detail>>

HomeLoadsReports ==
    /\ home.step = "reports"
    /\ LET loaded == LoadReports
       IN  home' = [home EXCEPT !.step = "indices",
                                !.sections = ScannerSections(home.at, loaded),
                                !.meta = MarketMeta(home.at, @[1], @[2], loaded.session)]
    /\ UNCHANGED <<now, stored, detail>>

HomeReadsIndices ==
    /\ home.step = "indices"
    /\ home' = [home EXCEPT !.step = "shown", !.indices = IndexItems(home.at)]
    /\ UNCHANGED <<now, stored, detail>>

(* A stock's page: its own quote has its own status.                       *)
StockDetail(c) ==
    /\ LET mine == {r \in LoadReports.reports : r.company = c}
       IN  detail' = [at |-> now, quote |-> IndexItem(now, equity[c]),
                      state |-> IF mine = {} THEN "DATA_UNAVAILABLE"
                                ELSE SetupState(CHOOSE r \in mine : TRUE)]
    /\ UNCHANGED <<now, stored, home>>

-----------------------------------------------------------------------------
(* The clock and the writers: the quote worker, the ingestion, the builder *)
(* of the scan cache.  A request is over within a tick.                    *)

ClockTick ==
    /\ now < Horizon
    /\ home.step \in {"idle", "shown"} \/ now = home.at
    /\ now' = now + 1
    /\ UNCHANGED <<stored, home, detail>>

StoreQuote(c) ==
    /\ \E q \in Provided : equity' = [equity EXCEPT ![c] = <<q>>]
    /\ UNCHANGED <<now, indices, aligned, cache, home, detail>>
StoreIndexQuote(k) ==
    /\ \E q \in Provided : indices' = [indices EXCEPT ![k] = <<q>>]
    /\ UNCHANGED <<now, equity, aligned, cache, home, detail>>

(* Candles of a completed session, of the stocks or of the benchmark too.  *)
StoreCandles ==
    /\ aligned' \in {Unknown, ExpectedSession(now)}
    /\ UNCHANGED <<now, equity, indices, cache, home, detail>>

(* build_technical_scan_cache: reports of the session of the candles.      *)
SaveCache ==
    /\ aligned # Unknown
    /\ \E S \in SUBSET Reports :
          /\ \A r, s \in S : r.company = s.company => r = s
          /\ cache' = <<[session |-> aligned,
                         reports |-> {[r EXCEPT !.session = aligned] : r \in S}]>>
    /\ UNCHANGED <<now, equity, indices, aligned, home, detail>>

PagesNext ==
    \/ HomeStarts \/ HomeReadsQuotes \/ HomeLoadsReports \/ HomeReadsIndices
    \/ ClockTick \/ StoreCandles \/ SaveCache
    \/ \E c \in Companies : StoreQuote(c) \/ StockDetail(c)
    \/ \E k \in IndexKeys : StoreIndexQuote(k)

PagesSpec == PagesInit /\ [][PagesNext]_pageVars

PagesTypeOK ==
    /\ now \in 0..Horizon
    /\ \A c \in Companies : equity[c] = <<>> \/ equity[c][1] \in Quote
    /\ \A k \in IndexKeys : indices[k] = <<>> \/ indices[k][1] \in Quote
    /\ aligned \in Int
    /\ home.step \in {"idle", "quotes", "reports", "indices", "shown"}
    /\ home.at \in 0..now /\ detail.at \in 0..now

-----------------------------------------------------------------------------
(* Properties.                                                             *)

Shown == home.step = "shown"
Between(t, a, b) == a <= t /\ t <= b

(* LIVE is recent: while the dashboard says LIVE the market is open, every *)
(* stock it ranks or counts is at most the freshness limit and the         *)
(* coherence of a batch old, every index that says LIVE at most the limit, *)
(* so is a stock whose own page says it, and none is from the future; and  *)
(* a scanner section says it only over cards of the completed session,     *)
(* whatever is written while the request reads one after the other.        *)
LiveIsRecent ==
    /\ Shown =>
        /\ home.movers.status = "LIVE" =>
              /\ IsTradingWindow(home.at)
              /\ \A c \in DOMAIN home.counted :
                    Between(home.counted[c].stamp, home.at - StaleAfter - Coherence, home.at + Skew)
        /\ \A k \in IndexKeys :
              "LIVE" \in {home.indices.status, home.indices.items[k].status}
                  /\ home.indices.items[k].stamp # Unknown
                  => Between(home.indices.items[k].stamp, home.at - StaleAfter, home.at + Skew)
        /\ home.sections.status = "LIVE" =>
              \A card \in home.sections.priority \cup home.sections.prebreakout :
                  card.session = ExpectedSession(home.at)
    /\ detail.quote # <<>> /\ detail.quote.status = "LIVE" =>
          Between(detail.quote.stamp, detail.at - StaleAfter, detail.at + Skew)

(* MARKET_CLOSED covers the session: outside trading hours the dashboard   *)
(* ranks and counts nothing that is older, by more than the coherence of a *)
(* batch, than the day of the last completed session; no index, and no     *)
(* stock on its own page, is older than that day; and the cards of a       *)
(* section that says so are of that session.                               *)
ClosedCoversSession ==
    LET Covers(at, t) == t >= ExpectedSession(at) * DayLength
    IN  /\ Shown =>
            /\ home.movers.status = "MARKET_CLOSED" =>
                  \A c \in DOMAIN home.counted : Covers(home.at, home.counted[c].stamp + Coherence)
            /\ \A k \in IndexKeys :
                  home.indices.items[k].status = "MARKET_CLOSED"
                      => Covers(home.at, home.indices.items[k].stamp)
            /\ home.sections.status = "MARKET_CLOSED" =>
                  \A card \in home.sections.priority \cup home.sections.prebreakout :
                      card.session = ExpectedSession(home.at)
        /\ detail.quote # <<>> /\ detail.quote.status = "MARKET_CLOSED"
              => Covers(detail.at, detail.quote.stamp)
=============================================================================
