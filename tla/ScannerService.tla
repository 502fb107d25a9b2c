--------------------------- MODULE ScannerService ---------------------------
(* One stock through the scans of the scanner service (apps/scanner/services *)
(* /scanner_service.py): its stored daily candles, those of the benchmark    *)
(* and its quote go through every extractor, the pre-breakout scorer and     *)
(* engine and the strategies.                                                *)
(*                                                                           *)
(* Candle prices are in ticks of 25 paise.  The candles of one scan are all  *)
(* loaded: an instance has fewer than HISTORY_WINDOW.                        *)
EXTENDS SetupLifecycle, BenchmarkSignals, PreBreakoutScore, StrategyEngine

CONSTANTS Starts,         \* candles of the stock and of the benchmark at the first scan
          Closes,         \* the sessions that can follow, as functions of the last candle
          Moves,          \* percentages the quote can be away from the last close
          MarketCap,      \* of the company, 0 when unknown
          Peers,          \* composite scores of the other stocks of the scan
          MaxSessions     \* bound: sessions closed along one behaviour

(* A candle as ingestion stores it: rows without positive prices, and rows    *)
(* whose close is outside their range, are cleaned away.                     *)
Bar == {b \in [close : Int, high : Int, low : Int, volume : Nat, day : Int, flagged : BOOLEAN] :
            0 < b.low /\ b.low <= b.close /\ b.close <= b.high}

ASSUME StartsAssumption ==
    \A start \in Starts :
        /\ start.stock \in Seq(Bar) /\ start.benchmark \in Seq(Bar)
        /\ Len(start.stock) >= 2 /\ start.benchmark # <<>>
ASSUME ClosesAssumption ==
    \A c \in Closes : /\ c.move \in Int /\ c.market \in Int /\ c.wick \in Nat
                      /\ c.volume \in Nat /\ c.missed \in BOOLEAN
ASSUME QuotesAssumption ==
    /\ \A m \in Moves : m.percent \in Int /\ m.volume \in Nat
    /\ Peers \in Seq(Seq(Int))
    /\ MaxSessions \in Nat

VARIABLES frame,          \* the stock's stored candles, oldest first
          benchmark,      \* the benchmark's
          quote,          \* last price (in ticks), volume and session of the stored quote
          closed,         \* sessions closed so far
          due,            \* the candles or the quote changed since the last scan
          report          \* what the last scan said, None before the first
serviceVars == <<frame, benchmark, quote, closed, due, report>>

-----------------------------------------------------------------------------
(* Features the service computes itself.                                     *)

(* Latest sessions that fit in a box 12 % high.                              *)
ConsolidationDays ==
    LET recent == Reverse(LastN(frame, W.CONSOLIDATION_LOOKBACK))
        box(k) == SubSeq(recent, 1, k)
        fits(k) == LET low == Lowest(Column(box(k), "low"))
                   IN  100 * (Highest(Column(box(k), "high")) - low) <= 12 * low
    IN  IF Len(frame) < W.CONSOLIDATION_MIN THEN 0
        ELSE Max({0} \cup {k \in DOMAIN recent : fits(k)})

(* Separate touches of the resistance within 1.5 %, newest first.            *)
ResistanceTests(level) ==         \* level in hundredths of a tick
    LET recent == Reverse(LastN(frame, W.RESISTANCE_LOOKBACK))
        touched == {i \in DOMAIN recent : 1000 * Absolute(100 * recent[i].high - level) <= 15 * level}
    IN  Spaced(Increasing(touched), W.MIN_TOUCH_SEPARATION)

Year == LastN(frame, W.HISTORY_WINDOW)
YearHigh == Highest(Column(Year, "high"))
YearLow == Lowest(Column(Year, "low"))
(* 50..100 by the place of the price in the 52-week range, at most 99.       *)
RangePosition ==
    LET place == 50 + (50 * (quote.price - YearLow)) \div (YearHigh - YearLow)
    IN  IF YearLow <= 0 \/ YearHigh <= YearLow THEN 0 ELSE Max({0, Min({99, place})})
MeanVolume ==
    LET v == LastN(Column(frame, "volume"), W.VOLUME_WINDOW) IN Total(v) \div Len(v)

(* The upper Bollinger band in hundredths of a tick: mean + 2 deviations.    *)
UpperBand ==
    LET s == LastN(Column(frame, "close"), W.BB)
        square == (40000 * Spread(s)) \div (Len(s) * (Len(s) - 1))
        width == CHOOSE r \in 0..(100 * Highest(s)) : r * r <= square /\ square < (r + 1) * (r + 1)
    IN  IF Len(frame) < W.BB THEN None ELSE <<(100 * Total(s)) \div Len(s) + width>>
Resistance ==
    Min({100 * YearHigh}
        \cup (IF Len(frame) < W.DONCHIAN THEN {}
              ELSE {100 * Highest(Column(LastN(frame, W.DONCHIAN), "high"))})
        \cup (IF Known(UpperBand) THEN {UpperBand[1]} ELSE {}))

-----------------------------------------------------------------------------
(* The snapshot.  The life of the setup is judged before the ratings of the  *)
(* scan are assigned, so it never sees one.                                  *)

StockSnapshot(volatility, volume, structure, strength, pivot, vcp) ==
    [ price |-> quote.price,
      quality |-> QualityState(frame, benchmark),
      lookback |-> Min({Len(frame), W.QUALITY_TARGET_LOOKBACK}),
      trend |-> TrendMomentum(frame), volatility |-> volatility, volume |-> volume,
      structure |-> structure, darvas |-> DarvasConsolidation(frame), pivot |-> pivot,
      vcp |-> vcp, base |-> BaseQuality(frame, structure, pivot, vcp),
      rs |-> [ rating |-> None, improving |-> strength.improving,
               leading |-> strength.leading ],
      strength |-> strength, weekly |-> Weekly(frame),
      supply |-> SupplyDemand(frame, pivot, volume),
      overhead |-> OverheadSupply(frame, pivot, quote.price),
      failed |-> FailedBreakouts(frame, pivot) ]
(* Later extractors read what the earlier ones left on the snapshot.         *)
AttachVCP(volatility, volume, structure, strength, pivot) ==
    StockSnapshot(volatility, volume, structure, strength, pivot,
                  VCP(frame, volatility, volume, structure, pivot))
AttachPivot(volatility, volume, structure, strength) ==
    AttachVCP(volatility, volume, structure, strength, Pivot(frame, quote.price, structure))
Analysis ==
    AttachPivot(Volatility(frame), Volume(frame), PriceStructure(frame),
                RelativeStrength(frame, benchmark))

IsStaleScan == \/ LatestDay(frame) < LatestDay(benchmark)
               \/ quote.day < LatestDay(benchmark)
Insufficient(x, context) ==
    \/ (x.trend.flags \cup x.volatility.flags \cup x.volume.flags \cup x.structure.flags
        \cup x.strength.flags \cup x.weekly.flags \cup context.flags)
         \ {"ATR_DATA_UNAVAILABLE", "BOLLINGER_DATA_UNAVAILABLE",
            "MARKET_INDICATOR_DATA_UNAVAILABLE"} # {}
    \/ Len(frame) < Max({W.QUALITY_MIN_LOOKBACK, W.PIVOT_MIN_HISTORY, W.VCP_MIN_HISTORY})

(* The features the scorer reads, as options, by their names.                *)
Readings(x) ==
    LET positive(o) == IF Known(o) THEN <<o[1] > 0>> ELSE None
    IN  [ ema_alignment |-> x.trend.ema_alignment,
          price_above_sma_50 |-> x.trend.price_above_sma_50,
          price_above_sma_200 |-> x.trend.price_above_sma_200,
          sma_50_above_sma_200 |-> x.trend.sma_50_above_sma_200,
          sma_200_rising |-> x.trend.sma_200_rising,
          minervini_price_trend_template |-> x.trend.minervini,
          ma_compressed |-> x.trend.ma_compressed,
          atr_contracting |-> x.volatility.atr_contracting,
          bollinger_squeeze |-> x.volatility.bollinger_squeeze,
          rolling_range_compressed |-> x.volatility.rolling_range_compressed,
          candle_range_contracting |-> x.volatility.candle_range_contracting,
          stddev_contracting |-> x.volatility.stddev_contracting,
          narrow_range |-> <<x.volatility.narrow_range>>,
          volume_dry_up |-> x.volume.volume_dry_up,
          volume_contracting_in_consolidation |-> x.volume.contracting_in_consolidation,
          accumulation_behavior |-> x.volume.accumulation_behavior,
          up_volume_dominant |-> x.volume.up_volume_dominant,
          volume_expansion |-> x.volume.volume_expansion,
          pocket_pivot_style |-> x.volume.pocket_pivot,
          rs_1m_pct |-> positive(x.strength.returns[1]),
          rs_3m_pct |-> positive(x.strength.returns[2]),
          rs_6m_pct |-> positive(x.strength.returns[3]),
          rs_12m_pct |-> positive(x.strength.returns[4]),
          rs_improving |-> x.strength.improving,
          rs_new_high |-> x.strength.new_high,
          rsi_slope |-> positive(x.trend.rsi_slope),
          rsi_50_reclaim |-> x.trend.rsi_50_reclaim,
          rsi_60_strength |-> x.trend.rsi_60_strength,
          histogram_rising |-> positive(x.trend.histogram_change),
          histogram_expanding |-> IF x.trend.histogram > 0 THEN x.trend.histogram_expanding ELSE None,
          positive_directional_momentum |-> x.trend.positive_momentum,
          vcp_detected |-> x.vcp.detected, vcp_invalid |-> x.vcp.invalid,
          near_pivot |-> <<x.pivot.near>>, already_above_pivot |-> <<x.pivot.above>> ]

RisksOf(x) ==
    LET at(name, condition) == IF condition THEN {name} ELSE {}
        loss(o) == Known(o) /\ o[1] < 0
        v == x.volume
    IN       at("price_extended", x.pivot.above
                    /\ NoMore(x.pivot.gap[1], quote.price, -300))
        \cup at("expanding_volatility", x.volatility.expanding)
        \cup at("distribution",
                \/ "HEAVY_DISTRIBUTION" \in x.vcp.risks
                \/ /\ Known(v.distribution_days) /\ v.distribution_days[1] > v.accumulation_days[1]
                   /\ Known(v.down_volume) /\ Known(v.up_volume)
                   /\ v.down_volume[1] > v.up_volume[1])
        \cup at("resistance_too_far", x.pivot.too_far)
        \cup at("rs_weakening", \/ Is(x.strength.deteriorating)
                                \/ loss(x.strength.returns[3]) /\ loss(x.strength.returns[4]))

ScorerSnapshot(x, context) ==
    LET r == Readings(x)
    IN  [ yes |-> {name \in DOMAIN r : Is(r[name])} \cup RisksOf(x),
          known |-> {name \in DOMAIN r : Known(r[name])}
                    \cup (IF Known(x.pivot.level) THEN {"breakout_level"} ELSE {}),
          rs_rating |-> RsRating(x.strength.composite, Peers),
          pivot_quality |-> x.pivot.quality, vcp_quality |-> x.vcp.quality,
          context_quality |-> context.quality, tests |-> x.pivot.tests,
          rsi |-> IF Known(x.trend.rsi) THEN x.trend.rsi[1] ELSE 0,
          adx |-> IF Known(x.trend.adx) THEN x.trend.adx[1] ELSE 0,
          regime |-> IF Known(context.regime) THEN context.regime[1] ELSE "NONE",
          quality |-> x.quality, liquid |-> 10 * quote.volume >= 6 * MeanVolume,
          stale |-> IsStaleScan, insufficient |-> Insufficient(x, context) ]

(* What the strategies read; 25 paise to the tick.                           *)
Stock ==
    LET mean(p) == Ema(frame, p)[Len(frame)] \div 4
        rsi == Rsi(Column(frame, "close"), Len(frame), W.RSI)
    IN  [ price |-> 25 * quote.price, previous |-> 25 * quote.previous,
          open |-> 25 * quote.open, high |-> 25 * quote.high,
          dma50 |-> mean(W.EMA_50), dma150 |-> mean(W.EMA_100), dma200 |-> mean(W.EMA_200),
          year_high |-> 25 * YearHigh, volume |-> quote.volume, average |-> MeanVolume,
          rs |-> RangePosition, rsi |-> IF Known(rsi) THEN rsi[1] ELSE 0,
          cap |-> MarketCap, pe |-> 0, roe |-> 0, roce |-> 0, debt |-> 0, sales |-> 0,
          profit |-> 0, earnings |-> 0, cash |-> FALSE, holding |-> 0, sector |-> 0 ]

-----------------------------------------------------------------------------
(* The pre-breakout engine.                                                  *)

Usable(x) == x.quality \in {"FRESH", "PARTIAL"}
IsPreBreakout(x) ==
    /\ Usable(x)
    /\ x.weekly.trend # <<"BEARISH">>
    /\ ~x.base.extended
    /\ 100 * (Resistance - 100 * quote.price) <= 3 * Resistance
    /\ ResistanceTests(Resistance) >= 2
    /\ ConsolidationDays >= W.MIN_CONSOLIDATION
    /\ Surge(Stock, 120)
    /\ Known(x.trend.rsi) /\ x.trend.rsi[1] >= 5500
    /\ Known(x.trend.adx) /\ x.trend.adx[1] >= 20
IsBreakout(x) == Usable(x) /\ 100 * quote.price > Resistance /\ Surge(Stock, 200)

ScanReport(x, s, d) ==
    [ candles |-> Len(frame), day |-> LatestDay(benchmark),
      quality |-> x.quality, stale |-> s.stale, pivot |-> x.pivot.level,
      composite |-> x.strength.composite,
      lifecycle |-> Lifecycle(x), readiness |-> Readiness(x), failed |-> x.failed,
      extended |-> x.base.extended, confirmed |-> ConfirmedCross(x),
      score |-> Score(s), class |-> Classification(s), rating |-> s.rs_rating,
      pre_breakout |-> IsPreBreakout(x), breakout |-> IsBreakout(x),
      overall |-> Overall(d), alert |-> ShouldAlert(d) ]
Scored(x) == ScanReport(x, ScorerSnapshot(x, MarketContext(benchmark)), Stock)
Scan == Scored(Analysis)

-----------------------------------------------------------------------------
(* The service scans; the market moves between its scans.                    *)

QuoteAt(bar, previous) ==
    [ price |-> bar.close, previous |-> previous, open |-> previous, high |-> bar.high,
      volume |-> bar.volume, day |-> bar.day ]

ServiceInit ==
    /\ \E start \in Starts : frame = start.stock /\ benchmark = start.benchmark
    /\ quote = QuoteAt(Latest(frame), frame[Len(frame) - 1].close)
    /\ closed = 0
    /\ due = TRUE
    /\ report = None

ScanLiveMarket ==
    /\ due
    /\ due' = FALSE
    /\ report' = <<Scan>>
    /\ UNCHANGED <<frame, benchmark, quote, closed>>

(* A session that closes move ticks away and reaches wick ticks beyond both  *)
(* closes.                                                                   *)
Candle(last, move, wick, volume, day) ==
    [ close |-> last.close + move,
      high |-> Max({last.close, last.close + move}) + wick,
      low |-> Min({last.close, last.close + move}) - wick,
      volume |-> volume, day |-> day, flagged |-> FALSE ]

(* A session closes; the stock's candle, or its quote too, may not have come.*)
CloseSession ==
    /\ ~due /\ closed < MaxSessions
    /\ closed' = closed + 1
    /\ \E c \in Closes :
         LET day == LatestDay(benchmark) + 1
             bar == Candle(Latest(frame), c.move, c.wick, c.volume, day)
             index == Candle(Latest(benchmark), c.market, 4, 100, day)
         IN  /\ bar.low > 0 /\ index.low > 0
             /\ benchmark' = Append(benchmark, index)
             /\ \/ /\ frame' = Append(frame, bar)
                   /\ \/ quote' = QuoteAt(bar, Latest(frame).close)
                      \/ c.missed /\ quote' = quote
                \/ /\ c.missed
                   /\ frame' = frame
                   /\ quote' \in {quote, [quote EXCEPT !.day = day]}
    /\ due' = TRUE
    /\ UNCHANGED report

(* The quote of the next session moves before its candle is stored.          *)
QuoteMoves ==
    /\ ~due /\ quote.price = Latest(frame).close
    /\ \E m \in Moves :
         LET last == Latest(frame).close
             price == (last * (100 + m.percent)) \div 100
         IN  /\ price > 0
             /\ quote' = [ price |-> price, previous |-> last, open |-> last,
                           high |-> Max({price, last}),
                           volume |-> (MeanVolume * m.volume) \div 100,
                           day |-> LatestDay(benchmark) ]
    /\ due' = TRUE
    /\ UNCHANGED <<frame, benchmark, closed, report>>

ServiceNext == ScanLiveMarket \/ CloseSession \/ QuoteMoves
ServiceSpec == ServiceInit /\ [][ServiceNext]_serviceVars

-----------------------------------------------------------------------------
Lifecycles == {"INVALID_SETUP", "FAILED_BREAKOUT", "EXTENDED_AFTER_BREAKOUT",
               "BREAKOUT_IN_PROGRESS", "BREAKOUT_READY", "NEAR_PIVOT", "TIGHTENING",
               "CONTRACTING", "BASE_BUILDING", "NO_SETUP"}
ServiceTypeOK ==
    /\ closed \in 0..MaxSessions /\ due \in BOOLEAN
    /\ frame \in Seq(Bar) /\ benchmark \in Seq(Bar)
    /\ Known(report) =>
        /\ report[1].lifecycle \in Lifecycles
        /\ report[1].readiness \in 0..100 /\ report[1].score \in 0..100
        /\ report[1].overall \in 0..100
        /\ Known(report[1].rating) => report[1].rating[1] \in 1..100

(* What came too late is never presented as strong: a scan of a stale candle *)
(* or quote is capped under the two upper classes, and when the daily gate   *)
(* itself finds the stock stale nothing but INVALID_SETUP and WEAK is left.  *)
(* Two staleness tests, of the service and of the gate, must agree on that.  *)
StaleNeverStrong ==
    Known(report) =>
        /\ report[1].stale => report[1].class \notin {"STRONG", "HIGH_QUALITY"}
        /\ report[1].quality = "STALE" =>
              /\ report[1].class = "WEAK" /\ report[1].lifecycle = "INVALID_SETUP"
              /\ ~report[1].pre_breakout /\ ~report[1].breakout

(* A price that ran away from its pivot is no setup any more in any of the   *)
(* three judgements, although each measures the distance by itself.          *)
ExtendedNeverStrong ==
    Known(report) /\ report[1].extended =>
        /\ report[1].class \notin {"STRONG", "HIGH_QUALITY"}
        /\ report[1].lifecycle \notin {"BREAKOUT_READY", "BREAKOUT_IN_PROGRESS"}
        /\ ~report[1].pre_breakout

Rescanned == Known(report) /\ Known(report') /\ report' # report

(* A breakout judged failed stays failed while its pivot stands: later       *)
(* closes, a recovery included, never take a failure back.  Failures over    *)
(* FAILED_LOOKBACK sessions old are out of sight of the code.                *)
FailureStands ==
    [][ /\ Rescanned /\ Len(frame) <= W.FAILED_LOOKBACK
        /\ report[1].failed.count > 0 /\ report'[1].pivot = report[1].pivot
        => report'[1].failed.count >= report[1].failed.count ]_serviceVars

(* Whether a structure is valid is decided by the candles alone: a quote     *)
(* that moves within the session neither breaks it nor repairs it.           *)
QuoteNeverRevives ==
    [][ Rescanned /\ report'[1].day = report[1].day /\ report'[1].candles = report[1].candles
        => (report'[1].lifecycle = "INVALID_SETUP") = (report[1].lifecycle = "INVALID_SETUP")
      ]_serviceVars
=============================================================================
