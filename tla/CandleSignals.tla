--------------------------- MODULE CandleSignals ---------------------------
(* What the feature extractors of the scanner read off one stock's daily     *)
(* candles: indicators (apps/market/indicators), trend and momentum,         *)
(* volatility, volume and price structure (apps/scanner/engine).             *)
(*                                                                           *)
(* A frame is a non-empty sequence of candles, oldest first, with integer     *)
(* prices (in ticks) and volumes.  The numbers of sessions the extractors    *)
(* look back are the constant record W, under the names of                   *)
(* prebreakout_config; the thresholds are the code's.                        *)
EXTENDS Figures, FiniteSets, FiniteSetsExt, Functions

CONSTANT W   \* the lookbacks, in sessions, by their name in the code

Column(frame, c) == [i \in DOMAIN frame |-> frame[i][c]]
LastN(s, n) == SubSeq(s, IF Len(s) > n THEN Len(s) - n + 1 ELSE 1, Len(s))
Before(s, a, b) == SubSeq(s, Len(s) - a + 1, Len(s) - b)
Latest(s) == s[Len(s)]
Total(s) == SumFunction(s)
Highest(s) == Max(Range(s))
Lowest(s) == Min(Range(s))
Ranges(frame) == [i \in DOMAIN frame |-> frame[i].high - frame[i].low]

(* The place of s[i] when s is sorted, equal values staying in their order.  *)
Place(s, i) == 1 + Cardinality({j \in DOMAIN s : s[j] < s[i] \/ (s[j] = s[i] /\ j < i)})
Ascending(s) == [k \in DOMAIN s |-> s[CHOOSE i \in DOMAIN s : Place(s, i) = k]]
(* Halves do not arise: the prices of an instance are multiples of 4 ticks.  *)
Median(s) ==
    LET a == Ascending(s)
        n == Len(s)
    IN  (a[(n + 1) \div 2] + a[(n + 2) \div 2]) \div 2
(* Series.quantile(tenths / 10), in tenths of the values' unit.              *)
Quantile(s, tenths) ==
    LET a == Ascending(s)
        p == tenths * (Len(s) - 1)
        k == 1 + p \div 10
    IN  10 * a[k] + (IF p % 10 = 0 THEN 0 ELSE (p % 10) * (a[k + 1] - a[k]))
(* Ratio of two sample variances: the square of the code's ratio of standard *)
(* deviations, in ten-thousandths.                                           *)
Spread(s) == Len(s) * Total([i \in DOMAIN s |-> s[i] * s[i]]) - Total(s) * Total(s)
VarianceRatio(s, t) ==
    Ratio(Spread(s) * Len(t) * (Len(t) - 1), Spread(t) * Len(s) * (Len(s) - 1))

-----------------------------------------------------------------------------
(* Indicators.  An exponential mean is kept in hundredths.                   *)

Ewm(s, span) ==
    LET e[i \in 1..Len(s)] ==
            IF i = 1 THEN s[1]
            ELSE LET prev == e[i - 1] IN prev + (2 * (s[i] - prev)) \div (span + 1)
    IN  e
Hundredths(s) == [i \in DOMAIN s |-> 100 * s[i]]
Ema(frame, span) == Ewm(Hundredths(Column(frame, "close")), span)

(* Mean gain over mean loss of the last n changes, in hundredths; pandas     *)
(* yields NaN, which the scanner reads as unknown, while a single change is  *)
(* missing or no loss fell in the window.                                    *)
Rsi(closes, at, n) ==
    IF at <= n THEN None
    ELSE LET change(i) == closes[i] - closes[i - 1]
             window == (at - n + 1)..at
             gains == MapThenSumSet(LAMBDA i : IF change(i) > 0 THEN change(i) ELSE 0, window)
             losses == MapThenSumSet(LAMBDA i : IF change(i) < 0 THEN -change(i) ELSE 0, window)
         IN  IF losses = 0 THEN None ELSE <<(10000 * gains) \div (gains + losses)>>

Histogram(closes) ==
    LET fast == Ewm(Hundredths(closes), W.MACD_FAST)
        slow == Ewm(Hundredths(closes), W.MACD_SLOW)
        macd == [i \in DOMAIN closes |-> fast[i] - slow[i]]
        signal == Ewm(macd, W.MACD_SIGNAL)
    IN  [i \in DOMAIN closes |-> macd[i] - signal[i]]

Absolute(x) == IF x < 0 THEN -x ELSE x
TrueRange(frame, i) ==
    IF i = 1 THEN frame[1].high - frame[1].low
    ELSE Max({frame[i].high - frame[i].low,
              Absolute(frame[i].high - frame[i - 1].close),
              Absolute(frame[i].low - frame[i - 1].close)})
(* The average true range of session i, times the period.                    *)
Atr(frame, i) ==
    IF i < W.ATR THEN None
    ELSE <<MapThenSumSet(LAMBDA j : TrueRange(frame, j), (i - W.ATR + 1)..i)>>

UpMove(frame, i) == IF i = 1 THEN 0 ELSE frame[i].high - frame[i - 1].high
DownMove(frame, i) == IF i = 1 THEN 0 ELSE frame[i - 1].low - frame[i].low
PlusDM(frame, i) ==
    IF UpMove(frame, i) > DownMove(frame, i) /\ UpMove(frame, i) > 0
    THEN UpMove(frame, i) ELSE 0
MinusDM(frame, i) ==
    IF DownMove(frame, i) > UpMove(frame, i) /\ DownMove(frame, i) > 0
    THEN DownMove(frame, i) ELSE 0
(* +DI and -DI share their denominator, so the sums of the moves tell which  *)
(* is larger and how far apart they are.                                     *)
Directional(frame, i) ==
    IF i < W.ADX THEN None
    ELSE LET window == (i - W.ADX + 1)..i
         IN  <<[plus  |-> MapThenSumSet(LAMBDA j : PlusDM(frame, j), window),
                minus |-> MapThenSumSet(LAMBDA j : MinusDM(frame, j), window)]>>
Dx(frame, i) ==
    LET d == Directional(frame, i)
    IN  IF ~Known(d) \/ d[1].plus + d[1].minus = 0 THEN None
        ELSE <<(100 * Absolute(d[1].plus - d[1].minus)) \div (d[1].plus + d[1].minus)>>
Adx(frame) ==
    LET window == (Len(frame) - W.ADX + 1)..Len(frame)
    IN  IF Len(frame) < W.ADX \/ \E i \in window : ~Known(Dx(frame, i)) THEN None
        ELSE <<MapThenSumSet(LAMBDA i : Dx(frame, i)[1], window) \div W.ADX>>

-----------------------------------------------------------------------------
(* Trend and momentum.                                                       *)

Sma(closes, at, n) ==
    IF at < n THEN None
    ELSE <<RoundDiv(100 * Total(SubSeq(closes, at - n + 1, at)), n)>>
Above(a, b) == IF Known(a) /\ Known(b) THEN <<a[1] > b[1]>> ELSE None

TrendMomentum(frame) ==
    LET n == Len(frame)
        closes == Column(frame, "close")
        now == closes[n]
        mean(p) == Ema(frame, p)[n]
        e10 == mean(W.EMA_10)   e20 == mean(W.EMA_20)
        e50 == mean(W.EMA_50)   e200 == mean(W.EMA_200)
        sma50 == Sma(closes, n, W.SMA_50)
        sma200 == Sma(closes, n, W.SMA_200)
        rsi == Rsi(closes, n, W.RSI)
        before == Rsi(closes, n - 1, W.RSI)
        old == Rsi(closes, n - W.RSI_SLOPE_LOOKBACK, W.RSI)
        hist == Histogram(closes)
        h == hist[n]
        year == LastN(closes, W.MIN_52_WEEK_HISTORY)
        aYear == n >= W.MIN_52_WEEK_HISTORY
        di == Directional(frame, n)
        spread == 10000 * (Max({e10, e20, e50}) - Min({e10, e20, e50}))
        checks == << Above(<<100 * now>>, sma50), Above(<<100 * now>>, sma200),
                     Above(sma50, sma200),
                     Above(sma200, Sma(closes, n - W.SMA_200_TREND_LOOKBACK, W.SMA_200)),
                     IF aYear THEN <<100 * now >= 130 * Lowest(year)>> ELSE None,
                     IF aYear THEN <<100 * now >= 75 * Highest(year)>> ELSE None >>
    IN  [ flags |-> IF n < W.MIN_TREND_HISTORY THEN {"INSUFFICIENT_HISTORY"} ELSE {},
          ema_alignment |->
              <<100 * now > e10 /\ e10 > e20 /\ e20 > e50 /\ e50 > e200>>,
          ma_compressed |-> <<spread <= 300 * 100 * now>>,
          price_above_sma_50 |-> checks[1],
          price_above_sma_200 |-> checks[2],
          sma_50_above_sma_200 |-> checks[3],
          sma_200_rising |-> checks[4],
          minervini |-> IF \A i \in DOMAIN checks : Known(checks[i])
                        THEN <<\A i \in DOMAIN checks : Is(checks[i])>> ELSE None,
          rsi |-> rsi,
          rsi_slope |-> IF Known(rsi) /\ Known(old) THEN <<rsi[1] - old[1]>> ELSE None,
          rsi_50_reclaim |-> IF Known(rsi) /\ Known(before)
                             THEN <<before[1] < 5000 /\ rsi[1] >= 5000>> ELSE None,
          rsi_60_strength |-> AtLeast(rsi, 6000),
          histogram |-> h,
          histogram_change |->
              IF n > W.MACD_HISTOGRAM_LOOKBACK
              THEN <<h - hist[n - W.MACD_HISTOGRAM_LOOKBACK]>> ELSE None,
          histogram_expanding |->
              IF n > W.MACD_HISTOGRAM_LOOKBACK
              THEN LET o == hist[n - W.MACD_HISTOGRAM_LOOKBACK]
                   IN  <<h * o > 0 /\ Absolute(h) > Absolute(o)>> ELSE None,
          positive_momentum |->
              IF Known(di) THEN <<di[1].plus > di[1].minus>> ELSE None,
          adx |-> Adx(frame),
          sma_50 |-> sma50, sma_200 |-> sma200 ]

-----------------------------------------------------------------------------
(* Volatility.                                                               *)

Squeeze(frame) ==
    LET closes == Column(frame, "close")
        n == Len(frame)
        (* the square of width over middle, in millionths *)
        width(i) == LET s == SubSeq(closes, i - W.BB + 1, i)
                    IN  (1000 * Spread(s)) \div ((Total(s) * Total(s)) \div 1000)
        lived == LastN([k \in 1..(n - W.BB + 1) |-> width(k + W.BB - 1)],
                       W.BOLLINGER_SQUEEZE_LOOKBACK)
    IN  IF n - W.BB + 1 < W.BOLLINGER_SQUEEZE_MIN_HISTORY THEN None
        ELSE <<10 * Latest(lived) <= Quantile(lived, 2)>>

(* The last `recent` values against the `base` values before them.           *)
MeanRatio(s, recent, base) ==
    IF Len(s) < recent + base THEN None
    ELSE Ratio(base * Total(LastN(s, recent)), recent * Total(Before(s, recent + base, recent)))

Volatility(frame) ==
    LET n == Len(frame)
        now == Latest(frame).close
        atrs == [k \in 1..(IF n < W.ATR THEN 0 ELSE n - W.ATR + 1)
                    |-> Atr(frame, k + W.ATR - 1)[1]]
        atrRecent == W.ATR_CONTRACTION_RECENT_LOOKBACK
        atrBase == Before(atrs, Min({Len(atrs), atrRecent + W.ATR_CONTRACTION_BASELINE_LOOKBACK}),
                          atrRecent)
        ranges == Ranges(frame)
        box(bars) == Highest(Column(bars, "high")) - Lowest(Column(bars, "low"))
        roll == W.ROLLING_RANGE_LOOKBACK
        rolls == n >= 2 * roll
        rollRatio == IF rolls THEN Ratio(box(LastN(frame, roll)), box(Before(frame, 2 * roll, roll)))
                     ELSE None
        stdev == W.STDDEV_RECENT_LOOKBACK + W.STDDEV_BASELINE_LOOKBACK
        closes == Column(frame, "close")
        atrRatio ==
            IF n < atrRecent + W.ATR_CONTRACTION_BASELINE_LOOKBACK \/ Len(atrs) <= atrRecent THEN None
            ELSE Ratio(Len(atrBase) * Total(LastN(atrs, atrRecent)), atrRecent * Total(atrBase))
        candleRatio == MeanRatio(ranges, W.CANDLE_RANGE_RECENT_LOOKBACK,
                                 W.CANDLE_RANGE_BASELINE_LOOKBACK)
        variance == IF n < stdev THEN None
                    ELSE VarianceRatio(LastN(closes, W.STDDEV_RECENT_LOOKBACK),
                                       Before(closes, stdev, W.STDDEV_RECENT_LOOKBACK))
        squeeze == Squeeze(frame)
        narrowest(k) == n >= k /\ Latest(ranges) <= Lowest(LastN(ranges, k))
    IN  [ flags |->
              (IF n < W.VOLATILITY_MIN_HISTORY THEN {"INSUFFICIENT_VOLATILITY_HISTORY"} ELSE {})
              \cup (IF n < W.ATR THEN {"ATR_DATA_UNAVAILABLE"} ELSE {})
              \cup (IF n < W.BB THEN {"BOLLINGER_DATA_UNAVAILABLE"}
                    ELSE IF ~Known(squeeze) THEN {"BOLLINGER_SQUEEZE_HISTORY_INSUFFICIENT"}
                    ELSE {}),
          atr_contracting |-> AtMost(atrRatio, 8500),
          bollinger_squeeze |-> squeeze,
          narrow_range |-> narrowest(4) \/ narrowest(7),
          rolling_range_compressed |->
              IF Known(rollRatio)
              THEN <<100 * box(LastN(frame, roll)) <= 8 * now /\ rollRatio[1] <= 7500>>
              ELSE None,
          candle_range_contracting |-> AtMost(candleRatio, 7500),
          stddev_contracting |-> AtMost(variance, 5625),
          expanding |-> \/ \E r \in {atrRatio, rollRatio, candleRatio} : Known(r) /\ r[1] >= 11000
                        \/ Known(variance) /\ variance[1] >= 12100 ]

-----------------------------------------------------------------------------
(* Volume.                                                                   *)

Changes(s) == [i \in DOMAIN s |-> IF i = 1 THEN 0 ELSE s[i] - s[i - 1]]

(* Sessions of the last ACCUMULATION_LOOKBACK whose close moved in the       *)
(* direction sign (1 up, -1 down) on more volume than the mean of the short  *)
(* window before them.                                                       *)
HeavyDays(frame, sign) ==
    LET n == Len(frame)
        v == Column(frame, "volume")
        change == Changes(Column(frame, "close"))
        short == W.AVERAGE_VOLUME_SHORT_LOOKBACK
    IN  Cardinality({i \in Max({1, n - W.ACCUMULATION_LOOKBACK + 1})..n :
            /\ i > short
            /\ sign * change[i] > 0
            /\ short * v[i] > Total(SubSeq(v, i - short, i - 1))})

MovedVolume(frame, sign) ==
    LET w == LastN(frame, W.UP_DOWN_VOLUME_LOOKBACK + 1)
        change == Changes(Column(w, "close"))
        days == {i \in DOMAIN w : i > 1 /\ sign * change[i] > 0}
    IN  IF days = {} THEN None ELSE <<MapThenSumSet(LAMBDA i : w[i].volume, days)>>

PocketPivot(frame, rvol) ==
    LET n == Len(frame)
        bar == frame[n]
        change == Changes(Column(frame, "close"))
        downs == {i \in (n - W.POCKET_PIVOT_LOOKBACK)..(n - 1) : i > 1 /\ change[i] < 0}
    IN  /\ Cardinality(downs) >= 2
        /\ change[n] > 0
        /\ 100 * bar.close >= Ema(frame, W.EMA_10)[n]
        /\ Known(rvol) /\ rvol[1] >= 12000
        /\ \A i \in downs : bar.volume > frame[i].volume
        /\ bar.high > bar.low
        /\ 10 * (bar.close - bar.low) >= 6 * (bar.high - bar.low)

Volume(frame) ==
    LET n == Len(frame)
        v == Column(frame, "volume")
        now == Latest(v)
        short == W.AVERAGE_VOLUME_SHORT_LOOKBACK
        rvol == IF n > short THEN Ratio(now * short, Total(Before(v, short + 1, 1))) ELSE None
        fifty == LastN(v, W.AVERAGE_VOLUME_LONG_LOOKBACK)
        traded == SelectSeq(fifty, LAMBDA x : x > 0)
        dry == MeanRatio(v, W.VOLUME_DRY_UP_RECENT_LOOKBACK, W.VOLUME_DRY_UP_BASELINE_LOOKBACK)
        bars == LastN(frame, W.VOLUME_CONSOLIDATION_LOOKBACK)
        quiet == MeanRatio(v, W.VOLUME_CONSOLIDATION_LOOKBACK,
                           W.VOLUME_CONSOLIDATION_BASELINE_LOOKBACK)
        sided == n > W.UP_DOWN_VOLUME_LOOKBACK
        up == IF sided THEN MovedVolume(frame, 1) ELSE None
        down == IF sided THEN MovedVolume(frame, -1) ELSE None
        updown == IF Known(up) /\ Known(down) THEN Ratio(up[1], down[1]) ELSE None
        acc == HeavyDays(frame, 1)
        dist == HeavyDays(frame, -1)
        dominant == AtLeast(updown, 12000)
    IN  [ flags |-> IF n < W.VOLUME_MIN_HISTORY THEN {"INSUFFICIENT_VOLUME_HISTORY"} ELSE {},
          rvol |-> rvol,
          volume_dry_up |-> AtMost(dry, 6000),
          contracting_in_consolidation |->
              IF Known(quiet)
              THEN <<quiet[1] <= 8000
                     /\ 100 * (Highest(Column(bars, "high")) - Lowest(Column(bars, "low")))
                          <= 12 * Latest(frame).close>>
              ELSE None,
          up_volume |-> up, down_volume |-> down,
          up_down_ratio |-> updown,
          up_volume_dominant |-> dominant,
          accumulation_days |-> IF sided THEN <<acc>> ELSE None,
          distribution_days |-> IF sided THEN <<dist>> ELSE None,
          accumulation_behavior |->
              IF sided THEN <<acc >= 3 /\ acc > dist /\ Is(dominant)>> ELSE None,
          volume_expansion |-> AtLeast(rvol, 15000),
          pocket_pivot |->
              IF n > short /\ n > W.POCKET_PIVOT_LOOKBACK
              THEN <<PocketPivot(frame, rvol)>> ELSE None,
          abnormal_volume |-> IF traded = <<>> THEN None ELSE <<now > 50 * Median(traded)>>,
          zero_volume_ratio |-> Ratio(Len(SelectSeq(fifty, LAMBDA x : x = 0)), Len(fifty)) ]

-----------------------------------------------------------------------------
(* Price structure.                                                          *)

(* A low below the W.SWING_WINDOW lows before it and not above those after.  *)
IsSwingLow(lows, i) ==
    /\ i > W.SWING_WINDOW /\ i <= Len(lows) - W.SWING_WINDOW
    /\ \A j \in (i - W.SWING_WINDOW)..(i - 1) : lows[i] < lows[j]
    /\ \A j \in (i + 1)..(i + W.SWING_WINDOW) : lows[i] <= lows[j]

(* Of swings closer than SWING_MIN_SEPARATION the lower one is kept, at its  *)
(* own place.                                                                *)
SwingLows(lows) ==
    LET kept[i \in 0..Len(lows)] ==
            IF i = 0 THEN <<>>
            ELSE LET k == kept[i - 1]
                 IN  IF ~IsSwingLow(lows, i) THEN k
                     ELSE IF k = <<>> \/ i - k[Len(k)].at >= W.SWING_MIN_SEPARATION
                          THEN Append(k, [at |-> i, low |-> lows[i]])
                     ELSE IF lows[i] < k[Len(k)].low
                          THEN [k EXCEPT ![Len(k)] = [at |-> i, low |-> lows[i]]]
                     ELSE k
    IN  kept[Len(lows)]

HigherLows(swings) ==
    LET recent == LastN(swings, W.HIGHER_LOW_MIN_SWINGS)
    IN  IF Len(swings) < W.HIGHER_LOW_MIN_SWINGS THEN None
        ELSE <<\A i \in 2..Len(recent) : 1000 * recent[i].low >= 1005 * recent[i - 1].low>>

PriceStructure(frame) ==
    LET n == Len(frame)
        closes == Column(frame, "close")
        box == LastN(frame, W.STRUCTURE_LOOKBACK)
        higher == HigherLows(SwingLows(Column(box, "low")))
        tight == LastN(closes, W.TIGHT_CLOSE_LOOKBACK)
        many == LastN(closes, W.MULTIPLE_TIGHT_CLOSE_LOOKBACK)
        steps == {i \in 2..Len(many) : 100 * Absolute(many[i] - many[i - 1]) <= many[i - 1]}
        squeezed == MeanRatio(Ranges(frame), W.SUPPORT_COMPRESSION_RECENT_LOOKBACK,
                              W.SUPPORT_COMPRESSION_BASELINE_LOOKBACK)
        top == Highest(Column(box, "high"))
        now == Latest(closes)
        cluster == {i \in DOMAIN box : 1000 * box[i].high >= 985 * top}
        highs == SelectSeq(Column(box, "high"), LAMBDA h : 1000 * h >= 985 * top)
        ceiling == Cardinality(cluster) >= W.RESISTANCE_CLUSTER_MIN_TESTS
        near == ceiling /\ now <= top /\ 100 * (top - now) <= 5 * now
        flat == ceiling /\ 1000 * Len(highs) * (Highest(highs) - Lowest(highs)) <= 15 * Total(highs)
        deep(percent) == 100 * (top - Lowest(Column(box, "low"))) > percent * top
        tested == Len(box) >= W.RESISTANCE_CLUSTER_MIN_TESTS
    IN  [ flags |-> IF n < W.PRICE_STRUCTURE_MIN_HISTORY
                    THEN {"INSUFFICIENT_PRICE_STRUCTURE_HISTORY"} ELSE {},
          higher_lows |-> higher,
          tight_closes |->
              IF n < W.TIGHT_CLOSE_LOOKBACK THEN None
              ELSE <<1000 * Len(tight) * (Highest(tight) - Lowest(tight)) <= 15 * Total(tight)>>,
          multiple_tight_closes |->
              IF n < W.MULTIPLE_TIGHT_CLOSE_LOOKBACK THEN None
              ELSE <<100 * Len(many) * (Highest(many) - Lowest(many)) <= 2 * Total(many)
                     /\ Cardinality(steps) >= W.MULTIPLE_TIGHT_CLOSE_MIN_TRANSITIONS>>,
          inside_bar |-> IF n < 2 THEN None
                         ELSE <<frame[n].high <= frame[n - 1].high
                                /\ frame[n].low >= frame[n - 1].low>>,
          support_compression |->
              IF Known(squeezed) THEN <<Is(higher) /\ squeezed[1] <= 7500>> ELSE None,
          price_clustered |-> IF tested THEN <<near>> ELSE None,
          flat_base |-> IF tested THEN <<flat /\ near /\ ~deep(15)>> ELSE None,
          ascending_triangle |->
              IF tested THEN <<flat /\ near /\ Is(higher) /\ ~deep(20)>> ELSE None ]

(* Contained in the box of the formation's 90 % high and 10 % low.           *)
DarvasConsolidation(frame) ==
    LET box == LastN(frame, W.DARVAS_BOX_LOOKBACK)
        formation == SubSeq(box, 1, W.DARVAS_BOX_FORMATION_PERIOD)
        high == Quantile(Column(formation, "high"), 9)
        low == Quantile(Column(formation, "low"), 1)
        rest == (W.DARVAS_BOX_FORMATION_PERIOD + 1)..Len(box)
    IN  IF Len(frame) < W.DARVAS_BOX_LOOKBACK \/ ~(high > low /\ low > 0) THEN None
        ELSE << /\ 100 * (high - low) <= 12 * high
                /\ Len(SelectSeq(formation, LAMBDA b : 2000 * b.high >= 199 * high)) >= 2
                /\ Len(SelectSeq(formation, LAMBDA b : 2000 * b.low <= 201 * low)) >= 2
                /\ \A i \in rest : /\ 2000 * box[i].high <= 201 * high
                                   /\ 2000 * box[i].low >= 199 * low >>
=============================================================================
