-------------------------- MODULE BenchmarkSignals --------------------------
(* What the scanner reads off a stock's candles together with those of the   *)
(* NIFTY benchmark: the daily quality gate, the weekly view, the relative    *)
(* strength and its rating among the scanned stocks, and the market regime   *)
(* (apps/scanner/engine).  Here a candle also has its session, `day`, and    *)
(* whether the provider flagged it, `flagged`; the rows are well formed.      *)
EXTENDS CandleSignals

Days(frame) == {frame[i].day : i \in DOMAIN frame}
LatestDay(frame) == Latest(frame).day

-----------------------------------------------------------------------------
(* The daily quality gate.                                                   *)

(* Benchmark sessions since the stock's first candle that it has none for.   *)
MissingSessions(frame, benchmark) ==
    LET since == SelectSeq(benchmark, LAMBDA b : b.day >= frame[1].day)
    IN  Days(LastN(since, W.QUALITY_TARGET_LOOKBACK))
            \ Days(LastN(frame, W.QUALITY_TARGET_LOOKBACK))

(* Recent volumes over 50 times the median of the sessions before them.      *)
AbnormalSessions(frame) ==
    LET v == Column(frame, "volume")
        from(i) == Max({1, i - W.QUALITY_MEDIAN_LOOKBACK})
        baseline(i) == Median(SubSeq(v, from(i), i - 1))
    IN  {i \in Max({1, Len(v) - W.QUALITY_RECENT_LOOKBACK + 1})..Len(v) :
            /\ i - from(i) >= W.QUALITY_MEDIAN_MIN
            /\ baseline(i) > 0
            /\ v[i] > 50 * baseline(i)}

IsStale(frame, benchmark) == benchmark # <<>> /\ LatestDay(frame) < LatestDay(benchmark)

QualityState(frame, benchmark) ==
    IF IsStale(frame, benchmark) THEN "STALE"
    ELSE IF \/ Len(frame) < W.QUALITY_MIN_LOOKBACK
            \/ MissingSessions(frame, benchmark) # {}
            \/ \E i \in DOMAIN frame : frame[i].flagged
            \/ AbnormalSessions(frame) # {}
            \/ 10 * Len(SelectSeq(frame, LAMBDA b : b.volume = 0)) > Len(frame)
         THEN "PARTIAL"
    ELSE "FRESH"

-----------------------------------------------------------------------------
(* The weekly view: one bar per calendar week that has a session.            *)

Weekly(frame) ==
    LET week(i) == frame[i].day \div W.WEEK_SESSIONS
        bars(k) == SelectSeq(frame, LAMBDA b : b.day \div W.WEEK_SESSIONS = k)
        first == week(1)
        (* a week without a session is dropped *)
        weeks == SelectSeq([k \in 1..(week(Len(frame)) - first + 1) |-> bars(first + k - 1)],
                           LAMBDA b : b # <<>>)
        close == [k \in DOMAIN weeks |-> Latest(weeks[k]).close]
        range == [k \in DOMAIN weeks |->
                    (10000 * (Highest(Column(weeks[k], "high")) - Lowest(Column(weeks[k], "low"))))
                        \div close[k]]
        n == Len(weeks)
        mean(at, p) == Sma(close, at, p)[1]
        short == mean(n, W.WEEKLY_SMA_10)
        middle == mean(n, W.WEEKLY_SMA_30)
        aligned == 100 * close[n] > short /\ short > middle /\ middle > mean(n, W.WEEKLY_SMA_40)
        slope == short - mean(n - W.WEEKLY_SLOPE, W.WEEKLY_SMA_10)
        trend == IF aligned /\ slope > 0 THEN "BULLISH"
                 ELSE IF 100 * close[n] < middle /\ slope < 0 THEN "BEARISH" ELSE "NEUTRAL"
        ratio == MeanRatio(range, W.WEEKLY_RANGE, W.WEEKLY_RANGE)
    IN  IF n < W.WEEKLY_MIN_WEEKS
        THEN [ flags |-> {"INSUFFICIENT_WEEKLY_HISTORY"}, trend |-> None,
               aligned |-> None, contraction |-> None ]
        ELSE [ flags |-> {}, trend |-> <<trend>>,
               aligned |-> << trend = "BULLISH"
                              /\ Is(Above(<<100 * Latest(frame).close>>,
                                          Sma(Column(frame, "close"), Len(frame), W.SMA_50))) >>,
               contraction |-> AtMost(ratio, 8000) ]

-----------------------------------------------------------------------------
(* Relative strength against the benchmark, over the sessions both have.     *)

Aligned(frame, benchmark) ==
    LET both == SelectSeq(frame, LAMBDA b : b.day \in Days(benchmark))
        at(d) == CHOOSE i \in DOMAIN benchmark : benchmark[i].day = d
    IN  [k \in DOMAIN both |-> [stock |-> both[k].close, index |-> benchmark[at(both[k].day)].close]]

(* In ten-thousandths: (stock end / stock start) / (index end / start) - 1.   *)
RelativeReturn(pairs) ==
    LET a == pairs[1]
        b == Latest(pairs)
    IN  RoundDiv(10000 * (b.stock * a.index - a.stock * b.index), a.stock * b.index)

(* Least-squares slope times the constant Sum (2 i - count - 1)^2 / 2, and    *)
(* that constant, of a line in hundredths.                                   *)
SlopeSum(line) == Total([i \in DOMAIN line |-> (2 * i - Len(line) - 1) * line[i]])
SlopeUnit(n) == Total([i \in 1..n |-> (2 * i - n - 1) * (2 * i - n - 1)]) \div 2

RelativeStrength(frame, benchmark) ==
    LET pairs == Aligned(frame, benchmark)
        n == Len(pairs)
        longest == W.RS_HORIZONS[4]
        line == [k \in DOMAIN pairs |-> (10000 * pairs[k].stock) \div pairs[k].index]
        returns == [h \in 1..4 |-> IF n >= W.RS_HORIZONS[h]
                                   THEN <<RelativeReturn(LastN(pairs, W.RS_HORIZONS[h]))>> ELSE None]
        recent == LastN(line, W.RS_SLOPE_LOOKBACK)
        unit == SlopeUnit(W.RS_SLOPE_LOOKBACK)
        sloped == n >= W.RS_SLOPE_LOOKBACK
        window == LastN(line, W.RS_NEW_HIGH_LOOKBACK)
        prices == [k \in DOMAIN LastN(pairs, W.RS_NEW_HIGH_LOOKBACK) |->
                      LastN(pairs, W.RS_NEW_HIGH_LOOKBACK)[k].stock]
        high(s) == Highest(SubSeq(s, 1, Len(s) - 1))
        seen == n >= W.RS_NEW_HIGH_LOOKBACK
    IN  [ flags |-> (IF Len(frame) < longest THEN {"INSUFFICIENT_RS_HISTORY"} ELSE {})
              \cup (IF Len(benchmark) < longest THEN {"INSUFFICIENT_BENCHMARK_HISTORY"} ELSE {})
              \cup (IF n < longest THEN {"INSUFFICIENT_ALIGNED_RS_HISTORY"} ELSE {}),
          returns |-> returns,
          improving |-> IF sloped THEN <<SlopeSum(recent) >= 5 * unit>> ELSE None,
          deteriorating |-> IF sloped THEN <<SlopeSum(recent) <= -5 * unit>> ELSE None,
          new_high |-> IF seen THEN <<Latest(line) >= high(window)>> ELSE None,
          leading |-> IF seen
                      THEN <<1000 * Latest(line) >= 999 * high(window)
                             /\ 1000 * Latest(prices) < 995 * high(prices)>> ELSE None,
          composite |-> IF \A h \in 1..4 : Known(returns[h])
                        THEN <<2 * (returns[1][1] + returns[2][1] + returns[3][1]) + 4 * returns[4][1]>>
                        ELSE None ]

(* assign_rs_ratings: the midrank of a composite among those of the stocks   *)
(* built in the same scan, whatever part of them the caller then keeps.      *)
RsRating(composite, others) ==
    LET rated == {i \in DOMAIN others : Known(others[i])}
        total == Cardinality(rated) + 1
        lower == Cardinality({i \in rated : others[i][1] < composite[1]})
        equal == Cardinality({i \in rated : others[i][1] = composite[1]}) + 1
        rank2 == 2 * lower + equal + 1       \* twice the average rank
        rating == IF total = 1 THEN 100
                  ELSE RoundDiv((rank2 - 2) * 99 + 2 * (total - 1), 2 * (total - 1))
    IN  IF Known(composite) THEN <<Max({1, Min({100, rating})})>> ELSE None

-----------------------------------------------------------------------------
(* The market regime.                                                        *)

MovedPercent(s, lookback) ==          \* hundredths of a percent over lookback - 1 sessions
    LET t == LastN(s, lookback)
    IN  RoundDiv(10000 * (Latest(t) - t[1]), t[1])

Regime(good, bad, c) ==
    IF /\ Cardinality(good) >= 7
       /\ {"above20", "above50", "above200", "aligned", "rising", "healthy", "near_high"} \subseteq good
       /\ "high_volatility" \notin bad
    THEN "STRONG"
    ELSE IF /\ Cardinality(good) >= 5 /\ {"above50", "above200"} \subseteq good
            /\ c.slope >= 0 /\ c.rsi >= 5000 /\ "high_volatility" \notin bad
    THEN "HEALTHY"
    ELSE IF /\ Cardinality(bad) >= 6
            /\ {"below50", "below200", "falling"} \subseteq bad
            /\ c.rsi <= 4000 /\ bad \cap {"high_volatility", "deep_drawdown"} # {}
    THEN "RISK_OFF"
    ELSE IF /\ Cardinality(bad) >= 4 /\ "below50" \in bad /\ bad \cap {"below200", "falling"} # {}
    THEN "WEAK"
    ELSE "NEUTRAL"

MarketContext(benchmark) ==
    LET n == Len(benchmark)
        closes == Column(benchmark, "close")
        close == 100 * closes[n]
        over(a, b) == 1000 * a > 1001 * b
        under(a, b) == 1000 * a < 999 * b
        e20 == Ema(benchmark, W.EMA_20)[n]
        s50 == Sma(closes, n, W.SMA_50)[1]
        s200 == Sma(closes, n, W.SMA_200)[1]
        rsi == Rsi(closes, n, W.RSI)
        atr == Atr(benchmark, n)
        slope == MovedPercent([k \in 1..(n - W.SMA_50 + 1) |-> Sma(closes, k + W.SMA_50 - 1, W.SMA_50)[1]],
                              W.MARKET_CONTEXT_SLOPE_LOOKBACK)
        days == W.MARKET_CONTEXT_SLOPE_LOOKBACK - 1
        fall(lookback) == LET top == Highest(Column(LastN(benchmark, lookback), "high"))
                          IN  RoundDiv(10000 * Max({0, top - closes[n]}), top)
        volatility(percent100) == 10000 * atr[1] - percent100 * W.ATR * closes[n]
        year == fall(W.MARKET_CONTEXT_52W_HISTORY)
        recent == fall(W.MARKET_CONTEXT_RECENT_HIGH_LOOKBACK)
        put(name, condition) == IF condition THEN {name} ELSE {}
        good ==      put("above20", over(close, e20)) \cup put("above50", over(close, s50))
                \cup put("above200", over(close, s200)) \cup put("aligned", over(s50, s200))
                \cup put("rising", slope >= 2 * days) \cup put("healthy", rsi[1] >= 5500)
                \cup put("controlled", volatility(250) <= 0)
                \cup put("near_high", year <= 1000) \cup put("shallow", recent <= 1200)
        bad ==       put("below20", under(close, e20)) \cup put("below50", under(close, s50))
                \cup put("below200", under(close, s200)) \cup put("bearish", under(s50, s200))
                \cup put("falling", slope <= -2 * days) \cup put("weak_momentum", rsi[1] <= 4500)
                \cup put("high_volatility", volatility(350) >= 0)
                \cup put("far_from_high", year >= 2000) \cup put("deep_drawdown", recent >= 2000)
        none(flag) == [regime |-> None, quality |-> None, flags |-> {flag}]
    IN  IF n < W.MARKET_CONTEXT_MIN_HISTORY THEN none("INSUFFICIENT_MARKET_HISTORY")
        ELSE IF ~Known(rsi) THEN none("MARKET_INDICATOR_DATA_UNAVAILABLE")
        ELSE [ regime  |-> <<Regime(good, bad, [slope |-> slope, rsi |-> rsi[1]])>>,
               quality |-> <<RoundDiv(100 * Cardinality(good), 9)>>,
               flags   |-> IF n < W.MARKET_CONTEXT_52W_HISTORY
                           THEN {"INSUFFICIENT_MARKET_52W_HISTORY"} ELSE {} ]
=============================================================================
