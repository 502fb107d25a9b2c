--------------------------- MODULE MCScanAnalysis ---------------------------
(* Shares, moves, windows, candles and quotes for a run of ScanAnalysis.     *)
EXTENDS ScanAnalysis

-----------------------------------------------------------------------------
(* The alert: one stock under its averages and one above them, each with and *)
(* without a known market cap.                                               *)
Share(price, cap) ==
    [ price |-> price, previous |-> 9800, open |-> 9800, high |-> Greater(price, 9800),
      dma50 |-> 9500, dma150 |-> 9300, dma200 |-> 9000, year_high |-> 10200, year_low |-> 6000,
      volume |-> 50000, average |-> 100000, rs |-> 50 + (50 * (price - 6000)) \div 4200, rsi |-> 6200, cap |-> cap,
      pe |-> 0, roe |-> 0, roce |-> 0, debt |-> 0, sales |-> 0, profit |-> 0, earnings |-> 0,
      cash |-> FALSE, holding |-> 0, sector |-> 0 ]
MCShares == {Share(price, cap) : price \in {8800, 9700}, cap \in {0, 5000}}
MCPercents == {-3, 2, 4}
MCReadings == {4500, 6500, 7400}

-----------------------------------------------------------------------------
(* The service: every window of the configuration shortened in proportion.   *)
MCW ==
    [ EMA_10 |-> 2, EMA_20 |-> 3, EMA_50 |-> 4, EMA_100 |-> 5, EMA_200 |-> 6, SMA_50 |->
      3, SMA_200 |-> 5, RSI |-> 4, RSI_SLOPE_LOOKBACK |-> 2, MACD_FAST |-> 2, MACD_SLOW
      |-> 4, MACD_SIGNAL |-> 2, MACD_HISTOGRAM_LOOKBACK |-> 2, ATR |-> 3, ADX |-> 3, BB
      |-> 4, MIN_52_WEEK_HISTORY |-> 10, MIN_TREND_HISTORY |-> 8, SMA_200_TREND_LOOKBACK
      |-> 3, VOLATILITY_MIN_HISTORY |-> 8, ATR_CONTRACTION_RECENT_LOOKBACK |-> 2,
      ATR_CONTRACTION_BASELINE_LOOKBACK |-> 4, BOLLINGER_SQUEEZE_LOOKBACK |-> 6,
      BOLLINGER_SQUEEZE_MIN_HISTORY |-> 4, ROLLING_RANGE_LOOKBACK |-> 4,
      CANDLE_RANGE_RECENT_LOOKBACK |-> 2, CANDLE_RANGE_BASELINE_LOOKBACK |-> 4,
      STDDEV_RECENT_LOOKBACK |-> 3, STDDEV_BASELINE_LOOKBACK |-> 5,
      AVERAGE_VOLUME_SHORT_LOOKBACK |-> 4, AVERAGE_VOLUME_LONG_LOOKBACK |-> 8,
      VOLUME_MIN_HISTORY |-> 8, VOLUME_DRY_UP_RECENT_LOOKBACK |-> 2,
      VOLUME_DRY_UP_BASELINE_LOOKBACK |-> 5, VOLUME_CONSOLIDATION_LOOKBACK |-> 4,
      VOLUME_CONSOLIDATION_BASELINE_LOOKBACK |-> 4, UP_DOWN_VOLUME_LOOKBACK |-> 6,
      ACCUMULATION_LOOKBACK |-> 6, POCKET_PIVOT_LOOKBACK |-> 4,
      PRICE_STRUCTURE_MIN_HISTORY |-> 8, SWING_WINDOW |-> 1, SWING_MIN_SEPARATION |-> 2,
      HIGHER_LOW_MIN_SWINGS |-> 2, STRUCTURE_LOOKBACK |-> 10, TIGHT_CLOSE_LOOKBACK |->
      3, MULTIPLE_TIGHT_CLOSE_LOOKBACK |-> 4, MULTIPLE_TIGHT_CLOSE_MIN_TRANSITIONS |->
      3, SUPPORT_COMPRESSION_RECENT_LOOKBACK |-> 2,
      SUPPORT_COMPRESSION_BASELINE_LOOKBACK |-> 4, RESISTANCE_CLUSTER_MIN_TESTS |-> 3,
      DARVAS_BOX_LOOKBACK |-> 6, DARVAS_BOX_FORMATION_PERIOD |-> 4, PIVOT_MIN_HISTORY
      |-> 8, PIVOT_LOOKBACK |-> 14, PIVOT_CONSOLIDATION_LOOKBACK |-> 8,
      PIVOT_SWING_WINDOW |-> 1, PIVOT_MIN_TEST_SEPARATION |-> 2, VCP_MIN_HISTORY |-> 8,
      VCP_EXTREMA_WINDOW |-> 1, VCP_MIN_CONTRACTION_DURATION |-> 1,
      VCP_MAX_CONTRACTION_DURATION |-> 6, VCP_MAX_REPORTED_CONTRACTIONS |-> 3,
      BASE_LOOKBACK |-> 12, BASE_ADEQUATE_SESSIONS |-> 6, BASE_MIN_SESSIONS |-> 4,
      FAILED_LOOKBACK |-> 24, FAILED_MIN_HISTORY |-> 8, CONFIRMATION_SESSIONS |-> 2,
      FAILED_RECENT_SESSIONS |-> 5, FAILURE_CURRENT_SESSIONS |-> 2,
      OVERHEAD_VOLUME_LOOKBACK |-> 4, OVERHEAD_VOLUME_MIN |-> 2, OVERHEAD_SWING_WINDOW
      |-> 1, OVERHEAD_LOOKBACK |-> 14, OVERHEAD_MIN_HISTORY |-> 8, PIVOT_TEST_LOOKBACK
      |-> 8, DEMAND_LOOKBACK |-> 3, SUPPLY_DEMAND_LOOKBACK |-> 10,
      SUPPLY_DEMAND_MIN_HISTORY |-> 8, PRESSURE_LOOKBACK |-> 6, PULLBACK_RECENT |-> 3,
      PULLBACK_BASELINE |-> 4, LIFECYCLE_MIN_LOOKBACK |-> 8, QUALITY_TARGET_LOOKBACK |->
      16, QUALITY_MEDIAN_LOOKBACK |-> 6, QUALITY_MEDIAN_MIN |-> 3,
      QUALITY_RECENT_LOOKBACK |-> 4, QUALITY_MIN_LOOKBACK |-> 10, WEEK_SESSIONS |-> 2,
      WEEKLY_SMA_10 |-> 2, WEEKLY_SMA_30 |-> 3, WEEKLY_SMA_40 |-> 4, WEEKLY_SLOPE |-> 1,
      WEEKLY_RANGE |-> 2, WEEKLY_MIN_WEEKS |-> 5, RS_SLOPE_LOOKBACK |-> 3,
      RS_NEW_HIGH_LOOKBACK |-> 6, MARKET_CONTEXT_MIN_HISTORY |-> 10,
      MARKET_CONTEXT_52W_HISTORY |-> 10, MARKET_CONTEXT_SLOPE_LOOKBACK |-> 3,
      MARKET_CONTEXT_RECENT_HIGH_LOOKBACK |-> 6, CONSOLIDATION_LOOKBACK |-> 8,
      CONSOLIDATION_MIN |-> 4, RESISTANCE_LOOKBACK |-> 10, MIN_TOUCH_SEPARATION |-> 2,
      HISTORY_WINDOW |-> 10, VOLUME_WINDOW |-> 5, DONCHIAN |-> 5, MIN_CONSOLIDATION |->
      4, RS_HORIZONS |-> <<3, 5, 7, 10>> ]

Opened(price) ==
    << [close |-> price, high |-> price + 8, low |-> price - 8, volume |-> 100, day |-> 0,
        flagged |-> FALSE] >>
Sessions(price, moves_, wicks, volumes) ==
    LET upto[i \in 0..Len(moves_)] ==
            IF i = 0 THEN Opened(price)
            ELSE LET before == upto[i - 1]
                 IN  Append(before, Candle(Latest(before), moves_[i], wicks[i], volumes[i], i))
    IN  upto[Len(moves_)]
Index(moves_) == Sessions(800, moves_, [i \in DOMAIN moves_ |-> 4], [i \in DOMAIN moves_ |-> 100])

(* A rise, a correction and a base that tightens under its pivot.            *)
Base ==
    Sessions(800, <<24, 40, 40, -52, -28, 32, 44, -28, -16, 24, 16, -12, 4, 8, -8, 8>>,
                  <<8, 12, 12, 12, 12, 8, 8, 8, 8, 8, 8, 4, 4, 4, 4, 4>>,
                  <<150, 160, 170, 120, 110, 140, 150, 90, 80, 110, 100, 70, 60, 70, 50, 60>>)
(* The same base, then a breakout that is falling back.                      *)
Failing ==
    Base \o Tail(Sessions(896, <<12, 20, 12, -8, -8>>, <<4, 8, 2, 8, 2>>, <<100, 180, 50, 100, 50>>))
Rising == <<16, -8, 16, 16, -8, 16, 16, -16, 16, 16, 16, -8, 16, 16, -8, 16>>
Falling == <<16, -24, 16, -16, -8, 16, -16, -16, 16, -16, -16, 8, -16, 16, -8, -16>>
Dated(candles) == [i \in DOMAIN candles |-> [candles[i] EXCEPT !.day = i - 1]]
MCStarts ==
    { [stock |-> Base, benchmark |-> Index(Rising)],
      [stock |-> Base, benchmark |-> Index(Falling)],
      [stock |-> Dated(Failing), benchmark |-> Index(Falling \o <<-8, -8, 8, -8, -8>>)] }
MCCloses ==
    { [move |-> 8, wick |-> 2, volume |-> 100, market |-> 8, missed |-> TRUE],
      [move |-> 12, wick |-> 4, volume |-> 200, market |-> 8, missed |-> FALSE],
      [move |-> -4, wick |-> 2, volume |-> 60, market |-> -24, missed |-> FALSE],
      [move |-> -24, wick |-> 4, volume |-> 180, market |-> 8, missed |-> FALSE] }
MCMoves == { [percent |-> 2, volume |-> 150], [percent |-> 5, volume |-> 220],
             [percent |-> -4, volume |-> 40] }
MCPeers == << <<-5000>>, <<0>>, <<3000>>, None >>
=============================================================================
