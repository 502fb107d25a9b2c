-------------------------- MODULE PreBreakoutScore --------------------------
(* The pre-breakout score of one snapshot (apps/scanner/engine/              *)
(* prebreakout_scoring.py): seven components, penalties for risks, caps.     *)
(*                                                                           *)
(* A snapshot s is a record:                                                 *)
(*   yes    names of the features that are True, and of the risks the code   *)
(*          derives from several features (the members of Risks)             *)
(*   known  names of the features that are not None                          *)
(*   rs_rating, pivot_quality, vcp_quality, context_quality                  *)
(*          optional numbers in 0..100                                       *)
(*   tests, rsi (hundredths), adx                                            *)
(*   regime the market regime or "NONE"; quality the state of the daily gate *)
(*   liquid, stale, insufficient                                             *)
EXTENDS Figures, FiniteSets

TrendSignals == {"ema_alignment", "price_above_sma_50", "price_above_sma_200",
                 "sma_50_above_sma_200", "sma_200_rising",
                 "minervini_price_trend_template", "ma_compressed"}
VolatilitySignals == {"atr_contracting", "bollinger_squeeze", "rolling_range_compressed",
                      "candle_range_contracting", "stddev_contracting"}
VolumeSignals == {"volume_dry_up", "volume_contracting_in_consolidation",
                  "accumulation_behavior", "up_volume_dominant", "volume_expansion",
                  "pocket_pivot_style"}
Horizons == {"rs_1m_pct", "rs_3m_pct", "rs_6m_pct", "rs_12m_pct"}   \* in yes when positive
RelativeSignals == Horizons \cup {"rs_improving", "rs_new_high"}
MomentumSignals == {"rsi_slope", "rsi_50_reclaim", "rsi_60_strength", "histogram_rising",
                    "histogram_expanding", "positive_directional_momentum"}
SetupSignals == {"narrow_range", "vcp_detected", "vcp_invalid", "near_pivot", "already_above_pivot"}
Risks == {"price_extended", "expanding_volatility", "distribution", "resistance_too_far",
          "rs_weakening"}

Regimes == {"STRONG", "HEALTHY", "NEUTRAL", "WEAK", "RISK_OFF"}
QualityStates == {"FRESH", "PARTIAL", "STALE", "INVALID"}
Percent == {None} \cup {<<n>> : n \in 0..100}
SignalNames == TrendSignals \cup VolatilitySignals \cup VolumeSignals \cup RelativeSignals
               \cup MomentumSignals \cup SetupSignals \cup Risks

Snapshot == [ yes : SUBSET SignalNames, known : SUBSET (SignalNames \cup {"breakout_level"}),
              rs_rating : Percent, pivot_quality : Percent, vcp_quality : Percent,
              context_quality : Percent, tests : Nat, rsi : Int, adx : Int,
              regime : Regimes \cup {"NONE"}, quality : QualityStates,
              liquid : BOOLEAN, stale : BOOLEAN, insufficient : BOOLEAN ]

-----------------------------------------------------------------------------
(* The components.                                                           *)

Signal(s, name, n) == Points(name \in s.yes, n)
Component(available, points, maximum) ==
    [ available |-> available,
      score     |-> IF ~available THEN 0 ELSE IF points > maximum THEN maximum ELSE points,
      maximum   |-> maximum ]

Trend(s) ==
    Component(s.known \cap TrendSignals # {},
          Signal(s, "ema_alignment", 4) + Signal(s, "price_above_sma_50", 3)
        + Signal(s, "price_above_sma_200", 3) + Signal(s, "sma_50_above_sma_200", 3)
        + Signal(s, "sma_200_rising", 3) + Signal(s, "minervini_price_trend_template", 2)
        + Signal(s, "ma_compressed", 2), 20)

VolatilityVcp(s) ==
    Component(s.known \cap VolatilitySignals # {} \/ Known(s.vcp_quality),
          Signal(s, "atr_contracting", 3) + Signal(s, "bollinger_squeeze", 3)
        + Signal(s, "rolling_range_compressed", 2) + Signal(s, "candle_range_contracting", 2)
        + Signal(s, "stddev_contracting", 2) + Signal(s, "narrow_range", 2)
        + (IF "vcp_detected" \in s.yes /\ "vcp_invalid" \notin s.yes
           THEN Scaled(s.vcp_quality, 6) ELSE 0), 20)

VolumeScore(s) ==
    Component(s.known \cap VolumeSignals # {},
          Signal(s, "volume_dry_up", 3) + Signal(s, "volume_contracting_in_consolidation", 3)
        + Signal(s, "accumulation_behavior", 3) + Signal(s, "up_volume_dominant", 2)
        + Signal(s, "volume_expansion", 2) + Signal(s, "pocket_pivot_style", 2), 15)

RelativeStrengthScore(s) ==
    Component(Known(s.rs_rating) /\ s.known \cap Horizons # {},
          Signal(s, "rs_1m_pct", 1) + Signal(s, "rs_3m_pct", 1) + Signal(s, "rs_6m_pct", 1)
        + Signal(s, "rs_12m_pct", 2) + Signal(s, "rs_improving", 3)
        + Scaled(s.rs_rating, 5) + Signal(s, "rs_new_high", 2), 15)

PivotScore(s) ==
    Component("breakout_level" \in s.known /\ Known(s.pivot_quality),
          Scaled(s.pivot_quality, 5) + Points(s.tests >= 2, 2)
        + Points("near_pivot" \in s.yes /\ "already_above_pivot" \notin s.yes, 3), 10)

MomentumMutant(s) ==
    Component("rsi_slope" \in s.known \/ "positive_directional_momentum" \in s.known,
          Points(s.rsi >= 5000 /\ s.rsi <= 7200, 2) + Signal(s, "rsi_slope", 2)
        + Points(("rsi_50_reclaim" \in s.yes) # ("rsi_60_strength" \in s.yes), 1)
        + Signal(s, "histogram_rising", 2) + Signal(s, "histogram_expanding", 1)
        + Signal(s, "positive_directional_momentum", 1) + Points(s.adx >= 20, 1), 10)
Momentum(s) ==
    Component("rsi_slope" \in s.known \/ "positive_directional_momentum" \in s.known,
          Points(s.rsi >= 5000 /\ s.rsi <= 7200, 2) + Signal(s, "rsi_slope", 2)
        + Points("rsi_50_reclaim" \in s.yes \/ "rsi_60_strength" \in s.yes, 1)
        + Signal(s, "histogram_rising", 2) + Signal(s, "histogram_expanding", 1)
        + Signal(s, "positive_directional_momentum", 1) + Points(s.adx >= 20, 1), 10)

MarketScore(s) ==
    Component(s.regime # "NONE",
        (CASE s.regime = "STRONG" -> 6 [] s.regime = "HEALTHY" -> 5 [] s.regime = "NEUTRAL" -> 3
           [] s.regime = "WEAK" -> 1 [] OTHER -> 0)
        + Scaled(s.context_quality, 4), 10)

Components(s) == << Trend(s), VolatilityVcp(s), VolumeScore(s), RelativeStrengthScore(s),
                    PivotScore(s), Momentum(s), MarketScore(s) >>
Raw(s) == Clamp(Trend(s).score + VolatilityVcp(s).score + VolumeScore(s).score
                + RelativeStrengthScore(s).score + PivotScore(s).score
                + Momentum(s).score + MarketScore(s).score)

-----------------------------------------------------------------------------
(* Risks, caps, class.                                                       *)

RsiExtended(s) == s.rsi >= 7500
(* A rating of at most 40, or a weakening line (deteriorating, or negative   *)
(* over six and twelve months).                                              *)
WeakRelativeStrength(s) ==
    /\ RelativeStrengthScore(s).available
    /\ s.rs_rating[1] <= 40 \/ "rs_weakening" \in s.yes

Penalty(s) ==
      Signal(s, "price_extended", 10) + Points(RsiExtended(s), 5)
    + Signal(s, "expanding_volatility", 8) + Signal(s, "distribution", 7)
    + Signal(s, "resistance_too_far", 5) + Points(WeakRelativeStrength(s), 7)
    + Points(s.regime = "WEAK", 6) + Points(s.regime = "RISK_OFF", 10)
    + Points(~s.liquid, 8) + Points(s.insufficient, 10) + Points(s.stale, 10)
    + Points(~PivotScore(s).available, 5)
PenalizedMutant(s) == Raw(s) - Penalty(s)
Penalized(s) == Clamp(Raw(s) - Penalty(s))

Available(s) == {i \in 1..7 : Components(s)[i].available}
Confluent(s) == {i \in Available(s) : 10 * Components(s)[i].score >= 6 * Components(s)[i].maximum}
StrongConfluence(s) == Cardinality(Available(s)) >= 5 /\ Cardinality(Confluent(s)) >= 4
HighQualityConfluence(s) ==
    /\ Cardinality(Available(s)) >= 6 /\ Cardinality(Confluent(s)) >= 5
    /\ PivotScore(s).available /\ RelativeStrengthScore(s).available

(* The least of the caps that apply.                                         *)
CappedAt69Mutant(s) ==
    \/ ~PivotScore(s).available \/ ~RelativeStrengthScore(s).available
    \/ s.stale \/ s.insufficient
    \/ s.yes \cap {"expanding_volatility", "price_extended", "resistance_too_far"} # {}
    \/ s.regime = "WEAK" \/ ~StrongConfluence(s) \/ s.quality = "PARTIAL"
CappedAt69(s) ==
    \/ ~PivotScore(s).available \/ ~RelativeStrengthScore(s).available
    \/ s.stale \/ s.insufficient \/ ~s.liquid
    \/ s.yes \cap {"expanding_volatility", "price_extended", "resistance_too_far"} # {}
    \/ s.regime = "WEAK" \/ ~StrongConfluence(s) \/ s.quality = "PARTIAL"
CappedAt84(s) == RsiExtended(s) \/ "distribution" \in s.yes \/ ~HighQualityConfluence(s)
CapMutant(s) ==
    IF s.quality \notin {"FRESH", "PARTIAL", "STALE"} THEN 0
    ELSE IF s.regime = "RISK_OFF" \/ s.quality = "STALE" THEN 54
    ELSE IF CappedAt84(s) THEN 84
    ELSE IF CappedAt69(s) THEN 69
    ELSE 100
Cap(s) ==
    IF s.quality \notin {"FRESH", "PARTIAL", "STALE"} THEN 0
    ELSE IF s.regime = "RISK_OFF" \/ s.quality = "STALE" THEN 54
    ELSE IF CappedAt69(s) THEN 69
    ELSE IF CappedAt84(s) THEN 84
    ELSE 100

Score(s) == IF Penalized(s) > Cap(s) THEN Cap(s) ELSE Penalized(s)
Classification(s) ==
    IF Score(s) >= 85 THEN "HIGH_QUALITY"
    ELSE IF Score(s) >= 70 THEN "STRONG"
    ELSE IF Score(s) >= 55 THEN "DEVELOPING"
    ELSE "WEAK"
=============================================================================
