-------------------------- MODULE ScoreWalk_proofs --------------------------
(* Proofs about the pre-breakout score: what its top class requires, that a  *)
(* risk never raises it and a good reading never lowers it, for every        *)
(* snapshot a walk can reach.                                                *)
EXTENDS ScoreWalk, FiniteSetTheorems, TLAPS

-----------------------------------------------------------------------------
(* Numbers.                                                                  *)

LEMMA ScaledType ==
    ASSUME NEW o \in Percent, NEW m \in Nat PROVE Scaled(o, m) \in Int
<1>1. CASE o = None
  BY <1>1 DEF Scaled, Known
<1>2. ASSUME NEW n \in 0..100, o = <<n>> PROVE Scaled(o, m) \in Int
  <2>1. Known(o) /\ o[1] = n
    BY <1>2 DEF Known, None
  <2>2. Clamp(o[1]) = n
    BY <2>1 DEF Clamp
  <2>3. RoundDiv(n * m, 100) \in Int
    BY DEF RoundDiv
  <2>4. QED
    BY <2>1, <2>2, <2>3 DEF Scaled
<1>3. QED
  BY <1>1, <1>2 DEF Percent

LEMMA ComponentType ==
    ASSUME NEW a \in BOOLEAN, NEW p \in Int, NEW m \in Nat
    PROVE  /\ Component(a, p, m).available = a /\ Component(a, p, m).maximum = m
           /\ Component(a, p, m).score \in Int
           /\ Component(a, p, m).score = IF ~a THEN 0 ELSE IF p > m THEN m ELSE p
  BY DEF Component

LEMMA ScoresAreNumbers ==
    ASSUME NEW s \in Snapshot
    PROVE  /\ Trend(s).score \in Int /\ VolatilityVcp(s).score \in Int /\ VolumeScore(s).score \in Int
           /\ RelativeStrengthScore(s).score \in Int /\ PivotScore(s).score \in Int
           /\ Momentum(s).score \in Int /\ MarketScore(s).score \in Int
<1>1. s.rs_rating \in Percent /\ s.pivot_quality \in Percent /\ s.vcp_quality \in Percent
      /\ s.context_quality \in Percent
  BY DEF Snapshot
<1>2. Scaled(s.rs_rating, 5) \in Int /\ Scaled(s.pivot_quality, 5) \in Int
      /\ Scaled(s.vcp_quality, 6) \in Int /\ Scaled(s.context_quality, 4) \in Int
  BY <1>1, ScaledType
<1>3. Trend(s).score \in Int
  BY DEF Trend, Component, Signal, Points
<1>4. VolatilityVcp(s).score \in Int
  BY <1>2 DEF VolatilityVcp, Component, Signal, Points
<1>5. VolumeScore(s).score \in Int
  BY DEF VolumeScore, Component, Signal, Points
<1>6. RelativeStrengthScore(s).score \in Int
  BY <1>2 DEF RelativeStrengthScore, Component, Signal, Points
<1>7. PivotScore(s).score \in Int
  BY <1>2 DEF PivotScore, Component, Signal, Points
<1>8. Momentum(s).score \in Int
  BY DEF Momentum, Component, Signal, Points
<1>9. MarketScore(s).score \in Int
  <2>1. (CASE s.regime = "STRONG" -> 6 [] s.regime = "HEALTHY" -> 5 [] s.regime = "NEUTRAL" -> 3
           [] s.regime = "WEAK" -> 1 [] OTHER -> 0) \in Int
    OBVIOUS
  <2>2. QED
    BY <1>2, <2>1 DEF MarketScore, Component
<1>10. QED
  BY <1>3, <1>4, <1>5, <1>6, <1>7, <1>8, <1>9

LEMMA PenaltyType ==
    ASSUME NEW s PROVE Penalty(s) \in Nat
  BY DEF Penalty, Signal, Points

LEMMA PenalizedType ==
    ASSUME NEW s \in Snapshot PROVE Raw(s) \in 0..100 /\ Penalized(s) \in 0..100
<1>1. Raw(s) \in 0..100
  <2> DEFINE sum == Trend(s).score + VolatilityVcp(s).score + VolumeScore(s).score
                    + RelativeStrengthScore(s).score + PivotScore(s).score
                    + Momentum(s).score + MarketScore(s).score
  <2>1. sum \in Int
    BY ScoresAreNumbers
  <2> HIDE DEF sum
  <2>2. Clamp(sum) \in 0..100
    BY <2>1 DEF Clamp
  <2>3. QED
    BY <2>2 DEF Raw, sum
<1>2. Raw(s) - Penalty(s) \in Int
  BY <1>1, PenaltyType
<1>3. QED
  BY <1>1, <1>2 DEF Penalized, Clamp

LEMMA CapType ==
    ASSUME NEW s PROVE Cap(s) \in {0, 54, 69, 84, 100}
  BY DEF Cap

-----------------------------------------------------------------------------
(* The top class.                                                            *)

LEMMA TopIsUncapped ==
    ASSUME NEW s \in Snapshot, Classification(s) = "HIGH_QUALITY" PROVE Cap(s) = 100
<1>1. Score(s) >= 85
  BY DEF Classification
<1>2. QED
  BY <1>1, PenalizedType, CapType DEF Score

LEMMA TopIsClean ==
    ASSUME snapshot \in Snapshot PROVE HighQualityIsClean
<1> SUFFICES ASSUME Classification(snapshot) = "HIGH_QUALITY"
             PROVE  /\ snapshot.quality = "FRESH" /\ snapshot.liquid
                    /\ ~snapshot.stale /\ ~snapshot.insufficient
                    /\ snapshot.yes \cap Risks \subseteq {"rs_weakening"}
                    /\ snapshot.rsi < 7500
                    /\ snapshot.regime \notin {"WEAK", "RISK_OFF"}
                    /\ Known(snapshot.pivot_quality) /\ Known(snapshot.rs_rating)
                    /\ Cardinality(Confluent(snapshot)) >= 5
  BY DEF HighQualityIsClean
<1>1. Cap(snapshot) = 100
  BY TopIsUncapped
<1>2. /\ snapshot.quality \in {"FRESH", "PARTIAL", "STALE"} /\ snapshot.quality # "STALE"
      /\ snapshot.regime # "RISK_OFF" /\ ~CappedAt69(snapshot) /\ ~CappedAt84(snapshot)
  BY <1>1 DEF Cap
<1>3. /\ snapshot.liquid /\ ~snapshot.stale /\ ~snapshot.insufficient /\ snapshot.regime # "WEAK"
      /\ snapshot.quality # "PARTIAL"
      /\ snapshot.yes \cap {"expanding_volatility", "price_extended", "resistance_too_far"} = {}
      /\ PivotScore(snapshot).available /\ RelativeStrengthScore(snapshot).available
  BY <1>2 DEF CappedAt69
<1>4. ~RsiExtended(snapshot) /\ "distribution" \notin snapshot.yes /\ HighQualityConfluence(snapshot)
  BY <1>2 DEF CappedAt84
<1>5. Known(snapshot.pivot_quality) /\ Known(snapshot.rs_rating)
  BY <1>3 DEF PivotScore, RelativeStrengthScore, Component
<1>6. snapshot.rsi < 7500
  BY <1>4 DEF RsiExtended, Snapshot
<1>7. snapshot.yes \cap Risks \subseteq {"rs_weakening"}
  BY <1>3, <1>4 DEF Risks
<1>8. QED
  BY <1>2, <1>3, <1>4, <1>5, <1>6, <1>7 DEF HighQualityConfluence

-----------------------------------------------------------------------------
(* Snapshots stay snapshots.                                                 *)

LEMMA ScoreTypeInit == ScoreInit => ScoreTypeOK
<1>1. FullSetup \in Snapshot
  BY DEF FullSetup, Snapshot, SignalNames, Percent, Regimes, QualityStates
<1>2. BareSetup \in Snapshot
  BY DEF BareSetup, Snapshot, SignalNames, Percent, Regimes, QualityStates, TrendSignals,
         VolatilitySignals
<1>3. QED
  BY <1>1, <1>2, ChangesAssumption DEF ScoreInit, ScoreTypeOK

LEMMA ScoreTypeStep == ScoreTypeOK /\ [ScoreNext]_scoreVars => ScoreTypeOK'
<1> SUFFICES ASSUME ScoreTypeOK, [ScoreNext]_scoreVars PROVE ScoreTypeOK'
  OBVIOUS
<1>0. snapshot \in Snapshot
  BY DEF ScoreTypeOK
<1>B. ASSUME NEW s \in Snapshot, Becomes(s) PROVE ScoreTypeOK'
  BY <1>B, ChangesAssumption DEF Becomes, ScoreTypeOK
<1>1. CASE SignalGained
  <2>1. PICK name \in Rewarded \ snapshot.yes :
           Becomes([snapshot EXCEPT !.yes = @ \cup {name}, !.known = @ \cup {name}])
    BY <1>1 DEF SignalGained
  <2>2. name \in SignalNames
    BY DEF Rewarded
  <2>3. QED
    BY <1>0, <1>B, <2>1, <2>2 DEF Snapshot
<1>2. CASE RiskAppears
  <2>1. CASE RiskFlagged
    <3>1. PICK risk \in Risks \ snapshot.yes : Becomes([snapshot EXCEPT !.yes = @ \cup {risk}])
      BY <2>1 DEF RiskFlagged
    <3>2. risk \in SignalNames
      BY DEF SignalNames
    <3>3. QED
      BY <1>0, <1>B, <3>1, <3>2 DEF Snapshot
  <2>2. CASE Overheated
    BY <1>0, <1>B, <2>2 DEF Overheated, Snapshot
  <2>3. CASE MarketWorsens
    <3>1. PICK i \in 1..4 : Becomes([snapshot EXCEPT !.regime = Worse[i + 1]])
      BY <2>3 DEF MarketWorsens
    <3>2. Worse[i + 1] \in Regimes
      BY DEF Worse, Regimes
    <3>3. QED
      BY <1>0, <1>B, <3>1, <3>2 DEF Snapshot
  <2>4. CASE LiquidityLost \/ HistoryShort
    BY <1>0, <1>B, <2>4 DEF LiquidityLost, HistoryShort, Snapshot
  <2>5. CASE GateWorsens
    BY <1>0, <1>B, <2>5 DEF GateWorsens, Snapshot, QualityStates
  <2>6. QED
    BY <1>2, <2>1, <2>2, <2>3, <2>4, <2>5 DEF RiskAppears
<1>3. CASE AnswerLost
  <2>1. None \in Percent
    BY DEF Percent
  <2>2. CASE PivotLost
    BY <1>0, <1>B, <2>1, <2>2 DEF PivotLost, Snapshot
  <2>3. CASE RelativeStrengthLost
    BY <1>0, <1>B, <2>1, <2>3 DEF RelativeStrengthLost, Snapshot
  <2>4. CASE MarketLost
    BY <1>0, <1>B, <2>1, <2>4 DEF MarketLost, Snapshot
  <2>5. CASE SignalsLost
    BY <1>0, <1>B, <2>5 DEF SignalsLost, Snapshot
  <2>6. QED
    BY <1>3, <2>2, <2>3, <2>4, <2>5 DEF AnswerLost
<1>4. CASE UNCHANGED scoreVars
  BY <1>4 DEF scoreVars, ScoreTypeOK
<1>5. QED
  BY <1>1, <1>2, <1>3, <1>4 DEF ScoreNext

(* Snapshots stay snapshots: the numbers in their ranges, the names among    *)
(* those the scorer knows (prebreakout_scoring.py reads them from the        *)
(* snapshot's optional fields).                                              *)
THEOREM ScoreTypesHold == ScoreSpec => []ScoreTypeOK
  BY ScoreTypeInit, ScoreTypeStep, PTL DEF ScoreSpec

(* The classification HIGH_QUALITY is clean (prebreakout_scoring.py score):  *)
(* no sum of points outweighs a cap.                                         *)
THEOREM TopClassIsClean == ScoreSpec => []HighQualityIsClean
<1>1. ScoreTypeOK => HighQualityIsClean
  BY TopIsClean DEF ScoreTypeOK
<1>2. QED
  BY <1>1, ScoreTypeInit, ScoreTypeStep, PTL DEF ScoreSpec

-----------------------------------------------------------------------------
(* A risk never helps.                                                       *)

(* What a snapshot with one more risk has in common with the one before.     *)
Riskier(s, t) ==
    /\ s.yes \subseteq t.yes /\ t.yes \ s.yes \subseteq Risks
    /\ t.known = s.known /\ t.tests = s.tests /\ t.adx = s.adx
    /\ t.rs_rating = s.rs_rating /\ t.pivot_quality = s.pivot_quality
    /\ t.vcp_quality = s.vcp_quality /\ t.context_quality = s.context_quality
    /\ t.rsi = s.rsi \/ (s.rsi < 7500 /\ t.rsi = 7600)
    /\ t.regime = s.regime \/ \E i \in 1..4 : s.regime = Worse[i] /\ t.regime = Worse[i + 1]
    /\ \/ t.quality = s.quality
       \/ s.quality = "FRESH" /\ t.quality = "PARTIAL"
       \/ s.quality \in {"FRESH", "PARTIAL"} /\ t.quality = "STALE"
       \/ t.quality = "INVALID"
    /\ t.liquid => s.liquid
    /\ s.stale => t.stale
    /\ s.insufficient => t.insufficient

LEMMA RiskIsRiskier ==
    ASSUME snapshot \in Snapshot, RiskAppears PROVE Riskier(snapshot, snapshot')
<1> USE DEF Becomes, Riskier, Snapshot
<1>1. CASE RiskFlagged
  BY <1>1 DEF RiskFlagged
<1>2. CASE Overheated
  BY <1>2 DEF Overheated
<1>3. CASE MarketWorsens
  BY <1>3 DEF MarketWorsens
<1>4. CASE LiquidityLost \/ HistoryShort
  BY <1>4 DEF LiquidityLost, HistoryShort
<1>5. CASE GateWorsens
  <2>1. CASE snapshot.quality = "FRESH" /\ Becomes([snapshot EXCEPT !.quality = "PARTIAL"])
    BY <2>1
  <2>2. CASE /\ snapshot.quality \in {"FRESH", "PARTIAL"}
             /\ Becomes([snapshot EXCEPT !.quality = "STALE", !.stale = TRUE])
    BY <2>2
  <2>3. CASE Becomes([snapshot EXCEPT !.quality = "INVALID"])
    BY <2>3
  <2>4. QED
    BY <1>5, <2>1, <2>2, <2>3 DEF GateWorsens
<1>6. QED
  BY <1>1, <1>2, <1>3, <1>4, <1>5 DEF RiskAppears

LEMMA SameSignals ==
    ASSUME NEW s, NEW t, Riskier(s, t), NEW name, name \notin Risks, NEW n
    PROVE  Signal(t, name, n) = Signal(s, name, n) /\ (name \in t.yes <=> name \in s.yes)
  BY DEF Riskier, Signal

LEMMA ComponentsKept ==
    ASSUME NEW s, NEW t, Riskier(s, t)
    PROVE  /\ Trend(t) = Trend(s) /\ VolatilityVcp(t) = VolatilityVcp(s)
           /\ VolumeScore(t) = VolumeScore(s) /\ RelativeStrengthScore(t) = RelativeStrengthScore(s)
           /\ PivotScore(t) = PivotScore(s)
<1>1. t.known = s.known /\ t.rs_rating = s.rs_rating /\ t.pivot_quality = s.pivot_quality
      /\ t.vcp_quality = s.vcp_quality /\ t.tests = s.tests
  BY DEF Riskier
<1>2. Trend(t) = Trend(s)
  BY <1>1, SameSignals DEF Trend, Risks
<1>3. VolatilityVcp(t) = VolatilityVcp(s)
  BY <1>1, SameSignals DEF VolatilityVcp, Risks
<1>4. VolumeScore(t) = VolumeScore(s)
  BY <1>1, SameSignals DEF VolumeScore, Risks
<1>5. RelativeStrengthScore(t) = RelativeStrengthScore(s)
  BY <1>1, SameSignals DEF RelativeStrengthScore, Risks
<1>6. PivotScore(t) = PivotScore(s)
  BY <1>1, SameSignals DEF PivotScore, Risks
<1>7. QED
  BY <1>2, <1>3, <1>4, <1>5, <1>6

(* An overheated RSI and a worse market lower the two components that read   *)
(* them.                                                                     *)
LEMMA ComponentsFall ==
    ASSUME NEW s \in Snapshot, NEW t \in Snapshot, Riskier(s, t)
    PROVE  /\ Momentum(t).score <= Momentum(s).score
           /\ Momentum(t).available = Momentum(s).available
           /\ Momentum(t).maximum = Momentum(s).maximum
           /\ MarketScore(t).score <= MarketScore(s).score
           /\ MarketScore(t).available = MarketScore(s).available
           /\ MarketScore(t).maximum = MarketScore(s).maximum
<1>1. t.known = s.known /\ t.adx = s.adx /\ t.context_quality = s.context_quality
  BY DEF Riskier
<1>2. /\ Signal(t, "rsi_slope", 2) = Signal(s, "rsi_slope", 2)
      /\ Signal(t, "histogram_rising", 2) = Signal(s, "histogram_rising", 2)
      /\ Signal(t, "histogram_expanding", 1) = Signal(s, "histogram_expanding", 1)
      /\ Signal(t, "positive_directional_momentum", 1) = Signal(s, "positive_directional_momentum", 1)
      /\ "rsi_50_reclaim" \in t.yes <=> "rsi_50_reclaim" \in s.yes
      /\ "rsi_60_strength" \in t.yes <=> "rsi_60_strength" \in s.yes
  BY SameSignals DEF Risks
<1>3. (t.rsi >= 5000 /\ t.rsi <= 7200) => (s.rsi >= 5000 /\ s.rsi <= 7200)
  BY DEF Riskier, Snapshot
<1>4. /\ Momentum(t).score <= Momentum(s).score
      /\ Momentum(t).available = Momentum(s).available
      /\ Momentum(t).maximum = Momentum(s).maximum
  BY <1>1, <1>2, <1>3 DEF Momentum, Component, Points, Signal
<1>5. /\ MarketScore(t).score <= MarketScore(s).score
      /\ MarketScore(t).available = MarketScore(s).available
      /\ MarketScore(t).maximum = MarketScore(s).maximum
  <2>1. Scaled(s.context_quality, 4) \in Int
    BY ScaledType DEF Snapshot
  <2> DEFINE tone(r) == CASE r = "STRONG" -> 6 [] r = "HEALTHY" -> 5 [] r = "NEUTRAL" -> 3
                          [] r = "WEAK" -> 1 [] OTHER -> 0
  <2>2. tone(t.regime) \in Int /\ tone(s.regime) \in Int /\ tone(t.regime) <= tone(s.regime)
        /\ (t.regime # "NONE" <=> s.regime # "NONE")
    BY DEF Riskier, Worse
  <2>3. MarketScore(t) = Component(t.regime # "NONE", tone(t.regime) + Scaled(t.context_quality, 4), 10)
        /\ MarketScore(s) = Component(s.regime # "NONE", tone(s.regime) + Scaled(s.context_quality, 4), 10)
    BY DEF MarketScore
  <2> HIDE DEF tone
  <2>4. QED
    BY <1>1, <2>1, <2>2, <2>3 DEF Component
<1>6. QED
  BY <1>4, <1>5

LEMMA RawFalls ==
    ASSUME NEW s \in Snapshot, NEW t \in Snapshot, Riskier(s, t) PROVE Raw(t) <= Raw(s)
<1> DEFINE rest(x) == Trend(x).score + VolatilityVcp(x).score + VolumeScore(x).score
                      + RelativeStrengthScore(x).score + PivotScore(x).score
           sum(x) == Trend(x).score + VolatilityVcp(x).score + VolumeScore(x).score
                     + RelativeStrengthScore(x).score + PivotScore(x).score
                     + Momentum(x).score + MarketScore(x).score
<1>1. sum(t) \in Int /\ sum(s) \in Int /\ sum(t) <= sum(s)
  BY ScoresAreNumbers, ComponentsKept, ComponentsFall
<1>2. Raw(t) = Clamp(sum(t)) /\ Raw(s) = Clamp(sum(s))
  BY DEF Raw
<1> HIDE DEF sum
<1>3. QED
  BY <1>1, <1>2 DEF Clamp

LEMMA PenaltyRises ==
    ASSUME NEW s \in Snapshot, NEW t \in Snapshot, Riskier(s, t) PROVE Penalty(s) <= Penalty(t)
<1>1. \A name, n : n \in Nat => Signal(s, name, n) <= Signal(t, name, n)
                               /\ Signal(s, name, n) \in Nat /\ Signal(t, name, n) \in Nat
  BY DEF Riskier, Signal, Points
<1>2. RsiExtended(s) => RsiExtended(t)
  BY DEF Riskier, RsiExtended, Snapshot
<1>3. WeakRelativeStrength(s) => WeakRelativeStrength(t)
  BY ComponentsKept DEF WeakRelativeStrength, Riskier
<1>4. PivotScore(t).available = PivotScore(s).available
  BY ComponentsKept
<1>5. Points(s.regime = "WEAK", 6) + Points(s.regime = "RISK_OFF", 10)
        <= Points(t.regime = "WEAK", 6) + Points(t.regime = "RISK_OFF", 10)
  BY DEF Riskier, Worse, Points
<1>6. /\ Points(~s.liquid, 8) <= Points(~t.liquid, 8)
      /\ Points(s.insufficient, 10) <= Points(t.insufficient, 10)
      /\ Points(s.stale, 10) <= Points(t.stale, 10)
      /\ Points(RsiExtended(s), 5) <= Points(RsiExtended(t), 5)
      /\ Points(WeakRelativeStrength(s), 7) <= Points(WeakRelativeStrength(t), 7)
      /\ Points(~PivotScore(s).available, 5) = Points(~PivotScore(t).available, 5)
  BY <1>2, <1>3, <1>4 DEF Riskier, Points
<1>7. \A x \in {s, t} :
         /\ Signal(x, "price_extended", 10) \in Nat /\ Signal(x, "expanding_volatility", 8) \in Nat
         /\ Signal(x, "distribution", 7) \in Nat /\ Signal(x, "resistance_too_far", 5) \in Nat
         /\ Points(RsiExtended(x), 5) \in Nat /\ Points(WeakRelativeStrength(x), 7) \in Nat
         /\ Points(x.regime = "WEAK", 6) \in Nat /\ Points(x.regime = "RISK_OFF", 10) \in Nat
         /\ Points(~x.liquid, 8) \in Nat /\ Points(x.insufficient, 10) \in Nat
         /\ Points(x.stale, 10) \in Nat /\ Points(~PivotScore(x).available, 5) \in Nat
  BY DEF Points, Signal
<1>8. /\ Signal(s, "price_extended", 10) <= Signal(t, "price_extended", 10)
      /\ Signal(s, "expanding_volatility", 8) <= Signal(t, "expanding_volatility", 8)
      /\ Signal(s, "distribution", 7) <= Signal(t, "distribution", 7)
      /\ Signal(s, "resistance_too_far", 5) <= Signal(t, "resistance_too_far", 5)
  BY <1>1
<1>9. QED
  BY <1>5, <1>6, <1>7, <1>8 DEF Penalty

LEMMA ConfluenceFalls ==
    ASSUME NEW s \in Snapshot, NEW t \in Snapshot, Riskier(s, t)
    PROVE  /\ Available(t) = Available(s) /\ Confluent(t) \subseteq Confluent(s)
           /\ IsFiniteSet(Confluent(s)) /\ Cardinality(Confluent(t)) <= Cardinality(Confluent(s))
           /\ Cardinality(Confluent(t)) \in Nat /\ Cardinality(Confluent(s)) \in Nat
<1>1. \A i \in 1..7 : /\ Components(t)[i].available = Components(s)[i].available
                      /\ Components(t)[i].maximum = Components(s)[i].maximum
                      /\ Components(t)[i].score <= Components(s)[i].score
                      /\ Components(t)[i].score \in Int /\ Components(s)[i].score \in Int
                      /\ Components(s)[i].maximum \in Int
  <2>1. \A x \in {s, t} :
           /\ Trend(x).maximum \in Int /\ VolatilityVcp(x).maximum \in Int /\ VolumeScore(x).maximum \in Int
           /\ RelativeStrengthScore(x).maximum \in Int /\ PivotScore(x).maximum \in Int
           /\ Momentum(x).maximum \in Int /\ MarketScore(x).maximum \in Int
    BY DEF Trend, VolatilityVcp, VolumeScore, RelativeStrengthScore, PivotScore, Momentum,
           MarketScore, Component
  <2> SUFFICES ASSUME NEW i \in 1..7
               PROVE  /\ Components(t)[i].available = Components(s)[i].available
                      /\ Components(t)[i].maximum = Components(s)[i].maximum
                      /\ Components(t)[i].score <= Components(s)[i].score
                      /\ Components(t)[i].score \in Int /\ Components(s)[i].score \in Int
                      /\ Components(s)[i].maximum \in Int
    OBVIOUS
  <2>2. i = 1 \/ i = 2 \/ i = 3 \/ i = 4 \/ i = 5 \/ i = 6 \/ i = 7
    OBVIOUS
  <2>3. QED
    BY <2>1, <2>2, ScoresAreNumbers, ComponentsKept, ComponentsFall DEF Components
<1>2. Available(t) = Available(s) /\ Confluent(t) \subseteq Confluent(s)
  BY <1>1 DEF Available, Confluent
<1>3. IsFiniteSet(Confluent(s))
  <2>1. IsFiniteSet(1..7)
    <3>1. PICK one \in Int, seven \in Int : one = 1 /\ seven = 7
      OBVIOUS
    <3>2. IsFiniteSet(one..seven)
      BY FS_Interval
    <3>3. QED
      BY <3>1, <3>2
  <2>2. Confluent(s) \subseteq 1..7
    <3>1. Confluent(s) \subseteq Available(s)
      BY Zenon DEF Confluent
    <3>2. Available(s) \subseteq 1..7
      BY Zenon DEF Available
    <3>3. QED
      BY <3>1, <3>2
  <2>3. QED
    BY <2>1, <2>2, FS_Subset
<1>4. QED
  BY <1>2, <1>3, FS_Subset, FS_CardinalityType

LEMMA CapFalls ==
    ASSUME NEW s \in Snapshot, NEW t \in Snapshot, Riskier(s, t) PROVE Cap(t) <= Cap(s)
<1>1. PivotScore(t) = PivotScore(s) /\ RelativeStrengthScore(t) = RelativeStrengthScore(s)
  BY ComponentsKept
<1>2. StrongConfluence(t) => StrongConfluence(s)
  BY ConfluenceFalls DEF StrongConfluence
<1>3. HighQualityConfluence(t) => HighQualityConfluence(s)
  BY <1>1, ConfluenceFalls DEF HighQualityConfluence
<1>4. s.regime \in {"WEAK", "RISK_OFF"} /\ t.regime # "RISK_OFF" => t.regime = s.regime
  BY DEF Riskier, Worse
<1>5. s.regime = "RISK_OFF" => t.regime = "RISK_OFF"
  BY DEF Riskier, Worse
<1>6. s.quality # "FRESH" => t.quality # "FRESH"
  BY DEF Riskier
<1>7. CappedAt69(s) => CappedAt69(t) \/ t.regime = "RISK_OFF" \/ t.quality # "FRESH"
  BY <1>1, <1>2, <1>4 DEF CappedAt69, Riskier
<1>8. CappedAt84(s) => CappedAt84(t)
  <2>1. RsiExtended(s) => RsiExtended(t)
    BY DEF Riskier, RsiExtended, Snapshot
  <2>2. QED
    BY <2>1, <1>3 DEF CappedAt84, Riskier
<1>9. t.quality = "PARTIAL" => CappedAt69(t)
  BY DEF CappedAt69
<1>10. s.quality \in QualityStates /\ t.quality \in QualityStates
  BY DEF Snapshot
<1>11. s.quality \notin {"FRESH", "PARTIAL", "STALE"} => t.quality \notin {"FRESH", "PARTIAL", "STALE"}
  BY <1>10 DEF Riskier, QualityStates
<1>12. s.quality = "STALE" => t.quality \in {"STALE", "INVALID"}
  BY DEF Riskier
<1>13. QED
  BY <1>5, <1>7, <1>8, <1>9, <1>10, <1>11, <1>12 DEF Cap, QualityStates

(* A risk never raises the score, whatever else the snapshot holds.          *)
THEOREM RisksNeverHelp == ScoreSpec => RiskNeverHelps
<1>1. ScoreTypeOK /\ ScoreTypeOK' /\ [ScoreNext]_scoreVars
        => [RiskAppears => Score(snapshot') <= Score(snapshot)]_scoreVars
  <2> SUFFICES ASSUME snapshot \in Snapshot, snapshot' \in Snapshot, RiskAppears
               PROVE  Score(snapshot') <= Score(snapshot)
    BY DEF ScoreTypeOK
  <2>1. Riskier(snapshot, snapshot')
    BY RiskIsRiskier
  <2>2. Cap(snapshot') <= Cap(snapshot) /\ Cap(snapshot') \in Nat /\ Cap(snapshot) \in Nat
    BY <2>1, CapFalls, CapType
  <2>3. Penalized(snapshot') <= Penalized(snapshot)
        /\ Penalized(snapshot') \in Nat /\ Penalized(snapshot) \in Nat
    <3>1. /\ Raw(snapshot') <= Raw(snapshot) /\ Penalty(snapshot) <= Penalty(snapshot')
          /\ Raw(snapshot') \in Int /\ Raw(snapshot) \in Int
          /\ Penalty(snapshot) \in Int /\ Penalty(snapshot') \in Int
      BY <2>1, RawFalls, PenaltyRises, PenalizedType, PenaltyType
    <3>2. QED
      BY <3>1 DEF Penalized, Clamp
  <2>4. QED
    BY <2>2, <2>3 DEF Score
<1>2. QED
  BY <1>1, ScoreTypeInit, ScoreTypeStep, PTL DEF ScoreSpec, RiskNeverHelps

-----------------------------------------------------------------------------
(* A good reading never hurts.                                               *)

(* A rating is only known of a stock with a return over some horizon.        *)
Rated(s) == Known(s.rs_rating) => s.known \cap Horizons # {}

LEMMA RatedInit == ScoreInit => Rated(snapshot)
  BY DEF ScoreInit, FullSetup, BareSetup, Rated, SignalNames, RelativeSignals, Horizons

LEMMA RatedStep == ScoreTypeOK /\ Rated(snapshot) /\ [ScoreNext]_scoreVars => Rated(snapshot')
<1> SUFFICES ASSUME snapshot \in Snapshot, Rated(snapshot), [ScoreNext]_scoreVars
             PROVE  Rated(snapshot')
  BY DEF ScoreTypeOK
<1>1. CASE SignalGained
  <2>1. PICK name : snapshot' = [snapshot EXCEPT !.yes = @ \cup {name}, !.known = @ \cup {name}]
    BY <1>1, Zenon DEF SignalGained, Becomes
  <2>2. snapshot'.rs_rating = snapshot.rs_rating /\ snapshot.known \subseteq snapshot'.known
    BY <2>1 DEF Snapshot
  <2>3. QED
    BY <2>2 DEF Rated
<1>2. CASE RiskAppears
  BY <1>2, RiskIsRiskier DEF Riskier, Rated
<1>3. CASE AnswerLost
  <2>1. CASE PivotLost
    <3>1. snapshot'.rs_rating = snapshot.rs_rating
          /\ snapshot'.known = snapshot.known \ {"breakout_level"}
      BY <2>1 DEF PivotLost, Becomes, Snapshot
    <3>2. QED
      BY <3>1 DEF Rated, Horizons
  <2>2. CASE RelativeStrengthLost
    <3>1. snapshot'.rs_rating = None
      BY <2>2 DEF RelativeStrengthLost, Becomes, Snapshot
    <3>2. QED
      BY <3>1 DEF Rated, Known
  <2>3. CASE MarketLost
    <3>1. snapshot'.rs_rating = snapshot.rs_rating /\ snapshot'.known = snapshot.known
      BY <2>3 DEF MarketLost, Becomes, Snapshot
    <3>2. QED
      BY <3>1 DEF Rated
  <2>4. CASE SignalsLost
    <3>1. PICK group \in {TrendSignals, VolatilitySignals, VolumeSignals, MomentumSignals} :
             snapshot' = [snapshot EXCEPT !.known = @ \ group, !.yes = @ \ group]
      BY <2>4, Zenon DEF SignalsLost, Becomes
    <3>2. snapshot'.rs_rating = snapshot.rs_rating /\ snapshot'.known = snapshot.known \ group
      BY <3>1 DEF Snapshot
    <3>3. group \cap Horizons = {}
      BY <3>1 DEF Horizons, TrendSignals, VolatilitySignals, VolumeSignals, MomentumSignals
    <3>4. QED
      BY <3>2, <3>3 DEF Rated
  <2>5. QED
    BY <1>3, <2>1, <2>2, <2>3, <2>4 DEF AnswerLost
<1>4. CASE UNCHANGED scoreVars
  BY <1>4 DEF scoreVars, Rated
<1>5. QED
  BY <1>1, <1>2, <1>3, <1>4 DEF ScoreNext

(* What a snapshot with one more good reading has in common with the one     *)
(* before.                                                                   *)
Improved(s, t) ==
    /\ s.yes \subseteq t.yes /\ t.yes \ s.yes \subseteq Rewarded
    /\ s.known \subseteq t.known /\ t.known \ s.known \subseteq Rewarded
    /\ t.tests = s.tests /\ t.adx = s.adx /\ t.rsi = s.rsi
    /\ t.rs_rating = s.rs_rating /\ t.pivot_quality = s.pivot_quality
    /\ t.vcp_quality = s.vcp_quality /\ t.context_quality = s.context_quality
    /\ t.regime = s.regime /\ t.quality = s.quality /\ t.liquid = s.liquid
    /\ t.stale = s.stale /\ t.insufficient = s.insufficient

LEMMA GainImproves ==
    ASSUME snapshot \in Snapshot, SignalGained PROVE Improved(snapshot, snapshot')
<1>1. PICK name \in Rewarded :
         snapshot' = [snapshot EXCEPT !.yes = @ \cup {name}, !.known = @ \cup {name}]
  BY Zenon DEF SignalGained, Becomes
<1>2. QED
  BY <1>1 DEF Improved, Snapshot

LEMMA SignalsRise ==
    ASSUME NEW s, NEW t, Improved(s, t), NEW name, NEW n \in Nat
    PROVE  /\ Signal(s, name, n) \in Nat /\ Signal(t, name, n) \in Nat
           /\ Signal(s, name, n) <= Signal(t, name, n)
  BY DEF Improved, Signal, Points

LEMMA RisksStay ==
    ASSUME NEW s, NEW t, Improved(s, t),
           NEW name \in Risks \cup {"vcp_invalid", "already_above_pivot"}
    PROVE  name \in t.yes <=> name \in s.yes
  BY DEF Improved, Rewarded

LEMMA ScaledNat ==
    ASSUME NEW o \in Percent, NEW m \in Nat PROVE Scaled(o, m) \in Nat
<1>1. CASE o = None
  BY <1>1 DEF Scaled, Known
<1>2. ASSUME NEW n \in 0..100, o = <<n>> PROVE Scaled(o, m) \in Nat
  <2>1. Known(o) /\ o[1] = n
    BY <1>2 DEF Known, None
  <2>2. Clamp(o[1]) = n
    BY <2>1 DEF Clamp
  <2>3. PICK k \in Nat : k = n * m
    OBVIOUS
  <2>4. RoundDiv(k, 100) \in Nat
    BY DEF RoundDiv
  <2>5. QED
    BY <2>1, <2>2, <2>3, <2>4 DEF Scaled
<1>3. QED
  BY <1>1, <1>2 DEF Percent

LEMMA ComponentsRise ==
    ASSUME NEW s \in Snapshot, NEW t \in Snapshot, Improved(s, t), Rated(s)
    PROVE  /\ Trend(s).score <= Trend(t).score /\ VolatilityVcp(s).score <= VolatilityVcp(t).score
           /\ VolumeScore(s).score <= VolumeScore(t).score
           /\ RelativeStrengthScore(s).score <= RelativeStrengthScore(t).score
           /\ PivotScore(s).score <= PivotScore(t).score
           /\ Momentum(s).score <= Momentum(t).score /\ MarketScore(t) = MarketScore(s)
           /\ Trend(s).available => Trend(t).available
           /\ VolatilityVcp(s).available => VolatilityVcp(t).available
           /\ VolumeScore(s).available => VolumeScore(t).available
           /\ RelativeStrengthScore(s).available <=> RelativeStrengthScore(t).available
           /\ PivotScore(s).available <=> PivotScore(t).available
           /\ Momentum(s).available => Momentum(t).available
<1>0. /\ s.known \subseteq t.known /\ t.known \ s.known \subseteq Rewarded
      /\ t.tests = s.tests /\ t.adx = s.adx /\ t.rsi = s.rsi
      /\ t.rs_rating = s.rs_rating /\ t.pivot_quality = s.pivot_quality
      /\ t.vcp_quality = s.vcp_quality /\ t.context_quality = s.context_quality
      /\ t.regime = s.regime
  BY DEF Improved
<1>1. Scaled(s.rs_rating, 5) \in Nat /\ Scaled(s.pivot_quality, 5) \in Nat
      /\ Scaled(s.vcp_quality, 6) \in Nat
  BY ScaledNat DEF Snapshot
<1>S. \A name : \A n \in Nat : /\ Signal(s, name, n) \in Nat /\ Signal(t, name, n) \in Nat
                              /\ Signal(s, name, n) <= Signal(t, name, n)
  BY SignalsRise
<1>2. /\ Trend(s).score <= Trend(t).score
      /\ Trend(s).available => Trend(t).available
  <2> DEFINE points(x) == Signal(x, "ema_alignment", 4) + Signal(x, "price_above_sma_50", 3)
                          + Signal(x, "price_above_sma_200", 3) + Signal(x, "sma_50_above_sma_200", 3)
                          + Signal(x, "sma_200_rising", 3) + Signal(x, "minervini_price_trend_template", 2)
                          + Signal(x, "ma_compressed", 2)
             answers(x) == x.known \cap TrendSignals # {}
  <2>3. points(s) \in Nat /\ points(t) \in Nat /\ points(s) <= points(t)
    BY <1>S
  <2>4. /\ Trend(s) = Component(answers(s), points(s), 20)
        /\ Trend(t) = Component(answers(t), points(t), 20)
    BY DEF Trend
  <2>5. answers(s) => answers(t)
    BY <1>0
  <2> HIDE DEF points, answers
  <2>6. Trend(s).score <= Trend(t).score
    BY <2>3, <2>4, <2>5 DEF Component
  <2>7. Trend(s).available => Trend(t).available
    BY <2>4, <2>5 DEF Component
  <2>8. QED
    BY <2>6, <2>7
<1>3. /\ VolatilityVcp(s).score <= VolatilityVcp(t).score
      /\ VolatilityVcp(s).available => VolatilityVcp(t).available
  <2> DEFINE points(x) == Signal(x, "atr_contracting", 3) + Signal(x, "bollinger_squeeze", 3)
                          + Signal(x, "rolling_range_compressed", 2) + Signal(x, "candle_range_contracting", 2)
                          + Signal(x, "stddev_contracting", 2) + Signal(x, "narrow_range", 2)
                          + (IF "vcp_detected" \in x.yes /\ "vcp_invalid" \notin x.yes
                             THEN Scaled(x.vcp_quality, 6) ELSE 0)
             answers(x) == x.known \cap VolatilitySignals # {} \/ Known(x.vcp_quality)
  <2>2. PICK u \in Nat, v \in Nat :
           /\ u = IF "vcp_detected" \in s.yes /\ "vcp_invalid" \notin s.yes
                THEN Scaled(s.vcp_quality, 6) ELSE 0
           /\ v = IF "vcp_detected" \in t.yes /\ "vcp_invalid" \notin t.yes
                THEN Scaled(t.vcp_quality, 6) ELSE 0
           /\ u <= v
    <3>1. "vcp_invalid" \in t.yes <=> "vcp_invalid" \in s.yes
      BY RisksStay
    <3>2. "vcp_detected" \in s.yes => "vcp_detected" \in t.yes
      BY DEF Improved
    <3>3. QED
      BY <1>0, <1>1, <3>1, <3>2
  <2>3. points(s) \in Nat /\ points(t) \in Nat /\ points(s) <= points(t)
    BY <1>S, <2>2
  <2>4. /\ VolatilityVcp(s) = Component(answers(s), points(s), 20)
        /\ VolatilityVcp(t) = Component(answers(t), points(t), 20)
    BY DEF VolatilityVcp
  <2>5. answers(s) => answers(t)
    BY <1>0
  <2> HIDE DEF points, answers
  <2>6. VolatilityVcp(s).score <= VolatilityVcp(t).score
    BY <2>3, <2>4, <2>5 DEF Component
  <2>7. VolatilityVcp(s).available => VolatilityVcp(t).available
    BY <2>4, <2>5 DEF Component
  <2>8. QED
    BY <2>6, <2>7
<1>4. /\ VolumeScore(s).score <= VolumeScore(t).score
      /\ VolumeScore(s).available => VolumeScore(t).available
  <2> DEFINE points(x) == Signal(x, "volume_dry_up", 3) + Signal(x, "volume_contracting_in_consolidation", 3)
                          + Signal(x, "accumulation_behavior", 3) + Signal(x, "up_volume_dominant", 2)
                          + Signal(x, "volume_expansion", 2) + Signal(x, "pocket_pivot_style", 2)
             answers(x) == x.known \cap VolumeSignals # {}
  <2>3. points(s) \in Nat /\ points(t) \in Nat /\ points(s) <= points(t)
    BY <1>S
  <2>4. /\ VolumeScore(s) = Component(answers(s), points(s), 15)
        /\ VolumeScore(t) = Component(answers(t), points(t), 15)
    BY DEF VolumeScore
  <2>5. answers(s) => answers(t)
    BY <1>0
  <2> HIDE DEF points, answers
  <2>6. VolumeScore(s).score <= VolumeScore(t).score
    BY <2>3, <2>4, <2>5 DEF Component
  <2>7. VolumeScore(s).available => VolumeScore(t).available
    BY <2>4, <2>5 DEF Component
  <2>8. QED
    BY <2>6, <2>7
<1>5. /\ RelativeStrengthScore(s).score <= RelativeStrengthScore(t).score
      /\ RelativeStrengthScore(s).available <=> RelativeStrengthScore(t).available
  <2>1. Known(s.rs_rating) /\ s.known \cap Horizons # {}
          <=> Known(t.rs_rating) /\ t.known \cap Horizons # {}
    BY <1>0 DEF Rated
  <2>2. QED
    BY <1>0, <1>1, <2>1 DEF RelativeStrengthScore, Component, Signal, Points, Improved
<1>6. /\ PivotScore(s).score <= PivotScore(t).score
      /\ PivotScore(s).available <=> PivotScore(t).available
  <2>1. "already_above_pivot" \in t.yes <=> "already_above_pivot" \in s.yes
    BY RisksStay
  <2>2. "breakout_level" \in t.known <=> "breakout_level" \in s.known
    BY <1>0 DEF Rewarded, SignalNames, TrendSignals, VolatilitySignals, VolumeSignals,
               RelativeSignals, Horizons, MomentumSignals, SetupSignals, Risks
  <2>3. QED
    BY <1>0, <1>1, <2>1, <2>2 DEF PivotScore, Component, Points, Improved
<1>7. /\ Momentum(s).score <= Momentum(t).score
      /\ Momentum(s).available => Momentum(t).available
  <2> DEFINE points(x) == Points(x.rsi >= 5000 /\ x.rsi <= 7200, 2) + Signal(x, "rsi_slope", 2)
                          + Points("rsi_50_reclaim" \in x.yes \/ "rsi_60_strength" \in x.yes, 1)
                          + Signal(x, "histogram_rising", 2) + Signal(x, "histogram_expanding", 1)
                          + Signal(x, "positive_directional_momentum", 1) + Points(x.adx >= 20, 1)
             answers(x) == "rsi_slope" \in x.known \/ "positive_directional_momentum" \in x.known
  <2>2. PICK u \in Nat, v \in Nat, w \in Nat, z \in Nat :
           /\ u = Points(s.rsi >= 5000 /\ s.rsi <= 7200, 2) /\ v = Points(s.adx >= 20, 1)
           /\ u = Points(t.rsi >= 5000 /\ t.rsi <= 7200, 2) /\ v = Points(t.adx >= 20, 1)
           /\ w = Points("rsi_50_reclaim" \in s.yes \/ "rsi_60_strength" \in s.yes, 1)
           /\ z = Points("rsi_50_reclaim" \in t.yes \/ "rsi_60_strength" \in t.yes, 1)
           /\ w <= z
    <3>1. s.yes \subseteq t.yes
      BY DEF Improved
    <3>2. QED
      BY <1>0, <3>1 DEF Points
  <2>3. points(s) \in Nat /\ points(t) \in Nat /\ points(s) <= points(t)
    BY <1>S, <2>2
  <2>4. /\ Momentum(s) = Component(answers(s), points(s), 10)
        /\ Momentum(t) = Component(answers(t), points(t), 10)
    BY DEF Momentum
  <2>5. answers(s) => answers(t)
    BY <1>0
  <2> HIDE DEF points, answers
  <2>6. Momentum(s).score <= Momentum(t).score
    BY <2>3, <2>4, <2>5 DEF Component
  <2>7. Momentum(s).available => Momentum(t).available
    BY <2>4, <2>5 DEF Component
  <2>8. QED
    BY <2>6, <2>7
<1>8. MarketScore(t) = MarketScore(s)
  BY <1>0 DEF MarketScore
<1>9. QED
  BY <1>2, <1>3, <1>4, <1>5, <1>6, <1>7, <1>8

LEMMA RawRises ==
    ASSUME NEW s \in Snapshot, NEW t \in Snapshot, Improved(s, t), Rated(s) PROVE Raw(s) <= Raw(t)
<1> DEFINE sum(x) == Trend(x).score + VolatilityVcp(x).score + VolumeScore(x).score
                     + RelativeStrengthScore(x).score + PivotScore(x).score
                     + Momentum(x).score + MarketScore(x).score
<1>1. sum(t) \in Int /\ sum(s) \in Int /\ sum(s) <= sum(t)
  BY ScoresAreNumbers, ComponentsRise
<1>2. Raw(t) = Clamp(sum(t)) /\ Raw(s) = Clamp(sum(s))
  BY DEF Raw
<1> HIDE DEF sum
<1>3. QED
  BY <1>1, <1>2 DEF Clamp

LEMMA PenaltyStays ==
    ASSUME NEW s \in Snapshot, NEW t \in Snapshot, Improved(s, t), Rated(s)
    PROVE  Penalty(t) = Penalty(s)
<1>1. \A risk \in Risks : risk \in t.yes <=> risk \in s.yes
  BY RisksStay
<1>2. /\ Signal(t, "price_extended", 10) = Signal(s, "price_extended", 10)
      /\ Signal(t, "expanding_volatility", 8) = Signal(s, "expanding_volatility", 8)
      /\ Signal(t, "distribution", 7) = Signal(s, "distribution", 7)
      /\ Signal(t, "resistance_too_far", 5) = Signal(s, "resistance_too_far", 5)
  BY <1>1 DEF Signal, Risks, Points
<1>3. WeakRelativeStrength(t) <=> WeakRelativeStrength(s)
  BY <1>1, ComponentsRise DEF WeakRelativeStrength, Improved, Risks
<1>4. /\ Points(RsiExtended(t), 5) = Points(RsiExtended(s), 5)
      /\ Points(WeakRelativeStrength(t), 7) = Points(WeakRelativeStrength(s), 7)
      /\ Points(~PivotScore(t).available, 5) = Points(~PivotScore(s).available, 5)
  BY <1>3, ComponentsRise DEF RsiExtended, Improved, Points
<1>5. /\ Points(t.regime = "WEAK", 6) = Points(s.regime = "WEAK", 6)
      /\ Points(t.regime = "RISK_OFF", 10) = Points(s.regime = "RISK_OFF", 10)
      /\ Points(~t.liquid, 8) = Points(~s.liquid, 8)
      /\ Points(t.insufficient, 10) = Points(s.insufficient, 10)
      /\ Points(t.stale, 10) = Points(s.stale, 10)
  BY DEF Improved
<1>6. QED
  BY <1>2, <1>4, <1>5 DEF Penalty

LEMMA ConfluenceRises ==
    ASSUME NEW s \in Snapshot, NEW t \in Snapshot, Improved(s, t), Rated(s)
    PROVE  /\ Cardinality(Available(s)) \in Nat /\ Cardinality(Available(t)) \in Nat
           /\ Cardinality(Available(s)) <= Cardinality(Available(t))
           /\ Cardinality(Confluent(s)) \in Nat /\ Cardinality(Confluent(t)) \in Nat
           /\ Cardinality(Confluent(s)) <= Cardinality(Confluent(t))
<1>1. \A i \in 1..7 : /\ Components(s)[i].available => Components(t)[i].available
                      /\ Components(t)[i].maximum = Components(s)[i].maximum
                      /\ Components(s)[i].score <= Components(t)[i].score
                      /\ Components(t)[i].score \in Int /\ Components(s)[i].score \in Int
                      /\ Components(s)[i].maximum \in Int
  <2>1. \A x \in {s, t} :
           /\ Trend(x).maximum = 20 /\ VolatilityVcp(x).maximum = 20 /\ VolumeScore(x).maximum = 15
           /\ RelativeStrengthScore(x).maximum = 15 /\ PivotScore(x).maximum = 10
           /\ Momentum(x).maximum = 10 /\ MarketScore(x).maximum = 10
    BY DEF Trend, VolatilityVcp, VolumeScore, RelativeStrengthScore, PivotScore, Momentum,
           MarketScore, Component
  <2> SUFFICES ASSUME NEW i \in 1..7
               PROVE  /\ Components(s)[i].available => Components(t)[i].available
                      /\ Components(t)[i].maximum = Components(s)[i].maximum
                      /\ Components(s)[i].score <= Components(t)[i].score
                      /\ Components(t)[i].score \in Int /\ Components(s)[i].score \in Int
                      /\ Components(s)[i].maximum \in Int
    OBVIOUS
  <2>2. i = 1 \/ i = 2 \/ i = 3 \/ i = 4 \/ i = 5 \/ i = 6 \/ i = 7
    OBVIOUS
  <2>3. QED
    BY <2>1, <2>2, ScoresAreNumbers, ComponentsRise DEF Components
<1>2. Available(s) \subseteq Available(t) /\ Confluent(s) \subseteq Confluent(t)
  BY <1>1 DEF Available, Confluent
<1>3. IsFiniteSet(Available(t)) /\ IsFiniteSet(Confluent(t))
  <2>1. IsFiniteSet(1..7)
    <3>1. 1 \in Int /\ 7 \in Int
      OBVIOUS
    <3>2. QED
      BY <3>1, FS_Interval, Zenon
  <2>2. Available(t) \subseteq 1..7 /\ Confluent(t) \subseteq Available(t)
    BY Zenon DEF Available, Confluent
  <2>3. IsFiniteSet(Available(t))
    BY <2>1, <2>2, FS_Subset
  <2>4. QED
    BY <2>2, <2>3, FS_Subset
<1>4. QED
  BY <1>2, <1>3, FS_Subset, FS_CardinalityType

LEMMA CapRises ==
    ASSUME NEW s \in Snapshot, NEW t \in Snapshot, Improved(s, t), Rated(s) PROVE Cap(s) <= Cap(t)
<1>1. /\ RelativeStrengthScore(s).available <=> RelativeStrengthScore(t).available
      /\ PivotScore(s).available <=> PivotScore(t).available
  BY ComponentsRise
<1>2. StrongConfluence(s) => StrongConfluence(t)
  BY ConfluenceRises DEF StrongConfluence
<1>3. HighQualityConfluence(s) => HighQualityConfluence(t)
  BY <1>1, ConfluenceRises DEF HighQualityConfluence
<1>4. \A risk \in Risks : risk \in t.yes <=> risk \in s.yes
  BY RisksStay
<1>5. CappedAt69(t) => CappedAt69(s)
  <2>1. t.yes \cap {"expanding_volatility", "price_extended", "resistance_too_far"} # {}
          => s.yes \cap {"expanding_volatility", "price_extended", "resistance_too_far"} # {}
    BY <1>4 DEF Risks
  <2>2. QED
    BY <1>1, <1>2, <2>1 DEF CappedAt69, Improved
<1>6. CappedAt84(t) => CappedAt84(s)
  BY <1>3, <1>4 DEF CappedAt84, RsiExtended, Improved, Risks
<1>7. t.quality = s.quality /\ t.regime = s.regime
  BY DEF Improved
<1>8. QED
  BY <1>5, <1>6, <1>7 DEF Cap

(* A reading that turns good never lowers the score, whatever else the       *)
(* snapshot holds (prebreakout_scoring.py score): what it adds to a component*)
(* is never taken back by a penalty or a cap.                                *)
THEOREM SignalsNeverHurt == ScoreSpec => SignalNeverHurts
<1>1. ScoreTypeOK /\ Rated(snapshot) /\ ScoreTypeOK' /\ [ScoreNext]_scoreVars
        => [SignalGained => Score(snapshot') >= Score(snapshot)]_scoreVars
  <2> SUFFICES ASSUME snapshot \in Snapshot, snapshot' \in Snapshot, Rated(snapshot), SignalGained
               PROVE  Score(snapshot') >= Score(snapshot)
    BY DEF ScoreTypeOK
  <2>1. Improved(snapshot, snapshot')
    BY GainImproves
  <2>2. Cap(snapshot) <= Cap(snapshot') /\ Cap(snapshot') \in Nat /\ Cap(snapshot) \in Nat
    BY <2>1, CapRises, CapType
  <2>3. Penalized(snapshot) <= Penalized(snapshot')
        /\ Penalized(snapshot') \in Nat /\ Penalized(snapshot) \in Nat
    <3>1. /\ Raw(snapshot) <= Raw(snapshot') /\ Penalty(snapshot) = Penalty(snapshot')
          /\ Raw(snapshot') \in Int /\ Raw(snapshot) \in Int /\ Penalty(snapshot) \in Int
      BY <2>1, RawRises, PenaltyStays, PenalizedType, PenaltyType
    <3>2. QED
      BY <3>1, PenalizedType DEF Penalized, Clamp
  <2>4. QED
    BY <2>2, <2>3 DEF Score
<1>2. ScoreInit => Rated(snapshot)
  BY RatedInit
<1>3. ScoreTypeOK /\ Rated(snapshot) /\ [ScoreNext]_scoreVars => Rated(snapshot)'
  BY RatedStep
<1>4. QED
  BY <1>1, <1>2, <1>3, ScoreTypeInit, ScoreTypeStep, PTL DEF ScoreSpec, SignalNeverHurts
=============================================================================
