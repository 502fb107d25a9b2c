----------------------------- MODULE ScoreWalk -----------------------------
(* The pre-breakout score from one scan to the next: the snapshot of a stock *)
(* is rebuilt with one reading changed.  A reading turns good, a risk        *)
(* appears, or an extractor stops answering.                                 *)
EXTENDS PreBreakoutScore

CONSTANT MaxChanges   \* bound: the readings that change along one behaviour
ASSUME ChangesAssumption == MaxChanges \in Nat

VARIABLES snapshot, changes
scoreVars == <<snapshot, changes>>

(* A leader in a strong market with everything in its favour, and a stock    *)
(* about which the extractors can say nothing good.                          *)
FullSetup ==
    [ yes |-> SignalNames \ (Risks \cup {"vcp_invalid", "already_above_pivot"}),
      known |-> SignalNames \cup {"breakout_level"},
      rs_rating |-> <<95>>, pivot_quality |-> <<90>>, vcp_quality |-> <<85>>,
      context_quality |-> <<100>>, tests |-> 3, rsi |-> 6200, adx |-> 25,
      regime |-> "STRONG", quality |-> "FRESH",
      liquid |-> TRUE, stale |-> FALSE, insufficient |-> FALSE ]
BareSetup ==
    [ yes |-> {"ema_alignment", "price_above_sma_50", "price_above_sma_200",
               "sma_50_above_sma_200", "sma_200_rising", "bollinger_squeeze"},
      known |-> SignalNames \cup {"breakout_level"},
      rs_rating |-> <<52>>, pivot_quality |-> <<65>>, vcp_quality |-> <<35>>,
      context_quality |-> <<67>>, tests |-> 1, rsi |-> 4800, adx |-> 12,
      regime |-> "NEUTRAL", quality |-> "FRESH",
      liquid |-> TRUE, stale |-> FALSE, insufficient |-> FALSE ]
ScoreInit == snapshot \in {FullSetup, BareSetup} /\ changes = 0

Becomes(s) ==
    /\ changes < MaxChanges
    /\ snapshot' = s
    /\ changes' = changes + 1

-----------------------------------------------------------------------------
(* A signal the score rewards turns True.                                    *)
Rewarded == SignalNames \ (Risks \cup {"vcp_invalid", "already_above_pivot"})
SignalGained ==
    \E name \in Rewarded \ snapshot.yes :
        Becomes([snapshot EXCEPT !.yes = @ \cup {name}, !.known = @ \cup {name}])

(* A risk appears: a flag of the scorer, an overheated RSI, a worse market,   *)
(* thin trading, or a worse daily gate.                                      *)
RiskFlagged == \E risk \in Risks \ snapshot.yes : Becomes([snapshot EXCEPT !.yes = @ \cup {risk}])
Overheated == snapshot.rsi < 7500 /\ Becomes([snapshot EXCEPT !.rsi = 7600])
Worse == << "STRONG", "HEALTHY", "NEUTRAL", "WEAK", "RISK_OFF" >>
MarketWorsens ==
    \E i \in 1..4 : snapshot.regime = Worse[i] /\ Becomes([snapshot EXCEPT !.regime = Worse[i + 1]])
LiquidityLost == snapshot.liquid /\ Becomes([snapshot EXCEPT !.liquid = FALSE])
HistoryShort == ~snapshot.insufficient /\ Becomes([snapshot EXCEPT !.insufficient = TRUE])
(* The gate reports a stale stock in its state and in its flags alike.       *)
GateWorsens ==
    \/ snapshot.quality = "FRESH" /\ Becomes([snapshot EXCEPT !.quality = "PARTIAL"])
    \/ /\ snapshot.quality \in {"FRESH", "PARTIAL"}
       /\ Becomes([snapshot EXCEPT !.quality = "STALE", !.stale = TRUE])
    \/ snapshot.quality # "INVALID" /\ Becomes([snapshot EXCEPT !.quality = "INVALID"])
RiskAppears ==
    \/ RiskFlagged \/ Overheated \/ MarketWorsens
    \/ LiquidityLost \/ HistoryShort \/ GateWorsens

(* An extractor has no answer: its features are None, its numbers unknown.   *)
PivotLost ==
    /\ Known(snapshot.pivot_quality)
    /\ Becomes([snapshot EXCEPT !.pivot_quality = None, !.tests = 0,
                   !.known = @ \ {"breakout_level"},
                   !.yes = @ \ {"near_pivot", "already_above_pivot", "price_extended",
                                "resistance_too_far"}])
RelativeStrengthLost ==
    /\ Known(snapshot.rs_rating)
    /\ Becomes([snapshot EXCEPT !.rs_rating = None, !.known = @ \ RelativeSignals,
                   !.yes = @ \ (RelativeSignals \cup {"rs_weakening"})])
MarketLost ==
    /\ snapshot.regime # "NONE"
    /\ Becomes([snapshot EXCEPT !.regime = "NONE", !.context_quality = None])
SignalsLost ==
    \E group \in {TrendSignals, VolatilitySignals, VolumeSignals, MomentumSignals} :
        /\ snapshot.known \cap group # {}
        /\ Becomes([snapshot EXCEPT !.known = @ \ group, !.yes = @ \ group])
AnswerLost == PivotLost \/ RelativeStrengthLost \/ MarketLost \/ SignalsLost

ScoreNext == SignalGained \/ RiskAppears \/ AnswerLost
ScoreSpec == ScoreInit /\ [][ScoreNext]_scoreVars

-----------------------------------------------------------------------------
ScoreTypeOK == snapshot \in Snapshot /\ changes \in 0..MaxChanges

(* The top class is only given to a fresh, liquid stock of known pivot and   *)
(* relative strength with none of the scored risks but a weakening line,     *)
(* in a market that is not weak, five of its components strong: no sum of    *)
(* points outweighs a cap.                                                   *)
HighQualityIsClean ==
    Classification(snapshot) = "HIGH_QUALITY" =>
        /\ snapshot.quality = "FRESH" /\ snapshot.liquid
        /\ ~snapshot.stale /\ ~snapshot.insufficient
        /\ snapshot.yes \cap Risks \subseteq {"rs_weakening"}
        /\ snapshot.rsi < 7500
        /\ snapshot.regime \notin {"WEAK", "RISK_OFF"}
        /\ Known(snapshot.pivot_quality) /\ Known(snapshot.rs_rating)
        /\ Cardinality(Confluent(snapshot)) >= 5

(* A risk never raises the score, whatever else the snapshot holds.          *)
RiskNeverHelps == [][RiskAppears => Score(snapshot') <= Score(snapshot)]_scoreVars

(* A reading that turns good never lowers the score.                         *)
SignalNeverHurts == [][SignalGained => Score(snapshot') >= Score(snapshot)]_scoreVars
=============================================================================
