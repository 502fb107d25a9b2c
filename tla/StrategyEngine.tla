--------------------------- MODULE StrategyEngine ---------------------------
(* The decision engine (apps/scanner/engine/decision_engine.py): eight       *)
(* strategies score one stock, their weighted mean decides whether the stock *)
(* alerts.                                                                   *)
(*                                                                           *)
(* A stock d is a record: price, previous, open, high, dma50, dma150, dma200,*)
(* year_high in paise (0 when missing); volume, average; rs (the position in *)
(* the 52-week range, 0..99); rsi in hundredths (0 when missing); and the    *)
(* fundamentals cap, pe, roe, roce, debt (in hundredths), sales, profit,     *)
(* earnings, cash, holding, sector, 0 or FALSE when missing.                 *)
EXTENDS Figures, FiniteSets

CONSTANTS AlertThreshold,      \* 90
          MinPassed,           \* 3 strategies
          MinRiskReward        \* 200 hundredths

Liquid(d) ==
    d.average > 0 =>
        10 * d.volume >= (IF 6 * d.average > 10 THEN 6 * d.average ELSE 10)
NearYearHighMutant(d) ==
    d.year_high > 0 /\ d.price <= d.year_high /\ 100 * (d.year_high - d.price) <= 25 * d.year_high
NearYearHigh(d) == d.year_high > 0 /\ 100 * (d.year_high - d.price) <= 25 * d.year_high
AboveMean(d, mean) == mean > 0 /\ d.price > mean
Surge(d, percent) ==
    IF d.average <= 0 THEN 100 >= percent ELSE 100 * d.volume >= percent * d.average
Unfallen(d) == d.price >= d.previous

HasFundamentalsMutant(d) ==
    \/ d.cash
    \/ \E n \in {d.pe, d.roe, d.roce, d.debt, d.sales, d.profit, d.earnings,
                 d.holding, d.sector} : n # 0
HasFundamentals(d) ==
    \/ d.cash
    \/ \E n \in {d.cap, d.pe, d.roe, d.roce, d.debt, d.sales, d.profit, d.earnings,
                 d.holding, d.sector} : n # 0

-----------------------------------------------------------------------------
(* The strategies.  The points of each add up to 100, so the weighted score  *)
(* is their sum; reward holds the multiples of the risk, in tenths.          *)

PercentOf(d, percent) == RoundDiv(d.price * percent, 100)
StopUnderMean(d, fallback, percent) ==
    LET mean == IF d.dma50 # 0 THEN 100 * d.dma50 ELSE d.price * fallback
    IN  RoundDiv(IF mean < d.price * percent THEN mean ELSE d.price * percent, 100)
Inactive(name) ==
    [name |-> name, weight |-> 0, score |-> 0, passed |-> FALSE, stop |-> 0, reward |-> <<>>]

Minervini(d) ==
    LET trend == /\ AboveMean(d, d.dma50) /\ AboveMean(d, d.dma150) /\ AboveMean(d, d.dma200)
                 /\ d.dma150 > d.dma200
    IN  [ name   |-> "Minervini", weight |-> 25,
          score  |-> Points(AboveMean(d, d.dma50), 10) + Points(AboveMean(d, d.dma150), 15)
                     + Points(AboveMean(d, d.dma200), 15)
                     + Points(d.dma150 > 0 /\ d.dma200 > 0 /\ d.dma150 > d.dma200, 10)
                     + Points(NearYearHigh(d), 15) + Points(d.rs >= 80, 15)
                     + Points(Surge(d, 120), 20),
          passed |-> trend /\ NearYearHigh(d) /\ d.rs >= 80,
          stop   |-> StopUnderMean(d, 97, 96), reward |-> <<10, 18, 26>> ]

CanSlim(d) ==
    IF ~HasFundamentals(d) THEN Inactive("CANSLIM") ELSE
        [ name   |-> "CANSLIM", weight |-> 20,
          score  |-> Points(d.sales >= 25, 20) + Points(d.profit >= 25, 20) + Points(d.rs >= 80, 20)
                     + Points(AboveMean(d, d.dma50), 10) + Points(AboveMean(d, d.dma200), 10)
                     + Points(Surge(d, 140), 10) + Points(d.sector >= 70 \/ d.sector = 0, 10),
          passed |-> /\ d.sales >= 25 /\ d.profit >= 25 /\ d.rs >= 80
                     /\ AboveMean(d, d.dma50) /\ AboveMean(d, d.dma200),
          stop   |-> StopUnderMean(d, 97, 95), reward |-> <<10, 20, 30>> ]

Darvas(d) ==
    [ name   |-> "Darvas", weight |-> 15,
      score  |-> Points(d.open > 0 => d.price >= d.open, 10)
                 + Points(d.high > 0 => 100 * d.price >= 98 * d.high, 15)
                 + Points(NearYearHigh(d), 20) + Points(Surge(d, 110), 15)
                 + Points(AboveMean(d, d.dma50), 15) + Points(d.rs >= 70, 10)
                 + Points(Unfallen(d), 15),
      passed |-> NearYearHigh(d) /\ Surge(d, 110) /\ AboveMean(d, d.dma50) /\ Unfallen(d),
      stop   |-> StopUnderMean(d, 96, 94), reward |-> <<9, 16, 24>> ]

Lynch(d) ==
    LET worth == d.pe > 0 /\ d.pe <= 30
        growth == d.profit >= 15 \/ d.sales >= 15
    IN  IF ~HasFundamentals(d) THEN Inactive("Lynch") ELSE
        [ name   |-> "Lynch", weight |-> 10,
          score  |-> Points(worth, 20) + Points(d.roe >= 15, 25) + Points(growth, 25)
                     + Points(d.debt <= 150, 15)
                     + Points(AboveMean(d, d.dma50) \/ Unfallen(d), 15),
          passed |-> worth /\ d.roe >= 15 /\ growth /\ d.debt <= 150,
          stop   |-> PercentOf(d, 95), reward |-> <<8, 14, 20>> ]

Buffett(d) ==
    IF ~HasFundamentals(d) THEN Inactive("Buffett") ELSE
        [ name   |-> "Buffett", weight |-> 10,
          score  |-> Points(d.cash, 25) + Points(d.roe >= 15, 20) + Points(d.roce >= 15, 20)
                     + Points(d.debt <= 100, 15) + Points(d.earnings >= 10 \/ d.profit >= 10, 10)
                     + Points(d.pe > 0 /\ d.pe <= 35, 10),
          passed |-> d.cash /\ d.roe >= 15 /\ d.roce >= 15 /\ d.debt <= 100,
          stop   |-> PercentOf(d, 93), reward |-> <<7, 12, 18>> ]

Donchian(d) ==
    LET breakout == d.price >= d.high /\ 100 * d.price >= 98 * d.year_high
        trend == AboveMean(d, d.dma50) \/ AboveMean(d, d.dma200)
    IN  [ name   |-> "Donchian", weight |-> 10,
          score  |-> Points(breakout, 40) + Points(Surge(d, 125), 30) + Points(trend, 20)
                     + Points(Unfallen(d), 10),
          passed |-> breakout /\ Surge(d, 125) /\ trend,
          stop   |-> PercentOf(d, 94), reward |-> <<10, 18, 28>> ]

Crossover(d) ==
    LET bullish == d.dma200 > 0 /\ d.dma50 > d.dma200 /\ AboveMean(d, d.dma50)
    IN  [ name   |-> "EMA", weight |-> 5,
          score  |-> Points(bullish, 60) + Points(Unfallen(d), 20) + Points(Surge(d, 100), 20),
          passed |-> bullish,
          stop   |-> PercentOf(d, 95), reward |-> <<8, 15, 21>> ]

RsiStrategy(d) ==
    LET bullish == IF d.rsi > 0 THEN d.rsi >= 5000 /\ d.rsi <= 7000
                   ELSE Unfallen(d) /\ Surge(d, 100)
    IN  [ name   |-> "RSI", weight |-> 5,
          score  |-> Points(bullish, 70) + Points(Unfallen(d), 15) + Points(Surge(d, 100), 15),
          passed |-> bullish,
          stop   |-> PercentOf(d, 96), reward |-> <<8, 13, 19>> ]

Strategies(d) == << Minervini(d), CanSlim(d), Darvas(d), Lynch(d), Buffett(d), Donchian(d),
                    Crossover(d), RsiStrategy(d) >>
Places == 1..8

-----------------------------------------------------------------------------
(* The decision.                                                             *)

Sum8(v) == v[1] + v[2] + v[3] + v[4] + v[5] + v[6] + v[7] + v[8]
Overall(d) ==
    LET r == Strategies(d)
    IN  RoundDiv(Sum8([i \in Places |-> r[i].score * r[i].weight]),
                 Sum8([i \in Places |-> r[i].weight]))
Passed(d) == {i \in Places : Strategies(d)[i].weight > 0 /\ Strategies(d)[i].passed}

(* max(applicable, key=(score, weight)): the first of the best.              *)
BestMutant(d) ==
    LET r == Strategies(d)
        best == {i \in Places : r[i].weight > 0
                     /\ \A j \in Places : r[j].weight > 0 => r[j].score <= r[i].score}
    IN  r[CHOOSE i \in best : \A j \in best : j <= i]
Best(d) ==
    LET r == Strategies(d)
        better(i, j) == \/ r[i].score > r[j].score
                        \/ r[i].score = r[j].score /\ r[i].weight > r[j].weight
        best == {i \in Places : r[i].weight > 0 /\ \A j \in Places : ~better(j, i)}
    IN  r[CHOOSE i \in best : \A j \in best : i <= j]

(* The stop and the targets are rounded to the paisa, the ratio to a         *)
(* hundredth; the last target is the highest.                                *)
RewardRatio(price, risk, multiple) ==
    RoundDiv(100 * (RoundDiv(10 * price + risk * multiple, 10) - price), risk)
RewardOf(best, price) ==
    IF best.stop = 0 \/ best.stop >= price THEN 0
    ELSE RewardRatio(price, price - best.stop, best.reward[Len(best.reward)])
RiskReward(d) == RewardOf(Best(d), d.price)

ShouldAlertMutant(d) ==
    /\ Overall(d) >= 80
    /\ Cardinality(Passed(d)) >= MinPassed
    /\ RiskReward(d) >= MinRiskReward
    /\ Liquid(d)
ShouldAlert(d) ==
    /\ Overall(d) >= AlertThreshold
    /\ Cardinality(Passed(d)) >= MinPassed
    /\ RiskReward(d) >= MinRiskReward
    /\ Liquid(d)

Status(d) ==
    IF ShouldAlert(d) THEN "Entry Zone Active"
    ELSE IF Overall(d) >= 80 THEN "Strong Candidate"
    ELSE IF Overall(d) >= 70 THEN "Watchlist"
    ELSE "Ignore"
=============================================================================
