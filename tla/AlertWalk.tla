----------------------------- MODULE AlertWalk -----------------------------
(* One stock between the scans of a few sessions: its price and its volume   *)
(* move, sessions close and carry its averages along, and the decision       *)
(* engine says after each move whether it alerts.                            *)
EXTENDS StrategyEngine

CONSTANTS Shares,          \* stocks the walk can start from, with their year_low
          Percents,        \* a price move, in percent
          Trades,          \* a volume traded, in percent of the average
          RsiReadings,     \* the RSI the candles of a closed session can give
          MaxMoves         \* bound: moves along one behaviour

StockRecord ==
    [ price : Nat, previous : Nat, open : Nat, high : Nat, dma50 : Nat, dma150 : Nat,
      dma200 : Nat, year_high : Nat, year_low : Nat, volume : Nat, average : Nat,
      rs : Nat, rsi : Nat, cap : Nat, pe : Int, roe : Int, roce : Int, debt : Int,
      sales : Int, profit : Int, earnings : Int, cash : BOOLEAN, holding : Int,
      sector : Int ]

(* Nothing but the company's market cap is ever known of the fundamentals.   *)
OnlyCapKnown(d) ==
    /\ ~d.cash
    /\ \A n \in {d.pe, d.roe, d.roce, d.debt, d.sales, d.profit, d.earnings, d.holding,
                 d.sector} : n = 0

(* 50..99 by the place of the price in the 52-week range.                    *)
PlaceInRange(d, price) ==
    IF d.year_low <= 0 \/ d.year_high <= d.year_low THEN 0
    ELSE LET place == 50 + (50 * (price - d.year_low)) \div (d.year_high - d.year_low)
         IN  IF place > 99 THEN 99 ELSE IF place < 0 THEN 0 ELSE place

(* A stock with a quote: its price is positive, no higher than the day's     *)
(* high, and its relative strength is the price's place in the range.        *)
Quoted(d) ==
    /\ d \in StockRecord /\ OnlyCapKnown(d)
    /\ d.price > 0 /\ d.high >= d.price
    /\ d.rs = PlaceInRange(d, d.price)

ASSUME SharesAssumption == \A d \in Shares : Quoted(d)
ASSUME MovesAssumption ==
    /\ Percents \subseteq Int /\ Trades \subseteq Nat /\ RsiReadings \subseteq Nat
    /\ MaxMoves \in Nat

VARIABLES stock, moves
alertVars == <<stock, moves>>

AlertInit == stock \in Shares /\ moves = 0

Later(mean, price, span) == mean + (2 * (price - mean)) \div (span + 1)
Greater(m, n) == IF m > n THEN m ELSE n

Moved(d) == moves < MaxMoves /\ stock' = d /\ moves' = moves + 1

(* The live quote moves; the averages and the range are those of the candles.*)
PriceMoves ==
    \E percent \in Percents :
        LET price == (stock.price * (100 + percent)) \div 100
        IN  price > 0 /\ Moved([stock EXCEPT !.price = price, !.high = Greater(@, price),
                                               !.rs = PlaceInRange(stock, price)])
Traded ==
    \E percent \in Trades : Moved([stock EXCEPT !.volume = @ + (percent * stock.average) \div 100])

(* The session closes into the candles and the next one opens.               *)
DayCloses ==
    \E reading \in RsiReadings :
        LET price == stock.price
            top == Greater(stock.year_high, stock.high)
        IN  Moved([stock EXCEPT
                !.previous = price, !.open = price, !.high = price, !.volume = 0,
                !.year_high = top, !.rs = PlaceInRange([stock EXCEPT !.year_high = top], price),
                !.dma50 = Later(@, price, 50), !.dma150 = Later(@, price, 100),
                !.dma200 = Later(@, price, 200), !.rsi = reading])

AlertNext == PriceMoves \/ Traded \/ DayCloses
AlertSpec == AlertInit /\ [][AlertNext]_alertVars

-----------------------------------------------------------------------------
AlertTypeOK == Quoted(stock) /\ moves \in 0..MaxMoves

(* An alert has its evidence: eight weights and dozens of points cannot add  *)
(* up to the threshold for a stock under its 50 or 200 session average, far  *)
(* from its high, without a volume a fifth above the average, or with a      *)
(* reward under twice the risk.                                              *)
AlertEvidence ==
    ShouldAlert(stock) =>
        /\ AboveMean(stock, stock.dma50) /\ AboveMean(stock, stock.dma200)
        /\ NearYearHigh(stock) /\ Surge(stock, 120) /\ Liquid(stock)
        /\ RiskReward(stock) >= 200

(* Knowing a company's market cap alone makes the three fundamental          *)
(* strategies count: such a stock never alerts and is never a candidate.     *)
CapNeverAlerts ==
    stock.cap # 0 => Status(stock) \in {"Watchlist", "Ignore"}

(* Without fundamentals the score decides alone: neither the number of       *)
(* strategies passed nor the reward of the best one ever holds an alert of a *)
(* liquid stock back, whichever strategy comes out best.                     *)
ScoreDecides ==
    ~HasFundamentals(stock) /\ Overall(stock) >= AlertThreshold /\ Liquid(stock)
    /\ stock.price >= 200
        => ShouldAlert(stock)

(* A rise of the live price never lowers the score.                          *)
ScoreFollowsPrice ==
    [][PriceMoves /\ stock'.price >= stock.price => Overall(stock') >= Overall(stock)]_alertVars
=============================================================================
