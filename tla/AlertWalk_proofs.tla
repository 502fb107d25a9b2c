-------------------------- MODULE AlertWalk_proofs --------------------------
(* Proofs about the alert of the decision engine: what it shows of a stock,  *)
(* what holds it back and what does not, for every stock with a quote,       *)
(* whatever its moves.                                                       *)
EXTENDS AlertWalk, FiniteSetTheorems, TLAPS

-----------------------------------------------------------------------------
(* A stock with a quote keeps one.                                           *)

(* Division by a positive number keeps an order.                             *)
LEMMA DivMonotone ==
    ASSUME NEW a \in Int, NEW b \in Int, NEW n \in Nat, n > 0, a <= b
    PROVE  a \div n \in Int /\ b \div n \in Int /\ a \div n <= b \div n
<1> DEFINE q == a \div n
           r == b \div n
<1>1. q \in Int /\ r \in Int
  OBVIOUS
<1>2. n * q <= a /\ b < n * (r + 1)
  OBVIOUS
<1>3. n * q < n * (r + 1)
  <2>1. n * q \in Int /\ n * (r + 1) \in Int
    BY <1>1
  <2> HIDE DEF q, r
  <2>2. QED
    BY <1>2, <2>1
<1> HIDE DEF q, r
<1>4. q < r + 1
  <2>1. SUFFICES ASSUME q >= r + 1 PROVE FALSE
    BY <1>1
  <2>2. PICK k \in Nat : q = (r + 1) + k
    BY <1>1, <2>1
  <2>3. n * q = n * (r + 1) + n * k /\ n * k >= 0
    BY <1>1, <2>2
  <2>4. QED
    BY <1>1, <1>3, <2>3
<1>5. q <= r
  BY <1>1, <1>4
<1>6. QED
  BY <1>1, <1>5 DEF q, r

(* The place in the range grows with the price.                              *)
LEMMA PlaceGrows ==
    ASSUME NEW d, d.year_low \in Nat, d.year_high \in Nat,
           NEW p \in Nat, NEW q \in Nat, p <= q
    PROVE  /\ PlaceInRange(d, p) \in 0..99 /\ PlaceInRange(d, q) \in 0..99
           /\ PlaceInRange(d, p) <= PlaceInRange(d, q)
<1>1. CASE d.year_low <= 0 \/ d.year_high <= d.year_low
  BY <1>1 DEF PlaceInRange
<1>2. CASE ~(d.year_low <= 0 \/ d.year_high <= d.year_low)
  <2>1. PICK n \in Nat : n = d.year_high - d.year_low /\ n > 0
    BY <1>2
  <2>2. PICK a \in Int, b \in Int :
          a = 50 * (p - d.year_low) /\ b = 50 * (q - d.year_low) /\ a <= b
    OBVIOUS
  <2>3. PICK i \in Int, j \in Int : i = a \div n /\ j = b \div n /\ i <= j
    BY <2>1, <2>2, DivMonotone
  <2>4. PlaceInRange(d, p) = IF 50 + i > 99 THEN 99 ELSE IF 50 + i < 0 THEN 0 ELSE 50 + i
    BY <1>2, <2>1, <2>2, <2>3 DEF PlaceInRange
  <2>5. PlaceInRange(d, q) = IF 50 + j > 99 THEN 99 ELSE IF 50 + j < 0 THEN 0 ELSE 50 + j
    BY <1>2, <2>1, <2>2, <2>3 DEF PlaceInRange
  <2>6. QED
    BY <2>3, <2>4, <2>5
<1>3. QED
  BY <1>1, <1>2

LEMMA LaterType ==
    ASSUME NEW m \in Nat, NEW p \in Nat, NEW n \in {50, 100, 200} PROVE Later(m, p, n) \in Nat
<1>1. CASE n = 50
  BY <1>1 DEF Later
<1>2. CASE n = 100
  BY <1>2 DEF Later
<1>3. CASE n = 200
  BY <1>3 DEF Later
<1>4. QED
  BY <1>1, <1>2, <1>3

LEMMA AlertTypeInit == AlertInit => AlertTypeOK
  BY SharesAssumption, MovesAssumption DEF AlertInit, AlertTypeOK

LEMMA AlertTypeStep == AlertTypeOK /\ [AlertNext]_alertVars => AlertTypeOK'
<1> SUFFICES ASSUME AlertTypeOK, [AlertNext]_alertVars PROVE AlertTypeOK'
  OBVIOUS
<1>0. stock \in StockRecord /\ OnlyCapKnown(stock) /\ stock.price > 0 /\ stock.high >= stock.price
  BY DEF AlertTypeOK, Quoted
<1>M. ASSUME NEW d, Quoted(d), Moved(d) PROVE AlertTypeOK'
  BY <1>M, MovesAssumption DEF Moved, AlertTypeOK
<1>1. CASE PriceMoves
  <2>1. PICK percent \in Percents :
           LET price == (stock.price * (100 + percent)) \div 100
           IN  price > 0 /\ Moved([stock EXCEPT !.price = price, !.high = Greater(@, price),
                                                  !.rs = PlaceInRange(stock, price)])
    BY <1>1 DEF PriceMoves
  <2>2. percent \in Int /\ stock.price \in Int
    BY <1>0, MovesAssumption DEF StockRecord
  <2>3. stock.price * (100 + percent) \in Int
    BY <2>2
  <2> DEFINE price == (stock.price * (100 + percent)) \div 100
  <2>4. price \in Int
    BY <2>3
  <2> DEFINE d == [stock EXCEPT !.price = price, !.high = Greater(@, price),
                                !.rs = PlaceInRange(stock, price)]
  <2>5. price > 0 /\ Moved(d)
    BY <2>1, <2>4
  <2>6. PlaceInRange(stock, price) \in 0..99
    BY <1>0, <2>4, <2>5, PlaceGrows DEF StockRecord
  <2>7. d \in StockRecord
    <3>1. price \in Nat /\ Greater(stock.high, price) \in Nat /\ PlaceInRange(stock, price) \in Nat
      BY <1>0, <2>4, <2>5, <2>6 DEF StockRecord, Greater
    <3>2. PICK h \in Nat, rs \in Nat : h = Greater(stock.high, price) /\ rs = PlaceInRange(stock, price)
      BY <3>1
    <3>3. [stock EXCEPT !.price = price, !.high = h, !.rs = rs] \in StockRecord
      BY <1>0, <3>1 DEF StockRecord
    <3>4. QED
      BY <3>2, <3>3
  <2>8. /\ d.price = price /\ d.high = Greater(stock.high, price) /\ d.rs = PlaceInRange(stock, price)
        /\ d.year_low = stock.year_low /\ d.year_high = stock.year_high
        /\ d.cash = stock.cash /\ d.pe = stock.pe /\ d.roe = stock.roe /\ d.roce = stock.roce
        /\ d.debt = stock.debt /\ d.sales = stock.sales /\ d.profit = stock.profit
        /\ d.earnings = stock.earnings /\ d.holding = stock.holding /\ d.sector = stock.sector
    BY <1>0 DEF StockRecord
  <2> HIDE DEF d
  <2>9. OnlyCapKnown(d)
    BY <1>0, <2>8 DEF OnlyCapKnown
  <2>10. PlaceInRange(d, price) = PlaceInRange(stock, price)
    BY <2>8 DEF PlaceInRange
  <2>11. d.high >= d.price
    BY <1>0, <2>4, <2>8 DEF Greater, StockRecord
  <2>12. Quoted(d)
    BY <2>5, <2>7, <2>8, <2>9, <2>10, <2>11 DEF Quoted
  <2>13. QED
    BY <1>M, <2>5, <2>12
<1>2. CASE Traded
  <2>1. PICK percent \in Trades : Moved([stock EXCEPT !.volume = @ + (percent * stock.average) \div 100])
    BY <1>2 DEF Traded
  <2>2. percent \in Nat /\ stock.average \in Nat
    BY <1>0, MovesAssumption DEF StockRecord
  <2>3. PICK n \in Nat : n = percent * stock.average
    BY <2>2
  <2>4. PICK v \in Nat : v = stock.volume + (percent * stock.average) \div 100
    BY <1>0, <2>3 DEF StockRecord
  <2> DEFINE d == [stock EXCEPT !.volume = v]
  <2>5. Moved(d)
    BY <2>1, <2>4
  <2>6. d \in StockRecord
    BY <1>0, <2>4 DEF StockRecord
  <2>7. /\ d.price = stock.price /\ d.high = stock.high /\ d.rs = stock.rs
        /\ d.year_low = stock.year_low /\ d.year_high = stock.year_high
        /\ d.cash = stock.cash /\ d.pe = stock.pe /\ d.roe = stock.roe /\ d.roce = stock.roce
        /\ d.debt = stock.debt /\ d.sales = stock.sales /\ d.profit = stock.profit
        /\ d.earnings = stock.earnings /\ d.holding = stock.holding /\ d.sector = stock.sector
    BY <1>0 DEF StockRecord
  <2> HIDE DEF d
  <2>8. OnlyCapKnown(d) /\ PlaceInRange(d, d.price) = PlaceInRange(stock, stock.price)
    BY <1>0, <2>7 DEF OnlyCapKnown, PlaceInRange
  <2>9. Quoted(d)
    BY <2>6, <2>7, <2>8 DEF Quoted, AlertTypeOK
  <2>10. QED
    BY <1>M, <2>5, <2>9
<1>3. CASE DayCloses
  <2> DEFINE top == Greater(stock.year_high, stock.high)
             later == [stock EXCEPT !.year_high = top]
  <2>1. PICK reading \in RsiReadings :
           Moved([stock EXCEPT
                !.previous = stock.price, !.open = stock.price, !.high = stock.price, !.volume = 0,
                !.year_high = top, !.rs = PlaceInRange(later, stock.price),
                !.dma50 = Later(@, stock.price, 50), !.dma150 = Later(@, stock.price, 100),
                !.dma200 = Later(@, stock.price, 200), !.rsi = reading])
    BY <1>3 DEF DayCloses
  <2>2. stock.price \in Nat /\ top \in Nat /\ reading \in Nat
    BY <1>0, MovesAssumption DEF StockRecord, Greater
  <2>3. PICK a \in Nat, b \in Nat, c \in Nat :
          /\ a = Later(stock.dma50, stock.price, 50) /\ b = Later(stock.dma150, stock.price, 100)
          /\ c = Later(stock.dma200, stock.price, 200)
    <3>1. stock.dma50 \in Nat /\ stock.dma150 \in Nat /\ stock.dma200 \in Nat
      BY <1>0 DEF StockRecord
    <3>2. /\ Later(stock.dma50, stock.price, 50) \in Nat
          /\ Later(stock.dma150, stock.price, 100) \in Nat
          /\ Later(stock.dma200, stock.price, 200) \in Nat
      BY <2>2, <3>1, LaterType
    <3>3. QED
      BY <3>2
  <2>4. later.year_low = stock.year_low /\ later.year_high = top
    BY <1>0 DEF StockRecord
  <2>5. PICK rs \in 0..99 : rs = PlaceInRange(later, stock.price)
    BY <1>0, <2>2, <2>4, PlaceGrows DEF StockRecord
  <2> HIDE DEF later, top
  <2> DEFINE d == [stock EXCEPT
                !.previous = stock.price, !.open = stock.price, !.high = stock.price, !.volume = 0,
                !.year_high = top, !.rs = rs,
                !.dma50 = a, !.dma150 = b, !.dma200 = c, !.rsi = reading]
  <2>6. Moved(d)
    BY <2>1, <2>3, <2>5
  <2>7. d \in StockRecord
    <3> DEFINE e == [stock EXCEPT !.previous = stock.price, !.open = stock.price,
                                  !.high = stock.price, !.volume = 0]
               f == [e EXCEPT !.year_high = top, !.rs = rs, !.rsi = reading]
               g == [f EXCEPT !.dma50 = a, !.dma150 = b, !.dma200 = c]
    <3>1. e \in StockRecord
      BY <1>0, <2>2 DEF StockRecord
    <3> HIDE DEF e
    <3>2. f \in StockRecord
      BY <2>2, <3>1, rs \in Nat DEF StockRecord
    <3> HIDE DEF f
    <3>3. g \in StockRecord
      BY <3>2 DEF StockRecord
    <3>4. d = g
      BY <1>0 DEF e, f, StockRecord
    <3>5. QED
      BY <3>3, <3>4
  <2>8. /\ d.price = stock.price /\ d.high = stock.price /\ d.rs = rs
        /\ d.year_low = stock.year_low /\ d.year_high = top
        /\ d.cash = stock.cash /\ d.pe = stock.pe /\ d.roe = stock.roe /\ d.roce = stock.roce
        /\ d.debt = stock.debt /\ d.sales = stock.sales /\ d.profit = stock.profit
        /\ d.earnings = stock.earnings /\ d.holding = stock.holding /\ d.sector = stock.sector
    BY <1>0 DEF StockRecord
  <2> HIDE DEF d
  <2>9. OnlyCapKnown(d) /\ PlaceInRange(d, d.price) = PlaceInRange(later, stock.price)
    BY <1>0, <2>4, <2>8 DEF OnlyCapKnown, PlaceInRange
  <2>10. Quoted(d)
    BY <1>0, <2>2, <2>5, <2>7, <2>8, <2>9 DEF Quoted
  <2>11. QED
    BY <1>M, <2>6, <2>10
<1>4. CASE UNCHANGED alertVars
  BY <1>4 DEF alertVars, AlertTypeOK
<1>5. QED
  BY <1>1, <1>2, <1>3, <1>4 DEF AlertNext

-----------------------------------------------------------------------------
(* Rounding.                                                                 *)

LEMMA Rounding ==
    ASSUME NEW n \in Int
    PROVE  /\ RoundDiv(n, 10) \in Int /\ RoundDiv(n, 60) \in Int /\ RoundDiv(n, 100) \in Int
           /\ 20 * RoundDiv(n, 10) <= 2 * n + 10 /\ 2 * n - 10 <= 20 * RoundDiv(n, 10)
           /\ 120 * RoundDiv(n, 60) <= 2 * n + 60 /\ 2 * n - 60 <= 120 * RoundDiv(n, 60)
           /\ 200 * RoundDiv(n, 100) <= 2 * n + 100 /\ 2 * n - 100 <= 200 * RoundDiv(n, 100)
<1>1. n \div 10 \in Int /\ n % 10 \in 0..9 /\ n = 10 * (n \div 10) + (n % 10)
  OBVIOUS
<1>2. n \div 60 \in Int /\ n % 60 \in 0..59 /\ n = 60 * (n \div 60) + (n % 60)
  OBVIOUS
<1>3. n \div 100 \in Int /\ n % 100 \in 0..99 /\ n = 100 * (n \div 100) + (n % 100)
  OBVIOUS
<1>4. RoundDiv(n, 10) = IF 2 * (n % 10) > 10 \/ (2 * (n % 10) = 10 /\ (n \div 10) % 2 = 1)
                        THEN n \div 10 + 1 ELSE n \div 10
  BY DEF RoundDiv
<1>5. RoundDiv(n, 60) = IF 2 * (n % 60) > 60 \/ (2 * (n % 60) = 60 /\ (n \div 60) % 2 = 1)
                        THEN n \div 60 + 1 ELSE n \div 60
  BY DEF RoundDiv
<1>6. RoundDiv(n, 100) = IF 2 * (n % 100) > 100 \/ (2 * (n % 100) = 100 /\ (n \div 100) % 2 = 1)
                         THEN n \div 100 + 1 ELSE n \div 100
  BY DEF RoundDiv
<1>7. RoundDiv(n, 10) \in Int /\ 20 * RoundDiv(n, 10) <= 2 * n + 10 /\ 2 * n - 10 <= 20 * RoundDiv(n, 10)
  BY <1>1, <1>4
<1>8. RoundDiv(n, 60) \in Int /\ 120 * RoundDiv(n, 60) <= 2 * n + 60 /\ 2 * n - 60 <= 120 * RoundDiv(n, 60)
  BY <1>2, <1>5
<1>9. RoundDiv(n, 100) \in Int /\ 200 * RoundDiv(n, 100) <= 2 * n + 100
      /\ 2 * n - 100 <= 200 * RoundDiv(n, 100)
  BY <1>3, <1>6
<1>10. QED
  BY <1>7, <1>8, <1>9

LEMMA RoundedQuotient ==
    ASSUME NEW n \in Int, NEW d \in Nat, d > 0, n >= 200 * d PROVE RoundDiv(n, d) \in Int /\ RoundDiv(n, d) >= 200
<1> DEFINE q == n \div d
<1>1. q \in Int /\ n < d * (q + 1)
  OBVIOUS
<1> HIDE DEF q
<1>2. q >= 200
  <2>1. SUFFICES ASSUME q + 1 <= 200 PROVE FALSE
    BY <1>1
  <2>2. PICK k \in Nat : 200 = (q + 1) + k
    BY <1>1, <2>1
  <2>3. 200 * d = d * (q + 1) + d * k /\ d * k >= 0 /\ d * (q + 1) \in Int
    BY <1>1, <2>2
  <2>4. QED
    BY <1>1, <2>3
<1>3. RoundDiv(n, d) = q \/ RoundDiv(n, d) = q + 1
  BY DEF RoundDiv, q
<1>4. QED
  BY <1>1, <1>2, <1>3

LEMMA RoundedAbove ==
    ASSUME NEW n \in Int, RoundDiv(n, 60) >= 90 PROVE n >= 5370
<1>1. n \in Int /\ 60 \in Int
  OBVIOUS
<1>3. n \div 60 \in Int /\ n % 60 \in 0..59 /\ n = 60 * (n \div 60) + (n % 60)
  BY <1>1
<1>2. RoundDiv(n, 60) = IF 2 * (n % 60) > 60 \/ (2 * (n % 60) = 60 /\ (n \div 60) % 2 = 1)
                        THEN n \div 60 + 1 ELSE n \div 60
  BY DEF RoundDiv
<1>4. QED
  BY <1>1, <1>2, <1>3

LEMMA RoundedBelow ==
    ASSUME NEW n \in Int, 0 <= n, n <= 7650 PROVE RoundDiv(n, 100) \in Int /\ RoundDiv(n, 100) < 80
<1>1. n \div 100 \in Int /\ n \div 100 <= 76
  OBVIOUS
<1>2. RoundDiv(n, 100) = n \div 100 \/ RoundDiv(n, 100) = n \div 100 + 1
  BY DEF RoundDiv
<1>3. QED
  BY <1>1, <1>2

LEMMA RoundingGrows ==
    ASSUME NEW m \in Int, NEW n \in Int, m <= n
    PROVE  RoundDiv(m, 60) <= RoundDiv(n, 60) /\ RoundDiv(m, 100) <= RoundDiv(n, 100)
<1> DEFINE Rounded(x, d) == IF 2 * (x % d) > d \/ (2 * (x % d) = d /\ (x \div d) % 2 = 1)
                            THEN x \div d + 1 ELSE x \div d
<1>1. \A x \in Int : /\ x \div 60 \in Int /\ x % 60 \in 0..59 /\ x = 60 * (x \div 60) + (x % 60)
                     /\ x \div 100 \in Int /\ x % 100 \in 0..99 /\ x = 100 * (x \div 100) + (x % 100)
  OBVIOUS
<1>2. RoundDiv(m, 60) = Rounded(m, 60) /\ RoundDiv(n, 60) = Rounded(n, 60)
  BY DEF RoundDiv
<1>3. RoundDiv(m, 100) = Rounded(m, 100) /\ RoundDiv(n, 100) = Rounded(n, 100)
  BY DEF RoundDiv
<1>4. Rounded(m, 60) <= Rounded(n, 60)
  <2>1. PICK p \in Int, q \in Int, a \in 0..59, b \in 0..59 :
           /\ p = m \div 60 /\ q = n \div 60 /\ a = m % 60 /\ b = n % 60
           /\ m = 60 * p + a /\ n = 60 * q + b
    BY <1>1
  <2>2. p < q \/ (p = q /\ a <= b)
    BY <2>1
  <2>3. Rounded(m, 60) = IF 2 * a > 60 \/ (2 * a = 60 /\ p % 2 = 1) THEN p + 1 ELSE p
    BY <2>1
  <2>4. Rounded(n, 60) = IF 2 * b > 60 \/ (2 * b = 60 /\ q % 2 = 1) THEN q + 1 ELSE q
    BY <2>1
  <2> HIDE DEF Rounded
  <2>5. QED
    BY <2>2, <2>3, <2>4
<1>5. Rounded(m, 100) <= Rounded(n, 100)
  <2>1. PICK p \in Int, q \in Int, a \in 0..99, b \in 0..99 :
           /\ p = m \div 100 /\ q = n \div 100 /\ a = m % 100 /\ b = n % 100
           /\ m = 100 * p + a /\ n = 100 * q + b
    BY <1>1
  <2>2. p < q \/ (p = q /\ a <= b)
    BY <2>1
  <2>3. Rounded(m, 100) = IF 2 * a > 100 \/ (2 * a = 100 /\ p % 2 = 1) THEN p + 1 ELSE p
    BY <2>1
  <2>4. Rounded(n, 100) = IF 2 * b > 100 \/ (2 * b = 100 /\ q % 2 = 1) THEN q + 1 ELSE q
    BY <2>1
  <2> HIDE DEF Rounded
  <2>5. QED
    BY <2>2, <2>3, <2>4
<1> HIDE DEF Rounded
<1>6. QED
  BY <1>2, <1>3, <1>4, <1>5

-----------------------------------------------------------------------------
(* What the strategies can give, and the score as a sum.                     *)

LEMMA TechnicalScores ==
    ASSUME NEW d
    PROVE  /\ Minervini(d).weight = 25 /\ Minervini(d).score \in 0..100
           /\ Darvas(d).weight = 15 /\ Darvas(d).score \in 0..100
           /\ Donchian(d).weight = 10 /\ Donchian(d).score \in 0..100
           /\ Crossover(d).weight = 5 /\ Crossover(d).score \in 0..100
           /\ RsiStrategy(d).weight = 5 /\ RsiStrategy(d).score \in 0..100
<1>1. Minervini(d).weight = 25 /\ Minervini(d).score \in 0..100
  BY DEF Minervini, Points
<1>2. Darvas(d).weight = 15 /\ Darvas(d).score \in 0..100
  BY DEF Darvas, Points
<1>3. Donchian(d).weight = 10 /\ Donchian(d).score \in 0..100
  BY DEF Donchian, Points
<1>4. Crossover(d).weight = 5 /\ Crossover(d).score \in 0..100
  BY DEF Crossover, Points
<1>5. RsiStrategy(d).weight = 5 /\ RsiStrategy(d).score \in 0..100
  BY DEF RsiStrategy, Points
<1>6. QED
  BY <1>1, <1>2, <1>3, <1>4, <1>5

LEMMA FundamentalScores ==
    ASSUME NEW d, OnlyCapKnown(d), d.cap # 0
    PROVE  /\ CanSlim(d).weight = 20 /\ CanSlim(d).score \in 0..60
           /\ Lynch(d).weight = 10 /\ Lynch(d).score \in 0..30
           /\ Buffett(d).weight = 10 /\ Buffett(d).score \in 0..15
<1>1. HasFundamentals(d)
  BY DEF HasFundamentals
<1>2. /\ d.cash = FALSE \/ ~d.cash
      /\ d.pe = 0 /\ d.roe = 0 /\ d.roce = 0 /\ d.debt = 0 /\ d.sales = 0 /\ d.profit = 0
      /\ d.earnings = 0 /\ d.holding = 0 /\ d.sector = 0
  BY DEF OnlyCapKnown
<1>3. CanSlim(d).weight = 20 /\ CanSlim(d).score \in 0..60
  BY <1>1, <1>2 DEF CanSlim, Points
<1>4. Lynch(d).weight = 10 /\ Lynch(d).score \in 0..30
  BY <1>1, <1>2 DEF Lynch, Points
<1>5. Buffett(d).weight = 10 /\ Buffett(d).score \in 0..15
  BY <1>1, <1>2 DEF Buffett, Points, OnlyCapKnown
<1>6. QED
  BY <1>3, <1>4, <1>5

(* Without fundamentals five strategies decide, of weights that add to 60.   *)
Technical(d) ==
    Minervini(d).score * 25 + Darvas(d).score * 15 + Donchian(d).score * 10
    + Crossover(d).score * 5 + RsiStrategy(d).score * 5

LEMMA TechnicalType ==
    ASSUME NEW d PROVE Technical(d) \in Int /\ Technical(d) >= 0 /\ Technical(d) <= 6000
<1>1. PICK a \in 0..100, c \in 0..100, g \in 0..100, h \in 0..100, k \in 0..100 :
         /\ Minervini(d).score = a /\ Darvas(d).score = c /\ Donchian(d).score = g
         /\ Crossover(d).score = h /\ RsiStrategy(d).score = k
  BY TechnicalScores
<1>2. QED
  BY <1>1 DEF Technical

LEMMA TechnicalOverall ==
    ASSUME NEW d, ~HasFundamentals(d)
    PROVE  /\ Technical(d) \in Int /\ Technical(d) >= 0 /\ Technical(d) <= 6000
           /\ Overall(d) = RoundDiv(Technical(d), 60)
<1>0. PICK r : r = Strategies(d)
  OBVIOUS
<1>1. /\ r[1] = Minervini(d) /\ r[2] = Inactive("CANSLIM") /\ r[3] = Darvas(d) /\ r[4] = Inactive("Lynch")
      /\ r[5] = Inactive("Buffett") /\ r[6] = Donchian(d) /\ r[7] = Crossover(d) /\ r[8] = RsiStrategy(d)
  BY <1>0 DEF Strategies, CanSlim, Lynch, Buffett
<1>2. \A name : Inactive(name).weight = 0 /\ Inactive(name).score = 0
  BY DEF Inactive
<1>3. Sum8([i \in Places |-> r[i].weight]) = 60
  <2>1. Sum8([i \in Places |-> r[i].weight])
          = r[1].weight + r[2].weight + r[3].weight + r[4].weight + r[5].weight + r[6].weight
            + r[7].weight + r[8].weight
    BY DEF Sum8, Places
  <2>2. QED
    BY <2>1, <1>1, <1>2, TechnicalScores
<1>4. Sum8([i \in Places |-> r[i].score * r[i].weight])
        = r[1].score * r[1].weight + r[2].score * r[2].weight + r[3].score * r[3].weight
          + r[4].score * r[4].weight + r[5].score * r[5].weight + r[6].score * r[6].weight
          + r[7].score * r[7].weight + r[8].score * r[8].weight
  BY DEF Sum8, Places
<1>5. PICK a \in 0..100, c \in 0..100, g \in 0..100, h \in 0..100, k \in 0..100 :
         /\ Minervini(d).score = a /\ Darvas(d).score = c /\ Donchian(d).score = g
         /\ Crossover(d).score = h /\ RsiStrategy(d).score = k
  BY TechnicalScores
<1>6. /\ r[1].score * r[1].weight = a * 25 /\ r[2].score * r[2].weight = 0
      /\ r[3].score * r[3].weight = c * 15 /\ r[4].score * r[4].weight = 0
      /\ r[5].score * r[5].weight = 0 /\ r[6].score * r[6].weight = g * 10
      /\ r[7].score * r[7].weight = h * 5 /\ r[8].score * r[8].weight = k * 5
  <2>1. /\ Minervini(d).score * Minervini(d).weight = a * 25
        /\ Darvas(d).score * Darvas(d).weight = c * 15
        /\ Donchian(d).score * Donchian(d).weight = g * 10
        /\ Crossover(d).score * Crossover(d).weight = h * 5
        /\ RsiStrategy(d).score * RsiStrategy(d).weight = k * 5
    BY <1>5, TechnicalScores
  <2>2. QED
    BY <1>1, <1>2, <2>1
<1>7. Sum8([i \in Places |-> r[i].score * r[i].weight]) = a * 25 + c * 15 + g * 10 + h * 5 + k * 5
  BY <1>4, <1>6
<1>8. Technical(d) = a * 25 + c * 15 + g * 10 + h * 5 + k * 5
  BY <1>5 DEF Technical
<1>9. Technical(d) \in Int /\ Technical(d) >= 0 /\ Technical(d) <= 6000
  BY <1>8
<1>10. Overall(d) = RoundDiv(Technical(d), 60)
  BY <1>0, <1>3, <1>7, <1>8 DEF Overall
<1>11. QED
  BY <1>9, <1>10

(* With fundamentals eight strategies count, of weights that add to 100.     *)
Fundamental(d) ==
    CanSlim(d).score * 20 + Lynch(d).score * 10 + Buffett(d).score * 10

LEMMA FullScores ==
    ASSUME NEW d, HasFundamentals(d)
    PROVE  /\ CanSlim(d).weight = 20 /\ CanSlim(d).score \in 0..100
           /\ Lynch(d).weight = 10 /\ Lynch(d).score \in 0..100
           /\ Buffett(d).weight = 10 /\ Buffett(d).score \in 0..100
<1>1. CanSlim(d).weight = 20 /\ CanSlim(d).score \in 0..100
  BY DEF CanSlim, Points
<1>2. Lynch(d).weight = 10 /\ Lynch(d).score \in 0..100
  BY DEF Lynch, Points
<1>3. Buffett(d).weight = 10 /\ Buffett(d).score \in 0..100
  BY DEF Buffett, Points
<1>4. QED
  BY <1>1, <1>2, <1>3

LEMMA FullOverall ==
    ASSUME NEW d, HasFundamentals(d)
    PROVE  /\ Technical(d) \in Int /\ Fundamental(d) \in Int
           /\ Overall(d) = RoundDiv(Technical(d) + Fundamental(d), 100)
<1>0. PICK r : r = Strategies(d)
  OBVIOUS
<1>1. /\ r[1] = Minervini(d) /\ r[2] = CanSlim(d) /\ r[3] = Darvas(d) /\ r[4] = Lynch(d)
      /\ r[5] = Buffett(d) /\ r[6] = Donchian(d) /\ r[7] = Crossover(d) /\ r[8] = RsiStrategy(d)
  BY <1>0 DEF Strategies
<1>2. Sum8([i \in Places |-> r[i].weight]) = 100
  <2>1. Sum8([i \in Places |-> r[i].weight])
          = r[1].weight + r[2].weight + r[3].weight + r[4].weight + r[5].weight + r[6].weight
            + r[7].weight + r[8].weight
    BY DEF Sum8, Places
  <2>2. QED
    BY <2>1, <1>1, TechnicalScores, FullScores
<1>3. Sum8([i \in Places |-> r[i].score * r[i].weight])
        = r[1].score * r[1].weight + r[2].score * r[2].weight + r[3].score * r[3].weight
          + r[4].score * r[4].weight + r[5].score * r[5].weight + r[6].score * r[6].weight
          + r[7].score * r[7].weight + r[8].score * r[8].weight
  BY DEF Sum8, Places
<1>4. PICK a \in 0..100, c \in 0..100, g \in 0..100, h \in 0..100, k \in 0..100 :
         /\ Minervini(d).score = a /\ Darvas(d).score = c /\ Donchian(d).score = g
         /\ Crossover(d).score = h /\ RsiStrategy(d).score = k
  BY TechnicalScores
<1>5. PICK b \in 0..100, e \in 0..100, f \in 0..100 :
         CanSlim(d).score = b /\ Lynch(d).score = e /\ Buffett(d).score = f
  BY FullScores
<1>6. /\ r[1].score * r[1].weight = a * 25 /\ r[2].score * r[2].weight = b * 20
      /\ r[3].score * r[3].weight = c * 15 /\ r[4].score * r[4].weight = e * 10
      /\ r[5].score * r[5].weight = f * 10 /\ r[6].score * r[6].weight = g * 10
      /\ r[7].score * r[7].weight = h * 5 /\ r[8].score * r[8].weight = k * 5
  BY <1>1, <1>4, <1>5, TechnicalScores, FullScores
<1>7. Technical(d) = a * 25 + c * 15 + g * 10 + h * 5 + k * 5
  BY <1>4 DEF Technical
<1>8. Fundamental(d) = b * 20 + e * 10 + f * 10
  BY <1>5 DEF Fundamental
<1>9. Sum8([i \in Places |-> r[i].score * r[i].weight]) = Technical(d) + Fundamental(d)
  BY <1>3, <1>6, <1>7, <1>8
<1>10. Technical(d) \in Int /\ Fundamental(d) \in Int
  BY <1>7, <1>8
<1>11. Overall(d) = RoundDiv(Technical(d) + Fundamental(d), 100)
  BY <1>0, <1>2, <1>9, Zenon DEF Overall
<1>12. QED
  BY <1>10, <1>11

LEMMA OverallType == ASSUME NEW d PROVE Overall(d) \in Int
<1>1. CASE HasFundamentals(d)
  <2>1. PICK n \in Int : n = Technical(d) + Fundamental(d)
    BY <1>1, FullOverall
  <2>2. RoundDiv(n, 100) \in Int
    BY Rounding
  <2>3. QED
    BY <1>1, <2>1, <2>2, FullOverall
<1>2. CASE ~HasFundamentals(d)
  <2>1. PICK n \in Int : n = Technical(d)
    BY <1>2, TechnicalOverall
  <2>2. RoundDiv(n, 60) \in Int
    BY Rounding
  <2>3. QED
    BY <1>2, <2>1, <2>2, TechnicalOverall
<1>3. QED
  BY <1>1, <1>2

(* The weights add up to 100, and at most 7650 of 10000 can be reached.      *)
LEMMA CapLimitsOverall ==
    ASSUME NEW d, OnlyCapKnown(d), d.cap # 0 PROVE Overall(d) \in Int /\ Overall(d) < 80
<1>1. HasFundamentals(d)
  BY DEF HasFundamentals
<1>2. Technical(d) \in Int /\ Technical(d) >= 0 /\ Technical(d) <= 6000
  BY TechnicalType
<1>3. PICK b \in 0..60, e \in 0..30, f \in 0..15 :
         CanSlim(d).score = b /\ Lynch(d).score = e /\ Buffett(d).score = f
  BY FundamentalScores
<1>4. Fundamental(d) = b * 20 + e * 10 + f * 10
  BY <1>3 DEF Fundamental
<1>5. PICK n \in Int : n = Technical(d) + Fundamental(d) /\ 0 <= n /\ n <= 7650
  BY <1>2, <1>4
<1>6. RoundDiv(n, 100) \in Int /\ RoundDiv(n, 100) < 80
  BY <1>5, RoundedBelow
<1>7. QED
  BY <1>1, <1>5, <1>6, FullOverall

-----------------------------------------------------------------------------
(* A high score without fundamentals: its evidence, the strategies passed    *)
(* and the reward of the best one.                                           *)

(* A higher surge is a lower one too. *)
LEMMA SurgeFalls ==
    ASSUME NEW d, d.volume \in Nat, d.average \in Nat
    PROVE  /\ Surge(d, 125) => Surge(d, 120)
           /\ Surge(d, 120) => Surge(d, 110)
           /\ Surge(d, 110) => Surge(d, 100)
  BY DEF Surge

LEMMA HighScoreEvidence ==
    ASSUME NEW d \in StockRecord, Technical(d) >= 5370
    PROVE  /\ AboveMean(d, d.dma50) /\ AboveMean(d, d.dma200)
           /\ NearYearHigh(d) /\ Surge(d, 120)
<1>1. d.volume \in Nat /\ d.average \in Nat /\ d.price \in Nat /\ d.dma50 \in Nat /\ d.dma200 \in Nat
  BY DEF StockRecord
<1>2. Surge(d, 125) => Surge(d, 120)
  BY <1>1 DEF Surge
<1>3. d.dma200 > 0 /\ d.dma50 > d.dma200 /\ AboveMean(d, d.dma50) => AboveMean(d, d.dma200)
  BY <1>1 DEF AboveMean
<1> DEFINE M == Minervini(d).score
           D == Darvas(d).score
           N == Donchian(d).score
           E == Crossover(d).score
           R == RsiStrategy(d).score
<1>4. M \in 0..100 /\ D \in 0..100 /\ N \in 0..100 /\ E \in 0..100 /\ R \in 0..100
  BY TechnicalScores
<1>5. M * 25 + D * 15 + N * 10 + E * 5 + R * 5 >= 5370
  BY DEF Technical
<1>6. /\ ~AboveMean(d, d.dma50) => M <= 90 /\ D <= 85 /\ E <= 40
      /\ ~AboveMean(d, d.dma200) => M <= 85 /\ E <= 40
      /\ ~NearYearHigh(d) => M <= 85 /\ D <= 80
      /\ ~Surge(d, 120) => M <= 80 /\ N <= 70
  <2>1. M <= 100 - Points(~AboveMean(d, d.dma50), 10)
    BY DEF Minervini, Points
  <2>2. QED
    BY <1>2, <1>3, <2>1 DEF Minervini, Darvas, Donchian, Crossover, Points
<1> HIDE DEF M, D, N, E, R
<1>7. QED
  BY <1>4, <1>5, <1>6

(* A stop at least so far below a price is worth twice the risk: the target  *)
(* of the multiple is rounded to the paisa.                                  *)
LEMMA RewardEnough ==
    ASSUME NEW price \in Nat, NEW stop \in Nat, stop > 0, stop < price,
           NEW multiple \in Nat,
           10 * multiple * (price - stop) >= 200 * (price - stop) + 100
    PROVE  RewardRatio(price, price - stop, multiple) >= 200
<1>1. PICK risk \in Nat : risk = price - stop /\ risk > 0
  OBVIOUS
<1>2. PICK gain \in Nat : gain = risk * multiple /\ 10 * gain >= 200 * risk + 100
  <2>1. risk * multiple \in Nat /\ 10 * (risk * multiple) >= 200 * risk + 100
    BY <1>1
  <2>2. QED
    BY <2>1
<1>3. PICK target \in Int : target = RoundDiv(10 * price + gain, 10) /\ 20 * target >= 20 * price + 2 * gain - 10
  <2>1. PICK x \in Int : x = 10 * price + gain
    OBVIOUS
  <2>2. RoundDiv(x, 10) \in Int /\ 2 * x - 10 <= 20 * RoundDiv(x, 10)
    BY Rounding, Zenon
  <2>3. QED
    BY <2>1, <2>2
<1>4. 100 * (target - price) \in Int /\ 100 * (target - price) >= 200 * risk
  BY <1>2, <1>3
<1>5. RewardRatio(price, price - stop, multiple) = RoundDiv(100 * (target - price), risk)
  <2>1. RewardRatio(price, risk, multiple)
          = RoundDiv(100 * (RoundDiv(10 * price + risk * multiple, 10) - price), risk)
    BY DEF RewardRatio
  <2>2. QED
    BY <1>1, <1>2, <1>3, <2>1
<1>6. QED
  BY <1>1, <1>4, <1>5, RoundedQuotient

LEMMA StopBelow ==
    ASSUME NEW d, d.price \in Nat, d.dma50 \in Nat, d.dma50 > 0, d.price >= 200,
           NEW fallback \in Nat, NEW percent \in 94..96
    PROVE  /\ StopUnderMean(d, fallback, percent) \in Nat /\ StopUnderMean(d, fallback, percent) > 0
           /\ 100 * StopUnderMean(d, fallback, percent) <= 96 * d.price + 50
           /\ PercentOf(d, percent) \in Nat /\ PercentOf(d, percent) > 0
           /\ 100 * PercentOf(d, percent) <= percent * d.price + 50
<1>1. PICK part \in Nat : part = d.price * percent /\ part <= 96 * d.price /\ part >= 94 * d.price
                          /\ part = percent * d.price
  <2>1. percent = 94 \/ percent = 95 \/ percent = 96
    OBVIOUS
  <2>2. QED
    BY <2>1
<1>2. PICK x \in Nat : x = (IF 100 * d.dma50 < part THEN 100 * d.dma50 ELSE part)
  OBVIOUS
<1>3. StopUnderMean(d, fallback, percent) = RoundDiv(x, 100)
  BY <1>1, <1>2 DEF StopUnderMean
<1>4. PercentOf(d, percent) = RoundDiv(part, 100)
  BY <1>1 DEF PercentOf
<1>5. x >= 100 /\ x <= 96 * d.price /\ part >= 100
  BY <1>1, <1>2
<1>6. PICK a \in Int : a = RoundDiv(x, 100) /\ 200 * a <= 2 * x + 100 /\ 2 * x - 100 <= 200 * a
  <2>1. /\ RoundDiv(x, 100) \in Int /\ 200 * RoundDiv(x, 100) <= 2 * x + 100
        /\ 2 * x - 100 <= 200 * RoundDiv(x, 100)
    <3>1. x \in Int
      OBVIOUS
    <3>2. QED
      BY <3>1, Rounding, Zenon
  <2>2. QED
    BY <2>1
<1>7. PICK b \in Int : b = RoundDiv(part, 100) /\ 200 * b <= 2 * part + 100 /\ 2 * part - 100 <= 200 * b
  <2>1. /\ RoundDiv(part, 100) \in Int /\ 200 * RoundDiv(part, 100) <= 2 * part + 100
        /\ 2 * part - 100 <= 200 * RoundDiv(part, 100)
    <3>1. part \in Int
      OBVIOUS
    <3>2. QED
      BY <3>1, Rounding, Zenon
  <2>2. QED
    BY <2>1
<1>8. QED
  BY <1>1, <1>3, <1>4, <1>5, <1>6, <1>7

LEMMA RewardsOf ==
    ASSUME NEW d \in StockRecord, d.dma50 > 0, d.price >= 200
    PROVE  /\ RewardOf(Minervini(d), d.price) >= 200 /\ RewardOf(Darvas(d), d.price) >= 200
           /\ RewardOf(Donchian(d), d.price) >= 200 /\ RewardOf(Crossover(d), d.price) >= 200
<1>0. d.price \in Nat /\ d.dma50 \in Nat
  BY DEF StockRecord
<1>R. ASSUME NEW best, NEW m \in {21, 24, 26, 28}, best.stop \in Nat, best.stop > 0,
             100 * best.stop <= (IF m = 21 THEN 95 ELSE 96) * d.price + 50,
             best.reward[Len(best.reward)] = m
      PROVE  RewardOf(best, d.price) >= 200
  <2>1. PICK stop \in Nat : stop = best.stop
    BY <1>R
  <2>2. stop > 0 /\ stop < d.price
    BY <1>0, <1>R, <2>1
  <2>3. 10 * m * (d.price - stop) >= 200 * (d.price - stop) + 100
    <3>1. m = 21 \/ m = 24 \/ m = 26 \/ m = 28
      OBVIOUS
    <3>2. PICK risk \in Nat : risk = d.price - stop /\ risk > 0
      BY <1>0, <2>2
    <3>3. 100 * stop <= 96 * d.price + 50 /\ (m = 21 => 100 * stop <= 95 * d.price + 50)
      BY <1>0, <1>R, <2>1
    <3>4. risk >= 7 /\ (m = 21 => risk >= 10)
      BY <1>0, <3>2, <3>3
    <3>5. /\ 210 * risk >= 200 * risk + 100 \/ m # 21
          /\ 240 * risk >= 200 * risk + 100 /\ 260 * risk >= 200 * risk + 100
          /\ 280 * risk >= 200 * risk + 100
      BY <3>4
    <3>6. (10 * m = 210 /\ m = 21) \/ 10 * m = 240 \/ 10 * m = 260 \/ 10 * m = 280
      BY <3>1
    <3>7. 10 * m * risk >= 200 * risk + 100
      BY <3>5, <3>6
    <3>8. QED
      BY <3>2, <3>7
  <2>4. RewardRatio(d.price, d.price - stop, m) >= 200
    BY <1>0, <2>2, <2>3, RewardEnough
  <2>5. RewardOf(best, d.price) = RewardRatio(d.price, d.price - stop, m)
    BY <1>0, <1>R, <2>1, <2>2 DEF RewardOf
  <2>6. QED
    BY <2>4, <2>5
<1>1. Minervini(d).stop = StopUnderMean(d, 97, 96) /\ Minervini(d).reward[Len(Minervini(d).reward)] = 26
  BY DEF Minervini
<1>2. Darvas(d).stop = StopUnderMean(d, 96, 94) /\ Darvas(d).reward[Len(Darvas(d).reward)] = 24
  BY DEF Darvas
<1>3. Donchian(d).stop = PercentOf(d, 94) /\ Donchian(d).reward[Len(Donchian(d).reward)] = 28
  BY DEF Donchian
<1>4. Crossover(d).stop = PercentOf(d, 95) /\ Crossover(d).reward[Len(Crossover(d).reward)] = 21
  BY DEF Crossover
<1>5. RewardOf(Minervini(d), d.price) >= 200
  <2>1. /\ Minervini(d).stop \in Nat /\ Minervini(d).stop > 0
        /\ 100 * Minervini(d).stop <= 96 * d.price + 50
    BY <1>0, <1>1, StopBelow
  <2>2. QED
    BY <1>1, <1>R, <2>1
<1>6. RewardOf(Darvas(d), d.price) >= 200
  <2>1. /\ Darvas(d).stop \in Nat /\ Darvas(d).stop > 0
        /\ 100 * Darvas(d).stop <= 96 * d.price + 50
    BY <1>0, <1>2, StopBelow
  <2>2. QED
    BY <1>2, <1>R, <2>1
<1>7. RewardOf(Donchian(d), d.price) >= 200
  <2>1. /\ Donchian(d).stop \in Nat /\ Donchian(d).stop > 0
        /\ 100 * Donchian(d).stop <= 96 * d.price + 50
    <3>1. /\ PercentOf(d, 94) \in Nat /\ PercentOf(d, 94) > 0
          /\ 100 * PercentOf(d, 94) <= 94 * d.price + 50
      BY <1>0, StopBelow
    <3>2. QED
      BY <1>0, <1>3, <3>1
  <2>2. QED
    BY <1>3, <1>R, <2>1
<1>8. RewardOf(Crossover(d), d.price) >= 200
  <2>1. /\ Crossover(d).stop \in Nat /\ Crossover(d).stop > 0
        /\ 100 * Crossover(d).stop <= 95 * d.price + 50
    BY <1>0, <1>4, StopBelow
  <2>2. QED
    BY <1>4, <1>R, <2>1
<1>9. QED
  BY <1>5, <1>6, <1>7, <1>8

(* Three of a finite set's elements. *)
LEMMA ThreeOf ==
    ASSUME NEW S \in SUBSET Places, NEW i \in S, NEW j \in S, NEW k \in S, i # j, i # k, j # k
    PROVE  Cardinality(S) \in Nat /\ Cardinality(S) >= 3
<1>1. IsFiniteSet(Places)
  <2>1. 1 \in Int /\ 8 \in Int
    OBVIOUS
  <2>2. QED
    BY <2>1, FS_Interval, Zenon DEF Places
<1>2. IsFiniteSet(S) /\ Cardinality(S) \in Nat
  BY <1>1, FS_Subset, FS_CardinalityType
<1>3. IsFiniteSet({i}) /\ Cardinality({i}) = 1
  BY FS_Singleton
<1>4. IsFiniteSet({i} \cup {j}) /\ Cardinality({i} \cup {j}) = 2
  BY <1>3, FS_AddElement
<1>5. Cardinality(({i} \cup {j}) \cup {k}) = 3
  <2>1. k \notin {i} \cup {j}
    OBVIOUS
  <2>2. QED
    BY <1>4, <2>1, FS_AddElement
<1>6. ({i} \cup {j}) \cup {k} \in SUBSET S
  OBVIOUS
<1>7. QED
  BY <1>2, <1>5, <1>6, FS_Subset

LEMMA PlacesOf ==
    ASSUME NEW d, ~HasFundamentals(d)
    PROVE  /\ Strategies(d)[1] = Minervini(d) /\ Strategies(d)[3] = Darvas(d)
           /\ Strategies(d)[6] = Donchian(d) /\ Strategies(d)[7] = Crossover(d)
           /\ Strategies(d)[8] = RsiStrategy(d)
           /\ \A i \in {2, 4, 5} : Strategies(d)[i].weight = 0 /\ Strategies(d)[i].score = 0
<1>1. /\ Strategies(d)[2] = Inactive("CANSLIM") /\ Strategies(d)[4] = Inactive("Lynch")
      /\ Strategies(d)[5] = Inactive("Buffett")
  BY DEF Strategies, CanSlim, Lynch, Buffett
<1>2. \A name : Inactive(name).weight = 0 /\ Inactive(name).score = 0
  BY DEF Inactive
<1>3. \A i \in {2, 4, 5} : Strategies(d)[i].weight = 0 /\ Strategies(d)[i].score = 0
  BY <1>1, <1>2
<1>4. QED
  BY <1>3 DEF Strategies

(* When each of the five passes.                                             *)
LEMMA MinerviniPasses ==
    ASSUME NEW d,
           /\ AboveMean(d, d.dma50) /\ AboveMean(d, d.dma150) /\ AboveMean(d, d.dma200)
              /\ d.dma150 > d.dma200 /\ NearYearHigh(d) /\ d.rs >= 80
    PROVE  Minervini(d).passed
  BY DEF Minervini

LEMMA DarvasPasses ==
    ASSUME NEW d,
           /\ NearYearHigh(d) /\ Surge(d, 110) /\ AboveMean(d, d.dma50) /\ Unfallen(d)
    PROVE  Darvas(d).passed
  BY DEF Darvas

LEMMA DonchianPasses ==
    ASSUME NEW d,
           /\ d.price >= d.high /\ 100 * d.price >= 98 * d.year_high
              /\ Surge(d, 125) /\ AboveMean(d, d.dma50)
    PROVE  Donchian(d).passed
  BY DEF Donchian

LEMMA CrossoverPasses ==
    ASSUME NEW d,
           /\ d.dma200 > 0 /\ d.dma50 > d.dma200 /\ AboveMean(d, d.dma50)
    PROVE  Crossover(d).passed
  BY DEF Crossover

LEMMA RsiStrategyPasses ==
    ASSUME NEW d,
           IF d.rsi > 0 THEN d.rsi >= 5000 /\ d.rsi <= 7000
              ELSE Unfallen(d) /\ Surge(d, 100)
    PROVE  RsiStrategy(d).passed
<1> DEFINE firm == IF d.rsi > 0 THEN d.rsi >= 5000 /\ d.rsi <= 7000
                   ELSE Unfallen(d) /\ Surge(d, 100)
<1>1. RsiStrategy(d).passed = firm
  BY DEF RsiStrategy
<1>2. firm
  OBVIOUS
<1> HIDE DEF firm
<1>3. QED
  BY <1>1, <1>2, Zenon

(* Every failed strategy costs the score: no three of the five can fail.     *)
LEMMA PassedThree ==
    ASSUME NEW d \in StockRecord, ~HasFundamentals(d), Technical(d) >= 5370
    PROVE  Cardinality(Passed(d)) \in Nat /\ Cardinality(Passed(d)) >= 3
<1>1. d.volume \in Nat /\ d.average \in Nat
  BY DEF StockRecord
<1>2. /\ AboveMean(d, d.dma50) /\ AboveMean(d, d.dma200) /\ NearYearHigh(d) /\ Surge(d, 120)
      /\ Surge(d, 110)
  BY <1>1, HighScoreEvidence, SurgeFalls
<1> DEFINE M == Minervini(d).score
           D == Darvas(d).score
           N == Donchian(d).score
           E == Crossover(d).score
           R == RsiStrategy(d).score
<1>3. M \in 0..100 /\ D \in 0..100 /\ N \in 0..100 /\ E \in 0..100 /\ R \in 0..100
  BY TechnicalScores
<1>4. M * 25 + D * 15 + N * 10 + E * 5 + R * 5 >= 5370
  BY DEF Technical
<1> DEFINE m == /\ AboveMean(d, d.dma150) /\ d.dma150 > d.dma200 /\ d.rs >= 80
           n == d.price >= d.high /\ 100 * d.price >= 98 * d.year_high /\ Surge(d, 125)
           e == d.dma200 > 0 /\ d.dma50 > d.dma200 /\ AboveMean(d, d.dma50)
           r == IF d.rsi > 0 THEN d.rsi >= 5000 /\ d.rsi <= 7000 ELSE Unfallen(d) /\ Surge(d, 100)
<1>5. m => Minervini(d).passed
  BY <1>2, MinerviniPasses
<1>6. Unfallen(d) => Darvas(d).passed
  BY <1>2, DarvasPasses
<1>7. n => Donchian(d).passed
  BY <1>2, DonchianPasses
<1>8. e => Crossover(d).passed
  BY CrossoverPasses
<1>9. r => RsiStrategy(d).passed
  BY RsiStrategyPasses
<1>10. ~m => M <= 90
  <2>1. d.dma150 \in Nat /\ d.dma200 \in Nat
    BY DEF StockRecord
  <2>2. d.dma200 > 0
    BY <1>2, <2>1 DEF AboveMean
  <2>3. d.dma150 > d.dma200 => d.dma150 > 0
    BY <2>1, <2>2
  <2>4. QED
    BY <1>2, <2>2, <2>3 DEF Minervini, Points
<1>11. ~Unfallen(d) => D <= 85
  BY DEF Darvas, Points
<1>12. ~n => N <= 70
  BY DEF Donchian, Points
<1>13. ~e => E <= 40
  BY DEF Crossover, Points
<1>14. ~r => R <= 30
  BY DEF RsiStrategy, Points
<1> HIDE DEF M, D, N, E, R, m, n, e, r
<1>15. \/ (m /\ Unfallen(d) /\ n) \/ (m /\ Unfallen(d) /\ e) \/ (m /\ Unfallen(d) /\ r)
       \/ (m /\ n /\ e) \/ (m /\ n /\ r) \/ (m /\ e /\ r)
       \/ (Unfallen(d) /\ n /\ e) \/ (Unfallen(d) /\ n /\ r) \/ (Unfallen(d) /\ e /\ r)
       \/ (n /\ e /\ r)
  BY <1>3, <1>4, <1>10, <1>11, <1>12, <1>13, <1>14
<1>16. /\ m => 1 \in Passed(d)
       /\ Unfallen(d) => 3 \in Passed(d)
       /\ n => 6 \in Passed(d)
       /\ e => 7 \in Passed(d)
       /\ r => 8 \in Passed(d)
  BY <1>5, <1>6, <1>7, <1>8, <1>9, PlacesOf, TechnicalScores DEF Passed, Places
<1>17. PICK i \in Passed(d), j \in Passed(d), k \in Passed(d) : i # j /\ i # k /\ j # k
  BY <1>15, <1>16
<1>18. Passed(d) \in SUBSET Places
  BY DEF Passed
<1>19. QED
  BY <1>17, <1>18, ThreeOf

LEMMA LeastPlace ==
    ASSUME NEW S \in SUBSET Places, S # {} PROVE \E i \in S : \A j \in S : i <= j
<1>1. \A i \in S : i = 1 \/ i = 2 \/ i = 3 \/ i = 4 \/ i = 5 \/ i = 6 \/ i = 7 \/ i = 8
  BY DEF Places
<1>2. QED
  BY <1>1

(* The strategy at i is the best, and the first of the best, of the five     *)
(* that count without fundamentals.                                          *)
FirstOfBest(d, i) ==
    /\ Best(d) = Strategies(d)[i]
    /\ \A j \in {1, 3, 6, 7, 8} :
          /\ Strategies(d)[j].score <= Strategies(d)[i].score
          /\ Strategies(d)[j].score = Strategies(d)[i].score
                => /\ Strategies(d)[j].weight <= Strategies(d)[i].weight
                   /\ Strategies(d)[j].weight = Strategies(d)[i].weight => i <= j

LEMMA BestOf ==
    ASSUME NEW d, ~HasFundamentals(d)
    PROVE  \E i \in {1, 3, 6, 7, 8} : FirstOfBest(d, i)
<1> DEFINE r == Strategies(d)
           better(i, j) == \/ r[i].score > r[j].score
                           \/ r[i].score = r[j].score /\ r[i].weight > r[j].weight
           best == {i \in Places : r[i].weight > 0 /\ \A j \in Places : ~better(j, i)}
           Key(i) == 100 * r[i].score + r[i].weight
           Five == {1, 3, 6, 7, 8}
<1>1. \A i \in Five : r[i].weight \in 5..25 /\ r[i].score \in 0..100
  BY PlacesOf, TechnicalScores
<1>2. \A i \in {2, 4, 5} : r[i].weight = 0 /\ r[i].score = 0
  BY PlacesOf
<1>3. Places = Five \cup {2, 4, 5}
  BY DEF Places
<1>4. Best(d) = r[CHOOSE i \in best : \A j \in best : i <= j]
  BY DEF Best
<1> HIDE DEF r
<1>5. \A i \in Five, j \in Five : better(j, i) <=> Key(j) > Key(i)
  <2>1. SUFFICES ASSUME NEW i \in Five, NEW j \in Five PROVE better(j, i) <=> Key(j) > Key(i)
    OBVIOUS
  <2>2. PICK s \in 0..100, t \in 0..100, v \in 5..25, w \in 5..25 :
           s = r[i].score /\ t = r[j].score /\ v = r[i].weight /\ w = r[j].weight
    BY <1>1
  <2>3. (t > s \/ (t = s /\ w > v)) <=> 100 * t + w > 100 * s + v
    OBVIOUS
  <2>4. better(j, i) <=> (t > s \/ (t = s /\ w > v))
    BY <2>2
  <2>5. Key(j) = 100 * t + w /\ Key(i) = 100 * s + v
    BY <2>2
  <2>6. QED
    BY <2>3, <2>4, <2>5
<1>6. \A i \in Five, j \in {2, 4, 5} : ~better(j, i)
  BY <1>1, <1>2
<1>8. \A i \in Five : Key(i) \in Int
  <2>1. SUFFICES ASSUME NEW i \in Five PROVE Key(i) \in Int
    OBVIOUS
  <2>2. PICK s \in 0..100, w \in 5..25 : s = r[i].score /\ w = r[i].weight
    BY <1>1
  <2>3. Key(i) = 100 * s + w
    BY <2>2
  <2>4. 100 * s + w \in Int
    OBVIOUS
  <2> HIDE DEF Key
  <2>5. QED
    BY <2>3, <2>4
<1>7. \E i \in Five : \A j \in Five : Key(j) <= Key(i)
  <2>1. /\ Key(1) \in Int /\ Key(3) \in Int /\ Key(6) \in Int /\ Key(7) \in Int /\ Key(8) \in Int
    <3> HIDE DEF Key
    <3>1. QED
      BY <1>8
  <2>2. PICK a \in Int, b \in Int, c \in Int, e \in Int, f \in Int :
           /\ a = Key(1) /\ b = Key(3) /\ c = Key(6) /\ e = Key(7) /\ f = Key(8)
    BY <2>1
  <2>3. \/ b <= a /\ c <= a /\ e <= a /\ f <= a
        \/ a <= b /\ c <= b /\ e <= b /\ f <= b
        \/ a <= c /\ b <= c /\ e <= c /\ f <= c
        \/ a <= e /\ b <= e /\ c <= e /\ f <= e
        \/ a <= f /\ b <= f /\ c <= f /\ e <= f
    OBVIOUS
  <2> HIDE DEF Key
  <2>4. a <= a /\ b <= b /\ c <= c /\ e <= e /\ f <= f
    OBVIOUS
  <2>5. QED
    BY <2>2, <2>3, <2>4
<1>9. best # {}
  <2>1. PICK i \in Five : \A j \in Five : Key(j) <= Key(i)
    BY <1>7
  <2>2. \A j \in Five : ~better(j, i)
    <3>1. TAKE j \in Five
    <3>2. Key(j) <= Key(i) /\ Key(j) \in Int /\ Key(i) \in Int
      BY <1>8, <2>1
    <3>3. ~(Key(j) > Key(i))
      <4> HIDE DEF Key
      <4>1. QED
        BY <3>2
    <3>4. QED
      BY <1>5, <3>3
  <2>3. i \in Places /\ r[i].weight > 0
    BY <1>1, <1>3
  <2>4. i \in best
    BY <1>3, <1>6, <2>2, <2>3
  <2>5. QED
    BY <2>4
<1>10. best \in SUBSET Places
  OBVIOUS
<1>11. \E i \in best : \A j \in best : i <= j
  <2> HIDE DEF best
  <2>1. QED
    BY <1>9, <1>10, LeastPlace
<1>12. PICK i \in best : Best(d) = r[i] /\ \A j \in best : i <= j
  <2> HIDE DEF best
  <2>1. QED
    BY <1>4, <1>11
<1>13. i \in Five
  BY <1>2, <1>3
<1>14. \A j \in Five : ~better(j, i)
  BY <1>3
<1>15. \A j \in Five : Key(j) <= Key(i)
  <2>1. TAKE j \in Five
  <2>2. ~(Key(j) > Key(i)) /\ Key(j) \in Int /\ Key(i) \in Int
    BY <1>5, <1>8, <1>13, <1>14
  <2> HIDE DEF Key
  <2>3. QED
    BY <2>2
<1>16. \A j \in Five : Key(j) = Key(i) => j \in best
  <2>1. SUFFICES ASSUME NEW j \in Five, Key(j) = Key(i) PROVE j \in best
    OBVIOUS
  <2>2. \A k \in Five : ~better(k, j)
    <3>1. TAKE k \in Five
    <3>2. Key(k) <= Key(j) /\ Key(k) \in Int /\ Key(j) \in Int
      BY <1>8, <1>15, <2>1
    <3>3. ~(Key(k) > Key(j))
      <4> HIDE DEF Key
      <4>1. QED
        BY <3>2
    <3>4. QED
      BY <1>5, <3>3
  <2>3. QED
    BY <1>1, <1>3, <1>6, <2>2
<1>17. \A j \in Five :
          /\ r[j].score <= r[i].score
          /\ r[j].score = r[i].score
                => /\ r[j].weight <= r[i].weight
                   /\ r[j].weight = r[i].weight => i <= j
  <2>1. TAKE j \in Five
  <2>2. ~better(j, i)
    BY <1>14
  <2>3. /\ r[j].score \in Int /\ r[i].score \in Int /\ r[j].weight \in Int /\ r[i].weight \in Int
    BY <1>1, <1>13
  <2>4. r[j].score = r[i].score /\ r[j].weight = r[i].weight => Key(j) = Key(i)
    OBVIOUS
  <2>5. Key(j) = Key(i) => i <= j
    <3> HIDE DEF Key, best
    <3>1. QED
      BY <1>12, <1>16
  <2> HIDE DEF Key, best
  <2>6. QED
    BY <2>2, <2>3, <2>4, <2>5
<1>18. QED
  <2> HIDE DEF best, Key
  <2>1. QED
    BY <1>12, <1>13, <1>17 DEF r, FirstOfBest

(* The RSI strategy, whose target is under twice its risk, is never the best *)
(* of a stock that scores so high.                                           *)
LEMMA RewardOfHigh ==
    ASSUME NEW d \in StockRecord, ~HasFundamentals(d), Technical(d) >= 5370, d.price >= 200
    PROVE  RiskReward(d) >= 200
<1>1. PICK i \in {1, 3, 6, 7, 8} : FirstOfBest(d, i)
  BY BestOf
<1>2. i # 8
  <2>1. SUFFICES ASSUME i = 8 PROVE FALSE
    OBVIOUS
  <2> DEFINE M == Minervini(d).score
             D == Darvas(d).score
             N == Donchian(d).score
             E == Crossover(d).score
             R == RsiStrategy(d).score
  <2>2. M \in 0..100 /\ D \in 0..100 /\ N \in 0..100 /\ E \in 0..100 /\ R \in 0..100
    BY TechnicalScores
  <2>3. M * 25 + D * 15 + N * 10 + E * 5 + R * 5 >= 5370
    BY DEF Technical
  <2>4. /\ Minervini(d).weight = 25 /\ Darvas(d).weight = 15 /\ Donchian(d).weight = 10
        /\ Crossover(d).weight = 5 /\ RsiStrategy(d).weight = 5
    BY TechnicalScores
  <2>5. \A j \in {1, 3, 6, 7} :
          /\ Strategies(d)[j].score <= R
          /\ Strategies(d)[j].score = R
                => Strategies(d)[j].weight <= 5 /\ (Strategies(d)[j].weight = 5 => 8 <= j)
    BY <1>1, <2>1, <2>4, PlacesOf DEF FirstOfBest
  <2>6. M < R /\ D < R /\ N < R /\ E < R
    <3>1. M <= R /\ (M = R => 25 <= 5)
      BY <2>4, <2>5, PlacesOf
    <3>2. D <= R /\ (D = R => 15 <= 5)
      BY <2>4, <2>5, PlacesOf
    <3>3. N <= R /\ (N = R => 10 <= 5)
      BY <2>4, <2>5, PlacesOf
    <3>4. E <= R /\ (E = R => 8 <= 7)
      BY <2>4, <2>5, PlacesOf
    <3> HIDE DEF M, D, N, E, R
    <3>5. QED
      BY <2>2, <3>1, <3>2, <3>3, <3>4
  <2>7. R <= 85 \/ (Unfallen(d) /\ Surge(d, 100))
    BY DEF RsiStrategy, Points
  <2>8. M < 100 => M <= 90
    BY DEF Minervini, Points
  <2>9. D < 100 => D <= 90
    BY DEF Darvas, Points
  <2>10. N < 100 => N <= 90
    BY DEF Donchian, Points
  <2>11. E < 100 /\ Unfallen(d) /\ Surge(d, 100) => E <= 40
    BY DEF Crossover, Points
  <2> HIDE DEF M, D, N, E, R
  <2>12. QED
    BY <2>2, <2>3, <2>6, <2>7, <2>8, <2>9, <2>10, <2>11
<1>3. d.dma50 > 0
  BY HighScoreEvidence DEF AboveMean
<1>4. Best(d) = Minervini(d) \/ Best(d) = Darvas(d) \/ Best(d) = Donchian(d) \/ Best(d) = Crossover(d)
  BY <1>1, <1>2, PlacesOf DEF FirstOfBest
<1>5. QED
  BY <1>3, <1>4, RewardsOf DEF RiskReward

LEMMA RewardType ==
    ASSUME NEW d \in StockRecord, ~HasFundamentals(d) PROVE RiskReward(d) \in Int
<1>1. PICK i \in {1, 3, 6, 7, 8} : Best(d) = Strategies(d)[i]
  BY BestOf DEF FirstOfBest
<1>2. \/ Best(d) = Minervini(d) \/ Best(d) = Darvas(d) \/ Best(d) = Donchian(d)
      \/ Best(d) = Crossover(d) \/ Best(d) = RsiStrategy(d)
  BY <1>1, PlacesOf
<1>3. d.price \in Nat /\ d.dma50 \in Nat
  BY DEF StockRecord
<1>4. \A percent \in 94..97 : PercentOf(d, percent) \in Int
  <2>1. TAKE percent \in 94..97
  <2>2. PICK x \in Int : x = d.price * percent
    BY <1>3
  <2>3. RoundDiv(x, 100) \in Int
    BY Rounding
  <2>4. QED
    BY <2>2, <2>3 DEF PercentOf
<1>5. \A fallback \in 96..97, percent \in 94..97 : StopUnderMean(d, fallback, percent) \in Int
  <2>1. TAKE fallback \in 96..97, percent \in 94..97
  <2>2. PICK a \in Int, b \in Int : a = d.price * percent /\ b = d.price * fallback
    BY <1>3
  <2>3. PICK x \in Int :
           x = LET mean == IF d.dma50 # 0 THEN 100 * d.dma50 ELSE b IN IF mean < a THEN mean ELSE a
    BY <1>3
  <2>4. RoundDiv(x, 100) \in Int
    BY Rounding
  <2>5. QED
    BY <2>2, <2>3, <2>4 DEF StopUnderMean
<1>6. Best(d).stop \in Int /\ Best(d).reward[Len(Best(d).reward)] \in Nat
  <2>1. Minervini(d).stop \in Int /\ Minervini(d).reward[Len(Minervini(d).reward)] \in Nat
    BY <1>5 DEF Minervini
  <2>2. Darvas(d).stop \in Int /\ Darvas(d).reward[Len(Darvas(d).reward)] \in Nat
    BY <1>5 DEF Darvas
  <2>3. Donchian(d).stop \in Int /\ Donchian(d).reward[Len(Donchian(d).reward)] \in Nat
    BY <1>4 DEF Donchian
  <2>4. Crossover(d).stop \in Int /\ Crossover(d).reward[Len(Crossover(d).reward)] \in Nat
    BY <1>4 DEF Crossover
  <2>5. RsiStrategy(d).stop \in Int /\ RsiStrategy(d).reward[Len(RsiStrategy(d).reward)] \in Nat
    BY <1>4 DEF RsiStrategy
  <2>6. QED
    BY <1>2, <2>1, <2>2, <2>3, <2>4, <2>5
<1>7. PICK stop \in Int, multiple \in Nat :
         stop = Best(d).stop /\ multiple = Best(d).reward[Len(Best(d).reward)]
  BY <1>6
<1>8. ASSUME stop < d.price PROVE RewardRatio(d.price, d.price - stop, multiple) \in Int
  <2>1. PICK risk \in Nat : risk = d.price - stop /\ risk > 0
    BY <1>3, <1>8
  <2>2. PICK x \in Int : x = 10 * d.price + risk * multiple
    <3>1. risk * multiple \in Int
      BY <2>1
    <3>2. QED
      BY <1>3, <3>1
  <2>3. PICK y \in Int : y = RoundDiv(x, 10)
    BY Rounding
  <2>4. PICK z \in Int : z = 100 * (y - d.price)
    BY <1>3
  <2>5. RoundDiv(z, risk) \in Int
    BY <2>1 DEF RoundDiv
  <2>6. QED
    BY <2>1, <2>2, <2>3, <2>4, <2>5 DEF RewardRatio
<1>9. QED
  BY <1>3, <1>7, <1>8 DEF RiskReward, RewardOf

-----------------------------------------------------------------------------
(* A higher price.                                                           *)

(* d with its price raised to that of e.                                     *)
Raised(d, e) ==
    /\ d \in StockRecord /\ e \in StockRecord
    /\ e.price >= d.price /\ d.high >= d.price /\ e.rs >= d.rs
    /\ e.high = Greater(d.high, e.price)
    /\ \A field \in {"previous", "open", "dma50", "dma150", "dma200", "year_high", "volume",
                     "average", "rsi", "cap", "pe", "roe", "roce", "debt", "sales", "profit",
                     "earnings", "cash", "holding", "sector"} : e[field] = d[field]

LEMMA RaisedFields ==
    ASSUME NEW d, NEW e, Raised(d, e)
    PROVE  /\ d.price \in Nat /\ e.price \in Nat /\ d.previous \in Nat /\ d.open \in Nat
           /\ d.high \in Nat /\ e.high \in Nat /\ d.dma50 \in Nat /\ d.dma150 \in Nat
           /\ d.dma200 \in Nat /\ d.year_high \in Nat /\ d.volume \in Nat /\ d.average \in Nat
           /\ d.rs \in Nat /\ e.rs \in Nat /\ d.rsi \in Nat
           /\ e.previous = d.previous /\ e.open = d.open /\ e.dma50 = d.dma50
           /\ e.dma150 = d.dma150 /\ e.dma200 = d.dma200 /\ e.year_high = d.year_high
           /\ e.volume = d.volume /\ e.average = d.average /\ e.rsi = d.rsi
           /\ e.cap = d.cap /\ e.pe = d.pe /\ e.roe = d.roe /\ e.roce = d.roce /\ e.debt = d.debt
           /\ e.sales = d.sales /\ e.profit = d.profit /\ e.earnings = d.earnings
           /\ e.cash = d.cash /\ e.holding = d.holding /\ e.sector = d.sector
  BY DEF Raised, StockRecord

(* What holds of a price holds of a higher one.                              *)
LEMMA RaisedConditions ==
    ASSUME NEW d, NEW e, Raised(d, e)
    PROVE  /\ AboveMean(d, d.dma50) => AboveMean(e, e.dma50)
           /\ AboveMean(d, d.dma150) => AboveMean(e, e.dma150)
           /\ AboveMean(d, d.dma200) => AboveMean(e, e.dma200)
           /\ NearYearHigh(d) => NearYearHigh(e)
           /\ Unfallen(d) => Unfallen(e)
           /\ (d.open > 0 => d.price >= d.open) => (e.open > 0 => e.price >= e.open)
           /\ (d.high > 0 => 100 * d.price >= 98 * d.high)
                 => (e.high > 0 => 100 * e.price >= 98 * e.high)
           /\ (d.price >= d.high /\ 100 * d.price >= 98 * d.year_high)
                 => (e.price >= e.high /\ 100 * e.price >= 98 * e.year_high)
           /\ \A percent : Surge(e, percent) <=> Surge(d, percent)
<1>1. e.price >= d.price /\ d.high >= d.price /\ e.high = Greater(d.high, e.price)
  BY DEF Raised
<1>2. \A percent : Surge(e, percent) <=> Surge(d, percent)
  BY RaisedFields DEF Surge
<1>3. /\ AboveMean(d, d.dma50) => AboveMean(e, e.dma50)
      /\ AboveMean(d, d.dma150) => AboveMean(e, e.dma150)
      /\ AboveMean(d, d.dma200) => AboveMean(e, e.dma200)
  BY <1>1, RaisedFields DEF AboveMean
<1>4. NearYearHigh(d) => NearYearHigh(e)
  BY <1>1, RaisedFields DEF NearYearHigh
<1>5. /\ Unfallen(d) => Unfallen(e)
      /\ (d.open > 0 => d.price >= d.open) => (e.open > 0 => e.price >= e.open)
  BY <1>1, RaisedFields DEF Unfallen
<1>6. /\ (d.high > 0 => 100 * d.price >= 98 * d.high)
            => (e.high > 0 => 100 * e.price >= 98 * e.high)
      /\ (d.price >= d.high /\ 100 * d.price >= 98 * d.year_high)
            => (e.price >= e.high /\ 100 * e.price >= 98 * e.year_high)
  BY <1>1, RaisedFields DEF Greater
<1>7. QED
  BY <1>2, <1>3, <1>4, <1>5, <1>6, Zenon

LEMMA PointsGrow ==
    ASSUME NEW c, NEW k, c => k, NEW n \in Nat
    PROVE  Points(c, n) \in Int /\ Points(k, n) \in Int /\ Points(c, n) <= Points(k, n)
  BY DEF Points

LEMMA RaisedTechnical ==
    ASSUME NEW d, NEW e, Raised(d, e)
    PROVE  /\ Minervini(d).score <= Minervini(e).score
           /\ Darvas(d).score <= Darvas(e).score
           /\ Donchian(d).score <= Donchian(e).score
           /\ Crossover(d).score <= Crossover(e).score
           /\ RsiStrategy(d).score <= RsiStrategy(e).score
<1>1. (d.rs >= 80 => e.rs >= 80) /\ (d.rs >= 70 => e.rs >= 70)
  BY RaisedFields DEF Raised
<1>2. Minervini(d).score <= Minervini(e).score
  BY <1>1, RaisedFields, RaisedConditions DEF Minervini, Points
<1>3. Darvas(d).score <= Darvas(e).score
  BY <1>1, RaisedFields, RaisedConditions DEF Darvas, Points
<1>4. Donchian(d).score <= Donchian(e).score
  BY RaisedFields, RaisedConditions DEF Donchian, Points
<1>5. Crossover(d).score <= Crossover(e).score
  BY RaisedFields, RaisedConditions DEF Crossover, Points
<1>6. RsiStrategy(d).score <= RsiStrategy(e).score
  BY RaisedFields, RaisedConditions DEF RsiStrategy, Points
<1>7. QED
  BY <1>2, <1>3, <1>4, <1>5, <1>6

LEMMA RaisedFundamental ==
    ASSUME NEW d, NEW e, Raised(d, e), HasFundamentals(d)
    PROVE  HasFundamentals(e) /\ Fundamental(d) <= Fundamental(e)
<1>1. HasFundamentals(e)
  <2>1. /\ e.cap = d.cap /\ e.pe = d.pe /\ e.roe = d.roe /\ e.roce = d.roce /\ e.debt = d.debt
        /\ e.sales = d.sales /\ e.profit = d.profit /\ e.earnings = d.earnings
        /\ e.cash = d.cash /\ e.holding = d.holding /\ e.sector = d.sector
    BY RaisedFields
  <2>2. QED
    BY <2>1 DEF HasFundamentals
<1>2. d.rs >= 80 => e.rs >= 80
  BY RaisedFields DEF Raised
<1>3. CanSlim(d).score <= CanSlim(e).score
  BY <1>1, <1>2, RaisedFields, RaisedConditions DEF CanSlim, Points
<1>4. Lynch(d).score <= Lynch(e).score
  BY <1>1, RaisedFields, RaisedConditions DEF Lynch, Points
<1>5. Buffett(d).score <= Buffett(e).score
  BY <1>1, RaisedFields DEF Buffett, Points
<1>6. /\ CanSlim(d).score \in Int /\ Lynch(d).score \in Int /\ Buffett(d).score \in Int
      /\ CanSlim(e).score \in Int /\ Lynch(e).score \in Int /\ Buffett(e).score \in Int
  BY <1>1, FullScores
<1>7. QED
  BY <1>1, <1>3, <1>4, <1>5, <1>6 DEF Fundamental

LEMMA RaisedOverall ==
    ASSUME NEW d, NEW e, Raised(d, e) PROVE Overall(d) <= Overall(e)
<1>1. Technical(d) \in Int /\ Technical(e) \in Int /\ Technical(d) <= Technical(e)
  <2>1. /\ Minervini(d).score \in Int /\ Darvas(d).score \in Int /\ Donchian(d).score \in Int
        /\ Crossover(d).score \in Int /\ RsiStrategy(d).score \in Int
        /\ Minervini(e).score \in Int /\ Darvas(e).score \in Int /\ Donchian(e).score \in Int
        /\ Crossover(e).score \in Int /\ RsiStrategy(e).score \in Int
    BY TechnicalScores
  <2>2. QED
    BY <2>1, RaisedTechnical DEF Technical
<1>2. CASE HasFundamentals(d)
  <2>1. HasFundamentals(e) /\ Fundamental(d) <= Fundamental(e)
    BY <1>2, RaisedFundamental
  <2>3. Fundamental(d) \in Int /\ Fundamental(e) \in Int
    <3>1. /\ CanSlim(d).score \in Int /\ Lynch(d).score \in Int /\ Buffett(d).score \in Int
          /\ CanSlim(e).score \in Int /\ Lynch(e).score \in Int /\ Buffett(e).score \in Int
      BY <1>2, <2>1, FullScores
    <3>2. QED
      BY <3>1 DEF Fundamental
  <2>2. PICK m \in Int, n \in Int :
           m = Technical(d) + Fundamental(d) /\ n = Technical(e) + Fundamental(e)
    BY <1>1, <2>3
  <2>4. m <= n
    BY <1>1, <2>1, <2>2, <2>3
  <2>5. RoundDiv(m, 100) <= RoundDiv(n, 100)
    BY <2>4, RoundingGrows
  <2>6. QED
    BY <1>2, <2>1, <2>2, <2>5, FullOverall
<1>3. CASE ~HasFundamentals(d)
  <2>1. ~HasFundamentals(e)
    <3>1. /\ e.cap = d.cap /\ e.pe = d.pe /\ e.roe = d.roe /\ e.roce = d.roce /\ e.debt = d.debt
          /\ e.sales = d.sales /\ e.profit = d.profit /\ e.earnings = d.earnings
          /\ e.cash = d.cash /\ e.holding = d.holding /\ e.sector = d.sector
      BY RaisedFields
    <3>2. QED
      BY <1>3, <3>1 DEF HasFundamentals
  <2>2. RoundDiv(Technical(d), 60) <= RoundDiv(Technical(e), 60)
    BY <1>1, RoundingGrows
  <2>3. QED
    BY <1>3, <2>1, <2>2, TechnicalOverall
<1>4. QED
  BY <1>2, <1>3

-----------------------------------------------------------------------------
(* The theorems of the walk.                                                 *)

LEMMA HighOverall ==
    ASSUME NEW d, ~HasFundamentals(d), Overall(d) >= 90 PROVE Technical(d) >= 5370
<1>1. Technical(d) \in Int /\ Overall(d) = RoundDiv(Technical(d), 60)
  BY TechnicalOverall
<1>2. PICK n \in Int : n = Technical(d)
  BY <1>1
<1>3. n >= 5370
  BY <1>1, <1>2, RoundedAbove
<1>4. QED
  BY <1>2, <1>3

(* A quoted stock stays one: every move of the price, the volume and the     *)
(* averages leaves a record of natural numbers with a positive price under   *)
(* the day's high, and its relative strength in step with its 52-week range. *)
THEOREM AlertTypesHold == AlertSpec => []AlertTypeOK
  BY AlertTypeInit, AlertTypeStep, PTL DEF AlertSpec

(* An alert has its evidence (decision_engine.py scan): with the thresholds  *)
(* of the code, or higher ones, no mix of the other points outweighs a       *)
(* missing trend, a far high, a thin volume or a poor reward.                *)
THEOREM AlertsHaveEvidence ==
    ASSUME AlertThreshold \in Int, AlertThreshold >= 90,
           MinRiskReward \in Int, MinRiskReward >= 200
    PROVE  AlertSpec => []AlertEvidence
<1>1. AlertTypeOK => AlertEvidence
  <2> SUFFICES ASSUME AlertTypeOK, ShouldAlert(stock)
               PROVE  /\ AboveMean(stock, stock.dma50) /\ AboveMean(stock, stock.dma200)
                      /\ NearYearHigh(stock) /\ Surge(stock, 120) /\ Liquid(stock)
                      /\ RiskReward(stock) >= 200
    BY DEF AlertEvidence
  <2>1. stock \in StockRecord /\ OnlyCapKnown(stock)
    BY DEF AlertTypeOK, Quoted
  <2>2. Overall(stock) \in Int /\ Overall(stock) >= 90
    BY OverallType DEF ShouldAlert
  <2>3. ~HasFundamentals(stock)
    <3>1. stock.cap = 0
      BY <2>1, <2>2, CapLimitsOverall
    <3>2. QED
      BY <2>1, <3>1 DEF HasFundamentals, OnlyCapKnown
  <2>4. Technical(stock) >= 5370
    BY <2>2, <2>3, HighOverall
  <2>5. RiskReward(stock) \in Int
    BY <2>1, <2>3, RewardType
  <2>6. RiskReward(stock) >= 200 /\ Liquid(stock)
    BY <2>5 DEF ShouldAlert
  <2>7. QED
    BY <2>1, <2>4, <2>6, HighScoreEvidence
<1>2. QED
  BY <1>1, AlertTypesHold, PTL

(* Without fundamentals the score decides alone: at the thresholds of the    *)
(* code the count of passed strategies and the reward of the best one never  *)
(* hold back an alert (decision_engine.py scan, max by score and weight).    *)
THEOREM TheScoreDecides ==
    ASSUME AlertThreshold \in Int, AlertThreshold >= 90,
           MinPassed \in Int, MinPassed <= 3, MinRiskReward \in Int, MinRiskReward <= 200
    PROVE  AlertSpec => []ScoreDecides
<1>1. AlertTypeOK => ScoreDecides
  <2> SUFFICES ASSUME AlertTypeOK, ~HasFundamentals(stock), Overall(stock) >= AlertThreshold,
                      Liquid(stock), stock.price >= 200
               PROVE  ShouldAlert(stock)
    BY DEF ScoreDecides
  <2>1. stock \in StockRecord
    BY DEF AlertTypeOK, Quoted
  <2>2. Overall(stock) >= 90
    BY OverallType
  <2>3. Technical(stock) >= 5370
    BY <2>2, HighOverall
  <2>4. Cardinality(Passed(stock)) \in Nat /\ Cardinality(Passed(stock)) >= 3
    BY <2>1, <2>3, PassedThree
  <2>5. RiskReward(stock) \in Int /\ RiskReward(stock) >= 200
    BY <2>1, <2>3, RewardOfHigh, RewardType
  <2>6. QED
    BY <2>4, <2>5 DEF ShouldAlert
<1>2. QED
  BY <1>1, AlertTypesHold, PTL

(* A rise of the live price never lowers the score of any stock, with or     *)
(* without fundamentals (decision_engine.py, the eight strategies).          *)
THEOREM TheScoreFollowsThePrice == AlertSpec => ScoreFollowsPrice
<1>1. AlertTypeOK /\ AlertTypeOK' /\ [AlertNext]_alertVars
        => [PriceMoves /\ stock'.price >= stock.price => Overall(stock') >= Overall(stock)]_alertVars
  <2> SUFFICES ASSUME AlertTypeOK, AlertTypeOK', PriceMoves, stock'.price >= stock.price
               PROVE  Overall(stock') >= Overall(stock)
    OBVIOUS
  <2>1. PICK price, high, rs :
          /\ stock' = [stock EXCEPT !.price = price, !.high = high, !.rs = rs]
          /\ high = Greater(stock.high, price)
    BY Zenon DEF PriceMoves, Moved
  <2>2. /\ stock \in StockRecord /\ stock' \in StockRecord /\ stock.high >= stock.price
        /\ stock.rs = PlaceInRange(stock, stock.price)
        /\ stock'.rs = PlaceInRange(stock', stock'.price)
    BY DEF AlertTypeOK, Quoted
  <2>3. \A field \in {"previous", "open", "dma50", "dma150", "dma200", "year_high", "year_low",
                     "volume", "average", "rsi", "cap", "pe", "roe", "roce", "debt", "sales",
                     "profit", "earnings", "cash", "holding", "sector"} :
           stock'[field] = stock[field]
    BY <2>1, <2>2 DEF StockRecord
  <2>4. stock'.high = Greater(stock.high, stock'.price)
    BY <2>1, <2>2 DEF StockRecord
  <2>5. stock'.rs >= stock.rs
    <3>1. stock'.year_low = stock.year_low /\ stock'.year_high = stock.year_high
      BY <2>3
    <3>2. PlaceInRange(stock', stock'.price) = PlaceInRange(stock, stock'.price)
      BY <3>1 DEF PlaceInRange
    <3>3. /\ stock.year_low \in Nat /\ stock.year_high \in Nat /\ stock.price \in Nat
          /\ stock'.price \in Nat
      BY <2>2 DEF StockRecord
    <3>4. PlaceInRange(stock, stock.price) <= PlaceInRange(stock, stock'.price)
      BY <3>3, PlaceGrows
    <3>5. PlaceInRange(stock, stock.price) \in Int /\ PlaceInRange(stock, stock'.price) \in Int
      BY <3>3, PlaceGrows
    <3>6. QED
      BY <2>2, <3>2, <3>4, <3>5
  <2>6. Raised(stock, stock')
    BY <2>2, <2>3, <2>4, <2>5 DEF Raised
  <2>7. QED
    BY <2>6, RaisedOverall, OverallType
<1>2. QED
  BY <1>1, AlertTypesHold, PTL DEF AlertSpec, ScoreFollowsPrice

(* A stock of which only the market cap is known never alerts and is no      *)
(* candidate, because the engine (decision_engine.py scan) then divides      *)
(* by the weights of the three fundamental strategies too.                   *)
THEOREM KnownCapNeverAlerts ==
    ASSUME AlertThreshold \in Int, AlertThreshold >= 80
    PROVE  AlertSpec => []CapNeverAlerts
<1>1. AlertTypeOK => CapNeverAlerts
  <2> SUFFICES ASSUME AlertTypeOK, stock.cap # 0 PROVE Status(stock) \in {"Watchlist", "Ignore"}
    BY DEF CapNeverAlerts
  <2>1. Overall(stock) \in Int /\ Overall(stock) < 80
    BY CapLimitsOverall DEF AlertTypeOK, Quoted
  <2>2. ~ShouldAlert(stock)
    BY <2>1 DEF ShouldAlert
  <2>3. QED
    BY <2>1, <2>2 DEF Status
<1>2. QED
  BY <1>1, AlertTypesHold, PTL
=============================================================================
