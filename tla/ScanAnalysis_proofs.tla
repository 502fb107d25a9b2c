-------------------------- MODULE ScanAnalysis_proofs --------------------------
(* Proofs about the scanner service (ScannerService) and about the three     *)
(* machines of ScanAnalysis beside each other.  What a report says is traced *)
(* to the analysis it was made from by the ...Of lemmas; the invariants      *)
(* relate the last report to the candles as they are now.                    *)
EXTENDS ScanAnalysis, ScoreWalk_proofs, AlertWalk_proofs, FiniteSetTheorems,
        SequenceTheorems, WellFoundedInduction, TLAPS

-----------------------------------------------------------------------------
(* What a report says of the analysis; stale scans.                          *)

LEMMA ClampType == ASSUME NEW x PROVE Clamp(x) \in 0..100
  BY DEF Clamp

LEMMA ScoreOf == ASSUME NEW s PROVE Score(s) \in 0..100 /\ Score(s) <= Cap(s)
<1>1. Penalized(s) \in 0..100
  BY ClampType DEF Penalized
<1>2. Cap(s) \in {0, 54, 69, 84, 100}
  BY DEF Cap
<1>3. QED
  BY <1>1, <1>2 DEF Score

LEMMA CappedClass ==
    ASSUME NEW s
    PROVE  /\ Cap(s) <= 69 => Classification(s) \notin {"STRONG", "HIGH_QUALITY"}
           /\ Cap(s) <= 54 => Classification(s) = "WEAK"
<1>1. Score(s) \in 0..100 /\ Score(s) <= Cap(s) /\ Cap(s) \in {0, 54, 69, 84, 100}
  BY ScoreOf DEF Cap
<1>2. QED
  BY <1>1 DEF Classification

LEMMA StaleCap ==
    ASSUME NEW s
    PROVE  /\ s.stale => Cap(s) <= 69
           /\ "price_extended" \in s.yes => Cap(s) <= 69
           /\ s.quality = "STALE" => Cap(s) <= 54
  BY DEF Cap, CappedAt69

LEMMA SnapshotOf ==
    ASSUME NEW x, NEW c
    PROVE  /\ ScorerSnapshot(x, c).quality = x.quality
           /\ ScorerSnapshot(x, c).stale = IsStaleScan
           /\ RisksOf(x) \subseteq ScorerSnapshot(x, c).yes
           /\ ScorerSnapshot(x, c).rs_rating = RsRating(x.strength.composite, Peers)
  BY DEF ScorerSnapshot

LEMMA ReportOf ==
    ASSUME NEW x, NEW s, NEW d
    PROVE  LET r == ScanReport(x, s, d)
           IN  /\ r.candles = Len(frame) /\ r.day = LatestDay(benchmark)
               /\ r.quality = x.quality /\ r.stale = s.stale /\ r.pivot = x.pivot.level
               /\ r.lifecycle = Lifecycle(x) /\ r.readiness = Readiness(x) /\ r.failed = x.failed
               /\ r.extended = x.base.extended /\ r.score = Score(s) /\ r.class = Classification(s)
               /\ r.rating = s.rs_rating /\ r.overall = Overall(d)
               /\ (r.pre_breakout = IsPreBreakout(x)) /\ (r.breakout = IsBreakout(x))
  BY DEF ScanReport

LEMMA AnalysisOf ==
    ASSUME NEW v, NEW u, NEW t, NEW r, NEW p, NEW w
    PROVE  LET x == StockSnapshot(v, u, t, r, p, w)
           IN  /\ x.price = quote.price /\ x.quality = QualityState(frame, benchmark)
               /\ x.lookback = Min({Len(frame), W.QUALITY_TARGET_LOOKBACK})
               /\ x.pivot = p /\ x.vcp = w /\ x.base = BaseQuality(frame, t, p, w)
               /\ x.failed = FailedBreakouts(frame, p) /\ x.structure = t /\ x.strength = r
  BY DEF StockSnapshot

LEMMA StaleScan ==
    /\ Scan.stale => Scan.class \notin {"STRONG", "HIGH_QUALITY"}
    /\ Scan.quality = "STALE" =>
          /\ Scan.class = "WEAK" /\ Scan.lifecycle = "INVALID_SETUP"
          /\ ~Scan.pre_breakout /\ ~Scan.breakout
<1> DEFINE x == Analysis
           s == ScorerSnapshot(x, MarketContext(benchmark))
<1>1. Scan = ScanReport(x, s, Stock)
  BY DEF Scan, Scored
<1>2. s.quality = x.quality
  BY SnapshotOf
<1> HIDE DEF x, s
<1>3. ASSUME Scan.stale PROVE Scan.class \notin {"STRONG", "HIGH_QUALITY"}
  <2>1. s.stale
    BY <1>1, <1>3, ReportOf
  <2>2. QED
    BY <1>1, <2>1, ReportOf, StaleCap, CappedClass
<1>4. ASSUME Scan.quality = "STALE"
      PROVE  /\ Scan.class = "WEAK" /\ Scan.lifecycle = "INVALID_SETUP"
             /\ ~Scan.pre_breakout /\ ~Scan.breakout
  <2>1. x.quality = "STALE"
    BY <1>1, <1>4, ReportOf
  <2>2. Scan.class = "WEAK"
    BY <1>1, <1>2, <2>1, ReportOf, StaleCap, CappedClass
  <2>3. Scan.lifecycle = "INVALID_SETUP"
    BY <1>1, <2>1, ReportOf DEF Lifecycle, InvalidSetup
  <2>4. ~IsPreBreakout(x) /\ ~IsBreakout(x)
    BY <2>1 DEF IsPreBreakout, IsBreakout, Usable
  <2>5. QED
    BY <1>1, <2>2, <2>3, <2>4, ReportOf
<1>5. QED
  BY <1>3, <1>4

LEMMA OneReport == ASSUME NEW r PROVE Known(<<r>>) /\ <<r>>[1] = r /\ ~Known(None)
  BY DEF Known, None

(* A scan of a stale candle or quote stays under the two upper classes, and  *)
(* a stock the daily gate finds stale is INVALID_SETUP, WEAK and no          *)
(* candidate (scorer caps, lifecycle gate and engine gate agree).            *)
THEOREM StaleStaysWeak == ServiceSpec => []StaleNeverStrong
<1>1. ServiceInit => StaleNeverStrong
  BY OneReport DEF ServiceInit, StaleNeverStrong
<1>2. StaleNeverStrong /\ [ServiceNext]_serviceVars => StaleNeverStrong'
  <2> SUFFICES ASSUME StaleNeverStrong, [ServiceNext]_serviceVars PROVE StaleNeverStrong'
    OBVIOUS
  <2>1. CASE ScanLiveMarket
    <3>1. report' = <<Scan>>
      BY <2>1 DEF ScanLiveMarket
    <3> HIDE DEF Scan
    <3>2. report'[1] = Scan
      BY <3>1, OneReport
    <3>3. QED
      BY <3>2, StaleScan DEF StaleNeverStrong
  <2>2. CASE CloseSession
    BY <2>2 DEF CloseSession, StaleNeverStrong
  <2>3. CASE QuoteMoves
    BY <2>3 DEF QuoteMoves, StaleNeverStrong
  <2>4. CASE UNCHANGED serviceVars
    BY <2>4 DEF serviceVars, StaleNeverStrong
  <2>5. QED
    BY <2>1, <2>2, <2>3, <2>4 DEF ServiceNext
<1>3. QED
  BY <1>1, <1>2, PTL DEF ServiceSpec

-----------------------------------------------------------------------------
(* Ranges of the figures of a report.                                        *)

LEMMA GreatestOfTwo ==
    ASSUME NEW a \in Int, NEW b \in Int
    PROVE  /\ Max({a, b}) \in {a, b} /\ Max({a, b}) >= a /\ Max({a, b}) >= b
           /\ Min({a, b}) \in {a, b} /\ Min({a, b}) <= a /\ Min({a, b}) <= b
<1>1. \E x \in {a, b} : \A y \in {a, b} : x >= y
  OBVIOUS
<1>2. \E x \in {a, b} : \A y \in {a, b} : x <= y
  OBVIOUS
<1>3. QED
  BY <1>1, <1>2 DEF Max, Min

LEMMA OverallRange == ASSUME NEW d PROVE Overall(d) \in 0..100
<1>1. Technical(d) \in Int /\ Technical(d) >= 0 /\ Technical(d) <= 6000
  BY TechnicalType
<1>2. CASE HasFundamentals(d)
  <2>1. PICK b \in 0..100, e \in 0..100, f \in 0..100 :
           CanSlim(d).score = b /\ Lynch(d).score = e /\ Buffett(d).score = f
    BY <1>2, FullScores
  <2>2. PICK n \in Int : n = Technical(d) + Fundamental(d) /\ 0 <= n /\ n <= 10000
    BY <1>1, <2>1 DEF Fundamental
  <2>3. RoundDiv(n, 100) \in 0..100
    <3>1. PICK r \in Int : /\ r = RoundDiv(n, 100)
                          /\ 200 * r <= 2 * n + 100 /\ 2 * n - 100 <= 200 * r
      BY Rounding
    <3>2. r \in 0..100
      BY <2>2, <3>1
    <3>3. QED
      BY <3>1, <3>2
  <2>4. QED
    BY <1>2, <2>2, <2>3, FullOverall
<1>3. CASE ~HasFundamentals(d)
  <2>1. PICK n \in Int : n = Technical(d) /\ 0 <= n /\ n <= 6000
    BY <1>1
  <2>2. RoundDiv(n, 60) \in 0..100
    <3>1. PICK r \in Int : /\ r = RoundDiv(n, 60)
                          /\ 120 * r <= 2 * n + 60 /\ 2 * n - 60 <= 120 * r
      BY Rounding
    <3>2. r \in 0..100
      BY <2>1, <3>1
    <3>3. QED
      BY <3>1, <3>2
  <2>3. QED
    BY <1>3, <2>1, <2>2, TechnicalOverall
<1>4. QED
  BY <1>2, <1>3

LEMMA QuotientType ==
    ASSUME NEW n \in Int, NEW d \in Nat, d > 0 PROVE RoundDiv(n, d) \in Int
<1>1. n \div d \in Int
  OBVIOUS
<1>2. RoundDiv(n, d) = n \div d \/ RoundDiv(n, d) = n \div d + 1
  BY DEF RoundDiv
<1>3. QED
  BY <1>1, <1>2

LEMMA RatingType == ASSUME NEW o PROVE Known(RsRating(o, Peers)) => RsRating(o, Peers)[1] \in 1..100
<1> DEFINE rated == {i \in DOMAIN Peers : Known(Peers[i])}
           total == Cardinality(rated) + 1
           lower == Cardinality({i \in rated : Peers[i][1] < o[1]})
           equal == Cardinality({i \in rated : Peers[i][1] = o[1]}) + 1
           rank2 == 2 * lower + equal + 1
           rating == IF total = 1 THEN 100
                     ELSE RoundDiv((rank2 - 2) * 99 + 2 * (total - 1), 2 * (total - 1))
<1>1. IsFiniteSet(DOMAIN Peers)
  <2>1. DOMAIN Peers = 1..Len(Peers) /\ Len(Peers) \in Nat
    BY QuotesAssumption
  <2>2. 1 \in Int /\ Len(Peers) \in Int
    BY <2>1
  <2>3. IsFiniteSet(1..Len(Peers))
    BY <2>2, FS_Interval, Zenon
  <2>4. QED
    BY <2>1, <2>3
<1>2. IsFiniteSet(rated) /\ IsFiniteSet({i \in rated : Peers[i][1] < o[1]})
      /\ IsFiniteSet({i \in rated : Peers[i][1] = o[1]})
  BY <1>1, FS_Subset
<1>3. total \in Nat /\ total >= 1 /\ lower \in Nat /\ equal \in Nat
  BY <1>2, FS_CardinalityType
<1>4. RsRating(o, Peers) = IF Known(o) THEN <<Max({1, Min({100, rating})})>> ELSE None
  BY DEF RsRating
<1> HIDE DEF total, lower, equal
<1>5. rating \in Int
  <2>1. (rank2 - 2) * 99 + 2 * (total - 1) \in Int
    BY <1>3
  <2>2. CASE total = 1
    BY <2>2
  <2>3. CASE total # 1
    <3>1. 2 * (total - 1) \in Nat /\ 2 * (total - 1) > 0
      BY <1>3, <2>3
    <3> HIDE DEF rank2
    <3>2. QED
      BY <2>1, <2>3, <3>1, QuotientType
  <2>4. QED
    BY <2>2, <2>3
<1> HIDE DEF rating
<1>6. PICK m : m = Min({100, rating})
  OBVIOUS
<1>7. 100 \in Int /\ 1 \in Int
  OBVIOUS
<1>8. m \in {100, rating} /\ m <= 100
  BY <1>5, <1>6, <1>7, GreatestOfTwo, Zenon
<1>9. m \in Int
  BY <1>5, <1>8
<1>10. Max({1, m}) \in {1, m} /\ Max({1, m}) >= 1
  BY <1>7, <1>9, GreatestOfTwo, Zenon
<1>11. Max({1, m}) \in 1..100
  BY <1>8, <1>9, <1>10
<1>12. CASE Known(o)
  <2>1. RsRating(o, Peers) = <<Max({1, m})>>
    BY <1>4, <1>6, <1>12
  <2>2. QED
    BY <1>11, <2>1
<1>13. CASE ~Known(o)
  BY <1>4, <1>13 DEF Known
<1>14. QED
  BY <1>12, <1>13

-----------------------------------------------------------------------------
(* Types of the service.                                                     *)

(* A stock that is scanned has two sessions, its benchmark one.              *)
ServiceInv ==
    /\ ServiceTypeOK
    /\ Len(frame) >= 2 /\ benchmark # <<>>

LEMMA CandleType ==
    ASSUME NEW last \in Bar, NEW move \in Int, NEW wick \in Nat, NEW volume \in Nat, NEW day \in Int,
           Candle(last, move, wick, volume, day).low > 0
    PROVE  Candle(last, move, wick, volume, day) \in Bar
<1>1. last.close \in Int
  BY DEF Bar
<1>2. PICK a \in Int, b \in Int : a = last.close /\ b = last.close + move
  BY <1>1
<1>3. PICK h : h = Max({a, b})
  OBVIOUS
<1>4. PICK k : k = Min({a, b})
  OBVIOUS
<1>5. h \in {a, b} /\ h >= a /\ h >= b /\ k \in {a, b} /\ k <= a /\ k <= b
  BY <1>2, <1>3, <1>4, GreatestOfTwo, Zenon
<1>6. h \in Int /\ k \in Int
  BY <1>5
<1>7. Candle(last, move, wick, volume, day)
        = [close |-> b, high |-> h + wick, low |-> k - wick, volume |-> volume, day |-> day, flagged |-> FALSE]
  BY <1>2, <1>3, <1>4 DEF Candle
<1>8. h + wick \in Int /\ k - wick \in Int /\ k - wick <= b /\ b <= h + wick
  BY <1>2, <1>5, <1>6
<1>9. QED
  BY <1>2, <1>7, <1>8 DEF Bar

LEMMA ScanTypes ==
    /\ Scan.lifecycle \in Lifecycles
    /\ Scan.readiness \in 0..100 /\ Scan.score \in 0..100
    /\ Scan.overall \in 0..100
    /\ Known(Scan.rating) => Scan.rating[1] \in 1..100
<1> DEFINE x == Analysis
           s == ScorerSnapshot(x, MarketContext(benchmark))
<1>1. Scan = ScanReport(x, s, Stock)
  BY DEF Scan, Scored
<1>2. s.rs_rating = RsRating(x.strength.composite, Peers)
  BY SnapshotOf
<1> HIDE DEF x, s
<1>3. Lifecycle(x) \in Lifecycles
  BY DEF Lifecycle, Lifecycles
<1>4. Readiness(x) \in 0..100
  BY ClampType DEF Readiness
<1>5. /\ Scan.lifecycle = Lifecycle(x) /\ Scan.readiness = Readiness(x) /\ Scan.score = Score(s)
      /\ Scan.overall = Overall(Stock) /\ Scan.rating = RsRating(x.strength.composite, Peers)
  BY <1>1, <1>2, ReportOf
<1>6. Scan.lifecycle \in Lifecycles /\ Scan.readiness \in 0..100
  BY <1>3, <1>4, <1>5
<1>7. Scan.score \in 0..100 /\ Scan.overall \in 0..100
  BY <1>5, ScoreOf, OverallRange
<1>8. Known(Scan.rating) => Scan.rating[1] \in 1..100
  BY <1>5, RatingType
<1>9. QED
  BY <1>6, <1>7, <1>8

LEMMA ServiceTypeInit == ServiceInit => ServiceInv
<1>1. SUFFICES ASSUME ServiceInit PROVE ServiceInv
  OBVIOUS
<1>2. PICK start \in Starts : frame = start.stock /\ benchmark = start.benchmark
  BY <1>1 DEF ServiceInit
<1>3. frame \in Seq(Bar) /\ benchmark \in Seq(Bar) /\ Len(frame) >= 2 /\ benchmark # <<>>
  BY <1>2, StartsAssumption
<1>4. closed = 0 /\ due = TRUE /\ report = None
  BY <1>1 DEF ServiceInit
<1>5. QED
  BY <1>3, <1>4, QuotesAssumption DEF ServiceInv, ServiceTypeOK, Known

LEMMA LatestType ==
    ASSUME NEW s \in Seq(Bar), s # <<>>
    PROVE  Latest(s) \in Bar /\ LatestDay(s) \in Int
  BY DEF Latest, LatestDay, Bar

(* A session adds one bar to the benchmark and one or none to the stock.     *)
LEMMA Closing ==
    ASSUME ServiceInv, CloseSession
    PROVE  \E bar \in Bar, index \in Bar :
              /\ index.day = LatestDay(benchmark) + 1
              /\ benchmark' = Append(benchmark, index)
              /\ frame' = frame \/ frame' = Append(frame, bar)
<1>1. PICK c \in Closes :
         LET day == LatestDay(benchmark) + 1
             bar == Candle(Latest(frame), c.move, c.wick, c.volume, day)
             index == Candle(Latest(benchmark), c.market, 4, 100, day)
         IN  /\ bar.low > 0 /\ index.low > 0
             /\ benchmark' = Append(benchmark, index)
             /\ frame' = Append(frame, bar) \/ frame' = frame
  BY DEF CloseSession
<1> DEFINE day == LatestDay(benchmark) + 1
           bar == Candle(Latest(frame), c.move, c.wick, c.volume, day)
           index == Candle(Latest(benchmark), c.market, 4, 100, day)
<1>2. frame \in Seq(Bar) /\ frame # <<>> /\ benchmark \in Seq(Bar) /\ benchmark # <<>>
  BY DEF ServiceInv, ServiceTypeOK
<1>3. Latest(frame) \in Bar /\ Latest(benchmark) \in Bar /\ day \in Int
  BY <1>2, LatestType
<1>4. c.move \in Int /\ c.market \in Int /\ c.wick \in Nat /\ c.volume \in Nat
  BY ClosesAssumption
<1>5. index.day = day
  BY DEF Candle
<1>6. 4 \in Nat /\ 100 \in Nat
  OBVIOUS
<1> HIDE DEF day
<1>7. bar \in Bar /\ index \in Bar
  <2>1. bar.low > 0 /\ index.low > 0
    BY <1>1 DEF day
  <2>2. QED
    BY <1>3, <1>4, <1>6, <2>1, CandleType
<1>8. /\ benchmark' = Append(benchmark, index)
      /\ frame' = frame \/ frame' = Append(frame, bar)
  BY <1>1 DEF day
<1> HIDE DEF bar, index
<1>9. QED
  BY <1>5, <1>7, <1>8 DEF day

LEMMA ServiceTypeStep == ServiceInv /\ [ServiceNext]_serviceVars => ServiceInv'
<1> SUFFICES ASSUME ServiceInv, [ServiceNext]_serviceVars PROVE ServiceInv'
  OBVIOUS
<1>1. CASE ScanLiveMarket
  <2>1. report' = <<Scan>> /\ due' = FALSE /\ UNCHANGED <<frame, benchmark, closed>>
    BY <1>1 DEF ScanLiveMarket
  <2> HIDE DEF Scan
  <2>2. report'[1] = Scan
    BY <2>1, OneReport
  <2>3. Known(report)' => /\ report'[1].lifecycle \in Lifecycles
                          /\ report'[1].readiness \in 0..100 /\ report'[1].score \in 0..100
                          /\ report'[1].overall \in 0..100
                          /\ Known(report'[1].rating) => report'[1].rating[1] \in 1..100
    BY <2>2, ScanTypes
  <2>4. /\ frame' \in Seq(Bar) /\ benchmark' \in Seq(Bar) /\ Len(frame') >= 2 /\ benchmark' # <<>>
        /\ closed' \in 0..MaxSessions /\ due' \in BOOLEAN
    BY <2>1 DEF ServiceInv, ServiceTypeOK
  <2>5. QED
    BY <2>3, <2>4 DEF ServiceInv, ServiceTypeOK
<1>2. CASE CloseSession
  <2>1. PICK bar \in Bar, index \in Bar :
           /\ benchmark' = Append(benchmark, index)
           /\ frame' = frame \/ frame' = Append(frame, bar)
    BY <1>2, Closing
  <2>2. closed' = closed + 1 /\ closed < MaxSessions /\ due' = TRUE /\ report' = report
    BY <1>2 DEF CloseSession
  <2>3. /\ frame \in Seq(Bar) /\ benchmark \in Seq(Bar) /\ Len(frame) >= 2
        /\ closed \in 0..MaxSessions /\ MaxSessions \in Nat
    BY QuotesAssumption DEF ServiceInv, ServiceTypeOK
  <2>4. frame' \in Seq(Bar) /\ benchmark' \in Seq(Bar) /\ Len(frame') >= 2 /\ benchmark' # <<>>
    <3>1. benchmark' \in Seq(Bar) /\ benchmark' # <<>>
      BY <2>1, <2>3, AppendProperties
    <3>2. Append(frame, bar) \in Seq(Bar) /\ Len(Append(frame, bar)) = Len(frame) + 1
      BY <2>1, <2>3, AppendProperties
    <3>3. Len(frame) \in Nat
      BY <2>3
    <3>4. Len(frame) + 1 >= 2
      BY <2>3, <3>3
    <3>5. CASE frame' = frame
      BY <2>3, <3>1, <3>5
    <3>6. CASE frame' = Append(frame, bar)
      BY <3>1, <3>2, <3>4, <3>6
    <3>7. QED
      BY <2>1, <3>5, <3>6
  <2>5. closed' \in 0..MaxSessions
    BY <2>2, <2>3
  <2>6. QED
    BY <2>2, <2>4, <2>5 DEF ServiceInv, ServiceTypeOK
<1>3. CASE QuoteMoves
  BY <1>3 DEF QuoteMoves, ServiceInv, ServiceTypeOK
<1>4. CASE UNCHANGED serviceVars
  BY <1>4 DEF serviceVars, ServiceInv, ServiceTypeOK
<1>5. QED
  BY <1>1, <1>2, <1>3, <1>4 DEF ServiceNext

(* The stored candles stay well formed, and whatever they are, readiness,    *)
(* scores and rating leave the service within their ranges.                  *)
THEOREM ServiceTypesHold == ServiceSpec => []ServiceTypeOK
<1>1. ServiceInv => ServiceTypeOK
  BY DEF ServiceInv
<1>2. QED
  BY <1>1, ServiceTypeInit, ServiceTypeStep, PTL DEF ServiceSpec

-----------------------------------------------------------------------------
(* Types of the three machines.                                              *)

ScanInv ==
    /\ TypeOK
    /\ part \in {"score", "alert", "service"}
    /\ part = "service" => ServiceInv

LEMMA IdleTypes ==
    ASSUME Shares # {}
    PROVE  /\ ScoreIdle => ScoreTypeOK
           /\ AlertIdle => AlertTypeOK
           /\ ServiceIdle => ServiceTypeOK
<1>1. BareSetup \in Snapshot
  BY DEF BareSetup, Snapshot, SignalNames, Percent, Regimes, QualityStates, TrendSignals,
         VolatilitySignals
<1>2. (CHOOSE d \in Shares : TRUE) \in Shares
  OBVIOUS
<1>3. Quoted(CHOOSE d \in Shares : TRUE)
  BY <1>2, SharesAssumption
<1>4. ScoreIdle => ScoreTypeOK
  BY <1>1, ChangesAssumption DEF ScoreIdle, ScoreTypeOK
<1>5. AlertIdle => AlertTypeOK
  BY <1>3, MovesAssumption DEF AlertIdle, AlertTypeOK
<1>6. ServiceIdle => ServiceTypeOK
  <2>1. <<>> \in Seq(Bar) /\ 0 \in 0..MaxSessions
    BY EmptySeq, QuotesAssumption
  <2>2. QED
    BY <2>1 DEF ServiceIdle, ServiceTypeOK, Known
<1>7. QED
  BY <1>4, <1>5, <1>6

(* Every figure of a scan stays in its range, in all three machines.         *)
THEOREM TypesHold == ASSUME Shares # {} PROVE Spec => []TypeOK
<1>1. Init => ScanInv
  <2>1. ServiceInv => ServiceTypeOK
    BY DEF ServiceInv
  <2>2. QED
    BY <2>1, IdleTypes, ScoreTypeInit, AlertTypeInit, ServiceTypeInit DEF Init, ScanInv, TypeOK
<1>2. ScanInv /\ [Next]_vars => ScanInv'
  <2> SUFFICES ASSUME ScanInv, [Next]_vars PROVE ScanInv'
    OBVIOUS
  <2>0. ScoreTypeOK /\ AlertTypeOK /\ ServiceTypeOK
    BY DEF ScanInv, TypeOK
  <2>S. ASSUME UNCHANGED scoreVars PROVE ScoreTypeOK'
    BY <2>0, <2>S DEF scoreVars, ScoreTypeOK
  <2>A. ASSUME UNCHANGED alertVars PROVE AlertTypeOK'
    BY <2>0, <2>A DEF alertVars, AlertTypeOK
  <2>V. ASSUME UNCHANGED serviceVars
        PROVE  ServiceTypeOK' /\ (ServiceInv => ServiceInv')
    BY <2>0, <2>V DEF serviceVars, ServiceTypeOK, ServiceInv
  <2>1. CASE part = "score" /\ ScoreNext /\ UNCHANGED <<part, alertVars, serviceVars>>
    <3>1. part' = "score" /\ UNCHANGED alertVars /\ UNCHANGED serviceVars
      BY <2>1
    <3>2. ScoreTypeOK'
      BY <2>0, <2>1, ScoreTypeStep
    <3>3. QED
      BY <3>1, <3>2, <2>A, <2>V DEF ScanInv, TypeOK
  <2>2. CASE part = "alert" /\ AlertNext /\ UNCHANGED <<part, scoreVars, serviceVars>>
    <3>1. part' = "alert" /\ UNCHANGED scoreVars /\ UNCHANGED serviceVars
      BY <2>2
    <3>2. AlertTypeOK'
      BY <2>0, <2>2, AlertTypeStep
    <3>3. QED
      BY <3>1, <3>2, <2>S, <2>V DEF ScanInv, TypeOK
  <2>3. CASE part = "service" /\ ServiceNext /\ UNCHANGED <<part, scoreVars, alertVars>>
    <3>1. part' = "service" /\ UNCHANGED scoreVars /\ UNCHANGED alertVars
      BY <2>3
    <3>2. ServiceInv'
      BY <2>3, ServiceTypeStep DEF ScanInv
    <3>3. ServiceTypeOK'
      BY <3>2 DEF ServiceInv
    <3>4. QED
      BY <3>1, <3>2, <3>3, <2>S, <2>A DEF ScanInv, TypeOK
  <2>4. CASE UNCHANGED vars
    <3>1. UNCHANGED part /\ UNCHANGED scoreVars /\ UNCHANGED alertVars /\ UNCHANGED serviceVars
      BY <2>4 DEF vars
    <3>2. QED
      BY <3>1, <2>S, <2>A, <2>V DEF ScanInv, TypeOK
  <2>5. QED
    BY <2>1, <2>2, <2>3, <2>4 DEF Next
<1>3. ScanInv => TypeOK
  BY DEF ScanInv
<1>4. QED
  BY <1>1, <1>2, <1>3, PTL DEF Spec

-----------------------------------------------------------------------------
(* A structure is broken by the candles alone.                               *)

(* What breaks a structure whatever the pivot and the price.                 *)
Rough(legs, volatility, structure) ==
    \/ \E i \in Steps(legs) : 100 * Depth(legs[i]) >= 105 * Depth(legs[i - 1])
    \/ volatility.expanding
    \/ Decreasing(legs) = <<FALSE>> /\ ~Tight(structure) /\ ~HigherLegLows(legs, structure)
    \/ \E i \in DOMAIN legs : Depth(legs[i]) > 3500
Broken ==
    \/ QualityState(frame, benchmark) \notin {"FRESH", "PARTIAL"}
    \/ Min({Len(frame), W.QUALITY_TARGET_LOOKBACK}) < W.LIFECYCLE_MIN_LOOKBACK
    \/ /\ ~(Len(frame) < W.VCP_MIN_HISTORY)
       /\ Rough(Contractions(frame), Volatility(frame), PriceStructure(frame))

LEMMA SevereRisks ==
    ASSUME NEW f, NEW p, NEW v, NEW u, NEW t,
           f.decreasing = Decreasing(f.legs), f.higher = HigherLegLows(f.legs, t)
    PROVE  (FatalRisks(f, p, v, u, t)
              \cap {"EXPANDING_VOLATILITY", "LOOSE_RANDOM_RANGES",
                    "EXCESSIVE_CONTRACTION_DEPTH", "WIDENING_CONTRACTIONS"} # {})
             <=> Rough(f.legs, v, t)
<1> DEFINE widening == \E i \in Steps(f.legs) : 100 * Depth(f.legs[i]) >= 105 * Depth(f.legs[i - 1])
           deep == \E i \in DOMAIN f.legs : Depth(f.legs[i]) > 3500
           loose == f.decreasing = <<FALSE>> /\ ~Tight(t) /\ ~f.higher
<1>1. FatalRisks(f, p, v, u, t)
         =      (IF widening THEN {"WIDENING_CONTRACTIONS"} ELSE {})
           \cup (IF v.expanding THEN {"EXPANDING_VOLATILITY"} ELSE {})
           \cup (IF HeavyDistribution(u) THEN {"HEAVY_DISTRIBUTION"} ELSE {})
           \cup (IF loose THEN {"LOOSE_RANDOM_RANGES"} ELSE {})
           \cup (IF ~Known(p.level) THEN {"NO_MEANINGFUL_PIVOT"} ELSE {})
           \cup (IF deep THEN {"EXCESSIVE_CONTRACTION_DEPTH"} ELSE {})
           \cup (IF p.too_far THEN {"PRICE_TOO_FAR_FROM_PIVOT"} ELSE {})
  BY DEF FatalRisks
<1>2. Rough(f.legs, v, t) <=> widening \/ v.expanding \/ loose \/ deep
  BY DEF Rough
<1> HIDE DEF widening, deep, loose
<1>3. QED
  BY <1>1, <1>2

LEMMA SevereOf ==
    ASSUME NEW x, NEW v, NEW u, NEW t, NEW p, x.vcp = VCP(frame, v, u, t, p)
    PROVE  SevereStructure(x)
             <=> /\ ~(Len(frame) < W.VCP_MIN_HISTORY)
                 /\ Rough(Contractions(frame), v, t)
<1> DEFINE severe == {"EXPANDING_VOLATILITY", "LOOSE_RANDOM_RANGES",
                      "EXCESSIVE_CONTRACTION_DEPTH", "WIDENING_CONTRACTIONS"}
           f == Found(Contractions(frame), v, u, t, p)
           fatal == FatalRisks(f, p, v, u, t)
<1>1. CASE Len(frame) < W.VCP_MIN_HISTORY
  <2>1. x.vcp.risks = {}
    BY <1>1 DEF VCP, NoVCP
  <2>2. QED
    BY <1>1, <2>1 DEF SevereStructure
<1>2. CASE ~(Len(frame) < W.VCP_MIN_HISTORY)
  <2>1. x.vcp = Judgement(f, fatal)
    BY <1>2 DEF VCP
  <2>2. /\ f.legs = Contractions(frame) /\ f.decreasing = Decreasing(f.legs)
        /\ f.higher = HigherLegLows(f.legs, t)
    BY DEF Found
  <2>3. (fatal \cap severe # {}) <=> Rough(Contractions(frame), v, t)
    BY <2>2, SevereRisks
  <2> HIDE DEF f, fatal
  <2>4. /\ x.vcp.invalid = <<fatal # {}>>
        /\ \/ x.vcp.risks = fatal
           \/ x.vcp.risks = fatal \cup {"TOO_FEW_CONTRACTIONS"}
    BY <2>1 DEF Judgement, VCPOf
  <2>5. (x.vcp.risks \cap severe # {}) <=> (fatal \cap severe # {})
    BY <2>4
  <2>6. fatal \cap severe # {} => Is(x.vcp.invalid)
    <3>1. SUFFICES ASSUME fatal \cap severe # {} PROVE Is(x.vcp.invalid)
      OBVIOUS
    <3>2. (fatal # {}) = TRUE
      BY <3>1
    <3>3. QED
      BY <2>4, <3>2 DEF Is
  <2>7. SevereStructure(x) <=> (Is(x.vcp.invalid) /\ x.vcp.risks \cap severe # {})
    BY DEF SevereStructure
  <2>8. QED
    BY <1>2, <2>3, <2>5, <2>6, <2>7
<1>3. QED
  BY <1>1, <1>2

LEMMA BrokenScan == Scan.day = LatestDay(benchmark) /\ ((Scan.lifecycle = "INVALID_SETUP") <=> Broken)
<1> DEFINE v == Volatility(frame)
           u == Volume(frame)
           t == PriceStructure(frame)
           r == RelativeStrength(frame, benchmark)
           p == Pivot(frame, quote.price, t)
           w == VCP(frame, v, u, t, p)
           x == StockSnapshot(v, u, t, r, p, w)
           s == ScorerSnapshot(x, MarketContext(benchmark))
<1>A. Analysis = x
  BY Zenon DEF Analysis, AttachPivot, AttachVCP
<1>1. Scan = ScanReport(x, s, Stock)
  <2>1. Scan = ScanReport(Analysis, ScorerSnapshot(Analysis, MarketContext(benchmark)), Stock)
    BY DEF Scan, Scored
  <2> HIDE DEF x
  <2>2. QED
    BY <1>A, <2>1
<1> HIDE DEF v, u, t, r, p, w
<1>2. /\ x.quality = QualityState(frame, benchmark)
      /\ x.lookback = Min({Len(frame), W.QUALITY_TARGET_LOOKBACK})
      /\ x.vcp = w
  BY DEF StockSnapshot
<1> HIDE DEF x, s
<1>3. Scan.day = LatestDay(benchmark) /\ Scan.lifecycle = Lifecycle(x)
  BY <1>1, ReportOf
<1>4. (Lifecycle(x) = "INVALID_SETUP") <=> InvalidSetup(x)
  BY DEF Lifecycle
<1>5. SevereStructure(x) <=> (~(Len(frame) < W.VCP_MIN_HISTORY) /\ Rough(Contractions(frame), v, t))
  BY <1>2, SevereOf DEF w
<1>6. InvalidSetup(x) <=> Broken
  BY <1>2, <1>5 DEF InvalidSetup, Broken, v, t
<1>7. QED
  BY <1>3, <1>4, <1>6

(* The report never has a later session than the benchmark, and a report of  *)
(* its latest session judged the candles as they still are.                  *)
ReportInv ==
    Known(report) =>
        /\ report[1].day \in Int /\ report[1].day <= LatestDay(benchmark)
        /\ report[1].day = LatestDay(benchmark)
              => ((report[1].lifecycle = "INVALID_SETUP") <=> Broken)

LEMMA ReportInvInit == ServiceInit => ReportInv
  BY DEF ServiceInit, ReportInv, Known

LEMMA ReportInvStep == ServiceInv /\ ReportInv /\ [ServiceNext]_serviceVars => ReportInv'
<1> SUFFICES ASSUME ServiceInv, ReportInv, [ServiceNext]_serviceVars PROVE ReportInv'
  OBVIOUS
<1>0. benchmark \in Seq(Bar) /\ benchmark # <<>> /\ LatestDay(benchmark) \in Int
  BY LatestType DEF ServiceInv, ServiceTypeOK
<1>1. CASE ScanLiveMarket
  <2>1. report' = <<Scan>> /\ UNCHANGED <<frame, benchmark, closed, quote>>
    BY <1>1 DEF ScanLiveMarket
  <2>2. Broken' <=> Broken
    BY <2>1 DEF Broken
  <2>3. LatestDay(benchmark)' = LatestDay(benchmark)
    BY <2>1
  <2> HIDE DEF Scan
  <2>4. report'[1] = Scan
    BY <2>1, OneReport
  <2> HIDE DEF Broken
  <2>5. QED
    BY <1>0, <2>2, <2>3, <2>4, BrokenScan DEF ReportInv
<1>2. CASE CloseSession
  <2>1. PICK bar \in Bar, index \in Bar :
           /\ index.day = LatestDay(benchmark) + 1
           /\ benchmark' = Append(benchmark, index)
    BY <1>2, Closing
  <2>2. LatestDay(benchmark)' = LatestDay(benchmark) + 1
    <3>1. /\ Len(Append(benchmark, index)) = Len(benchmark) + 1
          /\ Append(benchmark, index)[Len(benchmark) + 1] = index
      BY <1>0, AppendProperties
    <3>2. QED
      BY <2>1, <3>1 DEF LatestDay, Latest
  <2>3. report' = report
    BY <1>2 DEF CloseSession
  <2>4. QED
    BY <1>0, <2>2, <2>3 DEF ReportInv
<1>3. CASE QuoteMoves
  <2>1. UNCHANGED <<frame, benchmark, report>>
    BY <1>3 DEF QuoteMoves
  <2>2. Broken' <=> Broken
    BY <2>1 DEF Broken
  <2>3. QED
    BY <2>1, <2>2 DEF ReportInv
<1>4. CASE UNCHANGED serviceVars
  <2>1. UNCHANGED <<frame, benchmark, report>>
    BY <1>4 DEF serviceVars
  <2>2. Broken' <=> Broken
    BY <2>1 DEF Broken
  <2>3. QED
    BY <2>1, <2>2 DEF ReportInv
<1>5. QED
  BY <1>1, <1>2, <1>3, <1>4 DEF ServiceNext

(* A quote that moves within the session neither breaks a structure nor      *)
(* repairs it.                                                               *)
THEOREM CandlesAloneBreak == ServiceSpec => QuoteNeverRevives
<1> DEFINE Same == Rescanned /\ report'[1].day = report[1].day
                     /\ report'[1].candles = report[1].candles
           Judged == (report'[1].lifecycle = "INVALID_SETUP") = (report[1].lifecycle = "INVALID_SETUP")
<1>1. ServiceInit => ServiceInv /\ ReportInv
  BY ServiceTypeInit, ReportInvInit
<1>2. ServiceInv /\ ReportInv /\ [ServiceNext]_serviceVars => (ServiceInv /\ ReportInv)'
  BY ServiceTypeStep, ReportInvStep
<1>3. ServiceInv /\ ReportInv /\ [ServiceNext]_serviceVars => [Same => Judged]_serviceVars
  <2> SUFFICES ASSUME ServiceInv, ReportInv, ServiceNext, Same PROVE Judged
    OBVIOUS
  <2>1. Known(report) /\ report' # report
    BY DEF Rescanned
  <2>2. report' = <<Scan>> /\ UNCHANGED <<frame, benchmark, closed, quote>>
    BY <2>1 DEF ServiceNext, ScanLiveMarket, CloseSession, QuoteMoves
  <2> HIDE DEF Scan
  <2>3. report'[1] = Scan
    BY <2>2, OneReport
  <2>4. report[1].day = LatestDay(benchmark)
    BY <2>3, BrokenScan
  <2> HIDE DEF Broken
  <2>5. QED
    BY <2>1, <2>3, <2>4, BrokenScan DEF ReportInv
<1>4. QED
  BY <1>1, <1>2, <1>3, PTL DEF ServiceSpec, QuoteNeverRevives

-----------------------------------------------------------------------------
(* Failed breakouts.                                                         *)

FailedAt(f, i, level) ==
    /\ 2000 * f[i - 1].close <= 2003 * level
    /\ 1000 * f[i].close >= 1003 * level
    /\ {j \in (i + 1)..(i + W.CONFIRMATION_SESSIONS) : 100 * f[j].close <= 99 * level} # {}
(* The failures of the first n sessions of f.                                *)
Failures(f, n, o) == {i \in 2..(n - W.CONFIRMATION_SESSIONS) : FailedAt(f, i, o[1])}
FailureCount(f, n, o) ==
    IF n < W.FAILED_MIN_HISTORY \/ ~Known(o) THEN 0 ELSE Cardinality(Failures(f, n, o))

LEMMA Lookbacks ==
    W.FAILED_LOOKBACK \in Nat /\ W.CONFIRMATION_SESSIONS \in Nat /\ W.FAILED_MIN_HISTORY \in Nat
  BY LookbacksAssumption

LEMMA YoungWindow ==
    ASSUME NEW f \in Seq(Bar), NEW n \in Nat, Len(f) <= n PROVE LastN(f, n) = f
<1>1. LastN(f, n) = SubSeq(f, 1, Len(f))
  <2>1. Len(f) \in Nat
    OBVIOUS
  <2>2. ~(Len(f) > n)
    BY <2>1
  <2>3. QED
    BY <2>2, Zenon DEF LastN
<1>2. QED
  <2>1. 1 \in Int /\ Len(f) \in Int /\ \A i \in 1..Len(f) : f[i] \in Bar
    OBVIOUS
  <2> DEFINE g == SubSeq(f, 1, Len(f))
  <2>2. /\ g \in Seq(Bar) /\ Len(g) = (IF 1 <= Len(f) THEN Len(f) - 1 + 1 ELSE 0)
        /\ \A i \in 1..(Len(f) - 1 + 1) : g[i] = f[1 + i - 1]
    BY <2>1, SubSeqProperties
  <2>3. Len(g) = Len(f) /\ \A i \in 1..Len(f) : g[i] = f[i]
    <3>1. Len(f) \in Nat
      OBVIOUS
    <3> HIDE DEF g
    <3>2. QED
      BY <2>2, <3>1
  <2> HIDE DEF g
  <2>4. g = f
    BY <2>2, <2>3, SeqEqual
  <2>5. QED
    BY <1>1, <2>4 DEF g

LEMMA FailedOf ==
    ASSUME NEW f \in Seq(Bar), Len(f) <= W.FAILED_LOOKBACK, NEW p
    PROVE  FailedBreakouts(f, p).count = FailureCount(f, Len(f), p.level)
<1> DEFINE A == Failures(f, Len(f), p.level)
           none == [ count |-> 0, recent |-> FALSE, days |-> None, severity |-> "NONE" ]
<1>1. LastN(f, W.FAILED_LOOKBACK) = f
  BY Lookbacks, YoungWindow
<1> DEFINE work == LastN(f, W.FAILED_LOOKBACK)
           level == p.level[1]
           after(i) == (i + 1)..(i + W.CONFIRMATION_SESSIONS)
           failed(i) == {j \in after(i) : 100 * work[j].close <= 99 * level}
           attempts == {i \in 2..(Len(work) - W.CONFIRMATION_SESSIONS) :
                          /\ 2000 * work[i - 1].close <= 2003 * level
                          /\ 1000 * work[i].close >= 1003 * level
                          /\ failed(i) # {}}
           worst == Min({work[j].close : j \in UNION {after(i) : i \in attempts}})
           days == Len(work) - Min(failed(Max(attempts)))
           found == [ count    |-> Cardinality(attempts),
                      recent   |-> days <= W.FAILED_RECENT_SESSIONS,
                      days     |-> <<days>>,
                      severity |-> IF 100 * worst <= 95 * level THEN "SEVERE"
                                   ELSE IF 100 * worst <= 97 * level THEN "MODERATE" ELSE "LOW" ]
<1>2. FailedBreakouts(f, p)
         = IF Len(f) < W.FAILED_MIN_HISTORY \/ ~Known(p.level) \/ attempts = {} THEN none
           ELSE found
  BY Zenon DEF FailedBreakouts
<1>5. attempts = A
  BY <1>1 DEF Failures, FailedAt
<1>6. found.count = Cardinality(attempts) /\ none.count = 0
  OBVIOUS
<1> HIDE DEF found, none, attempts
<1> HIDE DEF A
<1>3. Cardinality({}) = 0
  BY FS_EmptySet
<1>4. FailedBreakouts(f, p).count
         = IF Len(f) < W.FAILED_MIN_HISTORY \/ ~Known(p.level) \/ A = {} THEN 0
           ELSE Cardinality(A)
  BY <1>2, <1>5, <1>6
<1>7. QED
  BY <1>3, <1>4 DEF FailureCount, A

LEMMA FailuresGrow ==
    ASSUME NEW f, NEW m \in Int, NEW n \in Int, m <= n, NEW o
    PROVE  /\ FailureCount(f, m, o) \in Nat
           /\ FailureCount(f, m, o) <= FailureCount(f, n, o)
<1> DEFINE c == W.CONFIRMATION_SESSIONS
<1>0. c \in Nat /\ W.FAILED_MIN_HISTORY \in Nat
  BY Lookbacks
<1>1. \A k \in Int : IsFiniteSet(Failures(f, k, o))
  <2>1. TAKE k \in Int
  <2>2. 2 \in Int /\ k - c \in Int
    BY <1>0
  <2> HIDE DEF c
  <2>3. IsFiniteSet(2..(k - c))
    BY <2>2, FS_Interval, Zenon
  <2>4. Failures(f, k, o) \subseteq 2..(k - c)
    BY DEF Failures, c
  <2>5. QED
    BY <2>3, <2>4, FS_Subset
<1>2. Failures(f, m, o) \subseteq Failures(f, n, o)
  BY <1>0 DEF Failures
<1>3. /\ Cardinality(Failures(f, m, o)) \in Nat /\ Cardinality(Failures(f, n, o)) \in Nat
      /\ Cardinality(Failures(f, m, o)) <= Cardinality(Failures(f, n, o))
  BY <1>1, <1>2, FS_Subset, FS_CardinalityType
<1>4. QED
  BY <1>0, <1>3 DEF FailureCount

LEMMA FailuresStay ==
    ASSUME NEW f \in Seq(Bar), NEW e \in Bar, NEW n \in 0..Len(f), NEW o
    PROVE  FailureCount(Append(f, e), n, o) = FailureCount(f, n, o)
<1>0. W.CONFIRMATION_SESSIONS \in Nat /\ Len(f) \in Nat
  BY Lookbacks
<1>1. \A i \in 1..n : Append(f, e)[i] = f[i]
  BY <1>0, AppendProperties
<1>2. ASSUME NEW i \in 2..(n - W.CONFIRMATION_SESSIONS)
      PROVE  FailedAt(Append(f, e), i, o[1]) <=> FailedAt(f, i, o[1])
  <2>1. i \in 1..n /\ i - 1 \in 1..n /\ (i + 1)..(i + W.CONFIRMATION_SESSIONS) \subseteq 1..n
    BY <1>0
  <2> DEFINE g == Append(f, e)
  <2>2. g[i] = f[i] /\ g[i - 1] = f[i - 1]
        /\ \A j \in (i + 1)..(i + W.CONFIRMATION_SESSIONS) : g[j] = f[j]
    BY <1>1, <2>1
  <2> HIDE DEF g
  <2>3. FailedAt(g, i, o[1]) <=> FailedAt(f, i, o[1])
    BY <2>2 DEF FailedAt
  <2>4. QED
    BY <2>3 DEF g
<1>3. Failures(Append(f, e), n, o) = Failures(f, n, o)
  BY <1>2 DEF Failures
<1>4. QED
  BY <1>3 DEF FailureCount

LEMMA FailedScan ==
    ASSUME frame \in Seq(Bar), Len(frame) <= W.FAILED_LOOKBACK
    PROVE  /\ Scan.candles = Len(frame)
           /\ Scan.failed.count = FailureCount(frame, Len(frame), Scan.pivot)
<1> DEFINE v == Volatility(frame)
           u == Volume(frame)
           t == PriceStructure(frame)
           r == RelativeStrength(frame, benchmark)
           p == Pivot(frame, quote.price, t)
           w == VCP(frame, v, u, t, p)
           x == StockSnapshot(v, u, t, r, p, w)
           s == ScorerSnapshot(x, MarketContext(benchmark))
<1>1. Analysis = x
  BY Zenon DEF Analysis, AttachPivot, AttachVCP
<1>2. Scan = ScanReport(x, s, Stock)
  <2>1. Scan = ScanReport(Analysis, ScorerSnapshot(Analysis, MarketContext(benchmark)), Stock)
    BY DEF Scan, Scored
  <2> HIDE DEF x
  <2>2. QED
    BY <1>1, <2>1
<1> HIDE DEF v, u, t, r, p, w
<1>3. x.failed = FailedBreakouts(frame, p) /\ x.pivot = p
  BY DEF StockSnapshot
<1> HIDE DEF x, s
<1>4. Scan.candles = Len(frame) /\ Scan.failed = x.failed /\ Scan.pivot = x.pivot.level
  BY <1>2, ReportOf
<1>5. FailedBreakouts(frame, p).count = FailureCount(frame, Len(frame), p.level)
  BY FailedOf
<1>6. QED
  BY <1>3, <1>4, <1>5

(* The last report counted the failures of the candles it saw, and they are  *)
(* still there.                                                              *)
FailureInv ==
    Known(report) /\ Len(frame) <= W.FAILED_LOOKBACK =>
        /\ report[1].candles \in 0..Len(frame)
        /\ report[1].failed.count = FailureCount(frame, report[1].candles, report[1].pivot)

LEMMA FailureInvInit == ServiceInit => FailureInv
  BY DEF ServiceInit, FailureInv, Known

LEMMA FailureInvStep == ServiceInv /\ FailureInv /\ [ServiceNext]_serviceVars => FailureInv'
<1> SUFFICES ASSUME ServiceInv, FailureInv, [ServiceNext]_serviceVars PROVE FailureInv'
  OBVIOUS
<1>0. frame \in Seq(Bar) /\ Len(frame) \in Nat /\ W.FAILED_LOOKBACK \in Nat
  BY Lookbacks DEF ServiceInv, ServiceTypeOK
<1>1. CASE ScanLiveMarket
  <2>1. report' = <<Scan>> /\ frame' = frame
    BY <1>1 DEF ScanLiveMarket
  <2> HIDE DEF Scan
  <2>2. report'[1] = Scan
    BY <2>1, OneReport
  <2>3. Len(frame) <= W.FAILED_LOOKBACK =>
          /\ Scan.candles = Len(frame)
          /\ Scan.failed.count = FailureCount(frame, Len(frame), Scan.pivot)
    BY <1>0, FailedScan
  <2>4. Len(frame) \in 0..Len(frame)
    BY <1>0
  <2>5. QED
    BY <2>1, <2>2, <2>3, <2>4 DEF FailureInv
<1>2. CASE CloseSession
  <2>1. PICK bar \in Bar : frame' = frame \/ frame' = Append(frame, bar)
    BY <1>2, Closing
  <2>2. report' = report
    BY <1>2 DEF CloseSession
  <2>3. CASE frame' = frame
    BY <1>0, <2>2, <2>3 DEF FailureInv
  <2>4. CASE frame' = Append(frame, bar)
    <3>1. Len(frame') = Len(frame) + 1
      BY <1>0, <2>4, AppendProperties
    <3>2. SUFFICES ASSUME Known(report), Len(frame') <= W.FAILED_LOOKBACK
          PROVE  /\ report[1].candles \in 0..Len(frame')
                 /\ report[1].failed.count
                      = FailureCount(frame', report[1].candles, report[1].pivot)
      BY <2>2 DEF FailureInv
    <3>3. Len(frame) <= W.FAILED_LOOKBACK
      BY <1>0, <3>1, <3>2
    <3>4. /\ report[1].candles \in 0..Len(frame)
          /\ report[1].failed.count = FailureCount(frame, report[1].candles, report[1].pivot)
      BY <3>2, <3>3 DEF FailureInv
    <3>5. FailureCount(frame', report[1].candles, report[1].pivot)
            = FailureCount(frame, report[1].candles, report[1].pivot)
      BY <1>0, <2>4, <3>4, FailuresStay
    <3>6. QED
      BY <1>0, <3>1, <3>4, <3>5
  <2>5. QED
    BY <2>1, <2>3, <2>4
<1>3. CASE QuoteMoves
  BY <1>3 DEF QuoteMoves, FailureInv
<1>4. CASE UNCHANGED serviceVars
  BY <1>4 DEF serviceVars, FailureInv
<1>5. QED
  BY <1>1, <1>2, <1>3, <1>4 DEF ServiceNext

(* A breakout judged failed stays failed while its pivot stands and the      *)
(* session is in sight (prebreakout failed breakouts).                       *)
THEOREM FailuresAreNotForgotten == ServiceSpec => FailureStands
<1> DEFINE Same == /\ Rescanned /\ Len(frame) <= W.FAILED_LOOKBACK
                   /\ report[1].failed.count > 0 /\ report'[1].pivot = report[1].pivot
           Kept == report'[1].failed.count >= report[1].failed.count
<1>1. ServiceInit => ServiceInv /\ FailureInv
  BY ServiceTypeInit, FailureInvInit
<1>2. ServiceInv /\ FailureInv /\ [ServiceNext]_serviceVars => (ServiceInv /\ FailureInv)'
  BY ServiceTypeStep, FailureInvStep
<1>3. ServiceInv /\ FailureInv /\ [ServiceNext]_serviceVars => [Same => Kept]_serviceVars
  <2> SUFFICES ASSUME ServiceInv, FailureInv, ServiceNext, Same PROVE Kept
    OBVIOUS
  <2>1. Known(report) /\ Known(report') /\ report' # report /\ Len(frame) <= W.FAILED_LOOKBACK
        /\ frame \in Seq(Bar)
    BY DEF Rescanned, ServiceInv, ServiceTypeOK
  <2>2. frame' = frame /\ report' = <<Scan>>
    BY <2>1 DEF ServiceNext, ScanLiveMarket, CloseSession, QuoteMoves
  <2>3. report'[1].candles = Len(frame)
    <3> HIDE DEF Scan
    <3>1. QED
      BY <2>1, <2>2, OneReport, FailedScan
  <2>4. FailureInv'
    BY FailureInvStep
  <2>5. /\ report[1].candles \in 0..Len(frame)
        /\ report[1].failed.count = FailureCount(frame, report[1].candles, report[1].pivot)
        /\ report'[1].failed.count = FailureCount(frame, Len(frame), report[1].pivot)
    BY <2>1, <2>2, <2>3, <2>4 DEF FailureInv
  <2>6. Len(frame) \in Int /\ report[1].candles \in Int /\ report[1].candles <= Len(frame)
    BY <2>1, <2>5
  <2>7. FailureCount(frame, report[1].candles, report[1].pivot)
            <= FailureCount(frame, Len(frame), report[1].pivot)
        /\ FailureCount(frame, report[1].candles, report[1].pivot) \in Nat
        /\ FailureCount(frame, Len(frame), report[1].pivot) \in Nat
    BY <2>6, FailuresGrow
  <2>8. QED
    BY <2>5, <2>7
<1>4. QED
  BY <1>1, <1>2, <1>3, PTL DEF ServiceSpec, FailureStands

-----------------------------------------------------------------------------
(* Extremes, ranks and sorted sequences.                                     *)

(* A non-empty set of naturals has a least member.                           *)
LEMMA LeastNat ==
    ASSUME NEW N \in SUBSET Nat, N # {}
    PROVE  \E m \in N : \A k \in N : m <= k
<1> DEFINE Less == {ss \in Nat \X Nat : ss[1] < ss[2]}
<1>1. IsWellFoundedOn(Less, Nat)
  BY NatLessThanWellFounded DEF OpToRel
<1>2. \A k, m \in Nat : <<k, m>> \in Less <=> k < m
  OBVIOUS
<1> HIDE DEF Less
<1>3. PICK m \in N : \A k \in N : <<k, m>> \notin Less
  BY <1>1, WFMin
<1>4. ASSUME NEW k \in N PROVE m <= k
  <2>1. k \in Nat /\ m \in Nat /\ <<k, m>> \notin Less
    BY <1>3
  <2>2. QED
    BY <1>2, <2>1
<1>5. QED
  BY <1>4

(* A finite, non-empty set has an extreme member of every strict order.      *)
LEMMA Extreme ==
    ASSUME NEW S, IsFiniteSet(S), S # {}, NEW R,
           \A x \in S : <<x, x>> \notin R,
           \A x, y, z \in S : <<x, y>> \in R /\ <<y, z>> \in R => <<x, z>> \in R
    PROVE  \E x \in S : \A y \in S : <<x, y>> \notin R
<1> DEFINE After(x) == {y \in S : <<x, y>> \in R}
           T == {Cardinality(After(x)) : x \in S}
<1>1. \A x \in S : IsFiniteSet(After(x)) /\ Cardinality(After(x)) \in Nat
  <2>1. TAKE x \in S
  <2>2. After(x) \subseteq S
    OBVIOUS
  <2> HIDE DEF After
  <2>3. QED
    BY <2>2, FS_Subset, FS_CardinalityType
<1>2. T \in SUBSET Nat /\ T # {}
  <2> HIDE DEF After
  <2>1. QED
    BY <1>1
<1>3. PICK n \in T : \A m \in T : n <= m
  <2> HIDE DEF T
  <2>1. QED
    BY <1>2, LeastNat
<1>4. PICK x \in S : n = Cardinality(After(x))
  BY <1>3
<1>5. \A y \in S : <<x, y>> \notin R
  <2> SUFFICES ASSUME NEW y \in S, <<x, y>> \in R PROVE FALSE
    OBVIOUS
  <2>1. After(y) \subseteq After(x) /\ y \in After(x) /\ y \notin After(y)
    OBVIOUS
  <2>2. IsFiniteSet(After(x)) /\ IsFiniteSet(After(y)) /\ Cardinality(After(x)) \in Nat
        /\ Cardinality(After(y)) \in Nat
    BY <1>1
  <2>3. Cardinality(After(y)) \in T
    OBVIOUS
  <2> HIDE DEF After, T
  <2>4. Cardinality(After(y)) < Cardinality(After(x))
    BY <2>1, <2>2, FS_Subset
  <2>5. QED
    BY <1>3, <1>4, <2>2, <2>3, <2>4
<1>6. QED
  BY <1>5

(* Max and Min of a finite, non-empty set of integers are what they say.     *)
LEMMA IntExtremes ==
    ASSUME NEW S \in SUBSET Int, IsFiniteSet(S), S # {}
    PROVE  /\ Max(S) \in S /\ \A x \in S : Max(S) >= x
           /\ Min(S) \in S /\ \A x \in S : Min(S) <= x
<1> DEFINE Up == {z \in S \X S : z[1] < z[2]}
           Down == {z \in S \X S : z[1] > z[2]}
<1>1. \A x, y \in S : (<<x, y>> \in Up <=> x < y) /\ (<<x, y>> \in Down <=> x > y)
  OBVIOUS
<1> HIDE DEF Up, Down
<1>2. /\ \A x \in S : <<x, x>> \notin Up /\ <<x, x>> \notin Down
      /\ \A x, y, z \in S : <<x, y>> \in Up /\ <<y, z>> \in Up => <<x, z>> \in Up
      /\ \A x, y, z \in S : <<x, y>> \in Down /\ <<y, z>> \in Down => <<x, z>> \in Down
  BY <1>1
<1>3. \E x \in S : \A y \in S : x >= y
  <2>1. PICK x \in S : \A y \in S : <<x, y>> \notin Up
    BY <1>2, Extreme, Zenon
  <2>2. \A y \in S : ~(x < y)
    BY <1>1, <2>1
  <2>3. QED
    BY <2>1, <2>2
<1>4. \E x \in S : \A y \in S : x <= y
  <2>1. PICK x \in S : \A y \in S : <<x, y>> \notin Down
    BY <1>2, Extreme, Zenon
  <2>2. \A y \in S : ~(x > y)
    BY <1>1, <2>1
  <2>3. QED
    BY <2>1, <2>2
<1>5. QED
  BY <1>3, <1>4 DEF Max, Min

(* Members of D before i, its place in the order R, and when R orders D.     *)
Under(R, D, i) == {j \in D : <<j, i>> \in R}
Rank(R, D, i) == 1 + Cardinality(Under(R, D, i))
TotalOrder(R, D) ==
    /\ \A x \in D : <<x, x>> \notin R
    /\ \A x, y, z \in D : <<x, y>> \in R /\ <<y, z>> \in R => <<x, z>> \in R
    /\ \A x, y \in D : x = y \/ <<x, y>> \in R \/ <<y, x>> \in R

(* In a finite set in total order every place up to its size is taken.       *)
LEMMA Ranked ==
    ASSUME NEW D, IsFiniteSet(D), NEW R, TotalOrder(R, D),
           NEW k \in 1..Cardinality(D)
    PROVE  \E i \in D : Rank(R, D, i) = k
<1> DEFINE n == Cardinality(D)
           U(i) == Under(R, D, i)
           rank == [i \in D |-> 1 + Cardinality(U(i))]
           others == (1..n) \ {k}
<1>0. n \in Nat
  BY FS_CardinalityType
<1>1. ASSUME NEW i \in D PROVE rank[i] \in 1..n
  <2>1. U(i) \subseteq D \ {i}
    BY DEF Under, TotalOrder
  <2>2. IsFiniteSet(D \ {i}) /\ Cardinality(D \ {i}) = n - 1
    BY FS_RemoveElement
  <2> HIDE DEF U
  <2>3. IsFiniteSet(U(i)) /\ Cardinality(U(i)) <= n - 1 /\ Cardinality(U(i)) \in Nat
    BY <2>1, <2>2, FS_Subset, FS_CardinalityType
  <2>4. QED
    BY <1>0, <2>3
<1>2. ASSUME NEW i \in D, NEW j \in D, <<i, j>> \in R PROVE rank[i] < rank[j]
  <2>1. U(i) \subseteq U(j) /\ i \in U(j) /\ i \notin U(i) /\ U(j) \subseteq D
    BY <1>2 DEF Under, TotalOrder
  <2> HIDE DEF U
  <2>2. IsFiniteSet(U(j)) /\ IsFiniteSet(U(i))
    BY <2>1, FS_Subset
  <2>3. Cardinality(U(i)) \in Nat /\ Cardinality(U(j)) \in Nat
        /\ Cardinality(U(i)) < Cardinality(U(j))
    BY <2>1, <2>2, FS_Subset, FS_CardinalityType
  <2>4. QED
    BY <2>3
<1>3. SUFFICES ASSUME \A i \in D : rank[i] # k PROVE FALSE
  BY DEF Rank
<1> HIDE DEF rank
<1>4. IsFiniteSet(others) /\ Cardinality(others) = n - 1
  <2>1. 1 \in Int /\ n \in Int
    BY <1>0
  <2>2. IsFiniteSet(1..n) /\ Cardinality(1..n) = (IF 1 > n THEN 0 ELSE n - 1 + 1)
    BY <2>1, FS_Interval, Zenon
  <2>3. Cardinality(1..n) = n
    BY <1>0, <2>2
  <2>4. QED
    BY <2>2, <2>3, FS_RemoveElement
<1>5. rank \in [D -> others]
  <2>1. rank \in [D -> 1..n]
    BY <1>1 DEF rank
  <2>2. QED
    BY <1>3, <2>1
<1>6. Cardinality(others) < Cardinality(D)
  BY <1>0, <1>4
<1> HIDE DEF others, n
<1>7. PICK x \in D, y \in D : x # y /\ rank[x] = rank[y]
  BY <1>4, <1>5, <1>6, FS_PigeonHole
<1>8. rank[x] \in 1..n /\ n \in Nat
  BY <1>0, <1>1
<1>9. CASE <<x, y>> \in R
  <2>1. rank[x] < rank[y]
    BY <1>2, <1>9
  <2>2. QED
    BY <1>7, <1>8, <2>1
<1>10. CASE <<y, x>> \in R
  <2>1. rank[y] < rank[x]
    BY <1>2, <1>10
  <2>2. QED
    BY <1>7, <1>8, <2>1
<1>11. QED
  BY <1>7, <1>9, <1>10 DEF TotalOrder

(* The indices of a sequence of n items.                                     *)
LEMMA IndexSet ==
    ASSUME NEW n \in Nat PROVE IsFiniteSet(1..n) /\ Cardinality(1..n) = n
<1>1. 1 \in Int /\ n \in Int
  OBVIOUS
<1>2. IsFiniteSet(1..n) /\ Cardinality(1..n) = (IF 1 > n THEN 0 ELSE n - 1 + 1)
  BY <1>1, FS_Interval, Zenon
<1>3. QED
  BY <1>2

(* A function on 1..n is a sequence of n items.                              *)
LEMMA ListOf ==
    ASSUME NEW T, NEW n \in Nat, NEW s \in [1..n -> T]
    PROVE  s \in Seq(T) /\ Len(s) = n
<1>1. s \in Seq(T)
  BY SeqDef
<1>2. DOMAIN s = 1..Len(s) /\ Len(s) \in Nat /\ DOMAIN s = 1..n
  BY <1>1, LenProperties
<1>3. QED
  BY <1>1, <1>2

(* Levels and prices.                                                        *)
Price == {x \in Int : x > 0}

(* Every place of a sorted sequence is taken.                                *)
LEMMA PlaceFound ==
    ASSUME NEW n \in Nat, NEW s \in [1..n -> Int], NEW k \in 1..n
    PROVE  \E i \in 1..n : Place(s, i) = k
<1> DEFINE Order == {z \in (1..n) \X (1..n) :
                    s[z[1]] < s[z[2]] \/ (s[z[1]] = s[z[2]] /\ z[1] < z[2])}
<1>1. \A i, j \in 1..n :
         <<i, j>> \in Order <=> (s[i] < s[j] \/ (s[i] = s[j] /\ i < j))
  OBVIOUS
<1> HIDE DEF Order
<1>2. \A i \in 1..n : s[i] \in Int /\ i \in Int
  OBVIOUS
<1>3. \A i \in 1..n : <<i, i>> \notin Order
  BY <1>1, <1>2
<1>4. \A x, y, z \in 1..n : <<x, y>> \in Order /\ <<y, z>> \in Order => <<x, z>> \in Order
  BY <1>1, <1>2
<1>5. \A x, y \in 1..n : x = y \/ <<x, y>> \in Order \/ <<y, x>> \in Order
  <2>1. SUFFICES ASSUME NEW x \in 1..n, NEW y \in 1..n, x # y
                 PROVE  <<x, y>> \in Order \/ <<y, x>> \in Order
    OBVIOUS
  <2>2. s[x] \in Int /\ s[y] \in Int /\ x \in Int /\ y \in Int
    BY <1>2
  <2>3. CASE s[x] < s[y] \/ (s[x] = s[y] /\ x < y)
    BY <1>1, <2>3
  <2>4. CASE s[y] < s[x] \/ (s[y] = s[x] /\ y < x)
    BY <1>1, <2>4
  <2>5. QED
    BY <2>1, <2>2, <2>3, <2>4
<1>6. IsFiniteSet(1..n) /\ Cardinality(1..n) = n
  BY IndexSet
<1>7. PICK i \in 1..n : 1 + Cardinality(Under(Order, 1..n, i)) = k
  <2>1. k \in 1..Cardinality(1..n)
    BY <1>6
  <2>2. TotalOrder(Order, 1..n)
    BY <1>3, <1>4, <1>5 DEF TotalOrder
  <2>3. \A D, O : IsFiniteSet(D) /\ TotalOrder(O, D) /\ k \in 1..Cardinality(D)
                    => \E i \in D : Rank(O, D, i) = k
    BY Ranked
  <2>4. QED
    BY <1>6, <2>1, <2>2, <2>3 DEF Rank
<1>8. Under(Order, 1..n, i)
        = {j \in DOMAIN s : s[j] < s[i] \/ (s[j] = s[i] /\ j < i)}
  BY <1>1 DEF Under
<1>9. QED
  BY <1>7, <1>8 DEF Place

(* The median of prices is a price: the middle places are taken.             *)
LEMMA MedianType ==
    ASSUME NEW n \in Nat \ {0}, NEW s \in [1..n -> Price] PROVE Median(s) \in Price
<1> DEFINE a == Ascending(s)
<1>1. s \in Seq(Price) /\ Len(s) = n /\ s \in [1..n -> Int] /\ DOMAIN s = 1..n
  <2>1. s \in [1..n -> Int] /\ DOMAIN s = 1..n
    BY DEF Price
  <2>2. s \in Seq(Price) /\ Len(s) = n
    BY ListOf, Zenon
  <2>3. QED
    BY <2>1, <2>2
<1>2. \A k \in 1..n : a[k] \in Price
  <2> SUFFICES ASSUME NEW k \in 1..n PROVE a[k] \in Price
    OBVIOUS
  <2>1. \E i \in 1..n : Place(s, i) = k
    BY <1>1, PlaceFound
  <2>2. a[k] = s[CHOOSE i \in 1..n : Place(s, i) = k]
    BY <1>1 DEF Ascending
  <2>3. (CHOOSE i \in 1..n : Place(s, i) = k) \in 1..n
    BY <2>1
  <2>4. QED
    BY <2>2, <2>3
<1> HIDE DEF a
<1>3. (n + 1) \div 2 \in 1..n /\ (n + 2) \div 2 \in 1..n
  OBVIOUS
<1>4. a[(n + 1) \div 2] \in Price /\ a[(n + 2) \div 2] \in Price
  BY <1>2, <1>3
<1>5. Median(s) = (a[(n + 1) \div 2] + a[(n + 2) \div 2]) \div 2
  BY <1>1 DEF Median, a
<1>6. QED
  BY <1>4, <1>5 DEF Price

(* Increasing lists the members of a set, one to a place.                    *)
LEMMA IncreasingType ==
    ASSUME NEW S \in SUBSET Int, IsFiniteSet(S)
    PROVE  Cardinality(S) \in Nat /\ Increasing(S) \in [1..Cardinality(S) -> S]
<1> DEFINE Order == {z \in S \X S : z[1] < z[2]}
<1>0. Cardinality(S) \in Nat
  BY FS_CardinalityType
<1>1. \A x, y \in S : <<x, y>> \in Order <=> x < y
  OBVIOUS
<1> HIDE DEF Order
<1>2. \A x \in S : <<x, x>> \notin Order
  BY <1>1
<1>3. \A x, y, z \in S : <<x, y>> \in Order /\ <<y, z>> \in Order => <<x, z>> \in Order
  BY <1>1
<1>4. \A x, y \in S : x = y \/ <<x, y>> \in Order \/ <<y, x>> \in Order
  <2>1. SUFFICES ASSUME NEW x \in S, NEW y \in S, x # y
                 PROVE  <<x, y>> \in Order \/ <<y, x>> \in Order
    OBVIOUS
  <2>2. x < y \/ y < x
    <3>1. x \in Int /\ y \in Int
      OBVIOUS
    <3>2. QED
      BY <2>1, <3>1
  <2>3. QED
    BY <1>1, <2>2
<1>5. ASSUME NEW k \in 1..Cardinality(S)
      PROVE  \E i \in S : Cardinality({j \in S : j <= i}) = k
  <2>1. PICK i \in S : 1 + Cardinality(Under(Order, S, i)) = k
    <3>1. TotalOrder(Order, S)
      BY <1>2, <1>3, <1>4 DEF TotalOrder
    <3>2. \A O : TotalOrder(O, S) => \E i \in S : Rank(O, S, i) = k
      BY Ranked
    <3>3. QED
      BY <3>1, <3>2 DEF Rank
  <2> DEFINE B == {j \in S : <<j, i>> \in Order}
  <2>2. i \notin B /\ {j \in S : j <= i} = B \cup {i}
    <3>1. i \notin B
      BY <1>2
    <3>2. ASSUME NEW j \in S PROVE j <= i <=> (j \in B \/ j = i)
      <4>1. j \in Int /\ i \in Int
        OBVIOUS
      <4>2. QED
        BY <1>1, <4>1
    <3>3. B \subseteq S
      OBVIOUS
    <3> HIDE DEF B
    <3>4. QED
      BY <3>1, <3>2, <3>3
  <2>3. B \subseteq S
    OBVIOUS
  <2>4. 1 + Cardinality(B) = k
    BY <2>1 DEF Under
  <2> HIDE DEF B
  <2>5. IsFiniteSet(B) /\ Cardinality(B) \in Nat
    BY <2>3, FS_Subset, FS_CardinalityType
  <2>6. Cardinality(B \cup {i}) = Cardinality(B) + 1
    BY <2>2, <2>5, FS_AddElement
  <2>7. 1 + Cardinality(B) = Cardinality(B \cup {i})
    BY <2>5, <2>6
  <2>8. QED
    BY <2>2, <2>4, <2>7
<1>6. QED
  BY <1>0, <1>5 DEF Increasing

-----------------------------------------------------------------------------
(* Steps along a sequence: spacing and grouping.                             *)

(* f takes the steps g of T one after the other, from x.                     *)
Runs(f, T, x, n, g) ==
    f \in [0..n -> T] /\ f[0] = x /\ \A i \in 1..n : f[i] = g[i][f[i - 1]]

(* A step on T can be taken n times from a member of T.                      *)
LEMMA Iterated ==
    ASSUME NEW T, NEW x \in T, NEW n \in Nat, NEW g \in [1..n -> [T -> T]]
    PROVE  \E f : Runs(f, T, x, n, g)
<1> DEFINE Reached(m) ==
             \E f \in [0..m -> T] : f[0] = x /\ \A i \in 1..m : f[i] = g[i][f[i - 1]]
           Bad == {m \in 0..n : ~Reached(m)}
<1>0. SUFFICES ASSUME ~Reached(n) PROVE FALSE
  BY DEF Runs
<1>1. Bad # {}
  <2>1. n \in 0..n
    OBVIOUS
  <2> HIDE DEF Reached
  <2>2. QED
    BY <1>0, <2>1
<1>2. PICK m \in Bad : \A k \in Bad : m <= k
  <2>1. Bad \in SUBSET Nat
    OBVIOUS
  <2> HIDE DEF Bad
  <2>2. QED
    BY <1>1, <2>1, LeastNat
<1>3. m \in 0..n /\ ~Reached(m)
  BY <1>2
<1>4. m # 0
  <2> DEFINE z == [i \in 0..0 |-> x]
  <2>1. z \in [0..0 -> T] /\ z[0] = x /\ \A i \in 1..0 : z[i] = g[i][z[i - 1]]
    OBVIOUS
  <2> HIDE DEF z
  <2>2. Reached(0)
    BY <2>1
  <2> HIDE DEF Reached
  <2>3. QED
    BY <1>3, <2>2
<1>5. PICK f \in [0..(m - 1) -> T] : f[0] = x /\ \A i \in 1..(m - 1) : f[i] = g[i][f[i - 1]]
  <2>1. m - 1 \in 0..n /\ ~(m <= m - 1)
    BY <1>3, <1>4
  <2>2. m - 1 \notin Bad
    <3> HIDE DEF Bad
    <3>1. QED
      BY <1>2, <2>1
  <2>3. QED
    BY <2>1, <2>2
<1>6. g[m][f[m - 1]] \in T
  BY <1>3, <1>4
<1> DEFINE h == [i \in 0..m |-> IF i = m THEN g[m][f[m - 1]] ELSE f[i]]
<1>7. h \in [0..m -> T]
  BY <1>3, <1>6
<1>8. h[0] = x
  BY <1>3, <1>4, <1>5
<1>9. ASSUME NEW i \in 1..m PROVE h[i] = g[i][h[i - 1]]
  <2>1. h[i - 1] = f[i - 1]
    BY <1>3
  <2>2. CASE i = m
    <3>1. h[m] = g[m][f[m - 1]]
      BY <1>3
    <3> HIDE DEF h
    <3>2. QED
      BY <2>1, <2>2, <3>1
  <2>3. CASE i # m
    <3>1. i \in 1..(m - 1) /\ h[i] = f[i]
      BY <1>3, <2>3
    <3> HIDE DEF h
    <3>2. QED
      BY <1>5, <2>1, <3>1
  <2>4. QED
    BY <2>2, <2>3
<1> HIDE DEF h
<1>10. Reached(m)
  BY <1>7, <1>8, <1>9
<1> HIDE DEF Reached
<1>11. QED
  BY <1>3, <1>10

(* Steps that stay in T never leave it.                                      *)
LEMMA StaysIn ==
    ASSUME NEW T, NEW n \in Nat, NEW h, h[0] \in T,
           \A i \in 1..n : h[i - 1] \in T => h[i] \in T
    PROVE  \A i \in 0..n : h[i] \in T
<1> DEFINE Bad == {i \in 0..n : h[i] \notin T}
<1>1. SUFFICES ASSUME Bad # {} PROVE FALSE
  OBVIOUS
<1>2. PICK m \in Bad : \A k \in Bad : m <= k
  <2>1. Bad \in SUBSET Nat
    OBVIOUS
  <2> HIDE DEF Bad
  <2>2. QED
    BY <1>1, <2>1, LeastNat
<1>3. m \in 1..n /\ m - 1 \in 0..n /\ h[m] \notin T /\ ~(m <= m - 1)
  BY <1>2
<1>4. h[m - 1] \in T
  <2>1. m - 1 \notin Bad
    <3> HIDE DEF Bad
    <3>1. QED
      BY <1>2, <1>3
  <2>2. QED
    BY <1>3, <2>1
<1>5. QED
  BY <1>3, <1>4

(* One step of Spaced.                                                       *)
LEMMA ApartType ==
    ASSUME NEW T, NEW t \in Seq(T), NEW a \in T, NEW gap
    PROVE  Apart(t, a, gap) \in Seq(T)
<1>1. Append(t, a) \in Seq(T)
  BY AppendProperties
<1>2. QED
  BY <1>1 DEF Apart

(* Spaced counts; of nothing it counts 0.                                    *)
LEMMA SpacedType ==
    ASSUME NEW n \in Nat, NEW T, NEW at \in [1..n -> T], NEW gap
    PROVE  Spaced(at, gap) \in Nat /\ (n = 0 => Spaced(at, gap) = 0)
<1>1. at \in Seq(T) /\ Len(at) = n /\ \A i \in 1..n : at[i] \in T
  BY ListOf
<1> DEFINE g == [i \in 1..n |-> [t \in Seq(T) |-> Apart(t, at[i], gap)]]
           taken == CHOOSE taken : taken = [i \in 0..Len(at) |->
                        IF i = 0 THEN <<>> ELSE Apart(taken[i - 1], at[i], gap)]
<1>2. g \in [1..n -> [Seq(T) -> Seq(T)]]
  BY <1>1, ApartType
<1>3. <<>> \in Seq(T)
  BY EmptySeq
<1>4. PICK f \in [0..n -> Seq(T)] : f[0] = <<>> /\ \A i \in 1..n : f[i] = g[i][f[i - 1]]
  <2> DEFINE A == Seq(T)
             e == <<>>
  <2>1. e \in A /\ g \in [1..n -> [A -> A]]
    BY <1>2, <1>3
  <2> HIDE DEF g, A, e
  <2>2. \E f : Runs(f, A, e, n, g)
    BY <2>1, Iterated, Zenon
  <2>3. QED
    BY <2>2 DEF Runs, A, e
<1>5. f = [i \in 0..Len(at) |-> IF i = 0 THEN <<>> ELSE Apart(f[i - 1], at[i], gap)]
  <2>1. ASSUME NEW i \in 1..n PROVE f[i] = Apart(f[i - 1], at[i], gap)
    <3>1. g[i] = [t \in Seq(T) |-> Apart(t, at[i], gap)]
      OBVIOUS
    <3> HIDE DEF g
    <3>2. f[i - 1] \in Seq(T) /\ f[i] = g[i][f[i - 1]]
      <4>1. i - 1 \in 0..n
        OBVIOUS
      <4>2. QED
        BY <1>4, <4>1
    <3>3. QED
      BY <3>1, <3>2
  <2>2. QED
    BY <1>1, <1>4, <2>1
<1>6. taken = [i \in 0..Len(at) |-> IF i = 0 THEN <<>> ELSE Apart(taken[i - 1], at[i], gap)]
  BY <1>5
<1>7. Spaced(at, gap) = Len(taken[Len(at)])
  BY DEF Spaced
<1> HIDE DEF taken
<1>8. taken[0] = <<>> /\ \A i \in 1..n : taken[i] = Apart(taken[i - 1], at[i], gap)
  BY <1>1, <1>6
<1>9. \A i \in 0..n : taken[i] \in Seq(T)
  <2>1. \A i \in 1..n : taken[i - 1] \in Seq(T) => taken[i] \in Seq(T)
    BY <1>1, <1>8, ApartType
  <2>2. QED
    BY <1>3, <1>8, <2>1, StaysIn
<1>10. QED
  BY <1>1, <1>7, <1>8, <1>9, EmptySeq

(* Sequences of at least one item.                                           *)
Filled(I) == {z \in Seq(I) : z # <<>>}

(* A group of items has a price for its level.                               *)
LEMMA LevelType ==
    ASSUME NEW I, \A x \in I : x.level \in Price, NEW z \in Filled(I)
    PROVE  Median(Levels(z)) \in Price
<1>1. z \in Seq(I) /\ Len(z) \in Nat \ {0}
  BY EmptySeq DEF Filled
<1>2. z \in [1..Len(z) -> I]
  BY <1>1, LenProperties
<1>3. Levels(z) \in [1..Len(z) -> Price]
  BY <1>2 DEF Levels
<1>4. QED
  BY <1>1, <1>3, MedianType

(* Sorting keeps the items.                                                  *)
LEMMA SortedType ==
    ASSUME NEW I, \A x \in I : x.level \in Price, NEW n \in Nat, NEW items \in [1..n -> I]
    PROVE  Sorted(items) \in [1..n -> I]
<1>1. Levels(items) \in [1..n -> Int]
  BY DEF Levels, Price
<1>2. ASSUME NEW k \in 1..n PROVE \E i \in 1..n : Place(Levels(items), i) = k
  BY <1>1, PlaceFound
<1>3. QED
  BY <1>2 DEF Sorted

(* One step of Grouped puts its item into a group or a new one.              *)
LEMMA JoinedType ==
    ASSUME NEW I, NEW groups \in Seq(Filled(I)), NEW item \in I, NEW p
    PROVE  Joined(groups, item, p) \in Seq(Filled(I))
<1> DEFINE close(k) == LET center == Median(Levels(groups[k]))
                       IN  NoMore(Absolute(item.level - center), center, p)
           fit == {k \in DOMAIN groups : close(k)}
<1>1. Joined(groups, item, p)
        = IF fit = {} THEN Append(groups, <<item>>)
          ELSE [groups EXCEPT ![Min(fit)] = Append(@, item)]
  BY DEF Joined
<1>2. DOMAIN groups = 1..Len(groups) /\ Len(groups) \in Nat
  BY LenProperties
<1>3. fit \subseteq 1..Len(groups)
  BY <1>2
<1> HIDE DEF fit
<1>4. CASE fit = {}
  <2>1. <<item>> \in Filled(I)
    BY DEF Filled
  <2>2. Append(groups, <<item>>) \in Seq(Filled(I))
    BY <2>1, AppendProperties
  <2>3. QED
    BY <1>1, <1>4, <2>2
<1>5. CASE fit # {}
  <2>1. IsFiniteSet(fit)
    BY <1>2, <1>3, IndexSet, FS_Subset
  <2>2. Min(fit) \in 1..Len(groups)
    <3>1. fit \in SUBSET Int
      BY <1>2, <1>3
    <3>2. QED
      BY <1>3, <1>5, <2>1, <3>1, IntExtremes
  <2>3. ASSUME NEW m \in 1..Len(groups) PROVE [groups EXCEPT ![m] = Append(@, item)] \in Seq(Filled(I))
    <3>1. groups[m] \in Seq(I)
      BY ElementOfSeq DEF Filled
    <3>2. Append(groups[m], item) \in Seq(I) /\ Append(groups[m], item) # <<>>
      BY <3>1, AppendProperties
    <3>3. Append(groups[m], item) \in Filled(I)
      BY <3>2 DEF Filled
    <3>4. [groups EXCEPT ![m] = Append(@, item)] = [groups EXCEPT ![m] = Append(groups[m], item)]
      OBVIOUS
    <3>5. QED
      BY <3>3, <3>4, ExceptSeq
  <2>4. QED
    BY <1>1, <1>5, <2>2, <2>3
<1>6. QED
  BY <1>4, <1>5

(* Grouping keeps the items: every group is a non-empty sequence of them.    *)
LEMMA GroupedType ==
    ASSUME NEW I, \A x \in I : x.level \in Price, NEW n \in Nat, NEW items \in [1..n -> I], NEW p
    PROVE  Grouped(items, p) \in Seq(Filled(I))
<1> DEFINE sorted == Sorted(items)
           G == Seq(Filled(I))
           e == <<>>
           g == [i \in 1..n |-> [t \in G |-> Joined(t, sorted[i], p)]]
           placed == CHOOSE placed : placed = [i \in 0..Len(items) |->
                         IF i = 0 THEN <<>> ELSE Joined(placed[i - 1], sorted[i], p)]
<1>1. Len(items) = n
  BY ListOf
<1>2. \A i \in 1..n : sorted[i] \in I
  BY SortedType
<1>3. Grouped(items, p) = placed[Len(items)]
  BY DEF Grouped
<1> HIDE DEF sorted
<1>4. \A i \in 1..n : \A t \in G : Joined(t, sorted[i], p) \in G
  BY <1>2, JoinedType
<1>5. e \in G
  BY EmptySeq
<1>6. PICK f : Runs(f, G, e, n, g)
  <2> HIDE DEF G, e
  <2>1. g \in [1..n -> [G -> G]]
    BY <1>4
  <2> HIDE DEF g
  <2>2. QED
    BY <1>5, <2>1, Iterated, Zenon
<1>7. f = [i \in 0..Len(items) |-> IF i = 0 THEN <<>> ELSE Joined(f[i - 1], sorted[i], p)]
  <2>1. f \in [0..n -> G] /\ f[0] = <<>>
    BY <1>6 DEF Runs
  <2>2. ASSUME NEW i \in 1..n PROVE f[i] = Joined(f[i - 1], sorted[i], p)
    <3> HIDE DEF G
    <3>1. g[i] = [t \in G |-> Joined(t, sorted[i], p)]
      OBVIOUS
    <3> HIDE DEF g
    <3>2. f[i - 1] \in G /\ f[i] = g[i][f[i - 1]]
      <4>1. i - 1 \in 0..n
        OBVIOUS
      <4>2. QED
        BY <1>6, <4>1 DEF Runs
    <3>3. QED
      BY <3>1, <3>2
  <2>3. QED
    BY <1>1, <2>1, <2>2
<1>8. placed = [i \in 0..Len(items) |-> IF i = 0 THEN <<>> ELSE Joined(placed[i - 1], sorted[i], p)]
  BY <1>7
<1> HIDE DEF placed
<1>9. placed[0] = e /\ \A i \in 1..n : placed[i] = Joined(placed[i - 1], sorted[i], p)
  BY <1>1, <1>8
<1>10. \A i \in 0..n : placed[i] \in G
  <2> HIDE DEF G, e
  <2>1. \A i \in 1..n : placed[i - 1] \in G => placed[i] \in G
    BY <1>4, <1>9
  <2>2. QED
    BY <1>5, <1>9, <2>1, StaysIn
<1>11. QED
  BY <1>1, <1>3, <1>10

(* What a sequence holds is finite.                                          *)
LEMMA Indexed ==
    ASSUME NEW n \in Nat, NEW f, DOMAIN f = 1..n
    PROVE  IsFiniteSet({f[i] : i \in 1..n})
<1> DEFINE T == {f[i] : i \in 1..n}
           h == [i \in 1..n |-> f[i]]
<1>1. h \in Surjection(1..n, T)
  BY DEF Surjection
<1> HIDE DEF h, T
<1>2. IsFiniteSet(T)
  BY <1>1, IndexSet, FS_Surjection
<1>3. QED
  BY <1>2 DEF T

(* The members with the least key are some of a finite, non-empty set.       *)
LEMMA LeastType ==
    ASSUME NEW S, IsFiniteSet(S), S # {}, NEW key, \A c \in S : key[c] \in Int
    PROVE  Least(S, key) \subseteq S /\ Least(S, key) # {} /\ IsFiniteSet(Least(S, key))
<1> DEFINE T == {key[c] : c \in S}
           h == [c \in S |-> key[c]]
<1>1. h \in Surjection(S, T)
  BY DEF Surjection
<1>2. T \in SUBSET Int /\ T # {}
  OBVIOUS
<1>3. IsFiniteSet(T)
  <2> HIDE DEF h, T
  <2>1. QED
    BY <1>1, FS_Surjection
<1>4. Min(T) \in T /\ \A x \in T : Min(T) <= x
  <2> HIDE DEF T
  <2>1. QED
    BY <1>2, <1>3, IntExtremes
<1>5. PICK c \in S : key[c] = Min(T)
  BY <1>4
<1>6. \A d \in S : key[c] <= key[d]
  BY <1>4, <1>5
<1>7. c \in Least(S, key) /\ Least(S, key) \subseteq S
  BY <1>6 DEF Least
<1>8. QED
  BY <1>7, FS_Subset

-----------------------------------------------------------------------------
(* The pivot.                                                                *)

(* The latest items are items.                                               *)
LEMMA LastNType ==
    ASSUME NEW T, NEW s \in Seq(T), NEW n \in Nat PROVE LastN(s, n) \in Seq(T)
<1> DEFINE from == IF Len(s) > n THEN Len(s) - n + 1 ELSE 1
<1>1. Len(s) \in Nat /\ from \in Int /\ from >= 1
  OBVIOUS
<1>2. \A i \in from..Len(s) : s[i] \in T
  <2> HIDE DEF from
  <2>1. QED
    BY <1>1, ElementOfSeq
<1> HIDE DEF from
<1>3. SubSeq(s, from, Len(s)) \in Seq(T)
  BY <1>1, <1>2, SubSeqProperties
<1>4. QED
  BY <1>3 DEF LastN, from

(* The highs of candles are prices.                                          *)
LEMMA HighType ==
    ASSUME NEW work \in Seq(Bar)
    PROVE  Len(work) \in Nat /\ DOMAIN work = 1..Len(work)
           /\ Column(work, "high") \in [1..Len(work) -> Price]
<1>1. Len(work) \in Nat /\ DOMAIN work = 1..Len(work) /\ \A i \in 1..Len(work) : work[i] \in Bar
  BY LenProperties, ElementOfSeq
<1>2. \A b \in Bar : b["high"] \in Price
  BY DEF Bar, Price
<1>3. QED
  BY <1>1, <1>2 DEF Column

(* What the sources of candidates hand on.                                   *)
Swing == [level : Price, at : Int, age : Int]
SourceNames == {"FLAT_BASE_RESISTANCE", "VCP_COMPATIBLE_PIVOT", "REPEATED_RESISTANCE",
                "CONSOLIDATION_CEILING", "SWING_HIGH_RESISTANCE"}
Candidate == [level : Price, sources : SUBSET SourceNames, tests : Nat, age : Int]

(* The four sources of candidates find prices.                               *)
LEMMA SwingType == ASSUME NEW work \in Seq(Bar) PROVE SwingHighs(work) \in Seq(Swing)
<1> DEFINE highs == Column(work, "high")
           lows == Column(work, "low")
           w == W.PIVOT_SWING_WINDOW
           floor(i) == Max({Lowest(SubSeq(lows, i - w, i)), Lowest(SubSeq(lows, i, i + w))})
           kept == {i \in DOMAIN highs : /\ IsPeak(highs, i, w)
                                         /\ NoLess(highs[i] - floor(i), highs[i], 200)}
           swing(i) == [level |-> highs[i], at |-> i, age |-> Len(work) - i]
<1>1. Len(work) \in Nat /\ highs \in [1..Len(work) -> Price]
  BY HighType
<1>2. SwingHighs(work) = [k \in 1..Cardinality(kept) |-> swing(Increasing(kept)[k])]
  BY DEF SwingHighs
<1>3. kept \subseteq 1..Len(work)
  BY <1>1
<1>4. \A i \in kept : swing(i) \in Swing
  BY <1>1, <1>3 DEF Swing
<1> HIDE DEF kept, swing, highs
<1>5. IsFiniteSet(kept) /\ kept \in SUBSET Int
  <2>1. IsFiniteSet(1..Len(work))
    BY <1>1, IndexSet
  <2>2. IsFiniteSet(kept)
    BY <1>3, <2>1, FS_Subset
  <2>3. QED
    BY <1>1, <1>3, <2>2
<1>6. Cardinality(kept) \in Nat /\ Increasing(kept) \in [1..Cardinality(kept) -> kept]
  BY <1>5, IncreasingType
<1>7. SwingHighs(work) \in [1..Cardinality(kept) -> Swing]
  BY <1>2, <1>4, <1>6
<1>8. QED
  BY <1>6, <1>7, ListOf


(* What a sequence of integers holds has a Max and a Min.                    *)
LEMMA IntsOf ==
    ASSUME NEW n \in Nat, NEW f, \A i \in 1..n : f[i] \in Int
    PROVE  {f[i] : i \in 1..n} \in SUBSET Int /\ IsFiniteSet({f[i] : i \in 1..n})
<1> DEFINE g == [i \in 1..n |-> f[i]]
<1>1. DOMAIN g = 1..n /\ {g[i] : i \in 1..n} = {f[i] : i \in 1..n}
  OBVIOUS
<1> HIDE DEF g
<1>2. IsFiniteSet({g[i] : i \in 1..n})
  BY <1>1, Indexed
<1>3. QED
  BY <1>1, <1>2

LEMMA ClusterType ==
    ASSUME NEW swings \in Seq(Swing) PROVE ClusterSwings(swings) \in Seq(Candidate)
<1> DEFINE groups == Grouped(swings, 150)
           places(g) == {g[i].at : i \in DOMAIN g}
           ages(g) == {g[i].age : i \in DOMAIN g}
           tests(g) == Spaced(Increasing(places(g)), W.PIVOT_MIN_TEST_SEPARATION)
           candidate(g) == [level   |-> Median(Levels(g)),
                            sources |-> {"REPEATED_RESISTANCE"},
                            tests   |-> tests(g),
                            age     |-> Min(ages(g))]
           kept == Increasing({k \in DOMAIN groups : tests(groups[k]) >= 2})
<1>1. ClusterSwings(swings) = [k \in DOMAIN kept |-> candidate(groups[kept[k]])]
  BY DEF ClusterSwings
<1>2. \A x \in Swing : x.level \in Price /\ x.at \in Int /\ x.age \in Int
  BY DEF Swing
<1>3. groups \in Seq(Filled(Swing))
  <2>1. Len(swings) \in Nat /\ swings \in [1..Len(swings) -> Swing]
    BY LenProperties
  <2>2. QED
    BY <1>2, <2>1, GroupedType
<1>4. ASSUME NEW g \in Filled(Swing) PROVE candidate(g) \in Candidate
  <2>1. g \in Seq(Swing) /\ Len(g) \in Nat \ {0} /\ DOMAIN g = 1..Len(g)
        /\ \A i \in 1..Len(g) : g[i] \in Swing
    BY EmptySeq, LenProperties, ElementOfSeq DEF Filled
  <2>2. Median(Levels(g)) \in Price
    BY <1>2, LevelType
  <2>3. tests(g) \in Nat
    <3> DEFINE at == [i \in 1..Len(g) |-> g[i].at]
    <3>1. \A i \in 1..Len(g) : at[i] \in Int
      BY <1>2, <2>1
    <3>2. places(g) = {at[i] : i \in 1..Len(g)}
      BY <2>1
    <3> HIDE DEF at, places
    <3>3. places(g) \in SUBSET Int /\ IsFiniteSet(places(g))
      BY <2>1, <3>1, <3>2, IntsOf
    <3>4. Cardinality(places(g)) \in Nat
          /\ Increasing(places(g)) \in [1..Cardinality(places(g)) -> places(g)]
      BY <3>3, IncreasingType
    <3>5. QED
      BY <3>4, SpacedType
  <2>4. Min(ages(g)) \in Int
    <3> DEFINE age == [i \in 1..Len(g) |-> g[i].age]
    <3>1. \A i \in 1..Len(g) : age[i] \in Int
      BY <1>2, <2>1
    <3>2. ages(g) = {age[i] : i \in 1..Len(g)} /\ ages(g) # {}
      <4>1. 1 \in 1..Len(g)
        BY <2>1
      <4>2. QED
        BY <2>1, <4>1
    <3> HIDE DEF age, ages
    <3>3. ages(g) \in SUBSET Int /\ IsFiniteSet(ages(g))
      BY <2>1, <3>1, <3>2, IntsOf
    <3>4. Min(ages(g)) \in ages(g)
      BY <3>2, <3>3, IntExtremes
    <3>5. QED
      BY <3>3, <3>4
  <2>5. {"REPEATED_RESISTANCE"} \in SUBSET SourceNames
    BY DEF SourceNames
  <2> HIDE DEF tests, ages
  <2>6. QED
    BY <2>2, <2>3, <2>4, <2>5 DEF Candidate
<1> HIDE DEF candidate, tests, groups
<1> DEFINE picked == {k \in DOMAIN groups : tests(groups[k]) >= 2}
<1>5. DOMAIN groups = 1..Len(groups) /\ Len(groups) \in Nat
      /\ \A k \in DOMAIN groups : groups[k] \in Filled(Swing)
  BY <1>3, LenProperties, ElementOfSeq
<1>6. picked \in SUBSET Int /\ IsFiniteSet(picked) /\ picked \subseteq DOMAIN groups
  <2>1. picked \subseteq 1..Len(groups)
    BY <1>5
  <2>2. IsFiniteSet(1..Len(groups))
    BY <1>5, IndexSet
  <2> HIDE DEF picked
  <2>3. IsFiniteSet(picked)
    BY <2>1, <2>2, FS_Subset
  <2>4. QED
    BY <1>5, <2>1, <2>3
<1>7. Cardinality(picked) \in Nat /\ kept \in [1..Cardinality(picked) -> picked]
  <2> HIDE DEF picked
  <2>1. Cardinality(picked) \in Nat /\ Increasing(picked) \in [1..Cardinality(picked) -> picked]
    BY <1>6, IncreasingType
  <2>2. QED
    BY <2>1 DEF picked
<1> HIDE DEF kept, picked
<1>8. ClusterSwings(swings) \in [1..Cardinality(picked) -> Candidate]
  BY <1>1, <1>4, <1>5, <1>6, <1>7
<1>9. QED
  BY <1>7, <1>8, ListOf

LEMMA CeilingType ==
    ASSUME NEW work \in Seq(Bar), NEW structure
    PROVE  CeilingCandidate(work, structure) \in Seq(Candidate)
<1> DEFINE window == LastN(work, W.PIVOT_CONSOLIDATION_LOOKBACK)
           highs == Column(window, "high")
           reference == Quantile(highs, 9)
           touched == {i \in DOMAIN highs : NoMore(Absolute(10 * highs[i] - reference), reference, 150)}
           tests == Spaced(Increasing(touched), W.PIVOT_MIN_TEST_SEPARATION)
           level == Median([k \in 1..Cardinality(touched) |-> highs[Increasing(touched)[k]]])
           sources == {"CONSOLIDATION_CEILING"}
                    \cup (IF Is(structure.flat_base) THEN {"FLAT_BASE_RESISTANCE"} ELSE {})
                    \cup (IF Is(structure.support_compression) THEN {"VCP_COMPATIBLE_PIVOT"} ELSE {})
           ceiling == [level |-> level, sources |-> sources, tests |-> tests,
                       age   |-> Len(window) - Max(touched)]
<1>1. CeilingCandidate(work, structure)
        = IF Len(window) < W.PIVOT_CONSOLIDATION_LOOKBACK \/ tests < 3 THEN <<>>
          ELSE IF ~NoMore(level - Lowest(Column(window, "low")), level, 1800) THEN <<>>
          ELSE <<ceiling>>
  BY DEF CeilingCandidate
<1>2. window \in Seq(Bar)
  BY LastNType, LookbacksAssumption
<1>3. Len(window) \in Nat /\ highs \in [1..Len(window) -> Price] /\ DOMAIN highs = 1..Len(window)
  <2> HIDE DEF window
  <2>1. QED
    BY <1>2, HighType
<1>4. touched \subseteq 1..Len(window)
  BY <1>3
<1> HIDE DEF window, highs, touched
<1>5. IsFiniteSet(touched) /\ touched \in SUBSET Int
  <2>1. IsFiniteSet(1..Len(window))
    BY <1>3, IndexSet
  <2>2. IsFiniteSet(touched)
    BY <1>4, <2>1, FS_Subset
  <2>3. QED
    BY <1>3, <1>4, <2>2
<1>6. Cardinality(touched) \in Nat /\ Increasing(touched) \in [1..Cardinality(touched) -> touched]
  BY <1>5, IncreasingType
<1>7. tests \in Nat /\ (Cardinality(touched) = 0 => tests = 0)
  BY <1>6, SpacedType
<1>8. <<>> \in Seq(Candidate)
  BY EmptySeq
<1>9. ASSUME ~(tests < 3) PROVE <<ceiling>> \in Seq(Candidate)
  <2>1. Cardinality(touched) \in Nat \ {0}
    BY <1>6, <1>7, <1>9
  <2>2. level \in Price
    <3>1. [k \in 1..Cardinality(touched) |-> highs[Increasing(touched)[k]]]
            \in [1..Cardinality(touched) -> Price]
      BY <1>3, <1>4, <1>6
    <3>2. QED
      BY <2>1, <3>1, MedianType
  <2>3. Max(touched) \in Int
    <3>1. touched # {}
      BY <2>1, FS_EmptySet
    <3>2. QED
      BY <1>5, <3>1, IntExtremes
  <2>4. sources \in SUBSET SourceNames
    BY DEF SourceNames
  <2> HIDE DEF tests, level, sources
  <2>5. ceiling \in Candidate
    BY <1>3, <1>7, <2>2, <2>3, <2>4 DEF Candidate
  <2> HIDE DEF ceiling
  <2>6. QED
    BY <2>5
<1> HIDE DEF tests, level, ceiling
<1>10. QED
  BY <1>1, <1>8, <1>9

LEMMA NewestType ==
    ASSUME NEW mapped \in Seq(Candidate), NEW swings \in Seq(Swing)
    PROVE  WithNewestSwing(mapped, swings) \in Seq(Candidate)
<1> DEFINE newest == swings[Len(swings)]
           known == \E i \in DOMAIN mapped :
                       NoMore(Absolute(newest.level - mapped[i].level), mapped[i].level, 150)
           own == [level |-> newest.level, sources |-> {"SWING_HIGH_RESISTANCE"},
                   tests |-> 1, age |-> newest.age]
<1>1. WithNewestSwing(mapped, swings)
        = IF swings = <<>> \/ known THEN mapped ELSE Append(mapped, own)
  BY DEF WithNewestSwing
<1>2. ASSUME swings # <<>> PROVE own \in Candidate
  <2>1. Len(swings) \in Nat \ {0}
    BY <1>2, EmptySeq
  <2>2. newest \in Swing
    BY <2>1, ElementOfSeq
  <2> HIDE DEF newest
  <2>3. {"SWING_HIGH_RESISTANCE"} \in SUBSET SourceNames
    BY DEF SourceNames
  <2>4. QED
    BY <2>2, <2>3 DEF Swing, Candidate
<1> HIDE DEF own, known
<1>3. QED
  BY <1>1, <1>2, AppendProperties

(* What a pivot can be chosen from.                                          *)
Selectable(S) == IsFiniteSet(S) /\ \A c \in S : c.level \in Price /\ c.tests \in Int

(* Merging leaves finitely many candidates, each at a price.                 *)
LEMMA MergeType ==
    ASSUME NEW candidates \in Seq(Candidate)
    PROVE  Selectable(MergeCandidates(candidates))
<1> DEFINE groups == Grouped(candidates, 150)
           union(g) == UNION {g[i].sources : i \in DOMAIN g}
           tried(g) == {g[i].tests : i \in DOMAIN g}
           merged(g) ==
               LET sources == UNION {g[i].sources : i \in DOMAIN g}
               IN  [level   |-> Median(Levels(g)),
                    sources |-> sources,
                    source  |-> CHOOSE s \in sources :
                                   \A t \in sources : SourceQuality[s] >= SourceQuality[t],
                    tests   |-> Max(tried(g)),
                    age     |-> Min({g[i].age : i \in DOMAIN g})]
           all == [k \in DOMAIN groups |-> merged(groups[k])]
<1>1. MergeCandidates(candidates) = {merged(groups[k]) : k \in DOMAIN groups}
  BY DEF MergeCandidates
<1>2. \A x \in Candidate : x.level \in Price /\ x.tests \in Int
  BY DEF Candidate
<1>3. groups \in Seq(Filled(Candidate))
  <2>1. Len(candidates) \in Nat /\ candidates \in [1..Len(candidates) -> Candidate]
    BY LenProperties
  <2>2. QED
    BY <1>2, <2>1, GroupedType
<1>4. ASSUME NEW g \in Filled(Candidate) PROVE merged(g).level \in Price /\ merged(g).tests \in Int
  <2>1. g \in Seq(Candidate) /\ Len(g) \in Nat \ {0} /\ DOMAIN g = 1..Len(g)
        /\ \A i \in 1..Len(g) : g[i] \in Candidate
    BY EmptySeq, LenProperties, ElementOfSeq DEF Filled
  <2>2. Median(Levels(g)) \in Price
    BY <1>2, LevelType
  <2>3. Max(tried(g)) \in Int
    <3> DEFINE each == [i \in 1..Len(g) |-> g[i].tests]
    <3>1. \A i \in 1..Len(g) : each[i] \in Int
      BY <1>2, <2>1
    <3>2. tried(g) = {each[i] : i \in 1..Len(g)} /\ tried(g) # {}
      <4>1. 1 \in 1..Len(g)
        BY <2>1
      <4>2. QED
        BY <2>1, <4>1
    <3> HIDE DEF each, tried
    <3>3. tried(g) \in SUBSET Int /\ IsFiniteSet(tried(g))
      BY <2>1, <3>1, <3>2, IntsOf
    <3>4. Max(tried(g)) \in tried(g)
      BY <3>2, <3>3, IntExtremes
    <3>5. QED
      BY <3>3, <3>4
  <2>4. merged(g).level = Median(Levels(g)) /\ merged(g).tests = Max(tried(g))
    OBVIOUS
  <2> HIDE DEF merged, tried
  <2>5. QED
    BY <2>2, <2>3, <2>4
<1> HIDE DEF merged, groups
<1>5. DOMAIN groups = 1..Len(groups) /\ Len(groups) \in Nat
      /\ \A k \in DOMAIN groups : groups[k] \in Filled(Candidate)
  BY <1>3, LenProperties, ElementOfSeq
<1>6. MergeCandidates(candidates) = {all[k] : k \in 1..Len(groups)} /\ DOMAIN all = 1..Len(groups)
  BY <1>1, <1>5
<1>7. \A k \in 1..Len(groups) : all[k].level \in Price /\ all[k].tests \in Int
  BY <1>4, <1>5
<1> HIDE DEF all
<1>8. IsFiniteSet(MergeCandidates(candidates))
  BY <1>5, <1>6, Indexed
<1>9. QED
  BY <1>6, <1>7, <1>8 DEF Selectable

(* Of the candidates there are some the best is chosen among.                *)
LEMMA BestType ==
    ASSUME NEW S, Selectable(S), S # {}, NEW price \in Price
    PROVE  BestCandidates(S, price) # {} /\ BestCandidates(S, price) \subseteq S
<1> DEFINE k1 == [c \in S |-> -PivotQuality(c, price)]
           k2 == [c \in S |-> Absolute(c.level - price)]
           k3 == [c \in S |-> -c.tests]
           k4 == [c \in S |-> c.level]
<1>1. BestCandidates(S, price) = Least(Least(Least(Least(S, k1), k2), k3), k4)
  BY DEF BestCandidates
<1>2. \A c \in S : k1[c] \in Int
  <2>1. \A c : PivotQuality(c, price) \in 0..100
    BY ClampType DEF PivotQuality
  <2>2. QED
    BY <2>1
<1>3. \A c \in S : k2[c] \in Int
  BY DEF Selectable, Price, Absolute
<1>4. \A c \in S : k3[c] \in Int /\ k4[c] \in Int
  BY DEF Selectable, Price
<1> HIDE DEF k1, k2, k3, k4
<1> DEFINE A == Least(S, k1)
           B == Least(A, k2)
           C == Least(B, k3)
<1>5. A \subseteq S /\ A # {} /\ IsFiniteSet(A)
  BY <1>2, LeastType DEF Selectable
<1> HIDE DEF A
<1>6. B \subseteq A /\ B # {} /\ IsFiniteSet(B)
  BY <1>3, <1>5, LeastType
<1> HIDE DEF B
<1>7. C \subseteq B /\ C # {} /\ IsFiniteSet(C)
  BY <1>4, <1>5, <1>6, LeastType
<1> HIDE DEF C
<1>8. Least(C, k4) \subseteq C /\ Least(C, k4) # {}
  BY <1>4, <1>5, <1>6, <1>7, LeastType
<1>9. QED
  BY <1>1, <1>5, <1>6, <1>7, <1>8 DEF A, B, C

(* A pivot is a price above 0, its gap the way the price still has to go.    *)
LEMMA PivotType ==
    ASSUME NEW f \in Seq(Bar), NEW price \in Price, NEW structure,
           Known(Pivot(f, price, structure).level)
    PROVE  \E level \in Price :
              /\ Pivot(f, price, structure).level = <<level>>
              /\ Pivot(f, price, structure).gap = <<level - price>>
              /\ Pivot(f, price, structure).above = (level - price < 0)
<1> DEFINE work == LastN(f, W.PIVOT_LOOKBACK)
           swings == SwingHighs(work)
           all == Candidates(work, swings, structure)
           S == {c \in all : NoLess(c.level - price, price, -500)}
<1>1. Pivot(f, price, structure) = IF Len(f) < W.PIVOT_MIN_HISTORY THEN NoPivot ELSE PivotOf(S, price)
  BY DEF Pivot
<1>2. NoPivot.level = None
  BY DEF NoPivot
<1>3. work \in Seq(Bar)
  BY LastNType, LookbacksAssumption
<1> HIDE DEF work
<1>4. swings \in Seq(Swing)
  BY <1>3, SwingType
<1> HIDE DEF swings
<1>5. Selectable(all)
  <2>1. ClusterSwings(swings) \o CeilingCandidate(work, structure) \in Seq(Candidate)
    BY <1>3, <1>4, ClusterType, CeilingType, ConcatProperties
  <2>2. WithNewestSwing(ClusterSwings(swings) \o CeilingCandidate(work, structure), swings)
          \in Seq(Candidate)
    BY <1>4, <2>1, NewestType
  <2>3. QED
    BY <2>2, MergeType DEF Candidates
<1> HIDE DEF all
<1>6. Selectable(S)
  BY <1>5, FS_Subset DEF Selectable
<1> HIDE DEF S
<1> DEFINE chosen == CHOOSE c \in BestCandidates(S, price) : TRUE
<1>7. PivotOf(S, price) = IF S = {} THEN NoPivot ELSE PivotAt(chosen, chosen.level - price, price)
  BY DEF PivotOf
<1>8. S # {} /\ Pivot(f, price, structure) = PivotAt(chosen, chosen.level - price, price)
  <2> HIDE DEF chosen
  <2>1. QED
    BY <1>1, <1>2, <1>7 DEF Known
<1>9. chosen \in S
  BY <1>6, <1>8, BestType
<1> HIDE DEF chosen
<1>10. chosen.level \in Price
  BY <1>6, <1>9 DEF Selectable
<1>11. QED
  BY <1>8, <1>10 DEF PivotAt

-----------------------------------------------------------------------------
(* A price that ran away from its pivot.                                     *)

(* The stored quote always has a price above 0.                              *)
QuoteInv == "price" \in DOMAIN quote /\ quote.price \in Price

LEMMA QuoteOf ==
    ASSUME NEW bar \in Bar, NEW p
    PROVE  "price" \in DOMAIN QuoteAt(bar, p) /\ QuoteAt(bar, p).price \in Price
<1>1. bar.close \in Price
  BY DEF Bar, Price
<1>2. QED
  BY <1>1 DEF QuoteAt

LEMMA QuoteInvInit == ServiceInit => QuoteInv
<1>1. SUFFICES ASSUME ServiceInit PROVE QuoteInv
  OBVIOUS
<1>2. frame \in Seq(Bar) /\ frame # <<>>
  BY <1>1, ServiceTypeInit DEF ServiceInv, ServiceTypeOK
<1>3. Latest(frame) \in Bar
  BY <1>2, LatestType
<1>4. quote = QuoteAt(Latest(frame), frame[Len(frame) - 1].close)
  BY <1>1 DEF ServiceInit
<1>5. QED
  BY <1>3, <1>4, QuoteOf DEF QuoteInv

LEMMA QuoteInvStep == ServiceInv /\ QuoteInv /\ [ServiceNext]_serviceVars => QuoteInv'
<1> SUFFICES ASSUME ServiceInv, QuoteInv, [ServiceNext]_serviceVars PROVE QuoteInv'
  OBVIOUS
<1>0. frame \in Seq(Bar) /\ frame # <<>> /\ benchmark \in Seq(Bar) /\ benchmark # <<>>
  BY DEF ServiceInv, ServiceTypeOK
<1>1. CASE ScanLiveMarket
  BY <1>1 DEF ScanLiveMarket, QuoteInv
<1>2. CASE CloseSession
  <2> DEFINE day == LatestDay(benchmark) + 1
             bar(c) == Candle(Latest(frame), c.move, c.wick, c.volume, day)
  <2>1. PICK c \in Closes :
           /\ bar(c).low > 0
           /\ quote' = QuoteAt(bar(c), Latest(frame).close) \/ quote' = quote
              \/ quote' = [quote EXCEPT !.day = day]
    BY <1>2 DEF CloseSession
  <2>2. Latest(frame) \in Bar /\ day \in Int
    BY <1>0, LatestType
  <2>3. c.move \in Int /\ c.wick \in Nat /\ c.volume \in Nat
    BY ClosesAssumption
  <2> HIDE DEF day
  <2>4. bar(c) \in Bar
    BY <2>1, <2>2, <2>3, CandleType
  <2> HIDE DEF bar
  <2>5. CASE quote' = QuoteAt(bar(c), Latest(frame).close)
    BY <2>4, <2>5, QuoteOf DEF QuoteInv
  <2>6. CASE quote' = [quote EXCEPT !.day = day]
    BY <2>6 DEF QuoteInv
  <2>7. QED
    BY <2>1, <2>5, <2>6 DEF QuoteInv
<1>3. CASE QuoteMoves
  <2>1. PICK m \in Moves :
           LET last == Latest(frame).close
               price == (last * (100 + m.percent)) \div 100
           IN  /\ price > 0
               /\ quote' = [ price |-> price, previous |-> last, open |-> last,
                             high |-> Max({price, last}),
                             volume |-> (MeanVolume * m.volume) \div 100,
                             day |-> LatestDay(benchmark) ]
    BY <1>3 DEF QuoteMoves
  <2> DEFINE last == Latest(frame).close
             price == (last * (100 + m.percent)) \div 100
  <2>2. last \in Int
    BY <1>0, LatestType DEF Bar
  <2>3. m.percent \in Int
    BY QuotesAssumption
  <2>4. price \in Price
    <3>1. price > 0
      BY <2>1
    <3> HIDE DEF last
    <3>2. price \in Int
      BY <2>2, <2>3
    <3> HIDE DEF price
    <3>3. QED
      BY <3>1, <3>2 DEF Price
  <2>5. quote'.price = price /\ "price" \in DOMAIN quote'
    BY <2>1
  <2> HIDE DEF price
  <2>6. QED
    BY <2>4, <2>5 DEF QuoteInv
<1>4. CASE UNCHANGED serviceVars
  BY <1>4 DEF serviceVars, QuoteInv
<1>5. QED
  BY <1>1, <1>2, <1>3, <1>4 DEF ServiceNext

(* The base is called extended by a gap below nothing of a known pivot.      *)
LEMMA ExtendedOf ==
    ASSUME NEW f, NEW t, NEW p, NEW w, BaseQuality(f, t, p, w).extended
    PROVE  Known(p.level) /\ NoMore(p.gap[1], p.level[1] - p.gap[1], -300)
  BY DEF BaseQuality

LEMMA ExtendedScan ==
    ASSUME frame \in Seq(Bar), quote.price \in Price, Scan.extended
    PROVE  /\ Scan.class \notin {"STRONG", "HIGH_QUALITY"}
           /\ Scan.lifecycle \notin {"BREAKOUT_READY", "BREAKOUT_IN_PROGRESS"}
           /\ ~Scan.pre_breakout
<1> DEFINE v == Volatility(frame)
           u == Volume(frame)
           t == PriceStructure(frame)
           r == RelativeStrength(frame, benchmark)
           p == Pivot(frame, quote.price, t)
           w == VCP(frame, v, u, t, p)
           x == StockSnapshot(v, u, t, r, p, w)
           s == ScorerSnapshot(x, MarketContext(benchmark))
<1>1. Analysis = x
  BY Zenon DEF Analysis, AttachPivot, AttachVCP
<1>2. Scan = ScanReport(x, s, Stock)
  <2>1. Scan = ScanReport(Analysis, ScorerSnapshot(Analysis, MarketContext(benchmark)), Stock)
    BY DEF Scan, Scored
  <2> HIDE DEF x
  <2>2. QED
    BY <1>1, <2>1
<1> HIDE DEF v, u, t, r, w
<1>3. x.base = BaseQuality(frame, t, p, w) /\ x.pivot = p
  <2> HIDE DEF p
  <2>1. QED
    BY AnalysisOf
<1>4. RisksOf(x) \subseteq s.yes
  <2> HIDE DEF x
  <2>1. QED
    BY SnapshotOf
<1> HIDE DEF x, s
<1>5. /\ Scan.extended = x.base.extended /\ Scan.lifecycle = Lifecycle(x)
      /\ Scan.class = Classification(s) /\ (Scan.pre_breakout = IsPreBreakout(x))
  BY <1>2, ReportOf
<1> HIDE DEF p
<1>6. x.base.extended
  BY <1>5
<1>7. Known(p.level) /\ NoMore(p.gap[1], p.level[1] - p.gap[1], -300)
  BY <1>3, <1>6, ExtendedOf
<1>8. PICK level \in Price :
         p.level = <<level>> /\ p.gap = <<level - quote.price>> /\ p.above = (level - quote.price < 0)
  BY <1>7, PivotType DEF p
<1>9. "price_extended" \in RisksOf(x)
  <2>1. level \in Int /\ quote.price \in Int /\ level > 0 /\ quote.price > 0
    BY DEF Price
  <2>2. p.level[1] = level /\ p.gap[1] = level - quote.price
    BY <1>8
  <2>3. level - (level - quote.price) = quote.price
    BY <2>1
  <2>4. NoMore(level - quote.price, quote.price, -300)
    BY <1>7, <2>2, <2>3
  <2>5. level - quote.price < 0
    BY <2>1, <2>4 DEF NoMore
  <2>6. x.pivot.above /\ NoMore(x.pivot.gap[1], quote.price, -300)
    BY <1>3, <1>8, <2>2, <2>4, <2>5
  <2>7. QED
    BY <2>6, Zenon DEF RisksOf
<1>10. Scan.class \notin {"STRONG", "HIGH_QUALITY"}
  BY <1>4, <1>5, <1>9, StaleCap, CappedClass
<1>11. Lifecycle(x) \notin {"BREAKOUT_READY", "BREAKOUT_IN_PROGRESS"}
  BY <1>6 DEF Lifecycle, ExtendedSetup
<1>12. ~IsPreBreakout(x)
  BY <1>6 DEF IsPreBreakout
<1>13. QED
  BY <1>5, <1>10, <1>11, <1>12

(* A price that ran away from its pivot is strong to no one: the gap the     *)
(* base measures has the sign by which the scorer sees the price above the   *)
(* pivot (scorer risk, lifecycle stage and engine gate agree).               *)
THEOREM ExtendedIsNoSetup == ServiceSpec => []ExtendedNeverStrong
<1> DEFINE Inv == ServiceInv /\ QuoteInv /\ ExtendedNeverStrong
<1>1. ServiceInit => Inv
  BY ServiceTypeInit, QuoteInvInit, OneReport DEF ServiceInit, ExtendedNeverStrong
<1>2. Inv /\ [ServiceNext]_serviceVars => Inv'
  <2> SUFFICES ASSUME Inv, [ServiceNext]_serviceVars PROVE ExtendedNeverStrong'
    BY ServiceTypeStep, QuoteInvStep
  <2>1. CASE ScanLiveMarket
    <3>1. report' = <<Scan>>
      BY <2>1 DEF ScanLiveMarket
    <3>2. frame \in Seq(Bar) /\ quote.price \in Price
      BY DEF ServiceInv, ServiceTypeOK, QuoteInv
    <3> HIDE DEF Scan
    <3>3. report'[1] = Scan
      BY <3>1, OneReport
    <3>4. QED
      BY <3>2, <3>3, ExtendedScan DEF ExtendedNeverStrong
  <2>2. CASE CloseSession
    BY <2>2 DEF CloseSession, ExtendedNeverStrong
  <2>3. CASE QuoteMoves
    BY <2>3 DEF QuoteMoves, ExtendedNeverStrong
  <2>4. CASE UNCHANGED serviceVars
    BY <2>4 DEF serviceVars, ExtendedNeverStrong
  <2>5. QED
    BY <2>1, <2>2, <2>3, <2>4 DEF ServiceNext
<1>3. QED
  BY <1>1, <1>2, PTL DEF ServiceSpec
=============================================================================
