--------------------------- MODULE SetupLifecycle ---------------------------
(* What the scanner makes of a setup: the quality of its base, the breakouts *)
(* of the pivot that failed, supply and demand, the supply overhead, and the *)
(* stage of the setup's life with its readiness score (apps/scanner/engine). *)
EXTENDS SetupStructure

ASSUME LookbacksAssumption ==
    {W.FAILED_LOOKBACK, W.CONFIRMATION_SESSIONS, W.FAILED_MIN_HISTORY, W.PIVOT_LOOKBACK,
     W.PIVOT_CONSOLIDATION_LOOKBACK} \subseteq Nat

Fewest(o, n) == Known(o) /\ o[1] >= n

-----------------------------------------------------------------------------
BaseQuality(frame, structure, pivot, vcp) ==
    LET base == LastN(frame, W.BASE_LOOKBACK)
        level == pivot.level[1]
        within == SelectSeq(base, LAMBDA b : 100 * b.close <= 103 * level)
        based == Known(pivot.level) /\ within # <<>>
        depth == level - Lowest(Column(within, "low"))
        clear == /\ Known(pivot.level)
                 /\ NoMore(Highest(Column(LastN(frame, W.MIN_52_WEEK_HISTORY), "high")) - level, level, 500)
        smaller == /\ Len(vcp.legs) >= 2
                   /\ \A i \in 2..Len(vcp.legs) : Depth(vcp.legs[i]) < Depth(vcp.legs[i - 1])
        confirmed == << based /\ Len(within) >= W.BASE_ADEQUATE_SESSIONS,
                        based /\ NoLess(depth, level, 300) /\ NoMore(depth, level, 3500),
                        Len(vcp.legs) >= 2, smaller,
                        Is(structure.tight_closes) \/ Is(structure.multiple_tight_closes),
                        pivot.tests >= 2, pivot.near, clear >>
    IN  [ duration |-> IF based THEN Len(within) ELSE 0,
          quality  |-> <<RoundDiv(100 * Len(SelectSeq(confirmed, LAMBDA c : c)), 8)>>,
          extended |-> Known(pivot.level) /\ NoMore(pivot.gap[1], level - pivot.gap[1], -300) ]

(* Confirmed closes above the pivot that fell back 1 % under it within the   *)
(* confirmation sessions; the latest sessions are never judged.              *)
FailedBreakoutsMutant(frame, pivot) ==
    LET work == LastN(frame, W.FAILED_RECENT_SESSIONS)
        close(i) == work[i].close
        level == pivot.level[1]
        after(i) == (i + 1)..(i + W.CONFIRMATION_SESSIONS)
        failed(i) == {j \in after(i) : 100 * close(j) <= 99 * level}
        attempts == {i \in 2..(Len(work) - W.CONFIRMATION_SESSIONS) :
                        /\ 2000 * close(i - 1) <= 2003 * level
                        /\ 1000 * close(i) >= 1003 * level
                        /\ failed(i) # {}}
        worst == Min({close(j) : j \in UNION {after(i) : i \in attempts}})
        days == Len(work) - Min(failed(Max(attempts)))
    IN  IF Len(frame) < W.FAILED_MIN_HISTORY \/ ~Known(pivot.level) \/ attempts = {}
        THEN [ count |-> 0, recent |-> FALSE, days |-> None, severity |-> "NONE" ]
        ELSE [ count    |-> Cardinality(attempts),
               recent   |-> days <= W.FAILED_RECENT_SESSIONS,
               days     |-> <<days>>,
               severity |-> IF 100 * worst <= 95 * level THEN "SEVERE"
                            ELSE IF 100 * worst <= 97 * level THEN "MODERATE" ELSE "LOW" ]
FailedBreakouts(frame, pivot) ==
    LET work == LastN(frame, W.FAILED_LOOKBACK)
        close(i) == work[i].close
        level == pivot.level[1]
        after(i) == (i + 1)..(i + W.CONFIRMATION_SESSIONS)
        failed(i) == {j \in after(i) : 100 * close(j) <= 99 * level}
        attempts == {i \in 2..(Len(work) - W.CONFIRMATION_SESSIONS) :
                        /\ 2000 * close(i - 1) <= 2003 * level
                        /\ 1000 * close(i) >= 1003 * level
                        /\ failed(i) # {}}
        worst == Min({close(j) : j \in UNION {after(i) : i \in attempts}})
        days == Len(work) - Min(failed(Max(attempts)))
    IN  IF Len(frame) < W.FAILED_MIN_HISTORY \/ ~Known(pivot.level) \/ attempts = {}
        THEN [ count |-> 0, recent |-> FALSE, days |-> None, severity |-> "NONE" ]
        ELSE [ count    |-> Cardinality(attempts),
               recent   |-> days <= W.FAILED_RECENT_SESSIONS,
               days     |-> <<days>>,
               severity |-> IF 100 * worst <= 95 * level THEN "SEVERE"
                            ELSE IF 100 * worst <= 97 * level THEN "MODERATE" ELSE "LOW" ]

-----------------------------------------------------------------------------
(* Overhead supply: earlier peaks .25 to 15 % above the price and the pivot. *)

MeanVolumeBefore(work, i) ==
    LET from == Max({1, i - W.OVERHEAD_VOLUME_LOOKBACK})
        days == i - from
    IN  IF days < W.OVERHEAD_VOLUME_MIN THEN None
        ELSE <<[total |-> Total(SubSeq(Column(work, "volume"), from, i - 1)), days |-> days]>>

OverheadZones(work, reference) ==
    LET highs == Column(work, "high")
        peak(i) == /\ IsPeak(highs, i, W.OVERHEAD_SWING_WINDOW)
                   /\ NoLess(highs[i] - reference, reference, 25)
                   /\ NoMore(highs[i] - reference, reference, 1500)
        heavy(i) == LET m == MeanVolumeBefore(work, i)
                    IN  /\ Known(m) /\ m[1].total > 0
                        /\ 2 * m[1].days * work[i].volume >= 3 * m[1].total
        at == Increasing({i \in DOMAIN highs : peak(i)})
        zones == Grouped([k \in DOMAIN at |-> [level |-> highs[at[k]], heavy |-> heavy(at[k])]], 125)
        zone(z) == LET level == Median(Levels(z))
                   IN  [level |-> level, tests |-> Len(z),
                        heavy |-> \E k \in DOMAIN z : z[k].heavy,
                        congested |-> Len(SelectSeq(work, LAMBDA b :
                                          NoMore(Absolute(b.close - level), level, 125))) >= 3]
    IN  [k \in DOMAIN zones |-> zone(zones[k])]

(* The nearest zone's distance, the number of zones, and how many of them    *)
(* were tested twice, heavily traded or congested.                           *)
SupplyScore(zones, near, close) ==
    Min({100,
          (IF near THEN 35 ELSE Points(close, 20))
        + Min({10 * Len(zones), 30})
        + Min({10 * Len(SelectSeq(zones, LAMBDA z : z.tests >= 2)), 20})
        + Min({10 * Len(SelectSeq(zones, LAMBDA z : z.heavy)), 20})
        + Min({10 * Len(SelectSeq(zones, LAMBDA z : z.congested)), 20}) })
SupplyAbove(score, close) == [ score |-> <<score>>, clear |-> <<score < 55 /\ ~close>> ]
SupplyOf(zones, price) ==
    LET within(percent) ==
            \E z \in {zones[k] : k \in DOMAIN zones} : NoMore(z.level - price, price, percent)
    IN  SupplyAbove(SupplyScore(zones, within(300), within(500)), within(500))
OverheadSupply(frame, pivot, price) ==
    IF Len(frame) < W.OVERHEAD_MIN_HISTORY \/ ~Known(pivot.level)
    THEN [ score |-> None, clear |-> None ]
    ELSE SupplyOf(OverheadZones(LastN(frame, W.OVERHEAD_LOOKBACK), Max({price, pivot.level[1]})),
                  price)

-----------------------------------------------------------------------------
(* Supply and demand.                                                        *)

MeanAtMost(s, t, num, den) ==     \* mean(s) <= num / den * mean(t)
    den * Total(s) * Len(t) <= num * Total(t) * Len(s)
Upper(s) == LastN(s, Len(s) - Max({1, Len(s) \div 2}))
Lower(s) == SubSeq(s, 1, Max({1, Len(s) \div 2}))

(* Later tests of the pivot are rejected less, on no more volume, and close  *)
(* no lower.                                                                 *)
ResistanceAbsorption(work, pivot) ==
    LET level == pivot.level[1]
        tests == SelectSeq(LastN(work, W.PIVOT_TEST_LOOKBACK),
                     LAMBDA b : NoMore(Absolute(b.high - level), level, 150))
        rejection == [i \in DOMAIN tests |-> tests[i].high - tests[i].close]
        volume == Column(tests, "volume")
    IN  IF ~Known(pivot.level) THEN None
        ELSE IF Len(tests) < 3 THEN <<FALSE>>
        ELSE << /\ MeanAtMost(Upper(rejection), Lower(rejection), 4, 5)
                /\ MeanAtMost(Upper(volume), Lower(volume), 11, 10)
                /\ Latest(tests).close >= tests[1].close >>

(* The falls among the sessions i of the window: their volumes and their     *)
(* size in ten-thousandths.                                                  *)
Falls(work, window) ==
    LET down == Increasing({i \in window : i > 1 /\ work[i].close < work[i - 1].close})
    IN  [ volume |-> [k \in DOMAIN down |-> work[down[k]].volume],
          decline |-> [k \in DOMAIN down |->
              (10000 * (work[down[k] - 1].close - work[down[k]].close)) \div work[down[k] - 1].close] ]

DemandExpansion(work) ==
    \E i \in Max({2, Len(work) - W.DEMAND_LOOKBACK + 1})..Len(work) :
        LET m == MeanVolumeBefore(work, i)
            b == work[i]
        IN  /\ b.close > work[i - 1].close
            /\ Known(m) /\ 4 * m[1].days * b.volume >= 5 * m[1].total
            /\ b.high > b.low
            /\ 100 * (b.close - b.low) >= 65 * (b.high - b.low)

SupplyDemand(frame, pivot, volume) ==
    LET work == LastN(frame, W.SUPPLY_DEMAND_LOOKBACK)
        n == Len(work)
        moved(sign) == {i \in (n - W.PRESSURE_LOOKBACK + 1)..n :
                          i > 1 /\ sign * (work[i].close - work[i - 1].close) > 0}
        up == MapThenSumSet(LAMBDA i : work[i].volume, moved(1))
        down == MapThenSumSet(LAMBDA i : work[i].volume, moved(-1))
        balance == Ratio(up - down, up + down)
        recent == Falls(work, (n - W.PULLBACK_RECENT + 1)..n)
        before == Falls(work, Max({1, n - W.PULLBACK_RECENT - W.PULLBACK_BASELINE + 1})
                              ..(n - W.PULLBACK_RECENT))
        enough == Len(recent.volume) >= 2 /\ Len(before.volume) >= 2
        contracting == IF enough THEN <<MeanAtMost(recent.volume, before.volume, 85, 100)>> ELSE None
        declining == IF enough
                     THEN <<Is(contracting) /\ MeanAtMost(recent.decline, before.decline, 11, 10)>>
                     ELSE None
        absorbed == ResistanceAbsorption(work, pivot)
        expanding == contracting = <<FALSE>> /\ MeanAtMost(before.volume, recent.volume, 10, 12)
        distributed == /\ Known(volume.distribution_days) /\ volume.distribution_days[1] >= 3
                       /\ volume.distribution_days[1] > volume.accumulation_days[1]
    IN  IF Len(frame) < W.SUPPLY_DEMAND_MIN_HISTORY
        THEN [ demand |-> None, supply |-> None, absorbed |-> None ]
        ELSE [ demand |-> << 20 * Len(SelectSeq(<< Fewest(balance, 1500), Is(contracting), Is(declining),
                                           Is(absorbed),
                                           DemandExpansion(work) \/ Is(volume.accumulation_behavior) >>,
                                        LAMBDA c : c)) >>,
               supply |-> << Min({100, Points(Known(balance) /\ balance[1] <= -1500, 30)
                                     + Points(distributed, 25) + Points(expanding, 25)
                                     + Points(declining = <<FALSE>>, 10)
                                     + Points(Is(volume.abnormal_volume), 10)}) >>,
               absorbed |-> absorbed ]

-----------------------------------------------------------------------------
(* The stage of the setup.  An analysis x is the record of the feature       *)
(* records above with the quality gate, the weekly view and the relative     *)
(* strength of the stock.                                                    *)

SevereStructureMutant(x) ==
    /\ Is(x.vcp.invalid)
    /\ x.vcp.risks \cap {"EXPANDING_VOLATILITY", "LOOSE_RANDOM_RANGES",
                         "EXCESSIVE_CONTRACTION_DEPTH", "WIDENING_CONTRACTIONS",
                         "PRICE_TOO_FAR_FROM_PIVOT"} # {}
SevereStructure(x) ==
    /\ Is(x.vcp.invalid)
    /\ x.vcp.risks \cap {"EXPANDING_VOLATILITY", "LOOSE_RANDOM_RANGES",
                         "EXCESSIVE_CONTRACTION_DEPTH", "WIDENING_CONTRACTIONS"} # {}
InvalidSetupMutant(x) ==
    \/ x.quality = "INVALID"
    \/ x.lookback < W.LIFECYCLE_MIN_LOOKBACK
    \/ SevereStructure(x)
InvalidSetup(x) ==
    \/ x.quality \notin {"FRESH", "PARTIAL"}
    \/ x.lookback < W.LIFECYCLE_MIN_LOOKBACK
    \/ SevereStructure(x)
ExtendedSetup(x) ==
    \/ x.base.extended
    \/ Known(x.pivot.level) /\ 100 * x.price >= 103 * x.pivot.level[1]
RecentFailure(x) == x.failed.recent

ContractionEvidence(x) ==
    << Is(x.vcp.decreasing),
       Is(x.vcp.volatility) \/ Is(x.volatility.atr_contracting),
       Is(x.vcp.volume) \/ Is(x.volume.volume_dry_up) >>

ReadinessPoints(x) ==
      Scaled(x.base.quality, 20)
    + Min({5 * Len(SelectSeq(ContractionEvidence(x), LAMBDA c : c)), 15})
    + Points(Known(x.pivot.level), 5 + Scaled(x.pivot.quality, 5) + Points(x.pivot.near, 5))
    + Scaled(x.rs.rating, 8) + Points(Is(x.rs.improving), 4) + Points(Is(x.rs.leading), 3)
    + Points(Known(x.weekly.trend) /\ x.weekly.trend # <<"BEARISH">>, 4)
    + Points(Is(x.weekly.aligned), 4) + Points(Is(x.weekly.contraction), 2)
    + Scaled(x.supply.demand, 6)
    + Points(Known(x.supply.supply) /\ x.supply.supply[1] < 35, 4)
    + (IF Is(x.overhead.clear) THEN 10
       ELSE Points(Known(x.overhead.score) /\ x.overhead.score[1] <= 25, 6))
    + (IF x.failed.count = 0 THEN 5 ELSE Points(~RecentFailure(x), 3))

ReadinessCaps(x) ==
    LET cap(condition, n) == IF condition THEN {n} ELSE {}
    IN  cap(x.quality = "PARTIAL", 70) \cup cap(InvalidSetup(x), 0)
        \cup cap(~Known(x.pivot.level), 35)
        \cup cap(Known(x.pivot.level) /\ ~NoMore(x.pivot.gap[1], x.price, 500), 45)
        \cup cap(ExtendedSetup(x), 20)
        \cup cap(x.weekly.trend = <<"BEARISH">>, 50)
        \cup cap(Known(x.rs.rating) /\ x.rs.rating[1] < 40, 50)
        \cup cap(Fewest(x.supply.supply, 60), 45)
        \cup cap(Fewest(x.overhead.score, 55), 55)
        \cup cap(x.failed.count >= 2 /\ RecentFailure(x), 50)
Readiness(x) == Clamp(Min({ReadinessPoints(x)} \cup ReadinessCaps(x)))

BaseExists(x) ==
    \/ x.base.duration >= W.BASE_MIN_SESSIONS
    \/ Is(x.structure.flat_base) \/ Is(x.structure.ascending_triangle) \/ Is(x.darvas)
Tightening(x) ==
    /\ Is(x.vcp.decreasing) /\ Tight(x.structure)
    /\ Is(x.vcp.higher_lows) \/ Is(x.structure.higher_lows)
Contracting(x) ==
    Len(x.vcp.legs) >= 2 /\ \E i \in 1..3 : ContractionEvidence(x)[i]
NearPivot(x) == Known(x.pivot.level) /\ x.pivot.near
ConfirmedCross(x) == Known(x.pivot.level) /\ 1000 * x.price >= 1003 * x.pivot.level[1]

(* `days_since or 999`: the day of the failure itself counts as long ago.    *)
CurrentFailure(x) ==
    /\ RecentFailure(x)
    /\ Known(x.failed.days) /\ x.failed.days[1] \in 1..W.FAILURE_CURRENT_SESSIONS
    /\ Known(x.pivot.level) /\ x.price < x.pivot.level[1]

Ready(x) ==
    /\ Readiness(x) >= 75
    /\ \/ Is(x.trend.minervini)
       \/ Is(x.trend.ema_alignment) /\ Is(x.trend.price_above_sma_50)
    /\ Fewest(x.rs.rating, 65) \/ Is(x.rs.improving) \/ Is(x.rs.leading)
    /\ NearPivot(x)
    /\ \/ Is(x.volume.volume_dry_up) /\ x.pivot.near
       \/ Is(x.volume.contracting_in_consolidation)
       \/ Is(x.supply.absorbed)
    /\ x.weekly.trend # <<"BEARISH">>
    /\ ~Fewest(x.supply.supply, 60)
    /\ Is(x.overhead.clear)
    /\ ~ExtendedSetup(x) /\ ~RecentFailure(x) /\ ~InvalidSetup(x)

LifecycleMutant(x) ==
    IF InvalidSetup(x) THEN "INVALID_SETUP"
    ELSE IF CurrentFailure(x) THEN "FAILED_BREAKOUT"
    ELSE IF ConfirmedCross(x) THEN "BREAKOUT_IN_PROGRESS"
    ELSE IF ExtendedSetup(x) THEN "EXTENDED_AFTER_BREAKOUT"
    ELSE "NO_SETUP"
Lifecycle(x) ==
    IF InvalidSetup(x) THEN "INVALID_SETUP"
    ELSE IF CurrentFailure(x) THEN "FAILED_BREAKOUT"
    ELSE IF ExtendedSetup(x) THEN "EXTENDED_AFTER_BREAKOUT"
    ELSE IF ConfirmedCross(x) THEN "BREAKOUT_IN_PROGRESS"
    ELSE IF Ready(x) THEN "BREAKOUT_READY"
    ELSE IF NearPivot(x) /\ BaseExists(x) THEN "NEAR_PIVOT"
    ELSE IF Tightening(x) /\ BaseExists(x) THEN "TIGHTENING"
    ELSE IF Contracting(x) /\ BaseExists(x) THEN "CONTRACTING"
    ELSE IF BaseExists(x) /\ Known(x.pivot.level) THEN "BASE_BUILDING"
    ELSE "NO_SETUP"
=============================================================================
