-------------------------- MODULE SetupStructure --------------------------
(* The breakout setup the scanner sees in one stock's candles: the pivot it  *)
(* measures against, contractions, base, failed breakouts, supply and demand *)
(* (apps/scanner/engine).  Levels are prices in ticks; a percentage of a     *)
(* level is compared by cross-multiplying, so no rounding of a few millionths *)
(* moves a threshold.                                                        *)
EXTENDS CandleSignals, SequencesExt

(* 100 * part / whole is at most (at least) p / 100 percent.                 *)
NoMore(part, whole, p) == 10000 * part <= p * whole
NoLess(part, whole, p) == 10000 * part >= p * whole

(* Greedy selection of ascending positions at least gap apart.               *)
Apart(taken, place, gap) ==
    IF taken = <<>> \/ place - taken[Len(taken)] >= gap THEN Append(taken, place) ELSE taken
Spaced(at, gap) ==
    LET taken[i \in 0..Len(at)] ==
            IF i = 0 THEN <<>> ELSE Apart(taken[i - 1], at[i], gap)
    IN  Len(taken[Len(at)])
Increasing(S) ==
    [k \in 1..Cardinality(S) |-> CHOOSE i \in S : Cardinality({j \in S : j <= i}) = k]

Levels(group) == [i \in DOMAIN group |-> group[i].level]
(* Items by level, those of one level in their order.                        *)
Sorted(items) ==
    [k \in DOMAIN items |-> items[CHOOSE i \in DOMAIN items : Place(Levels(items), i) = k]]
(* Greedy grouping of items by level: an item joins the first group whose    *)
(* median it is within p hundredths of a percent of.                         *)
Joined(groups, item, p) ==
    LET close(k) == LET center == Median(Levels(groups[k]))
                    IN  NoMore(Absolute(item.level - center), center, p)
        fit == {k \in DOMAIN groups : close(k)}
    IN  IF fit = {} THEN Append(groups, <<item>>)
        ELSE [groups EXCEPT ![Min(fit)] = Append(@, item)]
Grouped(items, p) ==
    LET sorted == Sorted(items)
        placed[i \in 0..Len(items)] ==
            IF i = 0 THEN <<>> ELSE Joined(placed[i - 1], sorted[i], p)
    IN  placed[Len(items)]

(* A value above those of the w places before it and not below those after.  *)
IsPeak(s, i, w) ==
    /\ i > w /\ i <= Len(s) - w
    /\ \A j \in (i - w)..(i - 1) : s[i] > s[j]
    /\ \A j \in (i + 1)..(i + w) : s[i] >= s[j]
IsTrough(s, i, w) == IsPeak([k \in DOMAIN s |-> -s[k]], i, w)

-----------------------------------------------------------------------------
(* The pivot.                                                                *)

SwingHighs(work) ==
    LET highs == Column(work, "high")
        lows == Column(work, "low")
        w == W.PIVOT_SWING_WINDOW
        floor(i) == Max({Lowest(SubSeq(lows, i - w, i)), Lowest(SubSeq(lows, i, i + w))})
        kept == {i \in DOMAIN highs : /\ IsPeak(highs, i, w)
                                      /\ NoLess(highs[i] - floor(i), highs[i], 200)}
    IN  [k \in 1..Cardinality(kept) |->
            LET i == Increasing(kept)[k]
            IN  [level |-> highs[i], at |-> i, age |-> Len(work) - i]]

ClusterSwings(swings) ==
    LET groups == Grouped(swings, 150)
        tests(g) == Spaced(Increasing({g[i].at : i \in DOMAIN g}), W.PIVOT_MIN_TEST_SEPARATION)
        candidate(g) == [level   |-> Median(Levels(g)),
                         sources |-> {"REPEATED_RESISTANCE"},
                         tests   |-> tests(g),
                         age     |-> Min({g[i].age : i \in DOMAIN g})]
        kept == Increasing({k \in DOMAIN groups : tests(groups[k]) >= 2})
    IN  [k \in DOMAIN kept |-> candidate(groups[kept[k]])]

(* The ceiling of the consolidation: at least three separate touches of the  *)
(* 90 % quantile of the recent highs, at most 18 % above the recent lows.     *)
CeilingCandidate(work, structure) ==
    LET window == LastN(work, W.PIVOT_CONSOLIDATION_LOOKBACK)
        highs == Column(window, "high")
        reference == Quantile(highs, 9)
        touched == {i \in DOMAIN highs : NoMore(Absolute(10 * highs[i] - reference), reference, 150)}
        tests == Spaced(Increasing(touched), W.PIVOT_MIN_TEST_SEPARATION)
        level == Median([k \in 1..Cardinality(touched) |-> highs[Increasing(touched)[k]]])
    IN  IF Len(window) < W.PIVOT_CONSOLIDATION_LOOKBACK \/ tests < 3 THEN <<>>
        ELSE IF ~NoMore(level - Lowest(Column(window, "low")), level, 1800) THEN <<>>
        ELSE << [level   |-> level,
                 sources |-> {"CONSOLIDATION_CEILING"}
                    \cup (IF Is(structure.flat_base) THEN {"FLAT_BASE_RESISTANCE"} ELSE {})
                    \cup (IF Is(structure.support_compression) THEN {"VCP_COMPATIBLE_PIVOT"} ELSE {}),
                 tests   |-> tests,
                 age     |-> Len(window) - Max(touched)] >>

SourceQuality == [ FLAT_BASE_RESISTANCE |-> 78, VCP_COMPATIBLE_PIVOT |-> 76,
                   REPEATED_RESISTANCE |-> 72, CONSOLIDATION_CEILING |-> 68,
                   SWING_HIGH_RESISTANCE |-> 55 ]

MergeCandidates(candidates) ==
    LET groups == Grouped(candidates, 150)
        merged(g) ==
            LET sources == UNION {g[i].sources : i \in DOMAIN g}
            IN  [level   |-> Median(Levels(g)),
                 sources |-> sources,
                 source  |-> CHOOSE s \in sources :
                                \A t \in sources : SourceQuality[s] >= SourceQuality[t],
                 tests   |-> Max({g[i].tests : i \in DOMAIN g}),
                 age     |-> Min({g[i].age : i \in DOMAIN g})]
    IN  {merged(groups[k]) : k \in DOMAIN groups}

PivotQuality(c, price) ==
    Clamp(  SourceQuality[c.source]
          + Min({4 * Max({c.tests - 1, 0}), 12})
          + Max({0, 8 - c.age})
          + Min({4 * (Cardinality(c.sources) - 1), 8})
          + (IF NoMore(Absolute(c.level - price), price, 500) THEN 5 ELSE 0))

Least(S, key) == {c \in S : \A d \in S : key[c] <= key[d]}

NoPivot == [ level |-> None, gap |-> None, source |-> "NONE", tests |-> 0, quality |-> None,
             near |-> FALSE, above |-> FALSE, too_far |-> FALSE ]

(* The newest swing is a candidate of its own unless one is at its level.    *)
WithNewestSwing(mapped, swings) ==
    LET newest == swings[Len(swings)]
        known == \E i \in DOMAIN mapped :
                    NoMore(Absolute(newest.level - mapped[i].level), mapped[i].level, 150)
    IN  IF swings = <<>> \/ known THEN mapped
        ELSE Append(mapped, [level |-> newest.level, sources |-> {"SWING_HIGH_RESISTANCE"},
                             tests |-> 1, age |-> newest.age])
Candidates(work, swings, structure) ==
    MergeCandidates(WithNewestSwing(ClusterSwings(swings) \o CeilingCandidate(work, structure),
                                    swings))

BestCandidates(S, price) ==
    Least(Least(Least(Least(S, [c \in S |-> -PivotQuality(c, price)]),
                            [c \in S |-> Absolute(c.level - price)]),
                      [c \in S |-> -c.tests]),
                [c \in S |-> c.level])
PivotAt(chosen, gap, price) ==
    [ level   |-> <<chosen.level>>,
      gap     |-> <<gap>>,
      source  |-> chosen.source,
      tests   |-> chosen.tests,
      quality |-> <<PivotQuality(chosen, price)>>,
      near    |-> NoMore(Absolute(gap), price, 500),
      above   |-> gap < 0,
      too_far |-> ~NoMore(gap, price, 1000) ]
PivotOf(selectable, price) ==
    IF selectable = {} THEN NoPivot
    ELSE LET chosen == CHOOSE c \in BestCandidates(selectable, price) : TRUE
         IN  PivotAt(chosen, chosen.level - price, price)

(* The best candidate the price has not left more than 5 % behind.           *)
Pivot(frame, price, structure) ==
    LET work == LastN(frame, W.PIVOT_LOOKBACK)
    IN  IF Len(frame) < W.PIVOT_MIN_HISTORY THEN NoPivot
        ELSE PivotOf({c \in Candidates(work, SwingHighs(work), structure) :
                          NoLess(c.level - price, price, -500)}, price)

-----------------------------------------------------------------------------
(* Volatility contraction pattern.                                           *)

(* From a peak of the closes to the lowest trough before the next peak.      *)
Contractions(frame) ==
    LET closes == Column(frame, "close")
        w == W.VCP_EXTREMA_WINDOW
        peaks == Increasing({i \in DOMAIN closes : IsPeak(closes, i, w)})
        until(k) == IF k < Len(peaks) THEN peaks[k + 1] ELSE Len(frame) + 1
        troughs(k) == {i \in (peaks[k] + 1)..(until(k) - 1) : IsTrough(closes, i, w)}
        low(k) == Min(Least(troughs(k), [j \in DOMAIN frame |-> frame[j].low]))
        leg(k) == [top    |-> frame[peaks[k]].high,
                   bottom |-> frame[low(k)].low,
                   days   |-> low(k) - peaks[k]]
        legs == [k \in {p \in DOMAIN peaks : troughs(p) # {}} |-> leg(k)]
        kept == Increasing({k \in DOMAIN legs :
                    /\ NoLess(legs[k].top - legs[k].bottom, legs[k].top, 300)
                    /\ legs[k].days \in W.VCP_MIN_CONTRACTION_DURATION
                                        ..W.VCP_MAX_CONTRACTION_DURATION})
    IN  LastN([i \in DOMAIN kept |-> legs[kept[i]]], W.VCP_MAX_REPORTED_CONTRACTIONS)
(* round(depth_pct, 4), in ten-thousandths of the peak.                      *)
Depth(leg) == RoundDiv(10000 * (leg.top - leg.bottom), leg.top)

VolatilityContracting(v) ==
    LET seen == {o \in {v.atr_contracting, v.rolling_range_compressed,
                        v.candle_range_contracting, v.stddev_contracting,
                        v.bollinger_squeeze} : Known(o)}
    IN  IF seen = {} THEN None ELSE <<\E o \in seen : Is(o)>>
VolumeContracting(v) ==
    LET seen == {o \in {v.volume_dry_up, v.contracting_in_consolidation} : Known(o)}
    IN  IF seen = {} THEN None ELSE <<\E o \in seen : Is(o)>>
HeavyDistribution(v) ==
    /\ Known(v.distribution_days) /\ v.distribution_days[1] >= 3
    /\ Known(v.accumulation_days) => v.distribution_days[1] > v.accumulation_days[1]
    /\ Known(v.down_volume) /\ Known(v.up_volume) /\ v.down_volume[1] > v.up_volume[1]

Tight(structure) ==
    \/ Is(structure.tight_closes)
    \/ Is(structure.multiple_tight_closes)
    \/ Is(structure.support_compression)

NoVCP == [ known |-> FALSE, legs |-> <<>>, decreasing |-> None, volatility |-> None, volume |-> None,
           higher_lows |-> None, tight_near_pivot |-> None, risks |-> {}, quality |-> None,
           invalid |-> None, detected |-> None ]

Steps(legs) == 2..Len(legs)
Decreasing(legs) ==
    IF Len(legs) < 2 THEN None
    ELSE <<\A i \in Steps(legs) : 100 * Depth(legs[i]) <= 95 * Depth(legs[i - 1])>>
HigherLegLows(legs, structure) ==
    \/ Is(structure.higher_lows) \/ Is(structure.support_compression)
    \/ /\ Len(legs) >= 2
       /\ \A i \in Steps(legs) : 1000 * legs[i].bottom >= 1005 * legs[i - 1].bottom
FatalRisks(f, pivot, volatility, volume, structure) ==
           (IF \E i \in Steps(f.legs) : 100 * Depth(f.legs[i]) >= 105 * Depth(f.legs[i - 1])
            THEN {"WIDENING_CONTRACTIONS"} ELSE {})
      \cup (IF volatility.expanding THEN {"EXPANDING_VOLATILITY"} ELSE {})
      \cup (IF HeavyDistribution(volume) THEN {"HEAVY_DISTRIBUTION"} ELSE {})
      \cup (IF f.decreasing = <<FALSE>> /\ ~Tight(structure) /\ ~f.higher
            THEN {"LOOSE_RANDOM_RANGES"} ELSE {})
      \cup (IF ~Known(pivot.level) THEN {"NO_MEANINGFUL_PIVOT"} ELSE {})
      \cup (IF \E i \in DOMAIN f.legs : Depth(f.legs[i]) > 3500
            THEN {"EXCESSIVE_CONTRACTION_DEPTH"} ELSE {})
      \cup (IF pivot.too_far THEN {"PRICE_TOO_FAR_FROM_PIVOT"} ELSE {})

(* f is what was found, confirmed the six components in the order of points. *)
VCPOf(f, confirmed, quality, fatal) ==
    [ known |-> TRUE, legs |-> f.legs, decreasing |-> f.decreasing,
      volatility |-> f.volatility, volume |-> f.volume,
      higher_lows |-> <<f.higher>>, tight_near_pivot |-> <<f.nearby>>,
      risks |-> fatal \cup (IF Len(f.legs) >= 2 THEN {} ELSE {"TOO_FEW_CONTRACTIONS"}),
      quality |-> <<quality>>,
      invalid |-> <<fatal # {}>>,
      detected |-> << /\ fatal = {} /\ Len(f.legs) >= 2
                      /\ Cardinality({i \in 1..6 : confirmed[i]}) >= 4
                      /\ quality >= 70 >> ]
Confirmed(f) ==
    << Len(f.legs) >= 2, Is(f.decreasing), Is(f.volatility), Is(f.volume), f.higher, f.nearby >>
QualityPoints(confirmed) ==
      Points(confirmed[1], 20) + Points(confirmed[2], 20) + Points(confirmed[3], 15)
    + Points(confirmed[4], 15) + Points(confirmed[5], 15) + Points(confirmed[6], 15)
Judgement(f, fatal) == VCPOf(f, Confirmed(f), QualityPoints(Confirmed(f)), fatal)
Found(legs, volatility, volume, structure, pivot) ==
    [ legs |-> legs, decreasing |-> Decreasing(legs),
      volatility |-> VolatilityContracting(volatility), volume |-> VolumeContracting(volume),
      higher |-> HigherLegLows(legs, structure),
      nearby |-> Known(pivot.level) /\ pivot.near /\ ~pivot.too_far /\ Tight(structure) ]

VCP(frame, volatility, volume, structure, pivot) ==
    LET f == Found(Contractions(frame), volatility, volume, structure, pivot)
    IN  IF Len(frame) < W.VCP_MIN_HISTORY THEN NoVCP
        ELSE Judgement(f, FatalRisks(f, pivot, volatility, volume, structure))
=============================================================================
