---------------------------- MODULE MarketStatus ----------------------------
(***************************************************************************)
(* What a page may say of the age of what it shows: LIVE, MARKET_CLOSED,   *)
(* STALE or DATA_UNAVAILABLE (apps/market/services/market_status_service.  *)
(* py) and the session the scanner should have reached (apps/core/         *)
(* services/scanner_data_readiness.py).  Time is a number of ticks of      *)
(* 300 s, the unit of both of the service's tolerances; day 0 is a Monday, *)
(* and the service knows weekends but no holidays.                         *)
(***************************************************************************)
EXTENDS Integers

CONSTANTS DayLength,
          Open, Close,    \* the trading window, both ends included
          Grace,          \* when the day's session is expected to be complete
          StaleAfter,     \* MARKET_DATA_STALE_AFTER_SECONDS
          Skew            \* CLOCK_SKEW_TOLERANCE_SECONDS

ASSUME ClockAssumption ==
    /\ {DayLength, Open, Close, Grace, StaleAfter, Skew} \subseteq Nat
    /\ 0 < Open /\ Open < Close /\ Close < Grace /\ Grace < DayLength

Unknown == -1     \* no timestamp, no date
Statuses == {"LIVE", "MARKET_CLOSED", "STALE", "DATA_UNAVAILABLE"}

Day(t) == t \div DayLength
TimeOfDay(t) == t % DayLength
IsWeekday(day) == (day % 7) < 5
LastWeekday(day) == IF IsWeekday(day) THEN day ELSE day - ((day % 7) - 4)

IsTradingWindow(now) == IsWeekday(Day(now)) /\ TimeOfDay(now) \in Open..Close

ExpectedSession(now) == LastWeekday(IF TimeOfDay(now) < Grace THEN Day(now) - 1 ELSE Day(now))

(* Outside trading hours any stored quote would do.                        *)
ForProviderTimestampMutant(now, stamp, session) ==
    CASE stamp = Unknown -> "DATA_UNAVAILABLE"
      [] stamp # Unknown /\ stamp > now + Skew -> "STALE"
      [] stamp \in 0..(now + Skew) ->
           IF IsTradingWindow(now) /\ now - stamp > StaleAfter THEN "STALE"
           ELSE IF IsTradingWindow(now) THEN "LIVE" ELSE "MARKET_CLOSED"

(* session is the day of the last trade, where the quote has one.          *)
ForProviderTimestamp(now, stamp, session) ==
    CASE stamp = Unknown -> "DATA_UNAVAILABLE"
      [] stamp # Unknown /\ stamp > now + Skew -> "STALE"
      [] stamp \in 0..(now + Skew) /\ IsTradingWindow(now) ->
           IF now - stamp <= StaleAfter THEN "LIVE" ELSE "STALE"
      [] stamp \in 0..(now + Skew) /\ ~IsTradingWindow(now) ->
           IF ExpectedSession(now) \in {session, Day(stamp)} \/ Day(stamp) = Day(now)
           THEN "MARKET_CLOSED" ELSE "STALE"

ForScannerSession(now, session) ==
    CASE session = Unknown -> "DATA_UNAVAILABLE"
      [] session \notin {Unknown, ExpectedSession(now)} -> "STALE"
      [] session = ExpectedSession(now) /\ session # Unknown ->
           IF IsTradingWindow(now) THEN "LIVE" ELSE "MARKET_CLOSED"

MarketMeta(now, stamp, quoteSession, scannerSession) ==
    [status |-> ForProviderTimestamp(now, stamp, quoteSession),
     latest |-> stamp,
     latestScannerSession |-> scannerSession,
     expected |-> ExpectedSession(now),
     scannerStatus |-> ForScannerSession(now, scannerSession)]
=============================================================================
