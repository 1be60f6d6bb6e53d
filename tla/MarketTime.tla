----------------------------- MODULE MarketTime -----------------------------
(***************************************************************************)
(* The trading day of agcommon::AshareMarketTime (common/common.h): one    *)
(* morning and one afternoon session, times of one day in whole seconds.   *)
(* The market time between two times counts the sessions only; Elapsed,    *)
(* which the source does not have, says what that should be.               *)
(***************************************************************************)
EXTENDS Integers

CONSTANTS
    MarketOpen, MorningClose, AfternoonOpen, MarketClose,
    ClosingAuctionBegin   \* getClosingCallAuctionBeginTime, 14:57

ASSUME SessionAssumption ==
    /\ {MarketOpen, MorningClose, AfternoonOpen, MarketClose, ClosingAuctionBegin} \subseteq Nat
    /\ 0 < MarketOpen /\ MarketOpen < MorningClose /\ MorningClose < AfternoonOpen
    /\ AfternoonOpen < ClosingAuctionBegin /\ ClosingAuctionBegin <= MarketClose

Earlier(a, b) == IF a <= b THEN a ELSE b
Later(a, b) == IF a >= b THEN a ELSE b

Break == AfternoonOpen - MorningClose

\* isAfternoonBreakTime
IsAfternoonBreakTime(t) == MorningClose < t /\ t < AfternoonOpen

\* Wrong on purpose: the break is skipped only from inside it.
AddClockTime(t, secs) ==
    LET end == IF MorningClose <= t /\ t < AfternoonOpen THEN AfternoonOpen + secs ELSE t + secs
    IN  Later(Earlier(end, MarketClose), MarketOpen)

\* addMarketDuration
AddMarketDuration(t, secs) ==
    LET end == IF MorningClose <= t /\ t < AfternoonOpen
               THEN (IF secs > 0 THEN AfternoonOpen ELSE MorningClose) + secs
               ELSE IF t < MorningClose /\ t + secs > MorningClose THEN t + secs + Break
               ELSE IF t > AfternoonOpen /\ t + secs < AfternoonOpen THEN t + secs - Break
               ELSE t + secs
    IN  Later(Earlier(end, MarketClose), MarketOpen)

\* getAvailableStartMarketTime
GetAvailableStartMarketTime(t) ==
    IF t < MarketOpen THEN MarketOpen
    ELSE IF MorningClose <= t /\ t <= AfternoonOpen THEN AfternoonOpen
    ELSE t

\* getMarketDuration
GetMarketDuration(start, end) ==
    LET e == Earlier(end, MarketClose)
        d == e - Later(start, MarketOpen)
    IN  IF start > end THEN 0
        ELSE IF MorningClose < e /\ e < AfternoonOpen THEN MorningClose - start
        ELSE IF start < MorningClose /\ e >= AfternoonOpen THEN d - Break
        ELSE IF MorningClose < start /\ start <= AfternoonOpen /\ e >= AfternoonOpen
             THEN e - AfternoonOpen
        ELSE d

\* Market time from the open to t.
Elapsed(t) ==
    Later(Earlier(t, MorningClose), MarketOpen) - MarketOpen
    + Later(Earlier(t, MarketClose), AfternoonOpen) - AfternoonOpen
=============================================================================
