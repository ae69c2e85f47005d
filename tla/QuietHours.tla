------------------------------ MODULE QuietHours ------------------------------
(***************************************************************************)
(* The quiet window of one market (domain/policy.py, class QuietHours).    *)
(*                                                                         *)
(* An instant is an integer number of minutes since some midnight UTC; a   *)
(* window is a record of two whole hours and the market's offset from UTC  *)
(* in minutes.  Seconds are dropped: the code only ever reads the hour.    *)
(***************************************************************************)
EXTENDS Integers

Instant == Int

(* __post_init__: hours 0..23, offset -720..840.  start = end is accepted. *)
QuietWindow == [start : 0..23, end : 0..23, offset : -720..840]

LocalHour(q, t) == ((t + q.offset) \div 60) % 24

-----------------------------------------------------------------------------
(* Plausible bugs, used to show that the properties can fail. *)

\* A window that wraps midnight read as if it did not.
ContainsNoWrap(q, t) ==
  LET hour == LocalHour(q, t) IN q.start <= hour /\ hour < q.end

\* The end hour read as inclusive.
ContainsEndInclusive(q, t) ==
  LET hour == LocalHour(q, t)
  IN  IF q.start = q.end THEN FALSE
      ELSE IF q.start < q.end THEN q.start <= hour /\ hour <= q.end
      ELSE hour >= q.start \/ hour <= q.end

-----------------------------------------------------------------------------
(* Start inclusive, end exclusive; start after end wraps midnight; equal   *)
(* hours are an empty window.                                              *)
Contains(q, t) ==
  LET hour == LocalHour(q, t)
  IN  IF q.start = q.end THEN FALSE
      ELSE IF q.start < q.end THEN q.start <= hour /\ hour < q.end
      ELSE hour >= q.start \/ hour < q.end

(***************************************************************************)
(* The reference meaning: the window opens every day at `start' local time *)
(* and stays open for (end - start) mod 24 hours.                          *)
(***************************************************************************)
MinutesPerDay == 1440

MinutesSinceOpening(q, t) == (t + q.offset - 60 * q.start) % MinutesPerDay

WindowMinutes(q) == 60 * ((q.end - q.start) % 24)

InDailyWindow(q, t) == MinutesSinceOpening(q, t) < WindowMinutes(q)

=============================================================================
