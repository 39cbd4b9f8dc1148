--------------------------- MODULE MCTimerWheel ---------------------------
(***************************************************************************)
(* Two timers on a wheel of three slots of two time units.                 *)
(***************************************************************************)
EXTENDS TimerWheel

CONSTANTS t1, t2

(***************************************************************************)
(* Timers are alike, so one of them takes every interval worth trying: not *)
(* positive, less than a tick, between two ticks, just below a round       *)
(* (rounds up to all the slots), exactly one round, more than a round, two *)
(* rounds; once, and without limit for the intervals of one tick and one   *)
(* round.  The other is there to share a slot, the loop variable and the   *)
(* channels with it.                                                       *)
(***************************************************************************)
MCTimers == {t1, t2}
MCCalls ==
  ({t1} \X {0, 3, 5, 8, 12} \X {1}) \cup ({t1} \X {1, 6} \X {0}) \cup {<<t2, 3, 1>>}
=============================================================================
