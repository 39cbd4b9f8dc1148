------------------------------ MODULE Backoff ------------------------------
(***************************************************************************)
(* gnet.BackoffConfig.Backoff: the delay before the next retry.  Delays    *)
(* are integers, and so are Factor and Jitter in tenths; a product is      *)
(* rounded down, where the code keeps a float until the end.  A Duration   *)
(* is an int64: what a float out of its range is converted to depends on   *)
(* the implementation (external), and can be any Duration.                 *)
(***************************************************************************)
EXTENDS Integers

CONSTANTS
  BaseDelays, MaxDelays,  \* the configurations tried
  Factors, Jitters,       \* in tenths
  Retries,                \* the arguments tried
  MaxDuration             \* the largest Duration, 2^63 - 1 in the code

VARIABLES
  conf,     \* the receiver bc
  asked,    \* the argument retries
  retries,  \* failures that are left to account for
  backoff,  \* the delay so far; the result at the end
  at        \* "start", "loop", "done"

vars == <<conf, asked, retries, backoff, at>>

Confs == [BaseDelay : BaseDelays, MaxDelay : MaxDelays, Factor : Factors, Jitter : Jitters]

Init ==
  /\ conf \in Confs /\ asked \in Retries /\ retries = asked
  /\ backoff = conf.BaseDelay /\ at = "start"

\* No failure yet: the base delay as it is.
First ==
  /\ at = "start"
  /\ at' = IF retries = 0 THEN "done" ELSE "loop"
  /\ UNCHANGED <<conf, asked, retries, backoff>>

More == backoff < conf.MaxDelay /\ retries > 0

Grow ==
  /\ at = "loop" /\ More
  /\ backoff' = (backoff * conf.Factor) \div 10
  /\ retries' = retries - 1
  /\ UNCHANGED <<conf, asked, at>>

\* time.Duration(d).  A float64 that is as large as MaxDuration is rounded up
\* to 2^63, and out of range already.
Durations == -MaxDuration - 1..MaxDuration
Converted(d) == IF d < MaxDuration THEN {d} ELSE Durations

\* Mutant: the delay is not clamped.
NoClamp(d) == d
Clamp(d) == IF d > conf.MaxDelay THEN conf.MaxDelay ELSE d

\* The random factor between 1 - Jitter and 1 + Jitter comes after the clamp;
\* a negative result is no delay.
Randomize ==
  /\ at = "loop" /\ ~More
  /\ \E r \in -conf.Jitter..conf.Jitter :
       LET d == (Clamp(backoff) * (10 + r)) \div 10
       IN  backoff' \in IF d < 0 THEN {0} ELSE Converted(d)
  /\ at' = "done"
  /\ UNCHANGED <<conf, asked, retries>>

Next == First \/ Grow \/ Randomize

Spec == Init /\ [][Next]_vars
-----------------------------------------------------------------------------
Smaller(a, b) == IF a < b THEN a ELSE b

(***************************************************************************)
(* After a failure the delay is at most MaxDelay with the jitter on top of *)
(* it, however many failures there were and however large the base delay   *)
(* is, and with a factor of one or more it is not below the smaller of     *)
(* the two delays with the jitter (and the rounding) off.  This needs a    *)
(* configuration whose largest delay fits into a Duration.                 *)
(***************************************************************************)
Fits == conf.MaxDelay * (10 + conf.Jitter) < 10 * MaxDuration
DelayWithin ==
  at = "done" /\ asked # 0 /\ Fits =>
    /\ 10 * backoff <= conf.MaxDelay * (10 + conf.Jitter)
    /\ conf.Factor >= 10 =>
         10 * (backoff + 1) > Smaller(conf.BaseDelay, conf.MaxDelay) * (10 - conf.Jitter)
=============================================================================
