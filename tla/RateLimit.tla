----------------------------- MODULE RateLimit -----------------------------
(***************************************************************************)
(* What grate.Vegas promises to the limiter: a place is granted to a       *)
(* caller that, counted itself, is within the limit it then reads; a       *)
(* caller is in flight from Acquire to done; and the limit moves within    *)
(* its bounds, by callers that are past done only.                         *)
(***************************************************************************)
EXTENDS Integers

CONSTANTS Callers, MinLimit, MaxLimit

RateAssumption ==
  MinLimit \in Nat \ {0} /\ MaxLimit \in Nat /\ MinLimit <= MaxLimit

VARIABLES
  limit, inFlight,
  stage,  \* [Callers -> where the caller is between Acquire and the end of done]
  seen    \* [Callers -> the inFlight that Acquire counted, until it is compared]

rateVars == <<limit, inFlight, stage, seen>>

Init ==
  /\ limit = MinLimit /\ inFlight = 0
  /\ stage = [c \in Callers |-> "idle"] /\ seen = [c \in Callers |-> 0]

Acquire(c) ==
  /\ stage[c] = "idle"
  /\ inFlight' = inFlight + 1
  /\ stage' = [stage EXCEPT ![c] = "acquire"]
  /\ seen' = [seen EXCEPT ![c] = inFlight']
  /\ UNCHANGED limit

\* Acquire returns; done must be called in both cases.
Compare(c) ==
  /\ stage[c] = "acquire"
  /\ stage' = [stage EXCEPT ![c] = IF seen[c] <= limit THEN "granted" ELSE "denied"]
  /\ seen' = [seen EXCEPT ![c] = 0]
  /\ UNCHANGED <<limit, inFlight>>

\* done: an ignored call is over with that, any other is sampled.
Done(c, op) ==
  /\ stage[c] \in {"granted", "denied"}
  /\ inFlight' = inFlight - 1
  /\ stage' = [stage EXCEPT ![c] = IF op = "Ignore" THEN "idle" ELSE "sampled"]
  /\ UNCHANGED <<limit, seen>>

\* The end of done: the limit is what it was, or computed anew.
Adjust(c) ==
  /\ stage[c] = "sampled"
  /\ limit' \in MinLimit..MaxLimit
  /\ stage' = [stage EXCEPT ![c] = "idle"]
  /\ UNCHANGED <<inFlight, seen>>

Operations == {"Success", "Ignore", "Drop"}

Next ==
  \E c \in Callers : Acquire(c) \/ Compare(c) \/ (\E op \in Operations : Done(c, op)) \/ Adjust(c)

Spec == Init /\ [][Next]_rateVars
-----------------------------------------------------------------------------
\* The callers between Acquire and done.
InFlight == {c \in Callers : stage[c] \in {"acquire", "granted", "denied"}}

RateTypeOK ==
  /\ limit \in MinLimit..MaxLimit /\ inFlight \in Int
  /\ stage \in [Callers -> {"idle", "acquire", "granted", "denied", "sampled"}]
  /\ seen \in [Callers -> Nat]
=============================================================================
