------------------------------ MODULE Limiter ------------------------------
(***************************************************************************)
(* grate.NewLimiter: Allow asks Vegas for a place in flight and, when      *)
(* there is none, waits in the queue of CoDel until a caller that is done  *)
(* pops it.  A caller is in flight for Vegas while it waits, too.  Vegas   *)
(* is represented by RateLimit, which it implements.                       *)
(***************************************************************************)
EXTENDS Integers, Sequences, FiniteSets

CONSTANTS
  Callers, MinLimit, MaxLimit,                \* see RateLimit
  Target, Internal, QueueCap, Chans, NoChan,  \* see CoDel
  MaxTime,                                    \* bound on the clock
  MaxCalls                                    \* bound on the calls of Allow

VARIABLES
  limit, inFlight, stage, seen,               \* see RateLimit
  now, packets, pool, fresh, count, dropping, faTime, dropNext,
  qpc, pkt, reading, verdict,                 \* see CoDel
  calls,     \* history: calls of Allow so far
  overtakes  \* history: calls that came within MaxLimit while one that is done had
             \* yet to pop

R == INSTANCE RateLimit
Q == INSTANCE CoDel

ASSUME LimiterAssumption ==
  /\ R!RateAssumption /\ Q!CoDelAssumption
  /\ IsFiniteSet(Callers) /\ MaxTime \in Nat /\ MaxCalls \in Nat

rate == <<limit, inFlight, stage, seen>>
queue == <<packets, pool, fresh, count, dropping, faTime, dropNext, pkt, reading, verdict>>
vars == <<now, rate, queue, qpc, calls, overtakes>>

\* NewLimiter.
Init == R!Init /\ Q!Init /\ calls = 0 /\ overtakes = 0

\* The callers that Allow has returned to without an error.
Running(c) == (stage[c] = "granted" /\ qpc[c] = "out") \/ qpc[c] = "admitted"

\* The callers that have called the function and have yet to end their Pop.
Finishing == {c \in Callers : qpc[c] \in {"pop", "read", "judge", "send"}}

Tick ==
  /\ now < MaxTime
  /\ now' = now + 1
  /\ UNCHANGED <<rate, queue, qpc, calls, overtakes>>

\* Allow: Acquire ...
Acquire(c) ==
  /\ calls < MaxCalls /\ qpc[c] = "out"
  /\ R!Acquire(c)
  /\ calls' = calls + 1
  /\ overtakes' = overtakes + IF inFlight' <= MaxLimit /\ Finishing # {} THEN 1 ELSE 0
  /\ UNCHANGED <<now, queue, qpc>>

Compare(c) == R!Compare(c) /\ UNCHANGED <<now, queue, qpc, calls, overtakes>>

\* ... and the queue for a caller that was not granted a place.
Push(c) ==
  /\ stage[c] = "denied"
  /\ Q!PushGet(c) \/ Q!PushStep(c) \/ Q!PushDone(c)
  /\ UNCHANGED <<rate, calls, overtakes>>

\* Mutant: a caller that Push has refused is not reported to Vegas.
RefuseOnly(c) ==
  /\ Q!Go(c, "failed", "out")
  /\ stage' = [stage EXCEPT ![c] = "idle"]
  /\ UNCHANGED <<now, limit, inFlight, seen, queue, calls, overtakes>>

\* Allow returns the error of Push, after done(time.Time{}, Ignore).
Refuse(c) ==
  /\ Q!Go(c, "failed", "out")
  /\ R!Done(c, "Ignore")
  /\ UNCHANGED <<now, queue, calls, overtakes>>

\* The caller calls the function that Allow returned: done ...
Done(c) ==
  /\ Running(c)
  /\ \E op \in R!Operations : R!Done(c, op)
  /\ qpc' = [qpc EXCEPT ![c] = "pop"]
  /\ UNCHANGED <<now, queue, calls, overtakes>>

Sample(c) == R!Adjust(c) /\ UNCHANGED <<now, queue, qpc, calls, overtakes>>

\* ... and then Pop.
Pop(c) ==
  /\ stage[c] = "idle"
  /\ Q!PopStep(c)
  /\ UNCHANGED <<rate, calls, overtakes>>

Next ==
  \/ Tick
  \/ \E c \in Callers :
       Acquire(c) \/ Compare(c) \/ Push(c) \/ Refuse(c) \/ Done(c) \/ Sample(c) \/ Pop(c)

Spec == Init /\ [][Next]_vars
-----------------------------------------------------------------------------
\* Type invariant.
TypeOK ==
  /\ R!RateTypeOK /\ Q!QTypeOK
  /\ now \in Nat /\ calls \in Nat /\ overtakes \in Nat
  /\ \A c \in Callers :
       qpc[c] \in {"enqueue", "wait", "answered", "admitted", "failed"} => stage[c] = "denied"

(***************************************************************************)
(* inFlight is the number of callers that run, wait or are about to: every *)
(* way out of Allow and done gives the place back once.                    *)
(***************************************************************************)
InFlightExact == inFlight = Cardinality(R!InFlight)

ChannelOnce == Q!ChannelOnce
JudgeSound == Q!JudgeSound

(***************************************************************************)
(* The calls that run are within MaxLimit, except for one more for each    *)
(* call of Acquire that came within it while an earlier caller was between *)
(* done and the end of its Pop, which admits another.                      *)
(***************************************************************************)
RunningBound ==
  /\ TypeOK
  /\ Cardinality({c \in Callers : Running(c)}) + Cardinality(Finishing) <= MaxLimit + overtakes

(***************************************************************************)
(* The last caller that could serve the queue leaves it empty: each Pop    *)
(* passes the queue on to the caller that it admits, or finds it empty,    *)
(* whatever packets were dropped or abandoned in between.  (A caller that  *)
(* enqueues after that waits for a new call, or for its context.)          *)
(***************************************************************************)
Serving(c) ==
  Running(c) \/ c \in Finishing \/ (qpc[c] = "answered" /\ ~verdict[c])
LastLeavesEmpty ==
  [][(\E c \in Callers : Serving(c)) /\ ~(\E c \in Callers : Serving(c)') => packets = <<>>]_vars
=============================================================================
