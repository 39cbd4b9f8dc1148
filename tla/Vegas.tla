------------------------------- MODULE Vegas -------------------------------
(***************************************************************************)
(* grate.Vegas and grate.sample: the adaptive limit on the calls in        *)
(* flight.  Callers add their round trip times to the current sample with  *)
(* atomic operations; the one that finds the sample full takes the mutex,  *)
(* replaces the sample and computes minRTT and the limit from the old one, *)
(* to which late callers may still add.  One step is one atomic operation, *)
(* or a piece of the critical section between two reads of the sample.     *)
(*                                                                         *)
(* The square root is exact: the code's int64(limit + k*sqrt(limit)/2) and *)
(* its comparisons of queue with k*sqrt(limit)/2 are written on integers.  *)
(***************************************************************************)
EXTENDS Integers, Sequences, FiniteSetsExt

CONSTANTS
  Callers,
  NoCaller,              \* mu is free
  MinLimit, MaxLimit,    \* minLimit, maxLimit
  MinCount,              \* the 16 of done
  MinWindow, MaxWindow,  \* minWindowTime, maxWindowTime
  Probes,                \* the 100 of NewVegas
  Rands,                 \* the outcomes of rand.Int63n that are tried
  MaxTime,               \* bound on the clock
  MaxRTT,                \* bound on the round trips
  MaxCalls,              \* bound on the calls of Acquire
  MaxSamples             \* bound on the samples made

ASSUME VegasAssumption ==
  /\ NoCaller \notin Callers /\ IsFiniteSet(Callers)
  /\ MinLimit \in Nat \ {0} /\ MaxLimit \in Nat /\ MinLimit <= MaxLimit
  /\ MinCount \in Nat \ {0}
  /\ MinWindow \in Nat /\ MaxWindow \in Nat /\ MinWindow <= MaxWindow
  /\ Probes \in Nat /\ Rands \subseteq Nat /\ Rands # {}
  /\ MaxTime \in Nat \ {0} /\ MaxRTT \in Nat /\ MaxCalls \in Nat
  /\ MaxSamples \in Nat \ {0}

VARIABLES
  now,         \* the clock; starts at one, before which updateTime = 0 lies
  limit, inFlight, updateTime, minRTT, probes,
  samples,     \* every sample made; the last one is v.sample
  mu,          \* holder of v.mu
  vpc,         \* [Callers -> where the caller is in Acquire or done]
  loc,         \* [Callers -> its local variables]
  calls,       \* history: calls of Acquire so far
  fastest,     \* history: the shortest round trip added to a sample
  dropCounted, \* history: samples whose count includes a dropped call
  evaluated    \* history: the samples that were evaluated, in order

limits == <<limit, updateTime, minRTT, probes>>
history == <<fastest, dropCounted, evaluated>>
vars == <<now, inFlight, limits, samples, mu, vpc, loc, calls, history>>

EmptySample == [count |-> 0, maxInFlight |-> 0, drop |-> FALSE, totalRTT |-> 0]

\* seen is the inFlight of the caller, rtt its round trip and, once it
\* evaluates the sample s, lastRTT; n is the count that RTT() has read, and
\* dropIn (history) that it included a dropped call.
NoLocals ==
  [seen |-> 0, ok |-> FALSE, op |-> "Ignore", rtt |-> 0, end |-> 0, s |-> 0, n |-> 0,
   dropIn |-> FALSE]

\* NewVegas.
Init ==
  /\ now = 1 /\ limit = MinLimit /\ inFlight = 0 /\ updateTime = 0 /\ minRTT = 0
  /\ probes = Probes /\ samples = <<EmptySample>> /\ mu = NoCaller
  /\ vpc = [c \in Callers |-> "idle"] /\ loc = [c \in Callers |-> NoLocals]
  /\ calls = 0 /\ fastest = MaxTime /\ dropCounted = {} /\ evaluated = <<>>

Go(c, from, to) == vpc[c] = from /\ vpc' = [vpc EXCEPT ![c] = to]
Current == Len(samples)
Mine(c) == samples[loc[c].s]

\* The call of done returns.
Return(c) ==
  /\ vpc' = [vpc EXCEPT ![c] = "idle"]
  /\ loc' = [loc EXCEPT ![c] = NoLocals]

Tick ==
  /\ now < MaxTime
  /\ now' = now + 1
  /\ UNCHANGED <<inFlight, limits, samples, mu, vpc, loc, calls, history>>
-----------------------------------------------------------------------------
(* Acquire. *)

Acquire(c) ==
  /\ calls < MaxCalls
  /\ Go(c, "idle", "acquire")
  /\ calls' = calls + 1
  /\ inFlight' = inFlight + 1
  /\ loc' = [loc EXCEPT ![c].seen = inFlight + 1]
  /\ UNCHANGED <<now, limits, samples, mu, history>>

\* Its caller must call done whether it succeeds or not.
AcquireLoad(c) ==
  /\ Go(c, "acquire", "held")
  /\ loc' = [loc EXCEPT ![c].ok = loc[c].seen <= limit]
  /\ UNCHANGED <<now, inFlight, limits, samples, mu, calls, history>>
-----------------------------------------------------------------------------
(* done: the sample is filled. *)

\* Mutant: a call that is ignored returns before it is taken off inFlight.
DoneIgnoreFirst(c, start, op) ==
  /\ vpc[c] = "held"
  /\ IF op = "Ignore"
     THEN Return(c) /\ UNCHANGED inFlight
     ELSE /\ Go(c, "held", "load")
          /\ inFlight' = inFlight - 1
          /\ loc' = [loc EXCEPT ![c].ok = FALSE, ![c].op = op, ![c].rtt = now - start, ![c].end = now]
  /\ UNCHANGED <<now, limits, samples, mu, calls, history>>

Done(c, start, op) ==
  /\ vpc[c] = "held"
  /\ inFlight' = inFlight - 1
  /\ IF op = "Ignore"
     THEN Return(c)
     ELSE /\ Go(c, "held", "load")
          /\ loc' = [loc EXCEPT ![c].ok = FALSE, ![c].op = op, ![c].rtt = now - start, ![c].end = now]
  /\ UNCHANGED <<now, limits, samples, mu, calls, history>>

LoadSample(c) ==
  /\ Go(c, "load", IF loc[c].op = "Drop" THEN "drop" ELSE "max")
  /\ loc' = [loc EXCEPT ![c].s = Current]
  /\ UNCHANGED <<now, inFlight, limits, samples, mu, calls, history>>

\* The atomic operations of sample.Add on the sample of c.  The loop of
\* CompareAndSwap is one atomic maximum.  A local that is not read again is
\* cleared.
StoreDrop(c) ==
  /\ samples' = [samples EXCEPT ![loc[c].s].drop = TRUE]
  /\ UNCHANGED <<loc, fastest, dropCounted>>
RaiseMax(c) ==
  /\ samples' = [samples EXCEPT ![loc[c].s].maxInFlight = Max({@, loc[c].seen})]
  /\ loc' = [loc EXCEPT ![c].seen = 0]
  /\ UNCHANGED <<fastest, dropCounted>>
AddTotal(c) ==
  /\ samples' = [samples EXCEPT ![loc[c].s].totalRTT = @ + loc[c].rtt]
  /\ fastest' = Min({fastest, loc[c].rtt})
  /\ loc' = [loc EXCEPT ![c].rtt = 0]
  /\ UNCHANGED dropCounted
AddCount(c) ==
  /\ samples' = [samples EXCEPT ![loc[c].s].count = @ + 1]
  /\ loc' = [loc EXCEPT ![c].op = "Ignore"]
  /\ dropCounted' = dropCounted \cup IF loc[c].op = "Drop" THEN {loc[c].s} ELSE {}
  /\ UNCHANGED fastest

\* Mutant: count is incremented before totalRTT.
CountFirst(c) ==
  /\ \/ Go(c, "drop", "max") /\ StoreDrop(c)
     \/ Go(c, "max", "total") /\ RaiseMax(c)
     \/ Go(c, "total", "count") /\ AddCount(c)
     \/ Go(c, "count", "time") /\ AddTotal(c)
  /\ UNCHANGED <<now, inFlight, limits, mu, calls, evaluated>>

\* Mutant: the drop is stored last.
DropLast(c) ==
  /\ \/ Go(c, "drop", "max") /\ UNCHANGED <<samples, loc, fastest, dropCounted>>
     \/ Go(c, "max", "total") /\ RaiseMax(c)
     \/ Go(c, "total", "count") /\ AddTotal(c)
     \/ Go(c, "count", IF loc[c].op = "Drop" THEN "late" ELSE "time") /\ AddCount(c)
     \/ Go(c, "late", "time") /\ StoreDrop(c)
  /\ UNCHANGED <<now, inFlight, limits, mu, calls, evaluated>>

\* sample.Add.
Add(c) ==
  /\ \/ Go(c, "drop", "max") /\ StoreDrop(c)
     \/ Go(c, "max", "total") /\ RaiseMax(c)
     \/ Go(c, "total", "count") /\ AddTotal(c)
     \/ Go(c, "count", "time") /\ AddCount(c)
  /\ UNCHANGED <<now, inFlight, limits, mu, calls, evaluated>>

\* The two loads of the condition that the sample is due.
CheckTime(c) ==
  /\ vpc[c] = "time"
  /\ IF loc[c].end > updateTime THEN Go(c, "time", "full") /\ UNCHANGED loc ELSE Return(c)
  /\ UNCHANGED <<now, inFlight, limits, samples, mu, calls, history>>

CheckCount(c) ==
  /\ vpc[c] = "full"
  /\ IF Mine(c).count >= MinCount THEN Go(c, "full", "lock") /\ UNCHANGED loc ELSE Return(c)
  /\ UNCHANGED <<now, inFlight, limits, samples, mu, calls, history>>
-----------------------------------------------------------------------------
(* done: the sample is evaluated under mu. *)

Replace(c) ==
  /\ mu' = c
  /\ samples' = Append(samples, EmptySample)
  /\ evaluated' = Append(evaluated, loc[c].s)
  /\ Go(c, "lock", "n")
  /\ UNCHANGED <<loc, fastest, dropCounted>>

\* Mutant: the sample is not compared again under mu.
LockNoRecheck(c) ==
  /\ vpc[c] = "lock" /\ mu = NoCaller /\ Current < MaxSamples
  /\ Replace(c)
  /\ UNCHANGED <<now, inFlight, limits, calls>>

\* Lock, and return when another caller has replaced the sample.
Lock(c) ==
  /\ vpc[c] = "lock" /\ mu = NoCaller /\ Current < MaxSamples
  /\ IF loc[c].s = Current
     THEN Replace(c)
     ELSE Return(c) /\ UNCHANGED <<mu, samples, history>>
  /\ UNCHANGED <<now, inFlight, limits, calls>>

Unlock(c) == mu' = NoCaller /\ Return(c)

\* sample.RTT: count is loaded before totalRTT.
LoadCount(c) ==
  /\ Go(c, "n", "mean")
  /\ loc' = [loc EXCEPT ![c].n = Mine(c).count, ![c].dropIn = loc[c].s \in dropCounted]
  /\ UNCHANGED <<now, inFlight, limits, samples, mu, calls, history>>

LoadTotal(c) ==
  /\ vpc[c] = "mean"
  /\ LET lastRTT == Mine(c).totalRTT \div loc[c].n IN
       IF lastRTT <= 0
       THEN Unlock(c)
       ELSE /\ Go(c, "mean", "update")
            /\ loc' = [loc EXCEPT ![c].rtt = lastRTT, ![c].n = 0]
            /\ UNCHANGED mu
  /\ UNCHANGED <<now, inFlight, limits, samples, calls, history>>

newUpdateTime(c) ==
  /\ Go(c, "update", "min")
  /\ updateTime' = loc[c].end + Max({MinWindow, Min({MaxWindow, 5 * loc[c].rtt})})
  /\ loc' = [loc EXCEPT ![c].end = 0]
  /\ UNCHANGED <<now, inFlight, limit, minRTT, probes, samples, mu, calls, history>>

\* The conditions under which newMinRTT starts a new probe.
ProbeDue(c) == probes - 1 <= 0 /\ (2 * Mine(c).maxInFlight < limit \/ Mine(c).maxInFlight <= MinLimit)

\* Mutant: a round trip below the minimum is left for the next probe.
MinRTTOnProbe(c) ==
  /\ Go(c, "min", "dropped")
  /\ \/ /\ ProbeDue(c)
        /\ \E r \in Rands : r < 3 * limit /\ probes' = 3 * limit + r
        /\ minRTT' = loc[c].rtt
     \/ /\ ~ProbeDue(c)
        /\ probes' = probes - 1
        /\ minRTT' = IF minRTT = 0 THEN loc[c].rtt ELSE minRTT
  /\ UNCHANGED <<now, inFlight, limit, updateTime, samples, mu, loc, calls, history>>

newMinRTT(c) ==
  /\ Go(c, "min", "dropped")
  /\ \/ /\ ProbeDue(c)
        /\ \E r \in Rands : r < 3 * limit /\ probes' = 3 * limit + r
        /\ minRTT' = loc[c].rtt
     \/ /\ ~ProbeDue(c)
        /\ probes' = probes - 1
        /\ minRTT' = IF minRTT = 0 THEN loc[c].rtt ELSE Min({minRTT, loc[c].rtt})
  /\ UNCHANGED <<now, inFlight, limit, updateTime, samples, mu, loc, calls, history>>

\* floor(sqrt(x)) and ceil(sqrt(x)), for the small x that limits give.
Sqrt(x) == Cardinality({m \in 1..x : m * m <= x})
SqrtUp(x) == IF Sqrt(x) * Sqrt(x) = x THEN Sqrt(x) ELSE Sqrt(x) + 1

\* The limit plus k thresholds, a threshold being sqrt(limit)/2, rounded
\* down; and the limit minus one threshold, rounded down.
Plus(k) == limit + Sqrt((k * k * limit) \div 4)
MinusOne == limit - SqrtUp((limit + 3) \div 4)

\* queue < k * threshold and queue > k * threshold, where queue is
\* limit * (1 - minRTT/lastRTT), squared to stay within the integers.
QueueSquare(c) == 4 * limit * (loc[c].rtt - minRTT) * (loc[c].rtt - minRTT)
QueueBelow(c, k) == loc[c].rtt < minRTT \/ QueueSquare(c) < k * k * loc[c].rtt * loc[c].rtt
QueueAbove(c, k) == loc[c].rtt > minRTT /\ QueueSquare(c) > k * k * loc[c].rtt * loc[c].rtt

storeLimit(n) == limit' = Max({MinLimit, Min({MaxLimit, n})})

\* newLimit reads whether a call of the sample was dropped ...
newLimitDrop(c) ==
  /\ vpc[c] = "dropped"
  /\ IF Mine(c).drop
     THEN storeLimit(MinusOne) /\ Unlock(c)
     ELSE Go(c, "dropped", "limit") /\ UNCHANGED <<limit, mu, loc>>
  /\ UNCHANGED <<now, inFlight, updateTime, minRTT, probes, samples, calls, history>>

\* ... and then the calls that were in flight.
newLimit(c) ==
  /\ vpc[c] = "limit"
  /\ IF 2 * Mine(c).maxInFlight < limit THEN UNCHANGED limit
     ELSE IF QueueBelow(c, 1) THEN storeLimit(Plus(6))
     ELSE IF QueueBelow(c, 2) THEN storeLimit(Plus(3))
     ELSE IF QueueBelow(c, 3) THEN storeLimit(Plus(1))
     ELSE IF QueueAbove(c, 6) THEN storeLimit(MinusOne)
     ELSE UNCHANGED limit
  /\ Unlock(c)
  /\ UNCHANGED <<now, inFlight, updateTime, minRTT, probes, samples, calls, history>>

\* The steps of done that follow its first one.
Finish(c) ==
  \/ LoadSample(c) \/ Add(c) \/ CheckTime(c) \/ CheckCount(c) \/ Lock(c)
  \/ LoadCount(c) \/ LoadTotal(c)
  \/ newUpdateTime(c) \/ newMinRTT(c) \/ newLimitDrop(c) \/ newLimit(c)

Operations == {"Success", "Ignore", "Drop"}

\* The time the caller gives for its start.
Starts == {start \in 1..now : now - start <= MaxRTT}

Next ==
  \/ Tick
  \/ \E c \in Callers :
       \/ Acquire(c) \/ AcquireLoad(c) \/ Finish(c)
       \/ \E start \in Starts, op \in Operations : Done(c, start, op)

Spec == Init /\ [][Next]_vars
-----------------------------------------------------------------------------
Places ==
  {"idle", "acquire", "held", "load", "drop", "max", "total", "count", "time", "full", "lock",
   "n", "mean", "update", "min", "dropped", "limit"}
Evaluating == {"n", "mean", "update", "min", "dropped", "limit"}

\* Type invariant; the limit stays within its bounds.
TypeOK ==
  /\ now \in 1..MaxTime /\ calls \in 0..MaxCalls
  /\ limit \in MinLimit..MaxLimit /\ inFlight \in Int /\ probes \in Int
  /\ updateTime \in Nat /\ minRTT \in Nat
  /\ samples \in Seq([count : Nat, maxInFlight : Nat, drop : BOOLEAN, totalRTT : Nat])
  /\ mu \in Callers \cup {NoCaller}
  /\ vpc \in [Callers -> Places]
  /\ \A c \in Callers : vpc[c] \in Evaluating <=> mu = c

(***************************************************************************)
(* Vegas keeps the promise of RateLimit: inFlight follows Acquire and done *)
(* on every path, also that of an ignored call, a place is granted by the  *)
(* count that the caller itself has made, and the limit changes within     *)
(* its bounds only, however the steps of other callers fall in between.    *)
(***************************************************************************)
Stage(c) ==
  CASE vpc[c] \in {"idle", "acquire"} -> vpc[c]
    [] vpc[c] = "held" -> IF loc[c].ok THEN "granted" ELSE "denied"
    [] OTHER -> "sampled"

Rate == INSTANCE RateLimit WITH
  stage <- [c \in Callers |-> Stage(c)],
  seen <- [c \in Callers |-> IF vpc[c] = "acquire" THEN loc[c].seen ELSE 0]
RateSpec == Rate!Spec

(***************************************************************************)
(* A sample is evaluated at most once and samples are evaluated in order,  *)
(* although several callers find the same sample full and queue for mu,    *)
(* which one caller has at a time (part of the type invariant).            *)
(***************************************************************************)
SampleUsedOnce ==
  /\ TypeOK
  /\ \A i, j \in 1..Len(evaluated) : i < j => evaluated[i] < evaluated[j]

(***************************************************************************)
(* minRTT is never below the shortest round trip that was ever measured:   *)
(* callers that add to a sample while RTT() reads it can only make the     *)
(* mean too large, since totalRTT is added before count and read after it. *)
(***************************************************************************)
MinRTTReal == minRTT # 0 => minRTT >= fastest

(***************************************************************************)
(* When newLimit computes queue, minRTT is positive and not above lastRTT, *)
(* so that queue is not negative: an old minimum never survives a faster   *)
(* window, and a new probe never leaves it unset.                          *)
(***************************************************************************)
QueueNotNegative ==
  \A c \in Callers : vpc[c] \in {"dropped", "limit"} => 0 < minRTT /\ minRTT <= loc[c].rtt

(***************************************************************************)
(* A window in which a dropped call was counted never raises the limit:    *)
(* drop is stored before count is incremented, and read after count.       *)
(***************************************************************************)
DropNeverRaises == [][limit' > limit => \A c \in Callers : mu = c => ~loc[c].dropIn]_vars
=============================================================================
