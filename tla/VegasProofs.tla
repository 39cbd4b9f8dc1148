---------------------------- MODULE VegasProofs ----------------------------
(***************************************************************************)
(* Vegas implements RateLimit, for every number of callers, every sample   *)
(* size and every bound on the limit; and the evaluation of the samples is *)
(* sound whatever late callers add to them.                                *)
(***************************************************************************)
EXTENDS Vegas, FiniteSetTheorems, TLAPS

(***************************************************************************)
(* The new limit is within its bounds.                                     *)
(***************************************************************************)
LEMMA MaxOfTwo ==
  ASSUME NEW a \in Int, NEW b \in Int
  PROVE  Max({a, b}) = IF a >= b THEN a ELSE b
<1>1. \E x \in {a, b} : \A y \in {a, b} : x >= y
  OBVIOUS
<1>2. Max({a, b}) \in {a, b} /\ \A y \in {a, b} : Max({a, b}) >= y
  BY <1>1 DEF Max
<1> QED BY <1>2

LEMMA MinOfTwo ==
  ASSUME NEW a \in Int, NEW b \in Int
  PROVE  Min({a, b}) = IF a <= b THEN a ELSE b
<1>1. \E x \in {a, b} : \A y \in {a, b} : x <= y
  OBVIOUS
<1>2. Min({a, b}) \in {a, b} /\ \A y \in {a, b} : Min({a, b}) <= y
  BY <1>1 DEF Min
<1> QED BY <1>2

LEMMA SqrtNat ==
  ASSUME NEW x \in Nat
  PROVE  Sqrt(x) \in Nat
<1>1. IsFiniteSet(1..x)
  BY FS_Interval
<1>2. IsFiniteSet({m \in 1..x : m * m <= x})
  BY <1>1, FS_Subset
<1> QED BY <1>2, FS_CardinalityType DEF Sqrt

LEMMA LimitsInt ==
  ASSUME limit \in Nat, NEW k \in Nat
  PROVE  Plus(k) \in Int /\ MinusOne \in Int
<1>1. (k * k * limit) \div 4 \in Nat /\ (limit + 3) \div 4 \in Nat
  <2>1. k * k * limit \in Nat
    OBVIOUS
  <2> QED BY <2>1
<1>2. Sqrt((k * k * limit) \div 4) \in Nat /\ Sqrt((limit + 3) \div 4) \in Nat
  BY <1>1, SqrtNat
<1>3. SqrtUp((limit + 3) \div 4) \in Nat
  BY <1>2 DEF SqrtUp
<1> QED BY <1>2, <1>3 DEF Plus, MinusOne

LEMMA StoredLimit ==
  ASSUME NEW n \in Int, storeLimit(n)
  PROVE  limit' \in MinLimit..MaxLimit
<1>1. MinLimit \in Int /\ MaxLimit \in Int /\ MinLimit <= MaxLimit
  BY VegasAssumption
<1>2. Min({MaxLimit, n}) \in Int /\ Min({MaxLimit, n}) <= MaxLimit
  BY <1>1, MinOfTwo
<1>3. limit' = Max({MinLimit, Min({MaxLimit, n})})
  BY DEF storeLimit
<1> QED BY <1>1, <1>2, <1>3, MaxOfTwo
-----------------------------------------------------------------------------
(***************************************************************************)
(* The inductive invariant.  Besides the bounds of the limit it says what  *)
(* the local variables of a caller hold before it calls done: until then   *)
(* seen and ok are what the refinement mapping reads.                      *)
(***************************************************************************)
LocalsOK ==
  \A c \in Callers :
    /\ vpc[c] = "idle" => loc[c] = NoLocals
    /\ vpc[c] = "acquire" => loc[c] = [NoLocals EXCEPT !.seen = loc[c].seen]

VInv ==
  /\ limit \in MinLimit..MaxLimit
  /\ vpc \in [Callers -> Places]
  /\ loc = [c \in Callers |-> loc[c]]
  /\ LocalsOK

\* The places of done after its first step.
Late == Places \ {"idle", "acquire", "held"}

LEMMA StageOf ==
  ASSUME NEW c \in Callers
  PROVE  /\ vpc[c] \in {"idle", "acquire"} => Stage(c) = vpc[c]
         /\ vpc[c] = "held" => Stage(c) = IF loc[c].ok THEN "granted" ELSE "denied"
         /\ vpc[c] \in Late => Stage(c) = "sampled"
BY DEF Stage, Late

LEMMA StageOfNext ==
  ASSUME NEW c \in Callers
  PROVE  /\ vpc'[c] \in {"idle", "acquire"} => Stage(c)' = vpc'[c]
         /\ vpc'[c] = "held" => Stage(c)' = IF loc'[c].ok THEN "granted" ELSE "denied"
         /\ vpc'[c] \in Late => Stage(c)' = "sampled"
BY DEF Stage, Late

\* Nothing that RateLimit sees of a caller changes with its locals and place.
LEMMA SameCaller ==
  ASSUME NEW d \in Callers, vpc'[d] = vpc[d], loc'[d] = loc[d]
  PROVE  Stage(d)' = Stage(d)
BY DEF Stage

LEMMA InitRefines == Init => VInv /\ Rate!Init
<1> SUFFICES ASSUME Init PROVE VInv /\ Rate!Init
  OBVIOUS
<1>1. VInv
  BY VegasAssumption DEF Init, VInv, LocalsOK, Places, NoLocals
<1>2. \A c \in Callers : Stage(c) = "idle"
  BY StageOf DEF Init
<1>3. Rate!Init
  BY <1>2 DEF Init, Rate!Init
<1> QED BY <1>1, <1>3

-----------------------------------------------------------------------------
(***************************************************************************)
(* The steps of one caller.                                                *)
(***************************************************************************)
LEMMA AcquireRefines ==
  ASSUME VInv, NEW c \in Callers, Acquire(c)
  PROVE  VInv' /\ Rate!Acquire(c)
<1>1. /\ vpc[c] = "idle" /\ vpc' = [vpc EXCEPT ![c] = "acquire"]
      /\ inFlight' = inFlight + 1 /\ limit' = limit
      /\ loc' = [loc EXCEPT ![c].seen = inFlight + 1]
  BY DEF Acquire, Go, limits
<1>2. loc[c] = NoLocals
  BY <1>1 DEF VInv, LocalsOK
<1>3. loc'[c] = [NoLocals EXCEPT !.seen = inFlight + 1] /\ loc'[c].seen = inFlight + 1
  BY <1>1, <1>2 DEF VInv, NoLocals
<1>4. \A d \in Callers \ {c} : loc'[d] = loc[d] /\ vpc'[d] = vpc[d]
  BY <1>1 DEF VInv
<1>5. vpc'[c] = "acquire"
  BY <1>1 DEF VInv
<1>6. VInv'
  <2>1. vpc' \in [Callers -> Places]
    BY <1>1 DEF VInv, Places
  <2>2. loc' = [d \in Callers |-> loc'[d]]
    BY <1>1 DEF VInv
  <2>3. LocalsOK'
    BY <1>3, <1>4, <1>5 DEF VInv, LocalsOK
  <2> QED BY <1>1, <2>1, <2>2, <2>3 DEF VInv
<1>7. Stage(c) = "idle" /\ Stage(c)' = "acquire"
  BY <1>1, <1>5, StageOf, StageOfNext
<1>8. \A d \in Callers \ {c} : Stage(d)' = Stage(d)
  BY <1>4, SameCaller
<1>9. Rate!Acquire(c)
  <2>1. [d \in Callers |-> Stage(d)]' = [[d \in Callers |-> Stage(d)] EXCEPT ![c] = "acquire"]
    BY <1>7, <1>8
  <2>2. \A d \in Callers :
          (IF vpc'[d] = "acquire" THEN loc'[d].seen ELSE 0)
            = IF d = c THEN inFlight' ELSE IF vpc[d] = "acquire" THEN loc[d].seen ELSE 0
    BY <1>1, <1>3, <1>4, <1>5
  <2>3. [d \in Callers |-> IF vpc[d] = "acquire" THEN loc[d].seen ELSE 0]'
          = [[d \in Callers |-> IF vpc[d] = "acquire" THEN loc[d].seen ELSE 0]
               EXCEPT ![c] = inFlight']
    BY <2>2
  <2> QED BY <1>1, <1>7, <2>1, <2>3 DEF Rate!Acquire
<1> QED BY <1>6, <1>9

LEMMA CompareRefines ==
  ASSUME VInv, NEW c \in Callers, AcquireLoad(c)
  PROVE  VInv' /\ Rate!Compare(c)
<1> DEFINE o == loc[c].seen <= limit
<1>1. /\ vpc[c] = "acquire" /\ vpc' = [vpc EXCEPT ![c] = "held"]
      /\ inFlight' = inFlight /\ limit' = limit
      /\ loc' = [loc EXCEPT ![c].ok = o]
  BY DEF AcquireLoad, Go, limits
<1>2. loc[c] = [NoLocals EXCEPT !.seen = loc[c].seen]
  BY <1>1 DEF VInv, LocalsOK
<1>3. loc'[c].ok = o
  <2>1. loc'[c] = [loc[c] EXCEPT !.ok = o]
    BY <1>1 DEF VInv
  <2>2. loc'[c] = [[NoLocals EXCEPT !.seen = loc[c].seen] EXCEPT !.ok = o]
    BY <1>2, <2>1
  <2> QED BY <2>2 DEF NoLocals
<1>4. \A d \in Callers \ {c} : loc'[d] = loc[d] /\ vpc'[d] = vpc[d]
  BY <1>1 DEF VInv
<1>5. vpc'[c] = "held"
  BY <1>1 DEF VInv
<1>6. VInv'
  <2>1. vpc' \in [Callers -> Places]
    BY <1>1 DEF VInv, Places
  <2>2. loc' = [d \in Callers |-> loc'[d]]
    BY <1>1 DEF VInv
  <2>3. LocalsOK'
    BY <1>4, <1>5 DEF VInv, LocalsOK
  <2> QED BY <1>1, <2>1, <2>2, <2>3 DEF VInv
<1>7. Stage(c) = "acquire" /\ Stage(c)' = IF o THEN "granted" ELSE "denied"
  BY <1>1, <1>3, <1>5, StageOf, StageOfNext
<1>8. \A d \in Callers \ {c} : Stage(d)' = Stage(d)
  BY <1>4, SameCaller
<1>9. Rate!Compare(c)
  <2>1. [d \in Callers |-> Stage(d)]'
          = [[d \in Callers |-> Stage(d)] EXCEPT ![c] = IF o THEN "granted" ELSE "denied"]
    BY <1>7, <1>8
  <2>2. \A d \in Callers :
          (IF vpc'[d] = "acquire" THEN loc'[d].seen ELSE 0)
            = IF d = c THEN 0 ELSE IF vpc[d] = "acquire" THEN loc[d].seen ELSE 0
    BY <1>4, <1>5
  <2>3. [d \in Callers |-> IF vpc[d] = "acquire" THEN loc[d].seen ELSE 0]'
          = [[d \in Callers |-> IF vpc[d] = "acquire" THEN loc[d].seen ELSE 0] EXCEPT ![c] = 0]
    BY <2>2
  <2>4. [d \in Callers |-> IF vpc[d] = "acquire" THEN loc[d].seen ELSE 0][c] = loc[c].seen
    BY <1>1
  <2>5. [d \in Callers |-> Stage(d)][c] = "acquire"
    BY <1>7
  <2> QED BY <1>1, <2>1, <2>3, <2>4, <2>5 DEF Rate!Compare
<1> QED BY <1>6, <1>9

\* What a step of c after its Acquire does to the invariant: its new place
\* is idle, with cleared locals, or a late one.
LEMMA KeepsVInv ==
  ASSUME VInv, NEW c \in Callers, NEW q \in Late \cup {"idle"},
         vpc' = [vpc EXCEPT ![c] = q],
         loc' = [d \in Callers |-> IF d = c THEN loc'[c] ELSE loc[d]],
         q = "idle" => loc'[c] = NoLocals,
         limit' \in MinLimit..MaxLimit
  PROVE  /\ VInv' /\ vpc'[c] = q
         /\ \A d \in Callers \ {c} : loc'[d] = loc[d] /\ vpc'[d] = vpc[d]
<1>1. vpc' \in [Callers -> Places]
  BY DEF VInv, Places, Late
<1>2. vpc'[c] = q
  BY DEF VInv
<1>3. \A d \in Callers \ {c} : loc'[d] = loc[d] /\ vpc'[d] = vpc[d]
  BY DEF VInv
<1>4. loc' = [d \in Callers |-> loc'[d]]
  OBVIOUS
<1>5. q # "acquire"
  BY DEF Late
<1>6. LocalsOK'
  BY <1>2, <1>3, <1>5 DEF VInv, LocalsOK
<1> QED BY <1>1, <1>2, <1>3, <1>4, <1>6 DEF VInv

\* What the abstract state of the other callers is after such a step.
LEMMA AfterAcquire ==
  ASSUME NEW c \in Callers, NEW s, Stage(c)' = s, vpc[c] # "acquire", vpc'[c] # "acquire",
         \A d \in Callers \ {c} : loc'[d] = loc[d] /\ vpc'[d] = vpc[d]
  PROVE  /\ [d \in Callers |-> Stage(d)]' = [[d \in Callers |-> Stage(d)] EXCEPT ![c] = s]
         /\ [d \in Callers |-> IF vpc[d] = "acquire" THEN loc[d].seen ELSE 0]'
              = [d \in Callers |-> IF vpc[d] = "acquire" THEN loc[d].seen ELSE 0]
<1>1. \A d \in Callers \ {c} : Stage(d)' = Stage(d)
  BY SameCaller
<1>2. [d \in Callers |-> Stage(d)]' = [[d \in Callers |-> Stage(d)] EXCEPT ![c] = s]
  BY <1>1
<1>3. \A d \in Callers :
        (IF vpc'[d] = "acquire" THEN loc'[d].seen ELSE 0)
          = IF vpc[d] = "acquire" THEN loc[d].seen ELSE 0
  OBVIOUS
<1> QED BY <1>2, <1>3

LEMMA DoneRefines ==
  ASSUME VInv, NEW c \in Callers, NEW start, NEW op \in Operations, Done(c, start, op)
  PROVE  VInv' /\ Rate!Done(c, op)
<1> DEFINE q == IF op = "Ignore" THEN "idle" ELSE "load"
<1>1. /\ vpc[c] = "held" /\ inFlight' = inFlight - 1 /\ limit' = limit
      /\ vpc' = [vpc EXCEPT ![c] = q]
      /\ q = "idle" => loc' = [loc EXCEPT ![c] = NoLocals]
      /\ q # "idle" => loc' = [loc EXCEPT ![c].ok = FALSE, ![c].op = op,
                                          ![c].rtt = now - start, ![c].end = now]
  BY DEF Done, Go, Return, limits
<1>2. loc' = [d \in Callers |-> IF d = c THEN loc'[c] ELSE loc[d]]
  BY <1>1 DEF VInv
<1>3. q = "idle" => loc'[c] = NoLocals
  BY <1>1 DEF VInv
<1>4. q \in Late \cup {"idle"}
  BY DEF Late, Places
<1>5. /\ VInv' /\ vpc'[c] = q
      /\ \A d \in Callers \ {c} : loc'[d] = loc[d] /\ vpc'[d] = vpc[d]
  <2>1. limit' \in MinLimit..MaxLimit
    BY <1>1 DEF VInv
  <2> HIDE DEF q
  <2> QED BY <1>1, <1>2, <1>3, <1>4, <2>1, KeepsVInv
<1>6. Stage(c)' = IF op = "Ignore" THEN "idle" ELSE "sampled"
  BY <1>4, <1>5, StageOfNext
<1>7. Stage(c) \in {"granted", "denied"}
  BY <1>1, StageOf
<1>8. Rate!Done(c, op)
  <2>1. vpc[c] # "acquire" /\ vpc'[c] # "acquire"
    BY <1>1, <1>5
  <2> QED BY <1>1, <1>5, <1>6, <1>7, <2>1, AfterAcquire DEF Rate!Done
<1> QED BY <1>5, <1>8

\* A step of done that stays in done.
LEMMA LocalStep ==
  ASSUME VInv, NEW c \in Callers, NEW q \in Late, vpc[c] \in Late,
         vpc' = [vpc EXCEPT ![c] = q],
         loc' = [d \in Callers |-> IF d = c THEN loc'[c] ELSE loc[d]],
         limit' = limit, inFlight' = inFlight
  PROVE  VInv' /\ UNCHANGED Rate!rateVars
<1>1. q # "idle" /\ limit' \in MinLimit..MaxLimit
  BY DEF Late, VInv
<1>2. /\ VInv' /\ vpc'[c] = q
      /\ \A d \in Callers \ {c} : loc'[d] = loc[d] /\ vpc'[d] = vpc[d]
  BY <1>1, KeepsVInv
<1>3. Stage(c) = "sampled" /\ Stage(c)' = "sampled"
  BY <1>2, StageOf, StageOfNext
<1>4. vpc[c] # "acquire" /\ vpc'[c] # "acquire"
  BY <1>2 DEF Late
<1>5. [d \in Callers |-> Stage(d)]' = [d \in Callers |-> Stage(d)]
  <2>1. \A d \in Callers : Stage(d)' = Stage(d)
    BY <1>2, <1>3, SameCaller
  <2> QED BY <2>1
<1> QED BY <1>2, <1>3, <1>4, <1>5, AfterAcquire DEF Rate!rateVars

\* A step with which done returns.
LEMMA ReturnStep ==
  ASSUME VInv, NEW c \in Callers, vpc[c] \in Late, Return(c),
         limit' \in MinLimit..MaxLimit, inFlight' = inFlight
  PROVE  VInv' /\ Rate!Adjust(c)
<1>1. /\ vpc' = [vpc EXCEPT ![c] = "idle"] /\ loc'[c] = NoLocals
      /\ loc' = [d \in Callers |-> IF d = c THEN loc'[c] ELSE loc[d]]
  BY DEF Return, VInv
<1>2. /\ VInv' /\ vpc'[c] = "idle"
      /\ \A d \in Callers \ {c} : loc'[d] = loc[d] /\ vpc'[d] = vpc[d]
  BY <1>1, KeepsVInv
<1>3. Stage(c) = "sampled" /\ Stage(c)' = "idle"
  BY <1>2, StageOf, StageOfNext
<1>4. vpc[c] # "acquire" /\ vpc'[c] # "acquire"
  BY <1>2 DEF Late
<1> QED BY <1>2, <1>3, <1>4, AfterAcquire DEF Rate!Adjust
-----------------------------------------------------------------------------
(***************************************************************************)
(* Every step of done after its first one stays in done or returns.        *)
(***************************************************************************)
Moves(c) ==
  /\ vpc[c] \in Late
  /\ \E q \in Late : vpc' = [vpc EXCEPT ![c] = q]
  /\ loc' = [d \in Callers |-> IF d = c THEN loc'[c] ELSE loc[d]]
  /\ limit' = limit /\ inFlight' = inFlight

Ends(c) ==
  /\ vpc[c] \in Late
  /\ Return(c)
  /\ limit' \in MinLimit..MaxLimit /\ inFlight' = inFlight

LEMMA AddMoves ==
  ASSUME VInv, NEW c \in Callers, Add(c)
  PROVE  Moves(c)
<1>1. limit' = limit /\ inFlight' = inFlight
  BY DEF Add, limits
<1>2. loc' = [d \in Callers |-> IF d = c THEN loc'[c] ELSE loc[d]]
  BY DEF Add, VInv, StoreDrop, RaiseMax, AddTotal, AddCount
<1>3. vpc[c] \in Late /\ \E q \in Late : vpc' = [vpc EXCEPT ![c] = q]
  BY DEF Add, Go, Late, Places
<1> QED BY <1>1, <1>2, <1>3 DEF Moves

\* The steps before the mutex is taken, and taking it.
LEMMA SampleSteps ==
  ASSUME VInv, NEW c \in Callers,
         LoadSample(c) \/ CheckTime(c) \/ CheckCount(c) \/ Lock(c)
  PROVE  Moves(c) \/ Ends(c)
<1>1. limit' = limit /\ inFlight' = inFlight /\ limit' \in MinLimit..MaxLimit
  BY DEF LoadSample, CheckTime, CheckCount, Lock, limits, VInv
<1>2. CASE LoadSample(c)
  <2>1. loc' = [d \in Callers |-> IF d = c THEN loc'[c] ELSE loc[d]]
    BY <1>2 DEF LoadSample, VInv
  <2>2. vpc[c] \in Late /\ \E q \in Late : vpc' = [vpc EXCEPT ![c] = q]
    BY <1>2 DEF LoadSample, Go, Late, Places
  <2> QED BY <1>1, <2>1, <2>2 DEF Moves
<1>3. CASE CheckTime(c)
  <2>1. vpc[c] \in Late
    BY <1>3 DEF CheckTime, Late, Places
  <2>2. CASE Go(c, "time", "full") /\ UNCHANGED loc
    BY <1>1, <2>1, <2>2 DEF Moves, Go, Late, Places, VInv
  <2> QED BY <1>1, <1>3, <2>1, <2>2 DEF CheckTime, Ends
<1>4. CASE CheckCount(c)
  <2>1. vpc[c] \in Late
    BY <1>4 DEF CheckCount, Late, Places
  <2>2. CASE Go(c, "full", "lock") /\ UNCHANGED loc
    BY <1>1, <2>1, <2>2 DEF Moves, Go, Late, Places, VInv
  <2> QED BY <1>1, <1>4, <2>1, <2>2 DEF CheckCount, Ends
<1>5. CASE Lock(c)
  <2>1. vpc[c] \in Late
    BY <1>5 DEF Lock, Late, Places
  <2>2. CASE Replace(c)
    BY <1>1, <2>1, <2>2 DEF Moves, Replace, Go, Late, Places, VInv
  <2> QED BY <1>1, <1>5, <2>1, <2>2 DEF Lock, Ends
<1> QED BY <1>2, <1>3, <1>4, <1>5

\* The steps of the evaluation that leave the limit alone.
LEMMA EvaluationSteps ==
  ASSUME VInv, NEW c \in Callers,
         LoadCount(c) \/ LoadTotal(c) \/ newUpdateTime(c) \/ newMinRTT(c)
  PROVE  Moves(c) \/ Ends(c)
<1>1. limit' = limit /\ inFlight' = inFlight /\ limit' \in MinLimit..MaxLimit
  BY DEF LoadCount, LoadTotal, newUpdateTime, newMinRTT, limits, VInv
<1>2. vpc[c] \in Late
  BY DEF LoadCount, LoadTotal, newUpdateTime, newMinRTT, Go, Late, Places
<1>3. CASE LoadCount(c) \/ newUpdateTime(c) \/ newMinRTT(c)
  <2>1. loc' = [d \in Callers |-> IF d = c THEN loc'[c] ELSE loc[d]]
    BY <1>3 DEF LoadCount, newUpdateTime, newMinRTT, VInv
  <2>2. \E q \in Late : vpc' = [vpc EXCEPT ![c] = q]
    BY <1>3 DEF LoadCount, newUpdateTime, newMinRTT, Go, Late, Places
  <2> QED BY <1>1, <1>2, <2>1, <2>2 DEF Moves
<1>4. CASE LoadTotal(c)
  <2> DEFINE lastRTT == Mine(c).totalRTT \div loc[c].n
  <2>1. CASE lastRTT <= 0
    BY <1>1, <1>2, <1>4, <2>1 DEF LoadTotal, Unlock, Ends
  <2>2. CASE ~(lastRTT <= 0)
    <3>1. Go(c, "mean", "update") /\ loc' = [loc EXCEPT ![c].rtt = lastRTT, ![c].n = 0]
      BY <1>4, <2>2 DEF LoadTotal
    <3> HIDE DEF lastRTT
    <3>2. loc' = [d \in Callers |-> IF d = c THEN loc'[c] ELSE loc[d]]
      BY <3>1 DEF VInv
    <3> QED BY <1>1, <1>2, <3>1, <3>2 DEF Moves, Go, Late, Places
  <2> QED BY <2>1, <2>2
<1> QED BY <1>3, <1>4

\* The steps that compute the limit.
LEMMA LimitSteps ==
  ASSUME VInv, NEW c \in Callers, newLimitDrop(c) \/ newLimit(c)
  PROVE  Moves(c) \/ Ends(c)
<1>1. inFlight' = inFlight
  BY DEF newLimitDrop, newLimit
<1>2. vpc[c] \in Late
  BY DEF newLimitDrop, newLimit, Late, Places
<1>3. limit \in Nat /\ limit \in MinLimit..MaxLimit
  BY VegasAssumption DEF VInv
<1>4. MinusOne \in Int /\ Plus(1) \in Int /\ Plus(3) \in Int /\ Plus(6) \in Int
  BY <1>3, LimitsInt
<1>5. CASE newLimitDrop(c)
  <2>1. CASE Go(c, "dropped", "limit") /\ UNCHANGED <<limit, mu, loc>>
    BY <1>1, <1>2, <2>1 DEF Moves, Go, Late, Places, VInv
  <2>2. CASE storeLimit(MinusOne) /\ Unlock(c)
    BY <1>1, <1>2, <1>4, <2>2, StoredLimit DEF Unlock, Ends
  <2> QED BY <1>5, <2>1, <2>2 DEF newLimitDrop
<1>6. CASE newLimit(c)
  <2>1. \/ limit' = limit
        \/ storeLimit(Plus(6)) \/ storeLimit(Plus(3)) \/ storeLimit(Plus(1))
        \/ storeLimit(MinusOne)
    BY <1>6 DEF newLimit
  <2>2. limit' \in MinLimit..MaxLimit
    BY <1>3, <1>4, <2>1, StoredLimit
  <2> QED BY <1>1, <1>2, <1>6, <2>2 DEF newLimit, Unlock, Ends
<1> QED BY <1>5, <1>6

LEMMA FinishRefines ==
  ASSUME VInv, NEW c \in Callers, Finish(c)
  PROVE  VInv' /\ (Rate!Adjust(c) \/ UNCHANGED Rate!rateVars)
<1>1. Moves(c) \/ Ends(c)
  BY AddMoves, SampleSteps, EvaluationSteps, LimitSteps DEF Finish
<1>2. CASE Moves(c)
  BY <1>2, LocalStep DEF Moves
<1>3. CASE Ends(c)
  BY <1>3, ReturnStep DEF Ends
<1> QED BY <1>1, <1>2, <1>3

LEMMA StepRefines == VInv /\ [Next]_vars => VInv' /\ [Rate!Next]_(Rate!rateVars)
<1> SUFFICES ASSUME VInv, [Next]_vars PROVE VInv' /\ [Rate!Next]_(Rate!rateVars)
  OBVIOUS
<1>1. CASE Tick \/ UNCHANGED vars
  <2>1. limit' = limit /\ inFlight' = inFlight /\ vpc' = vpc /\ loc' = loc
    BY <1>1 DEF Tick, vars, limits
  <2>2. VInv'
    BY <2>1 DEF VInv, LocalsOK
  <2>3. \A d \in Callers : Stage(d)' = Stage(d)
    BY <2>1, SameCaller
  <2>4. [d \in Callers |-> Stage(d)]' = [d \in Callers |-> Stage(d)]
    BY <2>3
  <2> QED BY <2>1, <2>2, <2>4 DEF Rate!rateVars
<1>2. ASSUME NEW c \in Callers, Acquire(c) \/ AcquireLoad(c) \/ Finish(c)
      PROVE  VInv' /\ [Rate!Next]_(Rate!rateVars)
  BY <1>2, AcquireRefines, CompareRefines, FinishRefines DEF Rate!Next
<1>3. ASSUME NEW c \in Callers, NEW start \in Starts, NEW op \in Operations, Done(c, start, op)
      PROVE  VInv' /\ [Rate!Next]_(Rate!rateVars)
  <2>1. VInv' /\ Rate!Done(c, op)
    BY <1>3, DoneRefines
  <2>2. op \in Rate!Operations
    BY DEF Operations, Rate!Operations
  <2> QED BY <2>1, <2>2 DEF Rate!Next
<1> QED BY <1>1, <1>2, <1>3 DEF Next

(***************************************************************************)
(* Vegas implements RateLimit: the steps of Acquire and done, with the     *)
(* sample, the mutex and the arithmetic of the limit, are steps of the     *)
(* limit that grate.Limiter relies on, whatever the interleaving.          *)
(***************************************************************************)
THEOREM ImplementsRateLimit == Spec => RateSpec
<1>1. Init => VInv /\ Rate!Init
  BY InitRefines
<1>2. VInv /\ [Next]_vars => VInv' /\ [Rate!Next]_(Rate!rateVars)
  BY StepRefines
<1> QED BY <1>1, <1>2, PTL DEF Spec, RateSpec, Rate!Spec
-----------------------------------------------------------------------------
(***************************************************************************)
(* Types.  Besides those of TypeOK, inFlight counts the callers between    *)
(* Acquire and done, which makes it a natural number, and with it seen and *)
(* maxInFlight.                                                            *)
(***************************************************************************)
LRec == [seen : Nat, ok : BOOLEAN, op : Operations, rtt : Nat, end : Nat, s : Nat, n : Nat,
         dropIn : BOOLEAN]
SRec == [count : Nat, maxInFlight : Nat, drop : BOOLEAN, totalRTT : Nat]

Counted == {"acquire", "held"}
Running == {c \in Callers : vpc[c] \in Counted}

VType ==
  /\ now \in 1..MaxTime /\ calls \in 0..MaxCalls
  /\ limit \in MinLimit..MaxLimit /\ probes \in Int
  /\ updateTime \in Nat /\ minRTT \in Nat /\ fastest \in Nat
  /\ samples \in Seq(SRec) /\ Len(samples) >= 1
  /\ mu \in Callers \cup {NoCaller}
  /\ vpc \in [Callers -> Places] /\ loc \in [Callers -> LRec]
  /\ inFlight = Cardinality(Running)

LEMMA LocalFields ==
  ASSUME NEW l \in LRec
  PROVE  /\ l.seen \in Nat /\ l.ok \in BOOLEAN /\ l.op \in Operations /\ l.rtt \in Nat
         /\ l.end \in Nat /\ l.s \in Nat /\ l.n \in Nat /\ l.dropIn \in BOOLEAN
BY DEF LRec

LEMMA LocalUpdates ==
  ASSUME NEW l \in LRec
  PROVE  /\ \A v \in Nat : /\ [l EXCEPT !.seen = v] \in LRec /\ [l EXCEPT !.rtt = v] \in LRec
                          /\ [l EXCEPT !.end = v] \in LRec /\ [l EXCEPT !.s = v] \in LRec
                          /\ [l EXCEPT !.n = v] \in LRec
         /\ \A b \in BOOLEAN : [l EXCEPT !.ok = b] \in LRec /\ [l EXCEPT !.dropIn = b] \in LRec
         /\ \A o \in Operations : [l EXCEPT !.op = o] \in LRec
BY DEF LRec

LEMMA SampleFields ==
  ASSUME NEW r \in SRec
  PROVE  r.count \in Nat /\ r.maxInFlight \in Nat /\ r.drop \in BOOLEAN /\ r.totalRTT \in Nat
BY DEF SRec

LEMMA Fresh == NoLocals \in LRec /\ EmptySample \in SRec
BY DEF NoLocals, EmptySample, LRec, SRec, Operations

LEMMA CallersFinite == IsFiniteSet(Callers)
BY VegasAssumption

LEMMA RunningFinite == IsFiniteSet(Running)
BY CallersFinite, FS_Subset DEF Running

\* A caller moves and its local variables change.
Moved(c, q, l) == vpc' = [vpc EXCEPT ![c] = q] /\ loc' = [loc EXCEPT ![c] = l]

\* What a step of c leaves to the other callers.
Frame(c) == \A d \in Callers \ {c} : vpc'[d] = vpc[d] /\ loc'[d] = loc[d]

LEMMA MovedTypes ==
  ASSUME VType, NEW c \in Callers, NEW q \in Places, NEW l \in LRec, Moved(c, q, l)
  PROVE  /\ vpc' \in [Callers -> Places] /\ loc' \in [Callers -> LRec]
         /\ vpc'[c] = q /\ loc'[c] = l /\ Frame(c)
BY DEF VType, Moved, Frame

LEMMA RunningSame ==
  ASSUME VType, NEW c \in Callers, vpc'[c] \in Counted <=> vpc[c] \in Counted, Frame(c)
  PROVE  Running' = Running
BY DEF Running, Frame

LEMMA SampleUpdate ==
  ASSUME samples \in Seq(SRec), NEW i \in 1..Len(samples), NEW r \in SRec,
         samples' = [samples EXCEPT ![i] = r]
  PROVE  /\ samples' \in Seq(SRec) /\ Len(samples') = Len(samples) /\ samples'[i] = r
         /\ \A j \in 1..Len(samples) \ {i} : samples'[j] = samples[j]
OBVIOUS

LEMMA SampleAppend ==
  ASSUME samples \in Seq(SRec), samples' = Append(samples, EmptySample)
  PROVE  /\ samples' \in Seq(SRec) /\ Len(samples') = Len(samples) + 1
         /\ samples'[Len(samples) + 1] = EmptySample
         /\ \A j \in 1..Len(samples) : samples'[j] = samples[j]
BY Fresh
-----------------------------------------------------------------------------
(***************************************************************************)
(* What a caller relies on, place by place: its sample exists, the one it  *)
(* evaluates has MinCount calls when it is locked, the count it has read   *)
(* is still at most the sample's, its mean is at least the fastest round   *)
(* trip and minRTT is not above it once newMinRTT has run, and drop is     *)
(* stored before count and read after it.                                  *)
(***************************************************************************)
Sampled == {"drop", "max", "total", "count", "time", "full", "lock"} \cup Evaluating

CallerOK(c) ==
  /\ vpc[c] \in Sampled => loc[c].s \in 1..Current
  /\ vpc[c] \in {"lock", "n"} => Mine(c).count >= MinCount
  /\ vpc[c] = "mean" => loc[c].n >= 1 /\ loc[c].n <= Mine(c).count
  /\ vpc[c] \in {"update", "min"} => loc[c].rtt >= 1
  /\ vpc[c] \in {"update", "min", "dropped", "limit"} => loc[c].rtt >= fastest
  /\ vpc[c] \in {"dropped", "limit"} => 0 < minRTT /\ minRTT <= loc[c].rtt
  /\ (vpc[c] \in {"max", "total", "count"} /\ loc[c].op = "Drop") => Mine(c).drop
  /\ (vpc[c] \in {"mean", "update", "min", "dropped"} /\ loc[c].dropIn) => Mine(c).drop
  /\ vpc[c] = "limit" => ~loc[c].dropIn
  /\ vpc[c] \in Evaluating <=> mu = c

\* Samples only get more calls, and drops, and are never removed; the fastest
\* round trip only gets shorter.
Grows ==
  /\ Len(samples') >= Len(samples)
  /\ \A i \in 1..Len(samples) :
       samples'[i].count >= samples[i].count /\ (samples[i].drop => samples'[i].drop)
  /\ fastest' <= fastest

LEMMA CallerKept ==
  ASSUME VType, VType', NEW d \in Callers, CallerOK(d), Grows,
         vpc'[d] = vpc[d], loc'[d] = loc[d], mu' = d <=> mu = d,
         minRTT' = minRTT \/ mu # d
  PROVE  CallerOK(d)'
<1> DEFINE i == loc[d].s
<1>1. loc[d] \in LRec
  BY DEF VType
<1>2. ASSUME vpc[d] \in Sampled
      PROVE  /\ i \in 1..Len(samples) /\ i \in 1..Len(samples')
             /\ samples'[i].count >= samples[i].count
             /\ samples[i].drop => samples'[i].drop
  <2>1. i \in 1..Len(samples)
    BY <1>2 DEF CallerOK, Current
  <2>2. Len(samples) \in Nat /\ Len(samples') \in Nat /\ Len(samples') >= Len(samples)
    <3>1. samples \in Seq(SRec) /\ samples' \in Seq(SRec)
      BY DEF VType
    <3> QED BY <3>1 DEF Grows
  <2> HIDE DEF i
  <2> QED BY <2>1, <2>2 DEF Grows
<1>3. ASSUME vpc[d] \in Sampled
      PROVE  samples[i].count \in Nat /\ samples'[i].count \in Nat
  <2>1. i \in 1..Len(samples) /\ i \in 1..Len(samples')
    BY <1>2, <1>3
  <2> HIDE DEF i
  <2>2. samples[i] \in SRec /\ samples'[i] \in SRec
    <3>1. samples \in Seq(SRec) /\ samples' \in Seq(SRec)
      BY DEF VType
    <3> QED BY <2>1, <3>1
  <2> QED BY <2>2, SampleFields
<1>4. fastest \in Nat /\ fastest' \in Nat /\ fastest' <= fastest /\ minRTT \in Nat
  BY DEF VType, Grows
<1>5. MinCount \in Nat
  BY VegasAssumption
<1>6. loc[d].rtt \in Nat /\ loc[d].n \in Nat
  BY <1>1, LocalFields
<1>7. vpc[d] \in {"dropped", "limit"} => minRTT' = minRTT
  BY DEF CallerOK, Evaluating
<1>8. /\ (vpc[d] \in Sampled => loc[d].s \in 1..Current)'
      /\ (vpc[d] \in Evaluating <=> mu = d)' /\ (vpc[d] = "limit" => ~loc[d].dropIn)'
      /\ (vpc[d] \in {"update", "min"} => loc[d].rtt >= 1)'
  BY <1>2 DEF CallerOK, Current
<1>9. /\ (vpc[d] \in {"lock", "n"} => Mine(d).count >= MinCount)'
      /\ (vpc[d] = "mean" => loc[d].n >= 1 /\ loc[d].n <= Mine(d).count)'
  BY <1>2, <1>3, <1>5, <1>6 DEF CallerOK, Mine, Sampled, Evaluating
<1>10. /\ ((vpc[d] \in {"max", "total", "count"} /\ loc[d].op = "Drop") => Mine(d).drop)'
       /\ ((vpc[d] \in {"mean", "update", "min", "dropped"} /\ loc[d].dropIn) => Mine(d).drop)'
  BY <1>2 DEF CallerOK, Mine, Sampled, Evaluating
<1>11. /\ (vpc[d] \in {"update", "min", "dropped", "limit"} => loc[d].rtt >= fastest)'
       /\ (vpc[d] \in {"dropped", "limit"} => 0 < minRTT /\ minRTT <= loc[d].rtt)'
  BY <1>4, <1>6, <1>7 DEF CallerOK
<1> QED BY <1>8, <1>9, <1>10, <1>11 DEF CallerOK

\* A step of c that leaves the samples and the number in flight alone.
LEMMA QuietTypes ==
  ASSUME VType, NEW c \in Callers, NEW q \in Places, NEW l \in LRec, Moved(c, q, l),
         UNCHANGED <<now, inFlight, samples, calls, fastest>>,
         limit' \in MinLimit..MaxLimit, probes' \in Int, updateTime' \in Nat, minRTT' \in Nat,
         mu' \in Callers \cup {NoCaller}, q \in Counted <=> vpc[c] \in Counted
  PROVE  VType' /\ Grows /\ Frame(c) /\ vpc'[c] = q /\ loc'[c] = l
<1>1. /\ vpc' \in [Callers -> Places] /\ loc' \in [Callers -> LRec]
      /\ vpc'[c] = q /\ loc'[c] = l /\ Frame(c)
  BY MovedTypes
<1>2. Running' = Running
  BY <1>1, RunningSame
<1>3. Grows
  <2>1. \A i \in 1..Len(samples) : samples[i].count \in Nat
    BY SampleFields DEF VType
  <2> QED BY <2>1 DEF Grows, VType
<1>4. VType'
  BY <1>1, <1>2 DEF VType
<1> QED BY <1>1, <1>3, <1>4

LEMMA MineIs ==
  ASSUME VType, NEW c \in Callers, CallerOK(c), vpc[c] \in Sampled
  PROVE  /\ loc[c].s \in 1..Len(samples) /\ Mine(c) \in SRec
         /\ Mine(c).count \in Nat /\ Mine(c).maxInFlight \in Nat
         /\ Mine(c).drop \in BOOLEAN /\ Mine(c).totalRTT \in Nat
<1>1. loc[c].s \in 1..Len(samples)
  BY DEF CallerOK, Current
<1>2. Mine(c) \in SRec
  BY <1>1 DEF VType, Mine
<1> QED BY <1>1, <1>2, SampleFields

LEMMA LocalIs ==
  ASSUME VType, NEW c \in Callers
  PROVE  /\ loc[c] \in LRec
         /\ loc[c].seen \in Nat /\ loc[c].ok \in BOOLEAN /\ loc[c].op \in Operations
         /\ loc[c].rtt \in Nat /\ loc[c].end \in Nat /\ loc[c].s \in Nat /\ loc[c].n \in Nat
         /\ loc[c].dropIn \in BOOLEAN
<1>1. loc[c] \in LRec
  BY DEF VType
<1> QED BY <1>1, LocalFields

LEMMA SameTypes ==
  ASSUME VType
  PROVE  /\ limit \in MinLimit..MaxLimit /\ probes \in Int /\ updateTime \in Nat
         /\ minRTT \in Nat /\ mu \in Callers \cup {NoCaller} /\ limit \in Nat
BY VegasAssumption DEF VType
-----------------------------------------------------------------------------
(***************************************************************************)
(* The steps, one by one: each keeps the types and what its caller relies  *)
(* on, and does to the others nothing but what Grows allows.               *)
(***************************************************************************)
Keeps(c) ==
  /\ VType' /\ Frame(c) /\ Grows /\ CallerOK(c)'
  /\ \A d \in Callers \ {c} : (mu' = d <=> mu = d) /\ (minRTT' = minRTT \/ mu # d)

\* A call returns: nothing is expected of an idle caller.
LEMMA Idle ==
  ASSUME NEW c \in Callers, vpc'[c] = "idle", mu' # c
  PROVE  CallerOK(c)'
BY DEF CallerOK, Sampled, Evaluating

LEMMA KeepReturn ==
  ASSUME VType, NEW c \in Callers, CallerOK(c), Return(c), vpc[c] \notin Counted,
         UNCHANGED <<now, inFlight, samples, calls, fastest, probes, updateTime, minRTT>>,
         limit' \in MinLimit..MaxLimit,
         IF mu = c THEN mu' = NoCaller ELSE mu' = mu
  PROVE  Keeps(c)
<1>1. Moved(c, "idle", NoLocals) /\ "idle" \in Places /\ "idle" \notin Counted
  BY DEF Return, Moved, Places, Counted
<1>2. mu' \in Callers \cup {NoCaller} /\ mu' # c
  BY VegasAssumption DEF VType
<1>3. VType' /\ Grows /\ Frame(c) /\ vpc'[c] = "idle"
  BY <1>1, <1>2, Fresh, QuietTypes, SameTypes
<1>4. CallerOK(c)'
  BY <1>2, <1>3, Idle
<1>5. \A d \in Callers \ {c} : (mu' = d <=> mu = d)
  BY VegasAssumption
<1> QED BY <1>3, <1>4, <1>5 DEF Keeps

LEMMA KeepAcquire ==
  ASSUME VType, NEW c \in Callers, CallerOK(c), Acquire(c)
  PROVE  Keeps(c)
<1> DEFINE l == [loc[c] EXCEPT !.seen = inFlight + 1]
<1>1. inFlight \in Nat
  BY RunningFinite, FS_CardinalityType DEF VType
<1>2. l \in LRec
  <2>1. inFlight + 1 \in Nat /\ loc[c] \in LRec
    BY <1>1, LocalIs
  <2> QED BY <2>1, LocalUpdates
<1>3. vpc[c] = "idle" /\ Moved(c, "acquire", l)
  BY DEF Acquire, Go, Moved
<1>4. "acquire" \in Places
  BY DEF Places
<1> HIDE DEF l
<1>5. /\ vpc' \in [Callers -> Places] /\ loc' \in [Callers -> LRec]
      /\ vpc'[c] = "acquire" /\ loc'[c] = l /\ Frame(c)
  BY <1>2, <1>3, <1>4, MovedTypes
<1>6. Running' = Running \cup {c} /\ c \notin Running
  BY <1>3, <1>5 DEF Running, Frame, Counted
<1>7. Cardinality(Running') = Cardinality(Running) + 1
  BY <1>6, RunningFinite, FS_AddElement
<1>8. VType'
  <2>1. UNCHANGED <<now, limit, updateTime, minRTT, probes, samples, mu, fastest>>
    BY DEF Acquire, limits, history
  <2>2. calls' \in 0..MaxCalls
    <3>1. calls < MaxCalls /\ calls' = calls + 1 /\ calls \in 0..MaxCalls /\ MaxCalls \in Nat
      BY VegasAssumption DEF Acquire, VType
    <3> QED BY <3>1
  <2>3. inFlight' = Cardinality(Running')
    BY <1>7 DEF Acquire, VType
  <2> QED BY <1>5, <2>1, <2>2, <2>3 DEF VType
<1>9. mu' = mu /\ mu # c
  BY <1>3 DEF Acquire, CallerOK, Evaluating
<1>10. CallerOK(c)'
  BY <1>5, <1>9 DEF CallerOK, Sampled, Evaluating
<1>11. Grows
  <2>1. \A i \in 1..Len(samples) : samples[i].count \in Nat
    BY SampleFields DEF VType
  <2> QED BY <2>1 DEF Acquire, history, Grows, VType
<1> QED BY <1>5, <1>8, <1>9, <1>10, <1>11 DEF Keeps, Acquire, limits

LEMMA KeepAcquireLoad ==
  ASSUME VType, NEW c \in Callers, CallerOK(c), AcquireLoad(c)
  PROVE  Keeps(c)
<1> DEFINE l == [loc[c] EXCEPT !.ok = loc[c].seen <= limit]
<1>1. l \in LRec
  <2>1. (loc[c].seen <= limit) \in BOOLEAN
    BY LocalIs, SameTypes
  <2> QED BY <2>1, LocalIs, LocalUpdates
<1>2. vpc[c] = "acquire" /\ Moved(c, "held", l)
  BY DEF AcquireLoad, Go, Moved
<1>3. UNCHANGED <<now, inFlight, limit, updateTime, minRTT, probes, samples, mu, calls, fastest>>
  BY DEF AcquireLoad, limits, history
<1> HIDE DEF l
<1>4. "held" \in Places /\ ("held" \in Counted <=> vpc[c] \in Counted)
  BY <1>2 DEF Places, Counted
<1>5. VType' /\ Grows /\ Frame(c) /\ vpc'[c] = "held"
  BY <1>1, <1>2, <1>3, <1>4, QuietTypes, SameTypes
<1>6. CallerOK(c)'
  BY <1>2, <1>3, <1>5 DEF CallerOK, Sampled, Evaluating
<1> QED BY <1>3, <1>5, <1>6 DEF Keeps

LEMMA KeepDone ==
  ASSUME VType, NEW c \in Callers, CallerOK(c), NEW start \in Starts, NEW op \in Operations,
         Done(c, start, op)
  PROVE  Keeps(c)
<1> DEFINE q == IF op = "Ignore" THEN "idle" ELSE "load"
           l == IF op = "Ignore" THEN NoLocals
                ELSE [loc[c] EXCEPT !.ok = FALSE, !.op = op, !.rtt = now - start, !.end = now]
<1>1. now \in Nat /\ now - start \in Nat
  BY VegasAssumption DEF VType, Starts
<1>2. l \in LRec
  BY <1>1, Fresh, LocalIs DEF LRec
<1>3. vpc[c] = "held" /\ Moved(c, q, l)
  BY DEF Done, Go, Return, Moved
<1>4. q \in Places /\ q \notin Counted /\ q \notin Sampled \cup Evaluating
  BY DEF Places, Counted, Sampled, Evaluating
<1> HIDE DEF l, q
<1>5. /\ vpc' \in [Callers -> Places] /\ loc' \in [Callers -> LRec]
      /\ vpc'[c] = q /\ loc'[c] = l /\ Frame(c)
  BY <1>2, <1>3, <1>4, MovedTypes
<1>6. Running' = Running \ {c} /\ c \in Running
  BY <1>3, <1>4, <1>5 DEF Running, Frame, Counted
<1>7. Cardinality(Running') = Cardinality(Running) - 1
  BY <1>6, RunningFinite, FS_RemoveElement
<1>8. VType'
  <2>1. UNCHANGED <<now, limit, updateTime, minRTT, probes, samples, mu, calls, fastest>>
    BY DEF Done, limits, history
  <2>2. inFlight' = Cardinality(Running')
    BY <1>7 DEF Done, VType
  <2> QED BY <1>5, <2>1, <2>2 DEF VType
<1>9. mu' = mu /\ mu # c
  BY <1>3 DEF Done, CallerOK, Evaluating
<1>10. CallerOK(c)'
  BY <1>4, <1>5, <1>9 DEF CallerOK, Sampled, Evaluating
<1>11. Grows
  <2>1. \A i \in 1..Len(samples) : samples[i].count \in Nat
    BY SampleFields DEF VType
  <2> QED BY <2>1 DEF Done, history, Grows, VType
<1> QED BY <1>5, <1>8, <1>9, <1>10, <1>11 DEF Keeps, Done, limits

LEMMA KeepLoadSample ==
  ASSUME VType, NEW c \in Callers, CallerOK(c), LoadSample(c)
  PROVE  Keeps(c)
<1> DEFINE q == IF loc[c].op = "Drop" THEN "drop" ELSE "max"
           l == [loc[c] EXCEPT !.s = Current]
<1>1. Current \in Nat /\ Current >= 1 /\ l \in LRec
  <2>1. Current \in Nat /\ Current >= 1 /\ loc[c] \in LRec
    BY LocalIs DEF VType, Current
  <2> QED BY <2>1, LocalUpdates
<1>2. vpc[c] = "load" /\ Moved(c, q, l)
  BY DEF LoadSample, Go, Moved
<1>3. l.s = Current /\ l.op = loc[c].op
  BY LocalIs DEF LRec
<1>4. UNCHANGED <<now, inFlight, limit, updateTime, minRTT, probes, samples, mu, calls, fastest>>
  BY DEF LoadSample, limits, history
<1>5. /\ q \in Places /\ (q \in Counted <=> vpc[c] \in Counted) /\ q \in {"drop", "max"}
      /\ q = "max" => loc[c].op # "Drop"
  BY <1>2 DEF Places, Counted
<1> HIDE DEF l, q
<1>6. VType' /\ Grows /\ Frame(c) /\ vpc'[c] = q /\ loc'[c] = l
  BY <1>1, <1>2, <1>4, <1>5, QuietTypes, SameTypes
<1>7. CallerOK(c)'
  <2>1. mu' # c
    BY <1>2, <1>4 DEF CallerOK, Evaluating
  <2>2. loc'[c].s \in 1..Current'
    BY <1>1, <1>3, <1>4, <1>6 DEF Current
  <2> QED BY <1>3, <1>5, <1>6, <2>1, <2>2 DEF CallerOK, Sampled, Evaluating
<1> QED BY <1>4, <1>6, <1>7 DEF Keeps

\* A step of sample.Add: one field of the caller's sample is updated.
LEMMA AddTypes ==
  ASSUME VType, NEW c \in Callers, CallerOK(c), vpc[c] \in Sampled, mu # c,
         NEW q \in Places, q \notin Counted, NEW l \in LRec, Moved(c, q, l),
         NEW r \in SRec, samples' = [samples EXCEPT ![loc[c].s] = r],
         r.count >= Mine(c).count, Mine(c).drop => r.drop,
         fastest' \in Nat, fastest' <= fastest, l.s = loc[c].s,
         UNCHANGED <<now, inFlight, limits, mu, calls>>
  PROVE  /\ VType' /\ Grows /\ Frame(c) /\ vpc'[c] = q /\ loc'[c] = l /\ Mine(c)' = r
         /\ Len(samples') = Len(samples)
         /\ \A d \in Callers \ {c} : (mu' = d <=> mu = d) /\ (minRTT' = minRTT \/ mu # d)
<1>1. /\ vpc' \in [Callers -> Places] /\ loc' \in [Callers -> LRec]
      /\ vpc'[c] = q /\ loc'[c] = l /\ Frame(c)
  BY MovedTypes
<1>2. Running' = Running
  <2>1. vpc[c] \notin Counted
    BY DEF Sampled, Evaluating, Counted
  <2> QED BY <1>1, <2>1, RunningSame
<1>3. loc[c].s \in 1..Len(samples)
  BY MineIs
<1>4. /\ samples' \in Seq(SRec) /\ Len(samples') = Len(samples) /\ samples'[loc[c].s] = r
      /\ \A j \in 1..Len(samples) \ {loc[c].s} : samples'[j] = samples[j]
  BY <1>3, SampleUpdate DEF VType
<1>5. VType'
  BY <1>1, <1>2, <1>4 DEF VType, limits
<1>6. Grows
  <2>1. \A i \in 1..Len(samples) : samples[i].count \in Nat
    BY SampleFields DEF VType
  <2>2. \A i \in 1..Len(samples) :
          samples'[i].count >= samples[i].count /\ (samples[i].drop => samples'[i].drop)
    BY <1>4, <2>1 DEF Mine
  <2> QED BY <1>4, <2>2 DEF Grows, VType
<1> QED BY <1>1, <1>4, <1>5, <1>6 DEF Mine, limits

LEMMA KeepStoreDrop ==
  ASSUME VType, NEW c \in Callers, CallerOK(c), Go(c, "drop", "max"), StoreDrop(c),
         UNCHANGED <<now, inFlight, limits, mu, calls, evaluated>>
  PROVE  Keeps(c)
<1> DEFINE r == [Mine(c) EXCEPT !.drop = TRUE]
<1>1. vpc[c] \in Sampled /\ mu # c /\ vpc[c] = "drop"
  BY DEF Go, CallerOK, Sampled, Evaluating
<1>2. Moved(c, "max", loc[c])
  BY DEF Go, StoreDrop, Moved, VType
<1>3. r \in SRec /\ r.drop /\ r.count >= Mine(c).count
  <2>1. Mine(c) \in SRec /\ Mine(c).count \in Nat
    BY <1>1, MineIs
  <2>2. r \in SRec /\ r.drop /\ r.count = Mine(c).count
    BY <2>1 DEF SRec
  <2> QED BY <2>1, <2>2
<1>4. samples' = [samples EXCEPT ![loc[c].s] = r]
  BY DEF StoreDrop, Mine
<1> HIDE DEF r
<1>5. fastest' <= fastest /\ fastest' \in Nat /\ "max" \in Places /\ "max" \notin Counted
  BY DEF StoreDrop, VType, Places, Counted
<1>6. loc[c] \in LRec /\ UNCHANGED <<now, inFlight, limits, mu, calls>>
  BY LocalIs
<1>7. /\ VType' /\ Grows /\ Frame(c) /\ vpc'[c] = "max" /\ loc'[c] = loc[c] /\ Mine(c)' = r
      /\ Len(samples') = Len(samples)
      /\ \A d \in Callers \ {c} : (mu' = d <=> mu = d) /\ (minRTT' = minRTT \/ mu # d)
  BY <1>1, <1>2, <1>3, <1>4, <1>5, <1>6, AddTypes
<1>8. loc[c].s \in 1..Current' /\ mu' # c
  BY <1>1, <1>7, MineIs DEF Current
<1>9. CallerOK(c)'
  BY <1>3, <1>7, <1>8 DEF CallerOK, Sampled, Evaluating
<1> QED BY <1>7, <1>9 DEF Keeps

LEMMA KeepRaiseMax ==
  ASSUME VType, NEW c \in Callers, CallerOK(c), Go(c, "max", "total"), RaiseMax(c),
         UNCHANGED <<now, inFlight, limits, mu, calls, evaluated>>
  PROVE  Keeps(c)
<1> DEFINE v == Max({Mine(c).maxInFlight, loc[c].seen})
           r == [Mine(c) EXCEPT !.maxInFlight = v]
           l == [loc[c] EXCEPT !.seen = 0]
<1>1. vpc[c] \in Sampled /\ mu # c /\ vpc[c] = "max"
  BY DEF Go, CallerOK, Sampled, Evaluating
<1>2. l \in LRec /\ l.s = loc[c].s /\ l.op = loc[c].op
  BY LocalIs DEF LRec
<1>3. Moved(c, "total", l)
  BY DEF Go, RaiseMax, Moved
<1>4. v \in Nat
  <2>1. Mine(c).maxInFlight \in Nat
    BY <1>1, MineIs
  <2>2. loc[c].seen \in Nat
    BY LocalIs
  <2> QED BY <2>1, <2>2, MaxOfTwo
<1>5. samples' = [samples EXCEPT ![loc[c].s] = r]
  BY DEF RaiseMax, Mine
<1> HIDE DEF v, l
<1>6. r \in SRec /\ r.drop = Mine(c).drop /\ r.count >= Mine(c).count
  BY <1>1, <1>4, MineIs DEF SRec
<1> HIDE DEF r
<1>7. fastest' <= fastest /\ fastest' \in Nat /\ "total" \in Places /\ "total" \notin Counted
  BY DEF RaiseMax, VType, Places, Counted
<1>8. UNCHANGED <<now, inFlight, limits, mu, calls>>
  OBVIOUS
<1>9. /\ VType' /\ Grows /\ Frame(c) /\ vpc'[c] = "total" /\ loc'[c] = l /\ Mine(c)' = r
      /\ Len(samples') = Len(samples)
      /\ \A d \in Callers \ {c} : (mu' = d <=> mu = d) /\ (minRTT' = minRTT \/ mu # d)
  BY <1>1, <1>2, <1>3, <1>5, <1>6, <1>7, <1>8, AddTypes
<1>10. loc[c].s \in 1..Current' /\ mu' # c
  BY <1>1, <1>9, MineIs DEF Current
<1>11. loc[c].op = "Drop" => r.drop
  BY <1>1, <1>6 DEF CallerOK
<1>12. CallerOK(c)'
  BY <1>2, <1>9, <1>10, <1>11 DEF CallerOK, Sampled, Evaluating
<1> QED BY <1>9, <1>12 DEF Keeps

LEMMA KeepAddTotal ==
  ASSUME VType, NEW c \in Callers, CallerOK(c), Go(c, "total", "count"), AddTotal(c),
         UNCHANGED <<now, inFlight, limits, mu, calls, evaluated>>
  PROVE  Keeps(c)
<1> DEFINE v == Mine(c).totalRTT + loc[c].rtt
           r == [Mine(c) EXCEPT !.totalRTT = v]
           l == [loc[c] EXCEPT !.rtt = 0]
<1>1. vpc[c] \in Sampled /\ mu # c /\ vpc[c] = "total"
  BY DEF Go, CallerOK, Sampled, Evaluating
<1>2. l \in LRec /\ l.s = loc[c].s /\ l.op = loc[c].op
  BY LocalIs DEF LRec
<1>3. Moved(c, "count", l)
  BY DEF Go, AddTotal, Moved
<1>4. v \in Nat
  BY <1>1, MineIs, LocalIs
<1>5. samples' = [samples EXCEPT ![loc[c].s] = r]
  BY DEF AddTotal, Mine
<1> HIDE DEF v, l
<1>6. r \in SRec /\ r.drop = Mine(c).drop /\ r.count >= Mine(c).count
  BY <1>1, <1>4, MineIs DEF SRec
<1> HIDE DEF r
<1>7. fastest' <= fastest /\ fastest' \in Nat /\ "count" \in Places /\ "count" \notin Counted
  <2>1. fastest \in Nat /\ loc[c].rtt \in Nat /\ fastest' = Min({fastest, loc[c].rtt})
    BY LocalIs DEF AddTotal, VType
  <2> QED BY <2>1, MinOfTwo DEF Places, Counted
<1>8. UNCHANGED <<now, inFlight, limits, mu, calls>>
  OBVIOUS
<1>9. /\ VType' /\ Grows /\ Frame(c) /\ vpc'[c] = "count" /\ loc'[c] = l /\ Mine(c)' = r
      /\ Len(samples') = Len(samples)
      /\ \A d \in Callers \ {c} : (mu' = d <=> mu = d) /\ (minRTT' = minRTT \/ mu # d)
  BY <1>1, <1>2, <1>3, <1>5, <1>6, <1>7, <1>8, AddTypes
<1>10. loc[c].s \in 1..Current' /\ mu' # c
  BY <1>1, <1>9, MineIs DEF Current
<1>11. loc[c].op = "Drop" => r.drop
  BY <1>1, <1>6 DEF CallerOK
<1>12. CallerOK(c)'
  BY <1>2, <1>9, <1>10, <1>11 DEF CallerOK, Sampled, Evaluating
<1> QED BY <1>9, <1>12 DEF Keeps

LEMMA KeepAddCount ==
  ASSUME VType, NEW c \in Callers, CallerOK(c), Go(c, "count", "time"), AddCount(c),
         UNCHANGED <<now, inFlight, limits, mu, calls, evaluated>>
  PROVE  Keeps(c)
<1> DEFINE v == Mine(c).count + 1
           r == [Mine(c) EXCEPT !.count = v]
           l == [loc[c] EXCEPT !.op = "Ignore"]
<1>1. vpc[c] \in Sampled /\ mu # c /\ vpc[c] = "count"
  BY DEF Go, CallerOK, Sampled, Evaluating
<1>2. l \in LRec /\ l.s = loc[c].s
  BY LocalIs DEF LRec, Operations
<1>3. Moved(c, "time", l)
  BY DEF Go, AddCount, Moved
<1>4. v \in Nat /\ v >= Mine(c).count
  BY <1>1, MineIs
<1>5. samples' = [samples EXCEPT ![loc[c].s] = r]
  BY DEF AddCount, Mine
<1> HIDE DEF v, l
<1>6. r \in SRec /\ r.drop = Mine(c).drop /\ r.count >= Mine(c).count
  BY <1>1, <1>4, MineIs DEF SRec
<1> HIDE DEF r
<1>7. fastest' <= fastest /\ fastest' \in Nat /\ "time" \in Places /\ "time" \notin Counted
  BY DEF AddCount, VType, Places, Counted
<1>8. UNCHANGED <<now, inFlight, limits, mu, calls>>
  OBVIOUS
<1>9. /\ VType' /\ Grows /\ Frame(c) /\ vpc'[c] = "time" /\ loc'[c] = l /\ Mine(c)' = r
      /\ Len(samples') = Len(samples)
      /\ \A d \in Callers \ {c} : (mu' = d <=> mu = d) /\ (minRTT' = minRTT \/ mu # d)
  BY <1>1, <1>2, <1>3, <1>5, <1>6, <1>7, <1>8, AddTypes
<1>10. loc[c].s \in 1..Current' /\ mu' # c
  BY <1>1, <1>9, MineIs DEF Current
<1>11. CallerOK(c)'
  BY <1>2, <1>9, <1>10 DEF CallerOK, Sampled, Evaluating
<1> QED BY <1>9, <1>11 DEF Keeps

LEMMA KeepAdd ==
  ASSUME VType, NEW c \in Callers, CallerOK(c), Add(c)
  PROVE  Keeps(c)
BY KeepStoreDrop, KeepRaiseMax, KeepAddTotal, KeepAddCount DEF Add

LEMMA KeepCheckTime ==
  ASSUME VType, NEW c \in Callers, CallerOK(c), CheckTime(c)
  PROVE  Keeps(c)
<1>1. /\ vpc[c] = "time" /\ mu # c
      /\ UNCHANGED <<now, inFlight, limit, updateTime, minRTT, probes, samples, mu, calls, fastest>>
  BY DEF CheckTime, limits, history, CallerOK, Evaluating
<1>2. CASE Go(c, "time", "full") /\ UNCHANGED loc
  <2>1. Moved(c, "full", loc[c]) /\ loc[c] \in LRec /\ loc[c].s \in 1..Len(samples)
    BY <1>1, <1>2, LocalIs, MineIs DEF Go, Moved, VType, Sampled
  <2>2. "full" \in Places /\ ("full" \in Counted <=> vpc[c] \in Counted)
    BY <1>1 DEF Places, Counted
  <2>3. VType' /\ Grows /\ Frame(c) /\ vpc'[c] = "full" /\ loc'[c] = loc[c]
    BY <1>1, <2>1, <2>2, QuietTypes, SameTypes
  <2>4. CallerOK(c)'
    BY <1>1, <2>1, <2>3 DEF CallerOK, Sampled, Evaluating, Current
  <2> QED BY <1>1, <2>3, <2>4 DEF Keeps
<1>3. CASE Return(c)
  BY <1>1, <1>3, KeepReturn, SameTypes DEF Counted
<1> QED BY <1>2, <1>3 DEF CheckTime

LEMMA KeepCheckCount ==
  ASSUME VType, NEW c \in Callers, CallerOK(c), CheckCount(c)
  PROVE  Keeps(c)
<1>1. /\ vpc[c] = "full" /\ mu # c
      /\ UNCHANGED <<now, inFlight, limit, updateTime, minRTT, probes, samples, mu, calls, fastest>>
  BY DEF CheckCount, limits, history, CallerOK, Evaluating
<1>2. CASE Mine(c).count >= MinCount /\ Go(c, "full", "lock") /\ UNCHANGED loc
  <2>1. Moved(c, "lock", loc[c]) /\ loc[c] \in LRec /\ loc[c].s \in 1..Len(samples)
    BY <1>1, <1>2, LocalIs, MineIs DEF Go, Moved, VType, Sampled
  <2>2. "lock" \in Places /\ ("lock" \in Counted <=> vpc[c] \in Counted)
    BY <1>1 DEF Places, Counted
  <2>3. VType' /\ Grows /\ Frame(c) /\ vpc'[c] = "lock" /\ loc'[c] = loc[c]
    BY <1>1, <2>1, <2>2, QuietTypes, SameTypes
  <2>4. CallerOK(c)'
    BY <1>1, <1>2, <2>1, <2>3 DEF CallerOK, Sampled, Evaluating, Current, Mine
  <2> QED BY <1>1, <2>3, <2>4 DEF Keeps
<1>3. CASE Return(c)
  BY <1>1, <1>3, KeepReturn, SameTypes DEF Counted
<1> QED BY <1>2, <1>3 DEF CheckCount

LEMMA KeepReplace ==
  ASSUME VType, NEW c \in Callers, CallerOK(c), vpc[c] = "lock", mu = NoCaller, Replace(c),
         UNCHANGED <<now, inFlight, limits, calls>>
  PROVE  Keeps(c)
<1> DEFINE i == loc[c].s
<1>1. Moved(c, "n", loc[c]) /\ loc[c] \in LRec /\ "n" \in Places
  BY LocalIs DEF Replace, Go, Moved, VType, Places
<1>2. i \in 1..Len(samples) /\ samples[i].count >= MinCount /\ NoCaller \notin Callers
  BY MineIs, VegasAssumption DEF CallerOK, Sampled, Mine
<1>3. /\ samples' \in Seq(SRec) /\ Len(samples') = Len(samples) + 1
      /\ \A j \in 1..Len(samples) : samples'[j] = samples[j]
  BY SampleAppend DEF Replace, VType
<1>4. /\ vpc' \in [Callers -> Places] /\ loc' \in [Callers -> LRec]
      /\ vpc'[c] = "n" /\ loc'[c] = loc[c] /\ Frame(c)
  BY <1>1, MovedTypes
<1>5. Running' = Running
  <2>1. vpc'[c] \in Counted <=> vpc[c] \in Counted
    BY <1>4 DEF Counted
  <2> QED BY <1>4, <2>1, RunningSame
<1>6. Len(samples) \in Nat /\ Len(samples) >= 1 /\ Len(samples') >= 1
  BY <1>3 DEF VType
<1>7. VType'
  <2>1. UNCHANGED <<now, limit, updateTime, minRTT, probes, calls, fastest, inFlight>> /\ mu' = c
    BY DEF Replace, limits
  <2> QED BY <1>3, <1>4, <1>5, <1>6, <2>1 DEF VType
<1>8. Grows
  <2>1. \A j \in 1..Len(samples) : samples[j].count \in Nat
    BY SampleFields DEF VType
  <2>2. fastest' <= fastest
    BY DEF Replace, VType
  <2> QED BY <1>3, <1>6, <2>1, <2>2 DEF Grows
<1>9. CallerOK(c)'
  <2>1. mu' = c /\ i \in 1..Len(samples') /\ samples'[i] = samples[i]
    BY <1>2, <1>3, <1>6 DEF Replace
  <2> QED BY <1>2, <1>4, <2>1 DEF CallerOK, Sampled, Evaluating, Current, Mine
<1>10. \A d \in Callers \ {c} : (mu' = d <=> mu = d) /\ minRTT' = minRTT
  BY <1>2 DEF Replace, limits
<1> QED BY <1>4, <1>7, <1>8, <1>9, <1>10 DEF Keeps

LEMMA KeepLock ==
  ASSUME VType, NEW c \in Callers, CallerOK(c), Lock(c)
  PROVE  Keeps(c)
<1>1. /\ vpc[c] = "lock" /\ mu = NoCaller /\ mu # c
      /\ UNCHANGED <<now, inFlight, limits, calls>>
  BY VegasAssumption DEF Lock
<1>2. CASE Replace(c)
  BY <1>1, <1>2, KeepReplace
<1>3. CASE Return(c) /\ UNCHANGED <<mu, samples, history>>
  BY <1>1, <1>3, KeepReturn, SameTypes DEF Counted, limits, history
<1> QED BY <1>2, <1>3 DEF Lock
-----------------------------------------------------------------------------
(***************************************************************************)
(* The samples.  They are evaluated in the order they were made, one that  *)
(* counts a dropped call has its drop set, and a total is at least the     *)
(* fastest round trip for each call counted, or about to be.               *)
(***************************************************************************)
Counting(i) == {c \in Callers : vpc[c] = "count" /\ loc[c].s = i}

EvaluatedInOrder == evaluated = [i \in 1..Len(samples) - 1 |-> i]

DropStored == \A i \in dropCounted : i \in 1..Len(samples) /\ samples[i].drop

TotalsLarge ==
  \A i \in 1..Len(samples) :
    samples[i].totalRTT >= (samples[i].count + Cardinality(Counting(i))) * fastest

LEMMA CountingFinite == \A i : IsFiniteSet(Counting(i)) /\ Cardinality(Counting(i)) \in Nat
<1> SUFFICES ASSUME NEW i PROVE IsFiniteSet(Counting(i)) /\ Cardinality(Counting(i)) \in Nat
  OBVIOUS
<1>1. IsFiniteSet(Counting(i))
  BY CallersFinite, FS_Subset DEF Counting
<1> QED BY <1>1, FS_CardinalityType

LEMMA ProductMonotone ==
  ASSUME NEW j \in Nat, NEW k \in Nat, NEW f \in Nat, NEW g \in Nat, j <= k, g <= f
  PROVE  j * g <= k * f /\ j * g \in Nat /\ k * f \in Nat
<1>1. j * g <= j * f
  OBVIOUS
<1>2. j * f <= k * f
  OBVIOUS
<1> QED BY <1>1, <1>2

LEMMA MeanAtLeast ==
  ASSUME NEW n \in Nat, n >= 1, NEW f \in Nat, NEW t \in Nat, n * f <= t
  PROVE  t \div n \in Nat /\ t \div n >= f
<1>1. n * f \in Nat
  OBVIOUS
<1> QED BY <1>1

LEMMA KeepLoadCount ==
  ASSUME VType, NEW c \in Callers, CallerOK(c), DropStored, LoadCount(c)
  PROVE  Keeps(c)
<1> DEFINE b == loc[c].s \in dropCounted
           l == [loc[c] EXCEPT !.n = Mine(c).count, !.dropIn = b]
<1>1. vpc[c] = "n" /\ mu = c /\ vpc[c] \in Sampled
  BY DEF LoadCount, Go, CallerOK, Sampled, Evaluating
<1>2. Mine(c).count \in Nat /\ Mine(c).count >= 1 /\ loc[c].s \in 1..Len(samples)
  <2>1. Mine(c).count \in Nat /\ Mine(c).count >= MinCount /\ loc[c].s \in 1..Len(samples)
    BY <1>1, MineIs DEF CallerOK
  <2>2. MinCount \in Nat /\ MinCount >= 1
    BY VegasAssumption
  <2> QED BY <2>1, <2>2
<1>3. b => Mine(c).drop
  BY DEF DropStored, Mine
<1> HIDE DEF b
<1>4. l \in LRec /\ l.s = loc[c].s /\ l.n = Mine(c).count /\ l.dropIn = b
  <2>1. b \in BOOLEAN
    BY DEF b
  <2> QED BY <1>2, <2>1, LocalIs DEF LRec
<1>5. Moved(c, "mean", l)
  BY DEF LoadCount, Go, Moved, b
<1>6. UNCHANGED <<now, inFlight, limit, updateTime, minRTT, probes, samples, mu, calls, fastest>>
  BY DEF LoadCount, limits, history
<1> HIDE DEF l
<1>7. "mean" \in Places /\ ("mean" \in Counted <=> vpc[c] \in Counted)
  BY <1>1 DEF Places, Counted
<1>8. VType' /\ Grows /\ Frame(c) /\ vpc'[c] = "mean" /\ loc'[c] = l
  BY <1>4, <1>5, <1>6, <1>7, QuietTypes, SameTypes
<1>9. CallerOK(c)'
  BY <1>1, <1>2, <1>3, <1>4, <1>6, <1>8 DEF CallerOK, Sampled, Evaluating, Current, Mine
<1> QED BY <1>6, <1>8, <1>9 DEF Keeps

LEMMA KeepLoadTotal ==
  ASSUME VType, NEW c \in Callers, CallerOK(c), TotalsLarge, LoadTotal(c)
  PROVE  Keeps(c)
<1> DEFINE last == Mine(c).totalRTT \div loc[c].n
           l == [loc[c] EXCEPT !.rtt = last, !.n = 0]
<1>1. /\ vpc[c] = "mean" /\ mu = c /\ vpc[c] \in Sampled
      /\ UNCHANGED <<now, inFlight, limit, updateTime, minRTT, probes, samples, calls, fastest>>
  BY DEF LoadTotal, CallerOK, Sampled, Evaluating, limits, history
<1>2. last \in Nat /\ last >= fastest
  <2> DEFINE i == loc[c].s
             k == samples[i].count + Cardinality(Counting(i))
  <2>1. i \in 1..Len(samples) /\ Mine(c).count \in Nat /\ Mine(c).totalRTT \in Nat
    BY <1>1, MineIs
  <2>2. loc[c].n \in Nat /\ loc[c].n >= 1 /\ loc[c].n <= Mine(c).count
    BY <1>1, LocalIs DEF CallerOK
  <2>3. Cardinality(Counting(i)) \in Nat /\ fastest \in Nat
    BY CountingFinite DEF VType
  <2>4. Mine(c).totalRTT >= k * fastest
    BY <2>1 DEF TotalsLarge, Mine
  <2>5. k \in Nat /\ loc[c].n <= k
    BY <2>1, <2>2, <2>3 DEF Mine
  <2> HIDE DEF k
  <2>6. loc[c].n * fastest <= k * fastest /\ loc[c].n * fastest \in Nat /\ k * fastest \in Nat
    BY <2>2, <2>3, <2>5, ProductMonotone
  <2>7. loc[c].n * fastest <= Mine(c).totalRTT
    BY <2>1, <2>4, <2>6
  <2> QED BY <2>1, <2>2, <2>3, <2>7, MeanAtLeast
<1>3. CASE last <= 0
  <2>1. Unlock(c)
    BY <1>3 DEF LoadTotal
  <2> QED BY <1>1, <2>1, KeepReturn, SameTypes DEF Counted, Unlock
<1>4. CASE ~(last <= 0)
  <2>1. Moved(c, "update", l) /\ mu' = mu
    BY <1>4 DEF LoadTotal, Go, Moved
  <2> HIDE DEF last
  <2>2. l \in LRec /\ l.s = loc[c].s /\ l.rtt = last /\ l.dropIn = loc[c].dropIn
    BY <1>2, LocalIs DEF LRec
  <2> HIDE DEF l
  <2>3. "update" \in Places /\ ("update" \in Counted <=> vpc[c] \in Counted)
    BY <1>1 DEF Places, Counted
  <2>4. VType' /\ Grows /\ Frame(c) /\ vpc'[c] = "update" /\ loc'[c] = l
    BY <1>1, <2>1, <2>2, <2>3, QuietTypes, SameTypes
  <2>5. last >= 1 /\ last >= fastest /\ loc[c].s \in 1..Len(samples)
    BY <1>1, <1>2, <1>4, MineIs
  <2>6. CallerOK(c)'
    <3>1. loc[c].dropIn => Mine(c).drop
      BY <1>1 DEF CallerOK
    <3> QED BY <1>1, <2>1, <2>2, <2>4, <2>5, <3>1
            DEF CallerOK, Sampled, Evaluating, Current, Mine
  <2> QED BY <1>1, <2>1, <2>4, <2>6 DEF Keeps
<1> QED BY <1>3, <1>4

LEMMA KeepNewUpdateTime ==
  ASSUME VType, NEW c \in Callers, CallerOK(c), newUpdateTime(c)
  PROVE  Keeps(c)
<1> DEFINE l == [loc[c] EXCEPT !.end = 0]
<1>1. vpc[c] = "update" /\ mu = c /\ vpc[c] \in Sampled
  BY DEF newUpdateTime, Go, CallerOK, Sampled, Evaluating
<1>2. l \in LRec /\ l.s = loc[c].s /\ l.rtt = loc[c].rtt /\ l.dropIn = loc[c].dropIn
  BY LocalIs DEF LRec
<1>3. Moved(c, "min", l)
  BY DEF newUpdateTime, Go, Moved
<1>4. UNCHANGED <<now, inFlight, limit, minRTT, probes, samples, mu, calls, fastest>>
  BY DEF newUpdateTime, history
<1>5. updateTime' \in Nat
  <2> DEFINE w == Min({MaxWindow, 5 * loc[c].rtt})
  <2>1. MinWindow \in Nat /\ MaxWindow \in Nat /\ 5 * loc[c].rtt \in Nat /\ loc[c].end \in Nat
    BY VegasAssumption, LocalIs
  <2>2. w \in Nat
    BY <2>1, MinOfTwo
  <2>3. updateTime' = loc[c].end + Max({MinWindow, w})
    BY DEF newUpdateTime
  <2> HIDE DEF w
  <2>4. Max({MinWindow, w}) \in Nat
    BY <2>1, <2>2, MaxOfTwo
  <2> QED BY <2>1, <2>3, <2>4
<1> HIDE DEF l
<1>6. "min" \in Places /\ ("min" \in Counted <=> vpc[c] \in Counted)
  BY <1>1 DEF Places, Counted
<1>7. VType' /\ Grows /\ Frame(c) /\ vpc'[c] = "min" /\ loc'[c] = l
  BY <1>2, <1>3, <1>4, <1>5, <1>6, QuietTypes, SameTypes
<1>8. CallerOK(c)'
  <2>1. (loc[c].dropIn => Mine(c).drop) /\ loc[c].rtt >= 1 /\ loc[c].rtt >= fastest
    BY <1>1 DEF CallerOK
  <2>2. loc[c].s \in 1..Len(samples)
    BY <1>1, MineIs
  <2> QED BY <1>1, <1>2, <1>4, <1>7, <2>1, <2>2
          DEF CallerOK, Sampled, Evaluating, Current, Mine
<1> QED BY <1>1, <1>4, <1>7, <1>8 DEF Keeps

\* What newMinRTT makes of minRTT: a positive value not above the mean, and
\* no shorter than what it was or the mean.
LEMMA NewMinimum ==
  ASSUME VType, NEW c \in Callers, CallerOK(c), newMinRTT(c)
  PROVE  /\ minRTT' \in Nat /\ 0 < minRTT' /\ minRTT' <= loc[c].rtt
         /\ minRTT' = loc[c].rtt \/ (minRTT # 0 /\ minRTT' = minRTT)
         /\ probes' \in Int
<1>1. vpc[c] = "min" /\ loc[c].rtt \in Nat /\ loc[c].rtt >= 1 /\ minRTT \in Nat
  BY LocalIs DEF newMinRTT, Go, CallerOK, VType
<1>2. minRTT' = loc[c].rtt
        \/ minRTT' = IF minRTT = 0 THEN loc[c].rtt ELSE Min({minRTT, loc[c].rtt})
  BY DEF newMinRTT
<1>3. Min({minRTT, loc[c].rtt}) = IF minRTT <= loc[c].rtt THEN minRTT ELSE loc[c].rtt
  BY <1>1, MinOfTwo
<1>4. probes' \in Int
  <2>1. limit \in Nat /\ probes \in Int /\ \A r \in Rands : r \in Nat
    BY VegasAssumption, SameTypes
  <2>2. probes' = probes - 1 \/ \E r \in Rands : probes' = 3 * limit + r
    BY DEF newMinRTT
  <2> QED BY <2>1, <2>2
<1> QED BY <1>1, <1>2, <1>3, <1>4

LEMMA KeepNewMinRTT ==
  ASSUME VType, NEW c \in Callers, CallerOK(c), newMinRTT(c)
  PROVE  Keeps(c)
<1>1. vpc[c] = "min" /\ mu = c /\ vpc[c] \in Sampled
  BY DEF newMinRTT, Go, CallerOK, Sampled, Evaluating
<1>2. Moved(c, "dropped", loc[c]) /\ loc[c] \in LRec
  BY LocalIs DEF newMinRTT, Go, Moved, VType
<1>3. UNCHANGED <<now, inFlight, limit, updateTime, samples, mu, calls, fastest>>
  BY DEF newMinRTT, history
<1>4. "dropped" \in Places /\ ("dropped" \in Counted <=> vpc[c] \in Counted)
  BY <1>1 DEF Places, Counted
<1>5. minRTT' \in Nat /\ 0 < minRTT' /\ minRTT' <= loc[c].rtt /\ probes' \in Int
  BY NewMinimum
<1>6. VType' /\ Grows /\ Frame(c) /\ vpc'[c] = "dropped" /\ loc'[c] = loc[c]
  BY <1>2, <1>3, <1>4, <1>5, QuietTypes, SameTypes
<1>7. CallerOK(c)'
  <2>1. (loc[c].dropIn => Mine(c).drop) /\ loc[c].rtt >= fastest
    BY <1>1 DEF CallerOK
  <2>2. loc[c].s \in 1..Len(samples)
    BY <1>1, MineIs
  <2> QED BY <1>1, <1>3, <1>5, <1>6, <2>1, <2>2
          DEF CallerOK, Sampled, Evaluating, Current, Mine
<1>8. \A d \in Callers \ {c} : (mu' = d <=> mu = d) /\ mu # d
  BY <1>1, <1>3
<1> QED BY <1>6, <1>7, <1>8 DEF Keeps

LEMMA KeepNewLimitDrop ==
  ASSUME VType, NEW c \in Callers, CallerOK(c), newLimitDrop(c)
  PROVE  Keeps(c)
<1>1. /\ vpc[c] = "dropped" /\ mu = c /\ vpc[c] \in Sampled
      /\ UNCHANGED <<now, inFlight, updateTime, minRTT, probes, samples, calls, fastest>>
  BY DEF newLimitDrop, CallerOK, Sampled, Evaluating, history
<1>2. CASE Mine(c).drop
  <2>1. storeLimit(MinusOne) /\ Unlock(c)
    BY <1>2 DEF newLimitDrop
  <2>2. limit' \in MinLimit..MaxLimit
    <3>1. 1 \in Nat /\ limit \in Nat
      BY SameTypes
    <3>2. MinusOne \in Int
      BY <3>1, LimitsInt
    <3> QED BY <2>1, <3>2, StoredLimit
  <2> QED BY <1>1, <2>1, <2>2, KeepReturn DEF Counted, Unlock
<1>3. CASE ~Mine(c).drop
  <2>1. Moved(c, "limit", loc[c]) /\ loc[c] \in LRec /\ UNCHANGED <<limit, mu>>
    BY <1>3, LocalIs DEF newLimitDrop, Go, Moved, VType
  <2>2. "limit" \in Places /\ ("limit" \in Counted <=> vpc[c] \in Counted)
    BY <1>1 DEF Places, Counted
  <2>3. VType' /\ Grows /\ Frame(c) /\ vpc'[c] = "limit" /\ loc'[c] = loc[c]
    BY <1>1, <2>1, <2>2, QuietTypes, SameTypes
  <2>4. CallerOK(c)'
    <3>1. /\ loc[c].dropIn => Mine(c).drop
          /\ loc[c].rtt >= fastest /\ 0 < minRTT /\ minRTT <= loc[c].rtt
      BY <1>1 DEF CallerOK
    <3>2. loc[c].s \in 1..Len(samples)
      BY <1>1, MineIs
    <3> QED BY <1>1, <1>3, <2>1, <2>3, <3>1, <3>2
            DEF CallerOK, Sampled, Evaluating, Current
  <2> QED BY <1>1, <2>1, <2>3, <2>4 DEF Keeps
<1> QED BY <1>2, <1>3

LEMMA KeepNewLimit ==
  ASSUME VType, NEW c \in Callers, CallerOK(c), newLimit(c)
  PROVE  Keeps(c)
<1>1. /\ vpc[c] = "limit" /\ mu = c /\ Unlock(c)
      /\ UNCHANGED <<now, inFlight, updateTime, minRTT, probes, samples, calls, fastest>>
  BY DEF newLimit, CallerOK, Evaluating, history
<1>2. limit' \in MinLimit..MaxLimit
  <2>1. limit \in Nat /\ limit \in MinLimit..MaxLimit
    BY SameTypes
  <2>2. Plus(1) \in Int /\ Plus(3) \in Int /\ Plus(6) \in Int /\ MinusOne \in Int
    BY <2>1, LimitsInt
  <2>3. \/ limit' = limit
        \/ storeLimit(Plus(6)) \/ storeLimit(Plus(3)) \/ storeLimit(Plus(1))
        \/ storeLimit(MinusOne)
    BY DEF newLimit
  <2> QED BY <2>1, <2>2, <2>3, StoredLimit
<1> QED BY <1>1, <1>2, KeepReturn DEF Counted, Unlock
-----------------------------------------------------------------------------
(***************************************************************************)
(* The same steps and the samples.                                         *)
(***************************************************************************)
SampleInv == EvaluatedInOrder /\ DropStored /\ TotalsLarge

\* The steps that leave the samples alone.
LEMMA SamplesSame ==
  ASSUME SampleInv, NEW c \in Callers, Frame(c), vpc[c] # "count", vpc'[c] # "count",
         UNCHANGED <<samples, fastest, dropCounted, evaluated>>
  PROVE  SampleInv'
<1>1. \A i : Counting(i)' = Counting(i)
  BY DEF Counting, Frame
<1>2. TotalsLarge'
  BY <1>1 DEF TotalsLarge, SampleInv
<1>3. EvaluatedInOrder' /\ DropStored'
  BY DEF SampleInv, EvaluatedInOrder, DropStored
<1> QED BY <1>2, <1>3 DEF SampleInv

\* A step of sample.Add that leaves the total and the count alone.
LEMMA TotalsSame ==
  ASSUME VType, SampleInv, NEW c \in Callers, Frame(c), vpc[c] # "count", vpc'[c] # "count",
         loc[c].s \in 1..Len(samples), NEW r \in SRec,
         samples' = [samples EXCEPT ![loc[c].s] = r],
         r.count = Mine(c).count, r.totalRTT = Mine(c).totalRTT, Mine(c).drop => r.drop,
         UNCHANGED <<fastest, dropCounted, evaluated>>
  PROVE  SampleInv'
<1>1. \A i : Counting(i)' = Counting(i)
  BY DEF Counting, Frame
<1>2. /\ Len(samples') = Len(samples) /\ samples'[loc[c].s] = r
      /\ \A j \in 1..Len(samples) \ {loc[c].s} : samples'[j] = samples[j]
  BY SampleUpdate DEF VType
<1>3. \A i \in 1..Len(samples) :
        /\ samples'[i].count = samples[i].count /\ samples'[i].totalRTT = samples[i].totalRTT
        /\ samples[i].drop => samples'[i].drop
  BY <1>2 DEF Mine
<1>4. TotalsLarge'
  <2>1. \A i \in 1..Len(samples) : Cardinality(Counting(i))' = Cardinality(Counting(i))
    BY <1>1
  <2> QED BY <1>2, <1>3, <2>1 DEF TotalsLarge, SampleInv
<1>5. EvaluatedInOrder' /\ DropStored'
  BY <1>2, <1>3 DEF SampleInv, EvaluatedInOrder, DropStored
<1> QED BY <1>4, <1>5 DEF SampleInv

LEMMA StoreDropSamples ==
  ASSUME VType, SampleInv, NEW c \in Callers, CallerOK(c), Keeps(c),
         Go(c, "drop", "max"), StoreDrop(c), UNCHANGED evaluated
  PROVE  SampleInv'
<1> DEFINE r == [Mine(c) EXCEPT !.drop = TRUE]
<1>1. vpc[c] = "drop" /\ vpc'[c] = "max" /\ Frame(c) /\ vpc[c] \in Sampled
  BY DEF Go, VType, Keeps, Sampled
<1>2. loc[c].s \in 1..Len(samples) /\ Mine(c) \in SRec
  BY <1>1, MineIs
<1>3. /\ r \in SRec /\ r.count = Mine(c).count /\ r.totalRTT = Mine(c).totalRTT
      /\ Mine(c).drop => r.drop
  BY <1>2 DEF SRec
<1>4. /\ samples' = [samples EXCEPT ![loc[c].s] = r]
      /\ UNCHANGED <<fastest, dropCounted, evaluated>>
  BY DEF StoreDrop, Mine
<1> HIDE DEF r
<1> QED BY <1>1, <1>2, <1>3, <1>4, TotalsSame

LEMMA RaiseMaxSamples ==
  ASSUME VType, SampleInv, NEW c \in Callers, CallerOK(c), Keeps(c),
         Go(c, "max", "total"), RaiseMax(c), UNCHANGED evaluated
  PROVE  SampleInv'
<1> DEFINE v == Max({Mine(c).maxInFlight, loc[c].seen})
           r == [Mine(c) EXCEPT !.maxInFlight = v]
<1>1. vpc[c] = "max" /\ vpc'[c] = "total" /\ Frame(c) /\ vpc[c] \in Sampled
  BY DEF Go, VType, Keeps, Sampled
<1>2. loc[c].s \in 1..Len(samples) /\ Mine(c) \in SRec /\ v \in Nat
  <2>1. Mine(c).maxInFlight \in Nat /\ loc[c].seen \in Nat
    BY <1>1, MineIs, LocalIs
  <2>2. v \in Nat
    BY <2>1, MaxOfTwo
  <2> HIDE DEF v
  <2> QED BY <1>1, <2>2, MineIs
<1>3. /\ samples' = [samples EXCEPT ![loc[c].s] = r]
      /\ UNCHANGED <<fastest, dropCounted, evaluated>>
  BY DEF RaiseMax, Mine
<1> HIDE DEF v
<1>4. /\ r \in SRec /\ r.count = Mine(c).count /\ r.totalRTT = Mine(c).totalRTT
      /\ Mine(c).drop => r.drop
  BY <1>2 DEF SRec
<1> HIDE DEF r
<1> QED BY <1>1, <1>2, <1>3, <1>4, TotalsSame

\* The total grows by the round trip, and c is about to be counted.
LEMMA AddTotalSamples ==
  ASSUME VType, SampleInv, NEW c \in Callers, CallerOK(c), Keeps(c),
         Go(c, "total", "count"), AddTotal(c), UNCHANGED evaluated
  PROVE  SampleInv'
<1>0. PICK i \in Nat : i = loc[c].s
  BY LocalIs
<1> DEFINE v == Mine(c).totalRTT + loc[c].rtt
           r == [Mine(c) EXCEPT !.totalRTT = v]
<1>1. vpc[c] = "total" /\ vpc'[c] = "count" /\ Frame(c) /\ vpc[c] \in Sampled
  BY DEF Go, VType, Keeps, Sampled
<1>2. loc'[c].s = i
  BY <1>0, LocalIs DEF AddTotal, VType, LRec
<1>3. i \in 1..Len(samples) /\ Mine(c) \in SRec /\ v \in Nat
  BY <1>0, <1>1, MineIs, LocalIs
<1>4. /\ samples' = [samples EXCEPT ![i] = r]
      /\ UNCHANGED <<dropCounted, evaluated>>
  BY <1>0 DEF AddTotal, Mine
<1>5. /\ r \in SRec /\ r.count = Mine(c).count /\ r.totalRTT = v
      /\ Mine(c).drop => r.drop
  <2> HIDE DEF v
  <2> QED BY <1>3 DEF SRec
<1> HIDE DEF r
<1>6. /\ Len(samples') = Len(samples) /\ samples'[i] = r
      /\ \A j \in 1..Len(samples) \ {i} : samples'[j] = samples[j]
  BY <1>3, <1>4, <1>5, SampleUpdate DEF VType
<1>7. /\ fastest \in Nat /\ fastest' \in Nat /\ fastest' <= fastest /\ fastest' <= loc[c].rtt
  <2>1. fastest \in Nat /\ loc[c].rtt \in Nat /\ fastest' = Min({fastest, loc[c].rtt})
    BY LocalIs DEF AddTotal, VType
  <2> QED BY <2>1, MinOfTwo
<1>8. \A j \in 1..Len(samples) \ {i} : Counting(j)' = Counting(j)
  BY <1>0, <1>1, <1>2 DEF Counting, Frame
<1>9. Counting(i)' = Counting(i) \cup {c} /\ c \notin Counting(i)
  BY <1>0, <1>1, <1>2 DEF Counting, Frame
<1>10. Cardinality(Counting(i)') = Cardinality(Counting(i)) + 1
  BY <1>9, CountingFinite, FS_AddElement
<1>11. TotalsLarge'
  <2> SUFFICES ASSUME NEW j \in 1..Len(samples)
               PROVE  samples'[j].totalRTT >= (samples'[j].count + Cardinality(Counting(j)'))
                                                * fastest'
    BY <1>6 DEF TotalsLarge
  <2> DEFINE k == samples[j].count + Cardinality(Counting(j))
  <2>1. samples[j].totalRTT >= k * fastest /\ samples[j].totalRTT \in Nat
    BY SampleFields DEF TotalsLarge, SampleInv, VType
  <2>2. k \in Nat
    BY SampleFields, CountingFinite DEF VType
  <2>3. k * fastest' <= k * fastest /\ k * fastest' \in Nat /\ k * fastest \in Nat
    <3> HIDE DEF k
    <3>1. k <= k /\ fastest' <= fastest /\ fastest \in Nat /\ fastest' \in Nat
      BY <1>7, <2>2
    <3> QED BY <2>2, <3>1, ProductMonotone
  <2>4. CASE j # i
    <3>1. samples'[j] = samples[j] /\ Counting(j)' = Counting(j)
      BY <1>6, <1>8, <2>4
    <3>2. samples'[j].count + Cardinality(Counting(j)') = k
      BY <3>1
    <3> HIDE DEF k
    <3> QED BY <2>1, <2>2, <2>3, <3>1, <3>2
  <2>5. CASE j = i
    <3>1. samples'[j].totalRTT = samples[j].totalRTT + loc[c].rtt
      BY <1>0, <1>5, <1>6, <2>5 DEF Mine
    <3>2. samples'[j].count + Cardinality(Counting(j)') = k + 1
      <4>1. samples'[j].count = samples[j].count /\ samples[j].count \in Nat
        BY <1>0, <1>5, <1>6, <2>5, SampleFields DEF Mine, VType
      <4>2. Cardinality(Counting(j)') = Cardinality(Counting(j)) + 1
        BY <1>10, <2>5
      <4> QED BY <4>1, <4>2, CountingFinite
    <3> HIDE DEF k
    <3>3. (k + 1) * fastest' = k * fastest' + fastest'
      BY <1>7, <2>2
    <3>4. loc[c].rtt \in Nat
      BY LocalIs
    <3>5. samples[j].totalRTT + loc[c].rtt >= k * fastest' + fastest'
      BY <1>7, <2>1, <2>3, <3>4
    <3> QED BY <3>1, <3>2, <3>3, <3>5
  <2> QED BY <2>4, <2>5
<1>12. EvaluatedInOrder' /\ DropStored'
  <2>1. \A j \in 1..Len(samples) : samples[j].drop => samples'[j].drop
    BY <1>0, <1>5, <1>6 DEF Mine
  <2> QED BY <1>4, <1>6, <2>1 DEF SampleInv, EvaluatedInOrder, DropStored
<1> QED BY <1>11, <1>12 DEF SampleInv

\* c is counted: the count takes over from the caller.
LEMMA AddCountSamples ==
  ASSUME VType, SampleInv, NEW c \in Callers, CallerOK(c), Keeps(c),
         Go(c, "count", "time"), AddCount(c), UNCHANGED evaluated
  PROVE  SampleInv'
<1>0. PICK i \in Nat : i = loc[c].s
  BY LocalIs
<1> DEFINE v == Mine(c).count + 1
           r == [Mine(c) EXCEPT !.count = v]
<1>1. vpc[c] = "count" /\ vpc'[c] = "time" /\ Frame(c) /\ vpc[c] \in Sampled
  BY DEF Go, VType, Keeps, Sampled
<1>2. i \in 1..Len(samples) /\ Mine(c) \in SRec /\ v \in Nat
  BY <1>0, <1>1, MineIs
<1>3. samples' = [samples EXCEPT ![i] = r] /\ UNCHANGED <<fastest, evaluated>>
  BY <1>0 DEF AddCount, Mine
<1>4. /\ r \in SRec /\ r.count = v /\ r.totalRTT = Mine(c).totalRTT
      /\ r.drop = Mine(c).drop
  <2> HIDE DEF v
  <2> QED BY <1>2 DEF SRec
<1> HIDE DEF r
<1>5. /\ Len(samples') = Len(samples) /\ samples'[i] = r
      /\ \A j \in 1..Len(samples) \ {i} : samples'[j] = samples[j]
  BY <1>2, <1>3, <1>4, SampleUpdate DEF VType
<1>6. loc'[c].s = i
  BY <1>0, LocalIs DEF AddCount, VType, LRec
<1>7. \A j \in 1..Len(samples) \ {i} : Counting(j)' = Counting(j)
  BY <1>0, <1>1, <1>6 DEF Counting, Frame
<1>8. Counting(i)' = Counting(i) \ {c} /\ c \in Counting(i)
  BY <1>0, <1>1, <1>6 DEF Counting, Frame
<1>9. Cardinality(Counting(i)') = Cardinality(Counting(i)) - 1
  BY <1>8, CountingFinite, FS_RemoveElement
<1>10. TotalsLarge'
  <2> SUFFICES ASSUME NEW j \in 1..Len(samples)
               PROVE  samples'[j].totalRTT >= (samples'[j].count + Cardinality(Counting(j)'))
                                                * fastest'
    BY <1>5 DEF TotalsLarge
  <2>1. samples[j].totalRTT >= (samples[j].count + Cardinality(Counting(j))) * fastest
    BY DEF TotalsLarge, SampleInv
  <2>2. CASE j # i
    <3>1. samples'[j] = samples[j] /\ Counting(j)' = Counting(j) /\ fastest' = fastest
      BY <1>3, <1>5, <1>7, <2>2
    <3> QED BY <2>1, <3>1
  <2>3. CASE j = i
    <3>1. /\ samples'[j].totalRTT = samples[j].totalRTT /\ fastest' = fastest
          /\ samples'[j].count = samples[j].count + 1 /\ samples[j].count \in Nat
      BY <1>0, <1>3, <1>4, <1>5, <2>3, SampleFields DEF Mine, VType
    <3>2. Cardinality(Counting(j)') = Cardinality(Counting(j)) - 1
      BY <1>9, <2>3
    <3>3. samples'[j].count + Cardinality(Counting(j)') = samples[j].count + Cardinality(Counting(j))
      BY <3>1, <3>2, CountingFinite
    <3> QED BY <2>1, <3>1, <3>3
  <2> QED BY <2>2, <2>3
<1>11. DropStored'
  <2>1. \A j \in 1..Len(samples) : samples[j].drop => samples'[j].drop
    BY <1>0, <1>4, <1>5 DEF Mine
  <2>2. loc[c].op = "Drop" => samples[i].drop
    BY <1>0, <1>1 DEF CallerOK, Mine
  <2>3. dropCounted' = dropCounted \cup IF loc[c].op = "Drop" THEN {i} ELSE {}
    BY <1>0 DEF AddCount
  <2> QED BY <1>2, <1>5, <2>1, <2>2, <2>3 DEF SampleInv, DropStored
<1>12. EvaluatedInOrder'
  BY <1>3, <1>5 DEF SampleInv, EvaluatedInOrder
<1> QED BY <1>10, <1>11, <1>12 DEF SampleInv

\* A fresh sample, to which nobody has added anything.
LEMMA ReplaceSamples ==
  ASSUME VType, SampleInv, \A d \in Callers : CallerOK(d), NEW c \in Callers, Keeps(c),
         vpc[c] = "lock", loc[c].s = Current, Replace(c)
  PROVE  SampleInv'
<1>1. vpc'[c] = "n" /\ Frame(c)
  BY DEF Replace, Go, VType, Keeps
<1>2. Len(samples) \in Nat /\ Len(samples) >= 1
  BY DEF VType
<1>3. /\ Len(samples') = Len(samples) + 1
      /\ samples'[Len(samples) + 1] = EmptySample
      /\ \A j \in 1..Len(samples) : samples'[j] = samples[j]
  BY SampleAppend DEF Replace, VType
<1>4. UNCHANGED <<fastest, dropCounted>>
  BY DEF Replace
<1>5. \A i : Counting(i)' = Counting(i)
  BY <1>1 DEF Counting, Frame
<1>6. TotalsLarge'
  <2>1. Counting(Len(samples) + 1) = {}
    BY <1>2 DEF Counting, CallerOK, Sampled, Current
  <2>2. Cardinality(Counting(Len(samples) + 1)) = 0
    BY <2>1, FS_EmptySet
  <2>3. EmptySample.count = 0 /\ EmptySample.totalRTT = 0 /\ fastest \in Nat
    BY DEF EmptySample, VType
  <2> SUFFICES ASSUME NEW j \in 1..Len(samples) + 1
               PROVE  samples'[j].totalRTT >= (samples'[j].count + Cardinality(Counting(j)))
                                                * fastest
    BY <1>3, <1>4, <1>5 DEF TotalsLarge
  <2>4. CASE j \in 1..Len(samples)
    BY <1>3, <2>4 DEF TotalsLarge, SampleInv
  <2>5. CASE j = Len(samples) + 1
    BY <1>3, <2>2, <2>3, <2>5
  <2> QED BY <1>2, <2>4, <2>5
<1>7. EvaluatedInOrder'
  <2> DEFINE e == [i \in 1..Len(samples) - 1 |-> i]
  <2>1. evaluated' = Append(e, Len(samples))
    BY DEF Replace, Current, SampleInv, EvaluatedInOrder
  <2>2. e \in Seq(Nat) /\ Len(e) = Len(samples) - 1
    BY <1>2
  <2>3. Append(e, Len(samples)) = [i \in 1..Len(samples) |-> i]
    BY <1>2, <2>2
  <2> QED BY <1>2, <1>3, <2>1, <2>3 DEF EvaluatedInOrder
<1>8. DropStored'
  BY <1>2, <1>3, <1>4 DEF SampleInv, DropStored
<1> QED BY <1>6, <1>7, <1>8 DEF SampleInv
-----------------------------------------------------------------------------
(***************************************************************************)
(* The inductive invariant of the evaluation, and the theorems.            *)
(***************************************************************************)
VegasInv ==
  /\ VType /\ \A c \in Callers : CallerOK(c)
  /\ SampleInv
  /\ MinRTTReal

LEMMA InitVegas == Init => VegasInv
<1> SUFFICES ASSUME Init PROVE VegasInv
  OBVIOUS
<1>1. VType
  <2>1. samples = <<EmptySample>> /\ Len(samples) = 1 /\ samples \in Seq(SRec)
    BY Fresh DEF Init
  <2>2. Running = {}
    BY DEF Init, Running, Counted
  <2>3. inFlight = Cardinality(Running)
    BY <2>2, FS_EmptySet DEF Init
  <2>4. loc \in [Callers -> LRec] /\ vpc \in [Callers -> Places]
    BY Fresh DEF Init, Places
  <2>5. /\ now \in 1..MaxTime /\ calls \in 0..MaxCalls /\ limit \in MinLimit..MaxLimit
        /\ probes \in Int /\ updateTime \in Nat /\ minRTT \in Nat /\ fastest \in Nat
        /\ mu \in Callers \cup {NoCaller}
    BY VegasAssumption DEF Init
  <2> QED BY <2>1, <2>3, <2>4, <2>5 DEF VType
<1>2. \A c \in Callers : CallerOK(c)
  BY VegasAssumption DEF Init, CallerOK, Sampled, Evaluating
<1>3. TotalsLarge
  <2>1. Counting(1) = {}
    BY DEF Init, Counting
  <2>2. Cardinality(Counting(1)) = 0
    BY <2>1, FS_EmptySet
  <2>3. Len(samples) = 1 /\ samples[1].count = 0 /\ samples[1].totalRTT = 0 /\ fastest \in Nat
    BY VegasAssumption DEF Init, EmptySample
  <2> QED BY <2>2, <2>3 DEF TotalsLarge
<1>4. EvaluatedInOrder /\ DropStored /\ MinRTTReal
  BY DEF Init, EvaluatedInOrder, DropStored, MinRTTReal
<1> QED BY <1>1, <1>2, <1>3, <1>4 DEF VegasInv, SampleInv

\* A caller's step keeps its promises, and the minimum.
LEMMA StepKeeps ==
  ASSUME VegasInv, NEW c \in Callers,
         Acquire(c) \/ AcquireLoad(c) \/ Finish(c)
           \/ \E start \in Starts, op \in Operations : Done(c, start, op)
  PROVE  Keeps(c)
<1>1. VType /\ CallerOK(c) /\ DropStored /\ TotalsLarge
  BY DEF VegasInv, SampleInv
<1>2. CASE Acquire(c) \/ AcquireLoad(c) \/ \E start \in Starts, op \in Operations : Done(c, start, op)
  BY <1>1, <1>2, KeepAcquire, KeepAcquireLoad, KeepDone
<1>3. CASE Finish(c)
  BY <1>1, <1>3, KeepLoadSample, KeepAdd, KeepCheckTime, KeepCheckCount, KeepLock, KeepLoadCount,
     KeepLoadTotal, KeepNewUpdateTime, KeepNewMinRTT, KeepNewLimitDrop, KeepNewLimit DEF Finish
<1> QED BY <1>2, <1>3

LEMMA StepMinRTT ==
  ASSUME VegasInv, NEW c \in Callers, Keeps(c),
         Acquire(c) \/ AcquireLoad(c) \/ Finish(c)
           \/ \E start \in Starts, op \in Operations : Done(c, start, op)
  PROVE  MinRTTReal'
<1>1. minRTT' = minRTT \/ newMinRTT(c)
  BY DEF Acquire, AcquireLoad, Finish, Done, LoadSample, Add, CheckTime, CheckCount, Lock,
         LoadCount, LoadTotal, newUpdateTime, newLimitDrop, newLimit, limits
<1>2. fastest' \in Nat /\ fastest \in Nat /\ fastest' <= fastest /\ minRTT \in Nat
  BY DEF Keeps, Grows, VegasInv, VType
<1>3. MinRTTReal /\ VType /\ CallerOK(c)
  BY DEF VegasInv
<1>4. CASE minRTT' = minRTT
  BY <1>2, <1>3, <1>4 DEF MinRTTReal
<1>5. CASE newMinRTT(c)
  <2>1. minRTT' = loc[c].rtt \/ (minRTT # 0 /\ minRTT' = minRTT)
    BY <1>3, <1>5, NewMinimum
  <2>2. loc[c].rtt >= fastest /\ loc[c].rtt \in Nat
    BY <1>3, <1>5, LocalIs DEF CallerOK, newMinRTT, Go
  <2> QED BY <1>2, <1>3, <2>1, <2>2 DEF MinRTTReal
<1> QED BY <1>1, <1>4, <1>5

LEMMA StepSamples ==
  ASSUME VegasInv, NEW c \in Callers, Keeps(c),
         Acquire(c) \/ AcquireLoad(c) \/ Finish(c)
           \/ \E start \in Starts, op \in Operations : Done(c, start, op)
  PROVE  SampleInv'
<1>1. VType /\ SampleInv /\ Frame(c) /\ CallerOK(c) /\ \A d \in Callers : CallerOK(d)
  BY DEF VegasInv, Keeps
<1>2. vpc \in [Callers -> Places]
  BY <1>1 DEF VType
<1>3. CASE Add(c)
  BY <1>1, <1>3, StoreDropSamples, RaiseMaxSamples, AddTotalSamples, AddCountSamples DEF Add
<1>4. CASE Lock(c) /\ Replace(c) /\ loc[c].s = Current
  BY <1>1, <1>4, ReplaceSamples DEF Lock
<1>5. CASE Lock(c) /\ Return(c) /\ UNCHANGED <<samples, history>>
  <2>1. vpc[c] # "count" /\ vpc'[c] # "count"
    BY <1>2, <1>5 DEF Lock, Return
  <2> QED BY <1>1, <1>5, <2>1, SamplesSame DEF history
<1>6. CASE \/ Acquire(c) \/ AcquireLoad(c) \/ LoadSample(c)
           \/ \E start \in Starts, op \in Operations : Done(c, start, op)
  <2>1. vpc[c] # "count" /\ vpc'[c] # "count"
    BY <1>2, <1>6 DEF Acquire, AcquireLoad, LoadSample, Done, Go, Return
  <2>2. UNCHANGED <<samples, fastest, dropCounted, evaluated>>
    BY <1>6 DEF Acquire, AcquireLoad, LoadSample, Done, history
  <2> QED BY <1>1, <2>1, <2>2, SamplesSame
<1>7. CASE CheckTime(c) \/ CheckCount(c) \/ LoadCount(c)
  <2>1. vpc[c] # "count" /\ vpc'[c] # "count"
    BY <1>2, <1>7 DEF CheckTime, CheckCount, LoadCount, Go, Return
  <2>2. UNCHANGED <<samples, fastest, dropCounted, evaluated>>
    BY <1>7 DEF CheckTime, CheckCount, LoadCount, history
  <2> QED BY <1>1, <2>1, <2>2, SamplesSame
<1>8. CASE LoadTotal(c) \/ newUpdateTime(c) \/ newMinRTT(c) \/ newLimitDrop(c) \/ newLimit(c)
  <2>1. vpc[c] # "count" /\ vpc'[c] # "count"
    BY <1>2, <1>8 DEF LoadTotal, newUpdateTime, newMinRTT, newLimitDrop, newLimit, Unlock, Go, Return
  <2>2. UNCHANGED <<samples, fastest, dropCounted, evaluated>>
    BY <1>8 DEF LoadTotal, newUpdateTime, newMinRTT, newLimitDrop, newLimit, history
  <2> QED BY <1>1, <2>1, <2>2, SamplesSame
<1> QED BY <1>3, <1>4, <1>5, <1>6, <1>7, <1>8 DEF Finish, Lock

LEMMA NextVegas == VegasInv /\ [Next]_vars => VegasInv'
<1> SUFFICES ASSUME VegasInv, [Next]_vars PROVE VegasInv'
  OBVIOUS
<1>1. CASE Tick \/ UNCHANGED vars
  <2>1. UNCHANGED <<inFlight, limits, samples, mu, vpc, loc, calls, history>>
    BY <1>1 DEF Tick, vars
  <2>2. UNCHANGED <<inFlight, limit, updateTime, minRTT, probes, samples, mu, vpc, loc, calls,
                    fastest, dropCounted, evaluated>>
    BY <2>1 DEF limits, history
  <2>3. now' \in 1..MaxTime
    <3>1. now \in 1..MaxTime /\ MaxTime \in Nat
      BY VegasAssumption DEF VegasInv, VType
    <3>2. now' = now \/ (now < MaxTime /\ now' = now + 1)
      BY <1>1 DEF Tick, vars
    <3> QED BY <3>1, <3>2
  <2>4. VType'
    <3>1. Running' = Running
      BY <2>2 DEF Running
    <3> QED BY <2>2, <2>3, <3>1 DEF VegasInv, VType
  <2>5. (\A c \in Callers : CallerOK(c))'
    BY <2>2 DEF VegasInv, CallerOK, Mine, Current
  <2>6. SampleInv' /\ MinRTTReal'
    <3>1. \A i : Counting(i)' = Counting(i)
      BY <2>2 DEF Counting
    <3> QED BY <2>2, <3>1
            DEF VegasInv, SampleInv, EvaluatedInOrder, DropStored, TotalsLarge, MinRTTReal
  <2> QED BY <2>4, <2>5, <2>6 DEF VegasInv
<1>2. ASSUME NEW c \in Callers,
             Acquire(c) \/ AcquireLoad(c) \/ Finish(c)
               \/ \E start \in Starts, op \in Operations : Done(c, start, op)
      PROVE  VegasInv'
  <2>1. Keeps(c)
    BY <1>2, StepKeeps
  <2>2. MinRTTReal' /\ SampleInv'
    BY <1>2, <2>1, StepMinRTT, StepSamples
  <2>3. ASSUME NEW d \in Callers \ {c} PROVE CallerOK(d)'
    <3>1. VType /\ VType' /\ Grows /\ CallerOK(d) /\ vpc'[d] = vpc[d] /\ loc'[d] = loc[d]
      BY <2>1 DEF Keeps, Frame, VegasInv
    <3>2. (mu' = d <=> mu = d) /\ (minRTT' = minRTT \/ mu # d)
      BY <2>1 DEF Keeps
    <3> QED BY <3>1, <3>2, CallerKept
  <2> QED BY <2>1, <2>2, <2>3 DEF VegasInv, Keeps
<1> QED BY <1>1, <1>2 DEF Next

LEMMA AlwaysVegas == Spec => []VegasInv
BY InitVegas, NextVegas, PTL DEF Spec

(***************************************************************************)
(* Each sample is evaluated once and in order, by the caller that holds    *)
(* mu, although several find it full: the sample is compared again under   *)
(* mu before it is replaced.                                               *)
(***************************************************************************)
THEOREM SamplesUsedOnce == Spec => []SampleUsedOnce
<1>1. VegasInv => SampleUsedOnce
  <2> SUFFICES ASSUME VegasInv PROVE SampleUsedOnce
    OBVIOUS
  <2>1. inFlight \in Int
    BY RunningFinite, FS_CardinalityType DEF VegasInv, VType
  <2>2. TypeOK
    BY <2>1 DEF VegasInv, VType, SRec, TypeOK, CallerOK
  <2>3. Len(samples) \in Nat /\ Len(samples) >= 1 /\ evaluated = [i \in 1..Len(samples) - 1 |-> i]
    BY DEF VegasInv, VType, SampleInv, EvaluatedInOrder
  <2>4. \A i, j \in 1..Len(evaluated) : i < j => evaluated[i] < evaluated[j]
    <3>1. Len(evaluated) = Len(samples) - 1
      BY <2>3
    <3> QED BY <2>3, <3>1
  <2> QED BY <2>2, <2>4 DEF SampleUsedOnce
<1> QED BY <1>1, AlwaysVegas, PTL

(***************************************************************************)
(* minRTT is never below the shortest round trip measured, whatever late   *)
(* callers add to the sample that RTT() reads: the total it reads covers   *)
(* every call of the count it has read.                                    *)
(***************************************************************************)
THEOREM MinimumReal == Spec => []MinRTTReal
<1>1. VegasInv => MinRTTReal
  BY DEF VegasInv
<1> QED BY <1>1, AlwaysVegas, PTL

(***************************************************************************)
(* newLimit never sees a negative queue: newMinRTT leaves a positive       *)
(* minimum that is not above the mean of the window.                       *)
(***************************************************************************)
THEOREM QueuesNotNegative == Spec => []QueueNotNegative
<1>1. VegasInv => QueueNotNegative
  BY DEF VegasInv, CallerOK, QueueNotNegative
<1> QED BY <1>1, AlwaysVegas, PTL

\* Taking a threshold off never raises the limit.
LEMMA MinusOneLowers ==
  ASSUME VType, storeLimit(MinusOne)
  PROVE  limit' <= limit
<1>1. limit \in Nat /\ limit \in MinLimit..MaxLimit /\ MinLimit \in Nat /\ MaxLimit \in Nat
  BY VegasAssumption, SameTypes
<1>2. MinusOne \in Int /\ MinusOne <= limit
  <2>1. (limit + 3) \div 4 \in Nat
    BY <1>1
  <2>2. Sqrt((limit + 3) \div 4) \in Nat
    BY <2>1, SqrtNat
  <2>3. SqrtUp((limit + 3) \div 4) \in Nat
    BY <2>2 DEF SqrtUp
  <2> QED BY <1>1, <2>3 DEF MinusOne
<1>3. limit' = Max({MinLimit, Min({MaxLimit, MinusOne})})
  BY DEF storeLimit
<1> HIDE DEF MinusOne
<1>4. Min({MaxLimit, MinusOne}) \in Int /\ Min({MaxLimit, MinusOne}) <= limit
  BY <1>1, <1>2, MinOfTwo
<1> QED BY <1>1, <1>3, <1>4, MaxOfTwo

LEMMA LimitRaised ==
  ASSUME VegasInv, [Next]_vars, limit' > limit, NEW c \in Callers, mu = c
  PROVE  ~loc[c].dropIn
<1>1. VType /\ limit \in Nat /\ \A d \in Callers : CallerOK(d)
  BY SameTypes DEF VegasInv
<1>2. limit' # limit
  BY <1>1
<1>3. PICK d \in Callers : newLimitDrop(d) \/ newLimit(d)
  <2>1. ~Tick /\ vars' # vars
    BY <1>2 DEF Tick, limits, vars
  <2>2. ASSUME NEW d \in Callers, Acquire(d) \/ AcquireLoad(d) PROVE limit' = limit
    BY <2>2 DEF Acquire, AcquireLoad, limits
  <2>3. ASSUME NEW d \in Callers, NEW start \in Starts, NEW op \in Operations, Done(d, start, op)
        PROVE  limit' = limit
    BY <2>3 DEF Done, limits
  <2>4. ASSUME NEW d \in Callers, Finish(d), ~(newLimitDrop(d) \/ newLimit(d))
        PROVE  limit' = limit
    BY <2>4 DEF Finish, LoadSample, Add, CheckTime, CheckCount, Lock, LoadCount, LoadTotal,
                newUpdateTime, newMinRTT, limits
  <2> QED BY <1>2, <2>1, <2>2, <2>3, <2>4 DEF Next
<1>4. d = c
  <2>1. vpc[d] \in Evaluating
    BY <1>3 DEF newLimitDrop, newLimit, Evaluating
  <2>2. mu = d
    BY <1>1, <2>1 DEF CallerOK
  <2> QED BY <2>2
<1>5. CASE newLimitDrop(d)
  <2>1. storeLimit(MinusOne)
    BY <1>2, <1>5 DEF newLimitDrop
  <2>2. limit' <= limit
    BY <1>1, <2>1, MinusOneLowers
  <2>3. limit' \in Int
    <3>1. VegasInv'
      BY NextVegas
    <3> QED BY <3>1, VegasAssumption DEF VegasInv, VType
  <2> QED BY <1>1, <2>2, <2>3
<1>6. CASE newLimit(d)
  BY <1>1, <1>4, <1>6 DEF newLimit, CallerOK
<1> QED BY <1>3, <1>5, <1>6

(***************************************************************************)
(* A window that counts a dropped call never raises the limit: sample.Add  *)
(* stores drop before it counts the call, and newLimit reads drop after    *)
(* RTT() has read the count.                                               *)
(***************************************************************************)
THEOREM DropsNeverRaise == Spec => DropNeverRaises
<1>1. VegasInv /\ [Next]_vars => [limit' > limit => \A c \in Callers : mu = c => ~loc[c].dropIn]_vars
  BY LimitRaised
<1> QED BY <1>1, AlwaysVegas, PTL DEF Spec, DropNeverRaises
=============================================================================
