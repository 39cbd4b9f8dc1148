--------------------------- MODULE LimiterProofs ---------------------------
(***************************************************************************)
(* The limiter gives every place in flight back, for every number of       *)
(* callers, limit, queue and pool.                                         *)
(***************************************************************************)
EXTENDS Limiter, FiniteSetTheorems, TLAPS

\* Where the callers are between Acquire and the end of done.
StageOK == stage \in [Callers -> {"idle", "acquire", "granted", "denied", "sampled"}]

\* The inductive invariant.
IInv == StageOK /\ inFlight \in Int /\ InFlightExact

LEMMA FiniteCallers == IsFiniteSet(Callers)
BY LimiterAssumption

LEMMA FiniteInFlight == IsFiniteSet(R!InFlight)
BY FiniteCallers, FS_Subset DEF R!InFlight

LEMMA InitIInv == Init => IInv
<1> SUFFICES ASSUME Init PROVE IInv
  OBVIOUS
<1>1. stage = [c \in Callers |-> "idle"] /\ inFlight = 0
  BY DEF Init, R!Init
<1>2. R!InFlight = {}
  BY <1>1 DEF R!InFlight
<1> QED BY <1>1, <1>2, FS_EmptySet DEF IInv, StageOK, InFlightExact

\* Acquire takes a caller into flight and counts it.
LEMMA AcquireCounts ==
  ASSUME IInv, NEW c \in Callers, R!Acquire(c)
  PROVE  IInv'
<1>1. StageOK' /\ inFlight' = inFlight + 1
  BY DEF IInv, StageOK, R!Acquire
<1>2. c \notin R!InFlight /\ R!InFlight' = R!InFlight \cup {c}
  BY DEF IInv, StageOK, R!Acquire, R!InFlight
<1>3. Cardinality(R!InFlight') = Cardinality(R!InFlight) + 1
  BY <1>2, FiniteInFlight, FS_AddElement
<1> QED BY <1>1, <1>3 DEF IInv, InFlightExact

\* Compare decides on the place, and the caller stays in flight.
LEMMA CompareCounts ==
  ASSUME IInv, NEW c \in Callers, R!Compare(c)
  PROVE  IInv'
<1>1. StageOK' /\ inFlight' = inFlight
  BY DEF IInv, StageOK, R!Compare
<1>2. R!InFlight' = R!InFlight
  BY DEF IInv, StageOK, R!Compare, R!InFlight
<1> QED BY <1>1, <1>2 DEF IInv, InFlightExact

\* done gives the place back, with whatever outcome.
LEMMA DoneCounts ==
  ASSUME IInv, NEW c \in Callers, NEW op, R!Done(c, op)
  PROVE  IInv'
<1>1. StageOK' /\ inFlight' = inFlight - 1
  BY DEF IInv, StageOK, R!Done
<1>2. c \in R!InFlight /\ R!InFlight' = R!InFlight \ {c}
  BY DEF IInv, StageOK, R!Done, R!InFlight
<1>3. Cardinality(R!InFlight') = Cardinality(R!InFlight) - 1
  BY <1>2, FiniteInFlight, FS_RemoveElement
<1> QED BY <1>1, <1>3 DEF IInv, InFlightExact

\* The end of done leaves the count alone.
LEMMA AdjustCounts ==
  ASSUME IInv, NEW c \in Callers, R!Adjust(c)
  PROVE  IInv'
<1>1. StageOK' /\ inFlight' = inFlight
  BY DEF IInv, StageOK, R!Adjust
<1>2. R!InFlight' = R!InFlight
  BY DEF IInv, StageOK, R!Adjust, R!InFlight
<1> QED BY <1>1, <1>2 DEF IInv, InFlightExact

\* So do the steps that leave Vegas alone.
LEMMA RateUnchanged ==
  ASSUME IInv, UNCHANGED rate
  PROVE  IInv'
BY DEF IInv, StageOK, InFlightExact, R!InFlight, rate

LEMMA NextIInv ==
  ASSUME IInv, [Next]_vars
  PROVE  IInv'
<1>1. CASE Tick
  BY <1>1, RateUnchanged DEF Tick
<1>2. ASSUME NEW c \in Callers, Acquire(c) PROVE IInv'
  BY <1>2, AcquireCounts DEF Acquire
<1>3. ASSUME NEW c \in Callers, Compare(c) PROVE IInv'
  BY <1>3, CompareCounts DEF Compare
<1>4. ASSUME NEW c \in Callers, Push(c) PROVE IInv'
  BY <1>4, RateUnchanged DEF Push
<1>5. ASSUME NEW c \in Callers, Refuse(c) PROVE IInv'
  BY <1>5, DoneCounts DEF Refuse
<1>6. ASSUME NEW c \in Callers, Done(c) PROVE IInv'
  BY <1>6, DoneCounts DEF Done
<1>7. ASSUME NEW c \in Callers, Sample(c) PROVE IInv'
  BY <1>7, AdjustCounts DEF Sample
<1>8. ASSUME NEW c \in Callers, Pop(c) PROVE IInv'
  BY <1>8, RateUnchanged DEF Pop
<1>9. CASE UNCHANGED vars
  BY <1>9, RateUnchanged DEF vars
<1> QED BY <1>1, <1>2, <1>3, <1>4, <1>5, <1>6, <1>7, <1>8, <1>9 DEF Next

(***************************************************************************)
(* Allow and the function that it returns account for every caller: one    *)
(* that is refused by the queue, whose context ends, or that is admitted   *)
(* and done, gives its place in flight back exactly once.                  *)
(***************************************************************************)
THEOREM PlacesReturned == Spec => []InFlightExact
<1>1. Init => IInv
  BY InitIInv
<1>2. IInv /\ [Next]_vars => IInv'
  BY NextIInv
<1>3. IInv => InFlightExact
  BY DEF IInv
<1> QED BY <1>1, <1>2, <1>3, PTL DEF Spec
-----------------------------------------------------------------------------
(***************************************************************************)
(* Types.  That seen is a natural number needs the count to be exact.      *)
(***************************************************************************)
Packet == [dropChan : Chans \cup {NoChan}, timestamp : Nat]
Enqueued == [dropChan : Chans, timestamp : Nat]

\* Where a caller has a packet, its own or one that it has popped.
WithPacket == {"enqueue", "wait", "answered", "read", "judge", "send"}

QState ==
  /\ qpc \in [Callers -> Q!QPlaces]
  /\ pkt \in [Callers -> Packet]
  /\ \A c \in Callers : qpc[c] \in WithPacket => pkt[c].dropChan \in Chans
  /\ packets \in Seq(Enqueued) /\ Len(packets) <= QueueCap
  /\ pool \subseteq Chans /\ fresh \subseteq Chans
  /\ reading \in [Callers -> Nat] /\ verdict \in [Callers -> BOOLEAN]
  /\ now \in Nat

Control == count \in Nat /\ dropping \in BOOLEAN /\ faTime \in Nat /\ dropNext \in Nat

\* The Cardinality of CoDel is the one of this module.
LEMMA SameCardinality == \A S : Q!Cardinality(S) = Cardinality(S)
BY DEF Q!Cardinality, Cardinality, Q!IsFiniteSet, IsFiniteSet

LEMMA SpacingNat ==
  ASSUME NEW n \in Nat
  PROVE  Q!Spacing(n) \in Nat
<1>1. Internal \in Nat
  BY LimiterAssumption DEF Q!CoDelAssumption
<1>2. IsFiniteSet(1..Internal)
  BY <1>1, FS_Interval
<1>3. IsFiniteSet({m \in 1..Internal : m * m * n <= Internal * Internal})
  BY <1>2, FS_Subset
<1> QED BY <1>3, FS_CardinalityType, SameCardinality DEF Q!Spacing

LEMMA Packets ==
  /\ Q!NoPacket \in Packet /\ Enqueued \subseteq Packet
  /\ \A p \in Packet : p.timestamp \in Nat /\ (p.dropChan \in Chans => p \in Enqueued)
  /\ \A p \in Enqueued : p.dropChan \in Chans
BY DEF Packet, Enqueued, Q!NoPacket

LEMMA PushTypes ==
  ASSUME QState, Control, NEW c \in Callers,
         Q!PushGet(c) \/ Q!PushStep(c) \/ Q!PushDone(c)
  PROVE  QState' /\ Control'
<1>1. CASE Q!PushGet(c)
  <2>1. PICK ch \in Chans :
          /\ pool' \subseteq Chans /\ fresh' \subseteq Chans
          /\ pkt' = [pkt EXCEPT ![c] = [dropChan |-> ch, timestamp |-> now]]
    BY <1>1 DEF Q!PushGet, QState
  <2>2. [dropChan |-> ch, timestamp |-> now] \in Packet
    BY DEF Packet, QState
  <2>3. QState'
    BY <1>1, <2>1, <2>2 DEF Q!PushGet, Q!Go, QState, Q!QPlaces
  <2> QED BY <1>1, <2>3 DEF Q!PushGet, Control, Q!control
<1>2. CASE Q!PushEnqueue(c)
  <2>1. pkt[c] \in Enqueued
    BY <1>2, Packets DEF Q!PushEnqueue, Q!Go, QState, WithPacket
  <2>2. packets' \in Seq(Enqueued) /\ Len(packets') <= QueueCap
    BY <1>2, <2>1, LimiterAssumption DEF Q!PushEnqueue, QState, Q!CoDelAssumption
  <2>3. QState'
    BY <1>2, <2>1, <2>2 DEF Q!PushEnqueue, Q!Go, Q!locals, QState, Q!QPlaces, WithPacket
  <2> QED BY <1>2, <2>3 DEF Q!PushEnqueue, Control, Q!control
<1>3. CASE Q!PushFull(c) \/ Q!PushDone(c) \/ Q!PushAnswered(c)
  <2>1. /\ pkt' = [pkt EXCEPT ![c] = Q!NoPacket]
        /\ \E to \in {"failed", "admitted"} : qpc' = [qpc EXCEPT ![c] = to]
        /\ verdict' = verdict \/ verdict' = [verdict EXCEPT ![c] = FALSE]
        /\ UNCHANGED <<now, packets, fresh, count, dropping, faTime, dropNext, reading>>
    BY <1>3 DEF Q!PushFull, Q!PushDone, Q!PushAnswered, Q!Fail, Q!Go, Q!control
  <2>2. pool' = pool \/ (pool' = pool \cup {pkt[c].dropChan} /\ qpc[c] \in WithPacket)
    BY <1>3 DEF Q!PushFull, Q!PushDone, Q!PushAnswered, Q!Fail, Q!Go, WithPacket
  <2>3. QState'
    BY <2>1, <2>2, Packets DEF QState, Q!QPlaces, WithPacket
  <2> QED BY <2>1, <2>3 DEF Control
<1> QED BY <1>1, <1>2, <1>3 DEF Q!PushStep

\* The steps of Pop; now and the reading of judge give faTime and dropNext.
LEMMA JudgeTypes ==
  ASSUME QState, Control, NEW c \in Callers, Q!Judge(c)
  PROVE  QState' /\ Control'
<1> DEFINE t == reading[c]
           drop == Q!Above(t, t - pkt[c].timestamp)
<1>1. t \in Nat /\ drop \in BOOLEAN
  BY DEF QState, Q!Above
<1>2. QState'
  <2>1. verdict' = [verdict EXCEPT ![c] = drop]
    BY DEF Q!Judge
  <2>2. verdict' \in [Callers -> BOOLEAN]
    BY <1>1, <2>1 DEF QState
  <2>3. /\ qpc[c] \in WithPacket /\ qpc' = [qpc EXCEPT ![c] = "send"]
        /\ pkt' = [pkt EXCEPT ![c].timestamp = 0] /\ reading' = [reading EXCEPT ![c] = 0]
        /\ UNCHANGED <<now, packets, pool, fresh>>
    BY DEF Q!Judge, Q!Go, WithPacket
  <2>4. [pkt[c] EXCEPT !.timestamp = 0] \in Packet
    BY DEF QState, Packet
  <2>5. [pkt[c] EXCEPT !.timestamp = 0].dropChan = pkt[c].dropChan
    BY DEF QState, Packet
  <2>6. pkt' = [pkt EXCEPT ![c] = [pkt[c] EXCEPT !.timestamp = 0]]
    BY <2>3
  <2> HIDE DEF drop
  <2> QED BY <2>2, <2>3, <2>4, <2>5, <2>6 DEF QState, Q!QPlaces
<1>3. faTime' \in Nat
  BY <1>1, LimiterAssumption DEF Q!Judge, Q!checkFaTime, Control, Q!CoDelAssumption
<1>4. count' \in Nat /\ dropping' \in BOOLEAN /\ dropNext' \in Nat
  <2>1. \A n \in Nat : Q!Spacing(n) \in Nat
    BY SpacingNat
  <2>2. \/ dropping' = FALSE /\ UNCHANGED <<count, dropNext>>
        \/ count' = count + 1 /\ dropNext' = dropNext + Q!Spacing(count') /\ UNCHANGED dropping
        \/ /\ dropping' = TRUE /\ dropNext' = t + Q!Spacing(count')
           /\ count' = IF t - dropNext < Internal /\ count > 2 THEN count - 2 ELSE 1
        \/ UNCHANGED <<count, dropping, dropNext>>
    BY DEF Q!Judge
  <2>3. count' \in Nat
    BY <2>2 DEF Control
  <2>4. Q!Spacing(count') \in Nat
    BY <2>1, <2>3
  <2> HIDE DEF t, drop
  <2>5. dropNext' \in Nat
    BY <1>1, <2>2, <2>4 DEF Control
  <2> QED BY <2>2, <2>3, <2>5 DEF Control
<1> QED BY <1>2, <1>3, <1>4 DEF Control

LEMMA PopTypes ==
  ASSUME QState, Control, NEW c \in Callers, Q!PopStep(c)
  PROVE  QState' /\ Control'
<1>1. CASE Q!PopTake(c)
  <2>1. packets # <<>> /\ packets' = Tail(packets) /\ packets \in Seq(Enqueued)
    BY <1>1 DEF Q!PopTake, QState
  <2>2. packets' \in Seq(Enqueued) /\ Head(packets) \in Enqueued /\ Len(packets') = Len(packets) - 1
    BY <2>1
  <2>3. Len(packets') <= QueueCap
    BY <2>1, <2>2, LimiterAssumption DEF QState, Q!CoDelAssumption
  <2>4. QState'
    BY <1>1, <2>2, <2>3, Packets DEF Q!PopTake, Q!Go, QState, Q!QPlaces
  <2> QED BY <1>1, <2>4 DEF Q!PopTake, Control, Q!control
<1>2. CASE Q!PopEmpty(c) \/ Q!PopSkip(c)
  <2>1. /\ pkt' = [pkt EXCEPT ![c] = Q!NoPacket]
        /\ \E to \in {"out", "pop"} : qpc' = [qpc EXCEPT ![c] = to]
        /\ verdict' = [verdict EXCEPT ![c] = FALSE]
        /\ UNCHANGED <<now, packets, fresh, count, dropping, faTime, dropNext, reading>>
    BY <1>2 DEF Q!PopEmpty, Q!PopReturn, Q!PopSkip, Q!PopAgain, Q!Go, Q!control
  <2>2. pool' = pool \/ (pool' = pool \cup {pkt[c].dropChan} /\ qpc[c] \in WithPacket)
    BY <1>2 DEF Q!PopEmpty, Q!PopSkip, WithPacket
  <2>3. QState'
    BY <2>1, <2>2, Packets DEF QState, Q!QPlaces, WithPacket
  <2> QED BY <2>1, <2>3 DEF Control
<1>3. CASE Q!JudgeRead(c)
  <2>1. QState'
    BY <1>3 DEF Q!JudgeRead, Q!Go, QState, Q!QPlaces, WithPacket
  <2> QED BY <1>3, <2>1 DEF Q!JudgeRead, Control, Q!control
<1>4. CASE Q!Judge(c)
  BY <1>4, JudgeTypes
<1>5. CASE Q!PopSend(c)
  <2>1. PICK d \in Q!Receivers(c) :
          /\ qpc' = [qpc EXCEPT ![d] = "answered", ![c] = IF verdict[c] THEN "pop" ELSE "out"]
          /\ verdict' = [verdict EXCEPT ![d] = verdict[c], ![c] = FALSE]
    BY <1>5 DEF Q!PopSend
  <2>2. d \in Callers /\ qpc[d] \in WithPacket
    BY DEF Q!Receivers, WithPacket
  <2>3. /\ pkt' = [pkt EXCEPT ![c] = Q!NoPacket]
        /\ UNCHANGED <<now, packets, pool, fresh, count, dropping, faTime, dropNext, reading>>
    BY <1>5 DEF Q!PopSend, Q!control
  <2>4. QState'
    BY <2>1, <2>2, <2>3, Packets DEF QState, Q!QPlaces, WithPacket
  <2> QED BY <2>3, <2>4 DEF Control
<1> QED BY <1>1, <1>2, <1>3, <1>4, <1>5 DEF Q!PopStep

\* Where a caller is in Push or Pop, and where it is for Vegas.
Aligned ==
  \A c \in Callers :
    /\ qpc[c] \in {"enqueue", "wait", "answered", "admitted", "failed"} => stage[c] = "denied"
    /\ qpc[c] \in {"pop", "read", "judge", "send"} => stage[c] \in {"sampled", "idle"}

\* The type invariant in parts, with what makes it inductive.
TInv ==
  /\ IInv
  /\ limit \in MinLimit..MaxLimit /\ seen \in [Callers -> Nat]
  /\ calls \in Nat /\ overtakes \in Nat
  /\ QState /\ Control
  /\ Aligned

LEMMA InFlightNat == IInv => inFlight \in Nat
BY FiniteInFlight, FS_CardinalityType DEF IInv, InFlightExact

LEMMA InitTInv == Init => TInv
<1> SUFFICES ASSUME Init PROVE TInv
  OBVIOUS
<1>1. QState
  <2>1. pkt \in [Callers -> Packet] /\ packets \in Seq(Enqueued) /\ Len(packets) <= QueueCap
    BY Packets, LimiterAssumption DEF Init, Q!Init, Q!CoDelAssumption
  <2> QED BY <2>1 DEF Init, Q!Init, QState, Q!QPlaces, WithPacket
<1>4. Control
  BY DEF Init, Q!Init, Control
<1>2. limit \in MinLimit..MaxLimit /\ seen \in [Callers -> Nat]
  BY LimiterAssumption DEF Init, R!Init, R!RateAssumption
<1>3. Aligned
  BY DEF Init, Q!Init, Aligned
<1> QED BY <1>1, <1>2, <1>3, <1>4, InitIInv DEF TInv, Init

\* Push and Pop move one caller, or two, between places that stage allows.
LEMMA PushAligned ==
  ASSUME TInv, NEW c \in Callers, Push(c)
  PROVE  Aligned'
<1>1. stage' = stage /\ stage[c] = "denied"
  BY DEF Push, rate
<1>2. \A d \in Callers \ {c} : qpc'[d] = qpc[d]
  BY DEF Push, Q!PushGet, Q!PushStep, Q!PushDone, Q!PushEnqueue, Q!PushFull, Q!PushAnswered,
     Q!Fail, Q!Go, TInv, QState
<1>3. qpc'[c] \in {"enqueue", "wait", "answered", "admitted", "failed"}
  BY DEF Push, Q!PushGet, Q!PushStep, Q!PushDone, Q!PushEnqueue, Q!PushFull, Q!PushAnswered,
     Q!Fail, Q!Go, TInv, QState
<1> QED BY <1>1, <1>2, <1>3 DEF TInv, Aligned

LEMMA PopAligned ==
  ASSUME TInv, NEW c \in Callers, Pop(c)
  PROVE  Aligned'
<1>1. stage' = stage /\ stage[c] = "idle"
  BY DEF Pop, rate
<1>2. CASE Q!PopSend(c)
  <2>1. PICK d \in Q!Receivers(c) :
          qpc' = [qpc EXCEPT ![d] = "answered", ![c] = IF verdict[c] THEN "pop" ELSE "out"]
    BY <1>2 DEF Q!PopSend
  <2>2. d \in Callers /\ qpc[d] = "wait" /\ stage[d] = "denied"
    BY DEF Q!Receivers, TInv, Aligned
  <2> QED BY <1>1, <2>1, <2>2 DEF TInv, Aligned, QState
<1>3. CASE ~Q!PopSend(c)
  <2>1. \A d \in Callers \ {c} : qpc'[d] = qpc[d]
    BY <1>3 DEF Pop, Q!PopStep, Q!PopTake, Q!PopEmpty, Q!PopReturn, Q!JudgeRead, Q!Judge,
       Q!PopSkip, Q!PopAgain, Q!Go, TInv, QState
  <2>2. qpc'[c] \in {"pop", "read", "judge", "send", "out"}
    BY <1>3 DEF Pop, Q!PopStep, Q!PopTake, Q!PopEmpty, Q!PopReturn, Q!JudgeRead, Q!Judge,
       Q!PopSkip, Q!PopAgain, Q!Go, TInv, QState
  <2> QED BY <1>1, <2>1, <2>2 DEF TInv, Aligned
<1> QED BY <1>2, <1>3

LEMMA NextTInv ==
  ASSUME TInv, [Next]_vars
  PROVE  TInv'
<1> USE DEF TInv
<1>1. IInv'
  BY NextIInv
<1>2. CASE Tick
  <2>1. QState' /\ Control' /\ Aligned'
    BY <1>2 DEF Tick, QState, Control, Aligned, rate, queue
  <2> QED BY <1>1, <1>2, <2>1 DEF Tick, rate, queue
<1>3. ASSUME NEW c \in Callers, Acquire(c) PROVE TInv'
  <2>1. QState' /\ Control'
    BY <1>3 DEF Acquire, QState, Control, queue
  <2>2. Aligned'
    BY <1>3 DEF Acquire, R!Acquire, Aligned, IInv, StageOK
  <2>3. seen' \in [Callers -> Nat]
    BY <1>1, <1>3, InFlightNat DEF Acquire, R!Acquire
  <2>4. overtakes' \in Nat
    BY <1>3 DEF Acquire
  <2> QED BY <1>1, <1>3, <2>1, <2>2, <2>3, <2>4 DEF Acquire, R!Acquire, queue
<1>4. ASSUME NEW c \in Callers, Compare(c) PROVE TInv'
  <2>1. QState' /\ Control'
    BY <1>4 DEF Compare, QState, Control, queue
  <2>2. Aligned'
    BY <1>4 DEF Compare, R!Compare, Aligned, IInv, StageOK
  <2> QED BY <1>1, <1>4, <2>1, <2>2 DEF Compare, R!Compare, queue
<1>5. ASSUME NEW c \in Callers, Push(c) PROVE TInv'
  BY <1>1, <1>5, PushTypes, PushAligned DEF Push, rate
<1>6. ASSUME NEW c \in Callers, Refuse(c) PROVE TInv'
  <2>1. QState' /\ Control'
    BY <1>6 DEF Refuse, Q!Go, QState, Control, queue, Q!QPlaces, WithPacket
  <2>2. Aligned'
    BY <1>6 DEF Refuse, Q!Go, R!Done, Aligned, IInv, StageOK, QState
  <2> QED BY <1>1, <1>6, <2>1, <2>2 DEF Refuse, R!Done, queue
<1>7. ASSUME NEW c \in Callers, Done(c) PROVE TInv'
  <2>1. QState' /\ Control'
    BY <1>7 DEF Done, QState, Control, queue, Q!QPlaces, WithPacket
  <2>2. Aligned'
    BY <1>7 DEF Done, R!Done, Aligned, IInv, StageOK, QState
  <2> QED BY <1>1, <1>7, <2>1, <2>2 DEF Done, R!Done, queue
<1>8. ASSUME NEW c \in Callers, Sample(c) PROVE TInv'
  <2>1. QState' /\ Control'
    BY <1>8 DEF Sample, QState, Control, queue
  <2>2. Aligned'
    BY <1>8 DEF Sample, R!Adjust, Aligned, IInv, StageOK
  <2> QED BY <1>1, <1>8, <2>1, <2>2 DEF Sample, R!Adjust, queue
<1>9. ASSUME NEW c \in Callers, Pop(c) PROVE TInv'
  BY <1>1, <1>9, PopTypes, PopAligned DEF Pop, rate
<1>10. CASE UNCHANGED vars
  <2>1. QState' /\ Control' /\ Aligned'
    BY <1>10 DEF vars, QState, Control, Aligned, rate, queue
  <2> QED BY <1>1, <1>10, <2>1 DEF vars, rate, queue
<1> QED BY <1>2, <1>3, <1>4, <1>5, <1>6, <1>7, <1>8, <1>9, <1>10 DEF Next

LEMMA TypesOK == TInv => TypeOK
BY DEF TInv, IInv, StageOK, QState, Control, Aligned, TypeOK, R!RateTypeOK, Q!QTypeOK, Packet, Enqueued

LEMMA Types == Spec => []TInv
BY InitTInv, NextTInv, PTL DEF Spec

\* Every field keeps its type, and a caller is in Push only if it was denied.
THEOREM TypeCorrect == Spec => []TypeOK
BY Types, TypesOK, PTL
-----------------------------------------------------------------------------
(***************************************************************************)
(* The last caller that could serve the queue leaves it empty.             *)
(***************************************************************************)

\* A caller that does not step, and is not sent a verdict, goes on serving.
LEMMA OthersServe ==
  ASSUME NEW d \in Callers, Serving(d), stage'[d] = stage[d], qpc'[d] = qpc[d],
         verdict'[d] = verdict[d]
  PROVE  Serving(d)'
BY DEF Serving, Running, Finishing

LEMMA PushServes ==
  ASSUME TInv, NEW c \in Callers, Push(c), NEW d \in Callers, Serving(d)
  PROVE  Serving(d)'
<1> USE DEF TInv, QState, Push, Q!PushStep
<1>1. stage' = stage /\ stage[c] = "denied"
  BY DEF rate
<1>2. CASE d = c
  <2>1. qpc[c] = "answered" /\ ~verdict[c]
    BY <1>1, <1>2 DEF Serving, Running, Finishing, Q!PushGet, Q!PushEnqueue, Q!PushFull, Q!PushDone,
       Q!PushAnswered, Q!Fail, Q!Go
  <2>2. Q!PushAnswered(c)
    BY <2>1 DEF Q!PushGet, Q!PushEnqueue, Q!PushFull, Q!PushDone, Q!Fail, Q!Go
  <2>3. qpc'[c] = "admitted"
    BY <2>1, <2>2 DEF Q!PushAnswered, Q!Go
  <2> QED BY <1>2, <2>3 DEF Serving, Running
<1>3. CASE d # c
  <2>1. qpc'[d] = qpc[d] /\ verdict'[d] = verdict[d]
    BY <1>3 DEF Q!PushGet, Q!PushEnqueue, Q!PushFull, Q!PushDone, Q!PushAnswered, Q!Fail, Q!Go,
       Q!locals
  <2> QED BY <1>1, <2>1, OthersServe
<1> QED BY <1>2, <1>3

\* Pop passes the queue on: to its next turn, or to the caller it admits.
LEMMA PopServes ==
  ASSUME TInv, NEW c \in Callers, Pop(c), packets # <<>>, NEW d \in Callers, Serving(d)
  PROVE  \E e \in Callers : Serving(e)'
<1> USE DEF TInv, QState
<1>1. stage' = stage
  BY DEF Pop, rate
<1>2. CASE Q!PopSend(c)
  <2>1. PICK e \in Q!Receivers(c) :
          /\ qpc' = [qpc EXCEPT ![e] = "answered", ![c] = IF verdict[c] THEN "pop" ELSE "out"]
          /\ verdict' = [verdict EXCEPT ![e] = verdict[c], ![c] = FALSE]
    BY <1>2 DEF Q!PopSend
  <2>2. e \in Callers /\ e # c
    BY <1>2 DEF Q!Receivers, Q!PopSend
  <2>3. CASE verdict[c]
    BY <2>1, <2>2, <2>3 DEF Serving, Finishing
  <2>4. CASE ~verdict[c]
    <3>1. qpc'[e] = "answered" /\ ~verdict'[e]
      BY <2>1, <2>2, <2>4
    <3> QED BY <2>2, <3>1 DEF Serving
  <2> QED BY <2>3, <2>4
<1>3. CASE ~Q!PopSend(c)
  <2>1. qpc'[c] \in {"pop", "read", "judge", "send"}
    BY <1>3 DEF Pop, Q!PopStep, Q!PopTake, Q!PopEmpty, Q!JudgeRead, Q!Judge, Q!PopSkip, Q!PopAgain, Q!Go
  <2> QED BY <2>1 DEF Serving, Finishing
<1> QED BY <1>2, <1>3

LEMMA StepServes ==
  ASSUME TInv, [Next]_vars, packets # <<>>, NEW d \in Callers, Serving(d)
  PROVE  \E e \in Callers : Serving(e)'
<1> USE DEF TInv, QState, IInv, StageOK
<1>1. CASE Tick \/ UNCHANGED vars
  BY <1>1, OthersServe DEF Tick, vars, rate, queue
<1>2. ASSUME NEW c \in Callers, Acquire(c) \/ Compare(c) \/ Sample(c) PROVE Serving(d)'
  <2>1. qpc' = qpc /\ verdict' = verdict
    BY <1>2 DEF Acquire, Compare, Sample, queue
  <2>2. \E to \in {"acquire", "granted", "denied", "idle"} : stage' = [stage EXCEPT ![c] = to]
    BY <1>2 DEF Acquire, Compare, Sample, R!Acquire, R!Compare, R!Adjust
  <2>3. stage[c] # "granted"
    BY <1>2 DEF Acquire, Compare, Sample, R!Acquire, R!Compare, R!Adjust
  <2> QED BY <2>1, <2>2, <2>3 DEF Serving, Running, Finishing
<1>3. ASSUME NEW c \in Callers, Push(c) PROVE Serving(d)'
  BY <1>3, PushServes
<1>4. ASSUME NEW c \in Callers, Refuse(c) PROVE Serving(d)'
  <2>1. c # d
    BY <1>4 DEF Refuse, Q!Go, Serving, Running, Finishing
  <2> QED BY <1>4, <2>1, OthersServe DEF Refuse, Q!Go, R!Done, queue
<1>5. ASSUME NEW c \in Callers, Done(c) PROVE Serving(d)'
  <2>1. CASE c = d
    BY <1>5, <2>1 DEF Done, Serving, Finishing
  <2>2. CASE c # d
    BY <1>5, <2>2, OthersServe DEF Done, R!Done, queue
  <2> QED BY <2>1, <2>2
<1>6. ASSUME NEW c \in Callers, Pop(c) PROVE \E e \in Callers : Serving(e)'
  BY <1>6, PopServes
<1> QED BY <1>1, <1>2, <1>3, <1>4, <1>5, <1>6 DEF Next

(***************************************************************************)
(* Whatever packets were dropped or abandoned, and however the calls of    *)
(* Pop interleave, packets stay behind only with a caller that will pop    *)
(* again.                                                                  *)
(***************************************************************************)
THEOREM QueueServed == Spec => LastLeavesEmpty
<1>1. TInv /\ [Next]_vars
        => [(\E c \in Callers : Serving(c)) /\ ~(\E c \in Callers : Serving(c)') => packets = <<>>]_vars
  BY StepServes
<1> QED BY <1>1, Types, PTL DEF Spec, LastLeavesEmpty
-----------------------------------------------------------------------------
(***************************************************************************)
(* A channel is never in two places.  The inductive invariant says so for  *)
(* each pair of places, and that a channel is always in one of them.       *)
(***************************************************************************)
Holding == {"enqueue", "answered", "read", "judge", "send"}
Held(c) == qpc[c] \in Holding
ChanOf(c) == pkt[c].dropChan

Apart ==
  /\ pool \cap fresh = {}
  /\ \A c \in Callers : Held(c) => ChanOf(c) \notin pool \cup fresh
  /\ \A i \in DOMAIN packets : packets[i].dropChan \notin pool \cup fresh
  /\ \A c \in Callers, i \in DOMAIN packets : Held(c) => ChanOf(c) # packets[i].dropChan
HeldOnce == \A c, d \in Callers : Held(c) /\ Held(d) /\ ChanOf(c) = ChanOf(d) => c = d
QueuedOnce == \A i, j \in DOMAIN packets : packets[i].dropChan = packets[j].dropChan => i = j
Somewhere ==
  \A ch \in Chans :
    \/ ch \in pool \cup fresh
    \/ \E c \in Callers : Held(c) /\ ChanOf(c) = ch
    \/ \E i \in DOMAIN packets : packets[i].dropChan = ch
ChanInv == Apart /\ HeldOnce /\ QueuedOnce /\ Somewhere

LEMMA InitChanInv == Init => ChanInv
BY DEF Init, Q!Init, ChanInv, Apart, HeldOnce, QueuedOnce, Somewhere, Held, Holding

\* A step that moves no channel.
LEMMA ChanKeep ==
  ASSUME ChanInv, UNCHANGED <<pool, fresh, packets>>,
         \A c \in Callers : (Held(c)' <=> Held(c)) /\ (Held(c) => ChanOf(c)' = ChanOf(c))
  PROVE  ChanInv'
BY DEF ChanInv, Apart, HeldOnce, QueuedOnce, Somewhere

\* One caller takes a channel from the pool, or makes one.
LEMMA ChanGet ==
  ASSUME QState, ChanInv, NEW c \in Callers, Q!PushGet(c)
  PROVE  ChanInv'
<1>1. PICK ch \in pool \cup fresh :
        /\ pool' \cup fresh' = (pool \cup fresh) \ {ch} /\ pool' \cap fresh' = {}
        /\ pkt' = [pkt EXCEPT ![c] = [dropChan |-> ch, timestamp |-> now]]
  BY DEF Q!PushGet, ChanInv, Apart
<1>2. Held(c)' /\ ChanOf(c)' = ch /\ ~Held(c)
  BY <1>1 DEF QState, Q!PushGet, Q!Go, Held, Holding, ChanOf
<1>3. \A d \in Callers \ {c} : (Held(d)' <=> Held(d)) /\ ChanOf(d)' = ChanOf(d)
  BY <1>1 DEF QState, Q!PushGet, Q!Go, Held, ChanOf
<1>4. packets' = packets
  BY DEF Q!PushGet
<1>11. Apart'
  BY <1>1, <1>2, <1>3, <1>4 DEF ChanInv, Apart, HeldOnce, QueuedOnce
<1>12. HeldOnce'
  BY <1>1, <1>2, <1>3, <1>4 DEF ChanInv, Apart, HeldOnce
<1>13. QueuedOnce'
  BY <1>1, <1>2, <1>3, <1>4 DEF ChanInv, QueuedOnce, Apart
<1>14. Somewhere'
  BY <1>1, <1>2, <1>3, <1>4 DEF ChanInv, Somewhere
<1> QED BY <1>11, <1>12, <1>13, <1>14 DEF ChanInv

\* One caller puts its channel back.
LEMMA ChanPut ==
  ASSUME QState, ChanInv, NEW c \in Callers, Held(c), ~Held(c)',
         pool' = pool \cup {ChanOf(c)}, UNCHANGED <<fresh, packets>>,
         \A d \in Callers \ {c} : (Held(d)' <=> Held(d)) /\ ChanOf(d)' = ChanOf(d)
  PROVE  ChanInv'
BY DEF ChanInv, Apart, HeldOnce, QueuedOnce, Somewhere

LEMMA ChanEnqueue ==
  ASSUME QState, ChanInv, NEW c \in Callers, Q!PushEnqueue(c)
  PROVE  ChanInv'
<1>1. Held(c) /\ ~Held(c)' /\ UNCHANGED <<pool, fresh>>
  BY DEF QState, Q!PushEnqueue, Q!Go, Held, Holding
<1>2. \A d \in Callers \ {c} : (Held(d)' <=> Held(d)) /\ ChanOf(d)' = ChanOf(d)
  BY DEF QState, Q!PushEnqueue, Q!Go, Held, ChanOf, Q!locals
<1>3. DEFINE n == Len(packets) + 1
<1>4. /\ n \notin DOMAIN packets /\ DOMAIN packets' = DOMAIN packets \cup {n}
      /\ packets'[n].dropChan = ChanOf(c) /\ \A i \in DOMAIN packets : packets'[i] = packets[i]
  BY DEF QState, Q!PushEnqueue, ChanOf
<1> HIDE DEF n
<1>11. Apart'
  BY <1>1, <1>2, <1>4 DEF ChanInv, Apart, HeldOnce, QueuedOnce
<1>12. HeldOnce'
  BY <1>1, <1>2, <1>4 DEF ChanInv, Apart, HeldOnce
<1>13. QueuedOnce'
  BY <1>1, <1>2, <1>4 DEF ChanInv, QueuedOnce, Apart
<1>14. Somewhere'
  BY <1>1, <1>2, <1>4 DEF ChanInv, Somewhere
<1> QED BY <1>11, <1>12, <1>13, <1>14 DEF ChanInv

LEMMA ChanTake ==
  ASSUME QState, ChanInv, NEW c \in Callers, Q!PopTake(c)
  PROVE  ChanInv'
<1>1. ~Held(c) /\ Held(c)' /\ ChanOf(c)' = packets[1].dropChan /\ UNCHANGED <<pool, fresh>>
  BY DEF QState, Q!PopTake, Q!Go, Held, Holding, ChanOf
<1>2. \A d \in Callers \ {c} : (Held(d)' <=> Held(d)) /\ ChanOf(d)' = ChanOf(d)
  BY DEF QState, Q!PopTake, Q!Go, Held, ChanOf
<1>3. DEFINE n == Len(packets)
<1>4. /\ n \in Nat /\ n >= 1 /\ DOMAIN packets = 1..n /\ DOMAIN packets' = 1..(n - 1)
      /\ \A i \in DOMAIN packets' : packets'[i] = packets[i + 1]
  BY DEF QState, Q!PopTake
<1> HIDE DEF n
<1>5. \A i \in DOMAIN packets : i = 1 \/ \E k \in DOMAIN packets' : packets'[k] = packets[i]
  <2>1. ASSUME NEW i \in DOMAIN packets, i # 1
        PROVE  i - 1 \in DOMAIN packets' /\ packets'[i - 1] = packets[i]
    BY <1>4, <2>1
  <2> QED BY <2>1
<1>6. /\ 1 \in DOMAIN packets
      /\ \A i \in DOMAIN packets' : i + 1 \in DOMAIN packets /\ i + 1 # 1 /\ packets'[i] = packets[i + 1]
      /\ \A i, k \in DOMAIN packets' : i + 1 = k + 1 => i = k
  BY <1>4
<1>11. Apart'
  BY <1>1, <1>2, <1>5, <1>6 DEF ChanInv, Apart, HeldOnce, QueuedOnce
<1>12. HeldOnce'
  BY <1>1, <1>2, <1>5, <1>6 DEF ChanInv, Apart, HeldOnce
<1>13. QueuedOnce'
  BY <1>1, <1>2, <1>5, <1>6 DEF ChanInv, QueuedOnce, Apart
<1>14. Somewhere'
  BY <1>1, <1>2, <1>5, <1>6 DEF ChanInv, Somewhere
<1> QED BY <1>11, <1>12, <1>13, <1>14 DEF ChanInv

\* The caller that receives the verdict takes over the channel.
LEMMA ChanSend ==
  ASSUME QState, ChanInv, NEW c \in Callers, Q!PopSend(c)
  PROVE  ChanInv'
<1>1. PICK e \in Q!Receivers(c) :
        /\ qpc' = [qpc EXCEPT ![e] = "answered", ![c] = IF verdict[c] THEN "pop" ELSE "out"]
        /\ pkt' = [pkt EXCEPT ![c] = Q!NoPacket]
  BY DEF Q!PopSend
<1>2. e \in Callers /\ e # c /\ ~Held(e) /\ Held(c) /\ ChanOf(e) = ChanOf(c)
  BY DEF Q!Receivers, Q!PopSend, Held, Holding, ChanOf
<1>3. Held(e)' /\ ~Held(c)' /\ ChanOf(e)' = ChanOf(c)
  BY <1>1, <1>2 DEF QState, Held, Holding, ChanOf
<1>4. \A d \in Callers \ {c, e} : (Held(d)' <=> Held(d)) /\ ChanOf(d)' = ChanOf(d)
  BY <1>1 DEF QState, Held, ChanOf
<1>5. UNCHANGED <<pool, fresh, packets>>
  BY DEF Q!PopSend
<1>11. Apart'
  BY <1>2, <1>3, <1>4, <1>5 DEF ChanInv, Apart, HeldOnce, QueuedOnce
<1>12. HeldOnce'
  BY <1>2, <1>3, <1>4, <1>5 DEF ChanInv, Apart, HeldOnce
<1>13. QueuedOnce'
  BY <1>2, <1>3, <1>4, <1>5 DEF ChanInv, QueuedOnce, Apart
<1>14. Somewhere'
  BY <1>2, <1>3, <1>4, <1>5 DEF ChanInv, Somewhere
<1> QED BY <1>11, <1>12, <1>13, <1>14 DEF ChanInv

LEMMA NextChanInv ==
  ASSUME TInv, ChanInv, [Next]_vars
  PROVE  ChanInv'
<1> USE DEF TInv, QState, Held, Holding
<1>1. CASE Tick \/ UNCHANGED vars
  BY <1>1, ChanKeep DEF Tick, vars, rate, queue, ChanOf
<1>2. ASSUME NEW c \in Callers, Acquire(c) \/ Compare(c) \/ Sample(c) \/ Refuse(c) \/ Done(c)
      PROVE  ChanInv'
  <2>1. UNCHANGED <<pool, fresh, packets, pkt>>
    BY <1>2 DEF Acquire, Compare, Sample, Refuse, Done, queue
  <2>2. \A d \in Callers : Held(d)' <=> Held(d)
    BY <1>2 DEF Acquire, Compare, Sample, Refuse, Done, Q!Go, Running, Aligned, queue
  <2> QED BY <2>1, <2>2, ChanKeep DEF ChanOf
<1>3. ASSUME NEW c \in Callers, Push(c) PROVE ChanInv'
  <2>1. CASE Q!PushGet(c)
    BY <2>1, ChanGet
  <2>2. CASE Q!PushEnqueue(c)
    BY <2>2, ChanEnqueue
  <2>3. CASE Q!PushFull(c) \/ Q!PushAnswered(c)
    <3>1. Held(c) /\ ~Held(c)' /\ pool' = pool \cup {ChanOf(c)} /\ UNCHANGED <<fresh, packets>>
      <4>1. CASE Q!PushFull(c)
        BY <4>1 DEF Q!PushFull, Q!Fail, Q!Go, ChanOf
      <4>2. CASE Q!PushAnswered(c)
        BY <4>2 DEF Q!PushAnswered, Q!Fail, Q!Go, ChanOf
      <4> QED BY <2>3, <4>1, <4>2
    <3>2. \A d \in Callers \ {c} : (Held(d)' <=> Held(d)) /\ ChanOf(d)' = ChanOf(d)
      BY <2>3 DEF Q!PushFull, Q!PushAnswered, Q!Fail, Q!Go, ChanOf
    <3> QED BY <3>1, <3>2, ChanPut
  <2>4. CASE Q!PushDone(c)
    BY <2>4, ChanKeep DEF Q!PushDone, Q!Fail, Q!Go, ChanOf
  <2> QED BY <1>3, <2>1, <2>2, <2>3, <2>4 DEF Push, Q!PushStep
<1>4. ASSUME NEW c \in Callers, Pop(c) PROVE ChanInv'
  <2>1. CASE Q!PopTake(c)
    BY <2>1, ChanTake
  <2>2. CASE Q!PopEmpty(c) \/ Q!JudgeRead(c)
    BY <2>2, ChanKeep DEF Q!PopEmpty, Q!PopReturn, Q!JudgeRead, Q!Go, ChanOf
  <2>3. CASE Q!Judge(c)
    <3>1. /\ UNCHANGED <<pool, fresh, packets>> /\ pkt' = [pkt EXCEPT ![c].timestamp = 0]
          /\ qpc[c] = "judge" /\ qpc' = [qpc EXCEPT ![c] = "send"]
      BY <2>3 DEF Q!Judge, Q!Go
    <3>2. \A d \in Callers : ChanOf(d)' = ChanOf(d)
      BY <3>1 DEF ChanOf, Packet
    <3> QED BY <3>1, <3>2, ChanKeep
  <2>4. CASE Q!PopSend(c)
    BY <2>4, ChanSend
  <2>5. CASE Q!PopSkip(c)
    BY <2>5, ChanPut DEF Q!PopSkip, Q!PopAgain, Q!Go, ChanOf
  <2> QED BY <1>4, <2>1, <2>2, <2>3, <2>4, <2>5 DEF Pop, Q!PopStep
<1> QED BY <1>1, <1>2, <1>3, <1>4 DEF Next

LEMMA OnePlace == TInv /\ ChanInv => ChannelOnce
<1> SUFFICES ASSUME TInv, ChanInv, NEW ch \in Chans
             PROVE  Cardinality(Q!Holders(ch)) + Cardinality(Q!Queued(ch))
                      + (IF ch \in pool \cup fresh THEN 1 ELSE 0) = 1
  BY SameCardinality DEF ChannelOnce, Q!ChannelOnce
<1>1. \A c \in Callers : c \in Q!Holders(ch) <=> Held(c) /\ ChanOf(c) = ch
  BY DEF Q!Holders, Held, Holding, ChanOf
<1>2. \A i : i \in Q!Queued(ch) <=> i \in DOMAIN packets /\ packets[i].dropChan = ch
  BY DEF Q!Queued, TInv, QState
<1>3. Q!Holders(ch) \subseteq Callers
  BY DEF Q!Holders
<1>4. CASE ch \in pool \cup fresh
  <2>1. Q!Holders(ch) = {} /\ Q!Queued(ch) = {}
    BY <1>1, <1>2, <1>3, <1>4 DEF ChanInv, Apart, HeldOnce, QueuedOnce, Somewhere
  <2> QED BY <1>4, <2>1, FS_EmptySet
<1>5. ASSUME NEW c \in Callers, Held(c), ChanOf(c) = ch
      PROVE  Q!Holders(ch) = {c} /\ Q!Queued(ch) = {} /\ ch \notin pool \cup fresh
  BY <1>1, <1>2, <1>3, <1>5 DEF ChanInv, Apart, HeldOnce, QueuedOnce, Somewhere
<1>6. ASSUME NEW i \in DOMAIN packets, packets[i].dropChan = ch
      PROVE  Q!Holders(ch) = {} /\ Q!Queued(ch) = {i} /\ ch \notin pool \cup fresh
  BY <1>1, <1>2, <1>3, <1>6 DEF ChanInv, Apart, HeldOnce, QueuedOnce, Somewhere
<1>7. CASE \E c \in Callers : Held(c) /\ ChanOf(c) = ch
  <2>1. PICK c \in Callers : Held(c) /\ ChanOf(c) = ch
    BY <1>7
  <2>2. Q!Holders(ch) = {c} /\ Q!Queued(ch) = {} /\ ch \notin pool \cup fresh
    BY <1>5, <2>1
  <2>3. Cardinality({c}) = 1 /\ Cardinality({}) = 0
    BY FS_EmptySet, FS_Singleton
  <2> QED BY <2>2, <2>3
<1>8. CASE \E i \in DOMAIN packets : packets[i].dropChan = ch
  <2>1. PICK i \in DOMAIN packets : packets[i].dropChan = ch
    BY <1>8
  <2>2. Q!Holders(ch) = {} /\ Q!Queued(ch) = {i} /\ ch \notin pool \cup fresh
    BY <1>6, <2>1
  <2>3. Cardinality({i}) = 1 /\ Cardinality({}) = 0
    BY FS_EmptySet, FS_Singleton
  <2> QED BY <2>2, <2>3
<1> QED BY <1>4, <1>7, <1>8 DEF ChanInv, Somewhere

(***************************************************************************)
(* Two packets never share a channel, whatever became of the callers that  *)
(* waited on it, for every number of callers and size of the pool.         *)
(***************************************************************************)
THEOREM ChannelsConserved == Spec => []ChannelOnce
<1>1. TInv /\ ChanInv /\ [Next]_vars => ChanInv'
  BY NextChanInv
<1> QED BY <1>1, InitChanInv, OnePlace, Types, PTL DEF Spec
-----------------------------------------------------------------------------
(***************************************************************************)
(* The calls that run.  The invariant also counts the callers that are     *)
(* bound to run: the ones that Acquire counted within MaxLimit, and the    *)
(* ones that a Pop has admitted.                                           *)
(***************************************************************************)
Counted ==
  {c \in Callers :
     \/ stage[c] = "acquire" /\ seen[c] <= MaxLimit
     \/ Running(c)
     \/ qpc[c] = "answered" /\ ~verdict[c]
     \/ c \in Finishing}

CountInv == Cardinality(Counted) <= MaxLimit + overtakes

LEMMA CountedFinite == IsFiniteSet(Counted) /\ Cardinality(Counted) \in Nat
<1>1. IsFiniteSet(Counted)
  BY FiniteCallers, FS_Subset DEF Counted
<1> QED BY <1>1, FS_CardinalityType

LEMMA InitCountInv == Init => CountInv
<1> SUFFICES ASSUME Init PROVE CountInv
  OBVIOUS
<1>1. Counted = {}
  BY DEF Init, R!Init, Q!Init, Counted, Running, Finishing
<1> QED BY <1>1, FS_EmptySet, LimiterAssumption DEF CountInv, Init, R!RateAssumption

\* A step after which no more callers are counted.
LEMMA CountKeep ==
  ASSUME TInv, CountInv, overtakes' = overtakes, Counted' \subseteq Counted
  PROVE  CountInv'
<1>1. Cardinality(Counted') <= Cardinality(Counted) /\ Cardinality(Counted') \in Nat
  BY CountedFinite, FS_Subset, FS_CardinalityType
<1> QED BY <1>1, CountedFinite, LimiterAssumption DEF CountInv, TInv, R!RateAssumption

\* While nobody is finishing, a caller that comes within MaxLimit comes with
\* all that are counted; otherwise it is an overtake.
LEMMA AcquireCounted ==
  ASSUME TInv, CountInv, NEW c \in Callers, Acquire(c)
  PROVE  CountInv'
<1> USE DEF TInv, IInv, StageOK, QState
<1>1. /\ stage[c] = "idle" /\ stage' = [stage EXCEPT ![c] = "acquire"]
      /\ seen' = [seen EXCEPT ![c] = inFlight'] /\ qpc' = qpc /\ verdict' = verdict
      /\ qpc[c] = "out"
  BY DEF Acquire, R!Acquire, queue
<1>2. \A d \in Callers \ {c} : d \in Counted' <=> d \in Counted
  BY <1>1 DEF Counted, Running, Finishing
<1>3. c \notin Counted /\ (c \in Counted' <=> inFlight' <= MaxLimit)
  BY <1>1 DEF Counted, Running, Finishing
<1>4. Counted \subseteq Callers /\ Counted' \subseteq Callers
  BY DEF Counted
<1>8. inFlight' \in Nat /\ MaxLimit \in Nat
  BY LimiterAssumption, InFlightNat DEF Acquire, R!Acquire, R!RateAssumption
<1>5. CASE inFlight' > MaxLimit
  <2>1. overtakes' = overtakes
    BY <1>5, LimiterAssumption, InFlightNat DEF Acquire, R!Acquire, R!RateAssumption
  <2>2. c \notin Counted'
    BY <1>3, <1>5, LimiterAssumption, InFlightNat DEF Acquire, R!Acquire, R!RateAssumption
  <2> QED BY <1>2, <1>3, <1>4, <2>1, <2>2, CountKeep
<1>6. CASE inFlight' <= MaxLimit /\ Finishing # {}
  <2>1. Counted' = Counted \cup {c}
    BY <1>2, <1>3, <1>4, <1>6
  <2>2. Cardinality(Counted') = Cardinality(Counted) + 1
    BY <1>3, <2>1, CountedFinite, FS_AddElement
  <2>3. overtakes' = overtakes + 1
    BY <1>6 DEF Acquire
  <2> QED BY <2>2, <2>3, CountedFinite, LimiterAssumption DEF CountInv, R!RateAssumption
<1>7. CASE inFlight' <= MaxLimit /\ Finishing = {}
  <2>1. ASSUME NEW d \in Counted' PROVE d \in R!InFlight'
    <3>1. CASE d = c
      BY <1>1, <3>1 DEF R!InFlight
    <3>2. CASE d # c
      <4>1. d \in Counted /\ d \in Callers /\ qpc[d] \notin {"pop", "read", "judge", "send"}
        BY <1>2, <1>4, <1>7, <3>2 DEF Finishing
      <4>2. stage[d] \in {"acquire", "granted", "denied"}
        BY <1>7, <4>1 DEF Counted, Running, Aligned
      <4> QED BY <1>1, <3>2, <4>1, <4>2 DEF R!InFlight
    <3> QED BY <3>1, <3>2
  <2>2. IInv'
    BY AcquireCounts DEF Acquire
  <2>3. IsFiniteSet(R!InFlight') /\ inFlight' = Cardinality(R!InFlight')
    <3>1. IsFiniteSet(R!InFlight')
      BY FiniteCallers, FS_Subset DEF R!InFlight
    <3> QED BY <2>2, <3>1 DEF InFlightExact
  <2>4. Cardinality(Counted') <= inFlight' /\ Cardinality(Counted') \in Nat
    BY <2>1, <2>3, FS_Subset, FS_CardinalityType
  <2>5. overtakes' = overtakes
    BY <1>7 DEF Acquire
  <2> QED BY <1>7, <1>8, <2>4, <2>5 DEF CountInv
<1> QED BY <1>5, <1>6, <1>7, <1>8

\* A place is granted to a caller that was within limit, hence MaxLimit.
LEMMA CompareCounted ==
  ASSUME TInv, CountInv, NEW c \in Callers, Compare(c)
  PROVE  Counted' \subseteq Counted
<1> USE DEF TInv, IInv, StageOK, QState
<1>1. /\ stage[c] = "acquire" /\ qpc' = qpc /\ verdict' = verdict
      /\ stage' = [stage EXCEPT ![c] = IF seen[c] <= limit THEN "granted" ELSE "denied"]
      /\ seen' = [seen EXCEPT ![c] = 0]
  BY DEF Compare, R!Compare, queue
<1>2. \A d \in Callers \ {c} : d \in Counted' <=> d \in Counted
  BY <1>1 DEF Counted, Running, Finishing
<1>3. seen[c] <= limit => seen[c] <= MaxLimit
  BY LimiterAssumption DEF R!RateAssumption
<1>4. c \in Counted' => c \in Counted
  BY <1>1, <1>3 DEF Counted, Running, Finishing
<1> QED BY <1>2, <1>4 DEF Counted

LEMMA PushCounted ==
  ASSUME TInv, NEW c \in Callers, Push(c)
  PROVE  Counted' \subseteq Counted
<1> USE DEF TInv, IInv, StageOK, QState, Push, Q!PushStep
<1>1. stage' = stage /\ seen' = seen /\ stage[c] = "denied"
  BY DEF rate
<1>2. \A d \in Callers \ {c} : qpc'[d] = qpc[d] /\ verdict'[d] = verdict[d]
  BY DEF Q!PushGet, Q!PushEnqueue, Q!PushFull, Q!PushDone, Q!PushAnswered, Q!Fail, Q!Go, Q!locals
<1>3. \A d \in Callers \ {c} : d \in Counted' <=> d \in Counted
  BY <1>1, <1>2 DEF Counted, Running, Finishing
<1>4. \/ qpc'[c] \in {"enqueue", "wait", "failed"}
      \/ qpc'[c] = "admitted" /\ qpc[c] = "answered" /\ ~verdict[c]
  BY DEF Q!PushGet, Q!PushEnqueue, Q!PushFull, Q!PushDone, Q!PushAnswered, Q!Fail, Q!Go
<1>5. c \in Counted' => c \in Counted
  BY <1>1, <1>4 DEF Counted, Running, Finishing
<1> QED BY <1>3, <1>5 DEF Counted

\* Pop admits a caller in its own place.
LEMMA PopCounted ==
  ASSUME TInv, CountInv, NEW c \in Callers, Pop(c)
  PROVE  CountInv'
<1> USE DEF TInv, IInv, StageOK, QState
<1>1. stage' = stage /\ seen' = seen /\ overtakes' = overtakes /\ stage[c] = "idle"
  BY DEF Pop, rate
<1>2. CASE ~Q!PopSend(c)
  <2>1. \A d \in Callers \ {c} : qpc'[d] = qpc[d] /\ verdict'[d] = verdict[d]
    BY <1>2 DEF Pop, Q!PopStep, Q!PopTake, Q!PopEmpty, Q!PopReturn, Q!JudgeRead, Q!Judge,
       Q!PopSkip, Q!PopAgain, Q!Go
  <2>2. \A d \in Callers \ {c} : d \in Counted' <=> d \in Counted
    BY <1>1, <2>1 DEF Counted, Running, Finishing
  <2>3. qpc[c] \in {"pop", "read", "judge", "send"}
    BY <1>2 DEF Pop, Q!PopStep, Q!PopTake, Q!PopEmpty, Q!PopReturn, Q!JudgeRead, Q!Judge,
       Q!PopSkip, Q!PopAgain, Q!Go
  <2>4. c \in Counted
    BY <2>3 DEF Counted, Finishing
  <2>5. Counted' \subseteq Counted
    BY <2>2, <2>4 DEF Counted
  <2> QED BY <1>1, <2>5, CountKeep
<1>3. CASE Q!PopSend(c)
  <2>1. PICK e \in Q!Receivers(c) :
          /\ qpc' = [qpc EXCEPT ![e] = "answered", ![c] = IF verdict[c] THEN "pop" ELSE "out"]
          /\ verdict' = [verdict EXCEPT ![e] = verdict[c], ![c] = FALSE]
    BY <1>3 DEF Q!PopSend
  <2>2. e \in Callers /\ e # c /\ qpc[e] = "wait" /\ qpc[c] = "send" /\ c \in Counted
    BY <1>3 DEF Q!Receivers, Q!PopSend, Counted, Finishing
  <2>3. \A d \in Callers \ {c, e} : qpc'[d] = qpc[d] /\ verdict'[d] = verdict[d]
    BY <2>1
  <2>4. \A d \in Callers \ {c, e} : d \in Counted' <=> d \in Counted
    BY <1>1, <2>3 DEF Counted, Running, Finishing
  <2>5. stage[e] = "denied"
    BY <2>2 DEF Aligned
  <2>6. CASE verdict[c]
    <3>1. qpc'[e] = "answered" /\ verdict'[e]
      BY <2>1, <2>2, <2>6
    <3>2. e \notin Counted'
      BY <1>1, <2>5, <3>1 DEF Counted, Running, Finishing
    <3>3. Counted' \subseteq Counted
      BY <2>2, <2>4, <3>2 DEF Counted
    <3> QED BY <1>1, <3>3, CountKeep
  <2>7. CASE ~verdict[c]
    <3>1. qpc'[c] = "out"
      BY <2>1, <2>2, <2>7
    <3>2. c \notin Counted'
      BY <1>1, <3>1 DEF Counted, Running, Finishing
    <3>3. Counted' \subseteq (Counted \ {c}) \cup {e}
      BY <2>2, <2>4, <3>2 DEF Counted
    <3>4. IsFiniteSet(Counted \ {c}) /\ Cardinality(Counted \ {c}) = Cardinality(Counted) - 1
      BY <2>2, CountedFinite, FS_RemoveElement
    <3>5. IsFiniteSet((Counted \ {c}) \cup {e})
      BY <3>4, FS_AddElement
    <3>7. Cardinality((Counted \ {c}) \cup {e})
            = IF e \in Counted \ {c} THEN Cardinality(Counted \ {c}) ELSE Cardinality(Counted \ {c}) + 1
      BY <3>4, FS_AddElement
    <3>8. Cardinality((Counted \ {c}) \cup {e}) <= Cardinality(Counted)
      BY <3>4, <3>7, CountedFinite
    <3>6. Cardinality(Counted') <= Cardinality(Counted) /\ Cardinality(Counted') \in Nat
      BY <3>3, <3>5, <3>8, CountedFinite, FS_Subset, FS_CardinalityType
    <3> QED BY <1>1, <3>6, CountedFinite, LimiterAssumption DEF CountInv, R!RateAssumption
  <2> QED BY <2>6, <2>7
<1> QED BY <1>2, <1>3

LEMMA NextCountInv ==
  ASSUME TInv, CountInv, [Next]_vars
  PROVE  CountInv'
<1> USE DEF TInv, IInv, StageOK, QState
<1>1. CASE Tick \/ UNCHANGED vars
  <2>1. UNCHANGED <<stage, seen, qpc, verdict, overtakes>>
    BY <1>1 DEF Tick, vars, rate, queue
  <2>2. Counted' \subseteq Counted
    BY <2>1 DEF Counted, Running, Finishing
  <2> QED BY <2>1, <2>2, CountKeep
<1>2. ASSUME NEW c \in Callers, Acquire(c) PROVE CountInv'
  BY <1>2, AcquireCounted
<1>3. ASSUME NEW c \in Callers, Compare(c) PROVE CountInv'
  BY <1>3, CompareCounted, CountKeep DEF Compare
<1>4. ASSUME NEW c \in Callers, Push(c) PROVE CountInv'
  BY <1>4, PushCounted, CountKeep DEF Push
<1>5. ASSUME NEW c \in Callers, Refuse(c) \/ Done(c) \/ Sample(c) PROVE CountInv'
  <2>1. /\ UNCHANGED <<seen, verdict, overtakes>>
        /\ \E to \in {"idle", "sampled"} : stage' = [stage EXCEPT ![c] = to]
    BY <1>5 DEF Refuse, Done, Sample, R!Done, R!Adjust, queue
  <2>2. \/ qpc' = qpc /\ stage[c] = "sampled"
        \/ qpc[c] = "failed" /\ qpc' = [qpc EXCEPT ![c] = "out"]
        \/ Running(c) /\ qpc' = [qpc EXCEPT ![c] = "pop"]
    BY <1>5 DEF Refuse, Done, Sample, Q!Go, R!Adjust
  <2>3. \A d \in Callers \ {c} : d \in Counted' <=> d \in Counted
    BY <2>1, <2>2 DEF Counted, Running, Finishing
  <2>4. c \in Counted' => c \in Counted
    BY <2>1, <2>2 DEF Counted, Running, Finishing
  <2>5. Counted' \subseteq Counted
    BY <2>3, <2>4 DEF Counted
  <2> QED BY <2>1, <2>5, CountKeep
<1>6. ASSUME NEW c \in Callers, Pop(c) PROVE CountInv'
  BY <1>6, PopCounted
<1> QED BY <1>1, <1>2, <1>3, <1>4, <1>5, <1>6 DEF Next

LEMMA CountedRun == TInv /\ CountInv => RunningBound
<1> SUFFICES ASSUME TInv, CountInv PROVE RunningBound
  OBVIOUS
<1> DEFINE Run == {c \in Callers : Running(c)}
<1>1. Run \cup Finishing \subseteq Counted /\ Run \cap Finishing = {}
  BY DEF Counted, Running, Finishing
<1>2. IsFiniteSet(Run) /\ IsFiniteSet(Finishing)
  BY FiniteCallers, FS_Subset DEF Finishing
<1> HIDE DEF Run
<1>3. Cardinality(Run \cup Finishing) = Cardinality(Run) + Cardinality(Finishing) - Cardinality({})
  BY <1>1, <1>2, FS_Union
<1>4. Cardinality(Run \cup Finishing) <= Cardinality(Counted)
  BY <1>1, CountedFinite, FS_Subset
<1>5. Cardinality(Run) \in Nat /\ Cardinality(Finishing) \in Nat
  BY <1>2, FS_CardinalityType
<1>6. Cardinality(Run) + Cardinality(Finishing) <= MaxLimit + overtakes
  BY <1>3, <1>4, <1>5, FS_EmptySet, CountedFinite, LimiterAssumption
     DEF CountInv, TInv, R!RateAssumption
<1> QED BY <1>6, TypesOK DEF RunningBound, Run

(***************************************************************************)
(* The calls that run are within MaxLimit but for the overtakes, for every *)
(* number of callers and every limit that Vegas may compute.               *)
(***************************************************************************)
THEOREM RunningBounded == Spec => []RunningBound
<1>1. TInv /\ CountInv /\ [Next]_vars => CountInv'
  BY NextCountInv
<1> QED BY <1>1, InitCountInv, CountedRun, Types, PTL DEF Spec
-----------------------------------------------------------------------------
(***************************************************************************)
(* The verdicts.  A channel that is put back while its caller still waits  *)
(* on it is handed to a caller that comes later.  So a caller that waits   *)
(* on the channel of a packet is no younger than the packet, and if judge  *)
(* found that the packet waited for Target, the caller did.                *)
(***************************************************************************)
Stamp(c) == pkt[c].timestamp
Waits(c) == qpc[c] = "wait"
Carries(c) == qpc[c] \in {"enqueue", "read", "judge"}
Condemned(c) == qpc[c] = "send" /\ verdict[c]
Refused(c) == qpc[c] = "answered" /\ verdict[c]

CarriedOlder ==
  \A d, c \in Callers : Waits(d) /\ Carries(c) /\ ChanOf(d) = ChanOf(c) => Stamp(d) <= Stamp(c)
QueuedOlder ==
  \A d \in Callers, i \in DOMAIN packets :
    Waits(d) /\ ChanOf(d) = packets[i].dropChan => Stamp(d) <= packets[i].timestamp
CondemnedWaited ==
  \A d, c \in Callers :
    Waits(d) /\ Condemned(c) /\ ChanOf(d) = ChanOf(c) => now - Stamp(d) >= Target
RefusedWaited == \A c \in Callers : Refused(c) => now - Stamp(c) >= Target
NotAhead ==
  /\ \A c \in Callers : Stamp(c) <= now /\ reading[c] <= now
  /\ \A i \in DOMAIN packets : packets[i].timestamp <= now
Above == dropping => count >= 1 /\ 0 < faTime /\ faTime <= now

WaitedInv == CarriedOlder /\ QueuedOlder /\ CondemnedWaited /\ RefusedWaited /\ NotAhead

LEMMA StampNat ==
  QState => /\ \A c \in Callers : Stamp(c) \in Nat
            /\ \A i \in DOMAIN packets : packets[i].timestamp \in Nat
BY Packets DEF QState, Stamp

LEMMA InitWaited == Init => WaitedInv /\ Above
BY DEF Init, Q!Init, Q!NoPacket, WaitedInv, Above, CarriedOlder, QueuedOlder, CondemnedWaited,
   RefusedWaited, NotAhead, Stamp, Waits, Carries, Condemned, Refused

\* Callers may leave, and time may pass.
LEMMA WaitedKeep ==
  ASSUME QState, QState', WaitedInv, now <= now', packets' = packets,
         \A c \in Callers :
           /\ Waits(c)' \/ Carries(c)' \/ Condemned(c)' \/ Refused(c)' =>
                ChanOf(c)' = ChanOf(c) /\ Stamp(c)' = Stamp(c)
           /\ (Waits(c)' => Waits(c)) /\ (Carries(c)' => Carries(c))
           /\ (Condemned(c)' => Condemned(c)) /\ (Refused(c)' => Refused(c))
           /\ Stamp(c)' <= now' /\ reading'[c] <= now'
  PROVE  WaitedInv'
<1>1. \A c \in Callers : Stamp(c) \in Nat
  BY StampNat
<1>2. now \in Nat /\ now' \in Nat /\ Target \in Nat
  BY LimiterAssumption DEF QState, Q!CoDelAssumption
<1>3. CarriedOlder'
  BY DEF WaitedInv, CarriedOlder
<1>4. QueuedOlder'
  BY DEF WaitedInv, QueuedOlder
<1>5. CondemnedWaited'
  <2> SUFFICES ASSUME NEW d \in Callers, NEW c \in Callers,
                      Waits(d)', Condemned(c)', ChanOf(d)' = ChanOf(c)'
               PROVE  now' - Stamp(d)' >= Target
    BY DEF CondemnedWaited
  <2>1. now - Stamp(d) >= Target /\ Stamp(d)' = Stamp(d)
    BY DEF WaitedInv, CondemnedWaited
  <2> QED BY <1>1, <1>2, <2>1
<1>6. RefusedWaited'
  <2> SUFFICES ASSUME NEW c \in Callers, Refused(c)'
               PROVE  now' - Stamp(c)' >= Target
    BY DEF RefusedWaited
  <2>1. now - Stamp(c) >= Target /\ Stamp(c)' = Stamp(c)
    BY DEF WaitedInv, RefusedWaited
  <2> QED BY <1>1, <1>2, <2>1
<1>7. NotAhead'
  BY <1>2, StampNat DEF WaitedInv, NotAhead
<1> QED BY <1>3, <1>4, <1>5, <1>6, <1>7 DEF WaitedInv

\* The caller that takes a channel is younger than all that wait on it.
LEMMA GetWaited ==
  ASSUME QState, WaitedInv, NEW c \in Callers, Q!PushGet(c)
  PROVE  WaitedInv'
<1>1. PICK ch \in Chans : pkt' = [pkt EXCEPT ![c] = [dropChan |-> ch, timestamp |-> now]]
  BY DEF Q!PushGet, QState
<1>2. /\ qpc' = [qpc EXCEPT ![c] = "enqueue"]
      /\ UNCHANGED <<now, packets, reading, verdict>>
  BY DEF Q!PushGet, Q!Go
<1>3. \A d \in Callers \ {c} :
        /\ ChanOf(d)' = ChanOf(d) /\ Stamp(d)' = Stamp(d) /\ (Waits(d)' <=> Waits(d))
        /\ (Carries(d)' <=> Carries(d)) /\ (Condemned(d)' <=> Condemned(d))
        /\ (Refused(d)' <=> Refused(d))
  BY <1>1, <1>2 DEF QState, ChanOf, Stamp, Waits, Carries, Condemned, Refused
<1>4. Stamp(c)' = now /\ ~Waits(c)' /\ ~Condemned(c)' /\ ~Refused(c)'
  BY <1>1, <1>2 DEF QState, Stamp, Waits, Carries, Condemned, Refused
<1>6. CarriedOlder'
  BY <1>2, <1>3, <1>4 DEF WaitedInv, CarriedOlder, NotAhead
<1>7. QueuedOlder'
  BY <1>2, <1>3, <1>4 DEF WaitedInv, QueuedOlder
<1>8. CondemnedWaited'
  BY <1>2, <1>3, <1>4 DEF WaitedInv, CondemnedWaited
<1>9. RefusedWaited'
  BY <1>2, <1>3, <1>4 DEF WaitedInv, RefusedWaited
<1>10. NotAhead'
  <2>1. now <= now
    BY DEF QState
  <2> QED BY <1>2, <1>3, <1>4, <2>1 DEF WaitedInv, NotAhead
<1> QED BY <1>6, <1>7, <1>8, <1>9, <1>10 DEF WaitedInv

\* A caller that comes to wait has the only packet with its channel.
LEMMA EnqueueWaited ==
  ASSUME QState, ChanInv, WaitedInv, NEW c \in Callers, Q!PushEnqueue(c)
  PROVE  WaitedInv'
<1>1. /\ qpc[c] = "enqueue" /\ qpc' = [qpc EXCEPT ![c] = "wait"]
      /\ UNCHANGED <<now, pkt, reading, verdict>>
  BY DEF Q!PushEnqueue, Q!Go, Q!locals
<1>2. \A d \in Callers : ChanOf(d)' = ChanOf(d) /\ Stamp(d)' = Stamp(d)
  BY <1>1 DEF ChanOf, Stamp
<1>3. \A d \in Callers :
        /\ Waits(d)' <=> Waits(d) \/ d = c
        /\ Carries(d)' <=> Carries(d) /\ d # c
        /\ (Condemned(d)' <=> Condemned(d)) /\ (Refused(d)' <=> Refused(d))
  BY <1>1 DEF QState, Waits, Carries, Condemned, Refused
<1>4. DEFINE n == Len(packets) + 1
<1>5. /\ DOMAIN packets' = DOMAIN packets \cup {n} /\ n \notin DOMAIN packets
      /\ packets'[n].dropChan = ChanOf(c) /\ packets'[n].timestamp = Stamp(c)
      /\ \A i \in DOMAIN packets : packets'[i] = packets[i]
  BY DEF QState, Q!PushEnqueue, ChanOf, Stamp
<1> HIDE DEF n
<1>6. Carries(c) /\ Stamp(c) <= Stamp(c)
  BY <1>1, StampNat DEF Carries
<1>7. \A d \in Callers : Carries(d) \/ Condemned(d) => Held(d)
  BY DEF Carries, Condemned, Held, Holding
<1>8. CarriedOlder'
  BY <1>2, <1>3, <1>6, <1>7 DEF WaitedInv, CarriedOlder, ChanInv, HeldOnce
<1>9. QueuedOlder'
  BY <1>2, <1>3, <1>5, <1>6, <1>7 DEF WaitedInv, QueuedOlder, CarriedOlder, ChanInv, Apart
<1>10. CondemnedWaited'
  <2>1. ~Condemned(c)
    BY <1>1 DEF Condemned
  <2> QED BY <1>1, <1>2, <1>3, <1>6, <1>7, <2>1 DEF WaitedInv, CondemnedWaited, ChanInv, HeldOnce
<1>11. RefusedWaited' /\ NotAhead'
  BY <1>1, <1>2, <1>3, <1>5 DEF WaitedInv, RefusedWaited, NotAhead
<1> QED BY <1>8, <1>9, <1>10, <1>11 DEF WaitedInv

\* A popped packet takes its age along.
LEMMA TakeWaited ==
  ASSUME QState, WaitedInv, NEW c \in Callers, Q!PopTake(c)
  PROVE  WaitedInv'
<1>1. /\ qpc[c] = "pop" /\ qpc' = [qpc EXCEPT ![c] = "read"]
      /\ pkt' = [pkt EXCEPT ![c] = packets[1]] /\ UNCHANGED <<now, reading, verdict>>
  BY DEF QState, Q!PopTake, Q!Go
<1>2. \A d \in Callers \ {c} :
        /\ ChanOf(d)' = ChanOf(d) /\ Stamp(d)' = Stamp(d) /\ (Waits(d)' <=> Waits(d))
        /\ (Carries(d)' <=> Carries(d)) /\ (Condemned(d)' <=> Condemned(d))
        /\ (Refused(d)' <=> Refused(d))
  BY <1>1 DEF QState, ChanOf, Stamp, Waits, Carries, Condemned, Refused
<1>3. /\ ChanOf(c)' = packets[1].dropChan /\ Stamp(c)' = packets[1].timestamp
      /\ ~Waits(c)' /\ ~Condemned(c)' /\ ~Refused(c)'
  BY <1>1 DEF QState, ChanOf, Stamp, Waits, Condemned, Refused
<1>4. /\ 1 \in DOMAIN packets
      /\ \A i \in DOMAIN packets' : i + 1 \in DOMAIN packets /\ packets'[i] = packets[i + 1]
  BY DEF QState, Q!PopTake
<1>5. CarriedOlder'
  BY <1>2, <1>3, <1>4 DEF WaitedInv, CarriedOlder, QueuedOlder
<1>6. QueuedOlder'
  BY <1>2, <1>3, <1>4 DEF WaitedInv, QueuedOlder
<1>7. CondemnedWaited' /\ RefusedWaited'
  BY <1>1, <1>2, <1>3 DEF WaitedInv, CondemnedWaited, RefusedWaited
<1>8. NotAhead'
  BY <1>1, <1>2, <1>3, <1>4 DEF WaitedInv, NotAhead
<1> QED BY <1>5, <1>6, <1>7, <1>8 DEF WaitedInv

\* judge: the clock was read before, and the packet is no older than the callers.
LEMMA JudgeWaited ==
  ASSUME QState, WaitedInv, NEW c \in Callers, Q!Judge(c)
  PROVE  WaitedInv'
<1> DEFINE drop == Q!Above(reading[c], reading[c] - Stamp(c))
<1>1. verdict' = [verdict EXCEPT ![c] = drop]
  BY DEF Q!Judge, Stamp
<1>2. drop => reading[c] - Stamp(c) >= Target
  BY DEF Q!Above
<1> HIDE DEF drop
<1>3. /\ qpc[c] = "judge" /\ qpc' = [qpc EXCEPT ![c] = "send"]
      /\ pkt' = [pkt EXCEPT ![c].timestamp = 0] /\ reading' = [reading EXCEPT ![c] = 0]
      /\ UNCHANGED <<now, packets>>
  BY DEF Q!Judge, Q!Go
<1>4. \A d \in Callers \ {c} :
        /\ ChanOf(d)' = ChanOf(d) /\ Stamp(d)' = Stamp(d) /\ (Waits(d)' <=> Waits(d))
        /\ (Carries(d)' <=> Carries(d)) /\ (Condemned(d)' <=> Condemned(d))
        /\ (Refused(d)' <=> Refused(d)) /\ reading'[d] = reading[d]
  BY <1>1, <1>3 DEF QState, ChanOf, Stamp, Waits, Carries, Condemned, Refused
<1>5. /\ ~Waits(c)' /\ Carries(c) /\ ~Carries(c)' /\ ~Refused(c)' /\ reading'[c] = 0
      /\ (Condemned(c)' => drop)
  BY <1>1, <1>3 DEF QState, Waits, Carries, Refused, Condemned
<1>6. ChanOf(c)' = ChanOf(c) /\ Stamp(c)' = 0
  BY <1>3 DEF QState, ChanOf, Stamp, Packet
<1>7. CarriedOlder' /\ QueuedOlder'
  BY <1>3, <1>4, <1>5 DEF WaitedInv, CarriedOlder, QueuedOlder
<1>8. CondemnedWaited'
  <2>1. ASSUME NEW d \in Callers, Waits(d), ChanOf(d) = ChanOf(c), drop
        PROVE  now - Stamp(d) >= Target
    <3>1. Stamp(d) <= Stamp(c) /\ reading[c] <= now
      BY <1>5, <2>1 DEF WaitedInv, CarriedOlder, NotAhead
    <3>2. Stamp(d) \in Nat /\ Stamp(c) \in Nat /\ reading[c] \in Nat /\ now \in Nat /\ Target \in Nat
      BY StampNat, LimiterAssumption DEF QState, Q!CoDelAssumption
    <3> QED BY <1>2, <2>1, <3>1, <3>2
  <2> QED BY <1>3, <1>4, <1>5, <1>6, <2>1 DEF WaitedInv, CondemnedWaited
<1>9. RefusedWaited'
  BY <1>3, <1>4, <1>5 DEF WaitedInv, RefusedWaited
<1>10. NotAhead'
  <2>1. 0 <= now
    BY DEF QState
  <2> QED BY <1>3, <1>4, <1>5, <1>6, <2>1 DEF WaitedInv, NotAhead
<1> QED BY <1>7, <1>8, <1>9, <1>10 DEF WaitedInv

\* The verdict is sent to a caller that waits on the channel of the packet.
LEMMA SendWaited ==
  ASSUME QState, WaitedInv, NEW c \in Callers, Q!PopSend(c)
  PROVE  WaitedInv'
<1>1. PICK e \in Q!Receivers(c) :
        /\ qpc' = [qpc EXCEPT ![e] = "answered", ![c] = IF verdict[c] THEN "pop" ELSE "out"]
        /\ verdict' = [verdict EXCEPT ![e] = verdict[c], ![c] = FALSE]
        /\ pkt' = [pkt EXCEPT ![c] = Q!NoPacket]
        /\ UNCHANGED <<now, packets, reading>>
  BY DEF Q!PopSend
<1>2. e \in Callers /\ e # c /\ Waits(e) /\ ChanOf(e) = ChanOf(c) /\ qpc[c] = "send"
  BY DEF Q!Receivers, Q!PopSend, Waits, ChanOf
<1>3. \A d \in Callers \ {c, e} :
        /\ ChanOf(d)' = ChanOf(d) /\ Stamp(d)' = Stamp(d) /\ (Waits(d)' <=> Waits(d))
        /\ (Carries(d)' <=> Carries(d)) /\ (Condemned(d)' <=> Condemned(d))
        /\ (Refused(d)' <=> Refused(d))
  BY <1>1 DEF QState, ChanOf, Stamp, Waits, Carries, Condemned, Refused
<1>4. /\ Stamp(c)' = 0 /\ Stamp(e)' = Stamp(e)
      /\ ~Waits(c)' /\ ~Carries(c)' /\ ~Condemned(c)' /\ ~Refused(c)'
      /\ ~Waits(e)' /\ ~Carries(e)' /\ ~Condemned(e)'
  BY <1>1, <1>2 DEF QState, Q!NoPacket, Stamp, Waits, Carries, Condemned, Refused
<1>5. Refused(e)' => Condemned(c)
  BY <1>1, <1>2 DEF QState, Condemned, Refused
<1>6. CarriedOlder' /\ QueuedOlder'
  BY <1>1, <1>3, <1>4 DEF WaitedInv, CarriedOlder, QueuedOlder
<1>7. CondemnedWaited'
  BY <1>1, <1>3, <1>4 DEF WaitedInv, CondemnedWaited
<1>8. RefusedWaited'
  BY <1>1, <1>2, <1>3, <1>4, <1>5 DEF WaitedInv, RefusedWaited, CondemnedWaited
<1>9. NotAhead'
  <2>1. 0 <= now
    BY DEF QState
  <2> QED BY <1>1, <1>3, <1>4, <2>1 DEF WaitedInv, NotAhead
<1> QED BY <1>6, <1>7, <1>8, <1>9 DEF WaitedInv

\* What judge does to the dropping state.
LEMMA JudgeAbove ==
  ASSUME QState, Control, NotAhead, Above, NEW c \in Callers, Q!Judge(c)
  PROVE  Above'
<1> DEFINE t == reading[c]
           drop == Q!Above(t, t - pkt[c].timestamp)
<1>1. t \in Nat /\ t <= now /\ now' = now /\ now \in Nat
  BY DEF QState, NotAhead, Q!Judge
<1>2. drop => faTime' = faTime /\ 0 < faTime /\ faTime <= now
  <2> HAVE drop
  <2>1. t - pkt[c].timestamp >= Target /\ faTime # 0 /\ t >= faTime
    BY DEF Q!Above
  <2>2. t - pkt[c].timestamp \in Int /\ Target \in Nat
    BY Packets, LimiterAssumption DEF QState, Q!CoDelAssumption
  <2>3. faTime' = faTime
    BY <2>1, <2>2 DEF Q!Judge, Q!checkFaTime
  <2> QED BY <1>1, <2>1, <2>3 DEF Control
<1>3. \/ dropping' = FALSE
      \/ drop /\ dropping /\ count' = count + 1
      \/ drop /\ count' = IF t - dropNext < Internal /\ count > 2 THEN count - 2 ELSE 1
      \/ count' = count /\ dropping' = dropping /\ (dropping => drop)
  BY DEF Q!Judge, Q!LeaveDropping, Q!NextDrop, Q!EnterDropping
<1> HIDE DEF t, drop
<1>4. ASSUME dropping' PROVE drop /\ count' >= 1
  <2>1. drop
    BY <1>3, <1>4
  <2>2. \/ count' = count + 1
        \/ count' = IF t - dropNext < Internal /\ count > 2 THEN count - 2 ELSE 1
        \/ count' = count /\ count >= 1
    BY <1>3, <1>4 DEF Above
  <2> QED BY <2>1, <2>2 DEF Control
<1> QED BY <1>1, <1>2, <1>4 DEF Above

LEMMA NextWaited ==
  ASSUME TInv, TInv', ChanInv, WaitedInv, Above, [Next]_vars
  PROVE  WaitedInv' /\ Above'
<1> USE DEF TInv
<1>1. now \in Nat /\ now' \in Nat /\ \A c \in Callers : Stamp(c) <= now /\ reading[c] <= now
  BY DEF QState, WaitedInv, NotAhead
<1>2. \A c \in Callers : Stamp(c) \in Nat /\ reading[c] \in Nat
  BY StampNat DEF QState
<1>3. ASSUME UNCHANGED <<count, dropping, faTime>>, now <= now' PROVE Above'
  BY <1>1, <1>3 DEF Above, Control
<1>4. CASE Tick \/ UNCHANGED vars
  <2>1. now <= now' /\ UNCHANGED <<packets, pkt, qpc, verdict, reading, count, dropping, faTime>>
    BY <1>1, <1>4 DEF Tick, vars, queue
  <2>2. \A c \in Callers : Stamp(c) <= now' /\ reading[c] <= now'
    BY <1>1, <1>2, <2>1
  <2>3. WaitedInv'
    BY <2>1, <2>2, WaitedKeep DEF ChanOf, Stamp, Waits, Carries, Condemned, Refused
  <2> QED BY <1>3, <2>1, <2>3
<1>5. ASSUME NEW c \in Callers, Acquire(c) \/ Compare(c) \/ Sample(c) \/ Refuse(c) \/ Done(c)
      PROVE  WaitedInv' /\ Above'
  <2>1. /\ UNCHANGED <<now, packets, pkt, verdict, reading, count, dropping, faTime>>
        /\ qpc' = qpc \/ \E to \in {"out", "pop"} : qpc' = [qpc EXCEPT ![c] = to]
    BY <1>5 DEF Acquire, Compare, Sample, Refuse, Done, queue, Q!Go
  <2>2. \A d \in Callers : qpc'[d] = qpc[d] \/ qpc'[d] \in {"out", "pop"}
    BY <2>1 DEF QState
  <2>3. WaitedInv'
    BY <1>1, <2>1, <2>2, WaitedKeep DEF ChanOf, Stamp, Waits, Carries, Condemned, Refused
  <2> QED BY <1>1, <1>3, <2>1, <2>3
<1>6. ASSUME NEW c \in Callers, Q!PushFull(c) \/ Q!PushDone(c) \/ Q!PushAnswered(c)
                                  \/ Q!PopEmpty(c) \/ Q!PopSkip(c)
      PROVE  WaitedInv'
  <2>1. /\ UNCHANGED <<now, packets, reading>> /\ pkt' = [pkt EXCEPT ![c] = Q!NoPacket]
        /\ \E to \in {"failed", "admitted", "out", "pop"} : qpc' = [qpc EXCEPT ![c] = to]
        /\ verdict' = verdict \/ verdict' = [verdict EXCEPT ![c] = FALSE]
    BY <1>6 DEF Q!PushFull, Q!PushDone, Q!PushAnswered, Q!Fail, Q!PopEmpty, Q!PopReturn, Q!PopSkip,
       Q!PopAgain, Q!Go
  <2>2. /\ qpc'[c] \in {"failed", "admitted", "out", "pop"} /\ pkt'[c].timestamp = 0
        /\ \A d \in Callers \ {c} : qpc'[d] = qpc[d] /\ pkt'[d] = pkt[d] /\ verdict'[d] = verdict[d]
    BY <2>1 DEF QState, Q!NoPacket
  <2>3. 0 <= now
    BY <1>1
  <2> QED BY <1>1, <2>1, <2>2, <2>3, WaitedKeep DEF ChanOf, Stamp, Waits, Carries, Condemned, Refused
<1>7. ASSUME NEW c \in Callers, Q!JudgeRead(c) PROVE WaitedInv'
  <2>1. /\ UNCHANGED <<now, packets, pkt, verdict>> /\ reading' = [reading EXCEPT ![c] = now]
        /\ qpc[c] = "read" /\ qpc' = [qpc EXCEPT ![c] = "judge"]
    BY <1>7 DEF Q!JudgeRead, Q!Go
  <2>2. now <= now /\ \A d \in Callers : reading'[d] <= now
    BY <1>1, <2>1 DEF QState
  <2> QED BY <1>1, <2>1, <2>2, WaitedKeep DEF QState, ChanOf, Stamp, Waits, Carries, Condemned, Refused
<1>8. ASSUME NEW c \in Callers, Push(c) PROVE WaitedInv' /\ Above'
  <2>1. UNCHANGED <<now, count, dropping, faTime>>
    BY <1>8 DEF Push, Q!PushStep, Q!PushGet, Q!PushEnqueue, Q!PushFull, Q!PushDone, Q!PushAnswered,
       Q!control
  <2> QED BY <1>1, <1>3, <1>6, <1>8, <2>1, GetWaited, EnqueueWaited DEF Push, Q!PushStep
<1>9. ASSUME NEW c \in Callers, Pop(c) PROVE WaitedInv' /\ Above'
  <2>1. CASE Q!Judge(c)
    BY <2>1, JudgeWaited, JudgeAbove DEF WaitedInv
  <2>2. CASE ~Q!Judge(c)
    <3>1. UNCHANGED <<now, count, dropping, faTime>>
      BY <1>9, <2>2 DEF Pop, Q!PopStep, Q!PopTake, Q!PopEmpty, Q!JudgeRead, Q!PopSend, Q!PopSkip,
         Q!control
    <3> QED BY <1>1, <1>3, <1>6, <1>7, <1>9, <2>2, <3>1, TakeWaited, SendWaited DEF Pop, Q!PopStep
  <2> QED BY <2>1, <2>2
<1> QED BY <1>4, <1>5, <1>8, <1>9 DEF Next

LEMMA JudgedSoundly == WaitedInv /\ Above => JudgeSound
BY DEF WaitedInv, RefusedWaited, Refused, Stamp, Above, JudgeSound, Q!JudgeSound

(***************************************************************************)
(* However the callers of judge interleave, and though channels are handed *)
(* on while callers still wait on them, nobody is refused that has not     *)
(* waited for Target; and the dropping state has a cause.                  *)
(***************************************************************************)
THEOREM VerdictsSound == Spec => []JudgeSound
<1>1. /\ Init => ChanInv /\ WaitedInv /\ Above
      /\ TInv /\ TInv' /\ (ChanInv /\ WaitedInv /\ Above) /\ [Next]_vars
           => (ChanInv /\ WaitedInv /\ Above)'
      /\ ChanInv /\ WaitedInv /\ Above => JudgeSound
  BY InitChanInv, InitWaited, NextChanInv, NextWaited, JudgedSoundly
<1> QED BY <1>1, Types, PTL DEF Spec
=============================================================================
