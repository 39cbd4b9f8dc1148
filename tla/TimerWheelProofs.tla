------------------------- MODULE TimerWheelProofs -------------------------
(***************************************************************************)
(* Proofs about the timer wheel.                                           *)
(***************************************************************************)
EXTENDS TimerWheel, FiniteSetTheorems, TLAPS

LEMMA MulGrows ==
  ASSUME NEW x \in Int, NEW n \in Nat \ {0}, x >= 1
  PROVE  x * n >= n
  OBVIOUS

LEMMA DivMod ==
  ASSUME NEW a \in Int, NEW n \in Nat \ {0}
  PROVE  /\ a \div n \in Int /\ a % n \in 0..(n - 1)
         /\ a = (a \div n) * n + (a % n)
  OBVIOUS

LEMMA Quotient ==
  ASSUME NEW a \in Int, NEW n \in Nat \ {0}, NEW q \in Int, NEW r \in 0..(n - 1),
         a = q * n + r
  PROVE  a \div n = q /\ a % n = r
<1>1. /\ a \div n \in Int /\ a % n \in 0..(n - 1)
      /\ a = (a \div n) * n + (a % n)
  BY DivMod
<1> DEFINE p == a \div n
           m == a % n
<1>2. (q - p) * n = m - r
  BY <1>1
<1>3. ~(q - p >= 1)
  <2> SUFFICES ASSUME q - p >= 1 PROVE FALSE
    OBVIOUS
  <2>1. (q - p) * n >= n
    BY <1>1, MulGrows
  <2> QED
    BY <2>1, <1>2, <1>1
<1>4. ~(p - q >= 1)
  <2> SUFFICES ASSUME p - q >= 1 PROVE FALSE
    OBVIOUS
  <2>1. (p - q) * n >= n
    BY <1>1, MulGrows
  <2>2. (p - q) * n = r - m
    BY <1>1
  <2> QED
    BY <2>1, <2>2, <1>1
<1> QED
  BY <1>1, <1>3, <1>4

LEMMA Wrapped ==
  ASSUME NEW a \in Int, NEW n \in Nat \ {0}, a + n \in 0..(n - 1)
  PROVE  a % n = a + n
<1>1. PICK q \in Int : q = -1
  OBVIOUS
<1>2. a = q * n + (a + n)
  BY <1>1
<1> QED
  BY <1>2, Quotient

LEMMA MulMonotone ==
  ASSUME NEW x \in Int, NEW y \in Int, NEW n \in Nat \ {0}, x <= y
  PROVE  x * n <= y * n
<1>1. CASE x = y
  BY <1>1
<1>2. CASE y - x >= 1
  <2>1. (y - x) * n >= n
    BY <1>2, MulGrows
  <2>2. (y - x) * n = y * n - x * n
    OBVIOUS
  <2>3. y * n \in Int /\ x * n \in Int
    OBVIOUS
  <2> QED
    BY <2>1, <2>2, <2>3
<1> QED
  BY <1>1, <1>2

LEMMA RoundIsNat == RoundDuration \in Nat \ {0} /\ RoundDuration = WheelCount * TickDuration
<1>1. WheelCount \in Nat \ {0} /\ TickDuration \in Nat \ {0}
  BY WheelAssumption
<1>2. WheelCount * TickDuration >= TickDuration
  BY <1>1, MulGrows
<1> QED
  BY <1>1, <1>2 DEF RoundDuration

(***************************************************************************)
(* What the arithmetic of scheduleTimeOut computes for a delay d: with     *)
(* d = q rounds and r ticks, counting a begun tick as a whole one, the     *)
(* timer is due after q * WheelCount + r ticks, relativeIndex is r and     *)
(* remainingRounds is q, less one if d is a number of whole rounds.        *)
(***************************************************************************)
Split(d, q, r, z) ==
  /\ relativeIndex(d) = r
  /\ remainingRounds(d) = q - z
  /\ (d + TickDuration - 1) \div TickDuration = q * WheelCount + r
  /\ \/ z = 1 /\ r = 0 /\ q >= 1
     \/ z = 0 /\ r >= 1

LEMMA DelaySplit ==
  ASSUME NEW d \in Nat, d >= TickDuration
  PROVE  \E q \in Nat, r \in 0..WheelCount, z \in 0..1 : Split(d, q, r, z)
<1> DEFINE T == TickDuration
           W == WheelCount
           q == d \div RoundDuration
           m == d % RoundDuration
           a == m \div T
           b == m % T
<1>1. W \in Nat \ {0} /\ T \in Nat \ {0}
  BY WheelAssumption
<1>2. /\ q \in Int /\ m \in 0..(RoundDuration - 1) /\ d = q * RoundDuration + m
      /\ RoundDuration \in Nat \ {0} /\ RoundDuration = W * T
  <2>1. RoundDuration \in Nat \ {0} /\ RoundDuration = W * T
    BY RoundIsNat
  <2>2. /\ d \div RoundDuration \in Int /\ d % RoundDuration \in 0..(RoundDuration - 1)
        /\ d = (d \div RoundDuration) * RoundDuration + (d % RoundDuration)
    <3>1. d \in Int
      OBVIOUS
    <3> QED
      BY <3>1, <2>1, DivMod
  <2> QED
    BY <2>1, <2>2
<1>3. a \in Int /\ b \in 0..(T - 1) /\ m = a * T + b
  <2>1. m \in Int
    BY <1>2
  <2> HIDE DEF m
  <2> QED
    BY <1>1, <2>1, DivMod
<1> HIDE DEF q, m, a, b
<1>4. q >= 0
  <2> SUFFICES ASSUME q <= -1 PROVE FALSE
    BY <1>2
  <2>1. q * RoundDuration <= (-1) * RoundDuration
    BY <1>2, MulMonotone
  <2> QED
    BY <2>1, <1>2
<1>5. a >= 0
  <2> SUFFICES ASSUME a <= -1 PROVE FALSE
    BY <1>3
  <2>1. a * T <= (-1) * T
    BY <1>1, <1>3, MulMonotone
  <2> QED
    BY <2>1, <1>1, <1>2, <1>3
<1>6. a < W
  <2> SUFFICES ASSUME W <= a PROVE FALSE
    BY <1>1, <1>3
  <2>1. W * T <= a * T
    BY <1>1, <1>3, MulMonotone
  <2> QED
    BY <2>1, <1>1, <1>2, <1>3
<1>7. q * W \in Nat
  BY <1>1, <1>2, <1>4
<1>8. d = (q * W + a) * T + b
  BY <1>1, <1>2, <1>3
<1>9. d % T = b
  BY <1>1, <1>3, <1>5, <1>7, <1>8, Quotient
<1> DEFINE r == a + IF b # 0 THEN 1 ELSE 0
           z == IF m = 0 THEN 1 ELSE 0
<1>10. relativeIndex(d) = r
  BY <1>9 DEF relativeIndex, a, m
<1>11. remainingRounds(d) = q - z
  BY DEF remainingRounds, q, m
<1>12. (d + T - 1) \div T = q * W + r
  <2>1. CASE b = 0
    <3>1. d + T - 1 = (q * W + a) * T + (T - 1)
      BY <1>1, <1>3, <1>5, <1>7, <1>8, <2>1
    <3>2. (d + T - 1) \div T = q * W + a
      <4>1. q * W + a \in Int /\ T - 1 \in 0..(T - 1) /\ d + T - 1 \in Int
        BY <1>1, <1>3, <1>7
      <4> QED
        BY <3>1, <4>1, <1>1, Quotient
    <3> QED
      BY <3>2, <2>1, <1>3, <1>7
  <2>2. CASE b # 0
    <3>1. (q * W + a + 1) * T = (q * W + a) * T + T
      BY <1>1, <1>5, <1>7, <1>3
    <3>2. d + T - 1 = (q * W + a + 1) * T + (b - 1)
      BY <3>1, <1>1, <1>3, <1>5, <1>7, <1>8, <2>2
    <3>3. (d + T - 1) \div T = q * W + a + 1
      <4>1. q * W + a + 1 \in Int /\ b - 1 \in 0..(T - 1) /\ d + T - 1 \in Int
        BY <1>1, <1>3, <1>7, <2>2
      <4> QED
        BY <3>2, <4>1, <1>1, Quotient
    <3> QED
      BY <3>3, <2>2, <1>3, <1>7
  <2> QED
    BY <2>1, <2>2
<1>13. CASE m = 0
  <2>1. a = 0 /\ b = 0
    <3>1. ~(a >= 1)
      <4> SUFFICES ASSUME a >= 1 PROVE FALSE
        OBVIOUS
      <4>1. a * T >= T
        BY <1>1, <1>3, MulGrows
      <4> QED
        BY <4>1, <1>1, <1>3, <1>13
    <3> QED
      BY <3>1, <1>1, <1>3, <1>5, <1>13
  <2>2. q >= 1
    BY <1>1, <1>2, <1>4, <1>13
  <2>3. Split(d, q, 0, 1)
    BY <2>1, <2>2, <1>10, <1>11, <1>12, <1>13 DEF Split
  <2> QED
    BY <2>3, <1>1, <1>2, <1>4
<1>14. CASE m # 0
  <2>1. r >= 1 /\ r \in 0..W
    BY <1>1, <1>3, <1>5, <1>6, <1>14
  <2>2. Split(d, q, r, 0)
    BY <2>1, <1>10, <1>11, <1>12, <1>14 DEF Split
  <2> QED
    BY <2>1, <2>2, <1>2, <1>4
<1> QED
  BY <1>13, <1>14

-----------------------------------------------------------------------------
(***************************************************************************)
(* How far the slot s is from the cursor c, round the wheel, before and    *)
(* after the tick goroutine has looked at the slot of the cursor.          *)
(***************************************************************************)
Ahead(s, c) == IF s >= c THEN s - c ELSE s - c + WheelCount
AheadAfter(s, c) == IF s > c THEN s - c ELSE s - c + WheelCount

LEMMA TurnsAhead ==
  ASSUME NEW s \in Slots, NEW c \in 0..WheelCount
  PROVE  /\ (s - c) % WheelCount = Ahead(s, c)
         /\ c \in Slots => ((s - c - 1) % WheelCount) + 1 = AheadAfter(s, c)
<1>1. WheelCount \in Nat \ {0}
  BY WheelAssumption
<1>2. s \in 0..(WheelCount - 1)
  BY DEF Slots
<1>3. (s - c) % WheelCount = Ahead(s, c)
  <2>1. CASE s >= c
    <3>1. s - c = 0 * WheelCount + (s - c) /\ s - c \in 0..(WheelCount - 1)
      BY <1>1, <1>2, <2>1
    <3>2. (s - c) % WheelCount = s - c
      BY <3>1, <1>1, Quotient
    <3> QED
      BY <3>2, <2>1 DEF Ahead
  <2>2. CASE ~(s >= c)
    <3>1. /\ s - c + WheelCount \in 0..(WheelCount - 1)
          /\ s - c \in Int
      BY <1>1, <1>2, <2>2
    <3>2. (s - c) % WheelCount = s - c + WheelCount
      BY <3>1, <1>1, Wrapped
    <3> QED
      BY <3>2, <2>2 DEF Ahead
  <2> QED
    BY <2>1, <2>2
<1>4. ASSUME c \in Slots
      PROVE  ((s - c - 1) % WheelCount) + 1 = AheadAfter(s, c)
  <2>0. c \in 0..(WheelCount - 1)
    BY <1>4 DEF Slots
  <2>1. CASE s > c
    <3>1. s - c - 1 = 0 * WheelCount + (s - c - 1) /\ s - c - 1 \in 0..(WheelCount - 1)
      BY <1>1, <1>2, <2>0, <2>1
    <3>2. (s - c - 1) % WheelCount = s - c - 1
      BY <3>1, <1>1, Quotient
    <3> QED
      BY <3>1, <3>2, <2>1, <1>2 DEF AheadAfter
  <2>2. CASE ~(s > c)
    <3>1. /\ s - c - 1 + WheelCount \in 0..(WheelCount - 1)
          /\ s - c - 1 \in Int
      BY <1>1, <1>2, <2>0, <2>2
    <3>2. (s - c - 1) % WheelCount = s - c - 1 + WheelCount
      BY <3>1, <1>1, Wrapped
    <3> QED
      BY <3>1, <3>2, <2>2, <1>1, <1>2 DEF AheadAfter
  <2> QED
    BY <2>1, <2>2
<1> QED
  BY <1>3, <1>4

LEMMA TicksAhead ==
  ASSUME TypeOK, NEW s \in Slots
  PROVE  TicksTo(s) = IF ticker \in {"wrap", "fetch"} THEN Ahead(s, wheelCursor)
                      ELSE AheadAfter(s, wheelCursor)
<1>1. wheelCursor \in 0..WheelCount
  BY WheelAssumption DEF TypeOK, Slots
<1>2. ticker \notin {"wrap", "fetch"} => wheelCursor \in Slots
  BY DEF TypeOK
<1> QED
  BY <1>1, <1>2, TurnsAhead DEF TicksTo

LEMMA TicksType ==
  ASSUME TypeOK, NEW s \in Slots
  PROVE  TicksTo(s) \in Int
<1>1. wheelCursor \in Int /\ s \in Int /\ WheelCount \in Int
  BY WheelAssumption DEF TypeOK, Slots
<1>2. Ahead(s, wheelCursor) \in Int /\ AheadAfter(s, wheelCursor) \in Int
  BY <1>1 DEF Ahead, AheadAfter
<1> QED
  BY <1>2, TicksAhead

(***************************************************************************)
(* A timer scheduled now is due when the tick goroutine reaches its slot   *)
(* for the last time, give or take a round.                                *)
(***************************************************************************)
LEMMA ScheduledInTime ==
  ASSUME TypeOK, NEW d \in Nat, d >= TickDuration, stopIndex(d) \in Slots
  PROVE  /\ roundsFor(d) \in Nat
         /\ TicksTo(stopIndex(d)) + roundsFor(d) * WheelCount
              - ((d + TickDuration - 1) \div TickDuration)
            \in {-WheelCount, 0, WheelCount}
<1>1. PICK q \in Nat, r \in 0..WheelCount, z \in 0..1 : Split(d, q, r, z)
  BY DelaySplit
<1> DEFINE W == WheelCount
           c == wheelCursor
           s == stopIndex(d)
           w == IF Wraps(d) THEN 1 ELSE 0
<1>2. W \in Nat \ {0} /\ c \in 0..W
  BY WheelAssumption DEF TypeOK, Slots
<1>3. s = c + r - (IF c + r >= W THEN W ELSE 0) /\ w = (IF c + r >= W THEN 1 ELSE 0)
  BY <1>1 DEF Split, stopIndex, Wraps
<1>4. roundsFor(d) = q - z + w
  BY <1>1 DEF Split, roundsFor
<1>5. roundsFor(d) \in Nat
  BY <1>1, <1>3, <1>4 DEF Split
<1>6. roundsFor(d) * W = q * W + (w - z) * W
  BY <1>2, <1>3, <1>4
<1>7. q * W \in Nat
  BY <1>2
<1>8. (w - z) * W = IF w = z THEN 0 ELSE IF w = 1 THEN W ELSE -W
  BY <1>2, <1>3
<1>9. TicksTo(s) = IF ticker \in {"wrap", "fetch"} THEN Ahead(s, c) ELSE AheadAfter(s, c)
  BY TicksAhead
<1>10. s \in 0..(W - 1)
  BY DEF Slots
<1> HIDE DEF s, w
<1>11. TicksTo(s) + (w - z) * W - r \in {-W, 0, W}
  <2>1. CASE c + r >= W
    <3>1. s = c + r - W /\ w = 1
      BY <2>1, <1>3
    <3>2. CASE ticker \in {"wrap", "fetch"}
      BY <3>1, <3>2, <1>1, <1>2, <1>8, <1>9, <1>10 DEF Ahead, Split
    <3>3. CASE ticker \notin {"wrap", "fetch"}
      <4>1. c \in 0..(W - 1)
        BY <3>3 DEF TypeOK, Slots
      <4> QED
        BY <3>1, <3>3, <4>1, <1>1, <1>2, <1>8, <1>9, <1>10 DEF AheadAfter, Split
    <3> QED
      BY <3>2, <3>3
  <2>2. CASE ~(c + r >= W)
    <3>1. s = c + r /\ w = 0
      BY <2>2, <1>2, <1>3
    <3>2. CASE ticker \in {"wrap", "fetch"}
      BY <3>1, <3>2, <1>1, <1>2, <1>8, <1>9, <1>10 DEF Ahead, Split
    <3>3. CASE ticker \notin {"wrap", "fetch"}
      BY <3>1, <3>3, <1>1, <1>2, <1>8, <1>9, <1>10 DEF AheadAfter, Split
    <3> QED
      BY <3>2, <3>3
  <2> QED
    BY <2>1, <2>2
<1>12. (d + TickDuration - 1) \div TickDuration = q * W + r
  BY <1>1 DEF Split
<1>13. TicksTo(s) \in Int /\ (w - z) * W \in Int
  BY <1>2, <1>3, <1>8, <1>9, <1>10 DEF Ahead, AheadAfter
<1>14. TicksTo(s) + roundsFor(d) * W - ((d + TickDuration - 1) \div TickDuration)
         = TicksTo(s) + (w - z) * W - r
  BY <1>6, <1>7, <1>12, <1>13
<1> QED
  BY <1>5, <1>11, <1>14 DEF s

-----------------------------------------------------------------------------
TimerRecord == [delay : Nat, times : Nat, rounds : Nat, expTimes : Nat]

\* The wheelTimeOut of t has been made: its delay is a tick or more, and a
\* timer that nobody has made has not been cancelled.
MadeOK(t) ==
  /\ timer[t].times # 0 => timer[t].delay >= TickDuration
  /\ cancelled[t] # "no" => timer[t].times # 0

PlaceOK(t) ==
  /\ \A s1, s2 \in Slots : t \in wheel[s1] \cap wheel[s2] => s1 = s2
  /\ t \in tasks => ~InWheel(t)
  /\ timer[t].expTimes <= timer[t].times
  /\ InWheel(t) \/ t \in tasks => timer[t].expTimes < timer[t].times

CancelOK(t) == cancelled[t] = "idle" => ~InWheel(t) /\ t \notin tasks

\* What each step must keep of the timer t.
TimerOK(t) == MadeOK(t) /\ PlaceOK(t) /\ CancelOK(t)

(***************************************************************************)
(* The inductive invariant.                                                *)
(***************************************************************************)
WheelInv ==
  /\ TypeOK
  /\ \A t \in Timers : TimerOK(t)
  /\ WithinARound

LEMMA WheelInvImplies ==
  WheelInv => OnePlace /\ WithinARound /\ CancelIsFinal
BY DEF WheelInv, OnePlace, CancelIsFinal, TimerOK, PlaceOK, CancelOK

LEMMA Fields ==
  ASSUME NEW r \in TimerRecord
  PROVE  r.delay \in Nat /\ r.times \in Nat /\ r.rounds \in Nat /\ r.expTimes \in Nat
BY DEF TimerRecord

LEMMA WithRounds ==
  ASSUME NEW r \in TimerRecord, NEW n \in Nat
  PROVE  LET q == [r EXCEPT !.rounds = n]
         IN /\ q \in TimerRecord /\ q.rounds = n
            /\ q.delay = r.delay /\ q.times = r.times /\ q.expTimes = r.expTimes
BY DEF TimerRecord

LEMMA WithExpiry ==
  ASSUME NEW r \in TimerRecord
  PROVE  LET q == [r EXCEPT !.expTimes = @ + 1]
         IN /\ q \in TimerRecord /\ q.expTimes = r.expTimes + 1
            /\ q.delay = r.delay /\ q.times = r.times /\ q.rounds = r.rounds
BY DEF TimerRecord

LEMMA NewTimer ==
  ASSUME NEW d \in Nat, NEW n \in Nat
  PROVE  LET q == [Unused EXCEPT !.delay = d, !.times = n]
         IN q \in TimerRecord /\ q.delay = d /\ q.times = n /\ q.expTimes = 0
BY DEF TimerRecord, Unused

LEMMA TimerType ==
  ASSUME TypeOK, NEW t \in Timers
  PROVE  timer[t] \in TimerRecord
BY DEF TypeOK, TimerRecord

(***************************************************************************)
(* A timer that is nowhere may be put into the wheel.                      *)
(***************************************************************************)
LEMMA Scheduling ==
  ASSUME TypeOK, WithinARound, NEW t \in Timers, NEW r \in TimerRecord,
         r.delay >= TickDuration, ~InWheel(t), scheduleTimeOut(t, r),
         ticker' \in {"wrap", "fetch"} <=> ticker \in {"wrap", "fetch"}
  PROVE  /\ \E n \in Nat : timer' = [timer EXCEPT ![t] = [r EXCEPT !.rounds = n]]
         /\ \E s \in Slots : wheel' = [wheel EXCEPT ![s] = @ \cup {t}]
         /\ wheelCursor' = wheelCursor
         /\ age' \in [Timers -> Nat]
         /\ WithinARound'
<1> DEFINE n == roundsFor(r.delay)
           s == stopIndex(r.delay)
           q == [r EXCEPT !.rounds = n]
<1>1. s \in Slots /\ r.delay \in Nat
  BY Fields DEF scheduleTimeOut
<1>2. /\ n \in Nat
      /\ TicksTo(s) + n * WheelCount
              - ((r.delay + TickDuration - 1) \div TickDuration)
            \in {-WheelCount, 0, WheelCount}
  BY <1>1, ScheduledInTime
<1>3. /\ timer' = [timer EXCEPT ![t] = q]
      /\ wheel' = [wheel EXCEPT ![s] = @ \cup {t}]
      /\ age' = [age EXCEPT ![t] = 0]
      /\ wheelCursor' = wheelCursor
  BY DEF scheduleTimeOut
<1> HIDE DEF n, s
<1>4. q \in TimerRecord /\ q.rounds = n /\ q.delay = r.delay
  BY <1>2, WithRounds
<1>5. age' \in [Timers -> Nat]
  BY <1>3 DEF TypeOK
<1>6. ASSUME NEW x \in Slots, NEW u \in wheel'[x]
      PROVE  (Lateness(u, x) \in {-WheelCount, 0, WheelCount})'
  <2>0. wheel \in [Slots -> SUBSET Timers]
    BY DEF TypeOK
  <2>1. TicksTo(x)' = TicksTo(x)
    BY <1>3 DEF TicksTo
  <2>2. CASE u = t
    <3>1. x = s
      BY <1>1, <1>3, <1>6, <2>0, <2>2 DEF InWheel
    <3>2. age'[u] = 0 /\ timer'[u].rounds = n /\ timer'[u].delay = r.delay
      BY <1>3, <1>4, <2>2 DEF TypeOK
    <3>3. Lateness(u, x)' = 0 + TicksTo(s) + n * WheelCount
              - ((r.delay + TickDuration - 1) \div TickDuration)
      BY <3>1, <3>2, <2>1 DEF Lateness, Due
    <3>4. TicksTo(s) \in Int
      BY <1>1, TicksType
    <3>5. 0 + TicksTo(s) = TicksTo(s)
      BY <3>4
    <3> QED
      BY <3>3, <3>5, <1>2
  <2>3. CASE u # t
    <3>1. u \in wheel[x] /\ u \in Timers
      BY <1>1, <1>3, <1>6, <2>0, <2>3
    <3>2. age'[u] = age[u] /\ timer'[u] = timer[u]
      BY <3>1, <1>3, <2>3 DEF TypeOK
    <3>3. Lateness(u, x)' = Lateness(u, x)
      BY <3>2, <2>1 DEF Lateness, Due
    <3> QED
      BY <3>1, <3>3 DEF WithinARound
  <2> QED
    BY <2>2, <2>3
<1>7. WithinARound'
  BY <1>6 DEF WithinARound
<1> QED
  BY <1>1, <1>2, <1>3, <1>5, <1>7

(***************************************************************************)
(* A timer that stays as it is, or only leaves a place, stays in order.    *)
(***************************************************************************)
LEMMA StaysOrLeaves ==
  ASSUME NEW t \in Timers, TimerOK(t),
         timer'[t].delay = timer[t].delay, timer'[t].times = timer[t].times,
         timer'[t].expTimes = timer[t].expTimes,
         cancelled'[t] = cancelled[t],
         \A s \in Slots : t \in wheel'[s] => t \in wheel[s],
         t \in tasks' => t \in tasks
  PROVE  TimerOK(t)'
<1>1. MadeOK(t)'
  BY DEF TimerOK, MadeOK
<1>2. InWheel(t)' => InWheel(t)
  BY DEF InWheel
<1>3. PlaceOK(t)'
  BY <1>2 DEF TimerOK, PlaceOK
<1>4. CancelOK(t)'
  BY <1>2 DEF TimerOK, CancelOK
<1> QED
  BY <1>1, <1>3, <1>4 DEF TimerOK

LEMMA StillInTime ==
  ASSUME WithinARound, wheelCursor' = wheelCursor, age' = age, timer' = timer,
         \A s \in Slots : wheel'[s] \subseteq wheel[s],
         ticker' \in {"wrap", "fetch"} <=> ticker \in {"wrap", "fetch"}
  PROVE  WithinARound'
<1> SUFFICES ASSUME NEW s \in Slots, NEW t \in wheel'[s]
             PROVE  (Lateness(t, s) \in {-WheelCount, 0, WheelCount})'
  BY DEF WithinARound
<1>1. t \in wheel[s]
  OBVIOUS
<1>2. Lateness(t, s)' = Lateness(t, s)
  BY DEF Lateness, Due, TicksTo
<1> QED
  BY <1>1, <1>2 DEF WithinARound

LEMMA WheelInit ==
  Init => WheelInv
<1> SUFFICES ASSUME Init PROVE WheelInv
  OBVIOUS
<1>1. WheelCount \in Nat \ {0} /\ 0 \in Slots
  BY WheelAssumption DEF Slots
<1>2. Unused \in TimerRecord
  BY DEF Unused, TimerRecord
<1>3. TypeOK
  BY <1>1, <1>2 DEF Init, TypeOK, TimerRecord
<1>4. ASSUME NEW t \in Timers PROVE TimerOK(t)
  <2>1. ~InWheel(t) /\ t \notin tasks
    BY DEF Init, InWheel
  <2>2. timer[t].times = 0 /\ timer[t].expTimes = 0 /\ cancelled[t] = "no"
    BY DEF Init, Unused
  <2> QED
    BY <2>1, <2>2 DEF TimerOK, MadeOK, PlaceOK, CancelOK, InWheel
<1>5. WithinARound
  BY DEF Init, WithinARound
<1> QED
  BY <1>3, <1>4, <1>5 DEF WheelInv

(***************************************************************************)
(* Steps that leave the wheel and its timers alone.                        *)
(***************************************************************************)
LEMMA WheelAlone ==
  ASSUME WheelInv, UNCHANGED <<wheelVars, tasks, cancelled>>, TypeOK',
         ticker' \in {"wrap", "fetch"} <=> ticker \in {"wrap", "fetch"}
  PROVE  WheelInv'
<1>1. /\ wheelCursor' = wheelCursor /\ wheel' = wheel /\ timer' = timer /\ age' = age
      /\ tasks' = tasks /\ cancelled' = cancelled
  BY DEF wheelVars
<1>2. WithinARound'
  BY <1>1, StillInTime DEF WheelInv
<1>3. ASSUME NEW t \in Timers PROVE TimerOK(t)'
  BY <1>1, <1>3, StaysOrLeaves DEF WheelInv
<1> QED
  BY <1>2, <1>3 DEF WheelInv

LEMMA StartStopKeep ==
  ASSUME WheelInv, Start \/ Stop
  PROVE  WheelInv'
<1>1. UNCHANGED <<wheelVars, tasks, cancelled>>
  BY DEF Start, Stop
<1>2. ticker' \in {"wrap", "fetch"} <=> ticker \in {"wrap", "fetch"}
  BY DEF Start, Stop
<1>3. TypeOK'
  BY DEF Start, Stop, WheelInv, TypeOK, wheelVars, sendVars
<1> QED
  BY <1>1, <1>2, <1>3, WheelAlone

LEMMA SenderFields ==
  ASSUME NEW s \in SenderRecord
  PROVE  /\ s.own \in Timers /\ s.times \in Nat \ {0} /\ s.var \in Timers \cup {Nil}
         /\ s.st \in {"new", "sending", "sent"} /\ s.ch \in Timers \cup {Nil}
BY DEF SenderRecord

LEMMA SenderSends ==
  ASSUME NEW s \in SenderRecord, NEW t \in Timers \cup {Nil}
  PROVE  /\ [s EXCEPT !.st = "sending", !.ch = t] \in SenderRecord
         /\ [s EXCEPT !.st = "sent"] \in SenderRecord
         /\ [s EXCEPT !.var = t] \in SenderRecord
BY DEF SenderRecord

LEMMA SendersKeep ==
  ASSUME WheelInv, NEW s \in senders, SendEvent(s) \/ ReceiveEvent(s) \/ EndSend(s)
  PROVE  WheelInv'
<1>1. UNCHANGED <<ticker, wheelVars, tasks, task, cancelled>>
  BY DEF SendEvent, ReceiveEvent, EndSend
<1>2. senders \in SUBSET SenderRecord /\ s \in SenderRecord /\ task \in Timers \cup {Nil}
  BY DEF WheelInv, TypeOK
<1>3. TaskOf(s) \in Timers \cup {Nil}
  BY <1>2, SenderFields DEF TaskOf
<1>4. senders' \in SUBSET SenderRecord
  <2>1. /\ [s EXCEPT !.st = "sending", !.ch = TaskOf(s)] \in SenderRecord
        /\ [s EXCEPT !.st = "sent"] \in SenderRecord
    BY <1>2, <1>3, SenderSends
  <2>2. CASE SendEvent(s)
    <3>1. \/ senders' = senders
          \/ senders' = (senders \ {s})
                          \cup {[s EXCEPT !.st = "sending", !.ch = TaskOf(s)]}
      BY <2>2 DEF SendEvent
    <3> QED
      BY <3>1, <2>1, <1>2
  <2>3. CASE ReceiveEvent(s)
    <3>1. senders' = (senders \ {s}) \cup {[s EXCEPT !.st = "sent"]}
      BY <2>3 DEF ReceiveEvent
    <3> QED
      BY <3>1, <2>1, <1>2
  <2>4. CASE EndSend(s)
    BY <2>4, <1>2 DEF EndSend
  <2> QED
    BY <2>2, <2>3, <2>4
<1>5. channel' \in [Timers -> {"nil", "open", "closed"}]
  BY DEF WheelInv, TypeOK, SendEvent, ReceiveEvent, EndSend
<1>6. delivered' \in [Timers -> SUBSET (Timers \X Nat)] /\ shared' \in SUBSET Timers
  <2>1. s.own \in Timers /\ s.times \in Nat
    BY <1>2, SenderFields
  <2> QED
    BY <2>1 DEF WheelInv, TypeOK, SendEvent, ReceiveEvent, EndSend
<1>7. crashed' \in BOOLEAN
  BY DEF WheelInv, TypeOK, SendEvent, ReceiveEvent, EndSend
<1>8. TypeOK'
  BY <1>1, <1>4, <1>5, <1>6, <1>7 DEF WheelInv, TypeOK, wheelVars
<1> QED
  BY <1>1, <1>8, WheelAlone

LEMMA CancelKeeps ==
  ASSUME WheelInv, NEW t \in Timers, Cancel(t)
  PROVE  WheelInv'
<1>1. /\ wheelCursor' = wheelCursor /\ timer' = timer /\ age' = age
      /\ tasks' = tasks /\ ticker' = ticker
      /\ wheel' = [s \in Slots |-> wheel[s] \ {t}]
      /\ cancelled' = [cancelled EXCEPT ![t] = IF t \in tasks THEN "notified" ELSE "idle"]
      /\ timer[t].times # 0
  BY DEF Cancel
<1>2. TypeOK'
  BY DEF WheelInv, TypeOK, Cancel, sendVars
<1>3. \A s \in Slots : wheel'[s] \subseteq wheel[s]
  BY <1>1
<1>4. WithinARound'
  BY <1>1, <1>3, StillInTime DEF WheelInv
<1>5. ASSUME NEW u \in Timers PROVE TimerOK(u)'
  <2>0. TimerOK(u)
    BY DEF WheelInv
  <2>1. CASE u = t
    <3>1. ~InWheel(u)'
      BY <1>1, <2>1 DEF InWheel
    <3>2. cancelled'[u] = IF u \in tasks THEN "notified" ELSE "idle"
      BY <1>1, <2>1 DEF WheelInv, TypeOK
    <3>3. MadeOK(u)'
      BY <1>1, <2>0, <2>1 DEF TimerOK, MadeOK
    <3>4. PlaceOK(u)'
      BY <1>1, <1>3, <2>0, <3>1 DEF TimerOK, PlaceOK
    <3>5. CancelOK(u)'
      BY <1>1, <3>1, <3>2 DEF CancelOK
    <3> QED
      BY <3>3, <3>4, <3>5 DEF TimerOK
  <2>2. CASE u # t
    <3>1. cancelled'[u] = cancelled[u]
      BY <1>1, <2>2 DEF WheelInv, TypeOK
    <3> QED
      BY <1>1, <1>3, <2>0, <3>1, StaysOrLeaves
  <2> QED
    BY <2>1, <2>2
<1> QED
  BY <1>2, <1>4, <1>5 DEF WheelInv

-----------------------------------------------------------------------------
(***************************************************************************)
(* The steps of the tick goroutine.                                        *)
(***************************************************************************)
LEMMA DueType ==
  ASSUME TypeOK, NEW t \in Timers
  PROVE  Due(t) \in Int
<1>1. timer[t].delay \in Nat
  BY TimerType, Fields
<1>2. timer[t].delay + TickDuration - 1 \in Int /\ TickDuration \in Nat \ {0}
  BY <1>1, WheelAssumption
<1> QED
  BY <1>2, DivMod DEF Due

LEMMA TickKeeps ==
  ASSUME WheelInv, Tick
  PROVE  WheelInv'
<1>1. /\ ticker = "select" /\ ticker' = "wrap" /\ wheelCursor' = wheelCursor + 1
      /\ age' = [t \in Timers |-> IF InWheel(t) THEN age[t] + 1 ELSE age[t]]
      /\ UNCHANGED <<wheel, timer, tasks, cancelled>>
  BY DEF Tick
<1>2. TypeOK /\ WheelCount \in Nat \ {0}
  BY WheelAssumption DEF WheelInv
<1>3. wheelCursor \in Slots
  BY <1>1, <1>2 DEF TypeOK
<1>4. wheelCursor' \in Slots \/ wheelCursor' = WheelCount
  BY <1>1, <1>2, <1>3 DEF Slots
<1>5. age' \in [Timers -> Nat]
  BY <1>1, <1>2 DEF TypeOK
<1>6. TypeOK'
  BY <1>1, <1>2, <1>4, <1>5 DEF TypeOK, Tick, sendVars
<1>7. ASSUME NEW s \in Slots, NEW t \in wheel'[s]
      PROVE  (Lateness(t, s) \in {-WheelCount, 0, WheelCount})'
  <2>1. t \in wheel[s] /\ t \in Timers /\ InWheel(t)
    BY <1>1, <1>2 DEF TypeOK, InWheel
  <2>2. age'[t] = age[t] + 1 /\ age[t] \in Nat
    BY <1>1, <1>2, <2>1 DEF TypeOK
  <2>3. TicksTo(s) = AheadAfter(s, wheelCursor)
    BY <1>1, <1>2, TicksAhead
  <2>4. TicksTo(s)' = Ahead(s, wheelCursor')
    <3>1. wheelCursor' \in 0..WheelCount
      BY <1>2, <1>4 DEF Slots
    <3> QED
      BY <3>1, <1>1, TurnsAhead DEF TicksTo
  <2>5. TicksTo(s)' = TicksTo(s) - 1 /\ TicksTo(s) \in Int
    <3>1. s \in 0..(WheelCount - 1) /\ wheelCursor \in 0..(WheelCount - 1)
      BY <1>3 DEF Slots
    <3> QED
      BY <1>1, <1>2, <2>3, <2>4, <3>1 DEF Ahead, AheadAfter
  <2>6. timer[t].rounds * WheelCount \in Int
    <3>1. timer[t].rounds \in Nat
      BY <1>2, <2>1, TimerType, Fields
    <3> QED
      BY <3>1, <1>2
  <2>7. Due(t) \in Int /\ Due(t)' = Due(t)
    BY <1>1, <1>2, <2>1, DueType DEF Due
  <2>8. Lateness(t, s)' = age'[t] + TicksTo(s)' + timer[t].rounds * WheelCount - Due(t)
    BY <1>1, <2>7 DEF Lateness
  <2>9. Lateness(t, s)' = Lateness(t, s)
    BY <2>2, <2>5, <2>6, <2>7, <2>8 DEF Lateness
  <2> QED
    BY <2>1, <2>9 DEF WheelInv, WithinARound
<1>8. WithinARound'
  BY <1>7 DEF WithinARound
<1>9. ASSUME NEW t \in Timers PROVE TimerOK(t)'
  BY <1>1, StaysOrLeaves DEF WheelInv
<1> QED
  BY <1>6, <1>8, <1>9 DEF WheelInv

LEMMA WrapCursorKeeps ==
  ASSUME WheelInv, WrapCursor
  PROVE  WheelInv'
<1>1. /\ ticker = "wrap" /\ ticker' = "fetch"
      /\ wheelCursor' = IF wheelCursor = WheelCount THEN 0 ELSE wheelCursor
      /\ UNCHANGED <<wheel, timer, age, tasks, cancelled>>
  BY DEF WrapCursor
<1>2. TypeOK /\ WheelCount \in Nat \ {0}
  BY WheelAssumption DEF WheelInv
<1>3. wheelCursor' \in Slots /\ wheelCursor \in Slots \cup {WheelCount}
  <2>1. 0 \in Slots
    BY <1>2 DEF Slots
  <2>2. wheelCursor \in Slots \cup {WheelCount}
    BY <1>2 DEF TypeOK
  <2> QED
    BY <1>1, <2>1, <2>2
<1>4. TypeOK'
  BY <1>1, <1>2, <1>3 DEF TypeOK, WrapCursor, sendVars
<1>5. ASSUME NEW s \in Slots, NEW t \in wheel'[s]
      PROVE  (Lateness(t, s) \in {-WheelCount, 0, WheelCount})'
  <2>1. t \in wheel[s]
    BY <1>1
  <2>2. TicksTo(s) = Ahead(s, wheelCursor)
    BY <1>1, <1>2, TicksAhead
  <2>3. TicksTo(s)' = Ahead(s, wheelCursor')
    <3>1. wheelCursor' \in 0..WheelCount
      BY <1>2, <1>3 DEF Slots
    <3> QED
      BY <3>1, <1>1, TurnsAhead DEF TicksTo
  <2>4. TicksTo(s)' = TicksTo(s)
    <3>1. s \in 0..(WheelCount - 1)
      BY DEF Slots
    <3> QED
      BY <1>1, <1>2, <2>2, <2>3, <3>1 DEF Ahead
  <2>5. Lateness(t, s)' = Lateness(t, s)
    BY <1>1, <2>4 DEF Lateness, Due
  <2> QED
    BY <2>1, <2>5 DEF WheelInv, WithinARound
<1>6. WithinARound'
  BY <1>5 DEF WithinARound
<1>7. ASSUME NEW t \in Timers PROVE TimerOK(t)'
  BY <1>1, StaysOrLeaves DEF WheelInv
<1> QED
  BY <1>4, <1>6, <1>7 DEF WheelInv

(***************************************************************************)
(* A timer of the slot under the cursor expires or has one round less to   *)
(* wait; for it, and only for it, the next look is a whole round away.     *)
(***************************************************************************)
LEMMA FetchKeeps ==
  ASSUME WheelInv, fetchExpiredTimeouts
  PROVE  WheelInv'
<1> DEFINE here == wheel[wheelCursor]
           expired == {t \in here : timer[t].rounds <= 0}
<1>1. /\ ticker = "fetch" /\ tasks' = expired
      /\ wheel' = [wheel EXCEPT ![wheelCursor] = @ \ expired]
      /\ timer' = [t \in Timers |-> IF t \in here \ expired
                     THEN [timer[t] EXCEPT !.rounds = @ - 1] ELSE timer[t]]
      /\ ticker' \in {"select", "notify"}
      /\ shared' = shared \cup {t \in expired : expired # {t}}
      /\ UNCHANGED <<wheelCursor, age, task, senders, channel, delivered, crashed, cancelled>>
  BY DEF fetchExpiredTimeouts
<1>2. TypeOK /\ WheelCount \in Nat \ {0}
  BY WheelAssumption DEF WheelInv
<1>3. wheelCursor \in Slots /\ here \subseteq Timers
  BY <1>1, <1>2 DEF TypeOK
<1>4. ASSUME NEW t \in Timers
      PROVE  /\ timer'[t] \in TimerRecord
             /\ timer'[t].delay = timer[t].delay /\ timer'[t].times = timer[t].times
             /\ timer'[t].expTimes = timer[t].expTimes
             /\ timer'[t].rounds = timer[t].rounds - IF t \in here \ expired THEN 1 ELSE 0
  <2>1. timer[t] \in TimerRecord /\ timer[t].rounds \in Nat
    BY <1>2, TimerType, Fields
  <2>2. CASE t \in here \ expired
    <3>1. timer[t].rounds - 1 \in Nat
      BY <2>1, <2>2
    <3>2. timer'[t] = [timer[t] EXCEPT !.rounds = timer[t].rounds - 1]
      BY <1>1, <2>2
    <3> QED
      BY <2>1, <2>2, <3>1, <3>2, WithRounds
  <2>3. CASE t \notin here \ expired
    BY <1>1, <2>1, <2>3
  <2> QED
    BY <2>2, <2>3
<1>5. /\ timer' \in [Timers -> TimerRecord]
      /\ wheel' \in [Slots -> SUBSET Timers]
      /\ tasks' \in SUBSET Timers
  <2>1. timer' \in [Timers -> TimerRecord]
    BY <1>1, <1>4
  <2>2. wheel' \in [Slots -> SUBSET Timers]
    BY <1>1, <1>2 DEF TypeOK
  <2> QED
    BY <2>1, <2>2, <1>1, <1>3
<1>6. TypeOK'
  <2>1. wheelCursor' \in Slots
    BY <1>1, <1>3
  <2> QED
    BY <2>1, <1>1, <1>2, <1>5 DEF TypeOK, sendVars, TimerRecord
<1>7. \A s \in Slots : wheel'[s] = IF s = wheelCursor THEN here \ expired ELSE wheel[s]
  BY <1>1, <1>2 DEF TypeOK
<1> HIDE DEF here, expired
<1>8. ASSUME NEW s \in Slots, NEW t \in wheel'[s]
      PROVE  (Lateness(t, s) \in {-WheelCount, 0, WheelCount})'
  <2>1. t \in wheel[s] /\ t \in Timers
    <3>1. t \in wheel[s]
      BY <1>7 DEF here
    <3> QED
      BY <3>1, <1>2 DEF TypeOK
  <2>2. TicksTo(s) = Ahead(s, wheelCursor) /\ TicksTo(s)' = AheadAfter(s, wheelCursor)
    <3>1. TicksTo(s) = Ahead(s, wheelCursor)
      BY <1>1, <1>2, TicksAhead
    <3>2. wheelCursor \in 0..WheelCount
      BY <1>2, <1>3 DEF Slots
    <3>3. TicksTo(s)' = ((s - wheelCursor - 1) % WheelCount) + 1
      BY <1>1 DEF TicksTo
    <3> QED
      BY <3>1, <3>2, <3>3, <1>3, TurnsAhead
  <2>3. Due(t) \in Int /\ Due(t)' = Due(t)
    BY <1>2, <1>4, <2>1, DueType DEF Due
  <2>4. timer[t].rounds \in Nat /\ age'[t] = age[t] /\ age[t] \in Nat
    BY <1>1, <1>2, <2>1, TimerType, Fields DEF TypeOK
  <2>5. Lateness(t, s)' = age[t] + TicksTo(s)' + timer'[t].rounds * WheelCount - Due(t)
    BY <2>3, <2>4 DEF Lateness
  <2>6. s \in 0..(WheelCount - 1) /\ wheelCursor \in 0..(WheelCount - 1)
    BY <1>3 DEF Slots
  <2>7. Lateness(t, s)' = Lateness(t, s)
    <3>1. CASE s = wheelCursor
      <4>1. timer'[t].rounds = timer[t].rounds - 1
        BY <1>4, <1>7, <2>1, <3>1
      <4>2. timer'[t].rounds * WheelCount = timer[t].rounds * WheelCount - WheelCount
        BY <4>1, <2>4, <1>2
      <4>3. TicksTo(s) = 0 /\ TicksTo(s)' = WheelCount
        BY <2>2, <2>6, <3>1, <1>2 DEF Ahead, AheadAfter
      <4>4. timer[t].rounds * WheelCount \in Int
        BY <1>2, <2>4
      <4> QED
        BY <4>2, <4>3, <4>4, <2>3, <2>4, <2>5, <1>2 DEF Lateness
    <3>2. CASE s # wheelCursor
      <4>1. t \notin here \ expired
        <5>1. TimerOK(t)
          BY <2>1 DEF WheelInv
        <5> QED
          BY <5>1, <2>1, <1>3, <3>2 DEF here, TimerOK, PlaceOK
      <4>2. timer'[t].rounds = timer[t].rounds
        BY <4>1, <1>4, <2>1, <2>4
      <4>3. TicksTo(s)' = TicksTo(s)
        BY <2>2, <2>6, <3>2, <1>2 DEF Ahead, AheadAfter
      <4> QED
        BY <4>2, <4>3, <2>3, <2>4, <2>5 DEF Lateness
    <3> QED
      BY <3>1, <3>2
  <2> QED
    BY <2>1, <2>7 DEF WheelInv, WithinARound
<1>9. WithinARound'
  BY <1>8 DEF WithinARound
<1>10. ASSUME NEW t \in Timers PROVE TimerOK(t)'
  <2>0. TimerOK(t)
    BY DEF WheelInv
  <2>1. \A s \in Slots : t \in wheel'[s] => t \in wheel[s]
    BY <1>7 DEF here
  <2>2. CASE t \notin expired
    <3>1. t \notin tasks'
      BY <1>1, <2>2
    <3> QED
      BY <1>1, <1>4, <2>0, <2>1, <3>1, StaysOrLeaves
  <2>3. CASE t \in expired
    <3>1. t \in wheel[wheelCursor] /\ InWheel(t)
      BY <1>3, <2>3 DEF expired, here, InWheel
    <3>2. ~InWheel(t)'
      BY <1>3, <1>7, <2>0, <2>3, <3>1 DEF InWheel, TimerOK, PlaceOK
    <3>3. MadeOK(t)'
      BY <1>1, <1>4, <2>0 DEF TimerOK, MadeOK
    <3>4. PlaceOK(t)'
      BY <1>4, <2>0, <2>1, <3>1, <3>2 DEF TimerOK, PlaceOK
    <3>5. CancelOK(t)'
      BY <1>1, <2>0, <3>1 DEF TimerOK, CancelOK
    <3> QED
      BY <3>3, <3>4, <3>5 DEF TimerOK
  <2> QED
    BY <2>2, <2>3
<1> QED
  BY <1>6, <1>9, <1>10 DEF WheelInv

-----------------------------------------------------------------------------
(***************************************************************************)
(* Putting a timer that is nowhere into the wheel: r is what it has become *)
(* by then, with the expiry counted if there was one.                      *)
(***************************************************************************)
LEMMA ScheduledKeeps ==
  ASSUME WheelInv, NEW t \in Timers, NEW r \in TimerRecord,
         r.delay >= TickDuration, r.expTimes < r.times,
         r.times = timer[t].times \/ cancelled[t] = "no",
         ~InWheel(t), cancelled[t] # "idle", scheduleTimeOut(t, r),
         ticker' \in {"wrap", "fetch"} <=> ticker \in {"wrap", "fetch"},
         tasks' \subseteq tasks, t \notin tasks', cancelled' = cancelled
  PROVE  /\ timer' \in [Timers -> TimerRecord]
         /\ wheel' \in [Slots -> SUBSET Timers]
         /\ age' \in [Timers -> Nat]
         /\ wheelCursor' = wheelCursor
         /\ \A u \in Timers : TimerOK(u)'
         /\ WithinARound'
<1>1. /\ \E n \in Nat : timer' = [timer EXCEPT ![t] = [r EXCEPT !.rounds = n]]
      /\ \E s \in Slots : wheel' = [wheel EXCEPT ![s] = @ \cup {t}]
      /\ wheelCursor' = wheelCursor
      /\ age' \in [Timers -> Nat]
      /\ WithinARound'
  BY Scheduling DEF WheelInv
<1>2. PICK n \in Nat : timer' = [timer EXCEPT ![t] = [r EXCEPT !.rounds = n]]
  BY <1>1
<1>3. PICK s \in Slots : wheel' = [wheel EXCEPT ![s] = @ \cup {t}]
  BY <1>1
<1> DEFINE q == [r EXCEPT !.rounds = n]
<1>4. q \in TimerRecord /\ q.delay = r.delay /\ q.times = r.times /\ q.expTimes = r.expTimes
  BY WithRounds
<1> HIDE DEF q
<1>5. TypeOK /\ timer' = [timer EXCEPT ![t] = q]
  BY <1>2 DEF WheelInv, q
<1>6. timer \in [Timers -> TimerRecord] /\ wheel \in [Slots -> SUBSET Timers]
  BY <1>5 DEF TypeOK, TimerRecord
<1>7. timer' \in [Timers -> TimerRecord] /\ wheel' \in [Slots -> SUBSET Timers]
  BY <1>3, <1>4, <1>5, <1>6
<1>8. \A x \in Slots : wheel'[x] = IF x = s THEN wheel[x] \cup {t} ELSE wheel[x]
  BY <1>3, <1>6
<1>9. ASSUME NEW u \in Timers PROVE TimerOK(u)'
  <2>0. TimerOK(u)
    BY DEF WheelInv
  <2>1. CASE u = t
    <3>1. timer'[u] = q
      BY <1>5, <1>6, <2>1
    <3>2. q.expTimes < q.times /\ q.expTimes <= q.times /\ q.times # 0
      BY <1>4, Fields
    <3>3. MadeOK(u)'
      BY <1>4, <3>1, <3>2, <2>1 DEF MadeOK
    <3>4. \A s1 \in Slots : u \in wheel'[s1] => s1 = s
      BY <1>8, <2>1 DEF InWheel
    <3>5. PlaceOK(u)'
      BY <3>1, <3>2, <3>4, <2>1 DEF PlaceOK
    <3>6. CancelOK(u)'
      BY <2>1 DEF CancelOK
    <3> QED
      BY <3>3, <3>5, <3>6 DEF TimerOK
  <2>2. CASE u # t
    <3>1. timer'[u] = timer[u]
      BY <1>5, <1>6, <2>2
    <3>2. \A x \in Slots : u \in wheel'[x] => u \in wheel[x]
      BY <1>8, <2>2
    <3> QED
      BY <2>0, <3>1, <3>2, StaysOrLeaves
  <2> QED
    BY <2>1, <2>2
<1> QED
  BY <1>1, <1>7, <1>9

LEMMA AfterKeeps ==
  ASSUME WheelInv, NEW call \in Calls, NEW c \in {"nil", "open"},
         After(call[1], call[2], call[3], c)
  PROVE  WheelInv'
<1>1. /\ call[1] \in Timers /\ call[2] \in Int /\ call[3] \in Int
      /\ TickDuration \in Nat \ {0} /\ Forever \in Nat \ {0}
  BY WheelAssumption
<1>2. PICK t \in Timers : t = call[1]
  BY <1>1
<1> DEFINE d == Ceil(call[2])
           n == IF call[3] <= 0 THEN Forever ELSE call[3]
           r == [Unused EXCEPT !.delay = d, !.times = n]
<1>3. /\ timer[t].times = 0 /\ call[2] > 0
      /\ \/ scheduleTimeOut(t, r) /\ crashed' = crashed
         \/ crashed' = TRUE /\ UNCHANGED wheelVars
      /\ channel' = [channel EXCEPT ![t] = c]
      /\ UNCHANGED <<ticker, tasks, task, senders, delivered, shared, cancelled>>
  BY <1>2 DEF After
<1>4. d \in Nat /\ d >= TickDuration /\ n \in Nat \ {0}
  BY <1>1, <1>3 DEF Ceil
<1> HIDE DEF d, n
<1>5. r \in TimerRecord /\ r.delay = d /\ r.times = n /\ r.expTimes = 0
  BY <1>4, NewTimer
<1> HIDE DEF r
<1>6. TypeOK
  BY DEF WheelInv
<1>7. /\ channel' \in [Timers -> {"nil", "open", "closed"}]
      /\ crashed' \in BOOLEAN
  BY <1>3, <1>6 DEF TypeOK
<1>8. CASE scheduleTimeOut(t, r)
  <2>0. TimerOK(t)
    BY DEF WheelInv
  <2>1. ~InWheel(t) /\ t \notin tasks
    <3>1. timer[t].expTimes \in Nat
      BY <1>6, TimerType, Fields
    <3>2. ~(timer[t].expTimes < timer[t].times)
      BY <1>3, <3>1
    <3> QED
      BY <2>0, <3>2 DEF TimerOK, PlaceOK
  <2>2. cancelled[t] = "no"
    <3>1. cancelled[t] # "no" => timer[t].times # 0
      BY <2>0 DEF TimerOK, MadeOK
    <3> QED
      BY <1>3, <3>1
  <2>3. /\ r.delay >= TickDuration /\ r.expTimes < r.times
        /\ tasks' \subseteq tasks /\ t \notin tasks' /\ cancelled' = cancelled
        /\ ticker' = ticker
    BY <1>3, <1>4, <1>5, <2>1
  <2>4. /\ timer' \in [Timers -> TimerRecord]
        /\ wheel' \in [Slots -> SUBSET Timers]
        /\ age' \in [Timers -> Nat]
        /\ wheelCursor' = wheelCursor
        /\ \A u \in Timers : TimerOK(u)'
        /\ WithinARound'
    BY <1>5, <1>8, <2>1, <2>2, <2>3, ScheduledKeeps
  <2>5. TypeOK'
    BY <1>3, <1>6, <1>7, <2>4 DEF TypeOK, TimerRecord
  <2> QED
    BY <2>4, <2>5 DEF WheelInv
<1>9. CASE UNCHANGED wheelVars
  <2>1. TypeOK'
    BY <1>3, <1>6, <1>7, <1>9 DEF TypeOK, wheelVars
  <2> QED
    BY <1>3, <1>9, <2>1, WheelAlone
<1> QED
  BY <1>3, <1>8, <1>9

LEMMA NotifyKeeps ==
  ASSUME WheelInv, NEW t \in Timers, notifyExpiredTimeOut(t)
  PROVE  WheelInv'
<1> DEFINE r == [timer[t] EXCEPT !.expTimes = @ + 1]
           new == IF channel[t] = "nil" THEN {}
                  ELSE {[own |-> t, times |-> r.expTimes, var |-> Nil, st |-> "new",
                         ch |-> Nil]}
<1>1. /\ ticker = "notify" /\ t \in tasks /\ tasks' = tasks \ {t}
      /\ task' \in {Nil, t}
      /\ ticker' \in {"select", "notify"}
      /\ \/ TimesLeft(r) /\ scheduleTimeOut(t, r)
         \/ /\ timer' = [timer EXCEPT ![t] = r]
            /\ UNCHANGED <<wheelCursor, wheel, age>>
      /\ senders' = {[s EXCEPT !.var = IF @ = Nil /\ tasks' = {} THEN t ELSE @] :
                         s \in senders \cup new}
      /\ UNCHANGED <<channel, delivered, shared, crashed, cancelled>>
  BY DEF notifyExpiredTimeOut
<1>2. TypeOK /\ TimerOK(t)
  BY DEF WheelInv
<1>3. /\ timer[t] \in TimerRecord
      /\ r \in TimerRecord /\ r.expTimes = timer[t].expTimes + 1
      /\ r.delay = timer[t].delay /\ r.times = timer[t].times
  BY <1>2, TimerType, WithExpiry
<1> HIDE DEF r
<1>4. /\ ~InWheel(t) /\ cancelled[t] # "idle"
      /\ timer[t].expTimes < timer[t].times
  BY <1>1, <1>2 DEF TimerOK, PlaceOK, CancelOK
<1>5. timer[t].times # 0 /\ r.delay >= TickDuration
  BY <1>2, <1>3, <1>4, Fields DEF TimerOK, MadeOK
<1>6. senders' \in SUBSET SenderRecord
  <2>1. senders \subseteq SenderRecord
    BY <1>2 DEF TypeOK
  <2>2. r.expTimes \in Nat \ {0}
    BY <1>3, Fields
  <2>3. new \subseteq SenderRecord
    BY <2>2 DEF SenderRecord
  <2> HIDE DEF new
  <2>4. ASSUME NEW s \in senders \cup new
        PROVE  [s EXCEPT !.var = IF @ = Nil /\ tasks' = {} THEN t ELSE @] \in SenderRecord
    <3>1. s \in SenderRecord
      BY <2>1, <2>3
    <3>2. (IF s.var = Nil /\ tasks' = {} THEN t ELSE s.var) \in Timers \cup {Nil}
      BY <3>1, SenderFields
    <3> QED
      BY <3>1, <3>2, SenderSends
  <2> QED
    BY <1>1, <2>4
<1> HIDE DEF new
<1>7. task' \in Timers \cup {Nil} /\ tasks' \in SUBSET Timers /\ tasks' \subseteq tasks
  BY <1>1, <1>2 DEF TypeOK
<1>8. CASE TimesLeft(r) /\ scheduleTimeOut(t, r)
  <2>1. r.expTimes < r.times
    BY <1>8 DEF TimesLeft
  <2>2. ticker' \in {"wrap", "fetch"} <=> ticker \in {"wrap", "fetch"}
    BY <1>1
  <2>3. t \notin tasks' /\ cancelled' = cancelled
    BY <1>1
  <2>4. /\ timer' \in [Timers -> TimerRecord]
        /\ wheel' \in [Slots -> SUBSET Timers]
        /\ age' \in [Timers -> Nat]
        /\ wheelCursor' = wheelCursor
        /\ \A u \in Timers : TimerOK(u)'
        /\ WithinARound'
    BY <1>3, <1>4, <1>5, <1>7, <1>8, <2>1, <2>2, <2>3, ScheduledKeeps
  <2>5. wheelCursor' \in Slots
    BY <1>1, <1>2, <2>4 DEF TypeOK
  <2>6. TypeOK'
    BY <1>1, <1>2, <1>6, <1>7, <2>4, <2>5 DEF TypeOK, TimerRecord
  <2> QED
    BY <2>4, <2>6 DEF WheelInv
<1>9. CASE timer' = [timer EXCEPT ![t] = r] /\ UNCHANGED <<wheelCursor, wheel, age>>
  <2>0. timer \in [Timers -> TimerRecord] /\ wheelCursor \in Slots
    BY <1>1, <1>2 DEF TypeOK, TimerRecord
  <2>1. timer' \in [Timers -> TimerRecord] /\ wheelCursor' \in Slots
    BY <1>3, <1>9, <2>0
  <2>2. TypeOK'
    BY <1>1, <1>2, <1>6, <1>7, <1>9, <2>1 DEF TypeOK, TimerRecord
  <2>3. \A u \in Timers : u # t => timer'[u] = timer[u]
    BY <1>9, <2>0
  <2>4. ASSUME NEW s \in Slots, NEW u \in wheel'[s]
        PROVE  (Lateness(u, s) \in {-WheelCount, 0, WheelCount})'
    <3>1. u \in wheel[s] /\ u \in Timers
      BY <1>2, <1>9 DEF TypeOK
    <3>2. u # t
      BY <1>4, <3>1 DEF InWheel
    <3>3. TicksTo(s)' = TicksTo(s)
      BY <1>1, <1>9 DEF TicksTo
    <3>4. Lateness(u, s)' = Lateness(u, s)
      BY <1>9, <2>3, <3>1, <3>2, <3>3 DEF Lateness, Due
    <3> QED
      BY <3>1, <3>4 DEF WheelInv, WithinARound
  <2>5. WithinARound'
    BY <2>4 DEF WithinARound
  <2>6. ASSUME NEW u \in Timers PROVE TimerOK(u)'
    <3>0. TimerOK(u)
      BY DEF WheelInv
    <3>1. CASE u # t
      <4>1. /\ timer'[u] = timer[u] /\ cancelled' = cancelled /\ wheel' = wheel
            /\ tasks' \subseteq tasks
        BY <1>1, <1>7, <1>9, <2>3, <3>1
      <4> QED
        BY <3>0, <4>1, StaysOrLeaves
    <3>2. CASE u = t
      <4>1. timer'[u] = r
        BY <1>9, <2>0, <3>2
      <4>2. ~InWheel(u)' /\ u \notin tasks' /\ cancelled' = cancelled
        BY <1>1, <1>4, <1>9, <3>2 DEF InWheel
      <4>3. timer[u].expTimes + 1 <= timer[u].times
        BY <1>3, <1>4, <3>2, Fields
      <4>4. MadeOK(u)'
        BY <1>3, <1>5, <4>1, <4>2, <3>0, <3>2 DEF TimerOK, MadeOK
      <4>5. PlaceOK(u)'
        BY <1>3, <4>1, <4>2, <4>3, <3>2 DEF PlaceOK, InWheel
      <4>6. CancelOK(u)'
        BY <4>2 DEF CancelOK
      <4> QED
        BY <4>4, <4>5, <4>6 DEF TimerOK
    <3> QED
      BY <3>1, <3>2
  <2> QED
    BY <2>2, <2>5, <2>6 DEF WheelInv
<1> QED
  BY <1>1, <1>8, <1>9

-----------------------------------------------------------------------------
LEMMA WheelStep ==
  WheelInv /\ [Next]_vars => WheelInv'
<1> SUFFICES ASSUME WheelInv, [Next]_vars PROVE WheelInv'
  OBVIOUS
<1>1. ASSUME NEW call \in Calls, NEW c \in {"nil", "open"},
             After(call[1], call[2], call[3], c)
      PROVE  WheelInv'
  BY <1>1, AfterKeeps
<1>2. ASSUME NEW t \in Timers, Cancel(t) PROVE WheelInv'
  BY <1>2, CancelKeeps
<1>3. CASE Start \/ Stop
  BY <1>3, StartStopKeep
<1>4. CASE TickerStep
  <2>1. ASSUME NEW t \in Timers, notifyExpiredTimeOut(t) PROVE WheelInv'
    BY <2>1, NotifyKeeps
  <2> QED
    BY <1>4, <2>1, TickKeeps, WrapCursorKeeps, FetchKeeps DEF TickerStep
<1>5. ASSUME NEW s \in senders, SendEvent(s) \/ ReceiveEvent(s) \/ EndSend(s)
      PROVE  WheelInv'
  BY <1>5, SendersKeep
<1>6. CASE UNCHANGED vars
  <2>1. TypeOK'
    BY <1>6 DEF WheelInv, TypeOK, vars, wheelVars, sendVars
  <2> QED
    BY <1>6, <2>1, WheelAlone DEF vars
<1> QED
  BY <1>1, <1>2, <1>3, <1>4, <1>5, <1>6 DEF Next

LEMMA WheelInvariant == Spec => []WheelInv
BY WheelInit, WheelStep, PTL DEF Spec

(***************************************************************************)
(* A timer is never in two slots, nor both in the wheel and among the      *)
(* expired ones, so that no expiry is seen twice, and it never expires     *)
(* more often than it was asked to, whatever After, Cancel and the tick    *)
(* goroutine do between each other's steps.                                *)
(***************************************************************************)
THEOREM ExpiriesOnce == Spec => []OnePlace
BY WheelInvariant, WheelInvImplies, PTL

(***************************************************************************)
(* Whatever the delay, the length of a tick and the number of slots, and   *)
(* wherever in the unlocked steps of the tick goroutine scheduleTimeOut    *)
(* reads the cursor, a timer is due exactly when the goroutine reaches it, *)
(* or one full round of the wheel before or after.                         *)
(***************************************************************************)
THEOREM DueWithinARound == Spec => []WithinARound
BY WheelInvariant, WheelInvImplies, PTL

(***************************************************************************)
(* A timer that Cancel did not find among those being notified never comes *)
(* back to the wheel.                                                      *)
(***************************************************************************)
THEOREM CancelFinal == Spec => []CancelIsFinal
BY WheelInvariant, WheelInvImplies, PTL

-----------------------------------------------------------------------------
(***************************************************************************)
(* The events.  Senders are told apart by their timer and the number of    *)
(* its expiry, whatever they read in the loop variable.                    *)
(*                                                                         *)
(* A loop over several timers has only shared ones, and only such a loop   *)
(* leaves a goroutine with a loop variable that is still changing.         *)
(***************************************************************************)
PassOK ==
  /\ (\E a, b \in tasks : a # b) => tasks \subseteq shared
  /\ task # Nil => /\ ticker = "notify" /\ tasks # {}
                   /\ tasks \subseteq shared /\ task \in shared

SenderOK(s) ==
  /\ s.times <= timer[s.own].expTimes
  /\ s.var = Nil => task # Nil /\ s.own \in shared
  /\ s.var # Nil /\ s.var # s.own => s.var \in shared /\ s.own \in shared
  /\ s.st = "sending" => s.ch \in Timers
  /\ s.st = "sending" /\ s.ch # s.own => s.ch \in shared /\ s.own \in shared

Distinct(ss) == \A s, o \in ss : s.own = o.own /\ s.times = o.times => s = o

\* The event of expiry k of t has a sender among ss.
Pending(t, k, ss) == \E s \in ss : s.own = t /\ s.times = k /\ s.st # "sent"

ArrivedOK(t) ==
  /\ delivered[t] \subseteq Expiries(t)
  /\ channel[t] # "nil" =>
       /\ \A k \in 1..timer[t].expTimes :
            <<t, k>> \in delivered[t] <=> ~Pending(t, k, senders)
       /\ channel[t] = "closed" => timer[t].expTimes = timer[t].times

EventInv ==
  /\ PassOK
  /\ \A s \in senders : SenderOK(s)
  /\ Distinct(senders)
  /\ \A t \in Timers \ shared : ArrivedOK(t)

LEMMA EventInvImplies ==
  ASSUME WheelInv, EventInv
  PROVE  EventsArrive
<1>1. senders \in SUBSET SenderRecord
  BY DEF WheelInv, TypeOK
<1> SUFFICES ASSUME NEW t \in Timers \ shared, channel[t] # "nil"
             PROVE  /\ delivered[t] \cup Unsent(t) = Expiries(t)
                    /\ delivered[t] \cap Unsent(t) = {}
                    /\ \A s \in senders : s.own = t /\ s.st = "sending" => s.ch = t
                    /\ channel[t] = "closed" => timer[t].expTimes = timer[t].times
  BY DEF EventsArrive
<1>2. ArrivedOK(t)
  BY DEF EventInv
<1>3. ASSUME NEW p
      PROVE  p \in Unsent(t) <=>
               \E k \in 1..timer[t].expTimes : p = <<t, k>> /\ Pending(t, k, senders)
  <2>1. ASSUME NEW s \in senders, s.own = t
        PROVE  s.times \in 1..timer[t].expTimes
    <3>1. s.times \in Nat \ {0} /\ s.times <= timer[t].expTimes
      BY <1>1, <2>1, SenderFields DEF EventInv, SenderOK
    <3>2. timer[t].expTimes \in Nat
      BY TimerType, Fields DEF WheelInv
    <3> QED
      BY <3>1, <3>2
  <2>2. p \in Unsent(t) <=>
          \E s \in senders : s.own = t /\ s.st # "sent" /\ p = <<t, s.times>>
    BY DEF Unsent
  <2> QED
    BY <2>1, <2>2 DEF Pending
<1>4. ASSUME NEW p
      PROVE  p \in Expiries(t) <=> \E k \in 1..timer[t].expTimes : p = <<t, k>>
  BY DEF Expiries
<1>5. delivered[t] \cup Unsent(t) = Expiries(t) /\ delivered[t] \cap Unsent(t) = {}
  BY <1>2, <1>3, <1>4 DEF ArrivedOK
<1>6. ASSUME NEW s \in senders, s.own = t, s.st = "sending" PROVE s.ch = t
  BY <1>6 DEF EventInv, SenderOK
<1> QED
  BY <1>2, <1>5, <1>6 DEF ArrivedOK

\* A timer whose events nothing concerns: no sender of it, its channel, its
\* expiries and what came out of its channel have changed.
LEMMA EventsStay ==
  ASSUME NEW t \in Timers, ArrivedOK(t), delivered'[t] = delivered[t],
         \A k \in 1..timer[t].expTimes : Pending(t, k, senders') <=> Pending(t, k, senders),
         timer'[t].expTimes = timer[t].expTimes,
         \/ timer[t].expTimes = 0 /\ channel'[t] # "closed"
         \/ /\ channel'[t] = "nil" <=> channel[t] = "nil"
            /\ channel'[t] = "closed" =>
                 channel[t] = "closed" \/ timer'[t].expTimes = timer'[t].times
            /\ timer'[t].times = timer[t].times
  PROVE  ArrivedOK(t)'
<1>1. Expiries(t)' = Expiries(t)
  BY DEF Expiries
<1>2. CASE timer[t].expTimes = 0 /\ channel'[t] # "closed"
  <2>1. 1..timer'[t].expTimes = {}
    BY <1>2
  <2> QED
    BY <1>1, <1>2, <2>1 DEF ArrivedOK
<1>3. CASE /\ channel'[t] = "nil" <=> channel[t] = "nil"
           /\ channel'[t] = "closed" =>
                channel[t] = "closed" \/ timer'[t].expTimes = timer'[t].times
           /\ timer'[t].times = timer[t].times
  BY <1>1, <1>3 DEF ArrivedOK
<1> QED
  BY <1>2, <1>3

\* A step that neither makes an event nor takes one.
LEMMA EventsAlone ==
  ASSUME EventInv, UNCHANGED <<senders, delivered, shared, task, tasks>>,
         ticker = "notify" => ticker' = "notify",
         \A t \in Timers :
           /\ timer'[t].expTimes = timer[t].expTimes
           /\ \/ timer[t].expTimes = 0 /\ channel'[t] # "closed"
              \/ channel'[t] = channel[t] /\ timer'[t].times = timer[t].times,
         senders \in SUBSET SenderRecord
  PROVE  EventInv'
<1>1. PassOK'
  BY DEF EventInv, PassOK
<1>2. ASSUME NEW s \in senders' PROVE SenderOK(s)'
  <2>1. s \in senders /\ SenderOK(s) /\ s.own \in Timers
    BY SenderFields DEF EventInv
  <2> QED
    BY <2>1 DEF SenderOK
<1>3. ASSUME NEW t \in Timers \ shared' PROVE ArrivedOK(t)'
  <2>1. t \in Timers \ shared /\ ArrivedOK(t)
    BY DEF EventInv
  <2> QED
    BY <2>1, EventsStay
<1>4. Distinct(senders')
  BY DEF EventInv
<1> QED
  BY <1>1, <1>2, <1>3, <1>4 DEF EventInv

LEMMA SendFields ==
  ASSUME NEW s \in SenderRecord, NEW t \in Timers \cup {Nil}
  PROVE  /\ LET q == [s EXCEPT !.st = "sending", !.ch = t]
            IN q.own = s.own /\ q.times = s.times /\ q.var = s.var
               /\ q.st = "sending" /\ q.ch = t
         /\ LET q == [s EXCEPT !.st = "sent"]
            IN q.own = s.own /\ q.times = s.times /\ q.var = s.var /\ q.st = "sent"
BY DEF SenderRecord

\* A sender that goes on is still the sender of its event.
LEMMA SenderGoesOn ==
  ASSUME EventInv, NEW s \in senders, NEW q, q.own = s.own, q.times = s.times,
         senders' = (senders \ {s}) \cup {q}
  PROVE  Distinct(senders')
BY DEF EventInv, Distinct

LEMMA SendEventEvents ==
  ASSUME WheelInv, EventInv, NEW s \in senders, SendEvent(s)
  PROVE  EventInv'
<1>1. /\ s.st = "new"
      /\ \/ senders' = (senders \ {s}) \cup {[s EXCEPT !.st = "sending", !.ch = TaskOf(s)]}
         \/ UNCHANGED senders
      /\ UNCHANGED <<ticker, wheelVars, tasks, task, channel, delivered, shared>>
  BY DEF SendEvent
<1>2. senders \in SUBSET SenderRecord /\ s \in SenderRecord /\ task \in Timers \cup {Nil}
  BY DEF WheelInv, TypeOK
<1>3. timer' = timer
  BY <1>1 DEF wheelVars
<1>4. CASE UNCHANGED senders
  BY <1>1, <1>2, <1>3, <1>4, EventsAlone
<1>5. CASE senders' = (senders \ {s}) \cup {[s EXCEPT !.st = "sending", !.ch = TaskOf(s)]}
  <2> DEFINE q == [s EXCEPT !.st = "sending", !.ch = TaskOf(s)]
  <2>1. SenderOK(s) /\ s.var \in Timers \cup {Nil} /\ PassOK
    BY <1>2, SenderFields DEF EventInv
  <2>2. TaskOf(s) \in Timers /\ (TaskOf(s) # s.own => TaskOf(s) \in shared /\ s.own \in shared)
    BY <1>2, <2>1 DEF TaskOf, SenderOK, PassOK
  <2>3. /\ q.own = s.own /\ q.times = s.times /\ q.var = s.var
        /\ q.st = "sending" /\ q.ch = TaskOf(s)
    BY <1>2, <2>2, SendFields
  <2> HIDE DEF q
  <2>4. senders' = (senders \ {s}) \cup {q}
    BY <1>5 DEF q
  <2>5. Distinct(senders')
    BY <2>3, <2>4, SenderGoesOn
  <2>6. ASSUME NEW t, NEW k
        PROVE  Pending(t, k, senders') <=> Pending(t, k, senders)
    BY <1>1, <2>3, <2>4 DEF Pending
  <2>7. ASSUME NEW t \in Timers \ shared' PROVE ArrivedOK(t)'
    <3>1. t \in Timers \ shared /\ ArrivedOK(t)
      BY <1>1 DEF EventInv
    <3> QED
      BY <1>1, <1>3, <2>6, <3>1, EventsStay
  <2>8. ASSUME NEW o \in senders' PROVE SenderOK(o)'
    <3>1. CASE o = q
      BY <1>1, <1>3, <2>1, <2>2, <2>3, <3>1 DEF SenderOK
    <3>2. CASE o \in senders
      BY <1>1, <1>3, <3>2 DEF EventInv, SenderOK
    <3> QED
      BY <2>4, <3>1, <3>2
  <2>9. PassOK'
    BY <1>1, <2>1 DEF PassOK
  <2> QED
    BY <2>5, <2>7, <2>8, <2>9 DEF EventInv
<1> QED
  BY <1>1, <1>4, <1>5

LEMMA ReceiveEventEvents ==
  ASSUME WheelInv, EventInv, NEW s \in senders, ReceiveEvent(s)
  PROVE  EventInv'
<1> DEFINE q == [s EXCEPT !.st = "sent"]
<1>1. /\ s.st = "sending"
      /\ delivered' = [delivered EXCEPT ![s.ch] = @ \cup {<<s.own, s.times>>}]
      /\ senders' = (senders \ {s}) \cup {q}
      /\ UNCHANGED <<ticker, wheelVars, tasks, task, channel, shared>>
  BY DEF ReceiveEvent
<1>2. /\ senders \in SUBSET SenderRecord /\ s \in SenderRecord
      /\ delivered \in [Timers -> SUBSET (Timers \X Nat)]
  BY DEF WheelInv, TypeOK
<1>3. timer' = timer
  BY <1>1 DEF wheelVars
<1>4. SenderOK(s) /\ s.ch \in Timers /\ PassOK
  BY <1>1 DEF EventInv, SenderOK
<1>5. q.own = s.own /\ q.times = s.times /\ q.var = s.var /\ q.st = "sent"
  BY <1>2, <1>4, SendFields
<1> HIDE DEF q
<1>6. Distinct(senders')
  BY <1>1, <1>5, SenderGoesOn
<1>7. ASSUME NEW t \in Timers \ shared' PROVE ArrivedOK(t)'
  <2>1. t \in Timers \ shared /\ ArrivedOK(t)
    BY <1>1 DEF EventInv
  <2>2. CASE t # s.own
    <3>1. t # s.ch
      BY <1>1, <1>4, <2>1, <2>2 DEF SenderOK
    <3>2. delivered'[t] = delivered[t]
      BY <1>1, <1>2, <3>1
    <3>3. ASSUME NEW k PROVE Pending(t, k, senders') <=> Pending(t, k, senders)
      BY <1>1, <1>5, <2>2 DEF Pending
    <3> QED
      BY <1>1, <1>3, <2>1, <3>2, <3>3, EventsStay
  <2>3. CASE t = s.own
    <3>1. t = s.ch
      BY <1>1, <1>4, <2>1, <2>3 DEF SenderOK
    <3>2. delivered'[t] = delivered[t] \cup {<<t, s.times>>}
      BY <1>1, <1>2, <2>3, <3>1
    <3>3. s.times \in 1..timer[t].expTimes
      <4>1. s.times \in Nat \ {0} /\ s.times <= timer[t].expTimes
        BY <1>2, <1>4, <2>3, SenderFields DEF SenderOK
      <4>2. timer[t].expTimes \in Nat
        BY TimerType, Fields DEF WheelInv
      <4> QED
        BY <4>1, <4>2
    <3>4. Expiries(t)' = Expiries(t) /\ <<t, s.times>> \in Expiries(t)
      BY <1>3, <3>3 DEF Expiries
    <3>5. ~Pending(t, s.times, senders')
      BY <1>1, <1>5, <2>3 DEF EventInv, Distinct, Pending
    <3>6. ASSUME NEW k, k # s.times
          PROVE  Pending(t, k, senders') <=> Pending(t, k, senders)
      BY <1>1, <1>5, <3>6 DEF Pending
    <3>7. ASSUME NEW k \in 1..timer[t].expTimes, channel[t] # "nil"
          PROVE  <<t, k>> \in delivered'[t] <=> ~Pending(t, k, senders')
      <4>1. CASE k = s.times
        BY <3>2, <3>5, <4>1
      <4>2. CASE k # s.times
        <5>1. <<t, k>> \in delivered'[t] <=> <<t, k>> \in delivered[t]
          BY <3>2, <4>2
        <5> QED
          BY <2>1, <3>6, <3>7, <4>2, <5>1 DEF ArrivedOK
      <4> QED
        BY <4>1, <4>2
    <3>8. delivered'[t] \subseteq Expiries(t)'
      BY <2>1, <3>2, <3>4 DEF ArrivedOK
    <3> QED
      BY <1>1, <1>3, <2>1, <3>7, <3>8 DEF ArrivedOK
  <2> QED
    BY <2>2, <2>3
<1>8. ASSUME NEW o \in senders' PROVE SenderOK(o)'
  <2>1. CASE o = q
    BY <1>1, <1>3, <1>4, <1>5, <2>1 DEF SenderOK
  <2>2. CASE o \in senders
    BY <1>1, <1>3, <2>2 DEF EventInv, SenderOK
  <2> QED
    BY <1>1, <2>1, <2>2
<1>9. PassOK'
  BY <1>1, <1>4 DEF PassOK
<1> QED
  BY <1>6, <1>7, <1>8, <1>9 DEF EventInv

LEMMA EndSendEvents ==
  ASSUME WheelInv, EventInv, NEW s \in senders, EndSend(s)
  PROVE  EventInv'
<1>1. /\ s.st = "sent" /\ senders' = senders \ {s}
      /\ \/ channel' = channel
         \/ /\ s.times = timer[TaskOf(s)].times /\ channel[TaskOf(s)] = "open"
            /\ channel' = [channel EXCEPT ![TaskOf(s)] = "closed"]
      /\ UNCHANGED <<ticker, wheelVars, tasks, task, delivered, shared>>
  BY DEF EndSend
<1>2. /\ channel \in [Timers -> {"nil", "open", "closed"}] /\ timer' = timer
      /\ senders \in SUBSET SenderRecord
  BY <1>1 DEF WheelInv, TypeOK, wheelVars
<1>3. SenderOK(s) /\ PassOK
  BY DEF EventInv
<1>4. ASSUME NEW t \in Timers \ shared' PROVE ArrivedOK(t)'
  <2>1. t \in Timers \ shared /\ ArrivedOK(t)
    BY <1>1 DEF EventInv
  <2>2. ASSUME NEW k PROVE Pending(t, k, senders') <=> Pending(t, k, senders)
    BY <1>1 DEF Pending
  <2>3. channel'[t] = "nil" <=> channel[t] = "nil"
    BY <1>1, <1>2
  <2>4. ASSUME channel'[t] = "closed", channel[t] # "closed"
        PROVE  timer[t].expTimes = timer[t].times
    <3>1. t = TaskOf(s) /\ s.times = timer[t].times
      BY <1>1, <1>2, <2>4
    <3>2. s.own = t
      BY <1>3, <2>1, <3>1 DEF TaskOf, SenderOK, PassOK
    <3>3. timer[t].times <= timer[t].expTimes
      BY <1>3, <3>1, <3>2 DEF SenderOK
    <3>4. timer[t].expTimes <= timer[t].times
      BY DEF WheelInv, TimerOK, PlaceOK
    <3>5. timer[t].expTimes \in Nat /\ timer[t].times \in Nat
      BY TimerType, Fields DEF WheelInv
    <3> QED
      BY <3>3, <3>4, <3>5
  <2> QED
    BY <1>1, <1>2, <2>1, <2>2, <2>3, <2>4, EventsStay
<1>5. ASSUME NEW o \in senders' PROVE SenderOK(o)'
  BY <1>1, <1>2 DEF EventInv, SenderOK
<1>6. Distinct(senders')
  BY <1>1 DEF EventInv, Distinct
<1>7. PassOK'
  BY <1>1, <1>3 DEF PassOK
<1> QED
  BY <1>4, <1>5, <1>6, <1>7 DEF EventInv

\* The sender s after a pass of the loop with the timer t, the last one if last.
Bound(s, t, last) == [s EXCEPT !.var = IF @ = Nil /\ last THEN t ELSE @]

LEMMA BoundFields ==
  ASSUME NEW s \in SenderRecord, NEW t \in Timers, NEW last \in BOOLEAN
  PROVE  /\ Bound(s, t, last).own = s.own /\ Bound(s, t, last).times = s.times
         /\ Bound(s, t, last).st = s.st /\ Bound(s, t, last).ch = s.ch
         /\ Bound(s, t, last).var = IF s.var = Nil /\ last THEN t ELSE s.var
BY DEF SenderRecord, Bound

LEMMA NotifyEvents ==
  ASSUME WheelInv, EventInv, NEW t \in Timers, notifyExpiredTimeOut(t)
  PROVE  EventInv'
<1> DEFINE n == timer[t].expTimes + 1
           r == [timer[t] EXCEPT !.expTimes = @ + 1]
           made == [own |-> t, times |-> r.expTimes, var |-> Nil, st |-> "new",
                    ch |-> Nil]
           new == IF channel[t] = "nil" THEN {} ELSE {made}
<1>1. /\ ticker = "notify" /\ t \in tasks /\ tasks' = tasks \ {t}
      /\ task' = IF tasks' = {} THEN Nil ELSE t
      /\ ticker' = IF tasks' = {} THEN "select" ELSE "notify"
      /\ scheduleTimeOut(t, r) \/ timer' = [timer EXCEPT ![t] = r]
      /\ senders' = {Bound(s, t, tasks' = {}) : s \in senders \cup new}
      /\ UNCHANGED <<channel, delivered, shared>>
  BY DEF notifyExpiredTimeOut, Bound
<1>2. senders \in SUBSET SenderRecord /\ timer \in [Timers -> TimerRecord]
  BY DEF WheelInv, TypeOK, TimerRecord
<1>3. /\ r \in TimerRecord /\ r.expTimes = n /\ r.times = timer[t].times
      /\ timer[t].expTimes \in Nat
  <2>1. timer[t] \in TimerRecord
    BY <1>2
  <2> QED
    BY <2>1, WithExpiry, Fields
<1>4. \A u \in Timers :
        /\ timer'[u].expTimes = IF u = t THEN n ELSE timer[u].expTimes
        /\ timer'[u].times = timer[u].times
  <2> HIDE DEF r
  <2>1. CASE timer' = [timer EXCEPT ![t] = r]
    BY <1>2, <1>3, <2>1
  <2>2. CASE scheduleTimeOut(t, r)
    <3>1. timer' = [timer EXCEPT ![t] = [r EXCEPT !.rounds = roundsFor(r.delay)]]
      BY <2>2 DEF scheduleTimeOut
    <3>2. /\ [r EXCEPT !.rounds = roundsFor(r.delay)].expTimes = n
          /\ [r EXCEPT !.rounds = roundsFor(r.delay)].times = timer[t].times
      BY <1>3 DEF TimerRecord
    <3> QED
      BY <1>2, <3>1, <3>2
  <2> QED
    BY <1>1, <2>1, <2>2
<1>5. /\ made \in SenderRecord /\ made.own = t /\ made.times = n
      /\ made.var = Nil /\ made.st = "new"
  <2>1. r.expTimes \in Nat \ {0}
    BY <1>3
  <2> HIDE DEF r
  <2> QED
    BY <1>3, <2>1 DEF SenderRecord
<1> HIDE DEF made, r
<1>6. \A s \in senders : s.own = t => s.times # n
  <2>1. ASSUME NEW s \in senders, s.own = t PROVE s.times # n
    <3>1. s.times <= timer[t].expTimes /\ s.times \in Nat
      BY <1>2, <2>1, SenderFields DEF EventInv, SenderOK
    <3> QED
      BY <3>1, <1>3
  <2> QED
    BY <2>1
<1>7. /\ senders \cup new \in SUBSET SenderRecord
      /\ Distinct(senders \cup new)
  <2>1. senders \cup new \in SUBSET SenderRecord
    BY <1>2, <1>5
  <2>2. \A s \in senders : ~(s.own = made.own /\ s.times = made.times)
    BY <1>5, <1>6
  <2> QED
    BY <2>1, <2>2 DEF EventInv, Distinct
<1>8. PICK last \in BOOLEAN : last = (tasks' = {})
  OBVIOUS
<1>9. senders' = {Bound(s, t, last) : s \in senders \cup new}
  BY <1>1, <1>8
<1>10. \A s \in senders \cup new :
         /\ s \in SenderRecord
         /\ Bound(s, t, last).own = s.own /\ Bound(s, t, last).times = s.times
         /\ Bound(s, t, last).st = s.st /\ Bound(s, t, last).ch = s.ch
         /\ Bound(s, t, last).var = IF s.var = Nil /\ last THEN t ELSE s.var
  BY <1>7, BoundFields
<1>11. Distinct(senders')
  BY <1>7, <1>9, <1>10 DEF Distinct
<1>12. ASSUME NEW u, NEW k
       PROVE  Pending(u, k, senders') <=>
                \/ Pending(u, k, senders)
                \/ u = t /\ k = n /\ channel[t] # "nil"
  <2>1. Pending(u, k, senders') <=> Pending(u, k, senders \cup new)
    BY <1>9, <1>10 DEF Pending
  <2>2. Pending(u, k, new) <=> u = t /\ k = n /\ channel[t] # "nil"
    <3>1. CASE channel[t] = "nil"
      BY <3>1 DEF Pending
    <3>2. CASE channel[t] # "nil"
      <4> HIDE DEF n
      <4> QED
        BY <3>2, <1>5 DEF Pending
    <3> QED
      BY <3>1, <3>2
  <2>3. Pending(u, k, senders \cup new) <=> Pending(u, k, senders) \/ Pending(u, k, new)
    BY DEF Pending
  <2> QED
    BY <2>1, <2>2, <2>3
<1>13. /\ ~last => tasks \subseteq shared
       /\ task # Nil => tasks \subseteq shared /\ task \in shared
       /\ (\E a, b \in tasks : a # b) => tasks \subseteq shared
  <2>1. PassOK
    BY DEF EventInv
  <2>2. ASSUME ~last PROVE \E a, b \in tasks : a # b
    BY <1>1, <1>8, <2>2
  <2> QED
    BY <2>1, <2>2 DEF PassOK
<1>14. PassOK'
  <2>1. t # Nil
    BY WheelAssumption
  <2> QED
    BY <1>1, <1>8, <1>13, <2>1 DEF PassOK
<1>15. ASSUME NEW u \in Timers \ shared' PROVE ArrivedOK(u)'
  <2>1. u \in Timers \ shared /\ ArrivedOK(u)
    BY <1>1 DEF EventInv
  <2>2. CASE u # t
    BY <1>1, <1>4, <1>12, <2>1, <2>2, EventsStay
  <2>3. CASE u = t
    <3>1. timer[t].expTimes # timer[t].times
      <4>1. timer[t].expTimes < timer[t].times
        BY <1>1 DEF WheelInv, TimerOK, PlaceOK
      <4>2. timer[t].times \in Nat
        BY <1>2, Fields
      <4> QED
        BY <1>3, <4>1, <4>2
    <3>2. timer'[t].expTimes = n /\ 1..n = 1..timer[t].expTimes \cup {n}
      BY <1>3, <1>4
    <3>3. ~(n \in 1..timer[t].expTimes)
      BY <1>3
    <3> HIDE DEF n
    <3>4. /\ Expiries(t)' = Expiries(t) \cup {<<t, n>>}
          /\ <<t, n>> \notin Expiries(t)
      BY <3>2, <3>3 DEF Expiries
    <3>5. delivered'[t] = delivered[t] /\ delivered[t] \subseteq Expiries(t)
      BY <1>1, <2>1, <2>3 DEF ArrivedOK
    <3>6. ASSUME NEW k \in 1..timer[t].expTimes, channel[t] # "nil"
          PROVE  <<t, k>> \in delivered'[t] <=> ~Pending(t, k, senders')
      <4>1. k # n
        BY <3>3
      <4> QED
        BY <1>12, <2>1, <2>3, <3>5, <3>6, <4>1 DEF ArrivedOK
    <3>7. <<t, n>> \notin delivered'[t]
      BY <3>4, <3>5
    <3>8. ASSUME NEW k \in 1..n, channel[t] # "nil"
          PROVE  <<t, k>> \in delivered'[t] <=> ~Pending(t, k, senders')
      BY <1>12, <3>2, <3>6, <3>7, <3>8
    <3>9. channel[t] # "closed"
      BY <2>1, <2>3, <3>1 DEF ArrivedOK
    <3> QED
      BY <1>1, <2>3, <3>2, <3>4, <3>5, <3>8, <3>9 DEF ArrivedOK
  <2> QED
    BY <2>2, <2>3
<1>16. ASSUME NEW o \in senders' PROVE SenderOK(o)'
  <2>1. PICK s \in senders \cup new : o = Bound(s, t, last)
    BY <1>9
  <2>2. /\ s \in SenderRecord /\ o.own = s.own /\ o.times = s.times
        /\ o.st = s.st /\ o.ch = s.ch
        /\ o.var = IF s.var = Nil /\ last THEN t ELSE s.var
    BY <1>10, <2>1
  <2>3. s.times <= timer'[s.own].expTimes
    <3>1. CASE s \in senders
      <4>1. /\ s.times <= timer[s.own].expTimes /\ s.own \in Timers /\ s.times \in Nat
            /\ timer[s.own].expTimes \in Nat
        BY <1>2, <2>2, <3>1, SenderFields, Fields DEF EventInv, SenderOK
      <4> QED
        BY <4>1, <1>3, <1>4
    <3>2. CASE s \in new
      BY <3>2, <1>3, <1>4, <1>5
    <3> QED
      BY <3>1, <3>2
  <2>4. s.var = Nil => \/ s.own = t
                       \/ s.own \in shared /\ t \in shared
    <3>1. CASE s \in senders
      BY <3>1, <1>1, <1>13 DEF EventInv, SenderOK
    <3>2. CASE s \in new
      BY <3>2, <1>5
    <3> QED
      BY <3>1, <3>2
  <2>5. o.var = Nil => task' # Nil /\ o.own \in shared'
    <3>1. t # Nil
      BY WheelAssumption
    <3> QED
      BY <3>1, <2>2, <2>4, <1>1, <1>8, <1>13
  <2>6. o.var # Nil /\ o.var # o.own => o.var \in shared' /\ o.own \in shared'
    <3>1. CASE s.var = Nil
      BY <3>1, <2>2, <2>4, <1>1
    <3>2. CASE s.var # Nil
      <4>1. s \in senders
        BY <1>5, <3>2
      <4> QED
        BY <3>2, <4>1, <2>2, <1>1 DEF EventInv, SenderOK
    <3> QED
      BY <3>1, <3>2
  <2>7. o.st = "sending" => /\ o.ch \in Timers
                            /\ o.ch # o.own => o.ch \in shared' /\ o.own \in shared'
    <3>1. CASE s \in senders
      BY <3>1, <2>2, <1>1 DEF EventInv, SenderOK
    <3>2. CASE s \in new
      BY <3>2, <2>2, <1>5
    <3> QED
      BY <3>1, <3>2
  <2> QED
    BY <2>2, <2>3, <2>5, <2>6, <2>7 DEF SenderOK
<1> QED
  BY <1>11, <1>14, <1>15, <1>16 DEF EventInv

LEMMA EventInit ==
  Init => EventInv
<1> SUFFICES ASSUME Init PROVE EventInv
  OBVIOUS
<1>1. /\ \A t \in Timers : timer[t].expTimes = 0 /\ channel[t] = "nil" /\ delivered[t] = {}
      /\ senders = {} /\ tasks = {} /\ task = Nil
  BY DEF Init, Unused
<1> QED
  BY <1>1 DEF EventInv, PassOK, Distinct, ArrivedOK

LEMMA AfterEvents ==
  ASSUME WheelInv, EventInv, NEW call \in Calls, NEW c \in {"nil", "open"},
         After(call[1], call[2], call[3], c)
  PROVE  EventInv'
<1>1. PICK t \in Timers : t = call[1]
  BY WheelAssumption
<1> DEFINE r == [Unused EXCEPT !.delay = Ceil(call[2]),
                               !.times = IF call[3] <= 0 THEN Forever ELSE call[3]]
<1>2. /\ timer[t].times = 0
      /\ scheduleTimeOut(t, r) \/ UNCHANGED wheelVars
      /\ channel' = [channel EXCEPT ![t] = c]
      /\ UNCHANGED <<ticker, tasks, task, senders, delivered, shared>>
  BY <1>1 DEF After
<1>3. /\ timer \in [Timers -> TimerRecord] /\ senders \in SUBSET SenderRecord
      /\ channel \in [Timers -> {"nil", "open", "closed"}]
  BY DEF WheelInv, TypeOK, TimerRecord
<1>4. timer[t].expTimes = 0
  <2>1. timer[t].expTimes <= timer[t].times /\ timer[t].expTimes \in Nat
    BY <1>3, Fields DEF WheelInv, TimerOK, PlaceOK
  <2> QED
    BY <1>2, <2>1
<1>5. [r EXCEPT !.rounds = roundsFor(r.delay)].expTimes = 0
  BY DEF Unused
<1> HIDE DEF r
<1>6. \A u \in Timers : /\ timer'[u].expTimes = timer[u].expTimes
                        /\ u # t => timer'[u].times = timer[u].times
  <2>1. CASE scheduleTimeOut(t, r)
    BY <2>1, <1>3, <1>4, <1>5 DEF scheduleTimeOut
  <2>2. CASE UNCHANGED wheelVars
    BY <2>2 DEF wheelVars
  <2> QED
    BY <1>2, <2>1, <2>2
<1>7. ASSUME NEW u \in Timers
      PROVE  \/ timer[u].expTimes = 0 /\ channel'[u] # "closed"
             \/ channel'[u] = channel[u] /\ timer'[u].times = timer[u].times
  BY <1>2, <1>3, <1>4, <1>6
<1> QED
  BY <1>2, <1>3, <1>6, <1>7, EventsAlone

LEMMA FetchEvents ==
  ASSUME WheelInv, EventInv, fetchExpiredTimeouts
  PROVE  EventInv'
<1>1. /\ ticker = "fetch"
      /\ UNCHANGED <<task, senders, delivered, channel>>
      /\ \A t \in Timers : \/ timer'[t] = timer[t]
                           \/ timer'[t] = [timer[t] EXCEPT !.rounds = @ - 1]
      /\ shared' = shared \cup {t \in tasks' : tasks' # {t}}
  BY DEF fetchExpiredTimeouts
<1>2. timer \in [Timers -> TimerRecord] /\ senders \in SUBSET SenderRecord
  BY DEF WheelInv, TypeOK, TimerRecord
<1>3. \A r \in TimerRecord : /\ [r EXCEPT !.rounds = @ - 1].expTimes = r.expTimes
                             /\ [r EXCEPT !.rounds = @ - 1].times = r.times
  BY DEF TimerRecord
<1>4. \A t \in Timers : /\ timer'[t].expTimes = timer[t].expTimes
                        /\ timer'[t].times = timer[t].times
  BY <1>1, <1>2, <1>3
<1>5. task = Nil /\ task' = Nil
  BY <1>1 DEF EventInv, PassOK
<1>6. PassOK'
  BY <1>1, <1>5 DEF PassOK
<1>7. ASSUME NEW s \in senders' PROVE SenderOK(s)'
  <2>1. s \in senders /\ SenderOK(s) /\ s.own \in Timers
    BY <1>1, <1>2, SenderFields DEF EventInv
  <2> QED
    BY <2>1, <1>1, <1>4, <1>5 DEF SenderOK
<1>8. ASSUME NEW t \in Timers \ shared' PROVE ArrivedOK(t)'
  <2>1. t \in Timers \ shared /\ ArrivedOK(t)
    BY <1>1 DEF EventInv
  <2> QED
    BY <2>1, <1>1, <1>4, EventsStay
<1>9. Distinct(senders')
  BY <1>1 DEF EventInv
<1> QED
  BY <1>6, <1>7, <1>8, <1>9 DEF EventInv

LEMMA EventStep ==
  WheelInv /\ EventInv /\ [Next]_vars => EventInv'
<1> SUFFICES ASSUME WheelInv, EventInv, [Next]_vars PROVE EventInv'
  OBVIOUS
<1>1. ASSUME NEW call \in Calls, NEW c \in {"nil", "open"},
             After(call[1], call[2], call[3], c)
      PROVE  EventInv'
  BY <1>1, AfterEvents
<1>2. ASSUME NEW t \in Timers, notifyExpiredTimeOut(t) PROVE EventInv'
  BY <1>2, NotifyEvents
<1>3. CASE fetchExpiredTimeouts
  BY <1>3, FetchEvents
<1>4. ASSUME \/ \E t \in Timers : Cancel(t)
             \/ Start \/ Stop \/ Tick \/ WrapCursor \/ UNCHANGED vars
      PROVE  EventInv'
  <2>1. /\ timer' = timer /\ UNCHANGED <<senders, delivered, shared, channel, task, tasks>>
        /\ ticker = "notify" => ticker' = "notify"
    BY <1>4 DEF Cancel, Start, Stop, Tick, WrapCursor, vars, wheelVars, sendVars
  <2>2. senders \in SUBSET SenderRecord
    BY DEF WheelInv, TypeOK
  <2> QED
    BY <2>1, <2>2, EventsAlone
<1>5. ASSUME NEW s \in senders, SendEvent(s) \/ ReceiveEvent(s) \/ EndSend(s)
      PROVE  EventInv'
  BY <1>5, SendEventEvents, ReceiveEventEvents, EndSendEvents
<1> QED
  BY <1>1, <1>2, <1>3, <1>4, <1>5 DEF Next, TickerStep

(***************************************************************************)
(* The channel of a timer that never expired in the same tick as another   *)
(* one gets each of its events once, whatever the delay of the goroutines  *)
(* that send them, gets nothing else, and is closed after the last expiry  *)
(* only.  The goroutines are told apart by their timer and the number of   *)
(* the expiry; of those that read a loop variable that is not their own,   *)
(* both timers are shared.                                                 *)
(***************************************************************************)
THEOREM EventsReachTheirTimer == Spec => []EventsArrive
BY EventInvImplies, WheelInvariant, EventInit, EventStep, PTL DEF Spec
=============================================================================
