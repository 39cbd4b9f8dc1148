---------------------------- MODULE TimerWheel ----------------------------
(***************************************************************************)
(* gtime.TimerWheel: timers hashed over the slots of a wheel that a single *)
(* goroutine turns by one slot per tick.                                   *)
(*                                                                         *)
(* The tick goroutine increments and wraps wheelCursor without the lock,   *)
(* fetches the expired timers of the slot under it, and then notifies them *)
(* one by one without it, so its tick is cut into those steps.  Time is    *)
(* counted in the unit of TickDuration; a tick is one turn of the wheel.   *)
(***************************************************************************)
EXTENDS Integers, FiniteSets

CONSTANTS
  Timers,        \* timers that can be made, named by their ids
  Nil,           \* no timer
  WheelCount,    \* slots of the wheel
  TickDuration,
  Calls,         \* calls of After and AfterFunc: <<timer made, interval, times>>
  Forever        \* stands for 0x0FFFFFFF, the times of a timer without limit

ASSUME WheelAssumption ==
  /\ WheelCount \in Nat \ {0} /\ TickDuration \in Nat \ {0}
  /\ Calls \subseteq Timers \X Int \X Int
  /\ Forever \in Nat \ {0}
  /\ Nil \notin Timers

VARIABLES
  ticker,     \* the tick goroutine: "off", "select", "wrap", "fetch", "notify"
  wheelCursor,
  wheel,      \* wheel[s]: the timers in slot s
  timer,      \* timer[t]: the wheelTimeOut of t
  tasks,      \* expired timers still to be notified
  task,       \* the loop variable of notifyExpiredTimeOut
  senders,    \* goroutines that send expiry events
  channel,    \* channel[t]: "nil", "open" or "closed", the outCh of t
  delivered,  \* history: delivered[t]: the expiries (the timer, and which of
              \* its expiries) whose events came out of the channel of t
  shared,     \* history: the timers that expired together with another one
  crashed,    \* a goroutine has panicked
  age,        \* history: ticks since t was put into the wheel
  cancelled   \* history: cancelled[t]: the last Cancel of t found it "idle" or "notified"

wheelVars == <<wheelCursor, wheel, timer, age>>
sendVars == <<senders, channel, delivered, shared>>
vars == <<ticker, wheelVars, tasks, task, sendVars, crashed, cancelled>>

RoundDuration == TickDuration * WheelCount
Slots == 0..(WheelCount - 1)
InWheel(t) == \E s \in Slots : t \in wheel[s]

Unused == [delay |-> 0, times |-> 0, rounds |-> 0, expTimes |-> 0]

Init ==
  /\ ticker = "off"
  /\ wheelCursor = 0
  /\ wheel = [s \in Slots |-> {}]
  /\ timer = [t \in Timers |-> Unused]
  /\ tasks = {}
  /\ task = Nil
  /\ senders = {}
  /\ channel = [t \in Timers |-> "nil"]
  /\ delivered = [t \in Timers |-> {}]
  /\ shared = {}
  /\ crashed = FALSE
  /\ age = [t \in Timers |-> 0]
  /\ cancelled = [t \in Timers |-> "no"]

-----------------------------------------------------------------------------
(***************************************************************************)
(* scheduleTimeOut for a timer with delay d.                               *)
(***************************************************************************)
Ceil(d) == IF d < TickDuration THEN TickDuration ELSE d

\* Mutant: a delay that is not a multiple of the tick is rounded down.
relativeIndexDown(d) == (d % RoundDuration) \div TickDuration

relativeIndex(d) ==
  (d % RoundDuration) \div TickDuration + IF d % TickDuration # 0 THEN 1 ELSE 0

remainingRounds(d) ==
  d \div RoundDuration - IF d % RoundDuration = 0 THEN 1 ELSE 0

\* The wrap takes one more round, whether or not one is left to turn.
Wraps(d) == wheelCursor + relativeIndex(d) >= WheelCount
stopIndex(d) ==
  wheelCursor + relativeIndex(d) - IF Wraps(d) THEN WheelCount ELSE 0
roundsFor(d) == remainingRounds(d) + IF Wraps(d) THEN 1 ELSE 0

\* Put t, whose fields are those of r, into the wheel.
scheduleTimeOut(t, r) ==
  /\ stopIndex(r.delay) \in Slots
  /\ timer' = [timer EXCEPT ![t] = [r EXCEPT !.rounds = roundsFor(r.delay)]]
  /\ wheel' = [wheel EXCEPT ![stopIndex(r.delay)] = @ \cup {t}]
  /\ age' = [age EXCEPT ![t] = 0]
  /\ UNCHANGED wheelCursor

\* AfterFunc (c = "nil") and After (c = "open").  An interval that is not
\* positive is an error and changes nothing.  The cursor may be read between
\* its increment and its wrap; the index can then be out of range.
After(t, interval, times, c) ==
  /\ timer[t].times = 0
  /\ interval > 0
  /\ LET r == [Unused EXCEPT !.delay = Ceil(interval),
                             !.times = IF times <= 0 THEN Forever ELSE times]
     IN \/ scheduleTimeOut(t, r) /\ UNCHANGED crashed
        \/ stopIndex(r.delay) \notin Slots /\ crashed' = TRUE /\ UNCHANGED wheelVars
  /\ channel' = [channel EXCEPT ![t] = c]
  /\ UNCHANGED <<ticker, tasks, task, senders, delivered, shared, cancelled>>

\* Mutant: Cancel looks only into the slot where the timer was put first.
CancelOneSlot(t) ==
  /\ timer[t].times # 0
  /\ LET s == relativeIndex(timer[t].delay) % WheelCount
     IN wheel' = [wheel EXCEPT ![s] = @ \ {t}]
  /\ cancelled' = [cancelled EXCEPT ![t] = IF t \in tasks THEN "notified" ELSE "idle"]
  /\ UNCHANGED <<ticker, wheelCursor, timer, age, tasks, task, sendVars, crashed>>

Cancel(t) ==
  /\ timer[t].times # 0
  /\ wheel' = [s \in Slots |-> wheel[s] \ {t}]
  /\ cancelled' = [cancelled EXCEPT ![t] = IF t \in tasks THEN "notified" ELSE "idle"]
  /\ UNCHANGED <<ticker, wheelCursor, timer, age, tasks, task, sendVars, crashed>>

-----------------------------------------------------------------------------
(***************************************************************************)
(* The tick goroutine.  One is started at a time.                          *)
(***************************************************************************)
Start ==
  /\ ticker = "off"
  /\ ticker' = "select"
  /\ UNCHANGED <<wheelVars, tasks, task, sendVars, crashed, cancelled>>

\* Stop waits for the tick goroutine to receive from quit.
Stop ==
  /\ ticker = "select"
  /\ ticker' = "off"
  /\ UNCHANGED <<wheelVars, tasks, task, sendVars, crashed, cancelled>>

Tick ==
  /\ ticker = "select"
  /\ wheelCursor' = wheelCursor + 1
  /\ ticker' = "wrap"
  /\ age' = [t \in Timers |-> IF InWheel(t) THEN age[t] + 1 ELSE age[t]]
  /\ UNCHANGED <<wheel, timer, tasks, task, sendVars, crashed, cancelled>>

WrapCursor ==
  /\ ticker = "wrap"
  /\ wheelCursor' = IF wheelCursor = WheelCount THEN 0 ELSE wheelCursor
  /\ ticker' = "fetch"
  /\ UNCHANGED <<wheel, timer, age, tasks, task, sendVars, crashed, cancelled>>

fetchExpiredTimeouts ==
  /\ ticker = "fetch"
  /\ LET expired == {t \in wheel[wheelCursor] : timer[t].rounds <= 0}
     IN /\ tasks' = expired
        /\ wheel' = [wheel EXCEPT ![wheelCursor] = @ \ expired]
        /\ timer' = [t \in Timers |->
                       IF t \in wheel[wheelCursor] \ expired
                       THEN [timer[t] EXCEPT !.rounds = @ - 1] ELSE timer[t]]
        /\ shared' = shared \cup {t \in expired : expired # {t}}
  /\ ticker' = IF tasks' = {} THEN "select" ELSE "notify"
  /\ UNCHANGED <<wheelCursor, age, task, senders, channel, delivered, crashed, cancelled>>

\* Mutant: one expiry too many.
TimesLeftOffByOne(r) == r.expTimes <= r.times
\* Mutant: the last expiry is not scheduled.
TimesLeftShort(r) == r.expTimes + 1 < r.times
TimesLeft(r) == r.expTimes < r.times

\* One pass of the loop of notifyExpiredTimeOut; the slice is in the order of
\* a map.  The goroutines it starts share the loop variable, which keeps its
\* last value when the loop ends.
notifyExpiredTimeOut(t) ==
  /\ ticker = "notify"
  /\ t \in tasks
  /\ tasks' = tasks \ {t}
  /\ task' = IF tasks' = {} THEN Nil ELSE t
  /\ LET r == [timer[t] EXCEPT !.expTimes = @ + 1]
         new == IF channel[t] = "nil" THEN {}    \* go task.task()
                ELSE {[own |-> t, times |-> r.expTimes, var |-> Nil, st |-> "new",
                       ch |-> Nil]}
     IN /\ \/ TimesLeft(r) /\ scheduleTimeOut(t, r)
           \/ /\ ~TimesLeft(r)
              /\ timer' = [timer EXCEPT ![t] = r]
              /\ UNCHANGED <<wheelCursor, wheel, age>>
        /\ senders' = {[s EXCEPT !.var = IF @ = Nil /\ tasks' = {} THEN t ELSE @] :
                         s \in senders \cup new}
  /\ ticker' = IF tasks' = {} THEN "select" ELSE "notify"
  /\ UNCHANGED <<channel, delivered, shared, crashed, cancelled>>

-----------------------------------------------------------------------------
(***************************************************************************)
(* The goroutine that sends an event.  It reads the loop variable each     *)
(* time it uses it: var is Nil while the loop that started it is running.  *)
(***************************************************************************)
TaskOf(s) == IF s.var = Nil THEN task ELSE s.var

\* Mutant: an event that nobody is there to receive is dropped.
SendOrDrop(s) ==
  /\ s.st = "new"
  /\ channel[TaskOf(s)] # "closed"
  /\ senders' = (senders \ {s}) \cup {[s EXCEPT !.st = "sent", !.ch = TaskOf(s)]}
  /\ UNCHANGED <<ticker, wheelVars, tasks, task, channel, delivered, shared,
                 crashed, cancelled>>

\* It evaluates task.outCh and blocks on it (for ever if it is nil).
SendEvent(s) ==
  /\ s.st = "new"
  /\ \/ /\ channel[TaskOf(s)] # "closed"
        /\ senders' = (senders \ {s}) \cup {[s EXCEPT !.st = "sending", !.ch = TaskOf(s)]}
        /\ UNCHANGED crashed
     \/ channel[TaskOf(s)] = "closed" /\ crashed' = TRUE /\ UNCHANGED senders
  /\ UNCHANGED <<ticker, wheelVars, tasks, task, channel, delivered, shared, cancelled>>

\* The receiver of channel ch takes the event.
ReceiveEvent(s) ==
  /\ s.st = "sending"
  /\ channel[s.ch] = "open"
  /\ delivered' = [delivered EXCEPT ![s.ch] = @ \cup {<<s.own, s.times>>}]
  /\ senders' = (senders \ {s}) \cup {[s EXCEPT !.st = "sent"]}
  /\ UNCHANGED <<ticker, wheelVars, tasks, task, channel, shared, crashed, cancelled>>

\* The last event closes the channel, under a goroutine blocked on it if any.
EndSend(s) ==
  /\ s.st = "sent"
  /\ LET t == TaskOf(s)
         closes == s.times = timer[t].times
     IN \/ /\ ~closes \/ channel[t] = "open"
           /\ channel' = IF closes THEN [channel EXCEPT ![t] = "closed"] ELSE channel
           /\ crashed' = (closes /\ \E o \in senders : o.st = "sending" /\ o.ch = t)
        \/ /\ closes /\ channel[t] # "open"
           /\ crashed' = TRUE
           /\ UNCHANGED channel
  /\ senders' = senders \ {s}
  /\ UNCHANGED <<ticker, wheelVars, tasks, task, delivered, shared, cancelled>>

TickerStep ==
  \/ Tick \/ WrapCursor \/ fetchExpiredTimeouts
  \/ \E t \in Timers : notifyExpiredTimeOut(t)

Next ==
  /\ ~crashed
  /\ \/ \E call \in Calls, c \in {"nil", "open"} : After(call[1], call[2], call[3], c)
     \/ \E t \in Timers : Cancel(t)
     \/ Start \/ Stop \/ TickerStep
     \/ \E s \in senders : SendEvent(s) \/ ReceiveEvent(s) \/ EndSend(s)

Spec == Init /\ [][Next]_vars

(***************************************************************************)
(* The ticker ticks and its goroutine is scheduled.  Nothing is assumed of *)
(* callers and of the receivers of events.                                 *)
(***************************************************************************)
FairSpec == Spec /\ WF_vars(TickerStep /\ ~crashed)
-----------------------------------------------------------------------------
SenderRecord ==
  [own : Timers, times : Nat \ {0}, var : Timers \cup {Nil},
   st : {"new", "sending", "sent"}, ch : Timers \cup {Nil}]

\* Type invariant; wheelCursor is WheelCount only before its wrap.
TypeOK ==
  /\ ticker \in {"off", "select", "wrap", "fetch", "notify"}
  /\ wheelCursor \in Slots \/ (wheelCursor = WheelCount /\ ticker = "wrap")
  /\ wheel \in [Slots -> SUBSET Timers]
  /\ timer \in [Timers -> [delay : Nat, times : Nat, rounds : Nat, expTimes : Nat]]
  /\ tasks \in SUBSET Timers /\ task \in Timers \cup {Nil}
  /\ senders \in SUBSET SenderRecord
  /\ channel \in [Timers -> {"nil", "open", "closed"}]
  /\ delivered \in [Timers -> SUBSET (Timers \X Nat)]
  /\ shared \in SUBSET Timers
  /\ crashed \in BOOLEAN
  /\ age \in [Timers -> Nat]
  /\ cancelled \in [Timers -> {"no", "idle", "notified"}]

(***************************************************************************)
(* A timer is in one place: one slot of the wheel, or the expired timers   *)
(* being notified, or none; so no expiry is seen twice.  It has expired at *)
(* most `times` times, and in the wheel it has an expiry left.             *)
(***************************************************************************)
OnePlace ==
  /\ TypeOK
  /\ \A t \in Timers :
       /\ \A s1, s2 \in Slots : t \in wheel[s1] \cap wheel[s2] => s1 = s2
       /\ t \in tasks => ~InWheel(t)
       /\ timer[t].expTimes <= timer[t].times
       /\ InWheel(t) \/ t \in tasks => timer[t].expTimes < timer[t].times

\* Ticks until the tick goroutine looks at slot s next.
TicksTo(s) ==
  IF ticker \in {"wrap", "fetch"} THEN (s - wheelCursor) % WheelCount
  ELSE ((s - wheelCursor - 1) % WheelCount) + 1

\* The tick at which a timer is due, counted from its scheduling.
Due(t) == (timer[t].delay + TickDuration - 1) \div TickDuration

\* How many ticks too late (if negative, too early) t in slot s will expire.
Lateness(t, s) == age[t] + TicksTo(s) + timer[t].rounds * WheelCount - Due(t)

(***************************************************************************)
(* Wherever in the tick goroutine's unlocked steps a timer is scheduled,   *)
(* it expires when it is due, or one full round of the wheel before or     *)
(* after that, and never at any other time.                                *)
(***************************************************************************)
WithinARound ==
  \A s \in Slots : \A t \in wheel[s] : Lateness(t, s) \in {-WheelCount, 0, WheelCount}

(***************************************************************************)
(* Cancel of a timer that is not being notified at that moment is final:   *)
(* the timer neither returns to the wheel nor expires again.               *)
(***************************************************************************)
CancelIsFinal ==
  \A t \in Timers : cancelled[t] = "idle" => ~InWheel(t) /\ t \notin tasks

(***************************************************************************)
(* The channel of After gets the events of its timer: each expiry is       *)
(* received from that channel once, or a goroutine is still to send it     *)
(* there, however late the goroutines run and the receiver comes, nothing  *)
(* else comes out of it, and it is closed only after the last expiry.      *)
(* Only of a timer that never expired in the same tick as another one: the *)
(* goroutines of such timers share the loop variable, and may then send to *)
(* each other's channels, or block for ever on the nil channel of a timer  *)
(* made by AfterFunc.                                                      *)
(***************************************************************************)
Expiries(t) == {t} \X (1..timer[t].expTimes)
Unsent(t) ==
  {<<s.own, s.times>> : s \in {o \in senders : o.own = t /\ o.st # "sent"}}

EventsArrive ==
  \A t \in Timers \ shared : channel[t] # "nil" =>
    /\ delivered[t] \cup Unsent(t) = Expiries(t)
    /\ delivered[t] \cap Unsent(t) = {}
    /\ \A s \in senders : s.own = t /\ s.st = "sending" => s.ch = t
    /\ channel[t] = "closed" => timer[t].expTimes = timer[t].times

(***************************************************************************)
(* A timer that is not cancelled expires as often as it was asked to, as   *)
(* long as the wheel turns.                                                *)
(***************************************************************************)
Expires ==
  \A t \in Timers :
    (timer[t].times # 0) ~>
      \/ timer[t].expTimes = timer[t].times
      \/ cancelled[t] # "no"
      \/ ticker = "off" \/ crashed
=============================================================================
