---------------------------- MODULE TimeoutCond ----------------------------
(***************************************************************************)
(* gconcurrent.TimeoutCond: a condition variable whose Wait also ends when *)
(* a context is done or when the condition is interrupted.                 *)
(*                                                                         *)
(* The module gives the state of a set Conds of conditions that share one  *)
(* lock, and the pieces of their operations that a client composes into    *)
(* its own actions.  Everything between L.Lock and L.Unlock is one step of *)
(* the client; what runs without the lock (the select of Wait) is a step   *)
(* of its own, so that signals, interrupts and cancellations may happen    *)
(* before it.                                                              *)
(*                                                                         *)
(* Channels of `signal` are numbered: Interrupt closes the current one and *)
(* makes the next, so a channel is closed iff its number is not signal[c]. *)
(***************************************************************************)
EXTENDS Naturals, FiniteSets

CONSTANTS
  Goroutines,   \* goroutines that may call Wait
  Conds         \* the conditions

ASSUME GoroutinesAssumption == IsFiniteSet(Goroutines)

VARIABLES
  hasWaiters,   \* hasWaiters[c]: the counter of condition c
  signal,       \* signal[c]: number of the current channel of condition c
  wait,         \* wait[g]: where goroutine g is inside Wait
  done          \* goroutines whose context is done

condVars == <<hasWaiters, signal, wait, done>>

(***************************************************************************)
(* wait[g].st is "out" outside Wait, "unlocked" after L.Unlock and before  *)
(* the select, "parked" while blocked in the select, and "woken" when the  *)
(* select has returned and L.Lock has not.  ch is the channel copied under *)
(* the lock, interrupted the value Wait is going to return.                *)
(***************************************************************************)
WaitStates == {"out", "unlocked", "parked", "woken"}

Out == [st |-> "out", on |-> "none", ch |-> 0, interrupted |-> FALSE]

WaitRecord ==
  {Out} \cup [st : WaitStates \ {"out"}, on : Conds, ch : Nat, interrupted : BOOLEAN]

\* The goroutines between addWaiter and removeWaiter on c.
InWait(c) == {g \in Goroutines : wait[g].st # "out" /\ wait[g].on = c}

\* Receivers blocked on the current channel of c, in waiting states w.
Parked(c, w) ==
  {g \in Goroutines : w[g].st = "parked" /\ w[g].on = c /\ w[g].ch = signal[c]}

CondInit ==
  /\ hasWaiters = [c \in Conds |-> 0]
  /\ signal = [c \in Conds |-> 0]
  /\ wait = [g \in Goroutines |-> Out]
  /\ done = {}

-----------------------------------------------------------------------------
\* The select of Wait is over for g; L.Lock comes next.
Wake(w, g, i) == [w EXCEPT ![g] = [@ EXCEPT !.st = "woken", !.interrupted = i]]

(***************************************************************************)
(* Signal: hand a value to one goroutine blocked on the channel, or do     *)
(* nothing when none is blocked.  The possible waiting states after it;    *)
(* the runtime takes receivers in their order of arrival, the model any.   *)
(***************************************************************************)
Signal(c, w) ==
  IF Parked(c, w) = {} THEN {w}
  ELSE {Wake(w, g, FALSE) : g \in Parked(c, w)}

AddWaiter(c, hw) == [hw EXCEPT ![c] = @ + 1]

\* The first half of Wait, under the lock: addWaiter, copy signal, Unlock.
\* hw and w are the counters and waiting states before it.
StartWait(g, c, hw, w) ==
  /\ hasWaiters' = AddWaiter(c, hw)
  /\ wait' = [w EXCEPT ![g] = [st |-> "unlocked", on |-> c, ch |-> signal[c],
                               interrupted |-> FALSE]]

\* Mutant: removeWaiter is not deferred, a returning Wait keeps its count.
NoRemoveWaiter(g, hw) == hw

\* The counters after the deferred removeWaiter of g, which runs under L.
RemoveWaiter(g, hw) == [hw EXCEPT ![wait[g].on] = @ - 1]

\* Mutant: Wait reads cond.signal at the select and not under the lock, so
\* that the channel it finds is always the open one.
NeverClosed(g) == FALSE

\* The channel that g copied has been closed by Interrupt.
Closed(g) == wait[g].ch # signal[wait[g].on]

\* Select: g reaches the select of Wait and finds a case ready or blocks.
Select(g) ==
  /\ wait[g].st = "unlocked"
  /\ \/ Closed(g) /\ wait' = Wake(wait, g, TRUE)
     \/ g \in done /\ wait' = Wake(wait, g, FALSE)
     \/ ~Closed(g) /\ g \notin done /\ wait' = [wait EXCEPT ![g].st = "parked"]
  /\ UNCHANGED <<hasWaiters, signal, done>>

\* The context of g ends: the closed Done channel ends a select that is
\* blocked on it, and is found by a select that comes later.
ContextDone(g) ==
  /\ g \notin done
  /\ done' = done \cup {g}
  /\ wait' = IF wait[g].st = "parked" THEN Wake(wait, g, FALSE) ELSE wait
  /\ UNCHANGED <<hasWaiters, signal>>

\* Interrupt: close the channel, which ends the select of every goroutine
\* blocked on it, and make a new one.
Interrupt(c) ==
  /\ wait' = [g \in Goroutines |->
                IF g \in Parked(c, wait)
                THEN [wait[g] EXCEPT !.st = "woken", !.interrupted = TRUE]
                ELSE wait[g]]
  /\ signal' = [signal EXCEPT ![c] = @ + 1]
  /\ UNCHANGED <<hasWaiters, done>>

\* HasWaiters: whether any goroutine is waiting on c, by the counter.
HasWaiters(c) == hasWaiters[c] > 0
=============================================================================
