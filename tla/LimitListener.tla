--------------------------- MODULE LimitListener ---------------------------
(***************************************************************************)
(* gnet.NewLimitListener: a net.Listener that counts the connections it    *)
(* has handed out, and turns callers of Accept away when there are too     *)
(* many.                                                                   *)
(*                                                                         *)
(* Goroutines and connections are alike, so the state counts how many of   *)
(* them are at each point of acquire, Accept and release.  The atomic add  *)
(* on cur and the use of the channel sem that follows it are two steps.    *)
(***************************************************************************)
EXTENDS Integers

CONSTANTS
  Max,           \* the limit n; also the capacity of sem
  MaxAcceptors,  \* bound on the goroutines inside Accept
  MaxConns,      \* bound on the connections
  MaxRejected    \* bound on the calls that are turned away

ASSUME ListenerAssumption ==
  /\ Max \in Nat \ {0}
  /\ MaxAcceptors \in Nat /\ MaxConns \in Nat /\ MaxRejected \in Nat

VARIABLES
  cur,        \* the counter of connections
  sem,        \* number of values in the channel sem
  acquiring,  \* calls of acquire that found cur > max and come to the select
  accepting,  \* calls in the Accept of the wrapped listener, ok = TRUE
  refusing,   \* calls in the Accept of the wrapped listener, ok = FALSE
  open,       \* connections handed out and not closed
  popping,    \* calls of release that are at <-l.sem, in Accept or Close
  closed,     \* connections on which Close was called, still held by a user
  rejected    \* history: acquires that the full channel sem turned down

vars == <<cur, sem, acquiring, accepting, refusing, open, popping, closed, rejected>>

Init ==
  /\ cur = 0 /\ sem = 0 /\ acquiring = 0 /\ accepting = 0 /\ refusing = 0
  /\ open = 0 /\ popping = 0 /\ closed = 0 /\ rejected = 0

\* The bounds on new calls of Accept.
Bounded ==
  /\ acquiring + accepting + refusing < MaxAcceptors
  /\ acquiring + accepting + open + popping + closed < MaxConns
  /\ rejected + acquiring < MaxRejected

\* Mutant: the limit itself already needs a place in sem.
OverLimitEarly(c) == c >= Max

\* The condition of acquire on the counter it got back.
OverLimit(c) == c > Max

\* Accept is called: acquire increments cur.
AcquireAdd ==
  /\ Bounded
  /\ cur' = cur + 1
  /\ \/ OverLimit(cur') /\ acquiring' = acquiring + 1 /\ UNCHANGED accepting
     \/ ~OverLimit(cur') /\ accepting' = accepting + 1 /\ UNCHANGED acquiring
  /\ UNCHANGED <<sem, refusing, open, popping, closed, rejected>>

\* The select of acquire: a place in sem, or none.
AcquirePush ==
  /\ acquiring > 0
  /\ sem < Max
  /\ sem' = sem + 1
  /\ acquiring' = acquiring - 1
  /\ accepting' = accepting + 1
  /\ UNCHANGED <<cur, refusing, open, popping, closed, rejected>>

AcquireFail ==
  /\ acquiring > 0
  /\ sem = Max
  /\ rejected' = rejected + 1
  /\ acquiring' = acquiring - 1
  /\ refusing' = refusing + 1
  /\ UNCHANGED <<cur, sem, accepting, open, popping, closed>>

\* Mutant: release gives a place in sem back at the limit minus one as well.
ReleaseEarly ==
  /\ cur' = cur - 1
  /\ popping' = popping + IF cur' >= Max - 1 THEN 1 ELSE 0

\* release: decrement cur, and give a place in sem back from the limit on.
\* It does so for a call that was turned down, too.
release ==
  /\ cur' = cur - 1
  /\ popping' = popping + IF cur' >= Max THEN 1 ELSE 0

\* <-l.sem, which waits while sem is empty.
ReleasePop ==
  /\ popping > 0
  /\ sem > 0
  /\ sem' = sem - 1
  /\ popping' = popping - 1
  /\ UNCHANGED <<cur, acquiring, accepting, refusing, open, closed, rejected>>

\* The wrapped listener returns an error (external).
AcceptError ==
  /\ \/ accepting > 0 /\ accepting' = accepting - 1 /\ UNCHANGED refusing
     \/ refusing > 0 /\ refusing' = refusing - 1 /\ UNCHANGED accepting
  /\ release
  /\ UNCHANGED <<sem, acquiring, open, closed, rejected>>

\* The wrapped listener returns a connection (external), which is handed out
\* or, when acquire had failed, closed at once.
AcceptConn ==
  /\ accepting > 0
  /\ accepting' = accepting - 1
  /\ open' = open + 1
  /\ UNCHANGED <<cur, sem, acquiring, refusing, popping, closed, rejected>>

AcceptRefused ==
  /\ refusing > 0
  /\ refusing' = refusing - 1
  /\ release
  /\ UNCHANGED <<sem, acquiring, accepting, open, closed, rejected>>

\* Close of a connection: once.Do(release).
Close ==
  /\ open > 0
  /\ open' = open - 1
  /\ closed' = closed + 1
  /\ release
  /\ UNCHANGED <<sem, acquiring, accepting, refusing, rejected>>

\* Mutant: the second Close of a connection releases again.
CloseTwice ==
  /\ closed > 0
  /\ release
  /\ UNCHANGED <<sem, acquiring, accepting, refusing, open, closed, rejected>>

\* Close of a connection that was closed before does nothing.
CloseAgain == closed > 0 /\ UNCHANGED vars

\* The user drops a closed connection.
Forget ==
  /\ closed > 0
  /\ closed' = closed - 1
  /\ UNCHANGED <<cur, sem, acquiring, accepting, refusing, open, popping, rejected>>

Next ==
  \/ AcquireAdd \/ AcquirePush \/ AcquireFail
  \/ AcceptError \/ AcceptConn \/ AcceptRefused
  \/ Close \/ CloseAgain \/ Forget \/ ReleasePop

Spec == Init /\ [][Next]_vars
-----------------------------------------------------------------------------
\* Type invariant: the counters are never negative and sem within capacity.
TypeOK ==
  /\ cur \in Nat /\ sem \in 0..Max
  /\ acquiring \in Nat /\ accepting \in Nat /\ refusing \in Nat
  /\ open \in Nat /\ popping \in Nat /\ closed \in Nat /\ rejected \in Nat

\* cur counts the calls between acquire and release and the connections.
CurExact == cur = acquiring + accepting + refusing + open

\* What lies over the limit has a place in sem, is about to get one, was
\* turned down once, or is about to give one back that it never had.
OverMax == IF cur > Max THEN cur - Max ELSE 0
TokensExact == sem + acquiring + rejected = OverMax + popping

(***************************************************************************)
(* The books of acquire and release balance up to the calls that were      *)
(* turned down: each of them takes a place in sem away for ever, since its *)
(* release receives a value that its acquire did not send.                 *)
(***************************************************************************)
TokenAccounting == CurExact /\ TokensExact

(***************************************************************************)
(* Open connections never exceed twice the limit plus one for every call   *)
(* that was turned down.                                                   *)
(***************************************************************************)
OpenBound == open + accepting <= 2 * Max + rejected

(***************************************************************************)
(* As long as no call was turned down no release is stuck: for each one    *)
(* that waits there is a value in sem, or an acquire about to send one.    *)
(***************************************************************************)
ReleaseNotStuck == rejected = 0 => popping <= sem + acquiring
=============================================================================
