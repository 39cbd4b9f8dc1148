------------------------------- MODULE Cache -------------------------------
(***************************************************************************)
(* gcache.Cache: a map from keys to items that may expire, a function that *)
(* is called when an item is evicted, and the janitor goroutine.           *)
(*                                                                         *)
(* The map is only touched under c.mu, so what is done under the lock is   *)
(* one step.  Set and DeleteExpired read the clock before they lock, and   *)
(* Delete and DeleteExpired call onEvicted after they unlock: these are    *)
(* steps of their own.  Add and Replace read the clock under the lock.     *)
(***************************************************************************)
EXTENDS Integers, Sequences, FiniteSets, Functions

CONSTANTS
  Callers,      \* goroutines that use the cache
  Janitor,      \* the goroutine of janitor.run
  Keys,
  Durations,    \* the durations given to Set, Add and Replace
  NumObjects,   \* bound on the objects that are stored
  MaxTime,      \* bound on the clock
  WithJanitor   \* the cleanup interval is positive

ASSUME CacheAssumption ==
  /\ Janitor \notin Callers
  /\ Durations \subseteq Int /\ NumObjects \in Nat /\ MaxTime \in Nat \ {0}
  /\ WithJanitor \in BOOLEAN

Procs == Callers \cup {Janitor}
Objects == 1..NumObjects

VARIABLES
  items,      \* the map: items[k].object, items[k].expiration, 0 for never
  onEvicted,  \* "set" or "nil"
  now,        \* time.Now
  call,       \* call[p]: the method p is in, and its local variables
  tick,       \* there is a value in ticker.C
  user,       \* "holds" the Cache; then its finalizer "sends" on stop, or is
              \* "stuck" at a nil channel, or has "sent"
  made,       \* history: objects 1..made were given to the cache
  notified,   \* history: the objects onEvicted was called with, in order
  dropped,    \* history: objects that left the map without such a call
  disabled,   \* history: the goroutines that had items to report when onEvicted
              \* was set to nil
  panicked    \* onEvicted was called while nil

mapVars == <<items, onEvicted>>
history == <<made, notified, dropped, disabled, panicked>>
vars == <<mapVars, now, call, tick, user, history>>

NoItem == [object |-> 0, expiration |-> 0]
Idle == [op |-> "idle", key |-> "", item |-> NoItem, now |-> 0, evicted |-> {}]
NotStarted == [Idle EXCEPT !.op = "new"]

Init ==
  /\ items = [k \in {} |-> NoItem]
  /\ onEvicted = "nil"
  /\ now = 1
  /\ call = [p \in Procs |-> IF p = Janitor THEN NotStarted ELSE Idle]
  /\ tick = FALSE
  /\ user = "holds"
  /\ made = 0 /\ notified = <<>> /\ dropped = {}
  /\ disabled = {} /\ panicked = FALSE

\* time passes
Clock ==
  /\ now < MaxTime
  /\ now' = now + 1
  /\ UNCHANGED <<mapVars, call, tick, user, history>>

\* A method is only called by those who still have the Cache.
Calls(p) == p \in Callers /\ call[p].op = "idle" /\ user = "holds"
-----------------------------------------------------------------------------
Expired(item) == item.expiration > 0 /\ now > item.expiration

Found(k) == k \in DOMAIN items /\ ~Expired(items[k])

\* The object that Get returns, or 0.
Get(k) == IF Found(k) THEN items[k].object ELSE 0

ItemCount == Cardinality(DOMAIN items)

\* A new object that expires d after the clock is read, d <= 0 for never.
NewItem(d) == [object |-> made + 1, expiration |-> IF d > 0 THEN now + d ELSE 0]

\* c.items[k] = item; an item with the same key is overwritten.
Put(k, item) ==
  /\ items' = [i \in DOMAIN items \cup {k} |-> IF i = k THEN item ELSE items[i]]
  /\ dropped' = dropped \cup {items[i].object : i \in DOMAIN items \cap {k}}

\* Set reads the clock, and stores the item when it has the lock.
SetTime(p, k, d) ==
  /\ Calls(p)
  /\ made < NumObjects
  /\ call' = [call EXCEPT ![p] = [Idle EXCEPT !.op = "set", !.key = k, !.item = NewItem(d)]]
  /\ made' = made + 1
  /\ UNCHANGED <<mapVars, now, tick, user, notified, dropped, disabled, panicked>>

SetStore(p) ==
  /\ call[p].op = "set"
  /\ Put(call[p].key, call[p].item)
  /\ call' = [call EXCEPT ![p] = Idle]
  /\ UNCHANGED <<onEvicted, now, tick, user, made, notified, disabled, panicked>>

\* Add and Replace store the object under the same lock, or return an error.
StoreNew(p, k, d) ==
  /\ Calls(p)
  /\ made < NumObjects
  /\ Put(k, NewItem(d))
  /\ made' = made + 1
  /\ UNCHANGED <<onEvicted, now, call, tick, user, notified, disabled, panicked>>

Add(p, k, d) == ~Found(k) /\ StoreNew(p, k, d)
Replace(p, k, d) == Found(k) /\ StoreNew(p, k, d)

\* UpdateExpiration assigns to a copy of the item.
UpdateExpiration(p, k) ==
  /\ Calls(p)
  /\ k \in DOMAIN items
  /\ UNCHANGED vars

\* Clear makes a new map; onEvicted is not called.
Clear(p) ==
  /\ Calls(p)
  /\ dropped' = dropped \cup {items[k].object : k \in DOMAIN items}
  /\ items' = [k \in {} |-> NoItem]
  /\ UNCHANGED <<onEvicted, now, call, tick, user, made, notified, disabled, panicked>>

OnEvicted(p, f) ==
  /\ Calls(p)
  /\ onEvicted' = f
  /\ disabled' = disabled \cup
       IF f = "nil" THEN {q \in Procs : call[q].evicted # {}} ELSE {}
  /\ UNCHANGED <<items, now, call, tick, user, made, notified, dropped, panicked>>
-----------------------------------------------------------------------------
(***************************************************************************)
(* Delete and DeleteExpired.  Both take keys K out of the map under the    *)
(* lock, and afterwards call onEvicted for what was found.                 *)
(***************************************************************************)

\* Mutant: with an eviction function the item is found, and left in the map.
deleteKeeps(p, K) ==
  /\ IF onEvicted = "nil"
       THEN items' = Restrict(items, DOMAIN items \ K) ELSE UNCHANGED items
  /\ dropped' = dropped \cup
       (IF onEvicted = "nil" THEN {items[k].object : k \in DOMAIN items \cap K} ELSE {})
  /\ call' = [call EXCEPT ![p] = [Idle EXCEPT !.op = "notify", !.evicted =
                IF onEvicted = "nil" THEN {}
                ELSE {items[k].object : k \in DOMAIN items \cap K}]]

\* Mutant: what is found is remembered without a look at the eviction function.
deleteUnchecked(p, K) ==
  /\ items' = Restrict(items, DOMAIN items \ K)
  /\ call' = [call EXCEPT ![p] = [Idle EXCEPT !.op = "notify",
                !.evicted = {items[k].object : k \in DOMAIN items \cap K}]]
  /\ UNCHANGED dropped

\* The items are only remembered if there is an eviction function now.
delete(p, K) ==
  LET out == {items[k].object : k \in DOMAIN items \cap K}
  IN /\ items' = Restrict(items, DOMAIN items \ K)
     /\ dropped' = dropped \cup IF onEvicted = "nil" THEN out ELSE {}
     /\ call' = [call EXCEPT ![p] =
          [Idle EXCEPT !.op = "notify", !.evicted = IF onEvicted = "nil" THEN {} ELSE out]]

Delete(p, k) ==
  /\ Calls(p)
  /\ delete(p, {k})
  /\ UNCHANGED <<onEvicted, now, tick, user, made, notified, disabled, panicked>>

ReadNow(p) == call' = [call EXCEPT ![p] = [Idle EXCEPT !.op = "sweep", !.now = now]]

DeleteExpired(p) ==
  /\ Calls(p)
  /\ ReadNow(p)
  /\ UNCHANGED <<mapVars, now, tick, user, history>>

\* Mutant: an item is taken for expired in its last instant.
ExpiredAtEarly(k, t) == items[k].expiration > 0 /\ t >= items[k].expiration

\* The test of DeleteExpired, against the time t that was read before.
ExpiredAt(k, t) == items[k].expiration > 0 /\ t > items[k].expiration

Sweep(p) ==
  /\ call[p].op = "sweep"
  /\ delete(p, {k \in DOMAIN items : ExpiredAt(k, call[p].now)})
  /\ UNCHANGED <<onEvicted, now, tick, user, made, notified, disabled, panicked>>

\* c.onEvicted is read again for every item, without the lock.
Notify(p) ==
  /\ call[p].op = "notify"
  /\ \E o \in call[p].evicted :
       /\ call' = [call EXCEPT ![p].evicted = @ \ {o}]
       /\ notified' = IF onEvicted = "nil" THEN notified ELSE Append(notified, o)
       /\ panicked' = (onEvicted = "nil")
  /\ UNCHANGED <<mapVars, now, tick, user, made, dropped, disabled>>

Return(p) ==
  /\ call[p].op = "notify" /\ call[p].evicted = {}
  /\ call' = [call EXCEPT ![p] = Idle]
  /\ disabled' = disabled \ {p}
  /\ UNCHANGED <<mapVars, now, tick, user, made, notified, dropped, panicked>>
-----------------------------------------------------------------------------
(***************************************************************************)
(* janitor.run and the finalizer of the Cache.  The ticker is stopped      *)
(* before the loop; at most one tick got into its channel before that.     *)
(***************************************************************************)
JanitorStart ==
  /\ WithJanitor
  /\ call[Janitor].op = "new"
  /\ call' = [call EXCEPT ![Janitor] = Idle]
  /\ tick' \in BOOLEAN
  /\ UNCHANGED <<mapVars, now, user, history>>

JanitorTick ==
  /\ call[Janitor].op = "idle"
  /\ tick
  /\ tick' = FALSE
  /\ ReadNow(Janitor)
  /\ UNCHANGED <<mapVars, now, user, history>>

\* The last reference to the Cache is gone, and its finalizer is run.  It
\* evaluates janitor.stop: a nil channel if the janitor was not scheduled yet.
Drop ==
  /\ WithJanitor
  /\ user = "holds"
  /\ user' = IF call[Janitor].op = "new" THEN "stuck" ELSE "sends"
  /\ UNCHANGED <<mapVars, now, call, tick, history>>

\* The janitor receives from stop.  Its break ends the select, not the loop.
JanitorStop ==
  /\ call[Janitor].op = "idle"
  /\ user = "sends"
  /\ user' = "sent"
  /\ call' = [call EXCEPT ![Janitor] = Idle]
  /\ UNCHANGED <<mapVars, now, tick, history>>

Step(p) == SetStore(p) \/ Sweep(p) \/ Notify(p) \/ Return(p)
JanitorStep == JanitorStart \/ JanitorTick \/ JanitorStop \/ Step(Janitor)

Next ==
  /\ ~panicked
  /\ \/ Clock \/ Drop \/ JanitorStep
     \/ \E p \in Callers :
          \/ Step(p) \/ Clear(p) \/ DeleteExpired(p)
          \/ \E f \in {"set", "nil"} : OnEvicted(p, f)
          \/ \E k \in Keys :
               \/ Delete(p, k) \/ UpdateExpiration(p, k)
               \/ \E d \in Durations :
                    SetTime(p, k, d) \/ Add(p, k, d) \/ Replace(p, k, d)

Spec == Init /\ [][Next]_vars

(***************************************************************************)
(* A method that was called and the janitor are scheduled; no one has to   *)
(* call a method or to drop the cache.                                     *)
(***************************************************************************)
FairSpec ==
  /\ Spec
  /\ WF_vars(JanitorStep /\ ~panicked)
  /\ \A p \in Callers : WF_vars(Step(p) /\ ~panicked)
-----------------------------------------------------------------------------
\* Type invariant.  An expiration is 0, or later than when the clock started.
TypeOK ==
  /\ DOMAIN items \subseteq Keys
  /\ \A k \in DOMAIN items :
       items[k].object \in Objects /\ items[k].expiration \in Nat \ {1}
  /\ onEvicted \in {"set", "nil"} /\ now \in 1..MaxTime /\ tick \in BOOLEAN
  /\ \A p \in Procs : call[p].op \in {"new", "idle", "set", "sweep", "notify"}
  /\ user \in {"holds", "sends", "stuck", "sent"}
  /\ made \in 0..NumObjects /\ dropped \subseteq Objects /\ notified \in Seq(Objects)
  /\ disabled \subseteq Procs /\ panicked \in BOOLEAN

Stored == (1..made) \ {call[p].item.object : p \in Callers}
Cached == {items[k].object : k \in DOMAIN items}
Pending == UNION {{p} \X call[p].evicted : p \in Procs}

(***************************************************************************)
(* onEvicted is called exactly once for each item that is deleted or       *)
(* swept while it is set, also when several goroutines delete the same key *)
(* at once, and never for one that is overwritten or still in the cache:   *)
(* an object that was stored is in exactly one of the places below.        *)
(***************************************************************************)
EvictedOnce ==
  /\ TypeOK
  /\ ~panicked =>
       /\ Cached \cup {r[2] : r \in Pending} \cup Range(notified) \cup dropped = Stored
       /\ ItemCount + Cardinality(Pending) + Len(notified) + Cardinality(dropped)
            = Cardinality(Stored)

(***************************************************************************)
(* DeleteExpired reads the clock before it locks; whatever is stored in    *)
(* between, it does not take away an item that Get would still find.       *)
(***************************************************************************)
SweepsOnlyExpired ==
  [][\A p \in Procs : call[p].op = "sweep" /\ call'[p] # call[p] =>
       \A k \in Keys : Found(k) => k \in DOMAIN items' /\ items'[k] = items[k]]_vars

(***************************************************************************)
(* Delete and DeleteExpired test onEvicted under the lock and read it      *)
(* again after the unlock, and "Set to nil to disable" is allowed at any   *)
(* time.  A nil function is called only in that race: whoever calls it has *)
(* taken its items out while a function was set, and OnEvicted(nil) came   *)
(* in between.  No delete or sweep that begins with nil set calls it.      *)
(***************************************************************************)
NilCalledInRace ==
  [][\A p \in Procs : panicked' /\ call'[p] # call[p] => p \in disabled]_vars

(***************************************************************************)
(* "return a new cache with a given cleanup interval": with one, an item   *)
(* that has expired is deleted without a call of DeleteExpired.            *)
(***************************************************************************)
JanitorCleans ==
  \A k \in Keys : (k \in DOMAIN items /\ Expired(items[k])) ~>
                    (k \notin DOMAIN items \/ ~Expired(items[k]) \/ panicked)
=============================================================================
