-------------------------- MODULE GoroutineStorage --------------------------
(***************************************************************************)
(* gls: storage of key-value pairs per goroutine, kept in a global map     *)
(* from g pointers to storages with an expiry.  The map is split into      *)
(* buckets with a lock each, and swept bucket by bucket against a time     *)
(* that is read once.  The runtime reuses the g of a goroutine that ended  *)
(* (external), so that an entry may outlive the goroutine that made it.    *)
(*                                                                         *)
(* Time is relative: left is the time until an entry expires, negative     *)
(* when it has, and lag the age of the sweeper's now.                      *)
(*                                                                         *)
(* A storage is a Go map: it holds the value of one key here.  Put returns *)
(* the map of the goroutine and With takes one, so that the users of the   *)
(* package may hold a map, write to it from any goroutine and hand it to   *)
(* With more than once.  The collector (external) empties a map that       *)
(* nobody refers to, and it is used again.                                 *)
(***************************************************************************)
EXTENDS Integers, FiniteSets

CONSTANTS
  Gs,         \* the g pointers
  NBuckets,   \* bucketConst
  NStores,    \* bound on the maps that are referred to at a time
  Values, NoValue,
  NoSnap,     \* not a value
  Timeouts,   \* the timeouts users give to Put
  Hour,       \* the timeout of With and Go
  MaxDepth,   \* bound on the calls of With inside each other
  MaxLag      \* bound on the time a sweep takes

ASSUME StorageAssumption ==
  /\ Gs \subseteq Nat /\ IsFiniteSet(Gs) /\ NBuckets \in Nat \ {0}
  /\ NStores \in Nat /\ NoValue \notin Values /\ NoSnap \notin Values \cup {NoValue}
  /\ Timeouts \subseteq Nat /\ Hour \in Nat /\ MaxDepth \in Nat /\ MaxLag \in Nat

VARIABLES
  objects,  \* [Gs -> the entry of the map]
  heap,     \* [Stores -> the value in that storage]
  held,     \* the storages that users of the package refer to
  gpc,      \* [Gs -> state of the goroutine on that g]
  auto,     \* [Gs -> it was started by Go, which cleans up after it]
  depth,    \* [Gs -> calls of With it is in]
  cs,       \* [Gs -> the storage that Go has made for it]
  snap,     \* history: [Gs -> what the parent had when it called Go, while that
            \* goroutine has the copy and did not touch it, or NoSnap]
  sweep,    \* the bucket that the sweeper comes to, or NBuckets between sweeps
  lag       \* the age of the sweeper's now

vars == <<objects, heap, held, gpc, auto, depth, cs, snap, sweep, lag>>

Stores == 1..NStores
NoStore == 0
NilMap == -1  \* the nil map, which With takes as well
NoEntry == [store |-> NoStore, left |-> 0]

Init ==
  /\ objects = [g \in Gs |-> NoEntry] /\ heap = [s \in Stores |-> NoValue] /\ held = {}
  /\ gpc = [g \in Gs |-> "free"] /\ auto = [g \in Gs |-> FALSE] /\ depth = [g \in Gs |-> 0]
  /\ cs = [g \in Gs |-> NoStore] /\ snap = [g \in Gs |-> NoSnap]
  /\ sweep = NBuckets /\ lag = 0

HasEntry(g) == objects[g] # NoEntry
InUse == {objects[g].store : g \in Gs} \cup {cs[g] : g \in Gs}

\* A map that nobody refers to is free, if the bound leaves one, and empty.
Free == Stores \ (InUse \cup held)
NewStore == CHOOSE s \in Free : TRUE
Becomes(h) == heap' = [s \in Stores |-> IF s \in Free' THEN NoValue ELSE h[s]]
Fill(s, v) == Becomes([heap EXCEPT ![s] = v])

\* getStorage, nil without an entry, and what Get returns.
getStorage(g) == objects[g].store
Value(g) == IF getStorage(g) \in Stores THEN heap[getStorage(g)] ELSE NoValue

\* Mutant: put replaces the entry that is there.
PutReplace(g, s, timeout) == objects' = [objects EXCEPT ![g] = [store |-> s, left |-> timeout]]

\* TimeMap.Put keeps the entry that is there.
put(g, s, timeout) ==
  objects' = IF HasEntry(g) THEN objects
             ELSE [objects EXCEPT ![g] = [store |-> s, left |-> timeout]]

\* TimeMap.Delete.
Delete(g) == objects' = [objects EXCEPT ![g] = NoEntry]

\* g has its copy no more, or may have changed it.
Touch(g) == snap' = [snap EXCEPT ![g] = NoSnap]

Run(g) == gpc[g] = "run"
-----------------------------------------------------------------------------
(* The users of the package (external): they make maps, write and drop them. *)

Make(v) ==
  /\ Free # {}
  /\ held' = held \cup {NewStore}
  /\ UNCHANGED <<objects, gpc, auto, depth, cs, snap, sweep, lag>>
  /\ Fill(NewStore, v)

Write(s, v) ==
  /\ s \in held
  /\ UNCHANGED <<objects, held, gpc, auto, depth, cs, snap, sweep, lag>>
  /\ Fill(s, v)

\* As long as a goroutine has the map, its users may get at it.
Drop(s) ==
  /\ s \in held \ InUse
  /\ held' = held \ {s}
  /\ UNCHANGED <<objects, gpc, auto, depth, cs, snap, sweep, lag>>
  /\ Becomes(heap)

\* A goroutine that was not started by Go begins.
Start(g) ==
  /\ gpc[g] = "free"
  /\ gpc' = [gpc EXCEPT ![g] = "run"]
  /\ UNCHANGED <<objects, heap, held, auto, depth, cs, snap, sweep, lag>>
-----------------------------------------------------------------------------
(* The operations of a goroutine. *)

Set(g, v) ==
  /\ Run(g) /\ getStorage(g) \in Stores
  /\ Touch(g)
  /\ UNCHANGED <<objects, held, gpc, auto, depth, cs, sweep, lag>>
  /\ Fill(getStorage(g), v)

\* Put returns the storage of g to its caller, a new one or the one it has.
Put(g, timeout) ==
  /\ Run(g) /\ (HasEntry(g) \/ Free # {})
  /\ put(g, NewStore, timeout)
  /\ held' = held \cup ({objects'[g].store} \cap Stores)
  /\ Touch(g)
  /\ UNCHANGED <<gpc, auto, depth, cs, sweep, lag>>
  /\ IF HasEntry(g) THEN UNCHANGED heap ELSE Fill(NewStore, NoValue)

Cleanup(g) ==
  /\ Run(g)
  /\ Delete(g)
  /\ Touch(g)
  /\ UNCHANGED <<held, gpc, auto, depth, cs, sweep, lag>>
  /\ Becomes(heap)

\* With stores the map of its caller, which may be nil or in use elsewhere.
With(g, s) ==
  /\ Run(g) /\ depth[g] < MaxDepth
  /\ depth' = [depth EXCEPT ![g] = @ + 1]
  /\ put(g, s, Hour)
  /\ IF HasEntry(g) THEN UNCHANGED snap ELSE Touch(g)
  /\ UNCHANGED <<heap, held, gpc, auto, cs, sweep, lag>>

\* The function given to With returns, or panics and the panic is recovered
\* outside: then nothing is cleaned up.
WithReturn(g) ==
  /\ Run(g) /\ depth[g] > 0
  /\ depth' = [depth EXCEPT ![g] = @ - 1]
  /\ Delete(g)
  /\ Touch(g)
  /\ UNCHANGED <<held, gpc, auto, cs, sweep, lag>>
  /\ Becomes(heap)

WithPanic(g) ==
  /\ Run(g) /\ depth[g] > 0
  /\ depth' = [depth EXCEPT ![g] = @ - 1]
  /\ UNCHANGED <<objects, heap, held, gpc, auto, cs, snap, sweep, lag>>

\* Mutant: the child is given the storage of its parent.
GoShare(g, h) ==
  /\ Run(g) /\ gpc[h] = "free" /\ Free # {}
  /\ gpc' = [gpc EXCEPT ![h] = "spawned"] /\ auto' = [auto EXCEPT ![h] = TRUE]
  /\ cs' = [cs EXCEPT ![h] = IF getStorage(g) \in Stores THEN getStorage(g) ELSE NewStore]
  /\ snap' = [snap EXCEPT ![h] = Value(g)]
  /\ UNCHANGED <<objects, heap, held, depth, sweep, lag>>

\* Go copies the storage of g, and starts the child.
Go(g, h) ==
  /\ Run(g) /\ gpc[h] = "free" /\ Free # {}
  /\ gpc' = [gpc EXCEPT ![h] = "spawned"] /\ auto' = [auto EXCEPT ![h] = TRUE]
  /\ cs' = [cs EXCEPT ![h] = NewStore]
  /\ snap' = [snap EXCEPT ![h] = Value(g)]
  /\ UNCHANGED <<objects, held, depth, sweep, lag>>
  /\ Fill(NewStore, Value(g))

\* The child stores its copy, unless its g has an entry from before, and
\* begins with its function.
GoPut(h) ==
  /\ gpc[h] = "spawned"
  /\ gpc' = [gpc EXCEPT ![h] = "run"]
  /\ put(h, cs[h], Hour)
  /\ cs' = [cs EXCEPT ![h] = NoStore]
  /\ IF HasEntry(h) THEN Touch(h) ELSE UNCHANGED snap
  /\ UNCHANGED <<held, auto, depth, sweep, lag>>
  /\ Becomes(heap)

\* The goroutine ends: one that was started by Go cleans up.
End(g) ==
  /\ Run(g) /\ depth[g] = 0
  /\ gpc' = [gpc EXCEPT ![g] = "free"] /\ auto' = [auto EXCEPT ![g] = FALSE]
  /\ IF auto[g] THEN Delete(g) ELSE UNCHANGED objects
  /\ Touch(g)
  /\ UNCHANGED <<held, depth, cs, sweep, lag>>
  /\ Becomes(heap)
-----------------------------------------------------------------------------
(* The sweeper and the clock. *)

Sweeping == sweep < NBuckets

SweepStart ==
  /\ ~Sweeping
  /\ sweep' = 0 /\ lag' = 0
  /\ UNCHANGED <<objects, heap, held, gpc, auto, depth, cs, snap>>

\* expireAt.Before(now), for the now of the sweeper.
Before(g) == HasEntry(g) /\ objects[g].left + lag < 0

\* The bucket is swept under its lock.
Swept ==
  /\ objects' = [g \in Gs |-> IF g % NBuckets = sweep /\ Before(g) THEN NoEntry ELSE objects[g]]
  /\ UNCHANGED <<held, gpc, auto, depth, cs, snap>>
  /\ Becomes(heap)

\* Mutant: the sweep ends with its first bucket.
SweepOne ==
  /\ Sweeping
  /\ Swept
  /\ sweep' = NBuckets /\ lag' = 0

SweepBucket ==
  /\ Sweeping
  /\ Swept
  /\ sweep' = sweep + 1
  /\ lag' = IF sweep' = NBuckets THEN 0 ELSE lag

\* Below -MaxLag-1 it makes no difference for how long an entry has expired.
Tick ==
  /\ lag < MaxLag \/ ~Sweeping
  /\ lag' = IF Sweeping THEN lag + 1 ELSE 0
  /\ objects' = [g \in Gs |->
       IF HasEntry(g) /\ objects[g].left >= -MaxLag
       THEN [objects[g] EXCEPT !.left = @ - 1] ELSE objects[g]]
  /\ UNCHANGED <<heap, held, gpc, auto, depth, cs, snap, sweep>>

Next ==
  \/ \E g \in Gs :
       \/ Start(g) \/ Cleanup(g) \/ WithReturn(g) \/ WithPanic(g) \/ GoPut(g) \/ End(g)
       \/ \E v \in Values : Set(g, v)
       \/ \E s \in held \cup {NilMap} : With(g, s)
       \/ \E timeout \in Timeouts : Put(g, timeout)
       \/ \E h \in Gs : Go(g, h)
  \/ \E v \in Values : Make(v) \/ \E s \in held : Write(s, v)
  \/ \E s \in held : Drop(s)
  \/ SweepStart \/ SweepBucket \/ Tick

\* Nothing is assumed of the goroutines: the clock and the sweeper go on.
Spec == Init /\ [][Next]_vars /\ WF_vars(SweepStart \/ SweepBucket) /\ WF_vars(Tick)
-----------------------------------------------------------------------------
\* Type invariant.
TypeOK ==
  /\ objects \in [Gs -> [store : Stores \cup {NoStore, NilMap}, left : Int]]
  /\ heap \in [Stores -> Values \cup {NoValue}] /\ held \subseteq Stores
  /\ gpc \in [Gs -> {"free", "spawned", "run"}] /\ auto \in [Gs -> BOOLEAN]
  /\ depth \in [Gs -> 0..MaxDepth] /\ cs \in [Gs -> Stores \cup {NoStore}]
  /\ snap \in [Gs -> Values \cup {NoValue, NoSnap}]
  /\ sweep \in 0..NBuckets /\ lag \in 0..MaxLag
  /\ \A g \in Gs :
       /\ objects[g].left >= -MaxLag - 1
       /\ objects[g].store = NoStore => objects[g] = NoEntry
       /\ cs[g] # NoStore <=> gpc[g] = "spawned"
       /\ gpc[g] # "run" => depth[g] = 0

(***************************************************************************)
(* Go hands the child a copy: while the child is not scheduled yet, and    *)
(* then until it writes to it, lets a user have it, or its hour is over,   *)
(* it has what the parent had at the call, whatever the parent, the users  *)
(* and the other goroutines set, put, clean up or nest meanwhile.  (Only   *)
(* if the g has an entry from before does the child begin without it.)     *)
(* Two goroutines share a storage only if a user has it.                   *)
(***************************************************************************)
References(s) == Cardinality({g \in Gs : objects[g].store = s}) + Cardinality({g \in Gs : cs[g] = s})
GoSnapshot ==
  /\ TypeOK
  /\ \A s \in Stores \ held : References(s) <= 1
  /\ \A h \in Gs : snap[h] # NoSnap =>
       /\ gpc[h] = "spawned" => heap[cs[h]] = snap[h]
       /\ gpc[h] = "run" /\ HasEntry(h) => Value(h) = snap[h]

(***************************************************************************)
(* The storage of a goroutine is not replaced while it is there, whoever   *)
(* calls Put, With or Go, and not removed by anyone but the goroutine      *)
(* itself before its time is over: a slow sweeper whose now is old does    *)
(* not take an entry that was put after that.                              *)
(***************************************************************************)
EntryStable ==
  [][\A g \in Gs : HasEntry(g) =>
       \/ objects'[g].store = objects[g].store
       \/ /\ objects'[g] = NoEntry
          /\ (gpc[g] = "run" /\ sweep' = sweep) \/ objects[g].left < 0]_vars

(***************************************************************************)
(* Every entry goes at last, also that of a goroutine that ended without a *)
(* Cleanup and whose g is reused: the sweeper reaches every bucket, and a  *)
(* Put that finds an entry does not extend its life.                       *)
(***************************************************************************)
EntryGoes == \A g \in Gs : HasEntry(g) ~> ~HasEntry(g)
=============================================================================
