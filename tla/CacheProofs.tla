---------------------------- MODULE CacheProofs ----------------------------
(***************************************************************************)
(* The items of the cache: each object that was stored is evicted, dropped *)
(* or still there exactly once, a sweep with an old clock takes only what  *)
(* has expired, and a nil function is called in one race only, for every   *)
(* number of callers, keys, durations and objects.                         *)
(***************************************************************************)
EXTENDS Cache, FiniteSetTheorems, TLAPS

Ops == {"new", "idle", "set", "sweep", "notify"}
Times == Nat \ {1}
ItemRec == [object : 0..NumObjects, expiration : Times]
CallRec == [op : Ops, key : Keys \cup {""}, item : ItemRec, now : Nat, evicted : SUBSET Objects]

LEMMA Parameters ==
  /\ Janitor \notin Callers /\ NumObjects \in Nat /\ MaxTime \in Nat /\ MaxTime >= 1
  /\ Durations \subseteq Int /\ Objects = 1..NumObjects
BY CacheAssumption DEF Objects

LEMMA ItemFields ==
  ASSUME NEW i \in ItemRec
  PROVE  i.object \in 0..NumObjects /\ i.expiration \in Times
BY DEF ItemRec

LEMMA CallFields ==
  ASSUME NEW c \in CallRec
  PROVE  /\ c.op \in Ops /\ c.key \in Keys \cup {""} /\ c.item \in ItemRec /\ c.now \in Nat
         /\ c.evicted \in SUBSET Objects
BY DEF CallRec

LEMMA IdleCall ==
  /\ NoItem \in ItemRec /\ NoItem.object = 0
  /\ Idle \in CallRec /\ Idle.op = "idle" /\ Idle.item.object = 0 /\ Idle.now = 0
  /\ Idle.evicted = {}
  /\ NotStarted \in CallRec /\ NotStarted.op = "new" /\ NotStarted.item.object = 0
  /\ NotStarted.now = 0 /\ NotStarted.evicted = {}
<1>1. NoItem \in ItemRec /\ NoItem.object = 0
  BY Parameters DEF NoItem, ItemRec, Times
<1>2. /\ Idle \in CallRec /\ Idle.op = "idle" /\ Idle.item = NoItem /\ Idle.now = 0
      /\ Idle.evicted = {}
  BY <1>1 DEF Idle, CallRec, Ops
<1>3. /\ NotStarted \in CallRec /\ NotStarted.op = "new" /\ NotStarted.item = NoItem
      /\ NotStarted.now = 0 /\ NotStarted.evicted = {}
  BY <1>1 DEF NotStarted, Idle, CallRec, Ops
<1> QED BY <1>1, <1>2, <1>3

\* The calls that the methods begin, and what is in them.
SetCall(k, i) == [Idle EXCEPT !.op = "set", !.key = k, !.item = i]
NotifyCall(E) == [Idle EXCEPT !.op = "notify", !.evicted = E]
SweepCall(t) == [Idle EXCEPT !.op = "sweep", !.now = t]

LEMMA NewCalls ==
  /\ \A k \in Keys, i \in ItemRec :
       /\ SetCall(k, i) \in CallRec /\ SetCall(k, i).op = "set" /\ SetCall(k, i).key = k
       /\ SetCall(k, i).item = i /\ SetCall(k, i).now = 0 /\ SetCall(k, i).evicted = {}
  /\ \A E \in SUBSET Objects :
       /\ NotifyCall(E) \in CallRec /\ NotifyCall(E).op = "notify"
       /\ NotifyCall(E).item.object = 0 /\ NotifyCall(E).now = 0 /\ NotifyCall(E).evicted = E
  /\ \A t \in Nat :
       /\ SweepCall(t) \in CallRec /\ SweepCall(t).op = "sweep"
       /\ SweepCall(t).item.object = 0 /\ SweepCall(t).now = t /\ SweepCall(t).evicted = {}
<1>1. /\ Idle \in CallRec /\ Idle.item = NoItem /\ Idle.now = 0 /\ Idle.evicted = {}
      /\ NoItem \in ItemRec /\ Idle.op = "idle" /\ NoItem.object = 0
  BY IdleCall DEF Idle
<1>2. \A k \in Keys, i \in ItemRec :
        /\ SetCall(k, i) \in CallRec /\ SetCall(k, i).op = "set" /\ SetCall(k, i).key = k
        /\ SetCall(k, i).item = i /\ SetCall(k, i).now = 0 /\ SetCall(k, i).evicted = {}
  BY <1>1 DEF CallRec, Ops, SetCall
<1>3. \A E \in SUBSET Objects :
        /\ NotifyCall(E) \in CallRec /\ NotifyCall(E).op = "notify"
        /\ NotifyCall(E).item = NoItem /\ NotifyCall(E).now = 0 /\ NotifyCall(E).evicted = E
  BY <1>1 DEF CallRec, Ops, NotifyCall
<1>4. \A t \in Nat :
        /\ SweepCall(t) \in CallRec /\ SweepCall(t).op = "sweep"
        /\ SweepCall(t).item = NoItem /\ SweepCall(t).now = t /\ SweepCall(t).evicted = {}
  BY <1>1 DEF CallRec, Ops, SweepCall
<1> QED BY <1>1, <1>2, <1>3, <1>4
-----------------------------------------------------------------------------
(***************************************************************************)
(* The invariant.  An object that was made is in exactly one place: in the *)
(* hands of a Set that has not stored it yet, in the map, with a call that *)
(* will hand it to onEvicted, already handed over, or dropped; and once in *)
(* that place.  The clock a sweep has read is not ahead.                   *)
(***************************************************************************)
\* The types of what a step of the cache depends on.
Types ==
  /\ DOMAIN items \subseteq Keys
  /\ \A k \in DOMAIN items : items[k].object \in Objects /\ items[k].expiration \in Times
  /\ \A p \in Procs : call[p].op \in Ops
  /\ onEvicted \in {"set", "nil"} /\ now \in 1..MaxTime /\ tick \in BOOLEAN
  /\ user \in {"holds", "sends", "stuck", "sent"}
  /\ made \in 0..NumObjects /\ dropped \subseteq Objects /\ notified \in Seq(Objects)

Held == {call[p].item.object : p \in Callers} \ {0}
Waiting == UNION {call[p].evicted : p \in Procs}
Told == Range(notified)

CallOK(p) ==
  /\ call[p].op = "set" => p \in Callers /\ call[p].key \in Keys /\ call[p].item.object # 0
  /\ call[p].op # "set" => call[p].item.object = 0
  /\ call[p].op # "notify" => call[p].evicted = {}
  /\ call[p].now <= now

Partition ==
  /\ Held \cup Cached \cup Waiting \cup Told \cup dropped = 1..made
  /\ Held \cap (Cached \cup Waiting \cup Told \cup dropped) = {}
  /\ Cached \cap (Waiting \cup Told \cup dropped) = {}
  /\ Waiting \cap (Told \cup dropped) = {}
  /\ Told \cap dropped = {}

Singly ==
  /\ \A p, q \in Callers : call[p].item.object = call[q].item.object =>
                             p = q \/ call[p].item.object = 0
  /\ \A k, l \in DOMAIN items : items[k].object = items[l].object => k = l
  /\ \A p, q \in Procs : p = q \/ call[p].evicted \cap call[q].evicted = {}
  /\ \A i, j \in 1..Len(notified) : notified[i] = notified[j] => i = j

Calling == call \in [Procs -> CallRec] /\ \A p \in Procs : CallOK(p)

CacheInv ==
  /\ Types /\ Calling
  /\ ~panicked => Partition /\ Singly

\* What a call of p becomes.
Becomes(p, c) == call' = [call EXCEPT ![p] = c]

LEMMA CallMoves ==
  ASSUME Calling, NEW p \in Procs, NEW c \in CallRec, Becomes(p, c)
  PROVE  /\ call' \in [Procs -> CallRec] /\ call'[p] = c
         /\ \A q \in Procs \ {p} : call'[q] = call[q]
BY DEF Calling, Becomes

LEMMA CallsStay ==
  ASSUME Calling, NEW p \in Procs, NEW c \in CallRec, Becomes(p, c),
         c.op = "set" => p \in Callers /\ c.key \in Keys /\ c.item.object # 0,
         c.op # "set" => c.item.object = 0, c.op # "notify" => c.evicted = {},
         c.now <= now, now' = now
  PROVE  Calling'
<1>1. /\ call' \in [Procs -> CallRec] /\ call'[p] = c
      /\ \A q \in Procs \ {p} : call'[q] = call[q]
  BY CallMoves
<1> QED BY <1>1 DEF Calling, CallOK

LEMMA HeldMoves ==
  ASSUME Calling, Singly, NEW p \in Procs, NEW c \in CallRec, Becomes(p, c)
  PROVE  /\ p \in Callers => Held' = (Held \ {call[p].item.object}) \cup ({c.item.object} \ {0})
         /\ p \notin Callers => Held' = Held
         /\ c.item.object = call[p].item.object => Held' = Held
<1>1. /\ call'[p] = c /\ \A q \in Procs \ {p} : call'[q] = call[q]
  BY CallMoves
<1>2. \A q \in Callers : q \in Procs
  BY DEF Procs
<1> QED BY <1>1, <1>2 DEF Held, Singly

LEMMA WaitingMoves ==
  ASSUME Calling, Singly, NEW p \in Procs, NEW c \in CallRec, Becomes(p, c)
  PROVE  Waiting' = (Waiting \ call[p].evicted) \cup c.evicted
<1>1. /\ call'[p] = c /\ \A q \in Procs \ {p} : call'[q] = call[q]
  BY CallMoves
<1> QED BY <1>1 DEF Waiting, Singly

LEMMA CallerIs ==
  ASSUME Calling, NEW p \in Procs
  PROVE  /\ call[p] \in CallRec /\ call[p].item \in ItemRec /\ call[p].now \in Nat
         /\ call[p].item.object \in 0..NumObjects /\ call[p].item.expiration \in Times
         /\ call[p].evicted \in SUBSET Objects
<1>1. call[p] \in CallRec
  BY DEF Calling
<1> QED BY <1>1, CallFields, ItemFields

LEMMA InitCache == Init => CacheInv
<1> SUFFICES ASSUME Init PROVE CacheInv
  OBVIOUS
<1>1. DOMAIN items = {} /\ call = [p \in Procs |-> IF p = Janitor THEN NotStarted ELSE Idle]
  BY DEF Init
<1>2. Types
  <2>1. \A p \in Procs : call[p].op \in {"new", "idle", "set", "sweep", "notify"}
    BY <1>1, IdleCall
  <2>2. now \in 1..MaxTime /\ made \in 0..NumObjects /\ notified \in Seq(Objects)
    BY Parameters DEF Init
  <2> QED BY <1>1, <2>1, <2>2 DEF Init, Types, Ops
<1>3. Calling
  BY <1>1, IdleCall, Parameters DEF Calling, CallOK, Init, Procs
<1>4. Held = {} /\ Waiting = {} /\ Cached = {} /\ Told = {}
  <2>1. Held = {}
    BY <1>1, IdleCall, Parameters DEF Held, Procs
  <2>2. Waiting = {}
    BY <1>1, IdleCall DEF Waiting
  <2>3. Cached = {} /\ Told = {}
    BY <1>1 DEF Init, Cached, Told, Range
  <2> QED BY <2>1, <2>2, <2>3
<1>5. Partition
  BY <1>4 DEF Init, Partition
<1>6. Singly
  BY <1>1, IdleCall, Parameters DEF Singly, Init, Procs
<1> QED BY <1>2, <1>3, <1>5, <1>6 DEF CacheInv
-----------------------------------------------------------------------------
(***************************************************************************)
(* What the operations do to the map.                                      *)
(***************************************************************************)
ItemsOK ==
  /\ DOMAIN items \subseteq Keys
  /\ \A k \in DOMAIN items : items[k].object \in Objects /\ items[k].expiration \in Times

ItemsSingle == \A k, l \in DOMAIN items : items[k].object = items[l].object => k = l

LEMMA PutEffect ==
  ASSUME ItemsOK, ItemsSingle, NEW k \in Keys, NEW item \in ItemRec, item.object # 0,
         item.object \notin Cached, Put(k, item), dropped \subseteq Objects
  PROVE  /\ ItemsOK' /\ ItemsSingle' /\ dropped' \subseteq Objects
         /\ \E old \in SUBSET Cached :
              Cached' = (Cached \ old) \cup {item.object} /\ dropped' = dropped \cup old
<1> DEFINE old == {items[i].object : i \in DOMAIN items \cap {k}}
<1>1. /\ DOMAIN items' = DOMAIN items \cup {k} /\ items'[k] = item
      /\ \A i \in DOMAIN items \ {k} : items'[i] = items[i]
      /\ dropped' = dropped \cup old
  BY DEF Put
<1>2. item.object \in Objects /\ item.expiration \in Times
  BY ItemFields, Parameters
<1>3. ItemsOK'
  BY <1>1, <1>2 DEF ItemsOK
<1>4. old \subseteq Cached
  BY DEF Cached
<1>5. \A i \in DOMAIN items : items[i].object # item.object
  BY DEF Cached
<1>6. ItemsSingle'
  BY <1>1, <1>5 DEF ItemsSingle
<1>7. Cached' = (Cached \ old) \cup {item.object}
  BY <1>1, <1>5 DEF Cached, ItemsSingle
<1>8. old \subseteq Objects
  BY DEF ItemsOK
<1> QED BY <1>1, <1>3, <1>4, <1>6, <1>7, <1>8

LEMMA DeleteEffect ==
  ASSUME ItemsOK, ItemsSingle, NEW p \in Procs, NEW K, delete(p, K), dropped \subseteq Objects
  PROVE  /\ ItemsOK' /\ ItemsSingle' /\ dropped' \subseteq Objects
         /\ \E out \in SUBSET (Cached \cap Objects) :
              /\ Cached' = Cached \ out
              /\ \/ dropped' = dropped \cup out
                    /\ Becomes(p, NotifyCall({}))
                 \/ dropped' = dropped
                    /\ Becomes(p, NotifyCall(out))
<1> DEFINE out == {items[k].object : k \in DOMAIN items \cap K}
<1>1. /\ DOMAIN items' = DOMAIN items \ K
      /\ \A k \in DOMAIN items \ K : items'[k] = items[k]
  BY DEF delete, Restrict
<1>2. ItemsOK' /\ ItemsSingle'
  BY <1>1 DEF ItemsOK, ItemsSingle
<1>3. out \subseteq Cached \cap Objects
  BY DEF Cached, ItemsOK
<1>4. Cached' = Cached \ out
  BY <1>1 DEF Cached, ItemsSingle
<1>5. /\ dropped' = dropped \cup IF onEvicted = "nil" THEN out ELSE {}
      /\ Becomes(p, NotifyCall(IF onEvicted = "nil" THEN {} ELSE out))
  BY DEF delete, Becomes, NotifyCall
<1> HIDE DEF out
<1>6. \/ dropped' = dropped \cup out /\ Becomes(p, NotifyCall({}))
      \/ dropped' = dropped /\ Becomes(p, NotifyCall(out))
  BY <1>5
<1>7. dropped' \subseteq Objects
  BY <1>3, <1>6
<1> QED BY <1>2, <1>3, <1>4, <1>6, <1>7

LEMMA ItemsTyped == Types => ItemsOK
BY DEF Types, ItemsOK

LEMMA TypeParts ==
  Types <=> /\ ItemsOK /\ \A p \in Procs : call[p].op \in Ops
            /\ onEvicted \in {"set", "nil"} /\ now \in 1..MaxTime /\ tick \in BOOLEAN
            /\ user \in {"holds", "sends", "stuck", "sent"}
            /\ made \in 0..NumObjects /\ dropped \subseteq Objects /\ notified \in Seq(Objects)
BY DEF Types, ItemsOK

LEMMA TypePartsNext ==
  Types' <=> /\ ItemsOK' /\ \A p \in Procs : call'[p].op \in Ops
             /\ onEvicted' \in {"set", "nil"} /\ now' \in 1..MaxTime /\ tick' \in BOOLEAN
             /\ user' \in {"holds", "sends", "stuck", "sent"}
             /\ made' \in 0..NumObjects /\ dropped' \subseteq Objects /\ notified' \in Seq(Objects)
BY DEF Types, ItemsOK

LEMMA OpsTyped == Calling' => \A p \in Procs : call'[p].op \in Ops
<1> SUFFICES ASSUME Calling', NEW p \in Procs PROVE call'[p].op \in Ops
  OBVIOUS
<1>1. call'[p] \in CallRec
  BY DEF Calling
<1> QED BY <1>1, CallFields

LEMMA NewItemTyped ==
  ASSUME Types, made < NumObjects, NEW d \in Durations
  PROVE  /\ NewItem(d) \in ItemRec /\ NewItem(d).object = made + 1 /\ made + 1 # 0
         /\ made \in Nat /\ made + 1 \in 0..NumObjects
<1>1. /\ made \in 0..NumObjects /\ NumObjects \in Nat /\ d \in Int
      /\ now \in 1..MaxTime /\ MaxTime \in Nat
  BY Parameters, TypeParts
<1>2. made + 1 \in 0..NumObjects /\ made + 1 # 0 /\ made \in Nat
  BY <1>1
<1>3. (IF d > 0 THEN now + d ELSE 0) \in Times
  BY <1>1 DEF Times
<1> QED BY <1>2, <1>3 DEF NewItem, ItemRec
-----------------------------------------------------------------------------
(***************************************************************************)
(* The steps.                                                              *)
(***************************************************************************)
Single ==
  /\ \A p, q \in Callers : call[p].item.object = call[q].item.object =>
                             p = q \/ call[p].item.object = 0
  /\ \A p, q \in Procs : p = q \/ call[p].evicted \cap call[q].evicted = {}
  /\ \A i, j \in 1..Len(notified) : notified[i] = notified[j] => i = j

LEMMA SinglyParts == (Singly <=> Single /\ ItemsSingle) /\ (Singly' <=> Single' /\ ItemsSingle')
BY DEF Singly, Single, ItemsSingle

\* The other calls keep what they have, and c brings nothing that is there.
LEMMA SingleMoves ==
  ASSUME Calling, Single, NEW p \in Procs, NEW c \in CallRec, Becomes(p, c),
         \/ c.item.object \in {0, call[p].item.object}
         \/ \A q \in Callers : call[q].item.object # c.item.object,
         \A q \in Procs \ {p} : c.evicted \cap call[q].evicted = {},
         notified' = notified
  PROVE  Single'
<1>1. /\ call'[p] = c /\ \A q \in Procs \ {p} : call'[q] = call[q]
  BY CallMoves
<1>2. \A q \in Callers : q \in Procs
  BY DEF Procs
<1>3. (\A q, r \in Callers : call[q].item.object = call[r].item.object =>
                              q = r \/ call[q].item.object = 0)'
  BY <1>1, <1>2 DEF Single
<1>4. (\A q, r \in Procs : q = r \/ call[q].evicted \cap call[r].evicted = {})'
  BY <1>1 DEF Single
<1> QED BY <1>3, <1>4 DEF Single

LEMMA QuietStep ==
  ASSUME CacheInv, ~panicked, NEW p \in Procs, NEW c \in CallRec, Becomes(p, c),
         c.item.object = call[p].item.object, c.evicted = call[p].evicted,
         c.op = "set" => p \in Callers /\ c.key \in Keys /\ c.item.object # 0,
         c.op # "set" => c.item.object = 0, c.op # "notify" => c.evicted = {},
         c.now <= now, now' = now,
         UNCHANGED <<items, onEvicted, made, notified, dropped, panicked>>,
         tick' \in BOOLEAN, user' \in {"holds", "sends", "stuck", "sent"}
  PROVE  CacheInv'
<1>1. Calling /\ Partition /\ Singly /\ Types
  BY DEF CacheInv
<1>2. Calling'
  BY <1>1, CallsStay
<1>3. Held' = Held /\ Waiting' = Waiting
  <2>1. call[p].evicted \subseteq Waiting
    BY DEF Waiting
  <2>2. Held' = Held
    BY <1>1, HeldMoves
  <2>3. Waiting' = (Waiting \ call[p].evicted) \cup c.evicted
    BY <1>1, WaitingMoves
  <2> QED BY <2>1, <2>2, <2>3
<1>4. Cached' = Cached /\ Told' = Told
  BY DEF Cached, Told
<1>5. Partition'
  BY <1>1, <1>3, <1>4 DEF Partition
<1>6. Single'
  <2>1. \A q \in Procs \ {p} : c.evicted \cap call[q].evicted = {}
    BY <1>1 DEF Singly
  <2> QED BY <1>1, <2>1, SingleMoves, SinglyParts
<1>7. ItemsSingle' /\ ItemsOK'
  BY <1>1, SinglyParts, ItemsTyped DEF ItemsSingle, ItemsOK
<1>8. Types'
  BY <1>1, <1>2, <1>7, OpsTyped, TypeParts, TypePartsNext
<1> QED BY <1>2, <1>5, <1>6, <1>7, <1>8, SinglyParts DEF CacheInv

LEMMA StepSetTime ==
  ASSUME CacheInv, ~panicked, NEW p, NEW k \in Keys, NEW d \in Durations, SetTime(p, k, d)
  PROVE  CacheInv'
<1> DEFINE c == SetCall(k, NewItem(d))
<1>1. Calling /\ Partition /\ Singly /\ Single /\ ItemsSingle /\ Types
  BY SinglyParts DEF CacheInv
<1>2. p \in Callers /\ p \in Procs /\ call[p].op = "idle" /\ made < NumObjects
  BY DEF SetTime, Calls, Procs
<1>3. /\ NewItem(d) \in ItemRec /\ NewItem(d).object = made + 1 /\ made + 1 # 0
      /\ made \in Nat /\ made + 1 \in 0..NumObjects
  BY <1>1, <1>2, NewItemTyped
<1>4. c \in CallRec /\ c.op = "set" /\ c.key = k /\ c.item = NewItem(d) /\ c.now = 0 /\ c.evicted = {}
  BY <1>3, NewCalls
<1>5. Becomes(p, c)
  BY DEF SetTime, Becomes, SetCall
<1> HIDE DEF c
<1>6. /\ made' = made + 1
      /\ UNCHANGED <<items, onEvicted, now, tick, user, notified, dropped, panicked>>
  BY DEF SetTime, mapVars
<1>7. call[p].item.object = 0 /\ call[p].evicted = {} /\ now \in Nat
  <2>1. CallOK(p) /\ call[p].op = "idle"
    BY <1>1, <1>2 DEF Calling
  <2>2. call[p].item.object = 0 /\ call[p].evicted = {}
    BY <2>1 DEF CallOK
  <2> QED BY <1>1, <2>2, Parameters, TypeParts
<1>8. Calling'
  BY <1>1, <1>2, <1>3, <1>4, <1>5, <1>6, <1>7, CallsStay
<1>9. Held' = Held \cup {made + 1} /\ Waiting' = Waiting
  <2>1. 0 \notin Held
    BY DEF Held
  <2>2. Held' = (Held \ {call[p].item.object}) \cup ({c.item.object} \ {0})
    BY <1>1, <1>2, <1>4, <1>5, HeldMoves
  <2>3. Waiting' = (Waiting \ call[p].evicted) \cup c.evicted
    BY <1>1, <1>2, <1>4, <1>5, WaitingMoves
  <2> QED BY <1>3, <1>4, <1>7, <2>1, <2>2, <2>3
<1>10. Cached' = Cached /\ Told' = Told
  BY <1>6 DEF Cached, Told
<1>11. made + 1 \notin 1..made /\ 1..made' = (1..made) \cup {made + 1}
  BY <1>3, <1>6
<1>12. Partition'
  BY <1>1, <1>6, <1>9, <1>10, <1>11 DEF Partition
<1>13. Single'
  <2>1. \A q \in Callers : call[q].item.object # made + 1
    BY <1>1, <1>3, <1>11 DEF Partition, Held
  <2> QED BY <1>1, <1>2, <1>3, <1>4, <1>5, <1>6, <2>1, SingleMoves
<1>14. ItemsSingle' /\ ItemsOK'
  BY <1>1, <1>6, ItemsTyped DEF ItemsSingle, ItemsOK
<1>15. Types'
  BY <1>1, <1>3, <1>6, <1>8, <1>14, OpsTyped, TypeParts, TypePartsNext
<1> QED BY <1>8, <1>12, <1>13, <1>14, <1>15, SinglyParts DEF CacheInv

LEMMA StepSetStore ==
  ASSUME CacheInv, ~panicked, NEW p \in Procs, SetStore(p)
  PROVE  CacheInv'
<1>0. PICK n : n = call[p].item.object
  OBVIOUS
<1>1. Calling /\ Partition /\ Singly /\ Single /\ ItemsSingle /\ Types /\ ItemsOK
  BY SinglyParts, ItemsTyped DEF CacheInv
<1>2. /\ call[p].op = "set" /\ p \in Callers /\ call[p].key \in Keys /\ n # 0
      /\ call[p].evicted = {} /\ call[p].item \in ItemRec /\ n \in Held
  BY <1>0, <1>1, CallerIs DEF SetStore, Calling, CallOK, Held
<1>3. Becomes(p, Idle) /\ Put(call[p].key, call[p].item)
      /\ UNCHANGED <<onEvicted, now, tick, user, made, notified, panicked>>
  BY DEF SetStore, Becomes
<1>4. dropped \subseteq Objects /\ now \in Nat /\ n \notin Cached
  BY <1>1, <1>2, TypeParts, Parameters DEF Partition
<1>5. Calling'
  BY <1>1, <1>3, <1>4, IdleCall, CallsStay
<1>6. Held' = Held \ {n} /\ Waiting' = Waiting
  <2>1. Held' = (Held \ {call[p].item.object}) \cup ({Idle.item.object} \ {0})
    BY <1>1, <1>2, <1>3, IdleCall, HeldMoves
  <2>2. Waiting' = (Waiting \ call[p].evicted) \cup Idle.evicted
    BY <1>1, <1>2, <1>3, IdleCall, WaitingMoves
  <2>3. Idle.item.object = 0 /\ Idle.evicted = {}
    BY IdleCall
  <2> QED BY <1>0, <1>2, <2>1, <2>2, <2>3
<1>7. /\ ItemsOK' /\ ItemsSingle' /\ dropped' \subseteq Objects
      /\ \E old \in SUBSET Cached : Cached' = (Cached \ old) \cup {n} /\ dropped' = dropped \cup old
  BY <1>0, <1>1, <1>2, <1>3, <1>4, PutEffect
<1>8. Told' = Told
  BY <1>3 DEF Told
<1>9. Partition'
  BY <1>1, <1>2, <1>3, <1>6, <1>7, <1>8 DEF Partition
<1>10. Single'
  BY <1>1, <1>3, IdleCall, SingleMoves
<1>11. Types'
  BY <1>1, <1>3, <1>5, <1>7, OpsTyped, TypeParts, TypePartsNext
<1> QED BY <1>5, <1>7, <1>9, <1>10, <1>11, SinglyParts DEF CacheInv

LEMMA StepStoreNew ==
  ASSUME CacheInv, ~panicked, NEW p, NEW k \in Keys, NEW d \in Durations, StoreNew(p, k, d)
  PROVE  CacheInv'
<1>1. Calling /\ Partition /\ Singly /\ Single /\ ItemsSingle /\ Types /\ ItemsOK
  BY SinglyParts, ItemsTyped DEF CacheInv
<1>2. /\ made < NumObjects /\ made' = made + 1 /\ Put(k, NewItem(d))
      /\ UNCHANGED <<onEvicted, now, call, tick, user, notified, panicked>>
  BY DEF StoreNew
<1>3. /\ NewItem(d) \in ItemRec /\ NewItem(d).object = made + 1 /\ made + 1 # 0
      /\ made \in Nat /\ made + 1 \in 0..NumObjects
  BY <1>1, <1>2, NewItemTyped
<1>4. made + 1 \notin 1..made /\ 1..made' = (1..made) \cup {made + 1}
  BY <1>2, <1>3
<1>5. dropped \subseteq Objects /\ made + 1 \notin Cached
  BY <1>1, <1>4, TypeParts DEF Partition
<1>6. /\ ItemsOK' /\ ItemsSingle' /\ dropped' \subseteq Objects
      /\ \E old \in SUBSET Cached :
           Cached' = (Cached \ old) \cup {made + 1} /\ dropped' = dropped \cup old
  BY <1>1, <1>2, <1>3, <1>5, PutEffect
<1>7. Calling' /\ Single' /\ Held' = Held /\ Waiting' = Waiting /\ Told' = Told
  BY <1>1, <1>2 DEF Calling, CallOK, Single, Held, Waiting, Told
<1>8. Partition'
  BY <1>1, <1>2, <1>4, <1>6, <1>7 DEF Partition
<1>9. Types'
  BY <1>1, <1>2, <1>3, <1>6, <1>7, OpsTyped, TypeParts, TypePartsNext
<1> QED BY <1>6, <1>7, <1>8, <1>9, SinglyParts DEF CacheInv

LEMMA StepClear ==
  ASSUME CacheInv, ~panicked, NEW p, Clear(p)
  PROVE  CacheInv'
<1>1. Calling /\ Partition /\ Singly /\ Single /\ Types /\ ItemsOK
  BY SinglyParts, ItemsTyped DEF CacheInv
<1>2. /\ DOMAIN items' = {} /\ dropped' = dropped \cup Cached
      /\ UNCHANGED <<onEvicted, now, call, tick, user, made, notified, panicked>>
  BY DEF Clear, Cached
<1>3. Cached \subseteq Objects
  BY <1>1 DEF ItemsOK, Cached
<1>4. Cached' = {} /\ ItemsOK' /\ ItemsSingle'
  BY <1>2 DEF Cached, ItemsOK, ItemsSingle
<1>5. Calling' /\ Single' /\ Held' = Held /\ Waiting' = Waiting /\ Told' = Told
  BY <1>1, <1>2 DEF Calling, CallOK, Single, Held, Waiting, Told
<1>6. Partition'
  BY <1>1, <1>2, <1>4, <1>5 DEF Partition
<1>7. dropped \subseteq Objects /\ dropped' \subseteq Objects
  BY <1>1, <1>2, <1>3, TypeParts
<1>8. Types'
  BY <1>1, <1>2, <1>4, <1>5, <1>7, OpsTyped, TypeParts, TypePartsNext
<1> QED BY <1>4, <1>5, <1>6, <1>8, SinglyParts DEF CacheInv

\* Delete from an idle call, and the sweep.
LEMMA StepDelete ==
  ASSUME CacheInv, ~panicked, NEW p \in Procs, NEW K, delete(p, K),
         call[p].op \in {"idle", "sweep"},
         UNCHANGED <<onEvicted, now, tick, user, made, notified, panicked>>
  PROVE  CacheInv'
<1>1. Calling /\ Partition /\ Singly /\ Single /\ ItemsSingle /\ Types /\ ItemsOK
  BY SinglyParts, ItemsTyped DEF CacheInv
<1>2. call[p].item.object = 0 /\ call[p].evicted = {}
  BY <1>1 DEF Calling, CallOK
<1>3. now \in Nat /\ dropped \subseteq Objects
  BY <1>1, TypeParts, Parameters
<1>4. /\ ItemsOK' /\ ItemsSingle' /\ dropped' \subseteq Objects
      /\ \E out \in SUBSET (Cached \cap Objects) :
           /\ Cached' = Cached \ out
           /\ \/ dropped' = dropped \cup out
                 /\ Becomes(p, NotifyCall({}))
              \/ dropped' = dropped
                 /\ Becomes(p, NotifyCall(out))
  BY <1>1, <1>3, DeleteEffect
<1>5. PICK out, E :
        /\ out \subseteq Cached \cap Objects /\ E \subseteq out
        /\ Cached' = Cached \ out /\ dropped' = dropped \cup (out \ E)
        /\ Becomes(p, NotifyCall(E))
  BY <1>4
<1>6. PICK c : c = NotifyCall(E)
  OBVIOUS
<1>7. c \in CallRec /\ c.op = "notify" /\ c.item.object = 0 /\ c.now = 0 /\ c.evicted = E
  BY <1>5, <1>6, NewCalls
<1>8. Becomes(p, c)
  BY <1>5, <1>6
<1>9. Calling'
  BY <1>1, <1>3, <1>7, <1>8, CallsStay
<1>10. Held' = Held /\ Waiting' = Waiting \cup E
  <2>1. Held' = Held
    BY <1>1, <1>2, <1>7, <1>8, HeldMoves
  <2>2. Waiting' = (Waiting \ call[p].evicted) \cup c.evicted
    BY <1>1, <1>7, <1>8, WaitingMoves
  <2> QED BY <1>2, <1>7, <2>1, <2>2
<1>11. Told' = Told
  BY DEF Told
<1>12. Partition'
  BY <1>1, <1>5, <1>10, <1>11 DEF Partition
<1>13. Single'
  <2>1. \A q \in Procs : call[q].evicted \subseteq Waiting
    BY DEF Waiting
  <2>2. \A q \in Procs \ {p} : c.evicted \cap call[q].evicted = {}
    BY <1>1, <1>5, <1>7, <2>1 DEF Partition
  <2> QED BY <1>1, <1>7, <1>8, <2>2, SingleMoves
<1>14. Types'
  BY <1>1, <1>4, <1>9, OpsTyped, TypeParts, TypePartsNext
<1> QED BY <1>4, <1>9, <1>12, <1>13, <1>14, SinglyParts DEF CacheInv

LEMMA AppendTold ==
  ASSUME notified \in Seq(Objects), NEW o \in Objects, o \notin Told,
         \A i, j \in 1..Len(notified) : notified[i] = notified[j] => i = j,
         notified' = Append(notified, o)
  PROVE  /\ notified' \in Seq(Objects) /\ Told' = Told \cup {o}
         /\ \A i, j \in 1..Len(notified') : notified'[i] = notified'[j] => i = j
<1>1. /\ notified' \in Seq(Objects) /\ Len(notified') = Len(notified) + 1 /\ Len(notified) \in Nat
      /\ notified'[Len(notified) + 1] = o
      /\ \A i \in 1..Len(notified) : notified'[i] = notified[i]
  OBVIOUS
<1>2. DOMAIN notified = 1..Len(notified) /\ DOMAIN notified' = 1..Len(notified')
  BY <1>1
<1>3. Told = {notified[i] : i \in 1..Len(notified)} /\ Told' = {notified'[i] : i \in 1..Len(notified')}
  BY <1>2 DEF Told, Range
<1>4. 1..Len(notified') = 1..Len(notified) \cup {Len(notified) + 1}
  BY <1>1
<1>5. Told' = Told \cup {o}
  BY <1>1, <1>3, <1>4
<1>6. \A i \in 1..Len(notified) : notified[i] # o
  BY <1>3
<1>7. \A i, j \in 1..Len(notified') : notified'[i] = notified'[j] => i = j
  BY <1>1, <1>4, <1>6
<1> QED BY <1>1, <1>5, <1>7

LEMMA StepNotify ==
  ASSUME CacheInv, ~panicked, NEW p \in Procs, Notify(p)
  PROVE  CacheInv'
<1>1. Calling /\ Partition /\ Singly /\ Single /\ ItemsSingle /\ Types /\ ItemsOK
  BY SinglyParts, ItemsTyped DEF CacheInv
<1>2. PICK o \in call[p].evicted :
        /\ call' = [call EXCEPT ![p].evicted = @ \ {o}]
        /\ notified' = IF onEvicted = "nil" THEN notified ELSE Append(notified, o)
        /\ panicked' = (onEvicted = "nil")
  BY DEF Notify
<1>3. /\ call[p].op = "notify"
      /\ UNCHANGED <<items, onEvicted, now, tick, user, made, dropped>>
  BY DEF Notify, mapVars
<1>4. PICK c : c = [call[p] EXCEPT !.evicted = call[p].evicted \ {o}]
  OBVIOUS
<1>5. /\ c \in CallRec /\ c.op = "notify" /\ c.item.object = 0
      /\ c.now = call[p].now /\ c.evicted = call[p].evicted \ {o}
  <2>1. /\ call[p] \in CallRec /\ call[p].op = "notify" /\ call[p].item.object = 0
        /\ call[p].evicted \ {o} \in SUBSET Objects
    BY <1>1, <1>3, CallerIs DEF Calling, CallOK
  <2> QED BY <1>4, <2>1 DEF CallRec
<1>6. Becomes(p, c)
  BY <1>2, <1>4 DEF Becomes
<1>7. call[p].item.object = 0 /\ call[p].now <= now
  BY <1>1, <1>3 DEF Calling, CallOK
<1>8. Calling'
  BY <1>1, <1>3, <1>5, <1>6, <1>7, CallsStay
<1>9. /\ o \in Objects /\ o \in Waiting /\ call[p].evicted \subseteq Waiting
      /\ notified \in Seq(Objects) /\ o \notin Told
      /\ \A i, j \in 1..Len(notified) : notified[i] = notified[j] => i = j
  <2>1. o \in Waiting /\ call[p].evicted \subseteq Waiting
    BY DEF Waiting
  <2>2. o \in Objects
    BY <1>1, CallerIs
  <2> QED BY <1>1, <2>1, <2>2, TypeParts DEF Partition, Single
<1>10. ItemsSingle' /\ ItemsOK'
  BY <1>1, <1>3 DEF ItemsSingle, ItemsOK
<1>11. notified' \in Seq(Objects)
  BY <1>2, <1>9, AppendTold
<1>12. Types'
  BY <1>1, <1>3, <1>8, <1>10, <1>11, OpsTyped, TypeParts, TypePartsNext
<1>13. CASE onEvicted = "nil"
  BY <1>2, <1>8, <1>12, <1>13 DEF CacheInv
<1>14. CASE onEvicted # "nil"
  <2>1. notified' = Append(notified, o)
    BY <1>2, <1>14
  <2>2. /\ Told' = Told \cup {o}
        /\ \A i, j \in 1..Len(notified') : notified'[i] = notified'[j] => i = j
    BY <1>9, <2>1, AppendTold
  <2>3. Held' = Held
    BY <1>1, <1>5, <1>6, <1>7, HeldMoves
  <2>4. Waiting' = (Waiting \ call[p].evicted) \cup c.evicted
    BY <1>1, <1>5, <1>6, WaitingMoves
  <2>5. Waiting' = Waiting \ {o}
    BY <1>5, <1>9, <2>4
  <2>6. Cached' = Cached
    BY <1>3 DEF Cached
  <2>7. Partition'
    BY <1>1, <1>3, <1>9, <2>2, <2>3, <2>5, <2>6 DEF Partition
  <2>8. Single'
    <3>1. /\ call'[p] = c /\ \A q \in Procs \ {p} : call'[q] = call[q]
      BY <1>1, <1>5, <1>6, CallMoves
    <3>2. (\A q, r \in Callers : call[q].item.object = call[r].item.object =>
                                  q = r \/ call[q].item.object = 0)'
      BY <1>1, <1>5, <3>1 DEF Single, Procs
    <3>3. (\A q, r \in Procs : q = r \/ call[q].evicted \cap call[r].evicted = {})'
      BY <1>1, <1>5, <3>1 DEF Single
    <3> QED BY <2>2, <3>2, <3>3 DEF Single
  <2> QED BY <1>8, <1>10, <1>12, <2>7, <2>8, SinglyParts DEF CacheInv
<1> QED BY <1>13, <1>14

\* The steps of p that only change what it is doing.
LEMMA StepCall ==
  ASSUME CacheInv, ~panicked, NEW p \in Procs,
         \/ /\ ReadNow(p) /\ call[p].op = "idle" /\ tick' \in BOOLEAN
            /\ UNCHANGED <<mapVars, now, user, history>>
         \/ Return(p)
         \/ p = Janitor /\ (JanitorStart \/ JanitorStop)
  PROVE  CacheInv'
<1>1. Calling /\ Types /\ tick \in BOOLEAN /\ user \in {"holds", "sends", "stuck", "sent"}
  BY TypeParts DEF CacheInv
<1>2. now \in Nat /\ now <= now
  BY <1>1, Parameters, TypeParts
<1>3. /\ UNCHANGED <<items, onEvicted, now, made, notified, dropped, panicked>>
      /\ tick' \in BOOLEAN /\ user' \in {"holds", "sends", "stuck", "sent"}
  BY <1>1 DEF Return, JanitorStart, JanitorStop, mapVars, history
<1>4. call[p].item.object = 0 /\ call[p].evicted = {}
  BY <1>1 DEF Calling, CallOK, Return, JanitorStart, JanitorStop
<1>5. CASE ReadNow(p)
  <2>1. Becomes(p, SweepCall(now))
    BY <1>5 DEF ReadNow, Becomes, SweepCall
  <2>2. /\ SweepCall(now) \in CallRec /\ SweepCall(now).op = "sweep"
        /\ SweepCall(now).item.object = 0 /\ SweepCall(now).now = now
        /\ SweepCall(now).evicted = {}
    BY <1>2, NewCalls
  <2> QED BY <1>2, <1>3, <1>4, <2>1, <2>2, QuietStep
<1>6. CASE Return(p) \/ (p = Janitor /\ (JanitorStart \/ JanitorStop))
  <2>1. Becomes(p, Idle)
    BY <1>6 DEF Return, JanitorStart, JanitorStop, Becomes
  <2>2. /\ Idle \in CallRec /\ Idle.op = "idle" /\ Idle.item.object = call[p].item.object
        /\ Idle.item.object = 0 /\ Idle.evicted = call[p].evicted /\ Idle.evicted = {}
        /\ Idle.now <= now
    BY <1>2, <1>4, IdleCall
  <2> QED BY <1>3, <2>1, <2>2, QuietStep
<1> QED BY <1>5, <1>6

\* The clock, the finalizer, and the calls that change nothing of the map.
LEMMA StepOther ==
  ASSUME CacheInv, ~panicked, UNCHANGED <<items, call, made, notified, dropped, panicked>>,
         onEvicted' \in {"set", "nil"}, now' \in 1..MaxTime, now' >= now, tick' \in BOOLEAN,
         user' \in {"holds", "sends", "stuck", "sent"}
  PROVE  CacheInv'
<1>1. Calling /\ Partition /\ Singly /\ Types /\ ItemsOK
  BY ItemsTyped DEF CacheInv
<1>2. Calling'
  <2>1. now \in Nat /\ now' \in Nat
    BY <1>1, Parameters, TypeParts
  <2>2. \A p \in Procs : call[p].now \in Nat
    BY <1>1, CallerIs
  <2> QED BY <1>1, <2>1, <2>2 DEF Calling, CallOK
<1>3. Partition' /\ Singly' /\ ItemsOK'
  <2>1. Held' = Held /\ Waiting' = Waiting /\ Cached' = Cached /\ Told' = Told
    BY DEF Held, Waiting, Cached, Told
  <2>2. Partition'
    BY <1>1, <2>1 DEF Partition
  <2>3. Singly'
    BY <1>1 DEF Singly
  <2>4. ItemsOK'
    BY <1>1 DEF ItemsOK
  <2> QED BY <2>2, <2>3, <2>4
<1>4. Types'
  BY <1>1, <1>2, <1>3, OpsTyped, TypeParts, TypePartsNext
<1> QED BY <1>2, <1>3, <1>4 DEF CacheInv

LEMMA NextCache == CacheInv /\ [Next]_vars => CacheInv'
<1> SUFFICES ASSUME CacheInv, [Next]_vars PROVE CacheInv'
  OBVIOUS
<1>0. /\ Types /\ tick \in BOOLEAN /\ user \in {"holds", "sends", "stuck", "sent"}
      /\ onEvicted \in {"set", "nil"} /\ now \in 1..MaxTime /\ now \in Nat /\ MaxTime \in Nat
      /\ Janitor \in Procs /\ \A p \in Callers : p \in Procs
  BY TypeParts, Parameters DEF CacheInv, Procs
<1>1. CASE UNCHANGED vars
  <2>1. UNCHANGED <<items, onEvicted, now, call, tick, user, made, notified, dropped, panicked>>
    BY <1>1 DEF vars, mapVars, history
  <2>2. CASE panicked
    <3>1. Types' /\ Calling' /\ panicked'
      BY <2>1, <2>2 DEF CacheInv, Types, Calling, CallOK
    <3> QED BY <3>1 DEF CacheInv
  <2>3. CASE ~panicked
    BY <1>0, <2>1, <2>3, StepOther
  <2> QED BY <2>2, <2>3
<1>2. CASE Next
  <2>1. ~panicked
    BY <1>2 DEF Next
  <2>2. CASE Clock \/ Drop
    <3>1. now' \in 1..MaxTime /\ now' >= now
      BY <1>0, <2>2 DEF Clock, Drop
    <3> QED BY <1>0, <2>1, <2>2, <3>1, StepOther DEF Clock, Drop, mapVars, history
  <2>3. CASE JanitorStep
    <3>1. CASE Step(Janitor)
      <4>1. CASE Sweep(Janitor)
        BY <1>0, <2>1, <4>1, StepDelete DEF Sweep
      <4> QED BY <1>0, <2>1, <3>1, <4>1, StepSetStore, StepNotify, StepCall DEF Step
    <3>2. CASE JanitorTick
      <4>1. ReadNow(Janitor) /\ call[Janitor].op = "idle" /\ tick' \in BOOLEAN
            /\ UNCHANGED <<mapVars, now, user, history>>
        BY <3>2 DEF JanitorTick
      <4> QED BY <1>0, <2>1, <4>1, StepCall
    <3>3. CASE JanitorStart \/ JanitorStop
      BY <1>0, <2>1, <3>3, StepCall
    <3> QED BY <2>3, <3>1, <3>2, <3>3 DEF JanitorStep
  <2>4. ASSUME NEW p \in Callers, Step(p) \/ Clear(p) \/ DeleteExpired(p)
        PROVE  CacheInv'
    <3>1. CASE Sweep(p)
      BY <1>0, <2>1, <3>1, StepDelete DEF Sweep
    <3>2. CASE DeleteExpired(p)
      <4>1. ReadNow(p) /\ call[p].op = "idle" /\ tick' \in BOOLEAN
            /\ UNCHANGED <<mapVars, now, user, history>>
        BY <1>0, <3>2 DEF DeleteExpired, Calls
      <4> QED BY <1>0, <2>1, <4>1, StepCall
    <3> QED BY <1>0, <2>1, <2>4, <3>1, <3>2, StepSetStore, StepNotify, StepCall, StepClear DEF Step
  <2>5. ASSUME NEW p \in Callers, NEW f \in {"set", "nil"}, OnEvicted(p, f)
        PROVE  CacheInv'
    BY <1>0, <2>1, <2>5, StepOther DEF OnEvicted, history
  <2>6. ASSUME NEW p \in Callers, NEW k \in Keys, Delete(p, k) \/ UpdateExpiration(p, k)
        PROVE  CacheInv'
    <3>1. CASE Delete(p, k)
      BY <1>0, <2>1, <3>1, StepDelete DEF Delete, Calls
    <3>2. CASE UpdateExpiration(p, k)
      BY <1>0, <2>1, <3>2, StepOther DEF UpdateExpiration, vars, mapVars, history
    <3> QED BY <2>6, <3>1, <3>2
  <2>7. ASSUME NEW p \in Callers, NEW k \in Keys, NEW d \in Durations,
               SetTime(p, k, d) \/ Add(p, k, d) \/ Replace(p, k, d)
        PROVE  CacheInv'
    BY <2>1, <2>7, StepSetTime, StepStoreNew DEF Add, Replace
  <2> QED BY <1>2, <2>2, <2>3, <2>4, <2>5, <2>6, <2>7 DEF Next
<1> QED BY <1>1, <1>2

LEMMA AlwaysCache == Spec => []CacheInv
BY InitCache, NextCache, PTL DEF Spec
-----------------------------------------------------------------------------
(***************************************************************************)
(* Who has items to report while onEvicted is nil had them when it was set *)
(* to nil: with nil set, no call takes up items.                           *)
(***************************************************************************)
RaceInv ==
  /\ disabled \subseteq Procs /\ panicked \in BOOLEAN
  /\ \A p \in Procs : call[p].evicted # {} /\ onEvicted = "nil" => p \in disabled

\* A step of p that leaves onEvicted alone and takes up no item while it is nil.
LEMMA RaceMoves ==
  ASSUME Calling, RaceInv, NEW p \in Procs, NEW c, Becomes(p, c), onEvicted' = onEvicted,
         onEvicted = "nil" => c.evicted \subseteq call[p].evicted,
         \/ disabled' = disabled
         \/ disabled' = disabled \ {p} /\ c.evicted = {},
         panicked' \in BOOLEAN
  PROVE  RaceInv'
<1>1. call'[p] = c /\ \A q \in Procs \ {p} : call'[q] = call[q]
  BY DEF Calling, Becomes
<1> QED BY <1>1 DEF RaceInv

LEMMA RaceDelete ==
  ASSUME Calling, RaceInv, NEW p \in Procs, NEW K, delete(p, K),
         UNCHANGED <<onEvicted, disabled, panicked>>
  PROVE  RaceInv'
<1> DEFINE E == IF onEvicted = "nil" THEN {} ELSE {items[k].object : k \in DOMAIN items \cap K}
<1>1. PICK c : c = [Idle EXCEPT !.op = "notify", !.evicted = E]
  OBVIOUS
<1>2. Becomes(p, c)
  BY <1>1 DEF delete, Becomes
<1>3. c.evicted = E
  BY <1>1, IdleCall DEF CallRec
<1>4. onEvicted = "nil" => c.evicted = {}
  BY <1>3
<1>5. panicked' \in BOOLEAN
  BY DEF RaceInv
<1> QED BY <1>2, <1>4, <1>5, RaceMoves

\* A step of p keeps the invariant.
LEMMA RaceStep ==
  ASSUME CacheInv, RaceInv, NEW p \in Procs, Step(p)
  PROVE  RaceInv'
<1>1. Calling /\ panicked \in BOOLEAN
  BY DEF CacheInv, RaceInv
<1>2. Idle.evicted = {}
  BY IdleCall
<1>3. CASE SetStore(p)
  <2>1. Becomes(p, Idle) /\ onEvicted' = onEvicted /\ disabled' = disabled /\ panicked' = panicked
    BY <1>3 DEF SetStore, Becomes
  <2> QED BY <1>1, <1>2, <2>1, RaceMoves
<1>4. CASE Sweep(p)
  BY <1>1, <1>4, RaceDelete DEF Sweep
<1>5. CASE Notify(p)
  <2>1. PICK o \in call[p].evicted :
          /\ call' = [call EXCEPT ![p].evicted = @ \ {o}]
          /\ panicked' = (onEvicted = "nil")
    BY <1>5 DEF Notify
  <2>2. onEvicted' = onEvicted /\ disabled' = disabled
    BY <1>5 DEF Notify, mapVars
  <2>3. PICK c : c = [call[p] EXCEPT !.evicted = call[p].evicted \ {o}]
    OBVIOUS
  <2>4. Becomes(p, c)
    BY <2>1, <2>3 DEF Becomes
  <2>5. call[p] \in CallRec
    BY <1>1 DEF Calling
  <2>6. c.evicted \subseteq call[p].evicted
    BY <2>3, <2>5 DEF CallRec
  <2>7. panicked' \in BOOLEAN
    BY <2>1
  <2> QED BY <1>1, <2>2, <2>4, <2>6, <2>7, RaceMoves
<1>6. CASE Return(p)
  <2>1. Becomes(p, Idle) /\ disabled' = disabled \ {p} /\ onEvicted' = onEvicted /\ panicked' = panicked
    BY <1>6 DEF Return, Becomes, mapVars
  <2> QED BY <1>1, <1>2, <2>1, RaceMoves
<1> QED BY <1>3, <1>4, <1>5, <1>6 DEF Step

LEMMA NextRace == CacheInv /\ RaceInv /\ [Next]_vars => RaceInv'
<1> SUFFICES ASSUME CacheInv, RaceInv, [Next]_vars PROVE RaceInv'
  OBVIOUS
<1>1. /\ Calling /\ panicked \in BOOLEAN /\ Janitor \in Procs /\ \A p \in Callers : p \in Procs
      /\ now \in Nat
  BY TypeParts, Parameters DEF CacheInv, RaceInv, Procs
<1>2. ASSUME UNCHANGED <<call, onEvicted, disabled, panicked>>
      PROVE  RaceInv'
  BY <1>2 DEF RaceInv
<1>3. ASSUME NEW p \in Procs, ReadNow(p), UNCHANGED <<onEvicted, disabled, panicked>>
      PROVE  RaceInv'
  <2>1. Becomes(p, SweepCall(now))
    BY <1>3 DEF ReadNow, Becomes, SweepCall
  <2>2. SweepCall(now).evicted = {}
    BY <1>1, NewCalls
  <2> QED BY <1>1, <1>3, <2>1, <2>2, RaceMoves
<1>4. CASE UNCHANGED vars \/ Clock \/ Drop
  <2>1. UNCHANGED <<call, onEvicted, disabled, panicked>>
    BY <1>4 DEF vars, mapVars, history, Clock, Drop
  <2> QED BY <1>2, <2>1
<1>5. CASE JanitorStep
  <2>1. CASE JanitorStart \/ JanitorStop
    <3>1. Becomes(Janitor, Idle) /\ UNCHANGED <<onEvicted, disabled, panicked>>
      BY <2>1 DEF JanitorStart, JanitorStop, Becomes, mapVars, history
    <3> QED BY <1>1, <3>1, IdleCall, RaceMoves
  <2>2. CASE JanitorTick
    BY <1>1, <1>3, <2>2 DEF JanitorTick, mapVars, history
  <2> QED BY <1>1, <1>5, <2>1, <2>2, RaceStep DEF JanitorStep
<1>6. ASSUME NEW p \in Callers, Clear(p) \/ DeleteExpired(p)
      PROVE  RaceInv'
  BY <1>1, <1>2, <1>3, <1>6 DEF Clear, DeleteExpired, mapVars, history
<1>7. ASSUME NEW p \in Callers, NEW f \in {"set", "nil"}, OnEvicted(p, f)
      PROVE  RaceInv'
  <2>1. /\ onEvicted' = f /\ UNCHANGED <<call, panicked>>
        /\ disabled' = disabled \cup IF f = "nil" THEN {q \in Procs : call[q].evicted # {}} ELSE {}
    BY <1>7 DEF OnEvicted
  <2> QED BY <2>1 DEF RaceInv
<1>8. ASSUME NEW p \in Callers, NEW k \in Keys, Delete(p, k) \/ UpdateExpiration(p, k)
      PROVE  RaceInv'
  <2>1. CASE Delete(p, k)
    BY <1>1, <2>1, RaceDelete DEF Delete
  <2>2. CASE UpdateExpiration(p, k)
    BY <1>2, <2>2 DEF UpdateExpiration, vars, mapVars, history
  <2> QED BY <1>8, <2>1, <2>2
<1>9. ASSUME NEW p \in Callers, NEW k \in Keys, NEW d \in Durations,
             SetTime(p, k, d) \/ Add(p, k, d) \/ Replace(p, k, d)
      PROVE  RaceInv'
  <2>1. CASE SetTime(p, k, d)
    <3>1. PICK c : c = [Idle EXCEPT !.op = "set", !.key = k, !.item = NewItem(d)]
      OBVIOUS
    <3>2. c.evicted = {}
      BY <3>1, IdleCall DEF CallRec
    <3>3. Becomes(p, c) /\ UNCHANGED <<onEvicted, disabled, panicked>>
      BY <2>1, <3>1 DEF SetTime, Becomes, mapVars
    <3> QED BY <1>1, <3>2, <3>3, RaceMoves
  <2>2. CASE Add(p, k, d) \/ Replace(p, k, d)
    BY <1>2, <2>2 DEF Add, Replace, StoreNew
  <2> QED BY <1>9, <2>1, <2>2
<1>10. CASE Next
  BY <1>1, <1>4, <1>5, <1>6, <1>7, <1>8, <1>9, <1>10, RaceStep DEF Next
<1> QED BY <1>4, <1>10

LEMMA AlwaysRace == Spec => [](CacheInv /\ RaceInv)
<1>1. Init => RaceInv
  <2> SUFFICES ASSUME Init PROVE RaceInv
    OBVIOUS
  <2>1. \A p \in Procs : call[p].evicted = {}
    BY IdleCall DEF Init
  <2> QED BY <2>1 DEF Init, RaceInv
<1> QED BY <1>1, NextRace, AlwaysCache, PTL DEF Spec
-----------------------------------------------------------------------------
(***************************************************************************)
(* The theorems.                                                           *)
(***************************************************************************)
LEMMA SameCardinality ==
  ASSUME NEW S, NEW T, NEW f \in [S -> T], \A x, y \in S : f[x] = f[y] => x = y,
         \A t \in T : \E x \in S : f[x] = t, IsFiniteSet(T)
  PROVE  Cardinality(S) = Cardinality(T)
<1>1. f \in Injection(S, T)
  BY DEF Injection, IsInjective
<1>2. f \in Surjection(S, T)
  BY DEF Surjection
<1> QED BY <1>1, <1>2, FS_Injection

LEMMA DisjointUnion ==
  ASSUME NEW S, NEW T, IsFiniteSet(S), IsFiniteSet(T), S \cap T = {}
  PROVE  IsFiniteSet(S \cup T) /\ Cardinality(S \cup T) = Cardinality(S) + Cardinality(T)
<1>1. /\ IsFiniteSet(S \cup T)
      /\ Cardinality(S \cup T) = Cardinality(S) + Cardinality(T) - Cardinality(S \cap T)
  BY FS_Union
<1>2. Cardinality(S \cap T) = 0
  BY FS_EmptySet
<1>3. Cardinality(S) \in Nat /\ Cardinality(T) \in Nat
  BY FS_CardinalityType
<1> QED BY <1>1, <1>2, <1>3

LEMMA PlacesAreStored ==
  ASSUME Partition
  PROVE  Cached \cup Waiting \cup Told \cup dropped = Stored
<1>1. Stored = (1..made) \ Held
  BY DEF Stored, Held
<1> QED BY <1>1 DEF Partition

LEMMA PendingWaiting == Waiting = {r[2] : r \in Pending}
<1>1. \A r \in Pending : \E p \in Procs : \E o \in call[p].evicted : r = <<p, o>>
  BY DEF Pending
<1>2. \A p \in Procs : \A o \in call[p].evicted : <<p, o>> \in Pending
  BY DEF Pending
<1>3. \A r \in Pending : r[2] \in Waiting
  BY <1>1 DEF Waiting
<1>4. \A o \in Waiting : \E r \in Pending : r[2] = o
  <2> SUFFICES ASSUME NEW o \in Waiting PROVE \E r \in Pending : r[2] = o
    OBVIOUS
  <2>1. PICK p \in Procs : o \in call[p].evicted
    BY DEF Waiting
  <2>2. <<p, o>> \in Pending /\ <<p, o>>[2] = o
    BY <1>2, <2>1
  <2> QED BY <2>2
<1> QED BY <1>3, <1>4

LEMMA PlacesCounted ==
  ASSUME CacheInv, ~panicked
  PROVE  ItemCount + Cardinality(Pending) + Len(notified) + Cardinality(dropped)
           = Cardinality(Stored)
<1>1. Partition /\ Singly /\ Types
  BY DEF CacheInv
<1>2. /\ IsFiniteSet(Cached) /\ IsFiniteSet(Waiting) /\ IsFiniteSet(Told) /\ IsFiniteSet(dropped)
  <2>1. IsFiniteSet(1..made)
    <3>1. made \in Int
      BY <1>1, TypeParts, Parameters
    <3> QED BY <3>1, FS_Interval
  <2>2. /\ Cached \in SUBSET (1..made) /\ Waiting \in SUBSET (1..made)
        /\ Told \in SUBSET (1..made) /\ dropped \in SUBSET (1..made)
    BY <1>1 DEF Partition
  <2> QED BY <2>1, <2>2, FS_Subset
<1>3. ItemCount = Cardinality(Cached)
  <2> DEFINE f == [k \in DOMAIN items |-> items[k].object]
  <2>1. f \in [DOMAIN items -> Cached]
    BY DEF Cached
  <2>2. \A x, y \in DOMAIN items : f[x] = f[y] => x = y
    BY <1>1 DEF Singly
  <2>3. \A t \in Cached : \E x \in DOMAIN items : f[x] = t
    BY DEF Cached
  <2> HIDE DEF f
  <2> QED BY <1>2, <2>1, <2>2, <2>3, SameCardinality DEF ItemCount
<1>4. Cardinality(Pending) = Cardinality(Waiting)
  <2> DEFINE f == [r \in Pending |-> r[2]]
  <2>1. f \in [Pending -> Waiting] /\ \A t \in Waiting : \E x \in Pending : f[x] = t
    BY PendingWaiting
  <2>2. \A x, y \in Pending : f[x] = f[y] => x = y
    <3> SUFFICES ASSUME NEW x \in Pending, NEW y \in Pending, x[2] = y[2] PROVE x = y
      OBVIOUS
    <3>1. PICK p \in Procs : \E o \in call[p].evicted : x = <<p, o>>
      BY DEF Pending
    <3>2. PICK o \in call[p].evicted : x = <<p, o>>
      BY <3>1
    <3>3. PICK q \in Procs : \E r \in call[q].evicted : y = <<q, r>>
      BY DEF Pending
    <3>4. PICK r \in call[q].evicted : y = <<q, r>>
      BY <3>3
    <3>5. o = r
      BY <3>2, <3>4
    <3>6. p = q
      BY <1>1, <3>2, <3>4, <3>5 DEF Singly
    <3> QED BY <3>2, <3>4, <3>5, <3>6
  <2> HIDE DEF f
  <2> QED BY <1>2, <2>1, <2>2, SameCardinality
<1>5. Len(notified) = Cardinality(Told)
  <2>1. notified \in Seq(Objects) /\ Len(notified) \in Nat
    BY <1>1, TypeParts
  <2>2. Told = {notified[i] : i \in 1..Len(notified)}
    BY <2>1 DEF Told, Range
  <2>3. notified \in [1..Len(notified) -> Told]
    BY <2>1, <2>2
  <2>4. \A i, j \in 1..Len(notified) : notified[i] = notified[j] => i = j
    BY <1>1 DEF Singly
  <2>5. Cardinality(1..Len(notified)) = Cardinality(Told)
    BY <1>2, <2>2, <2>3, <2>4, SameCardinality
  <2>6. Cardinality(1..Len(notified)) = Len(notified)
    <3>1. PICK n \in Nat : n = Len(notified)
      BY <2>1
    <3>2. Cardinality(1..n) = IF 1 > n THEN 0 ELSE n - 1 + 1
      BY FS_Interval
    <3> QED BY <3>1, <3>2
  <2> QED BY <2>5, <2>6
<1>6. /\ IsFiniteSet(Cached \cup Waiting)
      /\ Cardinality(Cached \cup Waiting) = Cardinality(Cached) + Cardinality(Waiting)
  BY <1>1, <1>2, DisjointUnion DEF Partition
<1>7. /\ IsFiniteSet((Cached \cup Waiting) \cup Told)
      /\ Cardinality((Cached \cup Waiting) \cup Told) = Cardinality(Cached \cup Waiting) + Cardinality(Told)
  <2>1. (Cached \cup Waiting) \cap Told = {}
    BY <1>1 DEF Partition
  <2> QED BY <1>2, <1>6, <2>1, DisjointUnion
<1>8. Cardinality(((Cached \cup Waiting) \cup Told) \cup dropped)
        = Cardinality((Cached \cup Waiting) \cup Told) + Cardinality(dropped)
  <2>1. ((Cached \cup Waiting) \cup Told) \cap dropped = {}
    BY <1>1 DEF Partition
  <2> QED BY <1>2, <1>7, <2>1, DisjointUnion
<1> QED BY <1>1, <1>3, <1>4, <1>5, <1>6, <1>7, <1>8, PlacesAreStored

(***************************************************************************)
(* Each object that was stored is in exactly one place: in the cache, on   *)
(* its way to onEvicted, handed over, or dropped without a call.  Hence no *)
(* item that Delete or DeleteExpired takes out while onEvicted is set is   *)
(* notified twice or never, whoever deletes the same key at the same time. *)
(***************************************************************************)
THEOREM ObjectsEvictedOnce == Spec => []EvictedOnce
<1>1. CacheInv /\ RaceInv => EvictedOnce
  <2> SUFFICES ASSUME CacheInv, RaceInv PROVE EvictedOnce
    OBVIOUS
  <2>1. ~panicked => Cached \cup {r[2] : r \in Pending} \cup Range(notified) \cup dropped = Stored
    BY PlacesAreStored, PendingWaiting DEF CacheInv, Told
  <2>2. TypeOK
    BY DEF CacheInv, RaceInv, Types, TypeOK, Times, Ops
  <2> QED BY <2>1, <2>2, PlacesCounted DEF CacheInv, EvictedOnce
<1> QED BY <1>1, AlwaysRace, PTL

\* Only a sweep of p itself ends its sweep, with the clock it has read.
LEMMA SweepStep ==
  ASSUME CacheInv, Next, NEW p \in Procs, call[p].op = "sweep", call'[p] # call[p]
  PROVE  Sweep(p)
<1>1. Calling
  BY DEF CacheInv
<1>2. \A q, c : q # p /\ q \in Procs /\ Becomes(q, c) => call'[p] = call[p]
  BY <1>1 DEF Becomes, Calling
<1>3. Janitor \in Procs /\ \A q \in Callers : q \in Procs
  BY DEF Procs
<1>4. CASE \E q \in Procs : Step(q)
  <2>1. PICK q \in Procs : Step(q)
    BY <1>4
  <2>2. \E c : Becomes(q, c)
    <3>1. CASE SetStore(q)
      BY <3>1 DEF SetStore, Becomes
    <3>2. CASE Sweep(q)
      BY <3>2 DEF Sweep, delete, Becomes
    <3>3. CASE Notify(q)
      <4>1. PICK o \in call[q].evicted : call' = [call EXCEPT ![q].evicted = @ \ {o}]
        BY <3>3 DEF Notify
      <4>2. Becomes(q, [call[q] EXCEPT !.evicted = call[q].evicted \ {o}])
        BY <4>1 DEF Becomes
      <4> QED BY <4>2
    <3>4. CASE Return(q)
      BY <3>4 DEF Return, Becomes
    <3> QED BY <2>1, <3>1, <3>2, <3>3, <3>4 DEF Step
  <2>3. q = p
    BY <1>2, <2>2
  <2> QED BY <2>1, <2>3 DEF Step, SetStore, Notify, Return
<1>5. CASE JanitorStart \/ JanitorTick \/ JanitorStop
  <2>1. \E c : Becomes(Janitor, c)
    BY <1>5 DEF JanitorStart, JanitorTick, JanitorStop, ReadNow, Becomes
  <2>2. p = Janitor
    BY <1>2, <1>3, <2>1
  <2> QED BY <1>5, <2>2 DEF JanitorStart, JanitorTick, JanitorStop
<1>6. ASSUME NEW q \in Callers,
             \/ DeleteExpired(q) \/ \E k \in Keys : Delete(q, k)
             \/ \E k \in Keys, d \in Durations : SetTime(q, k, d)
      PROVE  FALSE
  <2>1. (\E c : Becomes(q, c)) /\ call[q].op = "idle"
    BY <1>6 DEF DeleteExpired, ReadNow, Delete, delete, SetTime, Calls, Becomes
  <2>2. p = q
    BY <1>2, <1>3, <2>1
  <2> QED BY <2>1, <2>2
<1>7. ASSUME \/ Clock \/ Drop
             \/ \E q \in Callers :
                  \/ Clear(q) \/ \E f \in {"set", "nil"} : OnEvicted(q, f)
                  \/ \E k \in Keys : UpdateExpiration(q, k)
                  \/ \E k \in Keys, d \in Durations : Add(q, k, d) \/ Replace(q, k, d)
      PROVE  FALSE
  BY <1>7 DEF Clock, Drop, Clear, OnEvicted, UpdateExpiration, Add, Replace, StoreNew, vars
<1> QED BY <1>3, <1>4, <1>5, <1>6, <1>7 DEF Next, JanitorStep

LEMMA SweepKeeps ==
  ASSUME CacheInv, [Next]_vars, NEW p \in Procs, call[p].op = "sweep", call'[p] # call[p],
         NEW k \in Keys, Found(k)
  PROVE  k \in DOMAIN items' /\ items'[k] = items[k]
<1>1. Next
  BY DEF vars
<1>2. Sweep(p)
  BY <1>1, SweepStep
<1> DEFINE K == {i \in DOMAIN items : ExpiredAt(i, call[p].now)}
<1>3. /\ DOMAIN items' = DOMAIN items \ K
      /\ \A i \in DOMAIN items \ K : items'[i] = items[i]
  BY <1>2 DEF Sweep, delete, Restrict
<1>4. call[p].now <= now /\ call[p].now \in Nat /\ now \in Nat
  BY CallerIs, Parameters, TypeParts DEF CacheInv, Calling, CallOK
<1>5. k \in DOMAIN items /\ ~(items[k].expiration > 0 /\ now > items[k].expiration)
  BY DEF Found, Expired
<1>6. items[k].expiration \in Nat
  BY <1>5, ItemsTyped DEF CacheInv, ItemsOK, Times
<1>7. k \notin K
  BY <1>4, <1>5, <1>6 DEF ExpiredAt
<1> QED BY <1>3, <1>5, <1>7

(***************************************************************************)
(* DeleteExpired and the janitor read the clock before they lock.  What is *)
(* stored in between stays, and so does all that Get would still find: the *)
(* clock they compare with is never ahead.                                 *)
(***************************************************************************)
THEOREM SweepsTakeExpired == Spec => SweepsOnlyExpired
<1>1. CacheInv /\ [Next]_vars =>
        [\A p \in Procs : call[p].op = "sweep" /\ call'[p] # call[p] =>
           \A k \in Keys : Found(k) => k \in DOMAIN items' /\ items'[k] = items[k]]_vars
  BY SweepKeeps
<1> QED BY <1>1, AlwaysCache, PTL DEF Spec, SweepsOnlyExpired

\* Only a call of the nil function by p ends with a panic that moves p.
LEMMA NilCall ==
  ASSUME CacheInv, RaceInv, [Next]_vars, NEW p \in Procs, panicked', call'[p] # call[p]
  PROVE  p \in disabled
<1>1. Next /\ ~panicked /\ Calling /\ Janitor \in Procs /\ \A q \in Callers : q \in Procs
  BY DEF vars, Next, CacheInv, Procs
<1>2. \E q \in Procs : Notify(q)
  <2>1. ASSUME NEW q \in Procs, Step(q)
        PROVE  Notify(q)
    BY <1>1, <2>1 DEF Step, SetStore, Sweep, Return
  <2>2. ~(JanitorStart \/ JanitorTick \/ JanitorStop \/ Clock \/ Drop)
    BY <1>1 DEF JanitorStart, JanitorTick, JanitorStop, Clock, Drop, history
  <2>3. ASSUME NEW q \in Callers
        PROVE  /\ ~Clear(q) /\ ~DeleteExpired(q) /\ \A f \in {"set", "nil"} : ~OnEvicted(q, f)
               /\ \A k \in Keys : ~Delete(q, k) /\ ~UpdateExpiration(q, k)
               /\ \A k \in Keys, d \in Durations :
                    ~SetTime(q, k, d) /\ ~Add(q, k, d) /\ ~Replace(q, k, d)
    BY <1>1 DEF Clear, DeleteExpired, OnEvicted, Delete, UpdateExpiration, SetTime, Add, Replace,
                StoreNew, vars, history
  <2> QED BY <1>1, <2>1, <2>2, <2>3 DEF Next, JanitorStep
<1>3. PICK q \in Procs : Notify(q)
  BY <1>2
<1>4. PICK o \in call[q].evicted :
        call' = [call EXCEPT ![q].evicted = @ \ {o}] /\ panicked' = (onEvicted = "nil")
  BY <1>3 DEF Notify
<1>5. q = p
  BY <1>1, <1>4 DEF Calling
<1> QED BY <1>4, <1>5 DEF RaceInv

(***************************************************************************)
(* Delete and DeleteExpired test onEvicted under the lock and call it      *)
(* after the unlock.  It is nil then only if OnEvicted(nil) came between:  *)
(* no delete or sweep that begins with nil set ever calls it.              *)
(***************************************************************************)
THEOREM NilCalledOnlyInRace == Spec => NilCalledInRace
<1>1. CacheInv /\ RaceInv /\ [Next]_vars =>
        [\A p \in Procs : panicked' /\ call'[p] # call[p] => p \in disabled]_vars
  BY NilCall
<1> QED BY <1>1, AlwaysRace, PTL DEF Spec, NilCalledInRace
=============================================================================
