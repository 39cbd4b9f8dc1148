----------------------- MODULE GoroutineStorageProofs -----------------------
(***************************************************************************)
(* Proofs about the storage per goroutine, for every number of g pointers, *)
(* buckets, maps, timeouts and nested calls.                               *)
(***************************************************************************)
EXTENDS GoroutineStorage, FiniteSetTheorems, TLAPS

EntryRecord == [store : Stores \cup {NoStore, NilMap}, left : Int]
Contents == Values \cup {NoValue}

\* A storage has two references only if a user holds it, and the one that Go
\* has made for a child has no other.
Sole(g, h) ==
  /\ objects[g].store = objects[h].store /\ objects[g].store \in Stores =>
       g = h \/ objects[g].store \in held
  /\ cs[g] = cs[h] /\ cs[g] # NoStore => g = h
  /\ cs[g] = objects[h].store => cs[g] = NoStore
  /\ cs[g] \notin held

\* The copy is what the parent had, and no user holds it.
SnapOK(h) ==
  snap[h] # NoSnap =>
    /\ gpc[h] \in {"spawned", "run"}
    /\ gpc[h] = "spawned" => heap[cs[h]] = snap[h]
    /\ gpc[h] = "run" /\ objects[h].store # NoStore =>
         objects[h].store \in Stores \ held /\ heap[objects[h].store] = snap[h]

(***************************************************************************)
(* The inductive invariant: GoSnapshot without its counting, with what     *)
(* keeps others from a copy.                                               *)
(***************************************************************************)
StorageInv ==
  /\ TypeOK
  /\ \A g \in Gs : \A h \in Gs : Sole(g, h)
  /\ \A h \in Gs : SnapOK(h)

\* What is used of the types.
Types ==
  /\ objects \in [Gs -> EntryRecord]
  /\ heap \in [Stores -> Contents] /\ held \subseteq Stores
  /\ gpc \in [Gs -> {"free", "spawned", "run"}] /\ auto \in [Gs -> BOOLEAN]
  /\ depth \in [Gs -> 0..MaxDepth] /\ cs \in [Gs -> Stores \cup {NoStore}]
  /\ snap \in [Gs -> Contents \cup {NoSnap}]
  /\ sweep \in 0..NBuckets /\ lag \in 0..MaxLag

EntryOK(g) ==
  /\ objects[g].left >= -MaxLag - 1
  /\ objects[g].store = NoStore => objects[g] = NoEntry

StateOK(g) ==
  /\ cs[g] # NoStore <=> gpc[g] = "spawned"
  /\ gpc[g] # "run" => depth[g] = 0

LEMMA TypeParts ==
  /\ TypeOK <=> Types /\ \A g \in Gs : EntryOK(g) /\ StateOK(g)
  /\ TypeOK' <=> Types' /\ \A g \in Gs : EntryOK(g)' /\ StateOK(g)'
<1>1. Values \cup {NoValue, NoSnap} = Contents \cup {NoSnap}
  BY DEF Contents
<1> QED
  BY <1>1 DEF TypeOK, Types, EntryRecord, EntryOK, StateOK, Contents

LEMMA StoreValues ==
  NoStore \notin Stores /\ NilMap \notin Stores /\ NoStore # NilMap /\ Stores \subseteq Nat
BY StorageAssumption DEF Stores, NoStore, NilMap

LEMMA EntryFields ==
  /\ \A e \in EntryRecord : e.store \in Stores \cup {NoStore, NilMap} /\ e.left \in Int
  /\ \A s \in Stores \cup {NilMap} : \A l \in Nat :
       LET e == [store |-> s, left |-> l]
       IN e \in EntryRecord /\ e.store = s /\ e.left = l
  /\ NoEntry \in EntryRecord /\ NoEntry.store = NoStore /\ NoEntry.left = 0
  /\ NoStore \notin Stores
BY StoreValues DEF EntryRecord, NoEntry

LEMMA InvParts ==
  ASSUME StorageInv
  PROVE  /\ Types /\ \A g \in Gs : EntryOK(g) /\ StateOK(g)
         /\ \A g \in Gs : objects[g] \in EntryRecord
         /\ \A g \in Gs : HasEntry(g) <=> objects[g].store # NoStore
         /\ \A g \in Gs : objects[g].store \in Stores \cup {NoStore, NilMap}
         /\ \A g \in Gs : gpc[g] = "spawned" => cs[g] \in Stores
         /\ \A g \in Gs : gpc[g] # "spawned" => cs[g] = NoStore
<1>1. Types /\ \A g \in Gs : EntryOK(g) /\ StateOK(g)
  BY TypeParts DEF StorageInv
<1>2. \A g \in Gs : objects[g] \in EntryRecord /\ cs[g] \in Stores \cup {NoStore}
  BY <1>1 DEF Types
<1> QED
  BY <1>1, <1>2, EntryFields DEF HasEntry, EntryOK, StateOK

LEMMA StorageInit ==
  Init => StorageInv
<1> SUFFICES ASSUME Init PROVE StorageInv
  OBVIOUS
<1>1. /\ \A g \in Gs : objects[g] = NoEntry /\ cs[g] = NoStore /\ gpc[g] = "free"
      /\ \A g \in Gs : depth[g] = 0 /\ snap[g] = NoSnap
      /\ held = {}
  BY DEF Init
<1>2. Types
  <2>1. NBuckets \in Nat /\ MaxDepth \in Nat /\ MaxLag \in Nat
    BY StorageAssumption
  <2> QED
    BY <2>1, EntryFields DEF Init, Types, Contents
<1>3. \A g \in Gs : EntryOK(g) /\ StateOK(g)
  BY <1>1, EntryFields, StorageAssumption DEF EntryOK, StateOK
<1>4. \A g \in Gs : (\A h \in Gs : Sole(g, h)) /\ SnapOK(g)
  BY <1>1, EntryFields DEF Sole, SnapOK
<1> QED
  BY <1>2, <1>3, <1>4, TypeParts DEF StorageInv
-----------------------------------------------------------------------------
(***************************************************************************)
(* What a step does to the maps: one that is referred to afterwards is not *)
(* emptied.                                                                *)
(***************************************************************************)
LEMMA Referred ==
  /\ \A g \in Gs : objects'[g].store \notin Free' /\ cs'[g] \notin Free'
  /\ \A s \in held' : s \notin Free'
BY DEF Free, InUse

LEMMA FreeNow ==
  ASSUME Free # {}
  PROVE  /\ NewStore \in Stores /\ NewStore \notin held
         /\ \A g \in Gs : objects[g].store # NewStore /\ cs[g] # NewStore
<1>1. NewStore \in Free
  BY DEF NewStore
<1> QED
  BY <1>1 DEF Free, InUse

LEMMA BecomesEffect ==
  ASSUME NEW h \in [Stores -> Contents], Becomes(h)
  PROVE  /\ heap' \in [Stores -> Contents]
         /\ \A s \in Stores : s \notin Free' => heap'[s] = h[s]
BY DEF Becomes, Contents

LEMMA FillEffect ==
  ASSUME Types, NEW s \in Stores, NEW v \in Contents, Fill(s, v)
  PROVE  /\ heap' \in [Stores -> Contents]
         /\ \A r \in Stores : r \notin Free' => heap'[r] = IF r = s THEN v ELSE heap[r]
<1> DEFINE f == [heap EXCEPT ![s] = v]
<1>1. f \in [Stores -> Contents] /\ \A r \in Stores : f[r] = IF r = s THEN v ELSE heap[r]
  BY DEF Types
<1>2. Becomes(f)
  BY DEF Fill
<1> HIDE DEF f
<1> QED
  BY <1>1, <1>2, BecomesEffect

(***************************************************************************)
(* A step that refers to no storage that was not referred to before, keeps *)
(* the users' hold of what is in use, and leaves the copies alone that are *)
(* still untouched.                                                        *)
(***************************************************************************)
LEMMA NoNewReference ==
  ASSUME StorageInv, Types',
         \A g \in Gs : (EntryOK(g) /\ StateOK(g))',
         \A g \in Gs : objects'[g].store \in {NoStore, objects[g].store},
         \A g \in Gs : cs'[g] \in {NoStore, cs[g]},
         \A s \in InUse : s \in held' <=> s \in held,
         \A g \in Gs : snap'[g] # NoSnap =>
           /\ snap'[g] = snap[g] /\ gpc'[g] = gpc[g] /\ cs'[g] = cs[g]
           /\ gpc[g] = "spawned" => heap'[cs[g]] = heap[cs[g]]
           /\ gpc[g] = "run" /\ objects'[g].store \in Stores =>
                heap'[objects[g].store] = heap[objects[g].store]
  PROVE  StorageInv'
<1>1. TypeOK'
  BY TypeParts
<1>2. \A g \in Gs : /\ objects[g].store \in held' <=> objects[g].store \in held
                    /\ cs[g] \in held' <=> cs[g] \in held
  BY DEF InUse
<1>3. NoStore \notin held'
  BY StoreValues DEF Types
<1>4. ASSUME NEW g \in Gs, NEW h \in Gs PROVE Sole(g, h)'
  <2>1. Sole(g, h)
    BY DEF StorageInv
  <2> QED
    BY <1>2, <1>3, <2>1, StoreValues DEF Sole
<1>5. ASSUME NEW h \in Gs PROVE SnapOK(h)'
  <2>1. SnapOK(h) /\ objects[h].store \in Stores \cup {NoStore, NilMap}
    BY InvParts DEF StorageInv
  <2>2. gpc[h] = "spawned" => cs[h] \in Stores
    BY InvParts
  <2> QED
    BY <1>2, <2>1, <2>2 DEF SnapOK
<1> QED
  BY <1>1, <1>4, <1>5 DEF StorageInv

\* A step that only gives up references, also by users.
LEMMA Collected ==
  ASSUME StorageInv, Types', Becomes(heap),
         \A g \in Gs : (EntryOK(g) /\ StateOK(g))',
         \A g \in Gs : objects'[g].store \in {NoStore, objects[g].store},
         \A g \in Gs : cs'[g] \in {NoStore, cs[g]},
         \A s \in InUse : s \in held' <=> s \in held,
         \A g \in Gs : snap'[g] # NoSnap =>
           snap'[g] = snap[g] /\ gpc'[g] = gpc[g] /\ cs'[g] = cs[g]
  PROVE  StorageInv'
<1>1. heap \in [Stores -> Contents]
  BY InvParts DEF Types
<1>2. \A s \in Stores : s \notin Free' => heap'[s] = heap[s]
  BY <1>1, BecomesEffect
<1>3. ASSUME NEW g \in Gs, snap'[g] # NoSnap
      PROVE  /\ gpc[g] = "spawned" => heap'[cs[g]] = heap[cs[g]]
             /\ gpc[g] = "run" /\ objects'[g].store \in Stores =>
                  heap'[objects[g].store] = heap[objects[g].store]
  <2>1. gpc[g] = "spawned" => heap'[cs[g]] = heap[cs[g]]
    BY <1>2, <1>3, Referred, InvParts
  <2>2. objects'[g].store \in Stores => objects'[g].store = objects[g].store
    BY StoreValues
  <2> QED
    BY <1>2, <2>1, <2>2, Referred
<1> QED
  BY <1>3, NoNewReference

LEMMA DeleteEffect ==
  ASSUME StorageInv, NEW g \in Gs, Delete(g)
  PROVE  /\ objects' \in [Gs -> EntryRecord]
         /\ \A h \in Gs : objects'[h] = IF h = g THEN NoEntry ELSE objects[h]
         /\ \A h \in Gs : EntryOK(h)'
         /\ \A h \in Gs : objects'[h].store \in {NoStore, objects[h].store}
<1>1. Types
  BY InvParts
<1>2. \A h \in Gs : objects'[h] = IF h = g THEN NoEntry ELSE objects[h]
  BY <1>1 DEF Delete, Types
<1>3. objects' \in [Gs -> EntryRecord]
  BY <1>1, EntryFields DEF Delete, Types
<1>4. ASSUME NEW h \in Gs PROVE EntryOK(h)'
  <2>1. EntryOK(h) /\ MaxLag \in Nat
    BY InvParts, StorageAssumption
  <2> QED
    BY <1>2, <2>1, EntryFields DEF EntryOK
<1>5. \A h \in Gs : objects'[h].store \in {NoStore, objects[h].store}
  BY <1>2, EntryFields
<1> QED
  BY <1>2, <1>3, <1>4, <1>5

LEMMA TouchEffect ==
  ASSUME Types, NEW g \in Gs, Touch(g)
  PROVE  /\ snap' \in [Gs -> Contents \cup {NoSnap}]
         /\ \A h \in Gs : snap'[h] = IF h = g THEN NoSnap ELSE snap[h]
BY DEF Touch, Types

\* What is done to a new storage s leaves the copies of the others alone.
LEMMA CopiesStay ==
  ASSUME StorageInv, NEW o \in Gs, NEW s, NEW v,
         snap'[o] # NoSnap => /\ snap'[o] = snap[o] /\ gpc'[o] = gpc[o] /\ cs'[o] = cs[o]
                              /\ objects'[o].store = objects[o].store,
         objects[o].store # s, cs[o] # s, held' \in {held, held \cup {s}},
         \A r \in Stores : r \notin Free' => heap'[r] = IF r = s THEN v ELSE heap[r]
  PROVE  SnapOK(o)'
<1> SUFFICES ASSUME snap'[o] # NoSnap PROVE SnapOK(o)'
  BY DEF SnapOK
<1>1. /\ snap'[o] = snap[o] /\ gpc'[o] = gpc[o] /\ cs'[o] = cs[o]
      /\ objects'[o].store = objects[o].store
  OBVIOUS
<1>2. SnapOK(o) /\ (gpc[o] = "spawned" => cs[o] \in Stores)
  BY InvParts DEF StorageInv
<1>3. gpc[o] = "spawned" => heap'[cs[o]] = heap[cs[o]]
  BY <1>1, <1>2, Referred
<1>4. objects[o].store \in Stores => heap'[objects[o].store] = heap[objects[o].store]
  BY <1>1, Referred
<1> QED
  BY <1>1, <1>2, <1>3, <1>4 DEF SnapOK

-----------------------------------------------------------------------------
(* The users' steps. *)

LEMMA UsersKeep ==
  ASSUME StorageInv,
         \/ \E v \in Values : Make(v) \/ \E s \in held : Write(s, v)
         \/ \E s \in held : Drop(s)
  PROVE  StorageInv'
<1>1. UNCHANGED <<objects, gpc, auto, depth, cs, snap, sweep, lag>>
  BY DEF Make, Write, Drop
<1>2. Types /\ \A h \in Gs : EntryOK(h) /\ StateOK(h)
  BY InvParts
<1>3. ASSUME held' \subseteq Stores, heap' \in [Stores -> Contents]
      PROVE  Types' /\ \A h \in Gs : (EntryOK(h) /\ StateOK(h))'
  BY <1>1, <1>2, <1>3 DEF Types, EntryOK, StateOK
<1>4. ASSUME NEW s \in Stores, NEW v \in Values, Fill(s, v), held' \subseteq Stores,
             \A r \in InUse : r \in held' <=> r \in held,
             \A g \in Gs : cs[g] # s,
             \A g \in Gs : snap[g] # NoSnap /\ gpc[g] = "run" => objects[g].store # s
      PROVE  StorageInv'
  <2>1. v \in Contents
    BY DEF Contents
  <2>2. /\ heap' \in [Stores -> Contents]
        /\ \A r \in Stores : r \notin Free' => heap'[r] = IF r = s THEN v ELSE heap[r]
    BY <1>2, <1>4, <2>1, FillEffect
  <2>3. ASSUME NEW g \in Gs, snap'[g] # NoSnap
        PROVE  /\ gpc[g] = "spawned" => heap'[cs[g]] = heap[cs[g]]
               /\ gpc[g] = "run" /\ objects'[g].store \in Stores =>
                    heap'[objects[g].store] = heap[objects[g].store]
    BY <1>1, <1>4, <2>2, <2>3, Referred, InvParts
  <2> QED
    BY <1>1, <1>3, <1>4, <2>2, <2>3, NoNewReference
<1>5. ASSUME NEW v \in Values, Make(v) PROVE StorageInv'
  <2>1. Free # {} /\ held' = held \cup {NewStore} /\ Fill(NewStore, v)
    BY <1>5 DEF Make
  <2>2. /\ NewStore \in Stores /\ NewStore \notin held
        /\ \A g \in Gs : objects[g].store # NewStore /\ cs[g] # NewStore
    BY <2>1, FreeNow
  <2>3. NewStore \notin InUse
    BY <2>2 DEF InUse
  <2>4. held' \subseteq Stores /\ \A r \in InUse : r \in held' <=> r \in held
    BY <1>2, <2>1, <2>2, <2>3 DEF Types
  <2> QED
    BY <1>4, <2>1, <2>2, <2>4
<1>6. ASSUME NEW v \in Values, NEW s \in held, Write(s, v) PROVE StorageInv'
  <2>1. held' = held /\ Fill(s, v) /\ s \in Stores /\ held \subseteq Stores
    BY <1>2, <1>6 DEF Write, Types
  <2>2. ASSUME NEW g \in Gs
        PROVE  cs[g] # s /\ (snap[g] # NoSnap /\ gpc[g] = "run" => objects[g].store # s)
    <3>1. Sole(g, g) /\ SnapOK(g)
      BY DEF StorageInv
    <3> QED
      BY <2>1, <3>1, StoreValues DEF Sole, SnapOK
  <2> QED
    BY <1>4, <2>1, <2>2
<1>7. ASSUME NEW s \in held, Drop(s) PROVE StorageInv'
  <2>1. s \notin InUse /\ held' = held \ {s} /\ Becomes(heap)
    BY <1>7 DEF Drop
  <2>2. held' \subseteq Stores /\ heap' \in [Stores -> Contents]
    BY <1>2, <2>1, BecomesEffect DEF Types
  <2>3. \A r \in InUse : r \in held' <=> r \in held
    BY <2>1
  <2> QED
    BY <1>1, <1>3, <2>1, <2>2, <2>3, Collected
<1> QED
  BY <1>5, <1>6, <1>7
-----------------------------------------------------------------------------
(* The steps of a goroutine. *)

LEMMA StartKeeps ==
  ASSUME StorageInv, NEW g \in Gs, Start(g)
  PROVE  StorageInv'
<1>1. /\ gpc[g] = "free" /\ gpc' = [gpc EXCEPT ![g] = "run"]
      /\ UNCHANGED <<objects, heap, held, auto, depth, cs, snap, sweep, lag>>
  BY DEF Start
<1>2. Types /\ \A h \in Gs : EntryOK(h) /\ StateOK(h)
  BY InvParts
<1>3. Types'
  BY <1>1, <1>2 DEF Types
<1>4. \A h \in Gs : gpc'[h] = IF h = g THEN "run" ELSE gpc[h]
  BY <1>1, <1>2 DEF Types
<1>5. \A h \in Gs : (EntryOK(h) /\ StateOK(h))'
  BY <1>1, <1>2, <1>4 DEF EntryOK, StateOK
<1>6. snap[g] = NoSnap
  BY <1>1 DEF StorageInv, SnapOK
<1> QED
  BY <1>1, <1>3, <1>4, <1>5, <1>6, NoNewReference

LEMMA SetKeeps ==
  ASSUME StorageInv, NEW g \in Gs, NEW v \in Values, Set(g, v)
  PROVE  StorageInv'
<1>1. /\ gpc[g] = "run" /\ getStorage(g) \in Stores /\ Touch(g) /\ Fill(getStorage(g), v)
      /\ UNCHANGED <<objects, held, gpc, auto, depth, cs, sweep, lag>>
  BY DEF Set, Run
<1>2. Types /\ \A h \in Gs : EntryOK(h) /\ StateOK(h)
  BY InvParts
<1>3. PICK s \in Stores : s = objects[g].store
  BY <1>1 DEF getStorage
<1>4. /\ heap' \in [Stores -> Contents]
      /\ \A r \in Stores : r \notin Free' => heap'[r] = IF r = s THEN v ELSE heap[r]
  <2>1. Fill(s, v) /\ v \in Contents
    BY <1>1, <1>3 DEF getStorage, Contents
  <2> QED
    BY <1>2, <2>1, FillEffect
<1>5. /\ snap' \in [Gs -> Contents \cup {NoSnap}]
      /\ \A h \in Gs : snap'[h] = IF h = g THEN NoSnap ELSE snap[h]
  BY <1>1, <1>2, TouchEffect
<1>6. Types' /\ \A h \in Gs : (EntryOK(h) /\ StateOK(h))'
  BY <1>1, <1>2, <1>4, <1>5 DEF Types, EntryOK, StateOK
<1>7. ASSUME NEW h \in Gs, snap'[h] # NoSnap
      PROVE  /\ gpc[h] = "spawned" => heap'[cs[h]] = heap[cs[h]]
             /\ gpc[h] = "run" /\ objects'[h].store \in Stores =>
                  heap'[objects[h].store] = heap[objects[h].store]
  <2>1. h # g /\ snap[h] # NoSnap
    BY <1>5, <1>7
  <2>2. Sole(h, g) /\ SnapOK(h) /\ (gpc[h] = "spawned" => cs[h] \in Stores)
    BY InvParts DEF StorageInv
  <2>3. gpc[h] = "spawned" => cs[h] # s
    BY <1>3, <2>2, StoreValues DEF Sole
  <2>4. gpc[h] = "run" /\ objects[h].store \in Stores => objects[h].store # s
    BY <1>3, <2>1, <2>2, StoreValues DEF Sole, SnapOK
  <2> QED
    BY <1>1, <1>4, <2>2, <2>3, <2>4, Referred
<1> QED
  BY <1>1, <1>5, <1>6, <1>7, NoNewReference

LEMMA DepthDown ==
  ASSUME Types, NEW g \in Gs, depth[g] > 0, depth' = [depth EXCEPT ![g] = @ - 1]
  PROVE  /\ depth' \in [Gs -> 0..MaxDepth]
         /\ \A h \in Gs : h # g => depth'[h] = depth[h]
<1>1. MaxDepth \in Nat
  BY StorageAssumption
<1> QED
  BY <1>1 DEF Types

LEMMA DeletesKeep ==
  ASSUME StorageInv, NEW g \in Gs, Cleanup(g) \/ WithReturn(g)
  PROVE  StorageInv'
<1>1. /\ gpc[g] = "run" /\ Delete(g) /\ Touch(g) /\ Becomes(heap)
      /\ \/ depth' = depth
         \/ depth[g] > 0 /\ depth' = [depth EXCEPT ![g] = @ - 1]
      /\ UNCHANGED <<held, gpc, auto, cs, sweep, lag>>
  BY DEF Cleanup, WithReturn, Run
<1>2. Types /\ \A h \in Gs : EntryOK(h) /\ StateOK(h)
  BY InvParts
<1>3. depth' \in [Gs -> 0..MaxDepth] /\ \A h \in Gs : h # g => depth'[h] = depth[h]
  BY <1>1, <1>2, DepthDown DEF Types
<1>4. /\ snap' \in [Gs -> Contents \cup {NoSnap}]
      /\ \A h \in Gs : snap'[h] = IF h = g THEN NoSnap ELSE snap[h]
  BY <1>1, <1>2, TouchEffect
<1>5. heap' \in [Stores -> Contents]
  BY <1>1, <1>2, BecomesEffect DEF Types
<1>6. Types'
  BY <1>1, <1>2, <1>3, <1>4, <1>5, DeleteEffect DEF Types
<1>7. \A h \in Gs : (EntryOK(h) /\ StateOK(h))'
  <2>1. \A h \in Gs : EntryOK(h)'
    BY <1>1, DeleteEffect
  <2>2. \A h \in Gs : StateOK(h)'
    BY <1>1, <1>2, <1>3 DEF StateOK
  <2> QED
    BY <2>1, <2>2
<1> QED
  BY <1>1, <1>4, <1>6, <1>7, DeleteEffect, Collected

LEMMA PanicKeeps ==
  ASSUME StorageInv, NEW g \in Gs, WithPanic(g)
  PROVE  StorageInv'
<1>1. /\ gpc[g] = "run" /\ depth[g] > 0 /\ depth' = [depth EXCEPT ![g] = @ - 1]
      /\ UNCHANGED <<objects, heap, held, gpc, auto, cs, snap, sweep, lag>>
  BY DEF WithPanic, Run
<1>2. Types /\ \A h \in Gs : EntryOK(h) /\ StateOK(h)
  BY InvParts
<1>3. depth' \in [Gs -> 0..MaxDepth] /\ \A h \in Gs : h # g => depth'[h] = depth[h]
  BY <1>1, <1>2, DepthDown
<1>4. Types'
  BY <1>1, <1>2, <1>3 DEF Types
<1>5. \A h \in Gs : (EntryOK(h) /\ StateOK(h))'
  BY <1>1, <1>2, <1>3 DEF EntryOK, StateOK
<1> QED
  BY <1>1, <1>4, <1>5, NoNewReference

LEMMA EndKeeps ==
  ASSUME StorageInv, NEW g \in Gs, End(g)
  PROVE  StorageInv'
<1>1. /\ gpc[g] = "run" /\ depth[g] = 0 /\ Touch(g) /\ Becomes(heap)
      /\ gpc' = [gpc EXCEPT ![g] = "free"] /\ auto' = [auto EXCEPT ![g] = FALSE]
      /\ Delete(g) \/ UNCHANGED objects
      /\ UNCHANGED <<held, depth, cs, sweep, lag>>
  BY DEF End, Run
<1>2. Types /\ \A h \in Gs : EntryOK(h) /\ StateOK(h)
  BY InvParts
<1>3. \A h \in Gs : gpc'[h] = IF h = g THEN "free" ELSE gpc[h]
  BY <1>1, <1>2 DEF Types
<1>4. /\ objects' \in [Gs -> EntryRecord]
      /\ \A h \in Gs : EntryOK(h)'
      /\ \A h \in Gs : objects'[h].store \in {NoStore, objects[h].store}
  <2>1. CASE Delete(g)
    BY <2>1, DeleteEffect
  <2>2. CASE UNCHANGED objects
    BY <2>2, <1>2 DEF Types, EntryOK
  <2> QED
    BY <1>1, <2>1, <2>2
<1>5. /\ snap' \in [Gs -> Contents \cup {NoSnap}]
      /\ \A h \in Gs : snap'[h] = IF h = g THEN NoSnap ELSE snap[h]
  BY <1>1, <1>2, TouchEffect
<1>6. heap' \in [Stores -> Contents]
  BY <1>1, <1>2, BecomesEffect DEF Types
<1>7. Types'
  BY <1>1, <1>2, <1>4, <1>5, <1>6 DEF Types
<1>8. \A h \in Gs : StateOK(h)'
  BY <1>1, <1>2, <1>3 DEF StateOK
<1>9. \A h \in Gs : snap'[h] # NoSnap =>
        snap'[h] = snap[h] /\ gpc'[h] = gpc[h] /\ cs'[h] = cs[h]
  BY <1>1, <1>3, <1>5
<1> QED
  BY <1>1, <1>4, <1>7, <1>8, <1>9, Collected

(***************************************************************************)
(* The entry of g becomes one with storage s, which only users may have.   *)
(***************************************************************************)
LEMMA EntryMade ==
  ASSUME StorageInv, NEW g \in Gs, ~HasEntry(g), NEW s \in Stores \cup {NilMap},
         NEW timeout \in Nat, put(g, s, timeout)
  PROVE  /\ objects' \in [Gs -> EntryRecord]
         /\ \A h \in Gs : EntryOK(h)'
         /\ \A h \in Gs : objects'[h].store = IF h = g THEN s ELSE objects[h].store
<1>1. Types /\ \A h \in Gs : EntryOK(h)
  BY InvParts
<1> DEFINE e == [store |-> s, left |-> timeout]
<1>2. e \in EntryRecord /\ e.store = s /\ e.left = timeout
  BY EntryFields
<1>3. objects' = [objects EXCEPT ![g] = e]
  BY DEF put
<1> HIDE DEF e
<1>4. \A h \in Gs : objects'[h] = IF h = g THEN e ELSE objects[h]
  BY <1>1, <1>3 DEF Types
<1>5. objects' \in [Gs -> EntryRecord]
  BY <1>1, <1>2, <1>3 DEF Types
<1>6. ASSUME NEW h \in Gs PROVE EntryOK(h)'
  <2>1. MaxLag \in Nat
    BY StorageAssumption
  <2>2. e.left >= -MaxLag - 1 /\ e.store # NoStore
    BY <1>2, <2>1, StoreValues
  <2> QED
    BY <1>1, <1>4, <2>2 DEF EntryOK
<1> QED
  BY <1>2, <1>4, <1>5, <1>6

\* Put finds an entry: users have its storage now.
LEMMA PutFinds ==
  ASSUME StorageInv, NEW g \in Gs, NEW timeout \in Nat, Put(g, timeout), HasEntry(g)
  PROVE  StorageInv'
<1>1. /\ gpc[g] = "run" /\ objects' = objects /\ heap' = heap /\ Touch(g)
      /\ held' = held \cup ({objects[g].store} \cap Stores)
      /\ UNCHANGED <<gpc, auto, depth, cs, sweep, lag>>
  BY DEF Put, put, Run
<1>2. Types /\ \A h \in Gs : EntryOK(h) /\ StateOK(h)
  BY InvParts
<1>3. /\ snap' \in [Gs -> Contents \cup {NoSnap}]
      /\ \A h \in Gs : snap'[h] = IF h = g THEN NoSnap ELSE snap[h]
  BY <1>1, <1>2, TouchEffect
<1>4. held' \subseteq Stores
  BY <1>1, <1>2 DEF Types
<1>5. Types' /\ \A h \in Gs : (EntryOK(h) /\ StateOK(h))'
  BY <1>1, <1>2, <1>3, <1>4 DEF Types, EntryOK, StateOK
<1>6. ASSUME NEW x \in Gs, NEW y \in Gs PROVE Sole(x, y)'
  <2>1. Sole(x, y) /\ Sole(x, g)
    BY DEF StorageInv
  <2>2. cs[x] \notin held'
    BY <1>1, <2>1, StoreValues DEF Sole
  <2> QED
    BY <1>1, <2>1, <2>2 DEF Sole
<1>7. ASSUME NEW h \in Gs PROVE SnapOK(h)'
  <2>1. SnapOK(h) /\ Sole(h, g)
    BY DEF StorageInv
  <2>2. ASSUME h # g, snap[h] # NoSnap, gpc[h] = "run", objects[h].store \in Stores \ held
        PROVE  objects[h].store \notin held'
    BY <1>1, <2>1, <2>2 DEF Sole
  <2> QED
    BY <1>1, <1>3, <2>1, <2>2 DEF SnapOK
<1> QED
  BY <1>5, <1>6, <1>7, TypeParts DEF StorageInv

\* Put makes an entry with a new storage, which users have.
LEMMA PutMakes ==
  ASSUME StorageInv, NEW g \in Gs, NEW timeout \in Nat, Put(g, timeout), ~HasEntry(g)
  PROVE  StorageInv'
<1>1. /\ gpc[g] = "run" /\ Free # {} /\ put(g, NewStore, timeout) /\ Touch(g)
      /\ held' = held \cup ({objects'[g].store} \cap Stores)
      /\ Fill(NewStore, NoValue)
      /\ UNCHANGED <<gpc, auto, depth, cs, sweep, lag>>
  BY DEF Put, Run
<1>2. Types /\ \A h \in Gs : EntryOK(h) /\ StateOK(h)
  BY InvParts
<1>3. PICK s \in Stores : s = NewStore
  BY <1>1, FreeNow
<1>4. s \notin held /\ \A h \in Gs : objects[h].store # s /\ cs[h] # s
  BY <1>1, <1>3, FreeNow
<1>5. /\ objects' \in [Gs -> EntryRecord]
      /\ \A h \in Gs : EntryOK(h)'
      /\ \A h \in Gs : objects'[h].store = IF h = g THEN s ELSE objects[h].store
  BY <1>1, <1>3, EntryMade
<1>6. /\ snap' \in [Gs -> Contents \cup {NoSnap}]
      /\ \A h \in Gs : snap'[h] = IF h = g THEN NoSnap ELSE snap[h]
  BY <1>1, <1>2, TouchEffect
<1>7. /\ heap' \in [Stores -> Contents]
      /\ \A r \in Stores : r \notin Free' => heap'[r] = IF r = s THEN NoValue ELSE heap[r]
  BY <1>1, <1>2, <1>3, FillEffect DEF Contents
<1>8. held' = held \cup {s}
  BY <1>1, <1>3, <1>5
<1>9. Types' /\ \A h \in Gs : StateOK(h)'
  <2>1. held' \subseteq Stores
    BY <1>2, <1>8 DEF Types
  <2> QED
    BY <1>1, <1>2, <1>5, <1>6, <1>7, <2>1 DEF Types, StateOK
<1>10. ASSUME NEW x \in Gs, NEW y \in Gs PROVE Sole(x, y)'
  <2>1. Sole(x, y)
    BY DEF StorageInv
  <2> QED
    BY <1>1, <1>4, <1>5, <1>8, <2>1 DEF Sole
<1>11. ASSUME NEW h \in Gs PROVE SnapOK(h)'
  <2>1. CASE h = g
    BY <1>6, <2>1 DEF SnapOK
  <2>2. CASE h # g
    <3>1. /\ snap'[h] = snap[h] /\ gpc'[h] = gpc[h] /\ cs'[h] = cs[h]
          /\ objects'[h].store = objects[h].store
      BY <1>1, <1>5, <1>6, <2>2
    <3> QED
      BY <1>4, <1>7, <1>8, <3>1, CopiesStay
  <2> QED
    BY <2>1, <2>2
<1> QED
  BY <1>5, <1>9, <1>10, <1>11, TypeParts DEF StorageInv

\* With makes an entry for the map of its caller.
LEMMA WithKeeps ==
  ASSUME StorageInv, NEW g \in Gs, NEW s \in held \cup {NilMap}, With(g, s)
  PROVE  StorageInv'
<1>1. /\ gpc[g] = "run" /\ depth[g] < MaxDepth /\ depth' = [depth EXCEPT ![g] = @ + 1]
      /\ put(g, s, Hour) /\ (IF HasEntry(g) THEN snap' = snap ELSE Touch(g))
      /\ UNCHANGED <<heap, held, gpc, auto, cs, sweep, lag>>
  BY DEF With, Run
<1>2. Types /\ \A h \in Gs : EntryOK(h) /\ StateOK(h)
  BY InvParts
<1>3. s \in Stores \cup {NilMap} /\ Hour \in Nat
  BY <1>2, StorageAssumption DEF Types
<1>4. depth' \in [Gs -> 0..MaxDepth] /\ \A h \in Gs : h # g => depth'[h] = depth[h]
  <2>1. MaxDepth \in Nat
    BY StorageAssumption
  <2> QED
    BY <1>1, <1>2, <2>1 DEF Types
<1>5. \A h \in Gs : StateOK(h)'
  BY <1>1, <1>2, <1>4 DEF StateOK
<1>6. CASE HasEntry(g)
  <2>1. objects' = objects /\ snap' = snap
    BY <1>1, <1>6 DEF put
  <2>2. Types' /\ \A h \in Gs : EntryOK(h)'
    BY <1>1, <1>2, <1>4, <2>1 DEF Types, EntryOK
  <2> QED
    BY <1>1, <1>5, <2>1, <2>2, NoNewReference
<1>7. CASE ~HasEntry(g)
  <2>1. /\ objects' \in [Gs -> EntryRecord]
        /\ \A h \in Gs : EntryOK(h)'
        /\ \A h \in Gs : objects'[h].store = IF h = g THEN s ELSE objects[h].store
    BY <1>1, <1>3, <1>7, EntryMade
  <2>2. /\ snap' \in [Gs -> Contents \cup {NoSnap}]
        /\ \A h \in Gs : snap'[h] = IF h = g THEN NoSnap ELSE snap[h]
    BY <1>1, <1>2, <1>7, TouchEffect
  <2>3. Types'
    BY <1>1, <1>2, <1>4, <2>1, <2>2 DEF Types
  <2>4. ASSUME NEW x \in Gs, NEW y \in Gs PROVE Sole(x, y)'
    <3>1. Sole(x, y) /\ (cs[x] \in Stores \cup {NoStore})
      BY <1>2 DEF StorageInv, Types
    <3>2. s \in held \/ s \notin Stores
      BY StoreValues
    <3>3. cs[x] # s
      BY <3>1, StoreValues DEF Sole
    <3> QED
      BY <1>1, <2>1, <3>1, <3>2, <3>3 DEF Sole
  <2>5. ASSUME NEW h \in Gs PROVE SnapOK(h)'
    <3>1. SnapOK(h)
      BY DEF StorageInv
    <3> QED
      BY <1>1, <2>1, <2>2, <3>1 DEF SnapOK
  <2> QED
    BY <1>5, <2>1, <2>3, <2>4, <2>5, TypeParts DEF StorageInv
<1> QED
  BY <1>6, <1>7

\* Go refers to a storage that nothing refers to.
LEMMA GoKeeps ==
  ASSUME StorageInv, NEW g \in Gs, NEW h \in Gs, Go(g, h)
  PROVE  StorageInv'
<1>1. /\ gpc[h] = "free" /\ Free # {} /\ Fill(NewStore, Value(g))
      /\ gpc' = [gpc EXCEPT ![h] = "spawned"] /\ auto' = [auto EXCEPT ![h] = TRUE]
      /\ cs' = [cs EXCEPT ![h] = NewStore] /\ snap' = [snap EXCEPT ![h] = Value(g)]
      /\ UNCHANGED <<objects, held, depth, sweep, lag>>
  BY DEF Go
<1>2. Types /\ \A o \in Gs : EntryOK(o) /\ StateOK(o)
  BY InvParts
<1>3. PICK s \in Stores : s = NewStore
  BY <1>1, FreeNow
<1>4. s \notin held /\ \A o \in Gs : objects[o].store # s /\ cs[o] # s
  BY <1>1, <1>3, FreeNow
<1>5. PICK v \in Contents : v = Value(g)
  BY <1>2 DEF Value, getStorage, Types, Contents
<1>6. /\ heap' \in [Stores -> Contents]
      /\ \A r \in Stores : r \notin Free' => heap'[r] = IF r = s THEN v ELSE heap[r]
  BY <1>1, <1>2, <1>3, <1>5, FillEffect
<1>7. \A o \in Gs : /\ gpc'[o] = IF o = h THEN "spawned" ELSE gpc[o]
                    /\ cs'[o] = IF o = h THEN s ELSE cs[o]
                    /\ snap'[o] = IF o = h THEN v ELSE snap[o]
  BY <1>1, <1>2, <1>3, <1>5 DEF Types
<1>8. Types'
  <2>1. cs' = [cs EXCEPT ![h] = s] /\ snap' = [snap EXCEPT ![h] = v]
    BY <1>1, <1>3, <1>5
  <2> QED
    BY <1>1, <1>2, <1>6, <2>1 DEF Types
<1>9. \A o \in Gs : (EntryOK(o) /\ StateOK(o))'
  BY <1>1, <1>2, <1>7, StoreValues DEF EntryOK, StateOK
<1>10. ASSUME NEW x \in Gs, NEW y \in Gs PROVE Sole(x, y)'
  <2>1. Sole(x, y)
    BY DEF StorageInv
  <2> QED
    BY <1>1, <1>4, <1>7, <2>1 DEF Sole
<1>11. ASSUME NEW o \in Gs PROVE SnapOK(o)'
  <2>1. CASE o = h
    <3>1. cs'[h] = s /\ gpc'[h] = "spawned" /\ snap'[h] = v /\ s \notin Free'
      BY <1>7, Referred
    <3>2. heap'[s] = v
      BY <1>6, <3>1
    <3> QED
      BY <2>1, <3>1, <3>2 DEF SnapOK
  <2>2. CASE o # h
    BY <1>1, <1>4, <1>6, <1>7, <2>2, CopiesStay
  <2> QED
    BY <2>1, <2>2
<1> QED
  BY <1>8, <1>9, <1>10, <1>11, TypeParts DEF StorageInv

\* The child takes its storage over, or finds an entry and drops it.
LEMMA GoPutKeeps ==
  ASSUME StorageInv, NEW h \in Gs, GoPut(h)
  PROVE  StorageInv'
<1>1. /\ gpc[h] = "spawned" /\ gpc' = [gpc EXCEPT ![h] = "run"]
      /\ put(h, cs[h], Hour) /\ Becomes(heap)
      /\ cs' = [cs EXCEPT ![h] = NoStore]
      /\ (IF HasEntry(h) THEN Touch(h) ELSE snap' = snap)
      /\ UNCHANGED <<held, auto, depth, sweep, lag>>
  BY DEF GoPut
<1>2. Types /\ \A o \in Gs : EntryOK(o) /\ StateOK(o)
  BY InvParts
<1>3. PICK c \in Stores : c = cs[h]
  BY <1>1, InvParts
<1>4. Hour \in Nat
  BY StorageAssumption
<1>5. \A o \in Gs : /\ gpc'[o] = IF o = h THEN "run" ELSE gpc[o]
                    /\ cs'[o] = IF o = h THEN NoStore ELSE cs[o]
  BY <1>1, <1>2 DEF Types
<1>6. \A o \in Gs : StateOK(o)'
  BY <1>1, <1>2, <1>5 DEF StateOK
<1>7. /\ heap' \in [Stores -> Contents]
      /\ \A r \in Stores : r \notin Free' => heap'[r] = heap[r]
  BY <1>1, <1>2, BecomesEffect DEF Types
<1>8. CASE HasEntry(h)
  <2>1. objects' = objects
    BY <1>1, <1>8 DEF put
  <2>2. /\ snap' \in [Gs -> Contents \cup {NoSnap}]
        /\ \A o \in Gs : snap'[o] = IF o = h THEN NoSnap ELSE snap[o]
    BY <1>1, <1>2, <1>8, TouchEffect
  <2>3. Types' /\ \A o \in Gs : EntryOK(o)'
    BY <1>1, <1>2, <1>7, <2>1, <2>2 DEF Types, EntryOK
  <2>4. \A o \in Gs : snap'[o] # NoSnap =>
          snap'[o] = snap[o] /\ gpc'[o] = gpc[o] /\ cs'[o] = cs[o]
    BY <1>5, <2>2
  <2> QED
    BY <1>1, <1>5, <1>6, <2>1, <2>3, <2>4, Collected
<1>9. CASE ~HasEntry(h)
  <2>1. /\ objects' \in [Gs -> EntryRecord]
        /\ \A o \in Gs : EntryOK(o)'
        /\ \A o \in Gs : objects'[o].store = IF o = h THEN c ELSE objects[o].store
    BY <1>1, <1>3, <1>4, <1>9, EntryMade
  <2>2. snap' = snap
    BY <1>1, <1>9
  <2>3. Types'
    BY <1>1, <1>2, <1>7, <2>1, <2>2 DEF Types
  <2>4. ASSUME NEW x \in Gs, NEW y \in Gs PROVE Sole(x, y)'
    <3>1. Sole(x, y) /\ Sole(h, x) /\ Sole(h, y) /\ Sole(x, h)
      BY DEF StorageInv
    <3>2. c # NoStore /\ NoStore \notin held
      BY <1>2, StoreValues DEF Types
    <3> QED
      BY <1>1, <1>3, <1>5, <2>1, <3>1, <3>2 DEF Sole
  <2>5. ASSUME NEW o \in Gs PROVE SnapOK(o)'
    <3>1. SnapOK(o) /\ Sole(o, o) /\ (gpc[o] = "spawned" => cs[o] \in Stores)
      BY InvParts DEF StorageInv
    <3>2. CASE o = h
      <4>1. objects'[h].store = c /\ c \notin Free' /\ c \notin held /\ gpc'[h] = "run"
        BY <1>3, <1>5, <2>1, <3>1, <3>2, Referred DEF Sole
      <4>2. heap'[c] = heap[c]
        BY <1>7, <4>1
      <4> QED
        BY <1>1, <1>3, <2>2, <3>1, <3>2, <4>1, <4>2 DEF SnapOK
    <3>3. CASE o # h
      <4>1. gpc'[o] = gpc[o] /\ cs'[o] = cs[o] /\ objects'[o].store = objects[o].store
        BY <1>5, <2>1, <3>3
      <4>2. gpc[o] = "spawned" => heap'[cs[o]] = heap[cs[o]]
        BY <1>7, <3>1, <4>1, Referred
      <4>3. objects[o].store \in Stores => heap'[objects[o].store] = heap[objects[o].store]
        BY <1>7, <4>1, Referred
      <4> QED
        BY <1>1, <2>2, <3>1, <4>1, <4>2, <4>3 DEF SnapOK
    <3> QED
      BY <3>2, <3>3
  <2> QED
    BY <1>6, <2>1, <2>3, <2>4, <2>5, TypeParts DEF StorageInv
<1> QED
  BY <1>8, <1>9
-----------------------------------------------------------------------------
LEMMA SweptEffect ==
  ASSUME StorageInv, Swept
  PROVE  /\ objects' \in [Gs -> EntryRecord]
         /\ \A g \in Gs : EntryOK(g)'
         /\ \A g \in Gs : \/ objects'[g] = objects[g]
                          \/ objects'[g] = NoEntry /\ objects[g].left < 0
<1> DEFINE expired == {g \in Gs : g % NBuckets = sweep /\ Before(g)}
<1>1. objects' = [g \in Gs |-> IF g \in expired THEN NoEntry ELSE objects[g]]
  BY DEF Swept
<1>2. Types /\ \A h \in Gs : EntryOK(h)
  BY InvParts
<1>3. \A g \in expired : objects[g].left < 0
  <2>1. ASSUME NEW g \in expired PROVE objects[g].left < 0
    <3>1. objects[g].left + lag < 0
      BY DEF Before
    <3>2. lag \in Nat /\ objects[g].left \in Int
      <4>1. lag \in 0..MaxLag /\ MaxLag \in Nat
        BY <1>2, StorageAssumption DEF Types
      <4> QED
        BY <4>1, InvParts, EntryFields
    <3> QED
      BY <3>1, <3>2
  <2> QED
    BY <2>1
<1> HIDE DEF expired
<1>4. \A g \in Gs : \/ objects'[g] = objects[g]
                    \/ objects'[g] = NoEntry /\ objects[g].left < 0
  BY <1>1, <1>3
<1>5. objects' \in [Gs -> EntryRecord]
  BY <1>1, EntryFields, InvParts
<1>6. ASSUME NEW g \in Gs PROVE EntryOK(g)'
  <2>1. EntryOK(g) /\ MaxLag \in Nat
    BY <1>2, StorageAssumption
  <2> QED
    BY <1>4, <2>1, EntryFields DEF EntryOK
<1> QED
  BY <1>4, <1>5, <1>6

LEMMA SweepKeeps ==
  ASSUME StorageInv, SweepStart \/ SweepBucket
  PROVE  StorageInv'
<1>1. UNCHANGED <<held, gpc, auto, depth, cs, snap>>
  BY DEF SweepStart, SweepBucket, Swept
<1>2. Types /\ \A h \in Gs : EntryOK(h) /\ StateOK(h)
  BY InvParts
<1>3. NBuckets \in Nat \ {0} /\ MaxLag \in Nat
  BY StorageAssumption
<1>4. sweep' \in 0..NBuckets /\ lag' \in 0..MaxLag
  <2>1. sweep \in 0..NBuckets /\ lag \in 0..MaxLag
    BY <1>2 DEF Types
  <2>2. CASE SweepStart
    BY <1>3, <2>2 DEF SweepStart
  <2>3. CASE SweepBucket
    BY <1>3, <2>1, <2>3 DEF SweepBucket, Sweeping
  <2> QED
    BY <2>2, <2>3
<1>5. \A g \in Gs : StateOK(g)'
  BY <1>1, <1>2 DEF StateOK
<1>6. CASE SweepStart
  <2>1. UNCHANGED <<objects, heap>>
    BY <1>6 DEF SweepStart
  <2>2. Types' /\ \A g \in Gs : EntryOK(g)'
    BY <1>1, <1>2, <1>4, <2>1 DEF Types, EntryOK
  <2> QED
    BY <1>1, <1>5, <2>1, <2>2, NoNewReference
<1>7. CASE SweepBucket
  <2>1. Swept /\ Becomes(heap)
    BY <1>7 DEF SweepBucket, Swept
  <2>2. heap' \in [Stores -> Contents]
    BY <1>2, <2>1, BecomesEffect DEF Types
  <2>3. Types'
    BY <1>1, <1>2, <1>4, <2>1, <2>2, SweptEffect DEF Types
  <2>4. \A g \in Gs : EntryOK(g)' /\ objects'[g].store \in {NoStore, objects[g].store}
    BY <2>1, SweptEffect, EntryFields
  <2> QED
    BY <1>1, <1>5, <2>1, <2>3, <2>4, Collected
<1> QED
  BY <1>6, <1>7

LEMMA WithLeft ==
  ASSUME NEW e \in EntryRecord, NEW l \in Int
  PROVE  LET q == [e EXCEPT !.left = l]
         IN q \in EntryRecord /\ q.store = e.store /\ q.left = l
BY DEF EntryRecord

LEMMA TickEffect ==
  ASSUME StorageInv, Tick
  PROVE  /\ objects' \in [Gs -> EntryRecord]
         /\ \A g \in Gs : EntryOK(g)' /\ objects'[g].store = objects[g].store
<1>1. objects' = [g \in Gs |->
       IF HasEntry(g) /\ objects[g].left >= -MaxLag
       THEN [objects[g] EXCEPT !.left = @ - 1] ELSE objects[g]]
  BY DEF Tick
<1>2. ASSUME NEW g \in Gs
      PROVE  objects'[g] \in EntryRecord /\ EntryOK(g)' /\ objects'[g].store = objects[g].store
  <2>1. /\ objects[g] \in EntryRecord /\ EntryOK(g) /\ MaxLag \in Nat
        /\ HasEntry(g) => objects[g].store # NoStore
    BY InvParts, StorageAssumption
  <2>2. CASE HasEntry(g) /\ objects[g].left >= -MaxLag
    <3>1. objects'[g] = [objects[g] EXCEPT !.left = objects[g].left - 1]
      BY <1>1, <2>2
    <3>2. objects[g].left \in Int /\ objects[g].left - 1 \in Int
      BY <2>1, EntryFields
    <3>3. objects[g].left \in Int
      BY <3>2
    <3>4. /\ objects'[g] \in EntryRecord /\ objects'[g].store = objects[g].store
          /\ objects'[g].left = objects[g].left - 1
      BY <2>1, <3>1, <3>2, WithLeft
    <3>5. objects'[g].left >= -MaxLag - 1
      BY <2>1, <2>2, <3>3, <3>4
    <3>6. objects'[g].store # NoStore
      BY <2>1, <2>2, <3>4
    <3> QED
      BY <3>4, <3>5, <3>6 DEF EntryOK
  <2>3. CASE ~(HasEntry(g) /\ objects[g].left >= -MaxLag)
    BY <1>1, <2>1, <2>3 DEF EntryOK
  <2> QED
    BY <2>2, <2>3
<1>3. objects' \in [Gs -> EntryRecord]
  BY <1>1, <1>2
<1> QED
  BY <1>2, <1>3

LEMMA TickKeeps ==
  ASSUME StorageInv, Tick
  PROVE  StorageInv'
<1>1. /\ UNCHANGED <<heap, held, gpc, auto, depth, cs, snap, sweep>>
      /\ lag < MaxLag \/ ~Sweeping
      /\ lag' = IF Sweeping THEN lag + 1 ELSE 0
  BY DEF Tick
<1>2. Types /\ \A h \in Gs : StateOK(h)
  BY InvParts
<1>3. lag' \in 0..MaxLag
  <2>1. lag \in 0..MaxLag /\ MaxLag \in Nat
    BY <1>2, StorageAssumption DEF Types
  <2> QED
    BY <1>1, <2>1
<1>4. Types'
  BY <1>1, <1>2, <1>3, TickEffect DEF Types
<1>5. \A g \in Gs : (EntryOK(g) /\ StateOK(g))'
  BY <1>1, <1>2, TickEffect DEF StateOK
<1> QED
  BY <1>1, <1>4, <1>5, TickEffect, NoNewReference

LEMMA StorageStep ==
  StorageInv /\ [Next]_vars => StorageInv'
<1> SUFFICES ASSUME StorageInv, [Next]_vars PROVE StorageInv'
  OBVIOUS
<1>1. ASSUME NEW g \in Gs,
             \/ Start(g) \/ Cleanup(g) \/ WithReturn(g) \/ WithPanic(g) \/ GoPut(g) \/ End(g)
             \/ \E v \in Values : Set(g, v)
             \/ \E s \in held \cup {NilMap} : With(g, s)
             \/ \E h \in Gs : Go(g, h)
      PROVE  StorageInv'
  BY <1>1, StartKeeps, DeletesKeep, PanicKeeps, GoPutKeeps, EndKeeps, SetKeeps, WithKeeps,
     GoKeeps
<1>2. ASSUME NEW g \in Gs, NEW timeout \in Timeouts, Put(g, timeout)
      PROVE  StorageInv'
  BY <1>2, PutFinds, PutMakes, StorageAssumption
<1>3. CASE \/ \E v \in Values : Make(v) \/ \E s \in held : Write(s, v)
           \/ \E s \in held : Drop(s)
  BY <1>3, UsersKeep
<1>4. CASE SweepStart \/ SweepBucket
  BY <1>4, SweepKeeps
<1>5. CASE Tick
  BY <1>5, TickKeeps
<1>6. CASE UNCHANGED vars
  <2>1. TypeOK'
    BY <1>6 DEF StorageInv, TypeOK, vars
  <2>2. \A g \in Gs : \A h \in Gs : Sole(g, h)'
    BY <1>6 DEF StorageInv, Sole, vars
  <2>3. \A h \in Gs : SnapOK(h)'
    BY <1>6 DEF StorageInv, SnapOK, vars
  <2> QED
    BY <2>1, <2>2, <2>3 DEF StorageInv
<1> QED
  BY <1>1, <1>2, <1>3, <1>4, <1>5, <1>6 DEF Next

LEMMA StorageInvariant == Spec => []StorageInv
BY StorageInit, StorageStep, PTL DEF Spec

-----------------------------------------------------------------------------
\* No two slots of Gs are the same in a set of one element or none.
LEMMA AtMostOne ==
  ASSUME NEW S, IsFiniteSet(S), \A a, b \in S : a = b
  PROVE  Cardinality(S) \in {0, 1} /\ (Cardinality(S) = 1 => S # {})
<1>1. CASE S = {}
  BY <1>1, FS_EmptySet
<1>2. CASE S # {}
  <2>1. PICK x : x \in S
    BY <1>2
  <2>2. S = {x}
    BY <2>1
  <2> QED
    BY <2>2, FS_Singleton
<1> QED
  BY <1>1, <1>2

LEMMA OneReference ==
  ASSUME StorageInv, NEW s \in Stores \ held
  PROVE  References(s) <= 1
<1> DEFINE A == {g \in Gs : objects[g].store = s}
           C == {g \in Gs : cs[g] = s}
<1>1. IsFiniteSet(A) /\ IsFiniteSet(C)
  BY StorageAssumption, FS_Subset
<1>2. \A g \in Gs : \A h \in Gs : Sole(g, h) /\ s # NoStore /\ s \in Stores \ held
  BY EntryFields DEF StorageInv
<1>3. \A a, b \in A : a = b
  BY <1>2 DEF Sole
<1>4. \A a, b \in C : a = b
  BY <1>2 DEF Sole
<1>5. A = {} \/ C = {}
  BY <1>2 DEF Sole
<1>6. References(s) = Cardinality(A) + Cardinality(C)
  BY DEF References
<1> HIDE DEF A, C
<1>7. /\ Cardinality(A) \in {0, 1} /\ (Cardinality(A) = 1 => A # {})
      /\ Cardinality(C) \in {0, 1} /\ (Cardinality(C) = 1 => C # {})
  BY <1>1, <1>3, <1>4, AtMostOne
<1> QED
  BY <1>5, <1>6, <1>7

(***************************************************************************)
(* Go hands its child a copy of what the parent had at the call, and the   *)
(* child has it until it writes to it or lets a user have it, for all      *)
(* interleavings of the parent, the child, the users, the sweeper and the  *)
(* other goroutines; and two goroutines share a storage only if a user     *)
(* holds it.                                                               *)
(***************************************************************************)
THEOREM SnapshotsKept == Spec => []GoSnapshot
<1>1. ASSUME StorageInv PROVE GoSnapshot
  <2>1. \A s \in Stores \ held : References(s) <= 1
    BY <1>1, OneReference
  <2>2. ASSUME NEW h \in Gs, snap[h] # NoSnap
        PROVE  /\ gpc[h] = "spawned" => heap[cs[h]] = snap[h]
               /\ gpc[h] = "run" /\ HasEntry(h) => Value(h) = snap[h]
    <3>1. SnapOK(h) /\ (HasEntry(h) <=> objects[h].store # NoStore)
      BY <1>1, InvParts DEF StorageInv
    <3> QED
      BY <2>2, <3>1 DEF SnapOK, Value, getStorage
  <2> QED
    BY <1>1, <2>1, <2>2 DEF StorageInv, GoSnapshot
<1> QED
  BY <1>1, StorageInvariant, PTL

LEMMA EntryStep ==
  ASSUME StorageInv, [Next]_vars, NEW g \in Gs, HasEntry(g)
  PROVE  \/ objects'[g].store = objects[g].store
         \/ /\ objects'[g] = NoEntry
            /\ (gpc[g] = "run" /\ sweep' = sweep) \/ objects[g].left < 0
<1> DEFINE Goal == \/ objects'[g].store = objects[g].store
                   \/ /\ objects'[g] = NoEntry
                      /\ (gpc[g] = "run" /\ sweep' = sweep) \/ objects[g].left < 0
<1>1. ASSUME NEW h \in Gs, Delete(h), gpc[h] = "run", sweep' = sweep PROVE Goal
  BY <1>1, DeleteEffect
<1>2. ASSUME NEW h \in Gs, NEW s, NEW timeout, put(h, s, timeout) PROVE Goal
  <2>1. CASE HasEntry(h)
    BY <1>2, <2>1 DEF put
  <2>2. CASE ~HasEntry(h)
    <3>1. g # h /\ objects \in [Gs -> EntryRecord]
      BY <2>2, InvParts DEF Types
    <3> QED
      BY <1>2, <2>2, <3>1 DEF put
  <2> QED
    BY <2>1, <2>2
<1>3. CASE UNCHANGED objects
  BY <1>3
<1>4. ASSUME NEW h \in Gs,
             \/ Start(h) \/ Cleanup(h) \/ WithReturn(h) \/ WithPanic(h) \/ GoPut(h) \/ End(h)
             \/ \E v \in Values : Set(h, v)
             \/ \E s \in held \cup {NilMap} : With(h, s)
             \/ \E timeout \in Timeouts : Put(h, timeout)
             \/ \E o \in Gs : Go(h, o)
      PROVE  Goal
  <2>1. CASE Start(h) \/ WithPanic(h) \/ (\E v \in Values : Set(h, v)) \/ (\E o \in Gs : Go(h, o))
    BY <1>3, <2>1 DEF Start, WithPanic, Set, Go
  <2>2. CASE Cleanup(h) \/ WithReturn(h) \/ End(h)
    BY <1>1, <1>3, <2>2 DEF Cleanup, WithReturn, End, Run
  <2>3. CASE GoPut(h) \/ (\E s \in held \cup {NilMap} : With(h, s)) \/ (\E timeout \in Timeouts : Put(h, timeout))
    BY <1>2, <2>3 DEF GoPut, With, Put
  <2> QED
    BY <1>4, <2>1, <2>2, <2>3
<1>5. CASE SweepStart
  BY <1>3, <1>5 DEF SweepStart
<1>6. CASE SweepBucket
  BY <1>6, SweptEffect DEF SweepBucket
<1>7. CASE Tick
  BY <1>7, TickEffect
<1>8. CASE \/ UNCHANGED vars
           \/ \E v \in Values : Make(v) \/ \E s \in held : Write(s, v)
           \/ \E s \in held : Drop(s)
  BY <1>3, <1>8 DEF vars, Make, Write, Drop
<1> QED
  BY <1>4, <1>5, <1>6, <1>7, <1>8 DEF Next

(***************************************************************************)
(* An entry stays until its goroutine deletes it or its time is over: put  *)
(* keeps the one that is there, and a sweep that took long to come to the  *)
(* bucket takes only what has expired by then.                             *)
(***************************************************************************)
THEOREM EntriesStable == Spec => EntryStable
<1>1. StorageInv /\ [Next]_vars =>
        [\A g \in Gs : HasEntry(g) =>
           \/ objects'[g].store = objects[g].store
           \/ /\ objects'[g] = NoEntry
              /\ (gpc[g] = "run" /\ sweep' = sweep) \/ objects[g].left < 0]_vars
  BY EntryStep
<1> QED
  BY <1>1, StorageInvariant, PTL DEF Spec, EntryStable
=============================================================================
