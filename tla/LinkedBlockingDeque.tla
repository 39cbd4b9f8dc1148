------------------------ MODULE LinkedBlockingDeque ------------------------
(***************************************************************************)
(* gcollection.LinkedBlockingDeque: a bounded doubly linked list guarded   *)
(* by one mutex, with the conditions notEmpty and notFull.                 *)
(*                                                                         *)
(* One action is one critical section of q.lock: everything the code does  *)
(* between Lock and Unlock, the signals included.  A blocking call is cut  *)
(* where the code releases the lock, inside TimeoutCond.Wait.  Iterators   *)
(* are in DequeIterator; here they appear as IteratorRemove only.          *)
(***************************************************************************)
EXTENDS TimeoutCond, Integers

CONSTANTS
  Nodes,         \* node addresses; their number bounds the insertions
  Elems,         \* elements
  Nil,           \* nil
  Capacity,
  MaxInterrupts  \* bound on calls of InterruptTakeWaiters

ASSUME DequeAssumption ==
  /\ Conds = {"notEmpty", "notFull"}
  /\ Capacity \in Nat        \* NewDeque panics on a negative capacity
  /\ MaxInterrupts \in Nat
  /\ Nil \notin Nodes
  /\ Nil \notin Elems

VARIABLES
  first, last, count,  \* the fields of the deque
  item, prev, next,    \* the fields of the nodes, item = nil once removed
  alloc,               \* nodes returned by newNode so far (never reused)
  order,               \* history: the nodes of the list, first to last
  op, arg,             \* op[g], arg[g]: the blocking call g is in
  out                  \* history: the call that completed last, its argument
                       \* and what it returned

listVars == <<first, last, count, item, prev, next, alloc, order>>
vars == <<listVars, op, arg, out, condVars>>

PutOps  == {"PutFirst", "PutLast"}
PollOps == {"PollFirstWithContext", "PollLastWithContext"}
TakeOps == {"TakeFirst", "TakeLast"} \cup PollOps
FirstOps == {"PutFirst", "PollFirstWithContext", "TakeFirst"}

Pointer == Nodes \cup {Nil}

Outcome(o, e, r) == [call |-> o, arg |-> e, result |-> r]

Init ==
  /\ first = Nil /\ last = Nil /\ count = 0
  /\ item = [n \in Nodes |-> Nil]
  /\ prev = [n \in Nodes |-> Nil]
  /\ next = [n \in Nodes |-> Nil]
  /\ alloc = {}
  /\ order = [i \in 1..0 |-> Nil]
  /\ op = [g \in Goroutines |-> "idle"]
  /\ arg = [g \in Goroutines |-> Nil]
  /\ out = Outcome("none", Nil, Nil)
  /\ CondInit

-----------------------------------------------------------------------------
(***************************************************************************)
(* The list, under the lock.  w is the waiting states before the signal.   *)
(***************************************************************************)
newNode == CHOOSE x \in Nodes : x \notin alloc

InsertAt(i, x) ==
  [j \in 1..(count + 1) |->
     IF j < i THEN order[j] ELSE IF j = i THEN x ELSE order[j - 1]]
DropAt(i) == [j \in 1..(count - 1) |-> IF j < i THEN order[j] ELSE order[j + 1]]
DropNode(x) ==
  [j \in 1..(count - 1) |->
     IF \E k \in 1..j : order[k] = x THEN order[j + 1] ELSE order[j]]

\* Mutant: the capacity check lets one element too many in.
HasRoomOffByOne == count <= Capacity
HasRoom == count < Capacity

linkFirst(e, w) ==
  /\ HasRoom
  /\ alloc # Nodes
  /\ LET x == newNode
         f == first
     IN /\ first' = x
        /\ last' = IF last = Nil THEN x ELSE last
        /\ item' = [item EXCEPT ![x] = e]
        /\ next' = [next EXCEPT ![x] = f]
        /\ prev' = [n \in Nodes |-> IF n = x THEN Nil
                                   ELSE IF n = f /\ last # Nil THEN x ELSE prev[n]]
        /\ count' = count + 1
        /\ alloc' = alloc \cup {x}
        /\ order' = InsertAt(1, x)
  /\ wait' \in Signal("notEmpty", w)

linkLast(e, w) ==
  /\ HasRoom
  /\ alloc # Nodes
  /\ LET x == newNode
         l == last
     IN /\ last' = x
        /\ first' = IF first = Nil THEN x ELSE first
        /\ item' = [item EXCEPT ![x] = e]
        /\ prev' = [prev EXCEPT ![x] = l]
        /\ next' = [n \in Nodes |-> IF n = x THEN Nil
                                   ELSE IF n = l /\ first # Nil THEN x ELSE next[n]]
        /\ count' = count + 1
        /\ alloc' = alloc \cup {x}
        /\ order' = InsertAt(count + 1, x)
  /\ wait' \in Signal("notEmpty", w)

unlinkFirst(w) ==
  /\ first # Nil
  /\ LET f == first
         n == next[f]
     IN /\ item' = [item EXCEPT ![f] = Nil]
        /\ next' = [next EXCEPT ![f] = f]
        /\ first' = n
        /\ last' = IF n = Nil THEN Nil ELSE last
        /\ prev' = IF n = Nil THEN prev ELSE [prev EXCEPT ![n] = Nil]
  /\ count' = count - 1
  /\ order' = DropAt(1)
  /\ wait' \in Signal("notFull", w)
  /\ UNCHANGED alloc

unlinkLast(w) ==
  /\ last # Nil
  /\ LET l == last
         p == prev[l]
     IN /\ item' = [item EXCEPT ![l] = Nil]
        /\ prev' = [prev EXCEPT ![l] = l]
        /\ last' = p
        /\ first' = IF p = Nil THEN Nil ELSE first
        /\ next' = IF p = Nil THEN next ELSE [next EXCEPT ![p] = Nil]
  /\ count' = count - 1
  /\ order' = DropAt(count)
  /\ wait' \in Signal("notFull", w)
  /\ UNCHANGED alloc

\* Mutant: the interior node is bypassed in one direction only.
unlinkMiddleForwardOnly(x) ==
  /\ next' = [next EXCEPT ![prev[x]] = next[x]]
  /\ item' = [item EXCEPT ![x] = Nil]
  /\ count' = count - 1
  /\ order' = DropNode(x)
  /\ wait' \in Signal("notFull", wait)
  /\ UNCHANGED <<prev, first, last, alloc>>

unlinkMiddle(x) ==
  /\ next' = [next EXCEPT ![prev[x]] = next[x]]
  /\ prev' = [prev EXCEPT ![next[x]] = prev[x]]
  /\ item' = [item EXCEPT ![x] = Nil]
  /\ count' = count - 1
  /\ order' = DropNode(x)
  /\ wait' \in Signal("notFull", wait)
  /\ UNCHANGED <<first, last, alloc>>

\* Unlink the provided node.
unlink(x) ==
  \/ prev[x] = Nil /\ unlinkFirst(wait)
  \/ prev[x] # Nil /\ next[x] = Nil /\ unlinkLast(wait)
  \/ prev[x] # Nil /\ next[x] # Nil /\ unlinkMiddle(x)

-----------------------------------------------------------------------------
(***************************************************************************)
(* Calls that do not block.                                                *)
(***************************************************************************)
\* Bound: every insertion under way has a node left to allocate.
NodeLeft ==
  Cardinality(alloc) + Cardinality({g \in Goroutines : op[g] \in PutOps})
    < Cardinality(Nodes)

\* The call o with the argument e returns r.
Returns(o, e, r) ==
  out' = Outcome(o, e, r) /\ UNCHANGED <<op, arg, hasWaiters, signal, done>>

OfferFirst(e) ==
  \/ e = Nil /\ Returns("OfferFirst", e, "nilarg") /\ UNCHANGED <<listVars, wait>>
  \/ e # Nil /\ ~HasRoom /\ Returns("OfferFirst", e, "full") /\ UNCHANGED <<listVars, wait>>
  \/ e # Nil /\ NodeLeft /\ linkFirst(e, wait) /\ Returns("OfferFirst", e, "ok")

OfferLast(e) ==
  \/ e = Nil /\ Returns("OfferLast", e, "nilarg") /\ UNCHANGED <<listVars, wait>>
  \/ e # Nil /\ ~HasRoom /\ Returns("OfferLast", e, "full") /\ UNCHANGED <<listVars, wait>>
  \/ e # Nil /\ NodeLeft /\ linkLast(e, wait) /\ Returns("OfferLast", e, "ok")

\* AddFirst and AddLast return an error where Offer returns false.
AddFirst(e) == OfferFirst(e)
AddLast(e) == OfferLast(e)

PollFirst ==
  \/ first = Nil /\ Returns("PollFirst", Nil, Nil) /\ UNCHANGED <<listVars, wait>>
  \/ unlinkFirst(wait) /\ Returns("PollFirst", Nil, item[first])

\* Mutant: PollLast is a copy of PollFirst that still unlinks the first node.
PollLastAtFront ==
  \/ last = Nil /\ Returns("PollLast", Nil, Nil) /\ UNCHANGED <<listVars, wait>>
  \/ unlinkFirst(wait) /\ Returns("PollLast", Nil, item[first])

PollLast ==
  \/ last = Nil /\ Returns("PollLast", Nil, Nil) /\ UNCHANGED <<listVars, wait>>
  \/ unlinkLast(wait) /\ Returns("PollLast", Nil, item[last])

Occurrences(e) == {i \in 1..count : item[order[i]] = e}

\* The walk along next from first, up to the first node that holds e.
RemoveFirstOccurrence(e) ==
  \/ e = Nil /\ Returns("RemoveFirstOccurrence", e, "nilarg")
             /\ UNCHANGED <<listVars, wait>>
  \/ \E i \in Occurrences(e) :
       /\ \A j \in Occurrences(e) : i <= j
       /\ unlink(order[i])
       /\ Returns("RemoveFirstOccurrence", e, "ok")
  \/ e # Nil /\ Occurrences(e) = {} /\ Returns("RemoveFirstOccurrence", e, "absent")
             /\ UNCHANGED <<listVars, wait>>

\* The walk along prev from last, up to the first node that holds e.
RemoveLastOccurrence(e) ==
  \/ e = Nil /\ Returns("RemoveLastOccurrence", e, "nilarg")
             /\ UNCHANGED <<listVars, wait>>
  \/ \E i \in Occurrences(e) :
       /\ \A j \in Occurrences(e) : i >= j
       /\ unlink(order[i])
       /\ Returns("RemoveLastOccurrence", e, "ok")
  \/ e # Nil /\ Occurrences(e) = {} /\ Returns("RemoveLastOccurrence", e, "absent")
             /\ UNCHANGED <<listVars, wait>>

\* Remove of an iterator whose last returned node, x, is still in the list.
IteratorRemove(x) ==
  item[x] # Nil /\ unlink(x) /\ Returns("Iterator.Remove", Nil, Nil)

\* Calls that only read: PeekFirst, PeekLast, HasTakeWaiters, Size, ToSlice.
PeekFirst == IF first = Nil THEN Nil ELSE item[first]
PeekLast == IF last = Nil THEN Nil ELSE item[last]
HasTakeWaiters == HasWaiters("notEmpty")
Size == count

\* The node that k - 1 steps along next (along prev) lead to, past the end.
Walk[k \in 1..(count + 1)] == IF k = 1 THEN first ELSE next[Walk[k - 1]]
WalkBack[k \in 1..(count + 1)] == IF k = 1 THEN last ELSE prev[WalkBack[k - 1]]

ToSlice == [k \in 1..Size |-> item[Walk[k]]]

InterruptTakeWaiters ==
  /\ signal["notEmpty"] < MaxInterrupts
  /\ Interrupt("notEmpty")
  /\ UNCHANGED <<listVars, op, arg, out>>

-----------------------------------------------------------------------------
(***************************************************************************)
(* Calls that block.  One pass of the loop: o and e are the call and its   *)
(* argument, intr what the previous Wait returned, hw and w the conditions *)
(* once the goroutine holds the lock and is out of Wait.                   *)
(***************************************************************************)
Finish(g, o, e, r) ==
  /\ op' = [op EXCEPT ![g] = "idle"]
  /\ arg' = [arg EXCEPT ![g] = Nil]
  /\ out' = Outcome(o, e, r)
  /\ done' = done \ {g}      \* the context belongs to the call
  /\ UNCHANGED signal

Block(g, o, e, c, hw, w) ==
  /\ StartWait(g, c, hw, w)
  /\ op' = [op EXCEPT ![g] = o]
  /\ arg' = [arg EXCEPT ![g] = e]
  /\ UNCHANGED <<listVars, out, signal, done>>

PutLoop(g, o, e, hw, w) ==
  \/ /\ IF o \in FirstOps THEN linkFirst(e, w) ELSE linkLast(e, w)
     /\ hasWaiters' = hw
     /\ Finish(g, o, e, "ok")
  \/ ~HasRoom /\ Block(g, o, e, "notFull", hw, w)

\* Mutant: the check of the context before Wait is left out.
ContextIgnored(g, o) == FALSE

\* The select on ctx.Done() of PollFirstWithContext and PollLastWithContext.
ContextEnds(g, o) == o \in PollOps /\ g \in done

\* Mutant: after an interrupted Wait the list is not looked at again.
TakeLoopInterruptFirst(g, o, intr, hw, w) ==
  \/ /\ ~intr
     /\ IF o \in FirstOps THEN unlinkFirst(w) ELSE unlinkLast(w)
     /\ hasWaiters' = hw
     /\ Finish(g, o, Nil, IF o \in FirstOps THEN item[first] ELSE item[last])
  \/ /\ intr \/ ContextEnds(g, o)
     /\ intr \/ Nil = IF o \in FirstOps THEN first ELSE last
     /\ Finish(g, o, Nil, IF intr THEN "interrupted" ELSE Nil)
     /\ hasWaiters' = hw /\ wait' = w
     /\ UNCHANGED listVars
  \/ /\ ~intr /\ ~ContextEnds(g, o)
     /\ Nil = IF o \in FirstOps THEN first ELSE last
     /\ Block(g, o, Nil, "notEmpty", hw, w)

TakeLoop(g, o, intr, hw, w) ==
  \/ /\ IF o \in FirstOps THEN unlinkFirst(w) ELSE unlinkLast(w)
     /\ hasWaiters' = hw
     /\ Finish(g, o, Nil, IF o \in FirstOps THEN item[first] ELSE item[last])
  \/ /\ Nil = IF o \in FirstOps THEN first ELSE last
     /\ \/ /\ intr \/ ContextEnds(g, o)
           /\ Finish(g, o, Nil, IF intr THEN "interrupted" ELSE Nil)
           /\ hasWaiters' = hw /\ wait' = w
           /\ UNCHANGED listVars
        \/ /\ ~intr /\ ~ContextEnds(g, o)
           /\ Block(g, o, Nil, "notEmpty", hw, w)

\* PutFirst and PutLast return at once when e is nil.
CallPut(g, o, e) ==
  /\ op[g] = "idle"
  /\ \/ e # Nil /\ NodeLeft /\ PutLoop(g, o, e, hasWaiters, wait)
     \/ e = Nil /\ Finish(g, o, e, "nilarg") /\ UNCHANGED <<listVars, hasWaiters, wait>>

CallTake(g, o) == op[g] = "idle" /\ TakeLoop(g, o, FALSE, hasWaiters, wait)

\* Wait returns with the lock held, and the loop goes on.
Resume(g) ==
  /\ wait[g].st = "woken"
  /\ LET hw == RemoveWaiter(g, hasWaiters)
         w  == [wait EXCEPT ![g] = Out]
     IN \/ op[g] \in PutOps /\ PutLoop(g, op[g], arg[g], hw, w)
        \/ op[g] \in TakeOps /\ TakeLoop(g, op[g], wait[g].interrupted, hw, w)

\* The steps of the Wait of g without the lock: it reaches the select, or
\* the context of its call (of its next call, when idle) ends.
WaitStep(g) == Select(g) /\ UNCHANGED <<listVars, op, arg, out>>
CancelContext(g) == ContextDone(g) /\ UNCHANGED <<listVars, op, arg, out>>

Next ==
  \/ \E e \in Elems \cup {Nil} :
       \/ OfferFirst(e) \/ OfferLast(e) \/ AddFirst(e) \/ AddLast(e)
       \/ RemoveFirstOccurrence(e) \/ RemoveLastOccurrence(e)
  \/ PollFirst \/ PollLast \/ InterruptTakeWaiters
  \/ \E x \in Nodes : IteratorRemove(x)
  \/ \E g \in Goroutines :
       \/ \E o \in PutOps, e \in Elems \cup {Nil} : CallPut(g, o, e)
       \/ \E o \in TakeOps : CallTake(g, o)
       \/ Resume(g) \/ WaitStep(g) \/ CancelContext(g)

Spec == Init /\ [][Next]_vars

(***************************************************************************)
(* A goroutine that can go on does: the runtime schedules it, and          *)
(* sync.Mutex hands the lock to a goroutine that has waited for it.        *)
(* Nothing is assumed about who calls what, and when contexts end.         *)
(***************************************************************************)
Fairness == \A g \in Goroutines : WF_vars(Resume(g)) /\ WF_vars(WaitStep(g))

FairSpec == Spec /\ Fairness
-----------------------------------------------------------------------------
ListTypeOK ==
  /\ count \in 0..Capacity
  /\ first \in Pointer /\ last \in Pointer
  /\ item \in [Nodes -> Elems \cup {Nil}]
  /\ prev \in [Nodes -> Pointer]
  /\ next \in [Nodes -> Pointer]
  /\ alloc \in SUBSET Nodes
  /\ order \in [1..count -> alloc]

CallTypeOK ==
  /\ op \in [Goroutines -> {"idle"} \cup PutOps \cup TakeOps]
  /\ arg \in [Goroutines -> Elems \cup {Nil}]
  /\ \A g \in Goroutines : op[g] \in PutOps => arg[g] # Nil
  /\ hasWaiters \in [Conds -> Int]
  /\ signal \in [Conds -> Nat]
  /\ wait \in [Goroutines -> WaitRecord]
  /\ done \in SUBSET Goroutines

(***************************************************************************)
(* Type invariant.  count stays within the capacity, the nodes of the list *)
(* are allocated nodes, and a put that waits has an element to put.        *)
(***************************************************************************)
TypeOK == ListTypeOK /\ CallTypeOK

\* first and last are the ends of the list, nil together when it is empty.
EndsOK ==
  /\ first = IF count = 0 THEN Nil ELSE order[1]
  /\ last  = IF count = 0 THEN Nil ELSE order[count]

\* No node is in the list twice, and prev and next connect neighbours.
LinksOK ==
  /\ \A i, j \in 1..count : order[i] = order[j] => i = j
  /\ \A i \in 1..count :
       /\ prev[order[i]] = IF i = 1 THEN Nil ELSE order[i - 1]
       /\ next[order[i]] = IF i = count THEN Nil ELSE order[i + 1]

\* A node has an item exactly while it is in the list: what Remove of an
\* iterator relies on when it decides whether to unlink.
ItemsOK ==
  \A n \in Nodes : item[n] # Nil <=> \E i \in 1..count : order[i] = n

(***************************************************************************)
(* The list is well linked after every critical section: the invariants    *)
(* in the comments on the fields first and last, and the links that every  *)
(* walk, in either direction, depends on.                                  *)
(***************************************************************************)
WellLinked == EndsOK /\ LinksOK /\ ItemsOK

(***************************************************************************)
(* hasWaiters counts the goroutines inside Wait, so that removeWaiter      *)
(* never panics and HasTakeWaiters is exact; takers wait on notEmpty and   *)
(* putters on notFull; and nobody stays blocked on a closed channel.       *)
(***************************************************************************)
WaitersOK ==
  /\ \A c \in Conds : hasWaiters[c] = Cardinality(InWait(c))
  /\ HasTakeWaiters <=> \E g \in Goroutines : op[g] \in TakeOps
  /\ \A g \in Goroutines :
       /\ op[g] = "idle" <=> wait[g].st = "out"
       /\ wait[g].st # "out" =>
            wait[g].on = IF op[g] \in PutOps THEN "notFull" ELSE "notEmpty"
       /\ wait[g].st = "parked" => wait[g].ch = signal[wait[g].on]

(***************************************************************************)
(* What readers see is the content: the walk of ToSlice visits Size nodes  *)
(* and stops (it would index past the slice otherwise), the walk along     *)
(* prev sees the same nodes backwards, and the Peeks agree with it.        *)
(***************************************************************************)
ReadersAgree ==
  /\ \A i \in 1..count : ToSlice[i] # Nil /\ WalkBack[i] = Walk[count + 1 - i]
  /\ Walk[count + 1] = Nil /\ WalkBack[count + 1] = Nil
  /\ count > 0 => PeekFirst = ToSlice[1] /\ PeekLast = ToSlice[count]

\* The linked list and its calls implement the abstract deque.
Abs == INSTANCE DequeSpec WITH size <- count,
                               items <- [i \in 1..count |-> item[order[i]]]

(***************************************************************************)
(* Every step of the deque is a step of the abstract deque for the call    *)
(* that was made, or changes neither the content nor the last outcome: a   *)
(* put, an offer, a take or a poll works at the end that its name says,    *)
(* the occurrence of the argument that was asked for is removed, and a     *)
(* call gives up (full, nil, InterruptedErr, absent) only when the content *)
(* leaves it no choice.                                                    *)
(***************************************************************************)
ImplementsDeque == Abs!AbsSpec

\* InterruptTakeWaiters found g in Wait, before the select or blocked in it.
Interrupted(g) ==
  \/ wait[g].st = "unlocked" /\ wait[g].ch < signal[wait[g].on]
  \/ wait[g].st = "woken" /\ wait[g].interrupted

(***************************************************************************)
(* An interrupt is never lost on a goroutine that has not been woken yet:  *)
(* a taker found before or in the select of Wait returns, unless its       *)
(* context ends at the same time and sends it back to wait.                *)
(***************************************************************************)
InterruptReleases ==
  \A g \in Goroutines :
    (Interrupted(g) /\ g \notin done) ~> (op[g] = "idle" \/ g \in done)

(***************************************************************************)
(* PollFirstWithContext and PollLastWithContext return once their context  *)
(* is done.                                                                *)
(***************************************************************************)
PollReturns ==
  \A g \in Goroutines : (op[g] \in PollOps /\ g \in done) ~> (op[g] = "idle")

(***************************************************************************)
(* TakeFirst and TakeLast wait "until there is an element to unlink": no   *)
(* taker waits for ever in a deque that is never empty again.              *)
(***************************************************************************)
TakerServed ==
  \A g \in Goroutines : []<>~(op[g] \in TakeOps /\ count > 0)
=============================================================================
