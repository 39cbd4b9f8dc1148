--------------------------- MODULE DequeIterator ---------------------------
(***************************************************************************)
(* Iterators over a LinkedBlockingDeque that other goroutines change.      *)
(*                                                                         *)
(* An iterator keeps the node it will return next and a copy of its item,  *)
(* and takes the lock only to advance and to remove.  Between its calls    *)
(* the deque may take any step of LinkedBlockingDeque.                     *)
(***************************************************************************)
EXTENDS LinkedBlockingDeque

CONSTANT Iters   \* iterators, each used by one goroutine

\* The fields of an iterator; an iterator is not nil.
IteratorRecord ==
  [next : Pointer, lastRet : Pointer, desc : BOOLEAN, nextItem : Elems \cup {Nil}]

ASSUME IteratorAssumption == Nil \notin IteratorRecord

VARIABLES
  it,        \* it[i]: the iterator i, or nil before newIterator
  start,     \* history: the nodes in the list when i was made
  returned   \* history: the nodes whose items Next of i has returned

iterVars == <<it, start, returned>>
allVars == <<vars, iterVars>>

Live == {order[k] : k \in 1..count}
Open(i) == it[i] # Nil

IterInit ==
  /\ Init
  /\ it = [i \in Iters |-> Nil]
  /\ start = [i \in Iters |-> {}]
  /\ returned = [i \in Iters |-> {}]

\* Mutant: a descending iterator starts at the front.
firstNodeAscending(desc) == first

firstNode(desc) == IF desc THEN last ELSE first
nextNode(desc, n) == IF desc THEN prev[n] ELSE next[n]
itemOf(n) == IF n = Nil THEN Nil ELSE item[n]

\* newIterator: Iterator and DescendingIterator.
NewIterator(i, desc) ==
  /\ ~Open(i)
  /\ it' = [it EXCEPT ![i] = [next |-> firstNode(desc), lastRet |-> Nil, desc |-> desc,
                              nextItem |-> itemOf(firstNode(desc))]]
  /\ start' = [start EXCEPT ![i] = Live]
  /\ UNCHANGED <<vars, returned>>

(***************************************************************************)
(* The loop of succ follows the links through removed nodes, which keep    *)
(* them, until the next node is nil, has its item, or is the node itself:  *)
(* StopNode is where it stops, the node that skips no further among those  *)
(* that the loop reaches from n, which are in every set that has n and is  *)
(* closed under skipping.  There is none if the loop does not end.         *)
(***************************************************************************)
Skips(desc, n) ==
  LET s == nextNode(desc, n) IN s \notin {Nil, n} /\ item[s] = Nil

Reaches(desc, n, m) ==
  \A S \in SUBSET Nodes :
    n \in S /\ (\A x \in S : Skips(desc, x) => nextNode(desc, x) \in S) => m \in S

StopNode(desc, n) == CHOOSE m \in Nodes : ~Skips(desc, m) /\ Reaches(desc, n, m)

\* Mutant: a node that points to itself ends the iteration.
succStopsAtSelfLink(desc, n) ==
  LET s == nextNode(desc, StopNode(desc, n))
  IN IF s = Nil \/ item[s] = Nil THEN Nil ELSE s

\* Mutant: nodes that were removed meanwhile are not skipped.
succKeepsRemoved(desc, n) ==
  LET s == nextNode(desc, n) IN IF s = n THEN firstNode(desc) ELSE s

\* A node linked to itself was removed at the end the iteration comes from,
\* so go on with the first node.
succ(desc, n) ==
  LET s == nextNode(desc, StopNode(desc, n))
  IN IF s = Nil THEN Nil ELSE IF item[s] # Nil THEN s ELSE firstNode(desc)

\* Next: return the copied item and advance, under the lock.  When there is
\* no next node it returns nil and changes nothing.
NextCall(i) ==
  /\ Open(i)
  /\ it[i].next # Nil
  /\ LET n == succ(it[i].desc, it[i].next)
     IN it' = [it EXCEPT ![i] = [@ EXCEPT !.lastRet = it[i].next, !.next = n,
                                          !.nextItem = itemOf(n)]]
  /\ returned' = [returned EXCEPT ![i] = @ \cup {it[i].next}]
  /\ UNCHANGED <<vars, start>>

\* Mutant: Remove does not look whether the node has been removed already.
RemoveUnchecked(i) ==
  /\ Open(i) /\ it[i].lastRet # Nil
  /\ it' = [it EXCEPT ![i] = [@ EXCEPT !.lastRet = Nil]]
  /\ unlink(it[i].lastRet) /\ Returns("Iterator.Remove", Nil, Nil)
  /\ UNCHANGED <<start, returned>>

\* Remove (it panics when lastRet is nil, and changes nothing).
Remove(i) ==
  /\ Open(i)
  /\ LET n == it[i].lastRet
     IN /\ n # Nil
        /\ it' = [it EXCEPT ![i] = [@ EXCEPT !.lastRet = Nil]]
        /\ IteratorRemove(n) \/ (item[n] = Nil /\ UNCHANGED vars)
  /\ UNCHANGED <<start, returned>>

\* The iterator is dropped, and another one may be made.
Drop(i) ==
  /\ Open(i)
  /\ it' = [it EXCEPT ![i] = Nil]
  /\ start' = [start EXCEPT ![i] = {}]
  /\ returned' = [returned EXCEPT ![i] = {}]
  /\ UNCHANGED vars

IterNext ==
  \/ Next /\ UNCHANGED iterVars
  \/ \E i \in Iters :
       \/ \E desc \in BOOLEAN : NewIterator(i, desc)
       \/ NextCall(i) \/ Remove(i) \/ Drop(i)

IterSpec == IterInit /\ [][IterNext]_allVars
-----------------------------------------------------------------------------
(***************************************************************************)
(* The copied item is the one of the next node, which may have been taken  *)
(* since; in particular Next never returns nil after HasNext was true.     *)
(***************************************************************************)
NextItemOK ==
  \A i \in Iters : Open(i) =>
    IF it[i].next = Nil THEN it[i].nextItem = Nil
    ELSE it[i].nextItem \in Elems /\ item[it[i].next] \in {Nil, it[i].nextItem}

(***************************************************************************)
(* An iteration returns each element once, whatever is removed and         *)
(* inserted meanwhile, and however often succ starts again at the first    *)
(* node: none twice, and when it ends every element that was in the deque  *)
(* from the call of newIterator on.                                        *)
(***************************************************************************)
EachOnce ==
  \A i \in Iters : Open(i) =>
    /\ it[i].next \notin returned[i]
    /\ it[i].next = Nil => start[i] \cap Live \subseteq returned[i]

\* Node m comes before node n in the direction of the iteration.
Precedes(m, n, desc) ==
  \E j, k \in 1..count : order[j] = m /\ order[k] = n /\ IF desc THEN k < j ELSE j < k

(***************************************************************************)
(* Elements come in the order of the list: what an iterator still has to   *)
(* return of the list it started from lies beyond all that it returned,    *)
(* and not before the node it stands on.                                   *)
(***************************************************************************)
InOrder ==
  \A i \in Iters : Open(i) =>
    \A n \in (start[i] \cap Live) \ returned[i] :
      /\ \A m \in returned[i] \cap Live : Precedes(m, n, it[i].desc)
      /\ it[i].next \in Live \ {n} => Precedes(it[i].next, n, it[i].desc)
=============================================================================
