----------------------------- MODULE DequeSpec -----------------------------
(***************************************************************************)
(* What LinkedBlockingDeque promises, without nodes, goroutines or         *)
(* conditions: a bounded sequence of elements, and the call that completed *)
(* last with its argument and its result.  The call decides at which end   *)
(* an element goes in or out, or which occurrence of the argument goes     *)
(* out, and it gives up (fails, returns nothing, is interrupted) only when *)
(* the sequence leaves it no choice.                                       *)
(***************************************************************************)
EXTENDS Naturals

CONSTANTS Elems, Nil, Capacity

VARIABLES
  size,   \* number of elements
  items,  \* items[i], i \in 1..size: the elements from first to last
  out     \* the last completed call, its argument and its result

absVars == <<size, items, out>>

Outcome(call, e, r) == [call |-> call, arg |-> e, result |-> r]

Offers == {"OfferFirst", "OfferLast"}
Puts   == {"PutFirst", "PutLast"}
Takes  == {"TakeFirst", "TakeLast"}                        \* wait for ever
Waits  == {"PollFirstWithContext", "PollLastWithContext"}  \* wait for a while
Polls  == {"PollFirst", "PollLast"}
Removals == {"RemoveFirstOccurrence", "RemoveLastOccurrence"}

\* The calls at the front; the others of their kind are at the back.
AtFront == {"OfferFirst", "PutFirst", "TakeFirst", "PollFirst",
            "PollFirstWithContext", "RemoveFirstOccurrence"}

\* s, a function on 1..n, with e put at position i, or without position i.
Inserted(s, n, i, e) ==
  [j \in 1..(n + 1) |-> IF j < i THEN s[j] ELSE IF j = i THEN e ELSE s[j - 1]]
Dropped(s, n, i) == [j \in 1..(n - 1) |-> IF j < i THEN s[j] ELSE s[j + 1]]

AbsInit ==
  /\ size = 0
  /\ items = [i \in 1..0 |-> Nil]
  /\ out = Outcome("none", Nil, Nil)

\* The argument e goes in at the end that the call names.
Add(call, e) ==
  /\ size < Capacity
  /\ size' = size + 1
  /\ items' = Inserted(items, size, IF call \in AtFront THEN 1 ELSE size + 1, e)
  /\ out' = Outcome(call, e, "ok")

\* The element at the end that the call names goes out and is returned.
Take(call) ==
  LET i == IF call \in AtFront THEN 1 ELSE size
  IN /\ size > 0
     /\ size' = size - 1
     /\ items' = Dropped(items, size, i)
     /\ out' = Outcome(call, Nil, items[i])

\* The first, or the last, occurrence of the argument e goes out.
Remove(call, e) ==
  \E i \in 1..size :
    /\ items[i] = e
    /\ \A j \in 1..size :
         items[j] = e => IF call \in AtFront THEN i <= j ELSE j <= i
    /\ size' = size - 1
    /\ items' = Dropped(items, size, i)
    /\ out' = Outcome(call, e, "ok")

\* Remove of an iterator takes out the element that its last Next returned.
RemoveByIterator ==
  /\ \E i \in 1..size : items' = Dropped(items, size, i)
  /\ size' = size - 1
  /\ out' = Outcome("Iterator.Remove", Nil, Nil)

\* A call completes and leaves the elements alone.
GiveUp ==
  /\ UNCHANGED <<size, items>>
  /\ \/ \E call \in Offers \cup Puts \cup Removals : out' = Outcome(call, Nil, "nilarg")
     \/ size = Capacity /\ \E call \in Offers, e \in Elems : out' = Outcome(call, e, "full")
     \/ size = 0 /\ \E call \in Polls \cup Waits : out' = Outcome(call, Nil, Nil)
     \/ size = 0 /\ \E call \in Takes \cup Waits : out' = Outcome(call, Nil, "interrupted")
     \/ \E call \in Removals, e \in Elems :
          /\ \A i \in 1..size : items[i] # e
          /\ out' = Outcome(call, e, "absent")

AbsNext ==
  \/ \E call \in Offers \cup Puts, e \in Elems : Add(call, e)
  \/ \E call \in Takes \cup Waits \cup Polls : Take(call)
  \/ \E call \in Removals, e \in Elems : Remove(call, e)
  \/ RemoveByIterator
  \/ GiveUp

AbsSpec == AbsInit /\ [][AbsNext]_absVars
=============================================================================
