--------------------- MODULE LinkedBlockingDequeProofs ---------------------
(***************************************************************************)
(* Proofs about LinkedBlockingDeque and its iterators, for every set of    *)
(* goroutines, nodes, elements and iterators and for every capacity.       *)
(***************************************************************************)
EXTENDS DequeIterator, FiniteSetTheorems, WellFoundedInduction, TLAPS

ListInv == ListTypeOK /\ WellLinked
Waits == [Goroutines -> WaitRecord]

-----------------------------------------------------------------------------
(***************************************************************************)
(* The list: each of the primitives that change it keeps it well linked.   *)
(***************************************************************************)
\* newNode returns a node that was never allocated before.
LEMMA NewNodeIsFresh ==
  ASSUME ListTypeOK, alloc # Nodes
  PROVE  newNode \in Nodes /\ newNode \notin alloc
<1>1. \E x \in Nodes : x \notin alloc
  BY DEF ListTypeOK
<1> QED
  BY <1>1 DEF newNode

\* linkFirst keeps the list well linked: the old nodes move up one position.
LEMMA LinkFirstOK ==
  ASSUME ListInv, NEW e \in Elems, NEW w, linkFirst(e, w)
  PROVE  ListInv'
<1> DEFINE x == newNode
<1>1. x \in Nodes /\ x \notin alloc
  BY NewNodeIsFresh DEF linkFirst, ListInv
<1> HIDE DEF x
<1>2. /\ count < Capacity
      /\ first' = x
      /\ last' = IF last = Nil THEN x ELSE last
      /\ item' = [item EXCEPT ![x] = e]
      /\ next' = [next EXCEPT ![x] = first]
      /\ prev' = [n \in Nodes |-> IF n = x THEN Nil
                                 ELSE IF n = first /\ last # Nil THEN x ELSE prev[n]]
      /\ count' = count + 1
      /\ alloc' = alloc \cup {x}
      /\ order' = InsertAt(1, x)
  BY DEF linkFirst, HasRoom, x
<1> USE DequeAssumption DEF ListInv, ListTypeOK
<1>3. /\ order' \in [1..count' -> alloc']
      /\ order'[1] = x
      /\ \A i \in 2..count' : order'[i] = order[i - 1]
  BY <1>1, <1>2 DEF InsertAt
<1>4. \A i \in 1..count : order[i] \in Nodes /\ order[i] # x
  BY <1>1
<1>5. ListTypeOK'
  BY <1>1, <1>2, <1>3 DEF Pointer
<1>6. EndsOK'
  BY <1>1, <1>2, <1>3, <1>4 DEF WellLinked, EndsOK
<1>7. LinksOK'
  <2>1. \A i, j \in 1..count' : order'[i] = order'[j] => i = j
    BY <1>2, <1>3, <1>4 DEF WellLinked, LinksOK
  <2>2. ASSUME NEW i \in 1..count'
        PROVE  /\ prev'[order'[i]] = IF i = 1 THEN Nil ELSE order'[i - 1]
               /\ next'[order'[i]] = IF i = count' THEN Nil ELSE order'[i + 1]
    <3>1. CASE i = 1
      BY <1>1, <1>2, <1>3, <1>4, <3>1 DEF WellLinked, EndsOK, LinksOK
    <3>2. CASE i > 1
      BY <1>1, <1>2, <1>3, <1>4, <3>2 DEF WellLinked, EndsOK, LinksOK
    <3> QED
      BY <3>1, <3>2, <1>2
  <2> QED
    BY <2>1, <2>2 DEF LinksOK
<1>8. ItemsOK'
  <2>1. ASSUME NEW n \in Nodes
        PROVE  (\E i \in 1..count' : order'[i] = n) <=> n = x \/ \E i \in 1..count : order[i] = n
    <3>1. ASSUME NEW i \in 1..count, order[i] = n PROVE \E j \in 1..count' : order'[j] = n
      <4>1. i + 1 \in 1..count' /\ order'[i + 1] = n
        BY <1>2, <1>3, <3>1
      <4> QED
        BY <4>1
    <3>2. ASSUME NEW j \in 1..count', order'[j] = n, n # x PROVE \E i \in 1..count : order[i] = n
      <4>1. j - 1 \in 1..count /\ order[j - 1] = n
        BY <1>2, <1>3, <3>2
      <4> QED
        BY <4>1
    <3>3. 1 \in 1..count' /\ order'[1] = x
      BY <1>2, <1>3
    <3> QED
      BY <3>1, <3>2, <3>3
  <2> QED
    BY <1>1, <1>2, <2>1 DEF WellLinked, ItemsOK
<1> QED
  BY <1>5, <1>6, <1>7, <1>8 DEF WellLinked

\* linkLast keeps the list well linked: the old nodes keep their positions.
LEMMA LinkLastOK ==
  ASSUME ListInv, NEW e \in Elems, NEW w, linkLast(e, w)
  PROVE  ListInv'
<1> DEFINE x == newNode
<1>1. x \in Nodes /\ x \notin alloc
  BY NewNodeIsFresh DEF linkLast, ListInv
<1> HIDE DEF x
<1>2. /\ count < Capacity
      /\ last' = x
      /\ first' = IF first = Nil THEN x ELSE first
      /\ item' = [item EXCEPT ![x] = e]
      /\ prev' = [prev EXCEPT ![x] = last]
      /\ next' = [n \in Nodes |-> IF n = x THEN Nil
                                 ELSE IF n = last /\ first # Nil THEN x ELSE next[n]]
      /\ count' = count + 1
      /\ alloc' = alloc \cup {x}
      /\ order' = InsertAt(count + 1, x)
  BY DEF linkLast, HasRoom, x
<1> USE DequeAssumption DEF ListInv, ListTypeOK
<1>3. /\ order' \in [1..count' -> alloc']
      /\ order'[count'] = x
      /\ \A i \in 1..count : order'[i] = order[i]
  BY <1>1, <1>2 DEF InsertAt
<1>4. \A i \in 1..count : order[i] \in Nodes /\ order[i] # x
  BY <1>1
<1>5. ListTypeOK'
  BY <1>1, <1>2, <1>3 DEF Pointer
<1>6. EndsOK'
  BY <1>1, <1>2, <1>3, <1>4 DEF WellLinked, EndsOK
<1>7. LinksOK'
  <2>1. \A i, j \in 1..count' : order'[i] = order'[j] => i = j
    BY <1>2, <1>3, <1>4 DEF WellLinked, LinksOK
  <2>2. ASSUME NEW i \in 1..count'
        PROVE  /\ prev'[order'[i]] = IF i = 1 THEN Nil ELSE order'[i - 1]
               /\ next'[order'[i]] = IF i = count' THEN Nil ELSE order'[i + 1]
    <3>1. CASE i = count'
      BY <1>1, <1>2, <1>3, <1>4, <3>1 DEF WellLinked, EndsOK, LinksOK
    <3>2. CASE i < count'
      BY <1>1, <1>2, <1>3, <1>4, <3>2 DEF WellLinked, EndsOK, LinksOK
    <3> QED
      BY <3>1, <3>2, <1>2
  <2> QED
    BY <2>1, <2>2 DEF LinksOK
<1>8. ItemsOK'
  <2>1. ASSUME NEW n \in Nodes
        PROVE  (\E i \in 1..count' : order'[i] = n) <=> n = x \/ \E i \in 1..count : order[i] = n
    BY <1>2, <1>3
  <2> QED
    BY <1>1, <1>2, <2>1 DEF WellLinked, ItemsOK
<1> QED
  BY <1>5, <1>6, <1>7, <1>8 DEF WellLinked

\* unlinkFirst keeps the list well linked: the other nodes move down one.
LEMMA UnlinkFirstOK ==
  ASSUME ListInv, NEW w, unlinkFirst(w)
  PROVE  ListInv'
<1> USE DequeAssumption DEF ListInv, ListTypeOK
<1>1. /\ count \in 1..Capacity
      /\ first = order[1] /\ first \in Nodes
      /\ next[first] = IF count = 1 THEN Nil ELSE order[2]
  BY DEF unlinkFirst, WellLinked, EndsOK, LinksOK, Pointer
<1>2. /\ item' = [item EXCEPT ![first] = Nil]
      /\ next' = [next EXCEPT ![first] = first]
      /\ first' = next[first]
      /\ last' = IF next[first] = Nil THEN Nil ELSE last
      /\ prev' = IF next[first] = Nil THEN prev ELSE [prev EXCEPT ![next[first]] = Nil]
      /\ count' = count - 1
      /\ alloc' = alloc
      /\ order' = DropAt(1)
  BY DEF unlinkFirst
<1>3. /\ order' \in [1..count' -> alloc']
      /\ \A i \in 1..count' : order'[i] = order[i + 1]
  BY <1>1, <1>2 DEF DropAt
<1>4. \A i \in 1..count : order[i] \in Nodes /\ order[i] # Nil
  OBVIOUS
<1>5. \A i, j \in 1..count : order[i] = order[j] => i = j
  BY DEF WellLinked, LinksOK
<1>6. ListTypeOK'
  BY <1>1, <1>2, <1>3 DEF Pointer
<1>7. EndsOK'
  <2>1. CASE count = 1
    BY <1>1, <1>2, <2>1 DEF EndsOK
  <2>2. CASE count > 1
    <3>1. 2 \in 1..count /\ order[2] # Nil
      BY <1>1, <1>4, <2>2
    <3>2. first' = order[2] /\ last' = order[count]
      BY <1>1, <1>2, <2>2, <3>1 DEF WellLinked, EndsOK
    <3>a. 1 \in 1..count' /\ count' \in 1..count' /\ count' + 1 = count
      BY <1>1, <1>2, <2>2
    <3>b. order'[1] = order[1 + 1] /\ order'[count'] = order[count' + 1]
      BY <1>3, <3>a
    <3>3. order'[1] = order[2] /\ order'[count'] = order[count]
      BY <3>a, <3>b
    <3> QED
      BY <1>1, <1>2, <2>2, <3>2, <3>3 DEF EndsOK
  <2> QED
    BY <1>1, <2>1, <2>2
<1>8. LinksOK'
  <2>1. \A i, j \in 1..count' : order'[i] = order'[j] => i = j
    <3> SUFFICES ASSUME NEW i \in 1..count', NEW j \in 1..count', order'[i] = order'[j]
                 PROVE  i = j
      OBVIOUS
    <3>1. i + 1 \in 1..count /\ j + 1 \in 1..count /\ order[i + 1] = order[j + 1]
      BY <1>1, <1>2, <1>3
    <3>2. i + 1 = j + 1
      BY <3>1, <1>5
    <3> QED
      BY <3>2, <1>1, <1>2
  <2>2. ASSUME NEW i \in 1..count'
        PROVE  /\ prev'[order'[i]] = IF i = 1 THEN Nil ELSE order'[i - 1]
               /\ next'[order'[i]] = IF i = count' THEN Nil ELSE order'[i + 1]
    <3>0. i + 1 \in 2..count /\ 1 \in 1..count /\ i + 1 \in 1..count /\ i + 1 # 1
      BY <1>1, <1>2
    <3>1. i + 1 \in 2..count /\ order'[i] = order[i + 1] /\ order[i + 1] # first
      <4>1. order[i + 1] # order[1]
        BY <1>5, <3>0
      <4> QED
        BY <1>1, <1>3, <3>0, <4>1
    <3> DEFINE k == i + 1
    <3>a. /\ prev[order[k]] = IF k = 1 THEN Nil ELSE order[k - 1]
          /\ next[order[k]] = IF k = count THEN Nil ELSE order[k + 1]
      BY <1>1, <3>1 DEF WellLinked, LinksOK
    <3>b. next'[order'[i]] = next[order[k]]
      BY <1>2, <1>4, <3>1, <1>1
    <3>2. next'[order'[i]] = IF i = count' THEN Nil ELSE order'[i + 1]
      BY <1>1, <1>2, <1>3, <3>1, <3>a, <3>b
    <3>3. CASE i = 1
      BY <1>1, <1>2, <1>3, <1>4, <3>1, <3>2, <3>3
    <3>4. CASE i > 1
      <4>1. order[i + 1] # order[2]
        BY <1>1, <1>5, <3>1, <3>4
      <4>2. prev'[order'[i]] = prev[order[i + 1]]
        BY <1>1, <1>2, <1>4, <3>1, <4>1
      <4>3. prev[order[k]] = order[i] /\ order'[i - 1] = order[i]
        <5>1. k # 1 /\ k - 1 = i
          BY <1>1, <1>2, <3>4
        <5>2. i - 1 \in 1..count' /\ (i - 1) + 1 = i
          BY <1>1, <1>2, <3>4
        <5>3. order'[i - 1] = order[(i - 1) + 1]
          BY <1>3, <5>2
        <5> QED
          BY <3>a, <5>1, <5>2, <5>3
      <4>4. prev'[order'[i]] = order'[i - 1]
        BY <4>2, <4>3
      <4> QED
        BY <3>2, <3>4, <4>4
    <3> QED
      BY <3>3, <3>4, <1>1, <1>2
  <2> QED
    BY <2>1, <2>2 DEF LinksOK
<1>9. ItemsOK'
  <2>1. ASSUME NEW n \in Nodes
        PROVE  (\E i \in 1..count' : order'[i] = n)
                 <=> n # first /\ \E i \in 1..count : order[i] = n
    <3>1. ASSUME NEW i \in 1..count, order[i] = n, n # first
          PROVE  \E j \in 1..count' : order'[j] = n
      <4>1. i - 1 \in 1..count' /\ order'[i - 1] = n
        BY <1>1, <1>2, <1>3, <3>1
      <4> QED
        BY <4>1
    <3>2. ASSUME NEW j \in 1..count', order'[j] = n
          PROVE  n # first /\ \E i \in 1..count : order[i] = n
      <4>a. j + 1 \in 1..count /\ 1 \in 1..count /\ j + 1 # 1
        BY <1>1, <1>2
      <4>b. order[j + 1] # order[1]
        BY <1>5, <4>a
      <4>1. j + 1 \in 1..count /\ order[j + 1] = n /\ n # first
        BY <1>1, <1>3, <3>2, <4>a, <4>b
      <4> QED
        BY <4>1
    <3> QED
      BY <3>1, <3>2
  <2> QED
    BY <1>1, <1>2, <2>1 DEF WellLinked, ItemsOK
<1> QED
  BY <1>6, <1>7, <1>8, <1>9 DEF WellLinked

\* unlinkLast keeps the list well linked: the other nodes stay in place.
LEMMA UnlinkLastOK ==
  ASSUME ListInv, NEW w, unlinkLast(w)
  PROVE  ListInv'
<1> USE DequeAssumption DEF ListInv, ListTypeOK
<1>1. /\ count \in 1..Capacity
      /\ last = order[count] /\ last \in Nodes
      /\ prev[last] = IF count = 1 THEN Nil ELSE order[count - 1]
  BY DEF unlinkLast, WellLinked, EndsOK, LinksOK, Pointer
<1>2. /\ item' = [item EXCEPT ![last] = Nil]
      /\ prev' = [prev EXCEPT ![last] = last]
      /\ last' = prev[last]
      /\ first' = IF prev[last] = Nil THEN Nil ELSE first
      /\ next' = IF prev[last] = Nil THEN next ELSE [next EXCEPT ![prev[last]] = Nil]
      /\ count' = count - 1
      /\ alloc' = alloc
      /\ order' = DropAt(count)
  BY DEF unlinkLast
<1>3. /\ order' \in [1..count' -> alloc']
      /\ \A i \in 1..count' : order'[i] = order[i]
  BY <1>1, <1>2 DEF DropAt
<1>4. \A i \in 1..count : order[i] \in Nodes /\ order[i] # Nil
  OBVIOUS
<1>5. \A i, j \in 1..count : order[i] = order[j] => i = j
  BY DEF WellLinked, LinksOK
<1>6. ListTypeOK'
  BY <1>1, <1>2, <1>3 DEF Pointer
<1>7. EndsOK'
  BY <1>1, <1>2, <1>3, <1>4 DEF WellLinked, EndsOK
<1>8. LinksOK'
  <2>1. \A i, j \in 1..count' : order'[i] = order'[j] => i = j
    BY <1>1, <1>2, <1>3, <1>5
  <2>2. ASSUME NEW i \in 1..count'
        PROVE  /\ prev'[order'[i]] = IF i = 1 THEN Nil ELSE order'[i - 1]
               /\ next'[order'[i]] = IF i = count' THEN Nil ELSE order'[i + 1]
    <3>1. i \in 1..(count - 1) /\ order'[i] = order[i] /\ order[i] # last
      BY <1>1, <1>2, <1>3, <1>5
    <3>2. prev'[order'[i]] = IF i = 1 THEN Nil ELSE order'[i - 1]
      BY <1>1, <1>2, <1>3, <1>4, <3>1 DEF WellLinked, LinksOK
    <3>3. CASE i = count'
      BY <1>1, <1>2, <1>3, <1>4, <3>1, <3>2, <3>3
    <3>4. CASE i < count'
      <4>1. order[i] # order[count - 1]
        BY <1>1, <1>2, <1>5, <3>1, <3>4
      <4>2. next'[order'[i]] = next[order[i]]
        BY <1>1, <1>2, <1>4, <3>1, <4>1
      <4> QED
        BY <1>1, <1>2, <1>3, <3>1, <3>2, <3>4, <4>2 DEF WellLinked, LinksOK
    <3> QED
      BY <3>3, <3>4, <1>1, <1>2
  <2> QED
    BY <2>1, <2>2 DEF LinksOK
<1>9. ItemsOK'
  <2>1. ASSUME NEW n \in Nodes
        PROVE  (\E i \in 1..count' : order'[i] = n)
                 <=> n # last /\ \E i \in 1..count : order[i] = n
    BY <1>1, <1>2, <1>3, <1>5
  <2> QED
    BY <1>1, <1>2, <2>1 DEF WellLinked, ItemsOK
<1> QED
  BY <1>6, <1>7, <1>8, <1>9 DEF WellLinked

\* A node occurs once, so dropping it is dropping its position.
LEMMA DropNodeIsDropAt ==
  ASSUME ListInv, NEW m \in 1..count
  PROVE  \A j \in 1..(count - 1) :
           DropNode(order[m])[j] = IF j < m THEN order[j] ELSE order[j + 1]
<1> SUFFICES ASSUME NEW j \in 1..(count - 1)
             PROVE  (\E k \in 1..j : order[k] = order[m]) <=> ~(j < m)
  BY DEF DropNode
<1>1. \A k \in 1..count : order[k] = order[m] => k = m
  BY DEF ListInv, WellLinked, LinksOK
<1>2. count \in Nat /\ \A k \in 1..j : k \in 1..count
  BY DEF ListInv, ListTypeOK
<1>3. ASSUME NEW k \in 1..j, order[k] = order[m] PROVE ~(j < m)
  BY <1>1, <1>2, <1>3
<1>4. ASSUME ~(j < m) PROVE m \in 1..j
  BY <1>2, <1>4
<1> QED
  BY <1>3, <1>4

\* The last branch of unlink: a node between two others is bypassed.
LEMMA UnlinkMiddleOK ==
  ASSUME ListInv, NEW m \in 1..count,
         prev[order[m]] # Nil, next[order[m]] # Nil, unlinkMiddle(order[m])
  PROVE  ListInv'
<1> USE DequeAssumption DEF ListInv, ListTypeOK
<1> DEFINE x == order[m]
           p == order[m - 1]
           n == order[m + 1]
<1>1. m \in 2..(count - 1) /\ prev[x] = p /\ next[x] = n
  BY DEF WellLinked, LinksOK
<1>2. /\ item' = [item EXCEPT ![x] = Nil]
      /\ next' = [next EXCEPT ![p] = n]
      /\ prev' = [prev EXCEPT ![n] = p]
      /\ first' = first /\ last' = last
      /\ count' = count - 1
      /\ alloc' = alloc
      /\ order' = DropNode(x)
  BY <1>1 DEF unlinkMiddle
<1>3. \A j \in 1..count' : order'[j] = IF j < m THEN order[j] ELSE order[j + 1]
  BY <1>2, DropNodeIsDropAt
<1>4. \A i \in 1..count : order[i] \in alloc /\ order[i] \in Nodes /\ order[i] # Nil
  OBVIOUS
<1>5. \A i, j \in 1..count : order[i] = order[j] => i = j
  BY DEF WellLinked, LinksOK
<1>6. count \in Nat /\ count' \in 2..(Capacity - 1)
  BY <1>1, <1>2
<1>7. x \in Nodes /\ p \in Nodes /\ n \in Nodes
  BY <1>1, <1>4, <1>6
<1>8. order' \in [1..count' -> alloc']
  <2>1. order' = [j \in 1..count' |-> order'[j]]
    BY <1>2 DEF DropNode
  <2>2. \A j \in 1..count' : order'[j] \in alloc
    <3> SUFFICES ASSUME NEW j \in 1..count' PROVE order'[j] \in alloc
      OBVIOUS
    <3>1. j \in 1..count /\ j + 1 \in 1..count
      BY <1>2, <1>6
    <3> QED
      BY <1>3, <1>4, <3>1
  <2> QED
    BY <1>2, <2>1, <2>2
<1>9. ListTypeOK'
  BY <1>2, <1>6, <1>7, <1>8 DEF Pointer
<1>10. EndsOK'
  <2>1. order'[1] = order[1]
    BY <1>1, <1>3, <1>6
  <2>2. order'[count'] = order[count]
    <3>1. ~(count' < m) /\ count' \in 1..count' /\ count' + 1 = count
      BY <1>1, <1>2, <1>6
    <3> QED
      BY <1>3, <3>1
  <2> QED
    BY <1>1, <1>2, <1>6, <2>1, <2>2 DEF WellLinked, EndsOK
\* The position in the old list of what is at position i in the new one.
<1> DEFINE at(i) == IF i < m THEN i ELSE i + 1
<1>11. \A i \in 1..count' : at(i) \in 1..count /\ at(i) # m /\ order'[i] = order[at(i)]
  BY <1>1, <1>2, <1>3, <1>6
<1>12. LinksOK'
  <2>1. ASSUME NEW i \in 1..count', NEW j \in 1..count', order'[i] = order'[j]
        PROVE  i = j
    <3>1. at(i) = at(j)
      BY <1>5, <1>11, <2>1
    <3> QED
      BY <1>6, <3>1
  <2>2. ASSUME NEW i \in 1..count'
        PROVE  prev'[order'[i]] = IF i = 1 THEN Nil ELSE order'[i - 1]
    <3> DEFINE k == at(i)
    <3>1. k \in 1..count /\ k # m /\ order'[i] = order[k] /\ order[k] \in Nodes
      BY <1>4, <1>11
    <3>2. prev[order[k]] = IF k = 1 THEN Nil ELSE order[k - 1]
      BY <3>1 DEF WellLinked, LinksOK
    <3>3. CASE k = m + 1
      <4>1. i = m
        BY <1>1, <1>6, <3>3
      <4>2. i # 1 /\ i - 1 = m - 1 /\ i - 1 \in 1..count' /\ i - 1 < m
        BY <1>1, <1>6, <4>1
      <4>3. order'[i - 1] = p
        BY <1>3, <4>2
      <4>4. prev'[order'[i]] = p
        BY <1>2, <1>7, <3>1, <3>3
      <4> QED
        BY <4>2, <4>3, <4>4
    <3>4. CASE k # m + 1
      <4>1. order[k] # n
        BY <1>1, <1>5, <1>6, <3>1, <3>4
      <4>2. prev'[order'[i]] = prev[order[k]]
        BY <1>2, <1>7, <3>1, <4>1
      <4>3. CASE i = 1
        BY <1>1, <3>2, <4>2, <4>3
      <4>4. CASE i # 1
        <5>1. i - 1 \in 1..count' /\ k # 1 /\ at(i - 1) = k - 1
          BY <1>1, <1>6, <3>4, <4>4
        <5>2. order'[i - 1] = order[k - 1]
          BY <1>11, <5>1
        <5> QED
          BY <3>2, <4>2, <4>4, <5>1, <5>2
      <4> QED
        BY <4>3, <4>4
    <3> QED
      BY <3>3, <3>4
  <2>3. ASSUME NEW i \in 1..count'
        PROVE  next'[order'[i]] = IF i = count' THEN Nil ELSE order'[i + 1]
    <3> DEFINE k == at(i)
    <3>1. k \in 1..count /\ k # m /\ order'[i] = order[k] /\ order[k] \in Nodes
      BY <1>4, <1>11
    <3>2. next[order[k]] = IF k = count THEN Nil ELSE order[k + 1]
      BY <3>1 DEF WellLinked, LinksOK
    <3>3. CASE k = m - 1
      <4>1. i = m - 1 /\ i # count' /\ i + 1 = m /\ i + 1 \in 1..count' /\ ~(i + 1 < m)
        BY <1>1, <1>2, <1>6, <3>3
      <4>2. order'[i + 1] = n
        BY <1>3, <4>1
      <4>3. next'[order'[i]] = n
        BY <1>2, <1>7, <3>1, <3>3
      <4> QED
        BY <4>1, <4>2, <4>3
    <3>4. CASE k # m - 1
      <4>1. order[k] # p
        BY <1>1, <1>5, <1>6, <3>1, <3>4
      <4>2. next'[order'[i]] = next[order[k]]
        BY <1>2, <1>7, <3>1, <4>1
      <4>3. CASE i = count'
        BY <1>1, <1>2, <1>6, <3>2, <4>2, <4>3
      <4>4. CASE i # count'
        <5>1. i + 1 \in 1..count' /\ k # count /\ at(i + 1) = k + 1
          BY <1>1, <1>2, <1>6, <3>4, <4>4
        <5>2. order'[i + 1] = order[k + 1]
          BY <1>11, <5>1
        <5> QED
          BY <3>2, <4>2, <4>4, <5>1, <5>2
      <4> QED
        BY <4>3, <4>4
    <3> QED
      BY <3>3, <3>4
  <2> QED
    BY <2>1, <2>2, <2>3 DEF LinksOK
<1>13. ItemsOK'
  <2>1. ASSUME NEW y \in Nodes
        PROVE  (\E i \in 1..count' : order'[i] = y)
                 <=> y # x /\ \E i \in 1..count : order[i] = y
    <3>1. ASSUME NEW i \in 1..count', order'[i] = y
          PROVE  y # x /\ \E j \in 1..count : order[j] = y
      BY <1>5, <1>11, <3>1
    <3>2. ASSUME NEW j \in 1..count, order[j] = y, y # x
          PROVE  \E i \in 1..count' : order'[i] = y
      <4>1. CASE j < m
        <5>1. j \in 1..count' /\ at(j) = j
          BY <1>1, <1>2, <1>6, <4>1
        <5> QED
          BY <1>11, <3>2, <5>1
      <4>2. CASE j > m
        <5>1. j - 1 \in 1..count' /\ at(j - 1) = j
          BY <1>1, <1>2, <1>6, <4>2
        <5> QED
          BY <1>11, <3>2, <5>1
      <4> QED
        BY <1>6, <3>2, <4>1, <4>2
    <3> QED
      BY <3>1, <3>2
  <2> QED
    BY <1>2, <1>7, <2>1 DEF WellLinked, ItemsOK
<1> QED
  BY <1>9, <1>10, <1>12, <1>13 DEF WellLinked

\* unlink, for a node that still has its item, as all its callers ensure.
LEMMA UnlinkOK ==
  ASSUME ListInv, NEW x \in Nodes, item[x] # Nil, unlink(x)
  PROVE  ListInv'
<1>1. PICK m \in 1..count : order[m] = x
  BY DEF ListInv, WellLinked, ItemsOK
<1>2. CASE unlinkFirst(wait)
  BY <1>2, UnlinkFirstOK
<1>3. CASE unlinkLast(wait)
  BY <1>3, UnlinkLastOK
<1>4. CASE prev[x] # Nil /\ next[x] # Nil /\ unlinkMiddle(x)
  BY <1>1, <1>4, UnlinkMiddleOK
<1> QED
  BY <1>2, <1>3, <1>4 DEF unlink

\* A step that leaves the list alone keeps it well linked.
LEMMA ListStutter == ASSUME ListInv, UNCHANGED listVars PROVE ListInv'
BY DEF ListInv, ListTypeOK, WellLinked, EndsOK, LinksOK, ItemsOK, listVars

\* One pass of the loop of PutFirst and PutLast.
LEMMA PutLoopOK ==
  ASSUME ListInv, NEW g, NEW o, NEW e \in Elems, NEW hw, NEW w, PutLoop(g, o, e, hw, w)
  PROVE  ListInv'
BY LinkFirstOK, LinkLastOK, ListStutter DEF PutLoop, Block

\* One pass of the loop of the calls that take.
LEMMA TakeLoopOK ==
  ASSUME ListInv, NEW g, NEW o, NEW intr, NEW hw, NEW w, TakeLoop(g, o, intr, hw, w)
  PROVE  ListInv'
BY UnlinkFirstOK, UnlinkLastOK, ListStutter DEF TakeLoop, Block

\* Every step of the deque keeps the list well linked.
LEMMA ListStep ==
  ASSUME ListInv, CallTypeOK, [Next]_vars
  PROVE  ListInv'
<1> USE DequeAssumption
<1>1. ASSUME NEW e \in Elems \cup {Nil},
             OfferFirst(e) \/ OfferLast(e) \/ AddFirst(e) \/ AddLast(e)
      PROVE  ListInv'
  BY <1>1, LinkFirstOK, LinkLastOK, ListStutter DEF OfferFirst, OfferLast, AddFirst, AddLast
<1>2. ASSUME NEW e \in Elems \cup {Nil}, RemoveFirstOccurrence(e) \/ RemoveLastOccurrence(e)
      PROVE  ListInv'
  <2>1. ASSUME NEW i \in Occurrences(e), unlink(order[i]) PROVE ListInv'
    <3>1. i \in 1..count /\ order[i] \in Nodes
      BY DEF Occurrences, ListInv, ListTypeOK
    <3>2. item[order[i]] # Nil
      BY <3>1 DEF ListInv, WellLinked, ItemsOK
    <3> QED
      BY <2>1, <3>1, <3>2, UnlinkOK
  <2> QED
    BY <1>2, <2>1, ListStutter DEF RemoveFirstOccurrence, RemoveLastOccurrence
<1>3. CASE PollFirst \/ PollLast
  BY <1>3, UnlinkFirstOK, UnlinkLastOK, ListStutter DEF PollFirst, PollLast
<1>4. CASE InterruptTakeWaiters
  BY <1>4, ListStutter DEF InterruptTakeWaiters
<1>5. ASSUME NEW x \in Nodes, IteratorRemove(x) PROVE ListInv'
  BY <1>5, UnlinkOK DEF IteratorRemove
<1>6. ASSUME NEW g \in Goroutines, NEW o \in PutOps, NEW e \in Elems \cup {Nil}, CallPut(g, o, e)
      PROVE  ListInv'
  BY <1>6, PutLoopOK, ListStutter DEF CallPut
<1>7. ASSUME NEW g \in Goroutines, NEW o \in TakeOps, CallTake(g, o) PROVE ListInv'
  BY <1>7, TakeLoopOK DEF CallTake
<1>8. ASSUME NEW g \in Goroutines, Resume(g) PROVE ListInv'
  <2>1. op[g] \in PutOps => arg[g] \in Elems
    BY DEF CallTypeOK
  <2> QED
    BY <1>8, <2>1, PutLoopOK, TakeLoopOK DEF Resume
<1>9. ASSUME NEW g \in Goroutines, WaitStep(g) \/ CancelContext(g) PROVE ListInv'
  BY <1>9, ListStutter DEF WaitStep, CancelContext
<1>10. CASE UNCHANGED vars
  BY <1>10, ListStutter DEF vars
<1> QED
  BY <1>1, <1>2, <1>3, <1>4, <1>5, <1>6, <1>7, <1>8, <1>9, <1>10 DEF Next

-----------------------------------------------------------------------------
(***************************************************************************)
(* Calls and conditions.                                                   *)
(***************************************************************************)
\* The waiting state of a goroutine whose select returns is well typed,
LEMMA WokenRecord ==
  ASSUME NEW r \in WaitRecord, r.st # "out", NEW i \in BOOLEAN
  PROVE  [r EXCEPT !.st = "woken", !.interrupted = i] \in WaitRecord
<1>1. r \in [st : WaitStates \ {"out"}, on : Conds, ch : Nat, interrupted : BOOLEAN]
  BY DEF WaitRecord, Out
<1>2. "woken" \in WaitStates \ {"out"}
  BY DEF WaitStates
<1> HIDE DEF WaitStates
<1>3. [r EXCEPT !.st = "woken", !.interrupted = i]
        \in [st : WaitStates \ {"out"}, on : Conds, ch : Nat, interrupted : BOOLEAN]
  BY <1>1, <1>2
<1> QED
  BY <1>3 DEF WaitRecord

\* and so are the waiting states after a wake-up,
LEMMA WakeType ==
  ASSUME NEW w \in Waits, NEW g \in Goroutines, w[g].st # "out", NEW i \in BOOLEAN
  PROVE  Wake(w, g, i) \in Waits
<1>1. w[g] \in WaitRecord
  BY DEF Waits
<1>2. [w[g] EXCEPT !.st = "woken", !.interrupted = i] \in WaitRecord
  BY <1>1, WokenRecord
<1> QED
  BY <1>2 DEF Waits, Wake

\* after Signal,
LEMMA SignalType ==
  ASSUME NEW c, NEW w \in Waits, NEW v \in Signal(c, w)
  PROVE  v \in Waits
BY WakeType DEF Signal, Parked

\* after linkFirst and linkLast, which signal notEmpty,
LEMMA LinkWait ==
  ASSUME NEW e, NEW w \in Waits, linkFirst(e, w) \/ linkLast(e, w)
  PROVE  wait' \in Waits
BY SignalType DEF linkFirst, linkLast

\* after unlinkFirst and unlinkLast, which signal notFull,
LEMMA UnlinkEndWait ==
  ASSUME NEW w \in Waits, unlinkFirst(w) \/ unlinkLast(w)
  PROVE  wait' \in Waits
BY SignalType DEF unlinkFirst, unlinkLast

\* and after unlink.
LEMMA UnlinkWait ==
  ASSUME CallTypeOK, NEW x, unlink(x)
  PROVE  wait' \in Waits
BY UnlinkEndWait, SignalType DEF CallTypeOK, Waits, unlink, unlinkMiddle

\* A call that does not block changes no type when it keeps those of wait.
LEMMA ReturnsType ==
  ASSUME CallTypeOK, NEW o, NEW e, NEW r, Returns(o, e, r), wait' \in Waits
  PROVE  CallTypeOK'
BY DEF CallTypeOK, Returns, Waits

\* A blocking call that returns.
LEMMA FinishType ==
  ASSUME CallTypeOK, NEW g \in Goroutines, NEW o, NEW e, NEW r, Finish(g, o, e, r),
         wait' \in Waits, hasWaiters' \in [Conds -> Int]
  PROVE  CallTypeOK'
BY DEF CallTypeOK, Finish, Waits, PutOps

\* A blocking call that goes to wait.
LEMMA BlockType ==
  ASSUME CallTypeOK, NEW g \in Goroutines, NEW o \in PutOps \cup TakeOps,
         NEW e \in Elems \cup {Nil}, o \in PutOps => e # Nil, NEW c \in Conds,
         NEW hw \in [Conds -> Int], NEW w \in Waits, Block(g, o, e, c, hw, w)
  PROVE  CallTypeOK'
<1>1. hasWaiters' \in [Conds -> Int]
  BY DEF Block, StartWait, AddWaiter
<1>2. wait' \in Waits
  BY DEF Block, StartWait, Waits, WaitRecord, WaitStates, CallTypeOK
<1> QED
  BY <1>1, <1>2 DEF CallTypeOK, Block, Waits

\* One pass of the loop of PutFirst and PutLast, for the types.
LEMMA PutLoopType ==
  ASSUME CallTypeOK, NEW g \in Goroutines, NEW o \in PutOps, NEW e \in Elems,
         NEW hw \in [Conds -> Int], NEW w \in Waits, PutLoop(g, o, e, hw, w)
  PROVE  CallTypeOK'
<1> USE DequeAssumption
<1>1. CASE /\ linkFirst(e, w) \/ linkLast(e, w)
           /\ hasWaiters' = hw
           /\ Finish(g, o, e, "ok")
  BY <1>1, LinkWait, FinishType
<1>2. CASE Block(g, o, e, "notFull", hw, w)
  BY <1>2, BlockType
<1> QED
  BY <1>1, <1>2 DEF PutLoop

\* One pass of the loop of the calls that take, for the types.
LEMMA TakeLoopType ==
  ASSUME CallTypeOK, NEW g \in Goroutines, NEW o \in TakeOps, NEW intr,
         NEW hw \in [Conds -> Int], NEW w \in Waits, TakeLoop(g, o, intr, hw, w)
  PROVE  CallTypeOK'
<1> USE DequeAssumption
<1>1. CASE \E r : /\ unlinkFirst(w) \/ unlinkLast(w)
                  /\ hasWaiters' = hw
                  /\ Finish(g, o, Nil, r)
  BY <1>1, UnlinkEndWait, FinishType
<1>2. CASE \E r : Finish(g, o, Nil, r) /\ hasWaiters' = hw /\ wait' = w
  BY <1>2, FinishType
<1>3. CASE Block(g, o, Nil, "notEmpty", hw, w)
  <2>1. o \notin PutOps
    BY DEF PutOps, TakeOps, PollOps
  <2> QED
    BY <1>3, <2>1, BlockType
<1> QED
  BY <1>1, <1>2, <1>3 DEF TakeLoop

\* Every step of the deque keeps the types of the calls and conditions.
LEMMA CallStep ==
  ASSUME CallTypeOK, [Next]_vars
  PROVE  CallTypeOK'
<1> USE DequeAssumption
<1>0. wait \in Waits /\ hasWaiters \in [Conds -> Int]
  BY DEF CallTypeOK, Waits
<1>1. ASSUME NEW e \in Elems \cup {Nil},
             OfferFirst(e) \/ OfferLast(e) \/ AddFirst(e) \/ AddLast(e)
      PROVE  CallTypeOK'
  <2>1. wait' \in Waits
    BY <1>0, <1>1, LinkWait DEF OfferFirst, OfferLast, AddFirst, AddLast
  <2> QED
    BY <1>1, <2>1, ReturnsType DEF OfferFirst, OfferLast, AddFirst, AddLast
<1>2. ASSUME NEW e \in Elems \cup {Nil}, RemoveFirstOccurrence(e) \/ RemoveLastOccurrence(e)
      PROVE  CallTypeOK'
  <2>1. wait' \in Waits
    BY <1>0, <1>2, UnlinkWait DEF RemoveFirstOccurrence, RemoveLastOccurrence
  <2> QED
    BY <1>2, <2>1, ReturnsType DEF RemoveFirstOccurrence, RemoveLastOccurrence
<1>3. CASE PollFirst \/ PollLast
  <2>1. wait' \in Waits
    BY <1>0, <1>3, UnlinkEndWait DEF PollFirst, PollLast
  <2> QED
    BY <1>3, <2>1, ReturnsType DEF PollFirst, PollLast
<1>4. CASE InterruptTakeWaiters
  <2>1. wait' \in Waits
    <3>1. \A g \in Parked("notEmpty", wait) :
            [wait[g] EXCEPT !.st = "woken", !.interrupted = TRUE] \in WaitRecord
      BY <1>0, WokenRecord DEF Parked, Waits
    <3> QED
      BY <1>0, <1>4, <3>1 DEF InterruptTakeWaiters, Interrupt, Waits
  <2>2. signal' \in [Conds -> Nat]
    <3>1. signal \in [Conds -> Nat] /\ signal["notEmpty"] + 1 \in Nat
      BY DEF CallTypeOK
    <3> QED
      BY <1>4, <3>1 DEF InterruptTakeWaiters, Interrupt
  <2> QED
    BY <1>4, <2>1, <2>2 DEF InterruptTakeWaiters, Interrupt, CallTypeOK, Waits
<1>5. ASSUME NEW x \in Nodes, IteratorRemove(x) PROVE CallTypeOK'
  BY <1>5, UnlinkWait, ReturnsType DEF IteratorRemove
<1>6. ASSUME NEW g \in Goroutines, NEW o \in PutOps, NEW e \in Elems \cup {Nil}, CallPut(g, o, e)
      PROVE  CallTypeOK'
  BY <1>0, <1>6, PutLoopType, FinishType DEF CallPut
<1>7. ASSUME NEW g \in Goroutines, NEW o \in TakeOps, CallTake(g, o) PROVE CallTypeOK'
  BY <1>0, <1>7, TakeLoopType DEF CallTake
<1>8. ASSUME NEW g \in Goroutines, Resume(g) PROVE CallTypeOK'
  <2> DEFINE hw == RemoveWaiter(g, hasWaiters)
             w  == [wait EXCEPT ![g] = Out]
  <2>1. w \in Waits
    BY <1>0 DEF Waits, WaitRecord
  <2>2. hw \in [Conds -> Int]
    <3>1. wait[g].on \in Conds
      BY <1>0, <1>8 DEF Resume, Waits, WaitRecord, Out
    <3> QED
      BY <1>0, <3>1 DEF RemoveWaiter
  <2>3. op[g] \in PutOps => arg[g] \in Elems
    BY DEF CallTypeOK
  <2> HIDE DEF hw, w
  <2>4. CASE op[g] \in PutOps /\ PutLoop(g, op[g], arg[g], hw, w)
    BY <2>1, <2>2, <2>3, <2>4, PutLoopType
  <2>5. CASE op[g] \in TakeOps /\ TakeLoop(g, op[g], wait[g].interrupted, hw, w)
    BY <2>1, <2>2, <2>5, TakeLoopType
  <2> QED
    BY <1>8, <2>4, <2>5 DEF Resume, hw, w
<1>9. ASSUME NEW g \in Goroutines, WaitStep(g) \/ CancelContext(g) PROVE CallTypeOK'
  <2>1. wait' \in Waits
    <3>1. CASE wait' = [wait EXCEPT ![g].st = "parked"] /\ wait[g].st = "unlocked"
      BY <1>0, <3>1 DEF Waits, WaitRecord, Out, WaitStates
    <3>2. CASE \E i \in BOOLEAN : wait' = Wake(wait, g, i) /\ wait[g].st # "out"
      BY <1>0, <3>2, WakeType
    <3>3. CASE wait' = wait
      BY <1>0, <3>3
    <3> QED
      BY <1>9, <3>1, <3>2, <3>3 DEF WaitStep, CancelContext, Select, ContextDone
  <2> QED
    BY <1>9, <2>1 DEF WaitStep, CancelContext, Select, ContextDone, CallTypeOK, Waits
<1>10. CASE UNCHANGED vars
  BY <1>10 DEF vars, condVars, CallTypeOK
<1> QED
  BY <1>1, <1>2, <1>3, <1>4, <1>5, <1>6, <1>7, <1>8, <1>9, <1>10 DEF Next

-----------------------------------------------------------------------------
\* The inductive invariant of the deque.
Inv == ListInv /\ CallTypeOK

\* The new deque satisfies the invariant.
LEMMA InitOK == Init => Inv
<1> SUFFICES ASSUME Init PROVE Inv
  OBVIOUS
<1> USE DequeAssumption DEF Init
<1>1. ListTypeOK
  BY DEF ListTypeOK, Pointer
<1>2. WellLinked
  BY DEF WellLinked, EndsOK, LinksOK, ItemsOK
<1>3. CallTypeOK
  BY DEF CallTypeOK, CondInit, WaitRecord, PutOps
<1> QED
  BY <1>1, <1>2, <1>3 DEF Inv, ListInv

\* The invariant holds for ever: each step preserves it.
LEMMA InvInductive == Spec => []Inv
<1>1. Inv /\ [Next]_vars => Inv'
  BY ListStep, CallStep DEF Inv
<1> QED
  BY InitOK, <1>1, PTL DEF Spec

(***************************************************************************)
(* The type invariant: in particular the deque never holds more elements   *)
(* than its capacity, whatever calls interleave.                           *)
(***************************************************************************)
THEOREM TypeCorrect == Spec => []TypeOK
<1>1. Inv => TypeOK
  BY DEF Inv, ListInv, TypeOK
<1> QED
  BY <1>1, InvInductive, PTL

(***************************************************************************)
(* The list is well linked after every critical section.                   *)
(***************************************************************************)
THEOREM AlwaysWellLinked == Spec => []WellLinked
<1>1. Inv => WellLinked
  BY DEF Inv, ListInv
<1> QED
  BY <1>1, InvInductive, PTL

-----------------------------------------------------------------------------
(***************************************************************************)
(* Who waits.  The operators take the waiting states w as a parameter:     *)
(* a goroutine that returns from Wait leaves it and may signal, or enter   *)
(* Wait again, in the same critical section.                               *)
(***************************************************************************)
WaitersOf(c, w) == {g \in Goroutines : w[g].st # "out" /\ w[g].on = c}

Counted(hw, w) == \A c \in Conds : hw[c] = Cardinality(WaitersOf(c, w))

\* g is in Wait exactly while it is in a blocking call, on the condition of
\* that call, and blocks on no closed channel.
Waiter(g, w) ==
  /\ op[g] = "idle" <=> w[g].st = "out"
  /\ w[g].st # "out" =>
       w[g].on = IF op[g] \in PutOps THEN "notFull" ELSE "notEmpty"
  /\ w[g].st = "parked" => w[g].ch = signal[w[g].on]

WaitInv == Counted(hasWaiters, wait) /\ \A g \in Goroutines : Waiter(g, wait)

\* The waiting states v are those of w but for goroutines that were woken.
OnlyWoken(v, w) ==
  \A g \in Goroutines :
    /\ v[g].st = "out" <=> w[g].st = "out"
    /\ v[g].on = w[g].on /\ v[g].ch = w[g].ch
    /\ v[g].st = "parked" => w[g].st = "parked"

\* A woken goroutine is still in Wait, on the same condition,
LEMMA WokenFields ==
  ASSUME NEW r \in WaitRecord, r.st # "out", NEW i \in BOOLEAN
  PROVE  LET q == [r EXCEPT !.st = "woken", !.interrupted = i]
         IN q.st = "woken" /\ q.on = r.on /\ q.ch = r.ch
<1>1. r \in [st : WaitStates \ {"out"}, on : Conds, ch : Nat, interrupted : BOOLEAN]
  BY DEF WaitRecord, Out
<1> HIDE DEF WaitStates
<1> QED
  BY <1>1

LEMMA WakeOnlyWakes ==
  ASSUME NEW w \in Waits, NEW g \in Goroutines, w[g].st # "out", NEW i \in BOOLEAN
  PROVE  OnlyWoken(Wake(w, g, i), w)
<1>1. w[g] \in WaitRecord
  BY DEF Waits
<1> DEFINE q == [w[g] EXCEPT !.st = "woken", !.interrupted = i]
<1>2. q.st = "woken" /\ q.on = w[g].on /\ q.ch = w[g].ch
  BY <1>1, WokenFields
<1> HIDE DEF q
<1>3. Wake(w, g, i) = [w EXCEPT ![g] = q]
  BY DEF Wake, q
<1>4. \A h \in Goroutines : Wake(w, g, i)[h] = IF h = g THEN q ELSE w[h]
  BY <1>3 DEF Waits
<1> QED
  BY <1>2, <1>4 DEF OnlyWoken

\* and so are all after Signal,
LEMMA SignalOnlyWakes ==
  ASSUME NEW c, NEW w \in Waits, NEW v \in Signal(c, w)
  PROVE  OnlyWoken(v, w)
<1>1. CASE v = w
  BY <1>1 DEF OnlyWoken
<1>2. CASE \E g \in Parked(c, w) : v = Wake(w, g, FALSE)
  <2>1. PICK g \in Parked(c, w) : v = Wake(w, g, FALSE)
    BY <1>2
  <2>2. g \in Goroutines /\ w[g].st # "out"
    BY DEF Parked
  <2> QED
    BY <2>1, <2>2, WakeOnlyWakes
<1> QED
  BY <1>1, <1>2 DEF Signal

\* after each of the operations of the list,
LEMMA ListOnlyWakes ==
  ASSUME NEW w \in Waits, NEW e,
         linkFirst(e, w) \/ linkLast(e, w) \/ unlinkFirst(w) \/ unlinkLast(w)
  PROVE  OnlyWoken(wait', w)
BY SignalOnlyWakes DEF linkFirst, linkLast, unlinkFirst, unlinkLast

\* and after unlink.
LEMMA UnlinkOnlyWakes ==
  ASSUME CallTypeOK, NEW x, unlink(x)
  PROVE  OnlyWoken(wait', wait)
<1>1. wait \in Waits
  BY DEF CallTypeOK, Waits
<1>2. CASE unlinkFirst(wait) \/ unlinkLast(wait)
  BY <1>1, <1>2, ListOnlyWakes
<1>3. CASE unlinkMiddle(x)
  BY <1>1, <1>3, SignalOnlyWakes DEF unlinkMiddle
<1> QED
  BY <1>2, <1>3 DEF unlink

\* Waking goroutines changes no count.
LEMMA WokenCounted ==
  ASSUME NEW v, NEW w, NEW hw, OnlyWoken(v, w), Counted(hw, w)
  PROVE  Counted(hw, v)
<1>1. \A c \in Conds : WaitersOf(c, v) = WaitersOf(c, w)
  BY DEF OnlyWoken, WaitersOf
<1> QED
  BY <1>1 DEF Counted

\* Nor does it matter to what a waiter waits for.
LEMMA WokenWaiter ==
  ASSUME NEW g \in Goroutines, NEW w, Waiter(g, w), OnlyWoken(wait', w),
         op'[g] = op[g], signal' = signal
  PROVE  Waiter(g, wait)'
BY DEF Waiter, OnlyWoken

\* A goroutine that enters Wait is counted,
LEMMA EntersCounted ==
  ASSUME NEW w \in Waits, NEW hw \in [Conds -> Int], Counted(hw, w),
         NEW g \in Goroutines, w[g].st = "out", NEW c \in Conds,
         NEW r, r.st # "out", r.on = c
  PROVE  Counted(AddWaiter(c, hw), [w EXCEPT ![g] = r])
<1> DEFINE v == [w EXCEPT ![g] = r]
<1>1. \A h \in Goroutines : v[h] = IF h = g THEN r ELSE w[h]
  BY DEF Waits
<1> HIDE DEF v
<1>2. WaitersOf(c, v) = WaitersOf(c, w) \cup {g} /\ g \notin WaitersOf(c, w)
  BY <1>1 DEF WaitersOf
<1>3. IsFiniteSet(WaitersOf(c, w))
  BY GoroutinesAssumption, FS_Subset DEF WaitersOf
<1>4. Cardinality(WaitersOf(c, v)) = Cardinality(WaitersOf(c, w)) + 1
  BY <1>2, <1>3, FS_AddElement
<1>5. \A d \in Conds \ {c} : WaitersOf(d, v) = WaitersOf(d, w)
  BY <1>1 DEF WaitersOf
<1>6. \A d \in Conds : AddWaiter(c, hw)[d] = IF d = c THEN hw[d] + 1 ELSE hw[d]
  BY DEF AddWaiter
<1> QED
  BY <1>4, <1>5, <1>6 DEF Counted, v

\* and one that leaves it no longer.
LEMMA LeavesCounted ==
  ASSUME CallTypeOK, WaitInv, NEW g \in Goroutines, wait[g].st = "woken"
  PROVE  Counted(RemoveWaiter(g, hasWaiters), [wait EXCEPT ![g] = Out])
<1> DEFINE v == [wait EXCEPT ![g] = Out]
           c == wait[g].on
           hw == RemoveWaiter(g, hasWaiters)
<1>0. wait \in Waits /\ hasWaiters \in [Conds -> Int]
  BY DEF CallTypeOK, Waits
<1>1. \A h \in Goroutines : v[h] = IF h = g THEN Out ELSE wait[h]
  BY <1>0 DEF Waits
<1>2. c \in Conds
  <2>1. wait[g] \in WaitRecord
    BY <1>0 DEF Waits
  <2> QED
    BY <2>1 DEF WaitRecord, Out
<1>3. \A d \in Conds : hw[d] = IF d = c THEN hasWaiters[d] - 1 ELSE hasWaiters[d]
  BY <1>0, <1>2 DEF RemoveWaiter
<1> HIDE DEF v, hw
<1>4. WaitersOf(c, v) = WaitersOf(c, wait) \ {g} /\ g \in WaitersOf(c, wait)
  BY <1>1 DEF WaitersOf, Out
<1>5. IsFiniteSet(WaitersOf(c, wait))
  BY GoroutinesAssumption, FS_Subset DEF WaitersOf
<1>6. Cardinality(WaitersOf(c, v)) = Cardinality(WaitersOf(c, wait)) - 1
  BY <1>4, <1>5, FS_RemoveElement
<1>7. \A d \in Conds \ {c} : WaitersOf(d, v) = WaitersOf(d, wait)
  BY <1>1 DEF WaitersOf, Out
<1> QED
  BY <1>2, <1>3, <1>6, <1>7 DEF Counted, WaitInv, v, hw

\* A call that does not block.
LEMMA ReturnsWait ==
  ASSUME WaitInv, NEW o, NEW e, NEW r, Returns(o, e, r), OnlyWoken(wait', wait)
  PROVE  WaitInv'
<1>1. op' = op /\ hasWaiters' = hasWaiters /\ signal' = signal
  BY DEF Returns
<1>2. Counted(hasWaiters, wait')
  BY WokenCounted DEF WaitInv
<1>3. ASSUME NEW g \in Goroutines PROVE Waiter(g, wait)'
  BY <1>1, WokenWaiter DEF WaitInv
<1> QED
  BY <1>1, <1>2, <1>3 DEF WaitInv

(***************************************************************************)
(* One pass of the loop of a blocking call.  Out of Wait, the goroutine g  *)
(* finds the others waiting as they should.                                *)
(***************************************************************************)
OutOfWait(g, hw, w) ==
  /\ hw \in [Conds -> Int] /\ w \in Waits
  /\ w[g].st = "out"
  /\ Counted(hw, w)
  /\ \A h \in Goroutines \ {g} : Waiter(h, w)

LEMMA FinishWait ==
  ASSUME CallTypeOK, NEW g \in Goroutines, NEW o, NEW e, NEW r, NEW hw, NEW w, OutOfWait(g, hw, w),
         Finish(g, o, e, r), hasWaiters' = hw, OnlyWoken(wait', w)
  PROVE  WaitInv'
<1>1. /\ \A h \in Goroutines : op'[h] = IF h = g THEN "idle" ELSE op[h]
      /\ signal' = signal
  BY DEF Finish, CallTypeOK
<1>2. Counted(hw, wait')
  BY WokenCounted DEF OutOfWait
<1>3. ASSUME NEW h \in Goroutines PROVE Waiter(h, wait)'
  <2>1. CASE h = g
    BY <1>1, <2>1 DEF Waiter, OnlyWoken, OutOfWait
  <2>2. CASE h # g
    BY <1>1, <2>2, WokenWaiter DEF OutOfWait
  <2> QED
    BY <2>1, <2>2
<1> QED
  BY <1>2, <1>3 DEF WaitInv

LEMMA BlockWait ==
  ASSUME CallTypeOK, NEW g \in Goroutines, NEW o \in PutOps \cup TakeOps, NEW e,
         NEW c \in Conds, c = IF o \in PutOps THEN "notFull" ELSE "notEmpty",
         NEW hw, NEW w, OutOfWait(g, hw, w), Block(g, o, e, c, hw, w)
  PROVE  WaitInv'
<1> DEFINE r == [st |-> "unlocked", on |-> c, ch |-> signal[c], interrupted |-> FALSE]
<1>1. /\ \A h \in Goroutines : op'[h] = IF h = g THEN o ELSE op[h]
      /\ signal' = signal
  BY DEF Block, CallTypeOK
<1>2. hasWaiters' = AddWaiter(c, hw) /\ wait' = [w EXCEPT ![g] = r]
  BY DEF Block, StartWait
<1>3. \A h \in Goroutines : wait'[h] = IF h = g THEN r ELSE w[h]
  BY <1>2 DEF OutOfWait, Waits
<1>4. Counted(hasWaiters', wait')
  BY <1>2, EntersCounted DEF OutOfWait
<1>5. ASSUME NEW h \in Goroutines PROVE Waiter(h, wait)'
  <2>1. CASE h = g
    <3>1. o # "idle"
      BY DEF PutOps, TakeOps, PollOps
    <3>2. wait'[h] = r /\ op'[h] = o
      BY <1>1, <1>3, <2>1
    <3> QED
      BY <3>1, <3>2 DEF Waiter
  <2>2. CASE h # g
    BY <1>1, <1>3, <2>2 DEF Waiter, OutOfWait
  <2> QED
    BY <2>1, <2>2
<1> QED
  BY <1>4, <1>5 DEF WaitInv

LEMMA PutLoopWait ==
  ASSUME CallTypeOK, NEW g \in Goroutines, NEW o \in PutOps, NEW e,
         NEW hw, NEW w, OutOfWait(g, hw, w), PutLoop(g, o, e, hw, w)
  PROVE  WaitInv'
<1>1. CASE /\ linkFirst(e, w) \/ linkLast(e, w)
           /\ hasWaiters' = hw
           /\ Finish(g, o, e, "ok")
  <2>1. OnlyWoken(wait', w)
    BY <1>1, ListOnlyWakes DEF OutOfWait
  <2> QED
    BY <1>1, <2>1, FinishWait
<1>2. CASE Block(g, o, e, "notFull", hw, w)
  BY <1>2, BlockWait, DequeAssumption
<1> QED
  BY <1>1, <1>2 DEF PutLoop

LEMMA TakeLoopWait ==
  ASSUME CallTypeOK, NEW g \in Goroutines, NEW o \in TakeOps, NEW intr,
         NEW hw, NEW w, OutOfWait(g, hw, w), TakeLoop(g, o, intr, hw, w)
  PROVE  WaitInv'
<1>1. ASSUME NEW r, unlinkFirst(w) \/ unlinkLast(w), hasWaiters' = hw, Finish(g, o, Nil, r)
      PROVE  WaitInv'
  <2>1. OnlyWoken(wait', w)
    BY <1>1, ListOnlyWakes DEF OutOfWait
  <2> QED
    BY <1>1, <2>1, FinishWait
<1>2. ASSUME NEW r, Finish(g, o, Nil, r), hasWaiters' = hw, wait' = w
      PROVE  WaitInv'
  <2>1. OnlyWoken(wait', w)
    BY <1>2 DEF OnlyWoken
  <2> QED
    BY <1>2, <2>1, FinishWait
<1>3. CASE Block(g, o, Nil, "notEmpty", hw, w)
  <2>1. o \notin PutOps
    BY DEF PutOps, TakeOps, PollOps
  <2> QED
    BY <1>3, <2>1, BlockWait, DequeAssumption
<1> QED
  BY <1>1, <1>2, <1>3 DEF TakeLoop

\* Every step of the deque keeps the waiters in order.
LEMMA WaitStepOK ==
  ASSUME CallTypeOK, WaitInv, [Next]_vars
  PROVE  WaitInv'
<1>0. /\ wait \in Waits /\ hasWaiters \in [Conds -> Int]
      /\ signal \in [Conds -> Nat]
  BY DEF CallTypeOK, Waits
<1>a. OnlyWoken(wait, wait)
  BY DEF OnlyWoken
<1>1. ASSUME NEW e \in Elems \cup {Nil},
             OfferFirst(e) \/ OfferLast(e) \/ AddFirst(e) \/ AddLast(e)
      PROVE  WaitInv'
  <2>1. OnlyWoken(wait', wait)
    <3>1. CASE wait' = wait
      BY <3>1, <1>a
    <3>2. CASE linkFirst(e, wait) \/ linkLast(e, wait)
      BY <1>0, <3>2, ListOnlyWakes
    <3> QED
      BY <1>1, <3>1, <3>2 DEF OfferFirst, OfferLast, AddFirst, AddLast
  <2> QED
    BY <1>1, <2>1, ReturnsWait DEF OfferFirst, OfferLast, AddFirst, AddLast
<1>2. ASSUME NEW e \in Elems \cup {Nil}, RemoveFirstOccurrence(e) \/ RemoveLastOccurrence(e)
      PROVE  WaitInv'
  <2>1. OnlyWoken(wait', wait)
    <3>1. CASE wait' = wait
      BY <3>1, <1>a
    <3>2. CASE \E x : unlink(x)
      BY <3>2, UnlinkOnlyWakes
    <3> QED
      BY <1>2, <3>1, <3>2 DEF RemoveFirstOccurrence, RemoveLastOccurrence
  <2> QED
    BY <1>2, <2>1, ReturnsWait DEF RemoveFirstOccurrence, RemoveLastOccurrence
<1>3. CASE PollFirst \/ PollLast
  <2>1. OnlyWoken(wait', wait)
    <3>1. CASE wait' = wait
      BY <3>1, <1>a
    <3>2. CASE unlinkFirst(wait) \/ unlinkLast(wait)
      BY <1>0, <3>2, ListOnlyWakes
    <3> QED
      BY <1>3, <3>1, <3>2 DEF PollFirst, PollLast
  <2> QED
    BY <1>3, <2>1, ReturnsWait DEF PollFirst, PollLast
<1>4. CASE InterruptTakeWaiters
  <2>1. /\ op' = op /\ hasWaiters' = hasWaiters
        /\ signal' = [signal EXCEPT !["notEmpty"] = @ + 1]
        /\ wait' = [g \in Goroutines |->
                IF g \in Parked("notEmpty", wait)
                THEN [wait[g] EXCEPT !.st = "woken", !.interrupted = TRUE]
                ELSE wait[g]]
    BY <1>4 DEF InterruptTakeWaiters, Interrupt
  <2>2. ASSUME NEW g \in Goroutines
        PROVE  /\ wait'[g].st = "out" <=> wait[g].st = "out"
               /\ wait'[g].on = wait[g].on /\ wait'[g].ch = wait[g].ch
               /\ wait'[g].st = "parked" =>
                    wait[g].st = "parked" /\ g \notin Parked("notEmpty", wait)
    <3>1. CASE g \in Parked("notEmpty", wait)
      <4>1. wait[g] \in WaitRecord /\ wait[g].st # "out"
        BY <1>0, <3>1 DEF Waits, Parked
      <4>2. wait'[g] = [wait[g] EXCEPT !.st = "woken", !.interrupted = TRUE]
        BY <2>1, <3>1
      <4>3. wait'[g].st = "woken" /\ wait'[g].on = wait[g].on /\ wait'[g].ch = wait[g].ch
        BY <4>1, <4>2, WokenFields
      <4> QED
        BY <4>1, <4>3
    <3>2. CASE g \notin Parked("notEmpty", wait)
      BY <2>1, <3>2
    <3> QED
      BY <3>1, <3>2
  <2>3. OnlyWoken(wait', wait)
    BY <2>2 DEF OnlyWoken
  <2>4. Counted(hasWaiters, wait')
    BY <2>3, WokenCounted DEF WaitInv
  <2>5. ASSUME NEW g \in Goroutines PROVE Waiter(g, wait)'
    <3>1. Waiter(g, wait)
      BY DEF WaitInv
    <3>2. ASSUME wait'[g].st = "parked" PROVE wait'[g].ch = signal'[wait'[g].on]
      <4>1. wait[g].on # "notEmpty"
        BY <2>2, <3>1, <3>2 DEF Waiter, Parked
      <4>a. wait[g].on \in Conds
        BY <2>2, <3>1, <3>2, DequeAssumption DEF Waiter
      <4>2. signal'[wait[g].on] = signal[wait[g].on]
        BY <1>0, <2>1, <4>1, <4>a
      <4> QED
        BY <2>2, <3>1, <3>2, <4>2 DEF Waiter
    <3> QED
      BY <2>1, <2>2, <3>1, <3>2 DEF Waiter
  <2> QED
    BY <2>1, <2>4, <2>5 DEF WaitInv
<1>5. ASSUME NEW x \in Nodes, IteratorRemove(x) PROVE WaitInv'
  BY <1>5, UnlinkOnlyWakes, ReturnsWait DEF IteratorRemove
<1>6. ASSUME NEW g \in Goroutines, op[g] = "idle"
      PROVE  OutOfWait(g, hasWaiters, wait)
  BY <1>0, <1>6 DEF OutOfWait, WaitInv, Waiter
<1>7. ASSUME NEW g \in Goroutines, NEW o \in PutOps, NEW e \in Elems \cup {Nil}, CallPut(g, o, e)
      PROVE  WaitInv'
  <2>1. OutOfWait(g, hasWaiters, wait)
    BY <1>6, <1>7 DEF CallPut
  <2>2. CASE PutLoop(g, o, e, hasWaiters, wait)
    BY <2>1, <2>2, PutLoopWait
  <2>3. CASE Finish(g, o, e, "nilarg") /\ UNCHANGED <<listVars, hasWaiters, wait>>
    <3>1. hasWaiters' = hasWaiters /\ OnlyWoken(wait', wait)
      BY <2>3, <1>a
    <3> QED
      BY <2>1, <2>3, <3>1, FinishWait
  <2> QED
    BY <1>7, <2>2, <2>3 DEF CallPut
<1>8. ASSUME NEW g \in Goroutines, NEW o \in TakeOps, CallTake(g, o) PROVE WaitInv'
  BY <1>6, <1>8, TakeLoopWait DEF CallTake
<1>9. ASSUME NEW g \in Goroutines, Resume(g) PROVE WaitInv'
  <2> DEFINE hw == RemoveWaiter(g, hasWaiters)
             w  == [wait EXCEPT ![g] = Out]
  <2>1. OutOfWait(g, hw, w)
    <3>1. wait[g].st = "woken"
      BY <1>9 DEF Resume
    <3>2. w \in Waits
      BY <1>0 DEF Waits, WaitRecord
    <3>3. hw \in [Conds -> Int]
      <4>1. wait[g].on \in Conds
        BY <1>0, <3>1 DEF Waits, WaitRecord, Out
      <4> QED
        BY <1>0, <4>1 DEF RemoveWaiter
    <3>4. Counted(hw, w)
      BY <3>1, LeavesCounted
    <3>5. \A h \in Goroutines : w[h] = IF h = g THEN Out ELSE wait[h]
      BY <1>0 DEF Waits
    <3> HIDE DEF hw, w
    <3>6. w[g].st = "out"
      BY <3>5 DEF Out
    <3>7. \A h \in Goroutines \ {g} : Waiter(h, w)
      BY <3>5 DEF WaitInv, Waiter
    <3> QED
      BY <3>2, <3>3, <3>4, <3>6, <3>7 DEF OutOfWait
  <2> HIDE DEF hw, w
  <2>2. CASE op[g] \in PutOps /\ PutLoop(g, op[g], arg[g], hw, w)
    BY <2>1, <2>2, PutLoopWait
  <2>3. CASE op[g] \in TakeOps /\ TakeLoop(g, op[g], wait[g].interrupted, hw, w)
    BY <2>1, <2>3, TakeLoopWait
  <2> QED
    BY <1>9, <2>2, <2>3 DEF Resume, hw, w
<1>10. ASSUME NEW g \in Goroutines, WaitStep(g) \/ CancelContext(g) PROVE WaitInv'
  <2>1. op' = op /\ hasWaiters' = hasWaiters /\ signal' = signal
    BY <1>10 DEF WaitStep, CancelContext, Select, ContextDone
  <2>2. CASE OnlyWoken(wait', wait)
    <3>1. Counted(hasWaiters, wait')
      BY <2>2, WokenCounted DEF WaitInv
    <3>2. ASSUME NEW h \in Goroutines PROVE Waiter(h, wait)'
      BY <2>1, <2>2, WokenWaiter DEF WaitInv
    <3> QED
      BY <2>1, <3>1, <3>2 DEF WaitInv
  <2>3. CASE /\ wait[g].st = "unlocked" /\ ~Closed(g)
             /\ wait' = [wait EXCEPT ![g].st = "parked"]
    <3>1. wait[g] \in [st : WaitStates \ {"out"}, on : Conds, ch : Nat, interrupted : BOOLEAN]
      BY <1>0, <2>3 DEF Waits, WaitRecord, Out
    <3> DEFINE q == [wait[g] EXCEPT !.st = "parked"]
    <3>2. q.st = "parked" /\ q.on = wait[g].on /\ q.ch = wait[g].ch
      BY <3>1
    <3>3. wait' = [wait EXCEPT ![g] = q]
      BY <2>3
    <3> HIDE DEF q
    <3>4. \A h \in Goroutines : wait'[h] = IF h = g THEN q ELSE wait[h]
      BY <1>0, <3>3 DEF Waits
    <3>5. \A c \in Conds : WaitersOf(c, wait') = WaitersOf(c, wait)
      BY <2>3, <3>2, <3>4 DEF WaitersOf
    <3>6. Counted(hasWaiters, wait')
      BY <3>5 DEF Counted, WaitInv
    <3>7. ASSUME NEW h \in Goroutines PROVE Waiter(h, wait)'
      BY <2>1, <2>3, <3>2, <3>4 DEF Waiter, WaitInv, Closed
    <3> QED
      BY <2>1, <3>6, <3>7 DEF WaitInv
  <2>4. ASSUME NEW i \in BOOLEAN, wait[g].st # "out", wait' = Wake(wait, g, i)
        PROVE  OnlyWoken(wait', wait)
    BY <1>0, <2>4, WakeOnlyWakes
  <2>5. CASE WaitStep(g)
    <3>1. \/ \E i \in BOOLEAN : wait[g].st # "out" /\ wait' = Wake(wait, g, i)
          \/ /\ wait[g].st = "unlocked" /\ ~Closed(g)
             /\ wait' = [wait EXCEPT ![g].st = "parked"]
      BY <2>5 DEF WaitStep, Select
    <3> QED
      BY <3>1, <2>2, <2>3, <2>4
  <2>6. CASE CancelContext(g)
    <3>1. \/ \E i \in BOOLEAN : wait[g].st # "out" /\ wait' = Wake(wait, g, i)
          \/ wait' = wait
      BY <2>6 DEF CancelContext, ContextDone
    <3> QED
      BY <3>1, <1>a, <2>2, <2>4
  <2> QED
    BY <1>10, <2>5, <2>6
<1>11. CASE UNCHANGED vars
  BY <1>11 DEF vars, condVars, WaitInv, Counted, Waiter, WaitersOf
<1> QED
  BY <1>1, <1>2, <1>3, <1>4, <1>5, <1>7, <1>8, <1>9, <1>10, <1>11 DEF Next

\* Nobody waits on a new deque.
LEMMA WaitInitOK == Init => WaitInv
<1> SUFFICES ASSUME Init PROVE WaitInv
  OBVIOUS
<1>1. \A g \in Goroutines : wait[g] = Out /\ op[g] = "idle"
  BY DEF Init, CondInit
<1>2. \A c \in Conds : WaitersOf(c, wait) = {}
  BY <1>1 DEF WaitersOf, Out
<1>3. Counted(hasWaiters, wait)
  BY <1>2, FS_EmptySet DEF Counted, Init, CondInit
<1> QED
  BY <1>1, <1>3 DEF WaitInv, Waiter, Out

LEMMA WaitInvImplies ==
  CallTypeOK /\ WaitInv => WaitersOK
<1> SUFFICES ASSUME CallTypeOK, WaitInv PROVE WaitersOK
  OBVIOUS
<1>1. \A c \in Conds : hasWaiters[c] = Cardinality(InWait(c))
  BY DEF WaitInv, Counted, WaitersOf, InWait
<1>2. HasTakeWaiters <=> \E g \in Goroutines : op[g] \in TakeOps
  <2>1. IsFiniteSet(InWait("notEmpty"))
    BY GoroutinesAssumption, FS_Subset DEF InWait
  <2>2. HasTakeWaiters <=> Cardinality(InWait("notEmpty")) > 0
    BY <1>1, DequeAssumption DEF HasTakeWaiters, HasWaiters
  <2>3. Cardinality(InWait("notEmpty")) > 0 <=> InWait("notEmpty") # {}
    BY <2>1, FS_EmptySet, FS_CardinalityType
  <2>4. ASSUME NEW g \in Goroutines
        PROVE  g \in InWait("notEmpty") <=> op[g] \in TakeOps
    <3>1. op[g] \in {"idle"} \cup PutOps \cup TakeOps /\ Waiter(g, wait)
      BY DEF CallTypeOK, WaitInv
    <3> QED
      BY <3>1 DEF Waiter, InWait, PutOps, TakeOps, PollOps
  <2>5. InWait("notEmpty") \subseteq Goroutines
    BY DEF InWait
  <2> QED
    BY <2>2, <2>3, <2>4, <2>5
<1> QED
  BY <1>1, <1>2 DEF WaitersOK, WaitInv, Waiter

(***************************************************************************)
(* hasWaiters is exact, whatever signals, interrupts and ends of contexts  *)
(* hit a goroutine in Wait: it counts the goroutines inside Wait, takers   *)
(* wait on notEmpty and putters on notFull, and nobody blocks on a closed  *)
(* channel.                                                                *)
(***************************************************************************)
THEOREM WaitersCounted == Spec => []WaitersOK
<1>1. Init => Inv /\ WaitInv
  BY InitOK, WaitInitOK
<1>2. Inv /\ WaitInv /\ [Next]_vars => (Inv /\ WaitInv)'
  BY ListStep, CallStep, WaitStepOK DEF Inv
<1>3. Inv /\ WaitInv => WaitersOK
  BY WaitInvImplies DEF Inv
<1> QED
  BY <1>1, <1>2, <1>3, PTL DEF Spec

-----------------------------------------------------------------------------
(***************************************************************************)
(* The list of nodes implements the abstract deque, the sequence of their  *)
(* items.                                                                  *)
(***************************************************************************)
Items == [i \in 1..count |-> item[order[i]]]

\* linkFirst adds the element at position 1, linkLast after the last one.
LEMMA LinkFirstItems ==
  ASSUME ListInv, NEW e, NEW w, linkFirst(e, w)
  PROVE  count' = count + 1 /\ Items' = Abs!Inserted(Items, count, 1, e)
<1> DEFINE x == newNode
<1>1. x \in Nodes /\ x \notin alloc
  BY NewNodeIsFresh DEF linkFirst, ListInv
<1> HIDE DEF x
<1>2. /\ item' = [item EXCEPT ![x] = e]
      /\ count' = count + 1
      /\ order' = InsertAt(1, x)
  BY DEF linkFirst, x
<1>3. /\ count \in Nat /\ item \in [Nodes -> Elems \cup {Nil}]
      /\ \A i \in 1..count : order[i] \in Nodes /\ order[i] # x
  BY <1>1, DequeAssumption DEF ListInv, ListTypeOK
<1>4. ASSUME NEW j \in 1..(count + 1)
      PROVE  item'[order'[j]] = IF j < 1 THEN Items[j] ELSE IF j = 1 THEN e ELSE Items[j - 1]
  <2>1. order'[j] = IF j = 1 THEN x ELSE order[j - 1]
    BY <1>2, <1>3 DEF InsertAt
  <2>2. CASE j = 1
    BY <1>1, <1>2, <1>3, <2>1, <2>2
  <2>3. CASE j # 1
    <3>1. j - 1 \in 1..count /\ ~(j < 1)
      BY <1>3, <2>3
    <3>2. Items[j - 1] = item[order[j - 1]]
      BY <3>1 DEF Items
    <3>3. item'[order[j - 1]] = item[order[j - 1]]
      BY <1>2, <1>3, <3>1
    <3> QED
      BY <2>1, <2>3, <3>1, <3>2, <3>3
  <2> QED
    BY <2>2, <2>3
<1>5. Items' = [j \in 1..(count + 1) |-> item'[order'[j]]]
  BY <1>2 DEF Items
<1> QED
  BY <1>2, <1>4, <1>5 DEF Abs!Inserted

LEMMA LinkLastItems ==
  ASSUME ListInv, NEW e, NEW w, linkLast(e, w)
  PROVE  count' = count + 1 /\ Items' = Abs!Inserted(Items, count, count + 1, e)
<1> DEFINE x == newNode
<1>1. x \in Nodes /\ x \notin alloc
  BY NewNodeIsFresh DEF linkLast, ListInv
<1> HIDE DEF x
<1>2. /\ item' = [item EXCEPT ![x] = e]
      /\ count' = count + 1
      /\ order' = InsertAt(count + 1, x)
  BY DEF linkLast, x
<1>3. /\ count \in Nat /\ item \in [Nodes -> Elems \cup {Nil}]
      /\ \A i \in 1..count : order[i] \in Nodes /\ order[i] # x
  BY <1>1, DequeAssumption DEF ListInv, ListTypeOK
<1>4. ASSUME NEW j \in 1..(count + 1)
      PROVE  item'[order'[j]] = IF j < count + 1 THEN Items[j]
                                ELSE IF j = count + 1 THEN e ELSE Items[j - 1]
  <2>1. order'[j] = IF j < count + 1 THEN order[j] ELSE x
    BY <1>2, <1>3 DEF InsertAt
  <2>2. CASE j = count + 1
    BY <1>1, <1>2, <1>3, <2>1, <2>2
  <2>3. CASE j # count + 1
    <3>1. j \in 1..count /\ j < count + 1
      BY <1>3, <2>3
    <3>2. Items[j] = item[order[j]]
      BY <3>1 DEF Items
    <3>3. item'[order[j]] = item[order[j]]
      BY <1>2, <1>3, <3>1
    <3> QED
      BY <2>1, <3>1, <3>2, <3>3
  <2> QED
    BY <2>2, <2>3
<1>5. Items' = [j \in 1..(count + 1) |-> item'[order'[j]]]
  BY <1>2 DEF Items
<1> QED
  BY <1>2, <1>4, <1>5 DEF Abs!Inserted

\* Taking the node at position m out of the list takes its item out.
LEMMA DropItems ==
  ASSUME ListInv, NEW m \in 1..count, count' = count - 1,
         item' = [item EXCEPT ![order[m]] = Nil],
         \A j \in 1..(count - 1) : order'[j] = IF j < m THEN order[j] ELSE order[j + 1]
  PROVE  Items' = Abs!Dropped(Items, count, m)
<1>1. /\ count \in Nat /\ item \in [Nodes -> Elems \cup {Nil}]
      /\ \A i \in 1..count : order[i] \in Nodes
      /\ \A i, j \in 1..count : order[i] = order[j] => i = j
  BY DequeAssumption DEF ListInv, ListTypeOK, WellLinked, LinksOK
<1>2. ASSUME NEW i \in 1..count, i # m PROVE item'[order[i]] = Items[i]
  <2>1. order[i] # order[m]
    BY <1>1, <1>2
  <2> QED
    BY <1>1, <2>1 DEF Items
<1>3. ASSUME NEW j \in 1..(count - 1)
      PROVE  item'[order'[j]] = IF j < m THEN Items[j] ELSE Items[j + 1]
  <2>1. CASE j < m
    <3>1. j \in 1..count /\ j # m
      BY <1>1, <2>1
    <3> QED
      BY <1>2, <2>1, <3>1
  <2>2. CASE ~(j < m)
    <3>1. j + 1 \in 1..count /\ j + 1 # m
      BY <1>1, <2>2
    <3> QED
      BY <1>2, <2>2, <3>1
  <2> QED
    BY <2>1, <2>2
<1>4. Items' = [j \in 1..(count - 1) |-> item'[order'[j]]]
  BY DEF Items
<1> QED
  BY <1>3, <1>4 DEF Abs!Dropped

LEMMA UnlinkFirstItems ==
  ASSUME ListInv, NEW w, unlinkFirst(w)
  PROVE  /\ count > 0 /\ count' = count - 1 /\ item[first] = Items[1]
         /\ Items' = Abs!Dropped(Items, count, 1)
<1>1. count \in Nat /\ count > 0 /\ first = order[1]
  BY DequeAssumption DEF unlinkFirst, ListInv, ListTypeOK, WellLinked, EndsOK
<1>2. /\ item' = [item EXCEPT ![order[1]] = Nil]
      /\ count' = count - 1 /\ order' = DropAt(1)
  BY <1>1 DEF unlinkFirst
<1>3. \A j \in 1..(count - 1) : order'[j] = IF j < 1 THEN order[j] ELSE order[j + 1]
  BY <1>2 DEF DropAt
<1>4. 1 \in 1..count
  BY <1>1
<1>5. Items' = Abs!Dropped(Items, count, 1)
  BY <1>2, <1>3, <1>4, DropItems
<1> QED
  BY <1>1, <1>2, <1>4, <1>5 DEF Items

LEMMA UnlinkLastItems ==
  ASSUME ListInv, NEW w, unlinkLast(w)
  PROVE  /\ count > 0 /\ count' = count - 1 /\ item[last] = Items[count]
         /\ Items' = Abs!Dropped(Items, count, count)
<1>1. count \in Nat /\ count > 0 /\ last = order[count]
  BY DequeAssumption DEF unlinkLast, ListInv, ListTypeOK, WellLinked, EndsOK
<1>2. /\ item' = [item EXCEPT ![order[count]] = Nil]
      /\ count' = count - 1 /\ order' = DropAt(count)
  BY <1>1 DEF unlinkLast
<1>3. \A j \in 1..(count - 1) : order'[j] = IF j < count THEN order[j] ELSE order[j + 1]
  BY <1>2 DEF DropAt
<1>4. count \in 1..count
  BY <1>1
<1>5. Items' = Abs!Dropped(Items, count, count)
  BY <1>2, <1>3, <1>4, DropItems
<1> QED
  BY <1>1, <1>2, <1>4, <1>5 DEF Items

\* unlink takes out the item of the node, wherever it is in the list.
LEMMA UnlinkItems ==
  ASSUME ListInv, NEW m \in 1..count, unlink(order[m])
  PROVE  count' = count - 1 /\ Items' = Abs!Dropped(Items, count, m)
<1>1. /\ count \in Nat /\ order[m] \in Nodes
      /\ \A i \in 1..count : order[i] \in Nodes /\ order[i] # Nil
      /\ prev[order[m]] = IF m = 1 THEN Nil ELSE order[m - 1]
      /\ next[order[m]] = IF m = count THEN Nil ELSE order[m + 1]
  BY DequeAssumption DEF ListInv, ListTypeOK, WellLinked, LinksOK
<1>2. CASE prev[order[m]] = Nil /\ unlinkFirst(wait)
  <2>1. m = 1
    BY <1>1, <1>2
  <2> QED
    BY <1>2, <2>1, UnlinkFirstItems
<1>3. CASE prev[order[m]] # Nil /\ next[order[m]] = Nil /\ unlinkLast(wait)
  <2>1. m = count
    BY <1>1, <1>3
  <2> QED
    BY <1>3, <2>1, UnlinkLastItems
<1>4. CASE prev[order[m]] # Nil /\ next[order[m]] # Nil /\ unlinkMiddle(order[m])
  <2>1. /\ item' = [item EXCEPT ![order[m]] = Nil]
        /\ count' = count - 1 /\ order' = DropNode(order[m])
    BY <1>4 DEF unlinkMiddle
  <2>2. \A j \in 1..(count - 1) : order'[j] = IF j < m THEN order[j] ELSE order[j + 1]
    BY <2>1, DropNodeIsDropAt
  <2> QED
    BY <2>1, <2>2, DropItems
<1> QED
  BY <1>2, <1>3, <1>4 DEF unlink

-----------------------------------------------------------------------------
\* The names of the calls stand for the ends that the two modules give them.
LEMMA CallNames ==
  ASSUME NEW o
  PROVE  /\ o \in PutOps => o \in Abs!Puts
         /\ o \in TakeOps => o \in Abs!Takes \cup Abs!Waits
         /\ o \in PollOps => o \in Abs!Waits
         /\ o \in PutOps \cup TakeOps => (o \in FirstOps <=> o \in Abs!AtFront)
BY DEF PutOps, TakeOps, PollOps, FirstOps, Abs!Puts, Abs!Takes, Abs!Waits, Abs!AtFront

\* The abstract actions, over the state of the list.
LEMMA AddsElement ==
  ASSUME ListInv, NEW call \in Abs!Offers \cup Abs!Puts, NEW e \in Elems, NEW w,
         IF call \in Abs!AtFront THEN linkFirst(e, w) ELSE linkLast(e, w),
         out' = Outcome(call, e, "ok")
  PROVE  Abs!AbsNext
<1> DEFINE i == IF call \in Abs!AtFront THEN 1 ELSE count + 1
<1>1. count < Capacity
  BY DEF linkFirst, linkLast, HasRoom
<1>2. count' = count + 1 /\ Items' = Abs!Inserted(Items, count, i, e)
  <2>1. CASE call \in Abs!AtFront
    BY <2>1, LinkFirstItems
  <2>2. CASE call \notin Abs!AtFront
    BY <2>2, LinkLastItems
  <2> QED
    BY <2>1, <2>2
<1>3. Abs!Add(call, e)
  BY <1>1, <1>2 DEF Abs!Add, Items, Outcome, Abs!Outcome
<1> QED
  BY <1>3 DEF Abs!AbsNext

LEMMA TakesElement ==
  ASSUME ListInv, NEW call \in Abs!Takes \cup Abs!Waits \cup Abs!Polls, NEW w,
         IF call \in Abs!AtFront
         THEN unlinkFirst(w) /\ out' = Outcome(call, Nil, item[first])
         ELSE unlinkLast(w) /\ out' = Outcome(call, Nil, item[last])
  PROVE  Abs!AbsNext
<1> DEFINE i == IF call \in Abs!AtFront THEN 1 ELSE count
<1>1. /\ count > 0 /\ count' = count - 1
      /\ out' = Outcome(call, Nil, Items[i])
      /\ Items' = Abs!Dropped(Items, count, i)
  <2>1. CASE call \in Abs!AtFront
    BY <2>1, UnlinkFirstItems
  <2>2. CASE call \notin Abs!AtFront
    BY <2>2, UnlinkLastItems
  <2> QED
    BY <2>1, <2>2
<1>2. Abs!Take(call)
  BY <1>1 DEF Abs!Take, Items, Outcome, Abs!Outcome
<1> QED
  BY <1>2 DEF Abs!AbsNext

LEMMA RemovesElement ==
  ASSUME ListInv, NEW call \in Abs!Removals, NEW e \in Elems, NEW m \in 1..count, Items[m] = e,
         \A j \in 1..count :
           Items[j] = e => IF call \in Abs!AtFront THEN m <= j ELSE j <= m,
         unlink(order[m]), out' = Outcome(call, e, "ok")
  PROVE  Abs!AbsNext
<1>1. count' = count - 1 /\ Items' = Abs!Dropped(Items, count, m)
  BY UnlinkItems
<1>2. Abs!Remove(call, e)
  BY <1>1 DEF Abs!Remove, Items, Outcome, Abs!Outcome
<1> QED
  BY <1>2 DEF Abs!AbsNext

LEMMA RemovesByIterator ==
  ASSUME ListInv, NEW m \in 1..count, unlink(order[m]),
         out' = Outcome("Iterator.Remove", Nil, Nil)
  PROVE  Abs!AbsNext
<1>1. count' = count - 1 /\ Items' = Abs!Dropped(Items, count, m)
  BY UnlinkItems
<1>2. Abs!RemoveByIterator
  BY <1>1 DEF Abs!RemoveByIterator, Items, Outcome, Abs!Outcome
<1> QED
  BY <1>2 DEF Abs!AbsNext

LEMMA GivesUp ==
  ASSUME UNCHANGED listVars, NEW call, NEW e, NEW r, out' = Outcome(call, e, r),
         \/ /\ call \in Abs!Offers \cup Abs!Puts \cup Abs!Removals
            /\ e = Nil /\ r = "nilarg"
         \/ call \in Abs!Offers /\ e \in Elems /\ r = "full" /\ count = Capacity
         \/ call \in Abs!Polls \cup Abs!Waits /\ e = Nil /\ r = Nil /\ count = 0
         \/ call \in Abs!Takes \cup Abs!Waits /\ e = Nil /\ r = "interrupted" /\ count = 0
         \/ /\ call \in Abs!Removals /\ e \in Elems /\ r = "absent"
            /\ \A i \in 1..count : Items[i] # e
  PROVE  Abs!AbsNext
<1>1. count' = count /\ Items' = Items
  BY DEF listVars, Items
<1>2. Abs!GiveUp
  BY <1>1 DEF Abs!GiveUp, Items, Outcome, Abs!Outcome
<1> QED
  BY <1>2 DEF Abs!AbsNext

LEMMA AbsStutter ==
  ASSUME UNCHANGED <<listVars, out>>
  PROVE  UNCHANGED Abs!absVars
BY DEF listVars, Abs!absVars

LEMMA PutLoopImplements ==
  ASSUME ListInv, NEW g, NEW o \in PutOps, NEW e \in Elems, NEW hw, NEW w,
         PutLoop(g, o, e, hw, w)
  PROVE  [Abs!AbsNext]_(Abs!absVars)
<1>1. CASE /\ IF o \in FirstOps THEN linkFirst(e, w) ELSE linkLast(e, w)
           /\ Finish(g, o, e, "ok")
  BY <1>1, CallNames, AddsElement DEF Finish
<1>2. CASE Block(g, o, e, "notFull", hw, w)
  BY <1>2, AbsStutter DEF Block
<1> QED
  BY <1>1, <1>2 DEF PutLoop

\* A list without a first, or a last, node is empty.
LEMMA EmptyEnds ==
  ASSUME ListInv, first = Nil \/ last = Nil
  PROVE  count = 0
<1>1. count \in Nat /\ \A i \in 1..count : order[i] # Nil
  BY DequeAssumption DEF ListInv, ListTypeOK
<1> QED
  BY <1>1 DEF ListInv, WellLinked, EndsOK

LEMMA TakeLoopImplements ==
  ASSUME ListInv, NEW g, NEW o \in TakeOps, NEW intr, NEW hw, NEW w,
         TakeLoop(g, o, intr, hw, w)
  PROVE  [Abs!AbsNext]_(Abs!absVars)
<1>1. CASE /\ IF o \in FirstOps THEN unlinkFirst(w) ELSE unlinkLast(w)
           /\ Finish(g, o, Nil, IF o \in FirstOps THEN item[first] ELSE item[last])
  BY <1>1, CallNames, TakesElement DEF Finish
<1>2. CASE /\ Nil = IF o \in FirstOps THEN first ELSE last
           /\ intr \/ ContextEnds(g, o)
           /\ Finish(g, o, Nil, IF intr THEN "interrupted" ELSE Nil)
           /\ UNCHANGED listVars
  <2>1. count = 0
    BY <1>2, EmptyEnds
  <2>2. CASE intr
    BY <1>2, <2>1, <2>2, CallNames, GivesUp DEF Finish
  <2>3. CASE ~intr
    <3>1. o \in PollOps
      BY <1>2, <2>3 DEF ContextEnds
    <3> QED
      BY <1>2, <2>1, <2>3, <3>1, CallNames, GivesUp DEF Finish
  <2> QED
    BY <2>2, <2>3
<1>3. CASE Block(g, o, Nil, "notEmpty", hw, w)
  BY <1>3, AbsStutter DEF Block
<1> QED
  BY <1>1, <1>2, <1>3 DEF TakeLoop

\* An occurrence that no other one precedes (that none follows).
LEMMA RemovesOccurrence ==
  ASSUME ListInv, NEW e \in Elems \cup {Nil},
         RemoveFirstOccurrence(e) \/ RemoveLastOccurrence(e)
  PROVE  Abs!AbsNext
<1>0. \A i \in 1..count : Items[i] = item[order[i]]
  BY DEF Items
<1>1. /\ "RemoveFirstOccurrence" \in Abs!Removals \cap Abs!AtFront
      /\ "RemoveLastOccurrence" \in Abs!Removals \ Abs!AtFront
  BY DEF Abs!Removals, Abs!AtFront
<1>2. ASSUME NEW call \in Abs!Removals, e = Nil, Returns(call, e, "nilarg"), UNCHANGED listVars
      PROVE  Abs!AbsNext
  BY <1>2, GivesUp DEF Returns
<1>3. ASSUME NEW call \in Abs!Removals, e # Nil, Occurrences(e) = {},
             Returns(call, e, "absent"), UNCHANGED listVars
      PROVE  Abs!AbsNext
  <2>1. e \in Elems /\ \A i \in 1..count : Items[i] # e
    BY <1>0, <1>3 DEF Occurrences
  <2> QED
    BY <1>3, <2>1, GivesUp DEF Returns
<1>4. ASSUME NEW call \in Abs!Removals, NEW i \in Occurrences(e), unlink(order[i]),
             \A j \in Occurrences(e) : IF call \in Abs!AtFront THEN i <= j ELSE j <= i,
             Returns(call, e, "ok")
      PROVE  Abs!AbsNext
  <2>1. i \in 1..count /\ Items[i] = e
    BY <1>0 DEF Occurrences
  <2>2. e \in Elems
    <3>1. item[order[i]] # Nil
      BY <2>1 DEF ListInv, WellLinked, ItemsOK, ListTypeOK
    <3> QED
      BY <1>0, <2>1, <3>1
  <2>3. ASSUME NEW j \in 1..count, Items[j] = e
        PROVE  IF call \in Abs!AtFront THEN i <= j ELSE j <= i
    BY <1>0, <1>4, <2>3 DEF Occurrences
  <2> QED
    BY <1>4, <2>1, <2>2, <2>3, RemovesElement DEF Returns
<1>5. CASE RemoveFirstOccurrence(e)
  BY <1>1, <1>2, <1>3, <1>4, <1>5 DEF RemoveFirstOccurrence
<1>6. CASE RemoveLastOccurrence(e)
  <2>1. \A i, j \in Occurrences(e) : i >= j <=> j <= i
    BY DequeAssumption DEF Occurrences, ListInv, ListTypeOK
  <2> QED
    BY <1>1, <1>2, <1>3, <1>4, <1>6, <2>1 DEF RemoveLastOccurrence
<1> QED
  BY <1>5, <1>6

\* Every step of the deque is a step of the abstract deque or leaves it alone.
LEMMA AbsStep ==
  ASSUME Inv, [Next]_vars
  PROVE  [Abs!AbsNext]_(Abs!absVars)
<1>0. ListInv /\ CallTypeOK /\ count \in 0..Capacity
  BY DEF Inv, ListInv, ListTypeOK
<1>1. ASSUME NEW e \in Elems \cup {Nil},
             OfferFirst(e) \/ OfferLast(e) \/ AddFirst(e) \/ AddLast(e)
      PROVE  Abs!AbsNext
  <2>0. /\ "OfferFirst" \in Abs!Offers \cap Abs!AtFront
        /\ "OfferLast" \in Abs!Offers \ Abs!AtFront
    BY DEF Abs!Offers, Abs!AtFront
  <2>1. ASSUME NEW call \in Abs!Offers, e = Nil, Returns(call, e, "nilarg"), UNCHANGED listVars
        PROVE  Abs!AbsNext
    BY <2>1, GivesUp DEF Returns
  <2>2. ASSUME NEW call \in Abs!Offers, e # Nil, ~HasRoom, Returns(call, e, "full"),
               UNCHANGED listVars
        PROVE  Abs!AbsNext
    <3>1. count = Capacity
      BY <1>0, <2>2, DequeAssumption DEF HasRoom
    <3> QED
      BY <2>2, <3>1, GivesUp DEF Returns
  <2>3. ASSUME NEW call \in Abs!Offers, e # Nil, Returns(call, e, "ok"),
               IF call \in Abs!AtFront THEN linkFirst(e, wait) ELSE linkLast(e, wait)
        PROVE  Abs!AbsNext
    BY <1>0, <2>3, AddsElement DEF Returns
  <2>4. CASE OfferFirst(e) \/ AddFirst(e)
    BY <2>0, <2>1, <2>2, <2>3, <2>4 DEF OfferFirst, AddFirst
  <2>5. CASE OfferLast(e) \/ AddLast(e)
    BY <2>0, <2>1, <2>2, <2>3, <2>5 DEF OfferLast, AddLast
  <2> QED
    BY <1>1, <2>4, <2>5
<1>2. ASSUME NEW e \in Elems \cup {Nil}, RemoveFirstOccurrence(e) \/ RemoveLastOccurrence(e)
      PROVE  Abs!AbsNext
  BY <1>0, <1>2, RemovesOccurrence
<1>3. CASE PollFirst \/ PollLast
  <2>0. /\ "PollFirst" \in Abs!Polls \cap Abs!AtFront
        /\ "PollLast" \in Abs!Polls \ Abs!AtFront
    BY DEF Abs!Polls, Abs!AtFront
  <2>1. ASSUME NEW call \in Abs!Polls, first = Nil \/ last = Nil,
               Returns(call, Nil, Nil), UNCHANGED listVars
        PROVE  Abs!AbsNext
    <3>1. count = 0
      BY <1>0, <2>1, EmptyEnds
    <3> QED
      BY <2>1, <3>1, GivesUp DEF Returns
  <2>2. CASE unlinkFirst(wait) /\ Returns("PollFirst", Nil, item[first])
    BY <1>0, <2>0, <2>2, TakesElement DEF Returns
  <2>3. CASE unlinkLast(wait) /\ Returns("PollLast", Nil, item[last])
    BY <1>0, <2>0, <2>3, TakesElement DEF Returns
  <2> QED
    BY <1>3, <2>0, <2>1, <2>2, <2>3 DEF PollFirst, PollLast
<1>4. CASE InterruptTakeWaiters
  BY <1>4, AbsStutter DEF InterruptTakeWaiters
<1>5. ASSUME NEW x \in Nodes, IteratorRemove(x) PROVE Abs!AbsNext
  <2>1. PICK m \in 1..count : order[m] = x
    BY <1>0, <1>5 DEF ListInv, WellLinked, ItemsOK, IteratorRemove
  <2> QED
    BY <1>0, <1>5, <2>1, RemovesByIterator DEF IteratorRemove, Returns
<1>6. ASSUME NEW g \in Goroutines, NEW o \in PutOps, NEW e \in Elems \cup {Nil}, CallPut(g, o, e)
      PROVE  [Abs!AbsNext]_(Abs!absVars)
  <2>1. CASE e # Nil /\ PutLoop(g, o, e, hasWaiters, wait)
    BY <1>0, <2>1, PutLoopImplements
  <2>2. CASE e = Nil /\ Finish(g, o, e, "nilarg") /\ UNCHANGED listVars
    BY <2>2, CallNames, GivesUp DEF Finish
  <2> QED
    BY <1>6, <2>1, <2>2 DEF CallPut
<1>7. ASSUME NEW g \in Goroutines, NEW o \in TakeOps, CallTake(g, o)
      PROVE  [Abs!AbsNext]_(Abs!absVars)
  BY <1>0, <1>7, TakeLoopImplements DEF CallTake
<1>8. ASSUME NEW g \in Goroutines, Resume(g)
      PROVE  [Abs!AbsNext]_(Abs!absVars)
  <2>1. op[g] \in PutOps => arg[g] \in Elems
    BY <1>0 DEF CallTypeOK
  <2> QED
    BY <1>0, <1>8, <2>1, PutLoopImplements, TakeLoopImplements DEF Resume
<1>9. ASSUME NEW g \in Goroutines, WaitStep(g) \/ CancelContext(g)
      PROVE  UNCHANGED Abs!absVars
  BY <1>9, AbsStutter DEF WaitStep, CancelContext
<1>10. CASE UNCHANGED vars
  BY <1>10, AbsStutter DEF vars
<1> QED
  BY <1>1, <1>2, <1>3, <1>4, <1>5, <1>6, <1>7, <1>8, <1>9, <1>10 DEF Next

(***************************************************************************)
(* The linked list and its calls implement the abstract deque: elements go *)
(* in and out at the end that the call names, the occurrence asked for is  *)
(* removed, and a call gives up only when the content leaves it no choice. *)
(***************************************************************************)
THEOREM DequeImplemented == Spec => ImplementsDeque
<1>1. Init => Abs!AbsInit
  <2> SUFFICES ASSUME Init PROVE Abs!AbsInit
    OBVIOUS
  <2>1. count = 0 /\ out = Outcome("none", Nil, Nil) /\ order = [i \in 1..0 |-> Nil]
    BY DEF Init
  <2>2. [i \in 1..count |-> item[order[i]]] = [i \in 1..0 |-> Nil]
    BY <2>1
  <2> QED
    BY <2>1, <2>2 DEF Abs!AbsInit, Outcome, Abs!Outcome
<1>2. Inv /\ [Next]_vars => [Abs!AbsNext]_(Abs!absVars)
  BY AbsStep
<1> QED
  BY <1>1, <1>2, InvInductive, PTL DEF Spec, ImplementsDeque, Abs!AbsSpec

-----------------------------------------------------------------------------
(***************************************************************************)
(* The walks of the readers.  A set of numbers that is not empty has a     *)
(* least one; it serves where an argument by induction on the steps of a   *)
(* walk is needed.                                                         *)
(***************************************************************************)
LEMMA BelowRelated ==
  \A x, y \in Nat : x < y => <<x, y>> \in OpToRel(<, Nat)
<1> SUFFICES ASSUME NEW x \in Nat, NEW y \in Nat, x < y
             PROVE  <<x, y>> \in OpToRel(<, Nat)
  OBVIOUS
<1>1. <<x, y>> \in Nat \X Nat /\ <<x, y>>[1] = x /\ <<x, y>>[2] = y
  OBVIOUS
<1>2. <<x, y>> \in {p \in Nat \X Nat : p[1] < p[2]}
  BY <1>1
<1> QED
  BY <1>2 DEF OpToRel

LEMMA LeastNumber ==
  ASSUME NEW T \in SUBSET Nat, T # {}
  PROVE  \E m \in T : \A k \in T : m <= k
<1>1. PICK m \in T : \A k \in T : ~ (<<k, m>> \in OpToRel(<, Nat))
  BY NatLessThanWellFounded, WFMin
<1>2. ASSUME NEW k \in T PROVE m <= k
  <2>1. ~(k < m)
    BY <1>1, BelowRelated
  <2> QED
    BY <2>1
<1> QED
  BY <1>2

\* The first n nodes of w are a walk from node a along the links f.
IsWalk(w, n, a, f) == \A k \in 1..n : w[k] = IF k = 1 THEN a ELSE f[w[k - 1]]

\* Walks of the same length from the same node along the same links agree.
LEMMA WalkUnique ==
  ASSUME NEW n \in Nat, NEW a, NEW f, NEW v, NEW w,
         IsWalk(v, n, a, f), IsWalk(w, n, a, f)
  PROVE  \A k \in 1..n : v[k] = w[k]
<1> DEFINE T == {k \in 1..n : v[k] # w[k]}
<1>1. T = {}
  <2> SUFFICES ASSUME T # {} PROVE FALSE
    OBVIOUS
  <2>1. T \in SUBSET Nat
    OBVIOUS
  <2>2. PICK m \in T : \A k \in T : m <= k
    BY <2>1, LeastNumber
  <2>3. m \in 1..n /\ v[m] # w[m]
    OBVIOUS
  <2>4. m # 1
    BY <2>3 DEF IsWalk
  <2>5. m - 1 \in 1..n /\ ~(m <= m - 1)
    BY <2>3, <2>4
  <2>6. v[m - 1] = w[m - 1]
    BY <2>2, <2>5
  <2> QED
    BY <2>3, <2>4, <2>6 DEF IsWalk
<1> QED
  BY <1>1

\* What the walk along next visits, and the walk along prev.
Forward == [k \in 1..(count + 1) |-> IF k <= count THEN order[k] ELSE Nil]
Backward == [k \in 1..(count + 1) |-> IF k <= count THEN order[count + 1 - k] ELSE Nil]

LEMMA WalkForward ==
  ASSUME ListInv
  PROVE  Walk = Forward
<1>1. count \in Nat
  BY DequeAssumption DEF ListInv, ListTypeOK
<1>2. ASSUME NEW k \in 1..(count + 1)
      PROVE  Forward[k] = IF k = 1 THEN first ELSE next[Forward[k - 1]]
  <2>1. CASE k = 1
    BY <1>1, <2>1 DEF Forward, ListInv, WellLinked, EndsOK
  <2>2. CASE k # 1
    <3>1. k - 1 \in 1..count /\ k - 1 \in 1..(count + 1) /\ k - 1 <= count /\ (k - 1) + 1 = k
      BY <1>1, <2>2
    <3>2. Forward[k - 1] = order[k - 1]
      BY <3>1 DEF Forward
    <3>3. next[order[k - 1]] = IF k - 1 = count THEN Nil ELSE order[k]
      BY <3>1 DEF ListInv, WellLinked, LinksOK
    <3>4. Forward[k] = IF k - 1 = count THEN Nil ELSE order[k]
      BY <1>1, <2>2, <3>1 DEF Forward
    <3> QED
      BY <2>2, <3>2, <3>3, <3>4
  <2> QED
    BY <2>1, <2>2
<1>3. Forward = [k \in 1..(count + 1) |-> IF k = 1 THEN first ELSE next[Forward[k - 1]]]
  <2>1. Forward = [k \in 1..(count + 1) |-> Forward[k]]
    BY DEF Forward
  <2> HIDE DEF Forward
  <2> QED
    BY <1>2, <2>1
<1>4. Walk = [k \in 1..(count + 1) |-> IF k = 1 THEN first ELSE next[Walk[k - 1]]]
  BY <1>3 DEF Walk
<1>5. IsWalk(Walk, count + 1, first, next)
  <2> DEFINE v == Walk
  <2>1. v = [k \in 1..(count + 1) |-> IF k = 1 THEN first ELSE next[v[k - 1]]]
    BY <1>4
  <2> HIDE DEF v
  <2>2. \A k \in 1..(count + 1) : v[k] = IF k = 1 THEN first ELSE next[v[k - 1]]
    BY <2>1
  <2> QED
    BY <2>2 DEF v, IsWalk
<1>6. count + 1 \in Nat
  BY <1>1
<1>7. \A k \in 1..(count + 1) : Walk[k] = Forward[k]
  <2>1. IsWalk(Forward, count + 1, first, next)
    BY <1>2 DEF IsWalk
  <2> QED
    BY <1>5, <1>6, <2>1, WalkUnique
<1>8. Walk = [k \in 1..(count + 1) |-> Walk[k]] /\ Forward = [k \in 1..(count + 1) |-> Forward[k]]
  BY <1>3, <1>4
<1> QED
  BY <1>7, <1>8

LEMMA WalkBackward ==
  ASSUME ListInv
  PROVE  WalkBack = Backward
<1>1. count \in Nat
  BY DequeAssumption DEF ListInv, ListTypeOK
<1>2. ASSUME NEW k \in 1..(count + 1)
      PROVE  Backward[k] = IF k = 1 THEN last ELSE prev[Backward[k - 1]]
  <2>1. CASE k = 1
    BY <1>1, <2>1 DEF Backward, ListInv, WellLinked, EndsOK
  <2>2. CASE k # 1
    <3>1. /\ k - 1 \in 1..(count + 1) /\ k - 1 <= count
          /\ count + 1 - (k - 1) \in 1..count
          /\ (count + 1 - (k - 1)) - 1 = count + 1 - k
      BY <1>1, <2>2
    <3>2. Backward[k - 1] = order[count + 1 - (k - 1)]
      BY <3>1 DEF Backward
    <3>3. prev[order[count + 1 - (k - 1)]]
            = IF count + 1 - (k - 1) = 1 THEN Nil ELSE order[count + 1 - k]
      BY <3>1 DEF ListInv, WellLinked, LinksOK
    <3>4. Backward[k] = IF count + 1 - (k - 1) = 1 THEN Nil ELSE order[count + 1 - k]
      BY <1>1, <2>2, <3>1 DEF Backward
    <3> QED
      BY <2>2, <3>2, <3>3, <3>4
  <2> QED
    BY <2>1, <2>2
<1>3. Backward = [k \in 1..(count + 1) |-> IF k = 1 THEN last ELSE prev[Backward[k - 1]]]
  <2>1. Backward = [k \in 1..(count + 1) |-> Backward[k]]
    BY DEF Backward
  <2> HIDE DEF Backward
  <2> QED
    BY <1>2, <2>1
<1>4. WalkBack = [k \in 1..(count + 1) |-> IF k = 1 THEN last ELSE prev[WalkBack[k - 1]]]
  BY <1>3 DEF WalkBack
<1>5. IsWalk(WalkBack, count + 1, last, prev)
  <2> DEFINE v == WalkBack
  <2>1. v = [k \in 1..(count + 1) |-> IF k = 1 THEN last ELSE prev[v[k - 1]]]
    BY <1>4
  <2> HIDE DEF v
  <2>2. \A k \in 1..(count + 1) : v[k] = IF k = 1 THEN last ELSE prev[v[k - 1]]
    BY <2>1
  <2> QED
    BY <2>2 DEF v, IsWalk
<1>6. count + 1 \in Nat
  BY <1>1
<1>7. \A k \in 1..(count + 1) : WalkBack[k] = Backward[k]
  <2>1. IsWalk(Backward, count + 1, last, prev)
    BY <1>2 DEF IsWalk
  <2> QED
    BY <1>5, <1>6, <2>1, WalkUnique
<1>8. WalkBack = [k \in 1..(count + 1) |-> WalkBack[k]] /\ Backward = [k \in 1..(count + 1) |-> Backward[k]]
  BY <1>3, <1>4
<1> QED
  BY <1>7, <1>8

(***************************************************************************)
(* ToSlice returns the content, the walks along next and prev see the same *)
(* nodes and stop where they should, and the Peeks agree with them.        *)
(***************************************************************************)
THEOREM ReadersRight == Spec => []ReadersAgree
<1>1. Inv => ReadersAgree
  <2> SUFFICES ASSUME Inv PROVE ReadersAgree
    OBVIOUS
  <2>1. ListInv /\ count \in Nat
    BY DequeAssumption DEF Inv, ListInv, ListTypeOK
  <2>2. Walk = Forward /\ WalkBack = Backward
    BY <2>1, WalkForward, WalkBackward
  <2>3. ASSUME NEW i \in 1..count
        PROVE  /\ ToSlice[i] = item[order[i]] /\ item[order[i]] # Nil
               /\ WalkBack[i] = Walk[count + 1 - i]
    <3>1. Walk[i] = order[i] /\ WalkBack[i] = order[count + 1 - i]
      BY <2>1, <2>2 DEF Forward, Backward
    <3>2. count + 1 - i \in 1..count
      BY <2>1
    <3>3. Walk[count + 1 - i] = order[count + 1 - i]
      BY <2>1, <2>2, <3>2 DEF Forward
    <3>4. order[i] \in Nodes
      BY <2>1 DEF ListInv, ListTypeOK
    <3>5. item[order[i]] # Nil
      BY <2>1, <3>4 DEF ListInv, WellLinked, ItemsOK
    <3> QED
      BY <3>1, <3>3, <3>5 DEF ToSlice, Size
  <2>4. Walk[count + 1] = Nil /\ WalkBack[count + 1] = Nil
    BY <2>1, <2>2 DEF Forward, Backward
  <2>5. ASSUME count > 0 PROVE PeekFirst = ToSlice[1] /\ PeekLast = ToSlice[count]
    <3>1. 1 \in 1..count /\ count \in 1..count
      BY <2>1, <2>5
    <3>2. first = order[1] /\ last = order[count] /\ order[1] # Nil /\ order[count] # Nil
      BY <2>1, <2>5, <3>1, DequeAssumption DEF ListInv, ListTypeOK, WellLinked, EndsOK
    <3> QED
      BY <2>3, <3>1, <3>2 DEF PeekFirst, PeekLast
  <2> QED
    BY <2>3, <2>4, <2>5 DEF ReadersAgree
<1> QED
  BY <1>1, InvInductive, PTL

-----------------------------------------------------------------------------
(***************************************************************************)
(* Iterators.  A removed node keeps its links, and an iterator that stood  *)
(* on it follows them later; what they still say is expressed with three   *)
(* values that the code does not have: pos, a position for every node ever *)
(* allocated, which agrees with the order of the list; far, beyond all     *)
(* positions in use; and met[d], the nodes allocated by the time d was     *)
(* removed.                                                                *)
(***************************************************************************)
\* m comes before n, in the direction of the iteration.
Ahead(pos, desc, m, n) == IF desc THEN pos[n] < pos[m] ELSE pos[m] < pos[n]

LineOK(pos, far) ==
  /\ pos \in [Nodes -> Int] /\ far \in Nat
  /\ \A n \in alloc : -far < pos[n] /\ pos[n] < far
  /\ \A m, n \in alloc : pos[m] = pos[n] => m = n
  /\ \A j, k \in 1..count : j < k => pos[order[j]] < pos[order[k]]

\* Where the link s of the removed node d leads: past the last node that d
\* had met; to d itself, when no node that it had met is left before it; or
\* on to a node with none of the list in between, which, if it is removed
\* as well, was removed later.
Leads(pos, met, desc, d, s) ==
  /\ s = Nil => \A y \in Nodes : item[y] # Nil /\ Ahead(pos, desc, d, y) => y \notin met[d]
  /\ s = d => \A y \in Nodes : item[y] # Nil /\ Ahead(pos, desc, y, d) => y \notin met[d]
  /\ s \notin {Nil, d} =>
       /\ s \in alloc /\ Ahead(pos, desc, d, s)
       /\ item[s] = Nil => met[d] \subseteq met[s]
       /\ \A y \in Nodes : item[y] # Nil => ~(Ahead(pos, desc, d, y) /\ Ahead(pos, desc, y, s))

RemovedOK(pos, met) ==
  \A d \in alloc : item[d] = Nil =>
    /\ met[d] \subseteq alloc
    /\ Leads(pos, met, FALSE, d, next[d])
    /\ Leads(pos, met, TRUE, d, prev[d])

\* The iterator r, which was made when the nodes s were in the list and has
\* returned the nodes t.
Stands(pos, met, r, s, t) ==
  LET m == r.next IN
  /\ m # Nil =>
       /\ m \in alloc
       /\ r.nextItem # Nil /\ item[m] \in {Nil, r.nextItem}
       /\ \A y \in t : item[y] # Nil => Ahead(pos, r.desc, y, m)
       /\ item[m] = Nil => s \subseteq met[m] /\ t \subseteq met[m]
  /\ m = Nil => r.nextItem = Nil
  /\ m \notin t
  /\ \A y \in s \ t : item[y] # Nil => m # Nil /\ (y = m \/ Ahead(pos, r.desc, m, y))

IteratorOK(pos, met, i) ==
  /\ start[i] \subseteq alloc /\ returned[i] \subseteq alloc
  /\ Open(i) => /\ it[i] \in IteratorRecord /\ it[i].lastRet \in returned[i] \cup {Nil}
                /\ Stands(pos, met, it[i], start[i], returned[i])
  /\ ~Open(i) => start[i] = {} /\ returned[i] = {}

IterType ==
  /\ it \in [Iters -> IteratorRecord \cup {Nil}]
  /\ start \in [Iters -> SUBSET Nodes] /\ returned \in [Iters -> SUBSET Nodes]

GravesOK(pos, far, met) ==
  LineOK(pos, far) /\ met \in [Nodes -> SUBSET Nodes] /\ RemovedOK(pos, met)

\* The inductive invariant.
IterInv ==
  /\ Inv /\ IterType
  /\ \E pos, far, met :
       GravesOK(pos, far, met) /\ \A i \in Iters : IteratorOK(pos, met, i)

-----------------------------------------------------------------------------
(***************************************************************************)
(* What the steps of the deque do, as far as iterators can see it.         *)
(***************************************************************************)
Frame(x) ==
  /\ \A n \in Nodes : n # x => item'[n] = item[n]
  /\ \A n \in Nodes : n # x /\ item[n] = Nil => next'[n] = next[n] /\ prev'[n] = prev[n]

Added(x) ==
  /\ x \in Nodes /\ x \notin alloc /\ alloc' = alloc \cup {x}
  /\ item'[x] # Nil /\ count' = count + 1
  /\ \/ order'[1] = x /\ \A k \in 1..count : order'[k + 1] = order[k]
     \/ order'[count + 1] = x /\ \A k \in 1..count : order'[k] = order[k]
  /\ Frame(x)

Removed(x) ==
  /\ x \in Nodes /\ item[x] # Nil /\ alloc' = alloc
  /\ item'[x] = Nil /\ count' = count - 1
  /\ \E m \in 1..count : /\ order[m] = x
                         /\ \A j \in 1..count' : order'[j] = order[IF j < m THEN j ELSE j + 1]
  /\ \/ next'[x] = next[x]
     \/ next'[x] = x /\ first = x
  /\ \/ prev'[x] = prev[x]
     \/ prev'[x] = x /\ last = x
  /\ Frame(x)

ListChange == (\E x \in Nodes : Added(x) \/ Removed(x)) \/ UNCHANGED listVars

\* The neighbours of a node in the list are in the list.
LEMMA LiveNodes ==
  ASSUME ListInv
  PROVE  /\ \A n \in Nodes : n \in Live <=> item[n] # Nil
         /\ \A n \in Nodes : item[n] # Nil => n \in alloc
         /\ first # Nil => first \in Nodes /\ item[first] # Nil
         /\ last # Nil => last \in Nodes /\ item[last] # Nil
         /\ \A n \in Nodes : item[n] # Nil =>
              /\ next[n] # Nil => next[n] \in Nodes /\ item[next[n]] # Nil
              /\ prev[n] # Nil => prev[n] \in Nodes /\ item[prev[n]] # Nil
<1> USE DequeAssumption DEF ListInv, ListTypeOK, WellLinked
<1>1. \A n \in Nodes : n \in Live <=> item[n] # Nil
  BY DEF ItemsOK, Live
<1>2. \A k \in 1..count : order[k] \in Nodes /\ order[k] \in alloc /\ item[order[k]] # Nil
  BY DEF ItemsOK
<1>3. \A n \in Nodes : item[n] # Nil => \E k \in 1..count : order[k] = n
  BY DEF ItemsOK
<1>4. count \in Nat
  OBVIOUS
<1>5. (first # Nil => first \in Nodes /\ item[first] # Nil) /\ (last # Nil => last \in Nodes /\ item[last] # Nil)
  BY <1>2, <1>4 DEF EndsOK
<1>6. ASSUME NEW n \in Nodes, item[n] # Nil
      PROVE  /\ next[n] # Nil => next[n] \in Nodes /\ item[next[n]] # Nil
             /\ prev[n] # Nil => prev[n] \in Nodes /\ item[prev[n]] # Nil
  <2>1. PICK k \in 1..count : order[k] = n
    BY <1>3, <1>6
  <2>2. prev[n] = IF k = 1 THEN Nil ELSE order[k - 1]
    BY <2>1 DEF LinksOK
  <2>3. next[n] = IF k = count THEN Nil ELSE order[k + 1]
    BY <2>1 DEF LinksOK
  <2>4. (k # 1 => k - 1 \in 1..count) /\ (k # count => k + 1 \in 1..count)
    BY <1>4
  <2> QED
    BY <1>2, <2>2, <2>3, <2>4
<1> QED
  BY <1>1, <1>2, <1>3, <1>5, <1>6

LEMMA LinkChange ==
  ASSUME ListInv, NEW e \in Elems, NEW w, linkFirst(e, w) \/ linkLast(e, w)
  PROVE  ListChange
<1> DEFINE x == newNode
<1>1. x \in Nodes /\ x \notin alloc
  BY NewNodeIsFresh DEF linkFirst, linkLast, ListInv
<1> HIDE DEF x
<1>2. /\ alloc' = alloc \cup {x} /\ item' = [item EXCEPT ![x] = e] /\ count' = count + 1
      /\ \/ order' = InsertAt(1, x) \/ order' = InsertAt(count + 1, x)
  BY DEF linkFirst, linkLast, x
<1>3. item'[x] # Nil /\ \A n \in Nodes : n # x => item'[n] = item[n]
  BY <1>1, <1>2, DequeAssumption DEF ListInv, ListTypeOK
<1>4. \/ order'[1] = x /\ \A k \in 1..count : order'[k + 1] = order[k]
      \/ order'[count + 1] = x /\ \A k \in 1..count : order'[k] = order[k]
  <2>1. count \in Nat
    BY DequeAssumption DEF ListInv, ListTypeOK
  <2> QED
    BY <1>2, <2>1 DEF InsertAt
<1>5. ASSUME NEW n \in Nodes, n # x, item[n] = Nil
      PROVE  next'[n] = next[n] /\ prev'[n] = prev[n]
  <2>1. n # first /\ n # last
    BY <1>5, LiveNodes, DequeAssumption
  <2>2. next \in [Nodes -> Pointer] /\ prev \in [Nodes -> Pointer]
    BY DEF ListInv, ListTypeOK
  <2>3. CASE linkFirst(e, w)
    BY <1>5, <2>1, <2>2, <2>3 DEF linkFirst, x
  <2>4. CASE linkLast(e, w)
    BY <1>5, <2>1, <2>2, <2>4 DEF linkLast, x
  <2> QED
    BY <2>3, <2>4
<1> QED
  BY <1>1, <1>2, <1>3, <1>4, <1>5 DEF ListChange, Added, Frame

LEMMA UnlinkFirstChange ==
  ASSUME ListInv, NEW w, unlinkFirst(w)
  PROVE  ListChange
<1> DEFINE f == first
           n == next[f]
<1>1. f \in Nodes /\ item[f] # Nil /\ (n # Nil => n \in Nodes /\ item[n] # Nil)
  BY LiveNodes DEF unlinkFirst
<1>2. /\ item' = [item EXCEPT ![f] = Nil] /\ next' = [next EXCEPT ![f] = f]
      /\ prev' = IF n = Nil THEN prev ELSE [prev EXCEPT ![n] = Nil]
      /\ count' = count - 1 /\ order' = DropAt(1) /\ alloc' = alloc
  BY DEF unlinkFirst
<1>3. /\ item \in [Nodes -> Elems \cup {Nil}] /\ next \in [Nodes -> Pointer]
      /\ prev \in [Nodes -> Pointer] /\ count \in Nat
  BY DequeAssumption DEF ListInv, ListTypeOK
<1>4. count >= 1 /\ f = order[1] /\ n # f
  <2>1. count >= 1 /\ f = order[1]
    BY <1>1, <1>3, DequeAssumption DEF ListInv, WellLinked, EndsOK
  <2>2. 1 \in 1..count
    BY <1>3, <2>1
  <2>3. n = IF 1 = count THEN Nil ELSE order[2]
    BY <2>1, <2>2 DEF ListInv, WellLinked, LinksOK
  <2>4. 1 # count => 2 \in 1..count /\ order[2] # order[1]
    BY <1>3, <2>1, <2>2 DEF ListInv, WellLinked, LinksOK
  <2> QED
    BY <1>1, <2>1, <2>3, <2>4, DequeAssumption
<1>0. f = first
  OBVIOUS
<1> HIDE DEF f, n
<1>5. Frame(f) /\ item'[f] = Nil /\ next'[f] = f /\ prev'[f] = prev[f]
  BY <1>1, <1>2, <1>3, <1>4 DEF Frame
<1>6. \E m \in 1..count : /\ order[m] = f
                          /\ \A j \in 1..count' : order'[j] = order[IF j < m THEN j ELSE j + 1]
  <2>1. 1 \in 1..count
    BY <1>3, <1>4
  <2>2. \A j \in 1..count' : order'[j] = order[IF j < 1 THEN j ELSE j + 1]
    BY <1>2, <1>3, <1>4 DEF DropAt
  <2> QED
    BY <1>4, <2>1, <2>2
<1>7. Removed(f)
  BY <1>0, <1>1, <1>2, <1>5, <1>6 DEF Removed
<1> QED
  BY <1>1, <1>7 DEF ListChange

LEMMA UnlinkLastChange ==
  ASSUME ListInv, NEW w, unlinkLast(w)
  PROVE  ListChange
<1> DEFINE l == last
           p == prev[l]
<1>1. l \in Nodes /\ item[l] # Nil /\ (p # Nil => p \in Nodes /\ item[p] # Nil)
  BY LiveNodes DEF unlinkLast
<1>2. /\ item' = [item EXCEPT ![l] = Nil] /\ prev' = [prev EXCEPT ![l] = l]
      /\ next' = IF p = Nil THEN next ELSE [next EXCEPT ![p] = Nil]
      /\ count' = count - 1 /\ order' = DropAt(count) /\ alloc' = alloc
  BY DEF unlinkLast
<1>3. /\ item \in [Nodes -> Elems \cup {Nil}] /\ next \in [Nodes -> Pointer]
      /\ prev \in [Nodes -> Pointer] /\ count \in Nat
  BY DequeAssumption DEF ListInv, ListTypeOK
<1>4. count \in 1..count /\ l = order[count] /\ p # l
  <2>1. count >= 1 /\ l = order[count]
    BY <1>1, <1>3, DequeAssumption DEF ListInv, WellLinked, EndsOK
  <2>2. count \in 1..count
    BY <1>3, <2>1
  <2>3. p = IF count = 1 THEN Nil ELSE order[count - 1]
    BY <2>1, <2>2 DEF ListInv, WellLinked, LinksOK
  <2>4. 1 # count => count - 1 \in 1..count /\ order[count - 1] # order[count]
    <3>1. 1 # count => count - 1 \in 1..count /\ count - 1 # count
      BY <1>3, <2>1
    <3> QED
      BY <2>2, <3>1 DEF ListInv, WellLinked, LinksOK
  <2> QED
    BY <1>1, <2>1, <2>2, <2>3, <2>4, DequeAssumption
<1>0. l = last
  OBVIOUS
<1> HIDE DEF l, p
<1>5. Frame(l) /\ item'[l] = Nil /\ prev'[l] = l /\ next'[l] = next[l]
  BY <1>1, <1>2, <1>3, <1>4 DEF Frame
<1>6. \E m \in 1..count : /\ order[m] = l
                          /\ \A j \in 1..count' : order'[j] = order[IF j < m THEN j ELSE j + 1]
  <2>1. \A j \in 1..count' : order'[j] = order[IF j < count THEN j ELSE j + 1]
    BY <1>2, <1>3, <1>4 DEF DropAt
  <2> QED
    BY <1>4, <2>1
<1>7. Removed(l)
  BY <1>0, <1>1, <1>2, <1>5, <1>6 DEF Removed
<1> QED
  BY <1>1, <1>7 DEF ListChange

LEMMA UnlinkMiddleChange ==
  ASSUME ListInv, NEW x \in Nodes, item[x] # Nil,
         prev[x] # Nil, next[x] # Nil, unlinkMiddle(x)
  PROVE  ListChange
<1> DEFINE p == prev[x]
           n == next[x]
<1>1. /\ p \in Nodes /\ item[p] # Nil /\ n \in Nodes /\ item[n] # Nil
  BY LiveNodes
<1>2. /\ item' = [item EXCEPT ![x] = Nil]
      /\ next' = [next EXCEPT ![p] = n] /\ prev' = [prev EXCEPT ![n] = p]
      /\ count' = count - 1 /\ order' = DropNode(x) /\ alloc' = alloc
  BY DEF unlinkMiddle
<1>3. /\ item \in [Nodes -> Elems \cup {Nil}] /\ next \in [Nodes -> Pointer]
      /\ prev \in [Nodes -> Pointer] /\ count \in Nat
  BY DequeAssumption DEF ListInv, ListTypeOK
<1>4. PICK m \in 1..count : order[m] = x
  BY DEF ListInv, WellLinked, ItemsOK
<1>5. p # x /\ n # x
  <2>1. \A i, j \in 1..count : order[i] = order[j] => i = j
    BY DEF ListInv, WellLinked, LinksOK
  <2>2. p = order[m - 1] /\ n = order[m + 1] /\ m # 1 /\ m # count
    BY <1>4 DEF ListInv, WellLinked, LinksOK
  <2>3. m - 1 \in 1..count /\ m + 1 \in 1..count /\ m - 1 # m /\ m + 1 # m
    BY <1>3, <2>2
  <2> QED
    BY <1>4, <2>1, <2>2, <2>3
<1> HIDE DEF p, n
<1>6. Frame(x) /\ item'[x] = Nil /\ next'[x] = next[x] /\ prev'[x] = prev[x]
  BY <1>1, <1>2, <1>3, <1>5 DEF Frame
<1>7. \A j \in 1..count' : order'[j] = order[IF j < m THEN j ELSE j + 1]
  BY <1>2, <1>4, DropNodeIsDropAt
<1>8. Removed(x)
  BY <1>2, <1>4, <1>6, <1>7 DEF Removed
<1> QED
  BY <1>8 DEF ListChange

LEMMA UnlinkChange ==
  ASSUME ListInv, NEW x \in Nodes, item[x] # Nil, unlink(x)
  PROVE  ListChange
BY UnlinkFirstChange, UnlinkLastChange, UnlinkMiddleChange DEF unlink

LEMMA PutLoopChange ==
  ASSUME ListInv, NEW g, NEW o, NEW e \in Elems, NEW hw, NEW w, PutLoop(g, o, e, hw, w)
  PROVE  ListChange
BY LinkChange DEF PutLoop, Block, ListChange

LEMMA TakeLoopChange ==
  ASSUME ListInv, NEW g, NEW o, NEW intr, NEW hw, NEW w, TakeLoop(g, o, intr, hw, w)
  PROVE  ListChange
BY UnlinkFirstChange, UnlinkLastChange DEF TakeLoop, Block, ListChange

\* Every step of the deque adds a node, removes one, or leaves the list alone.
LEMMA DequeChange ==
  ASSUME Inv, [Next]_vars
  PROVE  ListChange
<1> USE DequeAssumption
<1>0. ListInv /\ CallTypeOK
  BY DEF Inv
<1>1. ASSUME NEW e \in Elems \cup {Nil},
             OfferFirst(e) \/ OfferLast(e) \/ AddFirst(e) \/ AddLast(e)
      PROVE  ListChange
  BY <1>0, <1>1, LinkChange DEF OfferFirst, OfferLast, AddFirst, AddLast, ListChange
<1>2. ASSUME NEW e \in Elems \cup {Nil}, RemoveFirstOccurrence(e) \/ RemoveLastOccurrence(e)
      PROVE  ListChange
  <2>1. ASSUME NEW i \in Occurrences(e), unlink(order[i]) PROVE ListChange
    <3>1. i \in 1..count /\ order[i] \in Nodes
      BY <1>0 DEF Occurrences, ListInv, ListTypeOK
    <3>2. item[order[i]] # Nil
      BY <1>0, <3>1 DEF ListInv, WellLinked, ItemsOK
    <3> QED
      BY <1>0, <2>1, <3>1, <3>2, UnlinkChange
  <2> QED
    BY <1>2, <2>1 DEF RemoveFirstOccurrence, RemoveLastOccurrence, ListChange
<1>3. CASE PollFirst \/ PollLast
  BY <1>0, <1>3, UnlinkFirstChange, UnlinkLastChange DEF PollFirst, PollLast, ListChange
<1>4. CASE InterruptTakeWaiters
  BY <1>4 DEF InterruptTakeWaiters, ListChange
<1>5. ASSUME NEW x \in Nodes, IteratorRemove(x) PROVE ListChange
  BY <1>0, <1>5, UnlinkChange DEF IteratorRemove
<1>6. ASSUME NEW g \in Goroutines, NEW o \in PutOps, NEW e \in Elems \cup {Nil}, CallPut(g, o, e)
      PROVE  ListChange
  BY <1>0, <1>6, PutLoopChange DEF CallPut, ListChange
<1>7. ASSUME NEW g \in Goroutines, NEW o \in TakeOps, CallTake(g, o) PROVE ListChange
  BY <1>0, <1>7, TakeLoopChange DEF CallTake
<1>8. ASSUME NEW g \in Goroutines, Resume(g) PROVE ListChange
  <2>1. op[g] \in PutOps => arg[g] \in Elems
    BY <1>0 DEF CallTypeOK
  <2> QED
    BY <1>0, <1>8, <2>1, PutLoopChange, TakeLoopChange DEF Resume
<1>9. ASSUME NEW g \in Goroutines, WaitStep(g) \/ CancelContext(g) PROVE ListChange
  BY <1>9 DEF WaitStep, CancelContext, ListChange
<1>10. CASE UNCHANGED vars
  BY <1>10 DEF vars, ListChange
<1> QED
  BY <1>1, <1>2, <1>3, <1>4, <1>5, <1>6, <1>7, <1>8, <1>9, <1>10 DEF Next

-----------------------------------------------------------------------------
(***************************************************************************)
(* Positions.                                                              *)
(***************************************************************************)
LEMMA AheadOrder ==
  ASSUME NEW pos \in [Nodes -> Int], NEW desc \in BOOLEAN,
         NEW a \in Nodes, NEW b \in Nodes, NEW c \in Nodes
  PROVE  /\ ~Ahead(pos, desc, a, a)
         /\ Ahead(pos, desc, a, b) => ~Ahead(pos, desc, b, a) /\ a # b
         /\ Ahead(pos, desc, a, b) /\ Ahead(pos, desc, b, c) => Ahead(pos, desc, a, c)
         /\ pos[a] # pos[b] => Ahead(pos, desc, a, b) \/ Ahead(pos, desc, b, a)
BY DEF Ahead

\* The list in either direction: the first node, and the one after a node.
LEMMA LiveLinks ==
  ASSUME ListInv, NEW pos, NEW far, LineOK(pos, far), NEW desc \in BOOLEAN
  PROVE  /\ \A y \in Nodes : item[y] # Nil =>
              /\ firstNode(desc) \in Nodes /\ item[firstNode(desc)] # Nil
              /\ y = firstNode(desc) \/ Ahead(pos, desc, firstNode(desc), y)
         /\ \A m \in Nodes : item[m] # Nil =>
              LET s == nextNode(desc, m) IN
              /\ s = Nil => \A y \in Nodes : item[y] # Nil => ~Ahead(pos, desc, m, y)
              /\ s # Nil =>
                   /\ s \in Nodes /\ item[s] # Nil /\ Ahead(pos, desc, m, s)
                   /\ \A y \in Nodes : item[y] # Nil =>
                        ~(Ahead(pos, desc, m, y) /\ Ahead(pos, desc, y, s))
<1>1. /\ count \in Nat /\ \A k \in 1..count : order[k] \in Nodes /\ item[order[k]] # Nil
      /\ \A n \in Nodes : item[n] # Nil => \E k \in 1..count : order[k] = n
  BY DequeAssumption DEF ListInv, ListTypeOK, WellLinked, ItemsOK
<1>2. /\ pos \in [Nodes -> Int]
      /\ \A j, k \in 1..count : j < k => pos[order[j]] < pos[order[k]]
  BY DEF LineOK
<1>3. \A k \in 1..count : pos[order[k]] \in Int
  BY <1>1, <1>2
<1>4. \A j, k \in 1..count : pos[order[j]] < pos[order[k]] => j < k
  BY <1>1, <1>2, <1>3
<1>5. ASSUME NEW y \in Nodes, item[y] # Nil
      PROVE  /\ firstNode(desc) \in Nodes /\ item[firstNode(desc)] # Nil
             /\ y = firstNode(desc) \/ Ahead(pos, desc, firstNode(desc), y)
  <2>1. PICK k \in 1..count : order[k] = y
    BY <1>1, <1>5
  <2>2. first = order[1] /\ last = order[count] /\ 1 \in 1..count /\ count \in 1..count
    BY <1>1, <2>1 DEF ListInv, WellLinked, EndsOK
  <2>3. (k = 1 \/ pos[order[1]] < pos[y]) /\ (k = count \/ pos[y] < pos[order[count]])
    BY <1>1, <1>2, <2>1, <2>2
  <2> QED
    BY <1>1, <2>1, <2>2, <2>3 DEF firstNode, Ahead
<1>6. ASSUME NEW m \in Nodes, item[m] # Nil
      PROVE  /\ nextNode(desc, m) = Nil =>
                  \A y \in Nodes : item[y] # Nil => ~Ahead(pos, desc, m, y)
             /\ nextNode(desc, m) # Nil =>
                  /\ nextNode(desc, m) \in Nodes /\ item[nextNode(desc, m)] # Nil
                  /\ Ahead(pos, desc, m, nextNode(desc, m))
                  /\ \A y \in Nodes : item[y] # Nil =>
                       ~(Ahead(pos, desc, m, y) /\ Ahead(pos, desc, y, nextNode(desc, m)))
  <2>1. PICK k \in 1..count : order[k] = m
    BY <1>1, <1>6
  <2>2. /\ prev[m] = IF k = 1 THEN Nil ELSE order[k - 1]
        /\ next[m] = IF k = count THEN Nil ELSE order[k + 1]
    BY <2>1 DEF ListInv, WellLinked, LinksOK
  <2>3. (k # 1 => k - 1 \in 1..count) /\ (k # count => k + 1 \in 1..count)
    BY <1>1
  <2>4. ASSUME NEW y \in Nodes, item[y] # Nil
        PROVE  /\ ~desc /\ next[m] = Nil => ~(pos[m] < pos[y])
               /\ desc /\ prev[m] = Nil => ~(pos[y] < pos[m])
               /\ ~desc /\ next[m] # Nil => ~(pos[m] < pos[y] /\ pos[y] < pos[next[m]])
               /\ desc /\ prev[m] # Nil => ~(pos[y] < pos[m] /\ pos[prev[m]] < pos[y])
    <3>1. PICK j \in 1..count : order[j] = y
      BY <1>1, <2>4
    <3>2. (pos[m] < pos[y] => k < j) /\ (pos[y] < pos[m] => j < k)
      BY <1>4, <2>1, <3>1
    <3>3. k # count => (pos[y] < pos[order[k + 1]] => j < k + 1)
      BY <1>4, <2>3, <3>1
    <3>4. k # 1 => (pos[order[k - 1]] < pos[y] => k - 1 < j)
      BY <1>4, <2>3, <3>1
    <3>5. Nil \notin Nodes
      BY DequeAssumption
    <3>6. (k < j => k # count) /\ (j < k => k # 1)
      BY <1>1
    <3>7. (next[m] = Nil => k = count) /\ (prev[m] = Nil => k = 1)
      BY <1>1, <2>2, <2>3, <3>5
    <3>8. ~(k < j /\ j < k + 1) /\ ~(j < k /\ k - 1 < j)
      BY <1>1
    <3> QED
      BY <2>2, <3>2, <3>3, <3>4, <3>6, <3>7, <3>8
  <2>5. /\ k # count => pos[m] < pos[order[k + 1]]
        /\ k # 1 => pos[order[k - 1]] < pos[m]
    BY <1>1, <1>2, <2>1, <2>3
  <2>6. CASE desc
    BY <1>1, <2>2, <2>3, <2>4, <2>5, <2>6 DEF nextNode, Ahead
  <2>7. CASE ~desc
    BY <1>1, <2>2, <2>3, <2>4, <2>5, <2>7 DEF nextNode, Ahead
  <2> QED
    BY <2>6, <2>7
<1> QED
  BY <1>5, <1>6

-----------------------------------------------------------------------------
(***************************************************************************)
(* A new node comes before or after all the others.                        *)
(***************************************************************************)

LEMMA AddedLine ==
  ASSUME ListInv, ListInv', NEW x, Added(x), NEW pos, NEW far, LineOK(pos, far)
  PROVE  \E pos2 \in [Nodes -> Int] :
           /\ \A n \in alloc : pos2[n] = pos[n]
           /\ \/ \A n \in alloc : pos2[x] < pos2[n]
              \/ \A n \in alloc : pos2[n] < pos2[x]
           /\ LineOK(pos2, far + 1)'
<1>1. /\ x \in Nodes /\ x \notin alloc /\ alloc' = alloc \cup {x} /\ count' = count + 1
      /\ pos \in [Nodes -> Int] /\ far \in Nat /\ count \in Nat /\ alloc \subseteq Nodes
      /\ \A n \in alloc : -far < pos[n] /\ pos[n] < far
      /\ \A m, n \in alloc : pos[m] = pos[n] => m = n
      /\ \A j, k \in 1..count : j < k => pos[order[j]] < pos[order[k]]
      /\ \A k \in 1..count : order[k] \in alloc
  BY DequeAssumption DEF Added, LineOK, ListInv, ListTypeOK
<1>2. ASSUME NEW v \in {-far, far},
             \A j, k \in 1..count' : j < k =>
                [pos EXCEPT ![x] = v][order'[j]] < [pos EXCEPT ![x] = v][order'[k]]
      PROVE  \E pos2 \in [Nodes -> Int] :
               /\ \A n \in alloc : pos2[n] = pos[n]
               /\ \/ \A n \in alloc : pos2[x] < pos2[n]
                  \/ \A n \in alloc : pos2[n] < pos2[x]
               /\ LineOK(pos2, far + 1)'
  <2> DEFINE pos2 == [pos EXCEPT ![x] = v]
  <2>1. /\ v \in Int /\ pos2 \in [Nodes -> Int] /\ pos2[x] = v
        /\ \A n \in alloc : n # x /\ pos2[n] = pos[n]
    BY <1>1
  <2>2. \/ \A n \in alloc : pos2[x] < pos2[n]
        \/ \A n \in alloc : pos2[n] < pos2[x]
    <3> HIDE DEF pos2
    <3>1. CASE v = -far
      BY <1>1, <2>1, <3>1
    <3>2. CASE v = far
      BY <1>1, <2>1, <3>2
    <3> QED
      BY <3>1, <3>2
  <2>3. \A j, k \in 1..count' : j < k => pos2[order'[j]] < pos2[order'[k]]
    BY <1>2
  <2> HIDE DEF pos2
  <2>4. \A m, n \in alloc' : pos2[m] = pos2[n] => m = n
    <3>1. \A n \in alloc : pos2[n] \in Int /\ pos2[x] \in Int
      BY <1>1, <2>1
    <3> QED
      BY <1>1, <2>1, <2>2, <3>1
  <2>5. \A n \in alloc' : -(far + 1) < pos2[n] /\ pos2[n] < far + 1
    <3>1. \A n \in alloc : pos[n] \in Int
      BY <1>1
    <3> QED
      BY <1>1, <2>1, <3>1
  <2>6. LineOK(pos2, far + 1)'
    BY <1>1, <2>1, <2>3, <2>4, <2>5 DEF LineOK
  <2> QED
    BY <2>1, <2>2, <2>6
<1>3. \A v \in Int : /\ [pos EXCEPT ![x] = v][x] = v
                     /\ \A n \in alloc : [pos EXCEPT ![x] = v][n] = pos[n]
  BY <1>1
<1>4. CASE order'[1] = x /\ \A k \in 1..count : order'[k + 1] = order[k]
  <2> DEFINE pos2 == [pos EXCEPT ![x] = -far]
  <2>1. \A j, k \in 1..count' : j < k => pos2[order'[j]] < pos2[order'[k]]
    <3> SUFFICES ASSUME NEW j \in 1..count', NEW k \in 1..count', j < k
                 PROVE  pos2[order'[j]] < pos2[order'[k]]
      OBVIOUS
    <3>1. k - 1 \in 1..count /\ order'[k] = order[k - 1]
      <4>1. k - 1 \in 1..count /\ (k - 1) + 1 = k
        BY <1>1
      <4> QED
        BY <1>4, <4>1
    <3>2. pos2[order'[k]] = pos[order[k - 1]]
      BY <1>1, <1>3, <3>1
    <3>3. CASE j = 1
      BY <1>1, <1>3, <1>4, <3>1, <3>2, <3>3
    <3>4. CASE j # 1
      <4>1. j - 1 \in 1..count /\ (j - 1) + 1 = j /\ j - 1 < k - 1
        BY <1>1, <3>4
      <4>2. order'[j] = order[j - 1]
        BY <1>4, <4>1
      <4>3. pos2[order'[j]] = pos[order[j - 1]]
        BY <1>1, <1>3, <4>1, <4>2
      <4> QED
        BY <1>1, <3>1, <3>2, <4>1, <4>3
    <3> QED
      BY <3>3, <3>4
  <2> QED
    BY <1>2, <2>1
<1>5. CASE order'[count + 1] = x /\ \A k \in 1..count : order'[k] = order[k]
  <2> DEFINE pos2 == [pos EXCEPT ![x] = far]
  <2>1. \A j, k \in 1..count' : j < k => pos2[order'[j]] < pos2[order'[k]]
    <3> SUFFICES ASSUME NEW j \in 1..count', NEW k \in 1..count', j < k
                 PROVE  pos2[order'[j]] < pos2[order'[k]]
      OBVIOUS
    <3>1. j \in 1..count /\ order'[j] = order[j]
      <4>1. j \in 1..count
        BY <1>1
      <4> QED
        BY <1>5, <4>1
    <3>2. pos2[order'[j]] = pos[order[j]]
      BY <1>1, <1>3, <3>1
    <3>3. CASE k = count + 1
      BY <1>1, <1>3, <1>5, <3>1, <3>2, <3>3
    <3>4. CASE k # count + 1
      <4>1. k \in 1..count
        BY <1>1, <3>4
      <4>2. pos2[order'[k]] = pos[order[k]]
        BY <1>1, <1>3, <1>5, <4>1
      <4> QED
        BY <1>1, <3>1, <3>2, <4>1, <4>2
    <3> QED
      BY <3>3, <3>4
  <2> QED
    BY <1>2, <2>1
<1> QED
  BY <1>4, <1>5 DEF Added

\* The links of removed nodes still lead where they did.
LEMMA AddedLeads ==
  ASSUME ListInv, NEW x, Added(x), NEW pos \in [Nodes -> Int], NEW pos2 \in [Nodes -> Int],
         \A n \in alloc : pos2[n] = pos[n],
         (\A n \in alloc : pos2[x] < pos2[n]) \/ (\A n \in alloc : pos2[n] < pos2[x]),
         NEW met \in [Nodes -> SUBSET Nodes], NEW desc \in BOOLEAN,
         NEW d \in alloc, met[d] \subseteq alloc, NEW s, Leads(pos, met, desc, d, s)
  PROVE  Leads(pos2, met, desc, d, s)'
<1>1. /\ x \in Nodes /\ x \notin alloc /\ alloc' = alloc \cup {x} /\ alloc \subseteq Nodes
      /\ \A n \in Nodes : n # x => item'[n] = item[n]
      /\ \A n \in Nodes : item[n] # Nil => n \in alloc
  BY LiveNodes DEF Added, Frame, ListInv, ListTypeOK
<1>2. \A m, n \in alloc : Ahead(pos2, desc, m, n) <=> Ahead(pos, desc, m, n)
  BY DEF Ahead
<1>3. \A y \in Nodes : item'[y] # Nil => y = x \/ (y \in alloc /\ item[y] # Nil)
  BY <1>1
<1>4. x \notin met[d]
  BY <1>1
<1>5. s \notin {Nil, d} =>
        /\ s \in alloc' /\ Ahead(pos2, desc, d, s)
        /\ item'[s] = Nil => met[d] \subseteq met[s]
        /\ \A y \in Nodes : item'[y] # Nil =>
             ~(Ahead(pos2, desc, d, y) /\ Ahead(pos2, desc, y, s))
  <2> SUFFICES ASSUME s \notin {Nil, d}
               PROVE  /\ s \in alloc' /\ Ahead(pos2, desc, d, s)
                      /\ item'[s] = Nil => met[d] \subseteq met[s]
                      /\ \A y \in Nodes : item'[y] # Nil =>
                           ~(Ahead(pos2, desc, d, y) /\ Ahead(pos2, desc, y, s))
    OBVIOUS
  <2>1. /\ s \in alloc /\ Ahead(pos, desc, d, s) /\ (item[s] = Nil => met[d] \subseteq met[s])
        /\ \A y \in Nodes : item[y] # Nil =>
             ~(Ahead(pos, desc, d, y) /\ Ahead(pos, desc, y, s))
    BY DEF Leads
  <2>2. item'[s] = item[s] /\ Ahead(pos2, desc, d, s) /\ s \in alloc'
    BY <1>1, <1>2, <2>1
  <2>3. ~(Ahead(pos2, desc, d, x) /\ Ahead(pos2, desc, x, s))
    <3>1. pos2[d] \in Int /\ pos2[s] \in Int /\ pos2[x] \in Int
      BY <1>1, <2>1
    <3> QED
      BY <2>1, <3>1 DEF Ahead
  <2> QED
    BY <1>2, <1>3, <2>1, <2>2, <2>3
<1>6. s = Nil => \A y \in Nodes : item'[y] # Nil /\ Ahead(pos2, desc, d, y) => y \notin met[d]
  BY <1>2, <1>3, <1>4 DEF Leads
<1>7. s = d => \A y \in Nodes : item'[y] # Nil /\ Ahead(pos2, desc, y, d) => y \notin met[d]
  BY <1>2, <1>3, <1>4 DEF Leads
<1> QED
  BY <1>5, <1>6, <1>7 DEF Leads

LEMMA AddedStands ==
  ASSUME ListInv, NEW x, Added(x), NEW pos, NEW pos2,
         \A n \in alloc : pos2[n] = pos[n], NEW met,
         NEW r \in IteratorRecord, NEW s \in SUBSET alloc, NEW t \in SUBSET alloc,
         Stands(pos, met, r, s, t)
  PROVE  Stands(pos2, met, r, s, t)'
<1>1. /\ x \in Nodes /\ x \notin alloc /\ alloc' = alloc \cup {x} /\ alloc \subseteq Nodes
      /\ \A n \in alloc : item'[n] = item[n]
  BY DEF Added, Frame, ListInv, ListTypeOK
<1>2. \A m, n \in alloc : Ahead(pos2, r.desc, m, n) <=> Ahead(pos, r.desc, m, n)
  BY DEF Ahead
<1>3. \A y \in s \cup t : y \in alloc /\ item'[y] = item[y]
  BY <1>1
<1>4. r.next # Nil => r.next \in alloc /\ item'[r.next] = item[r.next] /\ r.next \in alloc'
  BY <1>1 DEF Stands
<1> QED
  BY <1>2, <1>3, <1>4 DEF Stands

-----------------------------------------------------------------------------
(***************************************************************************)
(* A node is removed, and has met all the nodes allocated so far.          *)
(***************************************************************************)
LEMMA RemovedLine ==
  ASSUME ListInv, ListInv', NEW x, Removed(x), NEW pos, NEW far, LineOK(pos, far)
  PROVE  LineOK(pos, far)'
<1>1. PICK m \in 1..count :
        \A j \in 1..count' : order'[j] = order[IF j < m THEN j ELSE j + 1]
  BY DEF Removed
<1>2. count \in Nat /\ count' = count - 1
  BY DequeAssumption DEF Removed, ListInv, ListTypeOK
<1>3. ASSUME NEW j \in 1..count', NEW k \in 1..count', j < k
      PROVE  pos[order'[j]] < pos[order'[k]]
  <2> DEFINE a == IF j < m THEN j ELSE j + 1
             b == IF k < m THEN k ELSE k + 1
  <2>1. a \in 1..count /\ b \in 1..count /\ a < b
    BY <1>2, <1>3
  <2>2. order'[j] = order[a] /\ order'[k] = order[b]
    BY <1>1
  <2> HIDE DEF a, b
  <2> QED
    BY <2>1, <2>2 DEF LineOK
<1> QED
  BY <1>3 DEF LineOK, Removed

LEMMA RemovedLeads ==
  ASSUME ListInv, NEW x, Removed(x), NEW pos, NEW met \in [Nodes -> SUBSET Nodes],
         NEW met2, met2 = [met EXCEPT ![x] = alloc], NEW desc \in BOOLEAN,
         NEW d \in alloc, d # x, met[d] \subseteq alloc, NEW s, Leads(pos, met, desc, d, s)
  PROVE  Leads(pos, met2, desc, d, s)'
<1>1. /\ x \in Nodes /\ alloc' = alloc /\ item'[x] = Nil /\ alloc \subseteq Nodes
      /\ \A n \in Nodes : n # x => item'[n] = item[n]
      /\ met2[x] = alloc /\ \A n \in Nodes : n # x => met2[n] = met[n]
  BY DEF Removed, Frame, ListInv, ListTypeOK
<1>2. \A y \in Nodes : item'[y] # Nil => item[y] # Nil
  BY <1>1
<1>3. met2[d] = met[d]
  BY <1>1
<1>4. s \notin {Nil, d} /\ item'[s] = Nil => met2[d] \subseteq met2[s]
  <2> SUFFICES ASSUME s \notin {Nil, d}, item'[s] = Nil PROVE met[d] \subseteq met2[s]
    BY <1>3
  <2>1. s \in Nodes /\ (item[s] = Nil => met[d] \subseteq met[s])
    BY <1>1 DEF Leads
  <2> QED
    BY <1>1, <2>1
<1> QED
  BY <1>1, <1>2, <1>3, <1>4 DEF Leads

\* The links that the node itself keeps.
LEMMA LeadsOfRemoved ==
  ASSUME ListInv, ListInv', NEW x, Removed(x), NEW pos, NEW far, LineOK(pos, far),
         NEW met2, NEW desc \in BOOLEAN, NEW s,
         s = nextNode(desc, x) \/ (s = x /\ firstNode(desc) = x)
  PROVE  Leads(pos, met2, desc, x, s)'
<1>1. /\ x \in Nodes /\ item[x] # Nil /\ alloc' = alloc /\ item'[x] = Nil
      /\ \A n \in Nodes : n # x => item'[n] = item[n]
      /\ pos \in [Nodes -> Int]
  BY DEF Removed, Frame, LineOK
<1>2. \A y \in Nodes : item'[y] # Nil => item[y] # Nil /\ y # x
  BY <1>1
<1>3. CASE s = x /\ firstNode(desc) = x
  <2>1. \A y \in Nodes : item'[y] # Nil => ~Ahead(pos, desc, y, x)
    <3> SUFFICES ASSUME NEW y \in Nodes, item'[y] # Nil PROVE ~Ahead(pos, desc, y, x)
      OBVIOUS
    <3>1. Ahead(pos, desc, x, y)
      BY <1>2, <1>3, LiveLinks
    <3> QED
      BY <1>1, <3>1, AheadOrder
  <2>2. x # Nil
    BY <1>1, DequeAssumption
  <2> QED
    BY <1>3, <2>1, <2>2 DEF Leads
<1>4. CASE s = nextNode(desc, x)
  <2>0. nextNode(desc, x) = Nil => \A y \in Nodes : item[y] # Nil => ~Ahead(pos, desc, x, y)
    BY <1>1, LiveLinks
  <2>1. s = Nil => \A y \in Nodes : item[y] # Nil => ~Ahead(pos, desc, x, y)
    BY <1>4, <2>0
  <2>2. s # Nil => /\ s \in Nodes /\ item[s] # Nil /\ Ahead(pos, desc, x, s)
                   /\ \A y \in Nodes : item[y] # Nil =>
                        ~(Ahead(pos, desc, x, y) /\ Ahead(pos, desc, y, s))
    BY <1>1, <1>4, LiveLinks
  <2>3. s # x
    BY <1>1, <2>2, AheadOrder, DequeAssumption
  <2>4. s # Nil => s \in alloc /\ item'[s] # Nil
    BY <1>1, <2>2, <2>3, LiveNodes
  <2> QED
    BY <1>1, <1>2, <2>1, <2>2, <2>3, <2>4 DEF Leads
<1> QED
  BY <1>3, <1>4

LEMMA RemovedStands ==
  ASSUME ListInv, NEW x, Removed(x), NEW pos, NEW met \in [Nodes -> SUBSET Nodes],
         NEW met2, met2 = [met EXCEPT ![x] = alloc],
         NEW r \in IteratorRecord, NEW s \in SUBSET alloc, NEW t \in SUBSET alloc,
         Stands(pos, met, r, s, t)
  PROVE  Stands(pos, met2, r, s, t)'
<1>1. /\ x \in Nodes /\ alloc' = alloc /\ item'[x] = Nil /\ alloc \subseteq Nodes /\ item[x] # Nil
      /\ \A n \in Nodes : n # x => item'[n] = item[n]
      /\ met2[x] = alloc /\ \A n \in Nodes : n # x => met2[n] = met[n]
  BY DEF Removed, Frame, ListInv, ListTypeOK
<1>2. \A y \in s \cup t : y \in Nodes /\ (item'[y] # Nil => item[y] # Nil)
  BY <1>1
<1>3. r.next # Nil => /\ r.next \in alloc /\ item'[r.next] \in {Nil, r.nextItem}
                      /\ item'[r.next] = Nil => s \subseteq met2[r.next] /\ t \subseteq met2[r.next]
  <2> SUFFICES ASSUME r.next # Nil
               PROVE  /\ r.next \in alloc /\ item'[r.next] \in {Nil, r.nextItem}
                      /\ item'[r.next] = Nil => s \subseteq met2[r.next] /\ t \subseteq met2[r.next]
    OBVIOUS
  <2>1. /\ r.next \in alloc /\ item[r.next] \in {Nil, r.nextItem}
        /\ item[r.next] = Nil => s \subseteq met[r.next] /\ t \subseteq met[r.next]
    BY DEF Stands
  <2> QED
    BY <1>1, <2>1
<1> QED
  BY <1>1, <1>2, <1>3 DEF Stands

-----------------------------------------------------------------------------
(***************************************************************************)
(* Whatever a step does to the list, iterators stand as well as before.    *)
(***************************************************************************)
Kept(pos, met, pos2, met2) ==
  \A r \in IteratorRecord, s, t \in SUBSET alloc :
    Stands(pos, met, r, s, t) => Stands(pos2, met2, r, s, t)'

LEMMA AddedGraves ==
  ASSUME ListInv, ListInv', NEW x, Added(x), NEW pos, NEW far, NEW met, GravesOK(pos, far, met)
  PROVE  \E pos2, far2, met2 : GravesOK(pos2, far2, met2)' /\ Kept(pos, met, pos2, met2)
<1>1. LineOK(pos, far) /\ met \in [Nodes -> SUBSET Nodes] /\ RemovedOK(pos, met)
  BY DEF GravesOK
<1>2. PICK pos2 \in [Nodes -> Int] :
           /\ \A n \in alloc : pos2[n] = pos[n]
           /\ \/ \A n \in alloc : pos2[x] < pos2[n]
              \/ \A n \in alloc : pos2[n] < pos2[x]
           /\ LineOK(pos2, far + 1)'
  BY <1>1, AddedLine
<1>3. RemovedOK(pos2, met)'
  <2> SUFFICES ASSUME NEW d \in alloc', item'[d] = Nil
               PROVE  /\ met[d] \subseteq alloc'
                      /\ Leads(pos2, met, FALSE, d, next[d])'
                      /\ Leads(pos2, met, TRUE, d, prev[d])'
    BY DEF RemovedOK
  <2>1. /\ x \in Nodes /\ alloc' = alloc \cup {x} /\ item'[x] # Nil /\ d # x
        /\ d \in alloc /\ d \in Nodes /\ item[d] = Nil
        /\ next'[d] = next[d] /\ prev'[d] = prev[d]
    BY DEF Added, Frame, ListInv, ListTypeOK
  <2>2. /\ met[d] \subseteq alloc /\ Leads(pos, met, FALSE, d, next[d])
        /\ Leads(pos, met, TRUE, d, prev[d])
    BY <1>1, <2>1 DEF RemovedOK
  <2>3. pos \in [Nodes -> Int]
    BY <1>1 DEF LineOK
  <2>4. \A s : Leads(pos, met, FALSE, d, s) => Leads(pos2, met, FALSE, d, s)'
    BY <1>1, <1>2, <2>1, <2>2, <2>3, AddedLeads
  <2>5. \A s : Leads(pos, met, TRUE, d, s) => Leads(pos2, met, TRUE, d, s)'
    BY <1>1, <1>2, <2>1, <2>2, <2>3, AddedLeads
  <2>6. PICK s1, s2 : s1 = next[d] /\ s2 = prev[d]
    OBVIOUS
  <2>7. Leads(pos2, met, FALSE, d, s1)' /\ Leads(pos2, met, TRUE, d, s2)'
    BY <2>2, <2>4, <2>5, <2>6
  <2> QED
    BY <2>1, <2>2, <2>6, <2>7 DEF Leads
<1>4. Kept(pos, met, pos2, met)
  BY <1>2, AddedStands DEF Kept
<1>5. GravesOK(pos2, far + 1, met)'
  BY <1>1, <1>2, <1>3 DEF GravesOK
<1> QED
  BY <1>4, <1>5

LEMMA RemovedGraves ==
  ASSUME ListInv, ListInv', NEW x, Removed(x), NEW pos, NEW far, NEW met,
         GravesOK(pos, far, met)
  PROVE  \E pos2, far2, met2 : GravesOK(pos2, far2, met2)' /\ Kept(pos, met, pos2, met2)
<1>1. LineOK(pos, far) /\ met \in [Nodes -> SUBSET Nodes] /\ RemovedOK(pos, met)
  BY DEF GravesOK
<1>2. PICK met2 : met2 = [met EXCEPT ![x] = alloc]
  OBVIOUS
<1>3. /\ x \in Nodes /\ alloc' = alloc /\ item'[x] = Nil /\ alloc \subseteq Nodes
      /\ met2 \in [Nodes -> SUBSET Nodes] /\ met2[x] = alloc
      /\ \A n \in Nodes : n # x => met2[n] = met[n]
  BY <1>1, <1>2 DEF Removed, ListInv, ListTypeOK
<1>4. RemovedOK(pos, met2)'
  <2> SUFFICES ASSUME NEW d \in alloc', item'[d] = Nil
               PROVE  /\ met2[d] \subseteq alloc'
                      /\ Leads(pos, met2, FALSE, d, next[d])'
                      /\ Leads(pos, met2, TRUE, d, prev[d])'
    BY DEF RemovedOK
  <2>0. PICK s1, s2 : s1 = next'[d] /\ s2 = prev'[d]
    OBVIOUS
  <2>1. CASE d # x
    <3>1. d \in alloc /\ item[d] = Nil /\ next'[d] = next[d] /\ prev'[d] = prev[d]
      BY <1>3, <2>1 DEF Removed, Frame
    <3>2. /\ met[d] \subseteq alloc /\ Leads(pos, met, FALSE, d, s1)
          /\ Leads(pos, met, TRUE, d, s2)
      BY <1>1, <2>0, <3>1 DEF RemovedOK
    <3>3. Leads(pos, met2, FALSE, d, s1)' /\ Leads(pos, met2, TRUE, d, s2)'
      BY <1>1, <1>2, <2>1, <3>1, <3>2, RemovedLeads
    <3> QED
      BY <1>3, <2>0, <2>1, <3>2, <3>3 DEF Leads
  <2>2. CASE d = x
    <3>1. /\ s1 = nextNode(FALSE, x) \/ (s1 = x /\ firstNode(FALSE) = x)
          /\ s2 = nextNode(TRUE, x) \/ (s2 = x /\ firstNode(TRUE) = x)
      BY <2>0, <2>2 DEF Removed, nextNode, firstNode
    <3>2. Leads(pos, met2, FALSE, x, s1)' /\ Leads(pos, met2, TRUE, x, s2)'
      BY <1>1, <3>1, LeadsOfRemoved
    <3> QED
      BY <1>3, <2>0, <2>2, <3>2 DEF Leads
  <2> QED
    BY <2>1, <2>2
<1>5. Kept(pos, met, pos, met2)
  BY <1>1, <1>2, RemovedStands DEF Kept
<1>6. GravesOK(pos, far, met2)'
  BY <1>1, <1>3, <1>4, RemovedLine DEF GravesOK
<1> QED
  BY <1>5, <1>6

LEMMA SameGraves ==
  ASSUME UNCHANGED listVars, NEW pos, NEW far, NEW met, GravesOK(pos, far, met)
  PROVE  GravesOK(pos, far, met)' /\ Kept(pos, met, pos, met)
<1>1. /\ first' = first /\ last' = last /\ count' = count /\ item' = item /\ prev' = prev
      /\ next' = next /\ alloc' = alloc /\ order' = order
  BY DEF listVars
<1>2. LineOK(pos, far)'
  BY <1>1 DEF GravesOK, LineOK
<1>3. RemovedOK(pos, met)'
  <2>1. \A desc, d, s : Leads(pos, met, desc, d, s) => Leads(pos, met, desc, d, s)'
    BY <1>1 DEF Leads
  <2>2. PICK s1, s2 : s1 = next /\ s2 = prev
    OBVIOUS
  <2>3. \A d \in alloc : item[d] = Nil =>
          /\ met[d] \subseteq alloc
          /\ Leads(pos, met, FALSE, d, s1[d]) /\ Leads(pos, met, TRUE, d, s2[d])
    BY <2>2 DEF GravesOK, RemovedOK
  <2>4. \A d \in alloc : item[d] = Nil =>
          /\ met[d] \subseteq alloc
          /\ Leads(pos, met, FALSE, d, s1[d])' /\ Leads(pos, met, TRUE, d, s2[d])'
    BY <2>1, <2>3
  <2> QED
    BY <1>1, <2>2, <2>4 DEF RemovedOK, Leads
<1>4. Kept(pos, met, pos, met)
  BY <1>1 DEF Kept, Stands
<1> QED
  BY <1>2, <1>3, <1>4 DEF GravesOK

LEMMA ChangeKeepsGraves ==
  ASSUME ListInv, ListInv', ListChange, NEW pos, NEW far, NEW met, GravesOK(pos, far, met)
  PROVE  /\ alloc \subseteq alloc'
         /\ \E pos2, far2, met2 : GravesOK(pos2, far2, met2)' /\ Kept(pos, met, pos2, met2)
<1>1. alloc \subseteq alloc'
  BY DEF ListChange, Added, Removed, listVars
<1> QED
  BY <1>1, AddedGraves, RemovedGraves, SameGraves DEF ListChange

-----------------------------------------------------------------------------
(***************************************************************************)
(* The loop of succ.  Positions grow along the links it follows, so it     *)
(* ends; and between the node it starts from and the node it stops at      *)
(* there is no node of the list.                                           *)
(***************************************************************************)
\* One turn of the loop goes on to a removed node.
LEMMA SkipStep ==
  ASSUME ListInv, NEW pos, NEW far, NEW met, GravesOK(pos, far, met), NEW desc \in BOOLEAN,
         NEW z \in alloc, Skips(desc, z)
  PROVE  LET s == nextNode(desc, z) IN
         /\ item[z] = Nil /\ s \in alloc /\ item[s] = Nil /\ Ahead(pos, desc, z, s)
         /\ met[z] \subseteq met[s]
         /\ \A y \in Nodes : item[y] # Nil /\ Ahead(pos, desc, z, y) => Ahead(pos, desc, s, y)
<1> DEFINE s == nextNode(desc, z)
<1>1. /\ alloc \subseteq Nodes /\ z \in Nodes /\ pos \in [Nodes -> Int]
      /\ \A m, n \in alloc : pos[m] = pos[n] => m = n
      /\ LineOK(pos, far)
  BY DEF GravesOK, LineOK, ListInv, ListTypeOK
<1>2. s \notin {Nil, z} /\ item[s] = Nil
  BY DEF Skips
<1>3. item[z] = Nil
  <2> SUFFICES ASSUME item[z] # Nil PROVE FALSE
    OBVIOUS
  <2>1. s # Nil => item[s] # Nil
    BY <1>1, LiveLinks
  <2> QED
    BY <1>2, <2>1
<1>4. Leads(pos, met, desc, z, s)
  BY <1>3 DEF GravesOK, RemovedOK, nextNode
<1> HIDE DEF s
<1>5. /\ s \in alloc /\ Ahead(pos, desc, z, s) /\ met[z] \subseteq met[s]
      /\ \A y \in Nodes : item[y] # Nil => ~(Ahead(pos, desc, z, y) /\ Ahead(pos, desc, y, s))
  BY <1>2, <1>4 DEF Leads
<1>6. ASSUME NEW y \in Nodes, item[y] # Nil, Ahead(pos, desc, z, y) PROVE Ahead(pos, desc, s, y)
  <2>1. y \in alloc /\ y # s
    BY <1>2, <1>6, LiveNodes
  <2>2. pos[y] # pos[s]
    BY <1>1, <1>5, <2>1
  <2> QED
    BY <1>1, <1>5, <1>6, <2>2, AheadOrder
<1> QED
  BY <1>2, <1>3, <1>5, <1>6 DEF s

\* The nodes that the loop reaches.
LEMMA ReachedNodes ==
  ASSUME ListInv, NEW pos, NEW far, NEW met, GravesOK(pos, far, met), NEW desc \in BOOLEAN,
         NEW m \in alloc, NEW e \in Nodes, Reaches(desc, m, e)
  PROVE  /\ e \in alloc
         /\ \/ e = m
            \/ /\ item[m] = Nil /\ item[e] = Nil /\ Ahead(pos, desc, m, e)
               /\ met[m] \subseteq met[e]
               /\ \A y \in Nodes : item[y] # Nil /\ Ahead(pos, desc, m, y) => Ahead(pos, desc, e, y)
<1> DEFINE S == {z \in alloc :
                   \/ z = m
                   \/ /\ item[m] = Nil /\ item[z] = Nil /\ Ahead(pos, desc, m, z)
                      /\ met[m] \subseteq met[z]
                      /\ \A y \in Nodes : item[y] # Nil /\ Ahead(pos, desc, m, y)
                                            => Ahead(pos, desc, z, y)}
<1>1. S \in SUBSET Nodes /\ m \in S /\ alloc \subseteq Nodes /\ pos \in [Nodes -> Int]
  BY DEF ListInv, ListTypeOK, GravesOK, LineOK
<1>2. ASSUME NEW z \in S, Skips(desc, z) PROVE nextNode(desc, z) \in S
  <2> DEFINE s == nextNode(desc, z)
  <2>1. /\ item[z] = Nil /\ s \in alloc /\ item[s] = Nil /\ Ahead(pos, desc, z, s)
        /\ met[z] \subseteq met[s]
        /\ \A y \in Nodes : item[y] # Nil /\ Ahead(pos, desc, z, y) => Ahead(pos, desc, s, y)
    BY <1>2, SkipStep
  <2> HIDE DEF s
  <2>2. ASSUME z = m PROVE s \in S
    BY <2>1, <2>2
  <2>3. ASSUME z # m PROVE s \in S
    <3>1. /\ item[m] = Nil /\ Ahead(pos, desc, m, z) /\ met[m] \subseteq met[z]
          /\ \A y \in Nodes : item[y] # Nil /\ Ahead(pos, desc, m, y) => Ahead(pos, desc, z, y)
      BY <2>3
    <3>2. Ahead(pos, desc, m, s)
      BY <1>1, <2>1, <3>1, AheadOrder
    <3> QED
      BY <2>1, <3>1, <3>2
  <2>4. s \in S
    BY <2>2, <2>3
  <2> QED
    BY <2>4 DEF s
<1> HIDE DEF S
<1>3. e \in S
  BY <1>1, <1>2 DEF Reaches
<1> QED
  BY <1>3 DEF S

LEMMA LoopEnds ==
  ASSUME ListInv, NEW pos, NEW far, NEW met, GravesOK(pos, far, met), NEW desc \in BOOLEAN,
         NEW m \in alloc
  PROVE  LET e == StopNode(desc, m) IN
         e \in Nodes /\ ~Skips(desc, e) /\ Reaches(desc, m, e)
<1> DEFINE R == {e \in Nodes : Reaches(desc, m, e)}
           rank(e) == IF desc THEN far + pos[e] ELSE far - pos[e]
           T == {rank(e) : e \in R}
<1>1. /\ alloc \subseteq Nodes /\ pos \in [Nodes -> Int] /\ far \in Nat
      /\ \A n \in alloc : -far < pos[n] /\ pos[n] < far
  BY DEF GravesOK, LineOK, ListInv, ListTypeOK
<1>2. R \subseteq alloc
  BY ReachedNodes
<1>3. m \in R
  BY <1>1 DEF Reaches
<1>4. \A e \in alloc : rank(e) \in Nat
  <2> SUFFICES ASSUME NEW e \in alloc PROVE rank(e) \in Nat
    OBVIOUS
  <2>1. pos[e] \in Int /\ -far < pos[e] /\ pos[e] < far
    BY <1>1
  <2> QED
    BY <1>1, <2>1
<1>5. \A a, b \in alloc : Ahead(pos, desc, a, b) => rank(b) < rank(a)
  <2> SUFFICES ASSUME NEW a \in alloc, NEW b \in alloc, Ahead(pos, desc, a, b)
               PROVE  rank(b) < rank(a)
    OBVIOUS
  <2>1. pos[a] \in Int /\ pos[b] \in Int
    BY <1>1
  <2> QED
    BY <1>1, <2>1 DEF Ahead
<1> HIDE DEF rank
<1>6. PICK k \in T : \A j \in T : k <= j
  <2>1. T \in SUBSET Nat /\ T # {}
    BY <1>2, <1>3, <1>4
  <2> HIDE DEF T
  <2> QED
    BY <2>1, LeastNumber
<1>7. PICK e \in R : \A f \in R : rank(e) <= rank(f)
  BY <1>6
<1>8. ~Skips(desc, e)
  <2> SUFFICES ASSUME Skips(desc, e) PROVE FALSE
    OBVIOUS
  <2> DEFINE s == nextNode(desc, e)
  <2>1. s \in alloc /\ Ahead(pos, desc, e, s)
    BY <1>2, SkipStep
  <2>2. Reaches(desc, m, s)
    BY <1>1, <2>1 DEF Reaches
  <2> HIDE DEF s
  <2>3. s \in R /\ rank(s) < rank(e)
    BY <1>1, <1>2, <1>5, <2>1, <2>2
  <2>4. rank(e) <= rank(s) /\ rank(e) \in Nat /\ rank(s) \in Nat
    BY <1>2, <1>4, <1>7, <2>3
  <2> QED
    BY <2>3, <2>4
<1>9. \E x \in Nodes : ~Skips(desc, x) /\ Reaches(desc, m, x)
  BY <1>8
<1> QED
  BY <1>9 DEF StopNode

(***************************************************************************)
(* The node after m, for an iterator: the next node of the list; nil, when *)
(* the list has no more nodes that m had met; or the first node, when no   *)
(* node that m had met is left before it.                                  *)
(***************************************************************************)
Onward(pos, desc, m, n) ==
  /\ n # Nil /\ Ahead(pos, desc, m, n)
  /\ \A y \in Nodes : item[y] # Nil /\ Ahead(pos, desc, m, y) =>
       y = n \/ Ahead(pos, desc, n, y)

AtEnd(pos, met, desc, m, n) ==
  /\ n = Nil
  /\ \A y \in Nodes : item[y] # Nil /\ Ahead(pos, desc, m, y) =>
       item[m] = Nil /\ y \notin met[m]

Again(pos, met, desc, m, n) ==
  /\ item[m] = Nil
  /\ \A y \in Nodes : item[y] # Nil /\ Ahead(pos, desc, y, m) => y \notin met[m]
  /\ \A y \in Nodes : item[y] # Nil => n # Nil /\ (y = n \/ Ahead(pos, desc, n, y))

LEMMA SuccSound ==
  ASSUME ListInv, NEW pos, NEW far, NEW met, GravesOK(pos, far, met), NEW desc \in BOOLEAN,
         NEW m \in alloc
  PROVE  LET n == succ(desc, m) IN
         /\ n # Nil => n \in Nodes /\ item[n] # Nil
         /\ Onward(pos, desc, m, n) \/ AtEnd(pos, met, desc, m, n) \/ Again(pos, met, desc, m, n)
<1> DEFINE Sound(n) ==
             /\ n # Nil => n \in Nodes /\ item[n] # Nil
             /\ \/ Onward(pos, desc, m, n) \/ AtEnd(pos, met, desc, m, n)
                \/ Again(pos, met, desc, m, n)
<1> SUFFICES Sound(succ(desc, m))
  OBVIOUS
<1> DEFINE e == StopNode(desc, m)
           s == nextNode(desc, e)
           n == succ(desc, m)
<1>1. e \in Nodes /\ ~Skips(desc, e) /\ Reaches(desc, m, e)
  BY LoopEnds
<1>2. n = IF s = Nil THEN Nil ELSE IF item[s] # Nil THEN s ELSE firstNode(desc)
  BY DEF succ
<1>3. s \in {Nil, e} \/ item[s] # Nil
  BY <1>1 DEF Skips
<1> HIDE DEF e, n
<1>4. /\ e \in alloc
      /\ \/ e = m
         \/ /\ item[m] = Nil /\ item[e] = Nil /\ Ahead(pos, desc, m, e)
            /\ met[m] \subseteq met[e]
            /\ \A y \in Nodes : item[y] # Nil /\ Ahead(pos, desc, m, y) => Ahead(pos, desc, e, y)
  BY <1>1, ReachedNodes
<1>5. /\ alloc \subseteq Nodes /\ pos \in [Nodes -> Int] /\ LineOK(pos, far)
      /\ \A a, b \in alloc : pos[a] = pos[b] => a = b
      /\ m \in Nodes
  BY DEF GravesOK, LineOK, ListInv, ListTypeOK
<1>6. /\ \A y \in Nodes : item[y] # Nil /\ Ahead(pos, desc, m, y) => Ahead(pos, desc, e, y)
      /\ e = m \/ Ahead(pos, desc, m, e)
      /\ item[e] = Nil => item[m] = Nil /\ met[m] \subseteq met[e]
  BY <1>4
<1>7. firstNode(desc) # Nil => firstNode(desc) \in Nodes /\ item[firstNode(desc)] # Nil
  BY LiveNodes DEF firstNode
<1>8. ASSUME item[e] # Nil PROVE Sound(n)
  <2>1. e = m
    BY <1>4, <1>8
  <2>2. /\ s = Nil => \A y \in Nodes : item[y] # Nil => ~Ahead(pos, desc, e, y)
        /\ s # Nil => /\ s \in Nodes /\ item[s] # Nil /\ Ahead(pos, desc, e, s)
                      /\ \A y \in Nodes : item[y] # Nil =>
                           ~(Ahead(pos, desc, e, y) /\ Ahead(pos, desc, y, s))
    BY <1>1, <1>5, <1>8, LiveLinks
  <2> HIDE DEF s
  <2>3. ASSUME s = Nil PROVE Sound(n)
    BY <1>2, <2>1, <2>2, <2>3 DEF AtEnd
  <2>4. ASSUME s # Nil PROVE Sound(n)
    <3>1. n = s /\ n # Nil /\ n \in Nodes /\ item[n] # Nil /\ n \in alloc /\ Ahead(pos, desc, m, n)
      BY <1>2, <2>1, <2>2, <2>4, LiveNodes
    <3>2. ASSUME NEW y \in Nodes, item[y] # Nil, Ahead(pos, desc, m, y), y # n
          PROVE  Ahead(pos, desc, n, y)
      <4>1. y \in alloc /\ pos[y] # pos[n]
        BY <1>5, <3>1, <3>2, LiveNodes
      <4>2. ~Ahead(pos, desc, y, n)
        BY <2>1, <2>2, <2>4, <3>1, <3>2
      <4> QED
        BY <1>5, <3>1, <4>1, <4>2, AheadOrder
    <3> QED
      BY <3>1, <3>2 DEF Onward
  <2> QED
    BY <2>3, <2>4
<1>9. ASSUME item[e] = Nil PROVE Sound(n)
  <2>1. Leads(pos, met, desc, e, s)
    BY <1>4, <1>9 DEF GravesOK, RemovedOK, nextNode
  <2>2. e # Nil
    BY <1>1, DequeAssumption
  <2> HIDE DEF s
  <2>3. ASSUME s = Nil PROVE Sound(n)
    <3>1. \A y \in Nodes : item[y] # Nil /\ Ahead(pos, desc, e, y) => y \notin met[e]
      BY <2>1, <2>3 DEF Leads
    <3> QED
      BY <1>2, <1>6, <1>9, <2>3, <3>1 DEF AtEnd
  <2>4. ASSUME s = e PROVE Sound(n)
    <3>1. \A y \in Nodes : item[y] # Nil /\ Ahead(pos, desc, y, e) => y \notin met[e]
      BY <2>1, <2>4 DEF Leads
    <3>2. \A y \in Nodes : item[y] # Nil /\ Ahead(pos, desc, y, m) => y \notin met[m]
      <4> SUFFICES ASSUME NEW y \in Nodes, item[y] # Nil, Ahead(pos, desc, y, m)
                   PROVE  y \notin met[m]
        OBVIOUS
      <4>1. Ahead(pos, desc, y, e)
        BY <1>1, <1>5, <1>6, AheadOrder
      <4> QED
        BY <1>6, <1>9, <3>1, <4>1
    <3>3. n = firstNode(desc)
      BY <1>2, <1>9, <2>2, <2>4
    <3>4. \A y \in Nodes : item[y] # Nil => n # Nil /\ (y = n \/ Ahead(pos, desc, n, y))
      BY <1>5, <3>3, LiveLinks, DequeAssumption
    <3> QED
      BY <1>6, <1>7, <1>9, <3>2, <3>3, <3>4 DEF Again
  <2>5. ASSUME s \notin {Nil, e} PROVE Sound(n)
    <3>1. /\ s \in alloc /\ Ahead(pos, desc, e, s) /\ item[s] # Nil
          /\ \A y \in Nodes : item[y] # Nil => ~(Ahead(pos, desc, e, y) /\ Ahead(pos, desc, y, s))
      BY <1>3, <2>1, <2>5 DEF Leads
    <3>2. n = s /\ n \in Nodes /\ n # Nil /\ Ahead(pos, desc, m, n)
      BY <1>1, <1>2, <1>5, <1>6, <2>5, <3>1, AheadOrder
    <3>3. ASSUME NEW y \in Nodes, item[y] # Nil, Ahead(pos, desc, m, y), y # n
          PROVE  Ahead(pos, desc, n, y)
      <4>1. y \in alloc /\ pos[y] # pos[n]
        BY <1>5, <3>1, <3>2, <3>3, LiveNodes
      <4>2. ~Ahead(pos, desc, y, n)
        BY <1>6, <3>1, <3>2, <3>3
      <4> QED
        BY <1>5, <3>2, <4>1, <4>2, AheadOrder
    <3> QED
      BY <3>1, <3>2, <3>3 DEF Onward
  <2> QED
    BY <2>3, <2>4, <2>5
<1> QED
  BY <1>8, <1>9 DEF n

-----------------------------------------------------------------------------
(***************************************************************************)
(* Steps of the deque, and of one iterator.                                *)
(***************************************************************************)
LEMMA NodesAllocated ==
  ASSUME ListInv
  PROVE  Nil \notin alloc /\ alloc \subseteq Nodes
BY DequeAssumption DEF ListInv, ListTypeOK

\* The deque takes a step; an iterator may forget the node it returned last.
LEMMA ListMoves ==
  ASSUME IterInv, [Next]_vars, IterType', start' = start, returned' = returned,
         \A j \in Iters : \/ it'[j] = it[j]
                          \/ Open(j) /\ it'[j] = [it[j] EXCEPT !.lastRet = Nil]
  PROVE  IterInv'
<1>1. Inv /\ ListInv
  BY DEF IterInv, Inv
<1>2. Inv' /\ ListInv'
  BY <1>1, ListStep, CallStep DEF Inv
<1>3. PICK pos, far, met :
        GravesOK(pos, far, met) /\ \A i \in Iters : IteratorOK(pos, met, i)
  BY DEF IterInv
<1>4. alloc \subseteq alloc'
  BY <1>1, <1>2, <1>3, DequeChange, ChangeKeepsGraves
<1>5. PICK pos2, far2, met2 : GravesOK(pos2, far2, met2)' /\ Kept(pos, met, pos2, met2)
  BY <1>1, <1>2, <1>3, DequeChange, ChangeKeepsGraves
<1>6. ASSUME NEW j \in Iters PROVE IteratorOK(pos2, met2, j)'
  <2>1. start[j] \subseteq alloc /\ returned[j] \subseteq alloc
    BY <1>3 DEF IteratorOK
  <2>2. CASE ~Open(j)
    BY <1>3, <1>4, <2>1, <2>2 DEF IteratorOK, Open
  <2>3. CASE Open(j)
    <3>1. /\ it[j] \in IteratorRecord /\ it[j].lastRet \in returned[j] \cup {Nil}
          /\ Stands(pos, met, it[j], start[j], returned[j])
      BY <1>3, <2>3 DEF IteratorOK
    <3>2. PICK r, s, t : r = it[j] /\ s = start[j] /\ t = returned[j]
      OBVIOUS
    <3>3. Stands(pos2, met2, r, s, t)'
      BY <1>5, <2>1, <3>1, <3>2 DEF Kept
    <3>4. PICK q : q = it'[j]
      OBVIOUS
    <3>5. /\ q \in IteratorRecord /\ q.lastRet \in t \cup {Nil}
          /\ q.next = r.next /\ q.desc = r.desc /\ q.nextItem = r.nextItem
      BY <3>1, <3>2, <3>4 DEF IteratorRecord, Pointer
    <3>6. Stands(pos2, met2, q, s, t)'
      BY <3>3, <3>5 DEF Stands
    <3>7. Stands(pos2, met2, it[j], start[j], returned[j])'
      BY <3>2, <3>4, <3>6 DEF Stands
    <3>8. Open(j)'
      BY <3>4, <3>5, IteratorAssumption DEF Open
    <3> QED
      BY <1>4, <2>1, <3>2, <3>4, <3>5, <3>7, <3>8 DEF IteratorOK
  <2> QED
    BY <2>2, <2>3
<1> QED
  BY <1>2, <1>5, <1>6 DEF IterInv

\* One iterator does something that leaves the deque alone.
LEMMA IteratorMoves ==
  ASSUME IterInv, UNCHANGED vars, IterType', NEW i \in Iters,
         \A j \in Iters : j # i =>
           it'[j] = it[j] /\ start'[j] = start[j] /\ returned'[j] = returned[j],
         NEW pos, NEW far, NEW met, GravesOK(pos, far, met),
         \A j \in Iters : IteratorOK(pos, met, j), IteratorOK(pos, met, i)'
  PROVE  IterInv'
<1>1. UNCHANGED listVars
  BY DEF vars
<1>2. Inv'
  BY ListStep, CallStep DEF IterInv, Inv
<1>3. GravesOK(pos, far, met)' /\ Kept(pos, met, pos, met)
  BY <1>1, SameGraves
<1>4. ASSUME NEW j \in Iters, j # i PROVE IteratorOK(pos, met, j)'
  <2>1. PICK r, s, t : r = it[j] /\ s = start[j] /\ t = returned[j]
    OBVIOUS
  <2>2. /\ s \subseteq alloc /\ t \subseteq alloc
        /\ r # Nil => /\ r \in IteratorRecord /\ r.lastRet \in t \cup {Nil}
                      /\ Stands(pos, met, r, s, t)
        /\ r = Nil => s = {} /\ t = {}
    BY <2>1 DEF IteratorOK, Open
  <2>3. r # Nil => Stands(pos, met, r, s, t)'
    BY <1>3, <2>2 DEF Kept
  <2>4. it'[j] = r /\ start'[j] = s /\ returned'[j] = t /\ alloc' = alloc
    BY <1>1, <1>4, <2>1 DEF listVars
  <2> QED
    BY <2>2, <2>3, <2>4 DEF IteratorOK, Open, Stands
<1> QED
  BY <1>2, <1>3, <1>4 DEF IterInv

\* Remove: unlinks the node returned last, if it is still in the list.
LEMMA RemoveStep ==
  ASSUME IterInv, NEW i \in Iters, Remove(i)
  PROVE  [Next]_vars /\ IterInv'
<1>1. it[i] # Nil /\ it[i].lastRet # Nil /\ it[i] \in IteratorRecord /\ it[i].lastRet \in Nodes
  <2>1. it[i] # Nil /\ it[i].lastRet # Nil
    BY DEF Remove, Open
  <2>2. it[i] \in IteratorRecord
    BY <2>1 DEF IterInv, IterType
  <2>3. it[i].lastRet \in Pointer
    BY <2>2 DEF IteratorRecord
  <2> QED
    BY <2>1, <2>2, <2>3 DEF Pointer
<1>2. [Next]_vars
  BY <1>1 DEF Remove, Next
<1>3. it' = [it EXCEPT ![i] = [it[i] EXCEPT !.lastRet = Nil]] /\ start' = start /\ returned' = returned
  BY DEF Remove
<1>4. IterType /\ [it[i] EXCEPT !.lastRet = Nil] \in IteratorRecord
  BY <1>1 DEF IterInv, IteratorRecord, Pointer
<1>5. IterType'
  BY <1>3, <1>4 DEF IterType
<1>6. \A j \in Iters : \/ it'[j] = it[j]
                       \/ Open(j) /\ it'[j] = [it[j] EXCEPT !.lastRet = Nil]
  BY <1>1, <1>3, <1>4 DEF IterType, Open
<1> QED
  BY <1>2, <1>3, <1>5, <1>6, ListMoves

LEMMA DropStep ==
  ASSUME IterInv, NEW i \in Iters, Drop(i)
  PROVE  IterInv'
<1>1. PICK pos, far, met :
        GravesOK(pos, far, met) /\ \A j \in Iters : IteratorOK(pos, met, j)
  BY DEF IterInv
<1>2. IterType /\ IterType'
  BY DEF IterInv, IterType, Drop
<1>3. it'[i] = Nil /\ start'[i] = {} /\ returned'[i] = {}
  BY <1>2 DEF Drop, IterType
<1>4. IteratorOK(pos, met, i)'
  BY <1>3 DEF IteratorOK, Open
<1> QED
  BY <1>1, <1>2, <1>4, IteratorMoves DEF Drop, IterType

LEMMA NewStep ==
  ASSUME IterInv, NEW i \in Iters, NEW desc \in BOOLEAN, NewIterator(i, desc)
  PROVE  IterInv'
<1> DEFINE f == firstNode(desc)
           r == [next |-> f, lastRet |-> Nil, desc |-> desc, nextItem |-> itemOf(f)]
<1>1. PICK pos, far, met :
        GravesOK(pos, far, met) /\ \A j \in Iters : IteratorOK(pos, met, j)
  BY DEF IterInv
<1>2. ListInv /\ IterType
  BY DEF IterInv, Inv
<1>3. ~Open(i) /\ returned[i] = {}
  BY <1>1 DEF NewIterator, IteratorOK
<1>4. it' = [it EXCEPT ![i] = r] /\ start' = [start EXCEPT ![i] = Live] /\ UNCHANGED <<vars, returned>>
  BY DEF NewIterator
<1>5. /\ \A n \in Nodes : n \in Live <=> item[n] # Nil
      /\ \A n \in Nodes : item[n] # Nil => n \in alloc
      /\ f # Nil => f \in Nodes /\ item[f] # Nil
  BY <1>2, LiveNodes DEF firstNode
<1>6. Live \subseteq alloc /\ alloc \subseteq Nodes
  BY <1>2 DEF Live, ListInv, ListTypeOK
<1>7. \A y \in Nodes : item[y] # Nil => f # Nil /\ (y = f \/ Ahead(pos, desc, f, y))
  BY <1>1, <1>2, LiveLinks, DequeAssumption DEF GravesOK
<1>8. item \in [Nodes -> Elems \cup {Nil}]
  BY <1>2 DEF ListInv, ListTypeOK
<1> HIDE DEF f
<1>9. r \in IteratorRecord
  BY <1>5, <1>8, DequeAssumption DEF IteratorRecord, Pointer, itemOf
<1>10. Stands(pos, met, r, Live, {})
  BY <1>5, <1>6, <1>7 DEF Stands, itemOf
<1>11. IterType'
  BY <1>2, <1>4, <1>6, <1>9 DEF IterType
<1>12. PICK q, s : q = r /\ s = Live
  OBVIOUS
<1> HIDE DEF r
<1>13. Stands(pos, met, q, s, {})'
  <2>1. UNCHANGED listVars
    BY <1>4 DEF vars
  <2>2. Kept(pos, met, pos, met)
    BY <1>1, <2>1, SameGraves
  <2> QED
    BY <1>6, <1>9, <1>10, <1>12, <2>2 DEF Kept
<1>14. it'[i] = q /\ start'[i] = s /\ returned'[i] = {} /\ alloc' = alloc
  BY <1>2, <1>3, <1>4, <1>12 DEF IterType, vars, listVars
<1>15. q \in IteratorRecord /\ q.lastRet = Nil /\ q # Nil /\ s \subseteq alloc
  BY <1>6, <1>9, <1>12, IteratorAssumption DEF r
<1>16. IteratorOK(pos, met, i)'
  BY <1>13, <1>14, <1>15 DEF IteratorOK, Open, Stands
<1> QED
  BY <1>1, <1>2, <1>4, <1>11, <1>16, IteratorMoves DEF IterType

\* The iterator goes from m on to n.
LEMMA Advances ==
  ASSUME ListInv, NEW pos, NEW far, NEW met, GravesOK(pos, far, met),
         NEW r \in IteratorRecord, NEW s \in SUBSET alloc, NEW t \in SUBSET alloc,
         Stands(pos, met, r, s, t), r.next # Nil, NEW n, n = succ(r.desc, r.next),
         NEW q \in IteratorRecord, q.next = n, q.desc = r.desc, q.nextItem = itemOf(n)
  PROVE  Stands(pos, met, q, s, t \cup {r.next})
<1> DEFINE m == r.next
           d == r.desc
<1>1. /\ m \in alloc /\ m \notin t /\ d \in BOOLEAN
      /\ \A y \in t : item[y] # Nil => Ahead(pos, d, y, m)
      /\ item[m] = Nil => s \subseteq met[m] /\ t \subseteq met[m]
      /\ \A y \in s \ t : item[y] # Nil => y = m \/ Ahead(pos, d, m, y)
  BY DEF Stands, IteratorRecord
<1>2. /\ n # Nil => n \in Nodes /\ item[n] # Nil
      /\ Onward(pos, d, m, n) \/ AtEnd(pos, met, d, m, n) \/ Again(pos, met, d, m, n)
  BY <1>1, SuccSound
<1>3. alloc \subseteq Nodes /\ Nil \notin alloc /\ (n # Nil => n \in alloc) /\ pos \in [Nodes -> Int]
  BY <1>2, NodesAllocated, LiveNodes DEF GravesOK, LineOK
<1> HIDE DEF m, d
<1>4. CASE Onward(pos, d, m, n)
  <2>1. /\ n # Nil /\ Ahead(pos, d, m, n)
        /\ \A y \in Nodes : item[y] # Nil /\ Ahead(pos, d, m, y) => y = n \/ Ahead(pos, d, n, y)
    BY <1>4 DEF Onward
  <2>2. n # m /\ n \notin t
    BY <1>1, <1>2, <1>3, <2>1, AheadOrder
  <2>3. \A y \in t \cup {m} : item[y] # Nil => Ahead(pos, d, y, n)
    BY <1>1, <1>3, <2>1, AheadOrder
  <2>4. \A y \in s \ (t \cup {m}) : item[y] # Nil => y = n \/ Ahead(pos, d, n, y)
    BY <1>1, <1>3, <2>1
  <2> QED
    BY <1>2, <1>3, <2>1, <2>2, <2>3, <2>4 DEF Stands, itemOf, m, d
<1>5. CASE AtEnd(pos, met, d, m, n)
  <2>1. n = Nil /\ n \notin t \cup {m}
    BY <1>1, <1>3, <1>5 DEF AtEnd
  <2>2. \A y \in s \ (t \cup {m}) : item[y] = Nil
    BY <1>1, <1>3, <1>5 DEF AtEnd
  <2> QED
    BY <2>1, <2>2 DEF Stands, itemOf, m, d
<1>6. CASE Again(pos, met, d, m, n)
  <2>1. item[m] = Nil /\ \A y \in t : item[y] = Nil
    BY <1>1, <1>3, <1>6 DEF Again
  <2>2. n \notin t \cup {m}
    BY <1>1, <1>2, <1>3, <2>1
  <2>3. \A y \in s : item[y] # Nil => n # Nil /\ (y = n \/ Ahead(pos, d, n, y))
    BY <1>3, <1>6 DEF Again
  <2> QED
    BY <1>2, <1>3, <2>1, <2>2, <2>3 DEF Stands, itemOf, m, d
<1> QED
  BY <1>2, <1>4, <1>5, <1>6

LEMMA NextStep ==
  ASSUME IterInv, NEW i \in Iters, NextCall(i)
  PROVE  IterInv'
<1> DEFINE n == succ(it[i].desc, it[i].next)
           v == [it[i] EXCEPT !.lastRet = it[i].next, !.next = n, !.nextItem = itemOf(n)]
<1>1. PICK pos, far, met :
        GravesOK(pos, far, met) /\ \A j \in Iters : IteratorOK(pos, met, j)
  BY DEF IterInv
<1>2. ListInv /\ IterType /\ UNCHANGED listVars
  BY DEF IterInv, Inv, NextCall, vars
<1>3. /\ it' = [it EXCEPT ![i] = v]
      /\ returned' = [returned EXCEPT ![i] = @ \cup {it[i].next}]
      /\ UNCHANGED <<vars, start>>
  BY DEF NextCall
<1>4. PICK r, s, t : r = it[i] /\ s = start[i] /\ t = returned[i]
  OBVIOUS
<1>5. /\ r # Nil /\ r.next # Nil /\ r \in IteratorRecord /\ s \subseteq alloc /\ t \subseteq alloc
      /\ Stands(pos, met, r, s, t)
  BY <1>1, <1>4 DEF NextCall, Open, IteratorOK
<1>6. r.next \in alloc /\ r.desc \in BOOLEAN /\ alloc \subseteq Nodes
  BY <1>2, <1>5, NodesAllocated DEF Stands, IteratorRecord
<1>7. n # Nil => n \in Nodes /\ item[n] # Nil
  BY <1>1, <1>2, <1>4, <1>6, SuccSound
<1>8. item \in [Nodes -> Elems \cup {Nil}]
  BY <1>2 DEF ListInv, ListTypeOK
<1> HIDE DEF n
<1>9. /\ v \in IteratorRecord /\ v.next = n /\ v.desc = r.desc /\ v.nextItem = itemOf(n)
      /\ v.lastRet = r.next
  BY <1>4, <1>5, <1>6, <1>7, <1>8 DEF IteratorRecord, Pointer, itemOf
<1> HIDE DEF v
<1>10. PICK q : q = v
  OBVIOUS
<1>11. Stands(pos, met, q, s, t \cup {r.next})
  BY <1>1, <1>2, <1>4, <1>5, <1>9, <1>10, Advances DEF n
<1>12. Stands(pos, met, q, s, t \cup {r.next})'
  BY <1>1, <1>2, <1>5, <1>6, <1>9, <1>10, <1>11, SameGraves DEF Kept
<1>13. /\ it'[i] = q /\ start'[i] = s /\ returned'[i] = t \cup {r.next} /\ alloc' = alloc
  BY <1>2, <1>3, <1>4, <1>10 DEF IterType, listVars
<1>14. IterType'
  BY <1>2, <1>3, <1>4, <1>6, <1>9 DEF IterType
<1>15. q # Nil /\ q \in IteratorRecord /\ q.lastRet = r.next
  BY <1>9, <1>10, IteratorAssumption
<1>16. IteratorOK(pos, met, i)'
  BY <1>5, <1>6, <1>12, <1>13, <1>15 DEF IteratorOK, Open, Stands
<1> QED
  BY <1>1, <1>2, <1>3, <1>14, <1>16, IteratorMoves DEF IterType

LEMMA IterStep ==
  IterInv /\ [IterNext]_allVars => [Next]_vars /\ IterInv'
<1> SUFFICES ASSUME IterInv, [IterNext]_allVars PROVE [Next]_vars /\ IterInv'
  OBVIOUS
<1>1. CASE [Next]_vars /\ UNCHANGED iterVars
  <2>1. it' = it /\ start' = start /\ returned' = returned
    BY <1>1 DEF iterVars
  <2>2. IterType'
    BY <2>1 DEF IterInv, IterType
  <2> QED
    BY <1>1, <2>1, <2>2, ListMoves
<1>2. ASSUME NEW i \in Iters, NEW desc \in BOOLEAN, NewIterator(i, desc)
      PROVE  [Next]_vars /\ IterInv'
  BY <1>2, NewStep DEF NewIterator
<1>3. ASSUME NEW i \in Iters, NextCall(i) PROVE [Next]_vars /\ IterInv'
  BY <1>3, NextStep DEF NextCall
<1>4. ASSUME NEW i \in Iters, Remove(i) PROVE [Next]_vars /\ IterInv'
  BY <1>4, RemoveStep
<1>5. ASSUME NEW i \in Iters, Drop(i) PROVE [Next]_vars /\ IterInv'
  BY <1>5, DropStep DEF Drop
<1>6. CASE UNCHANGED allVars
  BY <1>1, <1>6 DEF allVars
<1> QED
  BY <1>1, <1>2, <1>3, <1>4, <1>5, <1>6 DEF IterNext

LEMMA IterStarts == IterInit => IterInv
<1> SUFFICES ASSUME IterInit PROVE IterInv
  OBVIOUS
<1>1. Init /\ Inv
  BY InitOK DEF IterInit
<1>2. IterType
  BY DEF IterInit, IterType
<1> DEFINE pos == [n \in Nodes |-> 0]
           met == [n \in Nodes |-> {}]
<1>3. alloc = {} /\ count = 0
  BY <1>1 DEF Init
<1>4. GravesOK(pos, 0, met)
  BY <1>3 DEF GravesOK, LineOK, RemovedOK
<1>5. ASSUME NEW i \in Iters PROVE IteratorOK(pos, met, i)
  BY DEF IterInit, IteratorOK, Open
<1> HIDE DEF pos, met
<1> QED
  BY <1>1, <1>2, <1>4, <1>5 DEF IterInv

LEMMA IterInductive == IterSpec => []IterInv
BY IterStarts, IterStep, PTL DEF IterSpec

\* Positions agree with the order of the list.
LEMMA AheadPrecedes ==
  ASSUME ListInv, NEW pos, NEW far, LineOK(pos, far), NEW desc \in BOOLEAN,
         NEW m \in Live, NEW n \in Live, Ahead(pos, desc, m, n)
  PROVE  Precedes(m, n, desc)
<1>1. PICK j \in 1..count : order[j] = m
  BY DEF Live
<1>2. PICK k \in 1..count : order[k] = n
  BY DEF Live
<1>3. pos[m] \in Int /\ pos[n] \in Int /\ count \in Nat
  BY <1>1, <1>2, DequeAssumption DEF LineOK, ListInv, ListTypeOK
<1>4. (pos[m] < pos[n] => j < k) /\ (pos[n] < pos[m] => k < j)
  BY <1>1, <1>2, <1>3 DEF LineOK
<1> QED
  BY <1>1, <1>2, <1>4 DEF Precedes, Ahead

LEMMA IterInvImplies == IterInv => NextItemOK /\ EachOnce /\ InOrder
<1> SUFFICES ASSUME IterInv, NEW i \in Iters, Open(i)
             PROVE  /\ IF it[i].next = Nil THEN it[i].nextItem = Nil
                       ELSE it[i].nextItem \in Elems /\ item[it[i].next] \in {Nil, it[i].nextItem}
                    /\ it[i].next \notin returned[i]
                    /\ it[i].next = Nil => start[i] \cap Live \subseteq returned[i]
                    /\ \A n \in (start[i] \cap Live) \ returned[i] :
                         /\ \A m \in returned[i] \cap Live : Precedes(m, n, it[i].desc)
                         /\ it[i].next \in Live \ {n} => Precedes(it[i].next, n, it[i].desc)
  BY DEF NextItemOK, EachOnce, InOrder
<1>1. PICK pos, far, met :
        GravesOK(pos, far, met) /\ \A j \in Iters : IteratorOK(pos, met, j)
  BY DEF IterInv
<1>2. ListInv /\ LineOK(pos, far) /\ pos \in [Nodes -> Int]
  BY <1>1 DEF IterInv, Inv, GravesOK, LineOK
<1>3. /\ it[i] \in IteratorRecord /\ Stands(pos, met, it[i], start[i], returned[i])
      /\ start[i] \subseteq alloc /\ returned[i] \subseteq alloc
  BY <1>1 DEF IteratorOK
<1>4. it[i].desc \in BOOLEAN /\ it[i].nextItem \in Elems \cup {Nil}
  BY <1>3 DEF IteratorRecord
<1>5. /\ \A n \in Nodes : n \in Live <=> item[n] # Nil
      /\ Live \subseteq Nodes /\ alloc \subseteq Nodes
  BY <1>2, LiveNodes DEF Live, ListInv, ListTypeOK
<1>6. ASSUME NEW n \in (start[i] \cap Live) \ returned[i]
      PROVE  /\ it[i].next # Nil
             /\ \A m \in returned[i] \cap Live : Precedes(m, n, it[i].desc)
             /\ it[i].next \in Live \ {n} => Precedes(it[i].next, n, it[i].desc)
  <2>1. /\ it[i].next # Nil /\ it[i].next \in alloc
        /\ n = it[i].next \/ Ahead(pos, it[i].desc, it[i].next, n)
        /\ \A m \in returned[i] \cap Live : Ahead(pos, it[i].desc, m, it[i].next)
    BY <1>3, <1>5 DEF Stands
  <2>2. \A m \in returned[i] \cap Live : Ahead(pos, it[i].desc, m, n)
    BY <1>2, <1>4, <1>5, <2>1, AheadOrder
  <2> QED
    BY <1>2, <1>4, <2>1, <2>2, AheadPrecedes
<1> QED
  BY <1>3, <1>4, <1>6 DEF Stands

(***************************************************************************)
(* The item that Next will return is that of the next node, never nil, and *)
(* the loop of succ ends, whatever the other goroutines remove and add     *)
(* between two calls of an iterator.                                       *)
(***************************************************************************)
THEOREM NextItemsRight == IterSpec => []NextItemOK
BY IterInductive, IterInvImplies, PTL

(***************************************************************************)
(* No element is returned twice, and none that stays in the list is missed.*)
(***************************************************************************)
THEOREM IteratorsComplete == IterSpec => []EachOnce
BY IterInductive, IterInvImplies, PTL

(***************************************************************************)
(* Elements are returned in the order of the list.                         *)
(***************************************************************************)
THEOREM IteratorsOrdered == IterSpec => []InOrder
BY IterInductive, IterInvImplies, PTL

(***************************************************************************)
(* Iterators do to the deque only what its own calls do, so that what was  *)
(* proved of the deque holds with iterators at work.                       *)
(***************************************************************************)
THEOREM IteratorsAreCalls == IterSpec => Spec /\ []WellLinked /\ []ReadersAgree /\ ImplementsDeque
<1>1. IterInit => Init
  BY DEF IterInit
<1>2. IterSpec => Spec
  BY <1>1, IterInductive, IterStep, PTL DEF IterSpec, Spec
<1> QED
  BY <1>2, AlwaysWellLinked, ReadersRight, DequeImplemented, PTL
=============================================================================
