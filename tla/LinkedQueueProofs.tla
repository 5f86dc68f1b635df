------------------------- MODULE LinkedQueueProofs --------------------------
(***************************************************************************)
(* The pointer structure of queue.c is sound for every number of elements  *)
(* and of queues.  First without any count: the walk is the least closed   *)
(* set Visited, and what is invariant is that the linked elements can be   *)
(* divided among the queues so that the pointers stay inside a division    *)
(* and every element is reached from its own head.  Then in order: the     *)
(* pointers place the elements as in sequences, and each call does to them *)
(* what QueueSpec says.                                                    *)
(***************************************************************************)
EXTENDS LinkedQueue, FiniteSetTheorems, TLAPS

Ops == INSTANCE QueueOpsProofs   \* the effects of the calls on sequences

(* own is a division of the elements among the queues that fits the        *)
(* pointers.                                                               *)
PointersFit(own) ==
  /\ \A e \in Elems : (own[e] = NULL <=> prev[e] = NULL)
                      /\ (own[e] = NULL <=> next[e] = NULL)
  /\ \A e \in Elems : own[e] # NULL =>
       /\ prev[next[e]] = e /\ own[next[e]] = own[e]
       /\ next[prev[e]] = e /\ own[prev[e]] = own[e]

HeadsFit(own) == \A q \in Queues : head[q] # NULL => own[head[q]] = q

Reached(own) ==
  \A e \in Elems : own[e] # NULL =>
    head[own[e]] # NULL /\ e \in Visited(own[e])

Rep(own) == PointersFit(own) /\ HeadsFit(own) /\ Reached(own)

Divisions == [Elems -> Queues \cup {NULL}]

(* The inductive invariant. *)
IInv == TypeOK /\ \E own \in Divisions : Rep(own)
-----------------------------------------------------------------------------
(* The walk of one queue stays inside the part of the division that is its *)
(* own, so it visits exactly that part.                                    *)
LEMMA VisitedIsOwned ==
  ASSUME TypeOK, NEW own \in Divisions, Rep(own),
         NEW q \in Queues, head[q] # NULL
  PROVE  Visited(q) = {e \in Elems : own[e] = q}
<1> DEFINE S == {e \in Elems : own[e] = q}
<1>1. head[q] \in S
  BY DEF TypeOK, Rep, HeadsFit
<1>2. \A x \in S : next[x] \in S
  BY NULLAssumption DEF TypeOK, Rep, PointersFit, Divisions
<1>3. Visited(q) \subseteq S
  BY <1>1, <1>2 DEF Visited
<1>4. S \subseteq Visited(q)
  BY NULLAssumption DEF Rep, Reached
<1> QED BY <1>3, <1>4

(* What the inductive invariant says in the terms of the three properties. *)
LEMMA RepSound ==
  ASSUME IInv
  PROVE  fila_correta /\ OwnedByOneQueue
<1>1. PICK own \in Divisions : Rep(own)
  BY DEF IInv
<1>2. TypeOK
  BY DEF IInv
<1>3. fila_correta
  BY <1>1, <1>2, NULLAssumption
  DEF Rep, PointersFit, HeadsFit, fila_correta, Linked, TypeOK, Divisions
<1>4. ASSUME NEW e \in Elems, Linked(e)
      PROVE  \E q \in Queues :
               /\ head[q] # NULL /\ e \in Visited(q)
               /\ \A r \in Queues \ {q} : head[r] # NULL => e \notin Visited(r)
  <2>1. own[e] \in Queues
    BY <1>1, <1>4 DEF Rep, PointersFit, Linked, Divisions
  <2>2. head[own[e]] # NULL /\ e \in Visited(own[e])
    BY <1>1, <2>1, NULLAssumption DEF Rep, Reached
  <2>3. \A r \in Queues \ {own[e]} : head[r] # NULL => e \notin Visited(r)
    BY <1>1, <1>2, VisitedIsOwned
  <2> QED BY <2>1, <2>2, <2>3
<1>5. ASSUME NEW e \in Elems, NEW q \in Queues,
             head[q] # NULL, e \in Visited(q)
      PROVE  Linked(e)
  <2>1. own[e] = q
    BY <1>1, <1>2, <1>5, VisitedIsOwned
  <2> QED BY <1>1, <2>1, NULLAssumption DEF Rep, PointersFit, Linked
<1> QED BY <1>3, <1>4, <1>5 DEF OwnedByOneQueue
-----------------------------------------------------------------------------
LEMMA InitIInv == Init => IInv
<1> SUFFICES ASSUME Init PROVE IInv
  OBVIOUS
<1>1. TypeOK
  BY DEF Init, TypeOK
<1>2. Rep([e \in Elems |-> NULL])
  BY DEF Init, Rep, PointersFit, HeadsFit, Reached
<1> QED BY <1>1, <1>2 DEF IInv, Divisions

(* Appending to an empty queue: the element becomes a ring of its own. *)
LEMMA AppendFirstIInv ==
  ASSUME IInv, NEW q \in Queues, NEW e \in Elems,
         ~Linked(e), head[q] = NULL, AppendFirst(q, e), ret' = 0
  PROVE  IInv'
<1>1. PICK own \in Divisions : Rep(own)
  BY DEF IInv
<1> DEFINE new == [own EXCEPT ![e] = q]
<1>2. TypeOK /\ TypeOK'
  BY DEF IInv, TypeOK, AppendFirst
<1>3. new \in Divisions
  BY DEF Divisions
<1>4. own[e] = NULL /\ \A x \in Elems : own[x] # q
  BY <1>1, NULLAssumption DEF Rep, PointersFit, Reached, Linked
<1>5. PointersFit(new)'
  BY <1>1, <1>2, <1>4, NULLAssumption
  DEF Rep, PointersFit, AppendFirst, TypeOK, Divisions
<1>6. HeadsFit(new)'
  BY <1>1, <1>2, <1>4, NULLAssumption
  DEF Rep, HeadsFit, AppendFirst, TypeOK, Divisions
<1>7. Reached(new)'
  <2> SUFFICES ASSUME NEW x \in Elems, new[x] # NULL
               PROVE  head'[new[x]] # NULL /\ (x \in Visited(new[x]))'
    BY DEF Reached
  <2>1. CASE x = e
    <3>1. new[x] = q /\ head'[q] = e
      BY <1>2, <2>1 DEF AppendFirst, TypeOK, Divisions
    <3>2. (x \in Visited(q))'
      BY <2>1, <3>1 DEF Visited
    <3> QED BY <3>1, <3>2, NULLAssumption
  <2>2. CASE x # e
    <3>1. own[x] = new[x] /\ own[x] \in Queues \ {q}
      BY <1>4, <2>2 DEF Divisions
    <3>2. head[own[x]] # NULL /\ x \in Visited(own[x])
      BY <1>1, <3>1, NULLAssumption DEF Rep, Reached
    <3>3. head'[own[x]] = head[own[x]] /\ head[own[x]] # e
      BY <1>1, <1>4, <3>1, <3>2, NULLAssumption
      DEF AppendFirst, TypeOK, Rep, HeadsFit
    <3>4. ASSUME NEW S \in SUBSET Elems, head'[own[x]] \in S,
                 \A y \in S : next'[y] \in S
          PROVE  x \in S
      <4>1. \A y \in S \ {e} : next[y] \in S \ {e}
        <5> SUFFICES ASSUME NEW y \in S \ {e} PROVE next[y] \in S \ {e}
          OBVIOUS
        <5>1. next[y] = next'[y] /\ next[y] \in S
          BY <1>2, <3>4 DEF AppendFirst, TypeOK
        <5>2. next[y] # e
          BY <1>1, <1>2, <1>4, <5>1, NULLAssumption
          DEF Rep, PointersFit, TypeOK
        <5> QED BY <5>1, <5>2
      <4>2. head[own[x]] \in S \ {e}
        BY <3>3, <3>4
      <4> QED BY <3>2, <4>1, <4>2 DEF Visited
    <3> QED BY <3>1, <3>2, <3>3, <3>4 DEF Visited
  <2> QED BY <2>1, <2>2
<1> QED BY <1>2, <1>3, <1>5, <1>6, <1>7 DEF IInv, Rep

(* Appending behind the last element: the division grows by the element,   *)
(* which is reached through its predecessor.                               *)
LEMMA AppendLastIInv ==
  ASSUME IInv, NEW q \in Queues, NEW e \in Elems,
         ~Linked(e), head[q] # NULL, AppendLast(q, e), ret' = 0
  PROVE  IInv'
<1>1. PICK own \in Divisions : Rep(own)
  BY DEF IInv
<1> DEFINE new   == [own EXCEPT ![e] = q]
           first == head[q]
           last  == prev[first]
<1>2. TypeOK
  BY DEF IInv
<1>3. /\ first \in Elems /\ last \in Elems
      /\ own[first] = q /\ own[last] = q /\ own[e] = NULL
      /\ first # e /\ last # e /\ next[last] = first
  BY <1>1, <1>2, NULLAssumption
  DEF Rep, PointersFit, HeadsFit, Linked, TypeOK, Divisions
<1>4. TypeOK'
  BY <1>2, <1>3 DEF TypeOK, AppendLast
<1>5. new \in Divisions
  BY DEF Divisions
<1>6. PointersFit(new)'
  BY <1>1, <1>2, <1>3, NULLAssumption
  DEF Rep, PointersFit, AppendLast, TypeOK, Divisions
<1>7. HeadsFit(new)'
  BY <1>1, <1>2, <1>3, NULLAssumption
  DEF Rep, HeadsFit, AppendLast, TypeOK, Divisions
<1>8. ASSUME NEW x \in Elems, NEW S \in SUBSET Elems,
             own[x] # NULL, head'[own[x]] \in S, \A y \in S : next'[y] \in S
      PROVE  head[own[x]] # NULL /\ x \in S
  <2>1. head'[own[x]] = head[own[x]]
    BY DEF AppendLast
  <2>2. own[x] \in Queues /\ head[own[x]] # NULL /\ x \in Visited(own[x])
    BY <1>1, <1>8 DEF Rep, Reached, Divisions
  <2>3. head[own[x]] \in S \ {e}
    BY <1>1, <1>3, <1>8, <2>1, <2>2, NULLAssumption DEF Rep, HeadsFit
  <2>4. ASSUME NEW y \in S \ {e} PROVE next[y] \in S \ {e}
    <3>1. next[y] # e
      BY <1>1, <1>2, <1>3, <2>4, NULLAssumption
      DEF Rep, PointersFit, TypeOK, Divisions
    <3>2. CASE y = last
      <4>1. next'[last] = e /\ next'[e] = first
        BY <1>2, <1>3 DEF AppendLast, TypeOK
      <4> QED BY <1>3, <1>8, <2>4, <3>2, <4>1
    <3>3. CASE y # last
      <4>1. next'[y] = next[y]
        BY <1>2, <2>4, <3>3 DEF AppendLast, TypeOK
      <4> QED BY <1>8, <2>4, <3>1, <4>1
    <3> QED BY <3>2, <3>3
  <2>5. x \in S \ {e}
    BY <2>2, <2>3, <2>4 DEF Visited
  <2> QED BY <2>2, <2>5
<1>9. Reached(new)'
  <2> SUFFICES ASSUME NEW x \in Elems, new[x] # NULL
               PROVE  head'[new[x]] # NULL /\ (x \in Visited(new[x]))'
    BY DEF Reached
  <2>1. CASE x = e
    <3>1. new[x] = q /\ head'[q] = first
      BY <2>1 DEF AppendLast, Divisions
    <3>2. ASSUME NEW S \in SUBSET Elems, head'[q] \in S,
                 \A y \in S : next'[y] \in S
          PROVE  e \in S
      <4>1. last \in S
        BY <1>3, <1>8, <3>2, NULLAssumption
      <4>2. next'[last] = e
        BY <1>2, <1>3 DEF AppendLast, TypeOK
      <4> QED BY <3>2, <4>1, <4>2
    <3>3. (x \in Visited(q))'
      BY <2>1, <3>2 DEF Visited
    <3> QED BY <3>1, <3>3
  <2>2. CASE x # e
    <3>1. new[x] = own[x]
      BY <2>2 DEF Divisions
    <3>2. head'[own[x]] = head[own[x]]
      BY DEF AppendLast
    <3>3. own[x] \in Queues /\ head[own[x]] # NULL
      BY <1>1, <3>1 DEF Rep, Reached, Divisions
    <3>4. (x \in Visited(own[x]))'
      BY <1>8, <3>1 DEF Visited
    <3> QED BY <3>1, <3>2, <3>3, <3>4
  <2> QED BY <2>1, <2>2
<1> QED BY <1>4, <1>5, <1>6, <1>7, <1>9 DEF IInv, Rep

(* A removal that is not refused takes a linked element of the queue; an   *)
(* element that is its own successor is alone in its queue.                *)
LEMMA RemovedIsOwned ==
  ASSUME TypeOK, NEW own \in Divisions, Rep(own),
         NEW q \in Queues, NEW e \in Elems, RemoveResult(q, e) = 0
  PROVE  /\ head[q] \in Elems /\ prev[e] \in Elems /\ next[e] \in Elems
         /\ own[e] = q /\ own[prev[e]] = q /\ own[next[e]] = q
         /\ own[head[q]] = q
         /\ prev[e] = e <=> next[e] = e
         /\ next[e] = e => \A x \in Elems : own[x] = q => x = e
<1>1. /\ head[q] # NULL /\ prev[e] # NULL /\ next[e] # NULL
      /\ e \in Visited(q)
  BY NULLAssumption DEF RemoveResult
<1>2. own[e] = q
  BY <1>1, VisitedIsOwned
<1>3. /\ head[q] \in Elems /\ prev[e] \in Elems /\ next[e] \in Elems
      /\ own[prev[e]] = q /\ own[next[e]] = q /\ own[head[q]] = q
      /\ prev[e] = e <=> next[e] = e
  BY <1>1, <1>2, NULLAssumption DEF Rep, PointersFit, HeadsFit, TypeOK
<1>4. ASSUME next[e] = e, NEW x \in Elems, own[x] = q
      PROVE  x = e
  <2> DEFINE S == {y \in Elems : own[y] = q /\ y # e}
  <2>1. \A y \in S : next[y] \in S
    BY <1>3, <1>4, NULLAssumption DEF Rep, PointersFit, TypeOK, Divisions
  <2>2. head[q] = e
    BY <1>1, <1>3, <2>1 DEF Visited
  <2>3. \A y \in {e} : next[y] \in {e}
    BY <1>4
  <2>4. x \in Visited(q)
    BY <1>1, <1>4, VisitedIsOwned
  <2> QED BY <2>2, <2>3, <2>4 DEF Visited
<1> QED BY <1>2, <1>3, <1>4

(* The effect of Unlink on the pointers, element by element. *)
LEMMA UnlinkEffect ==
  ASSUME TypeOK, NEW own \in Divisions, Rep(own),
         NEW q \in Queues, NEW e \in Elems, RemoveResult(q, e) = 0,
         Unlink(q, e)
  PROVE  /\ head' = [head EXCEPT ![q] = NewHead(q, e)]
         /\ \A x \in Elems : x # e =>
              /\ next'[x] = IF x = prev[e] THEN next[e] ELSE next[x]
              /\ prev'[x] = IF x = next[e] THEN prev[e] ELSE prev[x]
         /\ next'[e] = NULL /\ prev'[e] = NULL
         /\ next' \in [Elems -> Elems \cup {NULL}]
         /\ prev' \in [Elems -> Elems \cup {NULL}]
<1>1. head'[q] = NewHead(q, e)
  BY DEF Unlink, TypeOK
<1>2. CASE head'[q] # NULL
  BY <1>2, RemovedIsOwned DEF Unlink, TypeOK
<1>3. CASE head'[q] = NULL
  <2>1. e = head[q] /\ next[e] = e /\ prev[e] = e
    BY <1>1, <1>3, RemovedIsOwned, NULLAssumption DEF NewHead
  <2> QED BY <1>3, <2>1 DEF Unlink, TypeOK
<1> QED BY <1>2, <1>3 DEF Unlink

LEMMA UnlinkIInv ==
  ASSUME IInv, NEW q \in Queues, NEW e \in Elems,
         RemoveResult(q, e) = 0, Unlink(q, e), ret' = 0
  PROVE  IInv'
<1>1. PICK own \in Divisions : Rep(own)
  BY DEF IInv
<1>2. TypeOK
  BY DEF IInv
<1> DEFINE new == [own EXCEPT ![e] = NULL]
           p   == prev[e]
           n   == next[e]
<1>3. /\ head[q] \in Elems /\ p \in Elems /\ n \in Elems
      /\ own[e] = q /\ own[p] = q /\ own[n] = q /\ own[head[q]] = q
      /\ p = e <=> n = e
      /\ n = e => \A x \in Elems : own[x] = q => x = e
  BY <1>1, <1>2, RemovedIsOwned
<1>4. /\ head' = [head EXCEPT ![q] = NewHead(q, e)]
      /\ \A x \in Elems : x # e =>
           /\ next'[x] = IF x = p THEN n ELSE next[x]
           /\ prev'[x] = IF x = n THEN p ELSE prev[x]
      /\ next'[e] = NULL /\ prev'[e] = NULL
  BY <1>1, <1>2, UnlinkEffect
<1>5. TypeOK'
  <2>1. NewHead(q, e) \in Elems \cup {NULL}
    BY <1>2, <1>3 DEF NewHead, TypeOK
  <2>2. /\ next' \in [Elems -> Elems \cup {NULL}]
        /\ prev' \in [Elems -> Elems \cup {NULL}]
    BY <1>1, <1>2, UnlinkEffect
  <2> QED BY <1>2, <1>4, <2>1, <2>2 DEF TypeOK
<1>6. new \in Divisions
  BY DEF Divisions
<1>7. PointersFit(new)'
  <2> SUFFICES ASSUME NEW x \in Elems
               PROVE  /\ new[x] = NULL <=> prev'[x] = NULL
                      /\ new[x] = NULL <=> next'[x] = NULL
                      /\ new[x] # NULL =>
                           /\ prev'[next'[x]] = x /\ new[next'[x]] = new[x]
                           /\ next'[prev'[x]] = x /\ new[prev'[x]] = new[x]
    BY DEF PointersFit
  <2>1. CASE x = e
    BY <1>4, <2>1 DEF Divisions
  <2>2. CASE x # e
    <3>1. new[x] = own[x]
      BY <2>2 DEF Divisions
    <3>2. /\ own[x] = NULL <=> prev[x] = NULL
          /\ own[x] = NULL <=> next[x] = NULL
          /\ own[x] # NULL =>
               /\ prev[next[x]] = x /\ own[next[x]] = own[x]
               /\ next[prev[x]] = x /\ own[prev[x]] = own[x]
               /\ next[x] \in Elems /\ prev[x] \in Elems
      BY <1>1, <1>2 DEF Rep, PointersFit, TypeOK
    <3>3. /\ next[p] = e /\ prev[n] = e
      BY <1>1, <1>3, NULLAssumption DEF Rep, PointersFit
    <3>4. x = p \/ x = n => n # e /\ p # e
      BY <1>3, <2>2
    <3>5. new[x] = NULL <=> prev'[x] = NULL
      BY <1>3, <1>4, <2>2, <3>1, <3>2, NULLAssumption
    <3>6. new[x] = NULL <=> next'[x] = NULL
      BY <1>3, <1>4, <2>2, <3>1, <3>2, NULLAssumption
    <3>7. ASSUME new[x] # NULL
          PROVE  prev'[next'[x]] = x /\ new[next'[x]] = new[x]
      <4>1. CASE x = p
        BY <1>3, <1>4, <2>2, <3>1, <3>4, <4>1 DEF Divisions
      <4>2. CASE x # p
        <5>1. next'[x] = next[x] /\ next[x] # n
          BY <1>4, <2>2, <3>1, <3>2, <3>3, <3>7, <4>2
        <5>2. next[x] # e
          BY <3>1, <3>2, <3>7, <4>2
        <5> QED BY <1>4, <3>1, <3>2, <3>7, <5>1, <5>2 DEF Divisions
      <4> QED BY <4>1, <4>2
    <3>8. ASSUME new[x] # NULL
          PROVE  next'[prev'[x]] = x /\ new[prev'[x]] = new[x]
      <4>1. CASE x = n
        BY <1>3, <1>4, <2>2, <3>1, <3>4, <4>1 DEF Divisions
      <4>2. CASE x # n
        <5>1. prev'[x] = prev[x] /\ prev[x] # p
          BY <1>4, <2>2, <3>1, <3>2, <3>3, <3>8, <4>2
        <5>2. prev[x] # e
          BY <3>1, <3>2, <3>8, <4>2
        <5> QED BY <1>4, <3>1, <3>2, <3>8, <5>1, <5>2 DEF Divisions
      <4> QED BY <4>1, <4>2
    <3> QED BY <3>5, <3>6, <3>7, <3>8
  <2> QED BY <2>1, <2>2
<1>8. HeadsFit(new)'
  BY <1>1, <1>2, <1>3, <1>4, NULLAssumption
  DEF Rep, HeadsFit, NewHead, TypeOK, Divisions
<1>9. Reached(new)'
  <2> SUFFICES ASSUME NEW x \in Elems, new[x] # NULL
               PROVE  head'[new[x]] # NULL /\ (x \in Visited(new[x]))'
    BY DEF Reached
  <2>1. x # e /\ new[x] = own[x] /\ own[x] \in Queues
    BY DEF Divisions
  <2>2. head[own[x]] # NULL /\ x \in Visited(own[x])
    BY <1>1, <2>1, NULLAssumption DEF Rep, Reached
  <2>3. head'[own[x]] # NULL
    BY <1>2, <1>3, <1>4, <2>1, <2>2, NULLAssumption DEF NewHead, TypeOK
  <2>4. ASSUME NEW S \in SUBSET Elems, head'[own[x]] \in S,
               \A y \in S : next'[y] \in S
        PROVE  x \in S
    <3> DEFINE T == {y \in Elems : own[y] = own[x] /\
                       (y \in S \/ (y = e /\ (p \in S \/ e = head[q])))}
    <3>1. head[own[x]] \in T
      <4>1. head[own[x]] \in Elems /\ own[head[own[x]]] = own[x]
        BY <1>1, <1>2, <2>1, <2>2 DEF Rep, HeadsFit, TypeOK
      <4>2. CASE head[own[x]] = e
        BY <1>3, <2>1, <4>1, <4>2
      <4>3. CASE head[own[x]] # e
        <5>1. head'[own[x]] = head[own[x]]
          BY <1>2, <1>4, <2>1, <4>3 DEF NewHead, TypeOK
        <5> QED BY <2>4, <4>1, <5>1
      <4> QED BY <4>2, <4>3
    <3>2. ASSUME NEW y \in T PROVE next[y] \in T
      <4>1. next[y] \in Elems /\ own[next[y]] = own[x]
        BY <1>1, <1>2, <2>1, <3>2, NULLAssumption
        DEF Rep, PointersFit, TypeOK
      <4>2. CASE y = e
        <5>1. own[x] = q /\ n # e
          BY <1>3, <2>1, <3>2, <4>2
        <5>2. CASE p \in S
          BY <1>3, <1>4, <2>4, <4>1, <4>2, <5>1, <5>2
        <5>3. CASE e = head[q]
          <6>1. head'[q] = n
            BY <1>2, <1>4, <5>1, <5>3 DEF NewHead, TypeOK
          <6> QED BY <2>4, <4>1, <4>2, <5>1, <6>1
        <5>4. CASE e \in S
          BY <1>4, <2>4, <5>4, NULLAssumption
        <5> QED BY <3>2, <4>2, <5>2, <5>3, <5>4
      <4>3. CASE y # e /\ y = p
        <5>1. next[y] = e
          BY <1>1, <1>3, <4>3, NULLAssumption DEF Rep, PointersFit
        <5> QED BY <3>2, <4>1, <4>3, <5>1
      <4>4. CASE y # e /\ y # p
        <5>1. next'[y] = next[y] /\ y \in S
          BY <1>4, <3>2, <4>4
        <5> QED BY <2>4, <4>1, <5>1
      <4> QED BY <4>2, <4>3, <4>4
    <3>3. x \in T
      BY <2>2, <3>1, <3>2 DEF Visited
    <3> QED BY <2>1, <3>3
  <2>5. (x \in Visited(own[x]))'
    BY <2>4 DEF Visited
  <2> QED BY <2>1, <2>3, <2>5
<1> QED BY <1>5, <1>6, <1>7, <1>8, <1>9 DEF IInv, Rep
-----------------------------------------------------------------------------
LEMMA NextIInv == IInv /\ [Next]_vars => IInv'
<1> SUFFICES ASSUME IInv, [Next]_vars PROVE IInv'
  OBVIOUS
<1>1. ASSUME UNCHANGED << head, prev, next >>, ret' \in -5..0
      PROVE  IInv'
  BY <1>1 DEF IInv, TypeOK, Rep, PointersFit, HeadsFit, Reached, Visited
<1>2. CASE UNCHANGED vars
  BY <1>1, <1>2 DEF vars, IInv, TypeOK
<1>3. ASSUME NEW q \in Queues \cup {NULL}, NEW e \in Elems \cup {NULL},
             queue_append(q, e)
      PROVE  IInv'
  <2>1. ret' \in -5..0
    BY <1>3 DEF queue_append, AppendResult
  <2>2. CASE ret' # 0
    BY <1>1, <1>3, <2>1, <2>2 DEF queue_append
  <2>3. CASE ret' = 0
    <3>1. q \in Queues /\ e \in Elems /\ ~Linked(e)
      BY <1>3, <2>3 DEF queue_append, AppendResult
    <3> QED BY <1>3, <2>3, <3>1, AppendFirstIInv, AppendLastIInv
            DEF queue_append
  <2> QED BY <2>2, <2>3
<1>4. ASSUME NEW q \in Queues \cup {NULL}, NEW e \in Elems \cup {NULL},
             queue_remove(q, e)
      PROVE  IInv'
  <2>1. ret' \in -5..0
    BY <1>4 DEF queue_remove, RemoveResult
  <2>2. CASE ret' # 0
    BY <1>1, <1>4, <2>1, <2>2 DEF queue_remove
  <2>3. CASE ret' = 0
    <3>1. q \in Queues /\ e \in Elems /\ RemoveResult(q, e) = 0
      BY <1>4, <2>3 DEF queue_remove, RemoveResult
    <3> QED BY <1>4, <2>3, <3>1, UnlinkIInv DEF queue_remove
  <2> QED BY <2>2, <2>3
<1> QED BY <1>2, <1>3, <1>4 DEF Next

LEMMA InvariantHolds == Spec => []IInv
BY InitIInv, NextIInv, PTL DEF Spec

(* The pointers stay typed whatever calls are made, with any arguments.    *)
THEOREM PointersTyped == Spec => []TypeOK
<1>1. IInv => TypeOK
  BY DEF IInv
<1> QED BY <1>1, InvariantHolds, PTL

(* No sequence of legal or illegal calls breaks a queue: for any number of *)
(* queues and elements prev and next stay inverse (fila_correta of         *)
(* testafila.c).                                                           *)
THEOREM QueuesSound == Spec => []fila_correta
<1>1. IInv => fila_correta
  BY RepSound DEF IInv
<1> QED BY <1>1, InvariantHolds, PTL

(* Every linked element is reached from the head of exactly one queue.     *)
THEOREM ElementsInOneQueue == Spec => []OwnedByOneQueue
<1>1. IInv => OwnedByOneQueue
  BY RepSound DEF IInv
<1> QED BY <1>1, InvariantHolds, PTL
-----------------------------------------------------------------------------
(* ls are the queues as sequences: each queue in the order of its next     *)
(* pointers, and every linked element in one place.                        *)
Succ(s, i) == IF i = Len(s) THEN 1 ELSE i + 1

Follows(s) == \A i \in DOMAIN s : next[s[i]] = s[Succ(s, i)]

Places(ls) ==
  /\ Abstract!Exclusive(ls)
  /\ \A q \in Queues :
       /\ head[q] = IF ls[q] = << >> THEN NULL ELSE ls[q][1]
       /\ Follows(ls[q])
  /\ \A e \in Elems : Linked(e) <=> Abstract!InSomeQueue(ls, e)

Families == [Queues -> Seq(Elems)]
-----------------------------------------------------------------------------
(* Induction over the natural numbers, in the form of the least number. *)
LEMMA LeastNumber ==
  ASSUME NEW S \in SUBSET Nat, S # {}
  PROVE  \E n \in S : \A m \in S : n <= m
<1> DEFINE R == OpToRel(<, Nat)
<1>1. IsWellFoundedOn(R, Nat)
  BY NatLessThanWellFounded
<1>2. \A m, n \in Nat : m < n => << m, n >> \in R
  BY DEF OpToRel
<1> HIDE DEF R
<1>3. PICK n \in S : \A m \in S : ~(<< m, n >> \in R)
  BY <1>1, WFMin
<1>4. \A m \in S : m \in Nat /\ n \in Nat /\ ~(m < n)
  BY <1>2, <1>3
<1> QED BY <1>4

LEMMA Induction ==
  ASSUME NEW n \in Nat, NEW S, n >= 1 => 1 \in S,
         \A i \in S : i \in 1..(n - 1) => i + 1 \in S
  PROVE  \A i \in 1..n : i \in S
<1> DEFINE B == {i \in 1..n : i \notin S}
<1> SUFFICES ASSUME B # {} PROVE FALSE
  OBVIOUS
<1>1. \E i \in B : \A j \in B : i <= j
  <2>1. B \in SUBSET Nat
    OBVIOUS
  <2> HIDE DEF B
  <2> QED BY <2>1, LeastNumber
<1>2. PICK i \in B : \A j \in B : i <= j
  BY <1>1
<1>3. i - 1 \in 1..(n - 1) /\ i - 1 \notin B /\ (i - 1) + 1 = i
  BY <1>2
<1> QED BY <1>2, <1>3

(* A walk from the head meets exactly the elements of the sequence. *)
LEMMA VisitedIsListed ==
  ASSUME TypeOK, NEW ls \in Families, Places(ls), NEW q \in Queues, head[q] # NULL
  PROVE  Visited(q) = Abstract!ToSet(ls[q])
<1> DEFINE s == ls[q]
<1>1. s \in Seq(Elems) /\ s # << >> /\ head[q] = s[1] /\ Follows(s)
  BY DEF Places, Families
<1> HIDE DEF s
<1>2. /\ Len(s) \in Nat \ {0} /\ DOMAIN s = 1..Len(s)
      /\ \A i \in 1..Len(s) : s[i] \in Elems
  BY <1>1
<1>3. ASSUME NEW S \in SUBSET Elems, head[q] \in S, \A x \in S : next[x] \in S
      PROVE  \A i \in 1..Len(s) : s[i] \in S
  <2> DEFINE I == {i \in 1..Len(s) : s[i] \in S}
  <2>1. 1 \in I
    BY <1>1, <1>2, <1>3
  <2>2. ASSUME NEW i \in I, i \in 1..(Len(s) - 1) PROVE i + 1 \in I
    <3>1. next[s[i]] = s[i + 1] /\ i + 1 \in 1..Len(s)
      BY <1>1, <1>2, <2>2 DEF Follows, Succ
    <3> QED BY <1>3, <3>1
  <2> HIDE DEF I
  <2>3. \A i \in 1..Len(s) : i \in I
    BY <1>2, <2>1, <2>2, Induction
  <2> QED BY <2>3 DEF I
<1>4. ASSUME NEW x \in {s[i] : i \in 1..Len(s)} PROVE next[x] \in {s[i] : i \in 1..Len(s)}
  BY <1>1, <1>2 DEF Follows, Succ
<1>5. {s[i] : i \in 1..Len(s)} \subseteq Visited(q)
  BY <1>2, <1>3 DEF Visited
<1>6. Visited(q) \subseteq {s[i] : i \in 1..Len(s)}
  <2>1. head[q] \in {s[i] : i \in 1..Len(s)} /\ {s[i] : i \in 1..Len(s)} \subseteq Elems
    BY <1>1, <1>2
  <2> QED BY <1>4, <2>1 DEF Visited
<1> QED BY <1>2, <1>5, <1>6 DEF s, Abstract!ToSet

(* Hence the mapping gives the sequences, and no other family fits. *)
LEMMA ListIs ==
  ASSUME TypeOK, NEW ls \in Families, Places(ls), NEW q \in Queues
  PROVE  List(q) = ls[q]
<1> DEFINE s == ls[q]
<1>1. s \in Seq(Elems) /\ head[q] = (IF s = << >> THEN NULL ELSE s[1]) /\ Follows(s)
  BY DEF Places, Families
<1>2. /\ Len(s) \in Nat /\ DOMAIN s = 1..Len(s) /\ (s = << >> <=> Len(s) = 0)
      /\ \A i \in 1..Len(s) : s[i] \in Elems /\ s[i] # NULL
  BY <1>1, NULLAssumption
<1>3. queue_size(q) = Len(s)
  <2>1. CASE s = << >>
    BY <1>1, <1>2, <2>1 DEF queue_size
  <2>2. CASE s # << >>
    <3>1. head[q] # NULL
      BY <1>1, <1>2, <2>2
    <3>2. Visited(q) = {s[i] : i \in 1..Len(s)}
      BY <1>2, <3>1, VisitedIsListed DEF Abstract!ToSet
    <3>3. \A i, j \in 1..Len(s) : s[i] = s[j] => i = j
      BY <1>2 DEF Places, Abstract!Exclusive, Abstract!NoRepeats, Families
    <3>4. [i \in 1..Len(s) |-> s[i]] \in Bijection(1..Len(s), Visited(q))
      BY <3>2, <3>3 DEF Bijection, Injection, Surjection, IsInjective
    <3>5. Cardinality(Visited(q)) = Len(s)
      BY <1>2, <3>4, FS_CountingElements DEF ExistsBijection
    <3> QED BY <3>1, <3>5 DEF queue_size
  <2> QED BY <2>1, <2>2
<1> HIDE DEF s
<1> DEFINE Walks(w) == w = [i \in 1..Len(s) |-> IF i = 1 THEN head[q] ELSE next[w[i - 1]]]
<1>4. List(q) = CHOOSE w : Walks(w)
  BY <1>3 DEF List
<1>5. Walks(s)
  <2>1. ASSUME NEW i \in 1..Len(s)
        PROVE  s[i] = IF i = 1 THEN head[q] ELSE next[s[i - 1]]
    <3>1. CASE i = 1
      BY <1>1, <1>2, <3>1
    <3>2. CASE i # 1
      <4>1. i - 1 \in 1..Len(s) /\ i - 1 # Len(s) /\ (i - 1) + 1 = i
        BY <1>2, <3>2
      <4> QED BY <1>1, <1>2, <3>2, <4>1 DEF Follows, Succ
    <3> QED BY <3>1, <3>2
  <2> QED BY <1>1, <1>2, <2>1
<1>6. ASSUME NEW w, Walks(w) PROVE w = s
  <2> DEFINE I == {i \in 1..Len(s) : w[i] = s[i]}
  <2>1. DOMAIN w = 1..Len(s) /\ w = [i \in 1..Len(s) |-> w[i]]
    BY <1>6
  <2>2. \A i \in 1..Len(s) : w[i] = IF i = 1 THEN head[q] ELSE next[w[i - 1]]
    BY <1>6
  <2>3. \A i \in 1..Len(s) : s[i] = IF i = 1 THEN head[q] ELSE next[s[i - 1]]
    BY <1>5
  <2>4. Len(s) >= 1 => 1 \in I
    BY <1>2, <2>2, <2>3
  <2>5. ASSUME NEW i \in I, i \in 1..(Len(s) - 1) PROVE i + 1 \in I
    <3>1. i + 1 \in 1..Len(s) /\ (i + 1) - 1 = i /\ i + 1 # 1
      BY <1>2, <2>5
    <3> QED BY <2>2, <2>3, <3>1
  <2> HIDE DEF I
  <2>6. \A i \in 1..Len(s) : i \in I
    BY <1>2, <2>4, <2>5, Induction
  <2>7. \A i \in 1..Len(s) : w[i] = s[i]
    BY <2>6 DEF I
  <2> QED BY <1>1, <1>2, <2>1, <2>7
<1> HIDE DEF Walks
<1>7. Walks(CHOOSE w : Walks(w))
  BY <1>5
<1> QED BY <1>4, <1>6, <1>7 DEF s
-----------------------------------------------------------------------------
(* What the sequences say of single elements. *)
LEMMA PlacesFacts ==
  ASSUME TypeOK, fila_correta, NEW ls \in Families, Places(ls)
  PROVE  /\ \A q \in Queues :
              /\ ls[q] \in Seq(Elems) /\ Len(ls[q]) \in Nat
              /\ DOMAIN ls[q] = 1..Len(ls[q])
              /\ ls[q] = << >> <=> Len(ls[q]) = 0
              /\ Abstract!ToSet(ls[q]) = {ls[q][i] : i \in 1..Len(ls[q])}
              /\ \A i \in 1..Len(ls[q]) :
                   ls[q][i] \in Elems /\ Linked(ls[q][i])
              /\ \A i, j \in 1..Len(ls[q]) : ls[q][i] = ls[q][j] => i = j
              /\ Len(ls[q]) > 0 => prev[head[q]] = ls[q][Len(ls[q])]
         /\ \A p, q \in Queues : p # q =>
              \A i \in 1..Len(ls[p]), j \in 1..Len(ls[q]) : ls[p][i] # ls[q][j]
<1>1. ASSUME NEW q \in Queues
      PROVE  /\ ls[q] \in Seq(Elems) /\ Len(ls[q]) \in Nat
             /\ DOMAIN ls[q] = 1..Len(ls[q])
             /\ ls[q] = << >> <=> Len(ls[q]) = 0
             /\ Abstract!ToSet(ls[q]) = {ls[q][i] : i \in 1..Len(ls[q])}
  BY DEF Families, Abstract!ToSet
<1>2. ASSUME NEW q \in Queues, NEW i \in 1..Len(ls[q])
      PROVE  ls[q][i] \in Elems /\ Linked(ls[q][i])
  <2> DEFINE x == ls[q][i]
  <2>1. x \in Elems /\ x \in {ls[q][j] : j \in 1..Len(ls[q])}
    BY <1>1
  <2>1a. x \in Abstract!ToSet(ls[q])
    BY <1>1, <2>1
  <2>2. Abstract!InSomeQueue(ls, ls[q][i])
    BY <2>1a DEF Abstract!InSomeQueue, Families
  <2> QED BY <2>1, <2>2 DEF Places
<1>3. ASSUME NEW q \in Queues, NEW i \in 1..Len(ls[q]), NEW j \in 1..Len(ls[q]),
             ls[q][i] = ls[q][j]
      PROVE  i = j
  BY <1>1, <1>3 DEF Places, Abstract!Exclusive, Abstract!NoRepeats, Families
<1>4. ASSUME NEW q \in Queues, Len(ls[q]) > 0
      PROVE  prev[head[q]] = ls[q][Len(ls[q])]
  <2>1. Len(ls[q]) \in 1..Len(ls[q]) /\ head[q] = ls[q][1]
    BY <1>1, <1>4 DEF Places
  <2>2. next[ls[q][Len(ls[q])]] = ls[q][1]
    BY <1>1, <2>1 DEF Places, Follows, Succ
  <2> QED BY <1>2, <2>1, <2>2 DEF fila_correta
<1>5. ASSUME NEW p \in Queues, NEW q \in Queues, p # q,
             NEW i \in 1..Len(ls[p]), NEW j \in 1..Len(ls[q])
      PROVE  ls[p][i] # ls[q][j]
  <2>1. Abstract!ToSet(ls[p]) \cap Abstract!ToSet(ls[q]) = {}
    BY <1>5 DEF Places, Abstract!Exclusive, Families
  <2>2. ls[p][i] \in Abstract!ToSet(ls[p])
    <3>1. Abstract!ToSet(ls[p]) = {ls[p][k] : k \in 1..Len(ls[p])}
      BY <1>1
    <3> QED BY <3>1
  <2>3. ls[q][j] \in Abstract!ToSet(ls[q])
    <3>1. Abstract!ToSet(ls[q]) = {ls[q][k] : k \in 1..Len(ls[q])}
      BY <1>1
    <3> QED BY <3>1
  <2> QED BY <2>1, <2>2, <2>3
<1> QED BY <1>1, <1>2, <1>3, <1>4, <1>5

(* The two effects on the sequences, from QueueOpsProofs. *)
Grown(ls, q, e, new) ==
  /\ new \in Families /\ Abstract!Exclusive(new)
  /\ Len(new[q]) = Len(ls[q]) + 1
  /\ \A i \in 1..Len(new[q]) :
       new[q][i] = IF i <= Len(ls[q]) THEN ls[q][i] ELSE e
  /\ \A p \in Queues \ {q} : new[p] = ls[p]
  /\ \A x : Abstract!InSomeQueue(new, x) <=>
             x = e \/ Abstract!InSomeQueue(ls, x)

Shrunk(ls, q, e, new) ==
  /\ new \in Families /\ Abstract!Exclusive(new)
  /\ Len(new[q]) = Len(ls[q]) - 1
  /\ \E k \in 1..Len(ls[q]) :
       /\ ls[q][k] = e
       /\ \A i \in 1..Len(new[q]) :
            new[q][i] = IF i < k THEN ls[q][i] ELSE ls[q][i + 1]
  /\ \A p \in Queues \ {q} : new[p] = ls[p]
  /\ \A x : Abstract!InSomeQueue(new, x) <=>
             x # e /\ Abstract!InSomeQueue(ls, x)

LEMMA AppendedPlaces ==
  ASSUME NEW ls \in Families, Abstract!Exclusive(ls), NEW q \in Queues,
         NEW e \in Elems, ~Abstract!InSomeQueue(ls, e),
         NEW new, new = [ls EXCEPT ![q] = Append(@, e)]
  PROVE  Grown(ls, q, e, new)
<1>1. Ops!Exclusive(ls) /\ \A p \in Queues : e \notin Ops!ToSet(ls[p])
  BY DEF Ops!Exclusive, Abstract!Exclusive, Ops!NoRepeats, Abstract!NoRepeats,
         Ops!ToSet, Abstract!ToSet, Abstract!InSomeQueue, Families
<1>2. Ops!queue_append(ls, q, e) = new
  BY <1>1 DEF Ops!queue_append, Ops!InSomeQueue, Families
<1>3. Ops!Appended(Queues, Elems, ls, q, e, new)
  <2>1. ls \in [Queues -> Seq(Elems)]
    BY DEF Families
  <2>2. Ops!Appended(Queues, Elems, ls, q, e, Ops!queue_append(ls, q, e))
    BY <1>1, <2>1, Ops!AppendEffect
  <2> QED BY <1>2, <2>2
<1>4. /\ new \in Families /\ new[q] = Append(ls[q], e)
      /\ Len(new[q]) = Len(ls[q]) + 1
      /\ \A p \in Queues \ {q} : new[p] = ls[p]
  BY <1>3 DEF Ops!Appended, Families
<1>5. Abstract!Exclusive(new)
  BY <1>3 DEF Ops!Appended, Ops!Exclusive, Abstract!Exclusive, Ops!NoRepeats,
              Abstract!NoRepeats, Ops!ToSet, Abstract!ToSet
<1>6. \A i \in 1..Len(new[q]) :
        new[q][i] = IF i <= Len(ls[q]) THEN ls[q][i] ELSE e
  BY <1>4 DEF Families
<1>7. /\ Abstract!ToSet(new[q]) = Abstract!ToSet(ls[q]) \cup {e}
      /\ \A p \in Queues \ {q} : Abstract!ToSet(new[p]) = Abstract!ToSet(ls[p])
  BY <1>3 DEF Ops!Appended, Ops!ToSet, Abstract!ToSet
<1>8. DOMAIN new = Queues /\ DOMAIN ls = Queues
  BY <1>4 DEF Families
<1>9. \A x : Abstract!InSomeQueue(new, x) <=>
             x = e \/ Abstract!InSomeQueue(ls, x)
  BY <1>7, <1>8 DEF Abstract!InSomeQueue
<1> QED BY <1>4, <1>5, <1>6, <1>9 DEF Grown

LEMMA RemovedPlaces ==
  ASSUME NEW ls \in Families, Abstract!Exclusive(ls), NEW q \in Queues,
         NEW e \in Abstract!ToSet(ls[q]), NEW new,
         new = [ls EXCEPT ![q] = Abstract!RemoveAt(@, Abstract!Position(@, e))]
  PROVE  Shrunk(ls, q, e, new)
<1>1. Ops!Exclusive(ls) /\ e \in Ops!ToSet(ls[q])
  BY DEF Ops!Exclusive, Abstract!Exclusive, Ops!NoRepeats, Abstract!NoRepeats,
         Ops!ToSet, Abstract!ToSet
<1>2. Ops!queue_remove(ls, q, e) = new
  BY <1>1 DEF Ops!queue_remove, Ops!RemoveAt, Abstract!RemoveAt, Ops!Position,
              Abstract!Position, Families
<1>3. Ops!Removed(Queues, Elems, ls, q, e, new)
  <2>1. ls \in [Queues -> Seq(Elems)]
    BY DEF Families
  <2>2. Ops!Removed(Queues, Elems, ls, q, e, Ops!queue_remove(ls, q, e))
    BY <1>1, <2>1, Ops!RemoveEffect
  <2> QED BY <1>2, <2>2
<1> DEFINE k == Ops!Position(ls[q], e)
<1>4. /\ new \in Families /\ new[q] = Ops!RemoveAt(ls[q], k)
      /\ Len(new[q]) = Len(ls[q]) - 1 /\ ls[q] \in Seq(Elems)
      /\ \A p \in Queues \ {q} : new[p] = ls[p]
  BY <1>3 DEF Ops!Removed, Families
<1>5. Abstract!Exclusive(new)
  BY <1>3 DEF Ops!Removed, Ops!Exclusive, Abstract!Exclusive, Ops!NoRepeats,
              Abstract!NoRepeats, Ops!ToSet, Abstract!ToSet
<1>6. k \in 1..Len(ls[q]) /\ ls[q][k] = e
  BY <1>1, <1>4, Ops!PositionOf
<1>7. \A i \in 1..Len(new[q]) :
        new[q][i] = IF i < k THEN ls[q][i] ELSE ls[q][i + 1]
  <2> HIDE DEF k
  <2>1. \A i \in 1..(Len(ls[q]) - 1) :
          Ops!RemoveAt(ls[q], k)[i] = IF i < k THEN ls[q][i] ELSE ls[q][i + 1]
    BY <1>4, <1>6, Ops!RemoveAtProperties
  <2> QED BY <1>4, <2>1
<1>8. /\ Abstract!ToSet(new[q]) = Abstract!ToSet(ls[q]) \ {e}
      /\ \A p \in Queues \ {q} : Abstract!ToSet(new[p]) = Abstract!ToSet(ls[p])
  BY <1>3 DEF Ops!Removed, Ops!ToSet, Abstract!ToSet
<1>9. \A p \in Queues \ {q} : e \notin Abstract!ToSet(ls[p])
  BY DEF Abstract!Exclusive, Families
<1>10. DOMAIN new = Queues /\ DOMAIN ls = Queues
  BY <1>4 DEF Families
<1>11. \A x : Abstract!InSomeQueue(new, x) <=>
              x # e /\ Abstract!InSomeQueue(ls, x)
  BY <1>8, <1>9, <1>10 DEF Abstract!InSomeQueue
<1> QED BY <1>4, <1>5, <1>6, <1>7, <1>11 DEF Shrunk
-----------------------------------------------------------------------------
(* A queue whose head and next pointers do not change. *)
LEMMA OthersPlaced ==
  ASSUME NEW ls \in Families, Places(ls), NEW p \in Queues, NEW new,
         new = ls[p], head'[p] = head[p],
         \A i \in DOMAIN ls[p] : next'[ls[p][i]] = next[ls[p][i]]
  PROVE  /\ head'[p] = IF new = << >> THEN NULL ELSE new[1]
         /\ Follows(new)'
<1>1. head[p] = (IF ls[p] = << >> THEN NULL ELSE ls[p][1]) /\ Follows(ls[p])
  BY DEF Places
<1>2. ASSUME NEW i \in DOMAIN ls[p] PROVE next'[ls[p][i]] = ls[p][Succ(ls[p], i)]
  BY <1>1 DEF Follows
<1> QED BY <1>1, <1>2 DEF Follows

(* The pointers after a call place the sequences after the same call. *)
LEMMA InitPlaces ==
  ASSUME Init
  PROVE  Places([q \in Queues |-> << >>]) /\ [q \in Queues |-> << >>] \in Families
BY DEF Init, Places, Families, Follows, Linked, Abstract!Exclusive,
       Abstract!NoRepeats, Abstract!ToSet, Abstract!InSomeQueue

LEMMA AppendFirstPlaces ==
  ASSUME TypeOK, fila_correta, NEW ls \in Families, Places(ls),
         NEW q \in Queues, NEW e \in Elems, ~Linked(e), head[q] = NULL,
         AppendFirst(q, e), NEW new, new = [ls EXCEPT ![q] = Append(@, e)]
  PROVE  Places(new)'
<1>1. ~Abstract!InSomeQueue(ls, e) /\ Abstract!Exclusive(ls)
  BY DEF Places
<1>2. /\ new \in Families /\ Abstract!Exclusive(new)
      /\ Len(new[q]) = Len(ls[q]) + 1
      /\ \A i \in 1..Len(new[q]) :
           new[q][i] = IF i <= Len(ls[q]) THEN ls[q][i] ELSE e
      /\ \A p \in Queues \ {q} : new[p] = ls[p]
      /\ \A x : Abstract!InSomeQueue(new, x) <=>
                 x = e \/ Abstract!InSomeQueue(ls, x)
  <2>1. Grown(ls, q, e, new)
    BY <1>1, AppendedPlaces
  <2> QED BY <2>1 DEF Grown
<1>3. /\ head'[q] = e /\ \A p \in Queues \ {q} : head'[p] = head[p]
      /\ next'[e] = e /\ \A x \in Elems \ {e} : next'[x] = next[x]
      /\ prev'[e] = e /\ \A x \in Elems \ {e} : prev'[x] = prev[x]
  BY DEF AppendFirst, TypeOK
<1>4. ASSUME NEW p \in Queues
      PROVE  /\ head'[p] = IF new[p] = << >> THEN NULL ELSE new[p][1]
             /\ Follows(new[p])'
  <2>1. CASE p = q
    <3>1. ls[q] = << >> /\ Len(ls[q]) = 0
      BY PlacesFacts, NULLAssumption DEF Places
    <3>2. Len(new[q]) = 1 /\ new[q][1] = e /\ new[q] \in Seq(Elems)
      BY <1>2, <3>1 DEF Families
    <3> QED BY <1>3, <2>1, <3>2 DEF Follows, Succ
  <2>2. CASE p # q
    <3>1. /\ new[p] = ls[p] /\ head'[p] = head[p] /\ DOMAIN ls[p] = 1..Len(ls[p])
          /\ \A i \in 1..Len(ls[p]) : ls[p][i] \in Elems \ {e}
      BY <1>2, <1>3, <2>2, PlacesFacts
    <3>2. \A i \in DOMAIN ls[p] : next'[ls[p][i]] = next[ls[p][i]]
      BY <1>3, <3>1
    <3> QED BY <3>1, <3>2, OthersPlaced
  <2> QED BY <2>1, <2>2
<1>5. ASSUME NEW x \in Elems PROVE Linked(x)' <=> Abstract!InSomeQueue(new, x)
  <2>1. CASE x = e
    BY <1>2, <1>3, <2>1, NULLAssumption DEF Linked
  <2>2. CASE x # e
    <3>1. Linked(x)' <=> Linked(x)
      BY <1>3, <2>2 DEF Linked
    <3> QED BY <1>2, <2>2, <3>1 DEF Places
  <2> QED BY <2>1, <2>2
<1> QED BY <1>2, <1>4, <1>5 DEF Places

LEMMA AppendLastPlaces ==
  ASSUME TypeOK, fila_correta, NEW ls \in Families, Places(ls),
         NEW q \in Queues, NEW e \in Elems, ~Linked(e), head[q] # NULL,
         AppendLast(q, e), NEW new, new = [ls EXCEPT ![q] = Append(@, e)]
  PROVE  Places(new)'
<1>1. ~Abstract!InSomeQueue(ls, e) /\ Abstract!Exclusive(ls)
  BY DEF Places
<1>2. /\ new \in Families /\ Abstract!Exclusive(new)
      /\ Len(new[q]) = Len(ls[q]) + 1
      /\ \A i \in 1..Len(new[q]) :
           new[q][i] = IF i <= Len(ls[q]) THEN ls[q][i] ELSE e
      /\ \A p \in Queues \ {q} : new[p] = ls[p]
      /\ \A x : Abstract!InSomeQueue(new, x) <=>
                 x = e \/ Abstract!InSomeQueue(ls, x)
  <2>1. Grown(ls, q, e, new)
    BY <1>1, AppendedPlaces
  <2> QED BY <2>1 DEF Grown
<1> DEFINE n     == Len(ls[q])
           first == head[q]
           last  == prev[first]
<1>3. /\ n \in Nat \ {0} /\ first = ls[q][1] /\ last = ls[q][n]
      /\ first \in Elems /\ last \in Elems /\ first # e /\ last # e
      /\ Linked(first) /\ Linked(last)
  <2>1. n \in Nat \ {0} /\ first = ls[q][1]
    BY PlacesFacts DEF Places
  <2>2. last = ls[q][n] /\ 1 \in 1..n /\ n \in 1..n
    BY <2>1, PlacesFacts
  <2>3. \A i \in 1..n : ls[q][i] \in Elems /\ Linked(ls[q][i])
    BY PlacesFacts
  <2> QED BY <2>1, <2>2, <2>3
<1>4. /\ head' = head
      /\ next'[e] = first /\ next'[last] = e
      /\ \A x \in Elems \ {e, last} : next'[x] = next[x]
      /\ prev'[e] = last /\ prev'[first] = e
      /\ \A x \in Elems \ {e, first} : prev'[x] = prev[x]
  BY <1>3 DEF AppendLast, TypeOK
<1>5. ASSUME NEW p \in Queues
      PROVE  /\ head'[p] = IF new[p] = << >> THEN NULL ELSE new[p][1]
             /\ Follows(new[p])'
  <2>1. CASE p = q
    <3>1. /\ Len(new[q]) = n + 1 /\ DOMAIN new[q] = 1..(n + 1) /\ new[q] # << >>
          /\ new[q][n + 1] = e /\ \A i \in 1..n : new[q][i] = ls[q][i]
      BY <1>2, <1>3 DEF Families
    <3>2. ASSUME NEW i \in 1..(n + 1)
          PROVE  next'[new[q][i]] = new[q][Succ(new[q], i)]
      <4>1. CASE i = n + 1
        BY <1>3, <1>4, <3>1, <4>1 DEF Succ
      <4>2. CASE i = n
        BY <1>3, <1>4, <3>1, <4>2 DEF Succ
      <4>3. CASE i < n
        <5>1. i \in 1..n /\ i + 1 \in 1..n /\ i # n /\ i + 1 # 1 /\ n \in 1..n
          BY <1>3, <4>3
        <5>2. ls[q][i] \in Elems \ {e, last}
          BY <1>3, <5>1, PlacesFacts
        <5>3. next[ls[q][i]] = ls[q][i + 1]
          BY <5>1, PlacesFacts DEF Places, Follows, Succ
        <5> QED BY <1>3, <1>4, <3>1, <5>1, <5>2, <5>3 DEF Succ
      <4>4. i = n + 1 \/ i = n \/ i < n
        BY <1>3
      <4> QED BY <4>1, <4>2, <4>3, <4>4
    <3> QED BY <1>3, <1>4, <2>1, <3>1, <3>2 DEF Follows, Succ
  <2>2. CASE p # q
    <3>1. new[p] = ls[p] /\ head'[p] = head[p] /\ DOMAIN ls[p] = 1..Len(ls[p])
      BY <1>2, <1>4, <2>2, PlacesFacts
    <3>2. \A i \in 1..Len(ls[p]) : ls[p][i] \in Elems \ {e, last}
      <4>1. n \in 1..n
        BY <1>3
      <4>2. \A i \in 1..Len(ls[p]) : ls[p][i] \in Elems /\ Linked(ls[p][i])
        BY PlacesFacts
      <4>3. \A i \in 1..Len(ls[p]) : ls[p][i] # ls[q][n]
        BY <2>2, <4>1, PlacesFacts
      <4> QED BY <1>3, <4>2, <4>3
    <3>3. \A i \in DOMAIN ls[p] : next'[ls[p][i]] = next[ls[p][i]]
      BY <1>4, <3>1, <3>2
    <3> QED BY <3>1, <3>3, OthersPlaced
  <2> QED BY <2>1, <2>2
<1>6. ASSUME NEW x \in Elems PROVE Linked(x)' <=> Abstract!InSomeQueue(new, x)
  <2>1. CASE x = e
    BY <1>2, <1>3, <1>4, <2>1, NULLAssumption DEF Linked
  <2>2. CASE x # e
    <3>1. Linked(x)' <=> Linked(x)
      BY <1>3, <1>4, <2>2, NULLAssumption DEF Linked, fila_correta
    <3> QED BY <1>2, <2>2, <3>1 DEF Places
  <2> QED BY <2>1, <2>2
<1> QED BY <1>2, <1>5, <1>6 DEF Places

(* Closing the gap in one sequence: p and n are the places before and     *)
(* after k in the ring of length m.                                        *)
LEMMA RingWithout ==
  ASSUME NEW m \in Nat, m > 1, NEW k \in 1..m, NEW i \in 1..(m - 1),
         NEW a, a = (IF i < k THEN i ELSE i + 1),
         NEW b, b = (IF i = m - 1 THEN 1 ELSE i + 1),
         NEW c, c = (IF b < k THEN b ELSE b + 1),
         NEW d, d = (IF a = m THEN 1 ELSE a + 1)
  PROVE  /\ a \in 1..m /\ a # k /\ c \in 1..m /\ d \in 1..m
         /\ d # k => c = d
         /\ d = k => c = IF k = m THEN 1 ELSE k + 1
OBVIOUS

LEMMA UnlinkPlaces ==
  ASSUME IInv, NEW ls \in Families, Places(ls),
         NEW q \in Queues, NEW e \in Elems, RemoveResult(q, e) = 0, Unlink(q, e),
         NEW new,
         new = [ls EXCEPT ![q] = Abstract!RemoveAt(@, Abstract!Position(@, e))]
  PROVE  Places(new)'
<1> DEFINE s == ls[q]
           m == Len(s)
           t == new[q]
           p == prev[e]
           n == next[e]
<1>1. TypeOK /\ fila_correta
  BY RepSound DEF IInv
<1>2. head[q] # NULL /\ e \in Visited(q)
  BY NULLAssumption DEF RemoveResult
<1>3. Abstract!Exclusive(ls) /\ e \in Abstract!ToSet(ls[q])
  BY <1>1, <1>2, VisitedIsListed DEF Places
<1>4. Shrunk(ls, q, e, new)
  BY <1>3, RemovedPlaces
<1>5. PICK k \in 1..m :
        s[k] = e /\ \A i \in 1..Len(t) : t[i] = IF i < k THEN s[i] ELSE s[i + 1]
  BY <1>4 DEF Shrunk
<1>6. /\ new \in Families /\ Abstract!Exclusive(new) /\ Len(t) = m - 1
      /\ \A r \in Queues \ {q} : new[r] = ls[r]
      /\ \A x : Abstract!InSomeQueue(new, x) <=>
                 x # e /\ Abstract!InSomeQueue(ls, x)
  BY <1>4 DEF Shrunk
<1>7. /\ m \in Nat \ {0} /\ DOMAIN s = 1..m /\ DOMAIN t = 1..(m - 1)
      /\ t = << >> <=> m = 1
      /\ \A i \in 1..m : s[i] \in Elems /\ Linked(s[i])
      /\ \A i, j \in 1..m : s[i] = s[j] => i = j
      /\ \A i \in 1..m : next[s[i]] = s[IF i = m THEN 1 ELSE i + 1]
      /\ head[q] = s[1]
  <2>1. s \in Seq(Elems) /\ t \in Seq(Elems)
    BY <1>6 DEF Families
  <2>2. /\ m \in Nat \ {0} /\ DOMAIN s = 1..m /\ DOMAIN t = 1..(m - 1)
        /\ t = << >> <=> m = 1
    <3>1. m \in Nat /\ k \in 1..m /\ Len(t) = m - 1
      BY <1>6, <2>1
    <3>2. DOMAIN s = 1..m /\ DOMAIN t = 1..(m - 1)
      BY <2>1, <3>1
    <3>3. t = << >> <=> Len(t) = 0
      BY <2>1
    <3> HIDE DEF m, t
    <3>4. m \in Nat \ {0} /\ (Len(t) = 0 <=> m = 1)
      BY <3>1
    <3> QED BY <3>2, <3>3, <3>4
  <2>3. /\ \A i \in 1..m : s[i] \in Elems /\ Linked(s[i])
        /\ \A i, j \in 1..m : s[i] = s[j] => i = j
    BY <1>1, PlacesFacts
  <2>4. head[q] = s[1]
    BY <1>2 DEF Places
  <2>5. \A i \in 1..m : next[s[i]] = s[IF i = m THEN 1 ELSE i + 1]
    BY <2>2 DEF Places, Follows, Succ
  <2> QED BY <2>2, <2>3, <2>4, <2>5
<1>8. /\ p \in Elems /\ n \in Elems /\ Linked(e) /\ Linked(p) /\ Linked(n)
      /\ next[p] = e /\ prev[n] = e
  BY <1>1, <1>5, <1>7, NULLAssumption DEF fila_correta, Linked, TypeOK
<1>9. /\ head' = [head EXCEPT ![q] = NewHead(q, e)]
      /\ \A x \in Elems \ {e} :
           /\ next'[x] = IF x = p THEN n ELSE next[x]
           /\ prev'[x] = IF x = n THEN p ELSE prev[x]
      /\ next'[e] = NULL /\ prev'[e] = NULL
  <2>1. PICK own \in Divisions : Rep(own)
    BY DEF IInv
  <2> QED BY <1>1, <2>1, UnlinkEffect
<1> HIDE DEF s, m, t, p, n
<1>10. ASSUME NEW i \in 1..(m - 1)
       PROVE  next'[t[i]] = t[IF i = m - 1 THEN 1 ELSE i + 1]
  <2> DEFINE a == IF i < k THEN i ELSE i + 1
             b == IF i = m - 1 THEN 1 ELSE i + 1
             c == IF b < k THEN b ELSE b + 1
             d == IF a = m THEN 1 ELSE a + 1
  <2>1. m > 1 /\ m \in Nat /\ b \in 1..(m - 1)
    BY <1>7
  <2>2. /\ a \in 1..m /\ a # k /\ c \in 1..m /\ d \in 1..m
        /\ d # k => c = d
        /\ d = k => c = IF k = m THEN 1 ELSE k + 1
    BY <2>1, RingWithout
  <2>3. t[i] = s[a] /\ t[b] = s[c]
    <3>1. i \in 1..Len(t) /\ b \in 1..Len(t)
      BY <1>6, <2>1
    <3> HIDE DEF b
    <3> QED BY <1>5, <3>1
  <2>4. next[s[a]] = s[d] /\ n = s[IF k = m THEN 1 ELSE k + 1]
    BY <1>5, <1>7, <2>2 DEF n
  <2> HIDE DEF a, b, c, d
  <2>5. s[a] \in Elems \ {e}
    BY <1>5, <1>7, <2>2
  <2>6. CASE d = k
    <3>1. s[a] = p
      BY <1>1, <1>5, <1>7, <2>2, <2>4, <2>6 DEF fila_correta, p
    <3> QED BY <1>9, <2>2, <2>3, <2>4, <2>5, <2>6, <3>1 DEF b
  <2>7. CASE d # k
    <3>1. s[a] # p
      BY <1>5, <1>7, <1>8, <2>2, <2>4, <2>7
    <3> QED BY <1>9, <2>2, <2>3, <2>4, <2>5, <2>7, <3>1 DEF b
  <2> QED BY <2>6, <2>7
<1>11. head'[q] = IF t = << >> THEN NULL ELSE t[1]
  <2>1. head'[q] = NewHead(q, e)
    BY <1>1, <1>9 DEF TypeOK
  <2>2. CASE k = 1
    <3>1. n = (IF m = 1 THEN e ELSE s[2]) /\ head[q] = e
      BY <1>5, <1>7, <2>2 DEF n
    <3>2. m # 1 => t[1] = s[2] /\ s[2] # e
      BY <1>5, <1>6, <1>7, <2>2 DEF s, t, m
    <3> QED BY <1>7, <2>1, <3>1, <3>2 DEF NewHead, n
  <2>3. CASE k # 1
    <3>1. head[q] # e /\ m # 1 /\ t[1] = s[1]
      BY <1>5, <1>6, <1>7, <2>3 DEF s, t, m
    <3> QED BY <1>7, <2>1, <3>1 DEF NewHead
  <2> QED BY <2>2, <2>3
<1>12. ASSUME NEW r \in Queues
       PROVE  /\ head'[r] = IF new[r] = << >> THEN NULL ELSE new[r][1]
              /\ Follows(new[r])'
  <2>1. CASE r = q
    <3>1. Follows(t)'
      <4>1. Len(t) = m - 1 /\ DOMAIN t = 1..(m - 1)
        BY <1>6, <1>7
      <4>2. \A i \in 1..(m - 1) : next'[t[i]] = t[IF i = Len(t) THEN 1 ELSE i + 1]
        BY <1>10, <4>1
      <4> QED BY <4>1, <4>2 DEF Follows, Succ
    <3> QED BY <1>11, <2>1, <3>1 DEF t
  <2>2. CASE r # q
    <3>1. new[r] = ls[r] /\ head'[r] = head[r]
      BY <1>1, <1>6, <1>9, <2>2 DEF TypeOK
    <3>2. \A i \in DOMAIN ls[r] : ls[r][i] \in Elems /\ ls[r][i] # e
      <4>1. DOMAIN ls[r] = 1..Len(ls[r]) /\ \A i \in 1..Len(ls[r]) : ls[r][i] \in Elems
        BY <1>1, PlacesFacts
      <4>2. \A i \in 1..Len(ls[r]) : ls[r][i] # ls[q][k]
        BY <1>1, <2>2, PlacesFacts DEF m, s
      <4> QED BY <1>5, <4>1, <4>2 DEF s
    <3>3. \A i \in DOMAIN ls[r] : ls[r][i] # p
      <4>1. DOMAIN ls[r] = 1..Len(ls[r])
        BY <1>1, PlacesFacts
      <4>2. \A i \in DOMAIN ls[r] : next[ls[r][i]] # e
        <5>1. ASSUME NEW i \in DOMAIN ls[r] PROVE next[ls[r][i]] # e
          <6>1. next[ls[r][i]] = ls[r][Succ(ls[r], i)]
            BY DEF Places, Follows
          <6>2. Succ(ls[r], i) \in DOMAIN ls[r]
            BY <1>1, <4>1, PlacesFacts DEF Succ
          <6> QED BY <3>2, <6>1, <6>2
        <5> QED BY <5>1
      <4> QED BY <1>8, <4>2
    <3>4. \A i \in DOMAIN ls[r] : next'[ls[r][i]] = next[ls[r][i]]
      BY <1>9, <3>2, <3>3
    <3> QED BY <3>1, <3>4, OthersPlaced
  <2> QED BY <2>1, <2>2
<1>13. ASSUME NEW x \in Elems PROVE Linked(x)' <=> Abstract!InSomeQueue(new, x)
  <2>1. CASE x = e
    BY <1>6, <1>9, <2>1 DEF Linked
  <2>2. CASE x # e
    <3>1. Linked(x)' <=> Linked(x)
      BY <1>8, <1>9, <2>2, NULLAssumption DEF Linked
    <3> QED BY <1>6, <2>2, <3>1 DEF Places
  <2> QED BY <2>1, <2>2
<1> QED BY <1>6, <1>12, <1>13 DEF Places
-----------------------------------------------------------------------------
(* The two results of a call are those of the abstract call. *)
LEMMA SameResults ==
  ASSUME IInv, NEW ls \in Families, Places(ls),
         NEW q \in Queues \cup {NULL}, NEW e \in Elems \cup {NULL}
  PROVE  /\ AppendResult(q, e) =
              IF q = NULL THEN -1 ELSE IF e = NULL THEN -2
              ELSE IF Abstract!InSomeQueue(ls, e) THEN -3 ELSE 0
         /\ RemoveResult(q, e) =
              IF q = NULL THEN -1 ELSE IF ls[q] = << >> THEN -2
              ELSE IF e = NULL THEN -3
              ELSE IF ~Abstract!InSomeQueue(ls, e) THEN -4
              ELSE IF e \notin Abstract!ToSet(ls[q]) THEN -5 ELSE 0
<1>1. TypeOK /\ fila_correta
  BY RepSound DEF IInv
<1>2. e # NULL => (Linked(e) <=> Abstract!InSomeQueue(ls, e))
  BY DEF Places
<1>3. e # NULL => (Linked(e) <=> ~(prev[e] = NULL \/ next[e] = NULL))
  BY <1>1 DEF fila_correta, Linked
<1>4. q # NULL => (head[q] = NULL <=> ls[q] = << >>)
  BY <1>1, PlacesFacts, NULLAssumption DEF Places
<1>5. q # NULL /\ head[q] # NULL => Visited(q) = Abstract!ToSet(ls[q])
  BY <1>1, VisitedIsListed
<1>6. AppendResult(q, e) =
              IF q = NULL THEN -1 ELSE IF e = NULL THEN -2
              ELSE IF Abstract!InSomeQueue(ls, e) THEN -3 ELSE 0
  BY <1>2 DEF AppendResult
<1> QED BY <1>2, <1>3, <1>4, <1>5, <1>6 DEF RemoveResult

(* The mapped variable is the sequences that the pointers place. *)
LEMMA MappedIs ==
  TypeOK => \A ls \in Families : Places(ls) => [q \in Queues |-> List(q)] = ls
<1> SUFFICES ASSUME TypeOK, NEW ls \in Families, Places(ls)
             PROVE  [q \in Queues |-> List(q)] = ls
  OBVIOUS
<1>1. \A q \in Queues : List(q) = ls[q]
  BY ListIs
<1>2. ls = [q \in Queues |-> ls[q]]
  BY DEF Families
<1> QED BY <1>1, <1>2

LEMMA MappedIsNext ==
  (TypeOK => \A ls \in Families : Places(ls) => [q \in Queues |-> List(q)] = ls)'
BY MappedIs, PTL

(* Every step of the pointers is a step of the sequences, or a stutter. *)
LEMMA StepImplements ==
  ASSUME IInv, IInv', NEW ls \in Families, Places(ls), [Next]_vars
  PROVE  /\ [Abstract!Next]_(Abstract!vars)
         /\ \E new \in Families : Places(new)'
<1> DEFINE lists == [q \in Queues |-> List(q)]
<1>1. TypeOK /\ fila_correta /\ TypeOK'
  BY RepSound DEF IInv
<1>2. lists = ls
  BY <1>1, MappedIs
<1>3. ASSUME NEW new \in Families, Places(new)' PROVE lists' = new
  BY <1>1, <1>3, MappedIsNext
<1>4. ASSUME UNCHANGED << head, prev, next >> PROVE Places(ls)'
  BY <1>4 DEF Places, Follows, Linked
<1>5. ASSUME NEW q \in Queues \cup {NULL}, NEW e \in Elems \cup {NULL},
             queue_append(q, e)
      PROVE  Abstract!Next /\ \E new \in Families : Places(new)'
  <2> DEFINE longer == [ls EXCEPT ![q] = Append(@, e)]
  <2>1. ret' = IF q = NULL THEN -1 ELSE IF e = NULL THEN -2
               ELSE IF Abstract!InSomeQueue(ls, e) THEN -3 ELSE 0
    BY <1>5, SameResults DEF queue_append
  <2>2. PICK new \in Families : Places(new)' /\ new = IF ret' = 0 THEN longer ELSE ls
    <3>1. CASE ret' # 0
      BY <1>4, <1>5, <3>1 DEF queue_append
    <3>2. CASE ret' = 0
      <4>1. q \in Queues /\ e \in Elems /\ ~Linked(e)
        BY <1>5, <3>2 DEF queue_append, AppendResult
      <4>2. Grown(ls, q, e, longer)
        BY <4>1, AppendedPlaces DEF Places
      <4>3. head[q] = NULL => Places(longer)'
        BY <1>1, <1>5, <3>2, <4>1, AppendFirstPlaces DEF queue_append
      <4>4. head[q] # NULL => Places(longer)'
        BY <1>1, <1>5, <3>2, <4>1, AppendLastPlaces DEF queue_append
      <4> QED BY <3>2, <4>2, <4>3, <4>4 DEF Grown
    <3> QED BY <3>1, <3>2
  <2>3. lists' = new
    BY <1>3, <2>2
  <2>4. Abstract!AppendElem(q, e)
    <3>1. ret' = Abstract!AppendResult(q, e)
      BY <1>2, <2>1 DEF Abstract!AppendResult
    <3>2. lists' = IF ret' = 0 THEN longer ELSE lists
      BY <1>2, <2>2, <2>3
    <3> QED BY <1>2, <3>1, <3>2 DEF Abstract!AppendElem
  <2> QED BY <2>2, <2>4 DEF Abstract!Next
<1>6. ASSUME NEW q \in Queues \cup {NULL}, NEW e \in Elems \cup {NULL},
             queue_remove(q, e)
      PROVE  Abstract!Next /\ \E new \in Families : Places(new)'
  <2> DEFINE shorter == [ls EXCEPT ![q] = Abstract!RemoveAt(@, Abstract!Position(@, e))]
  <2>1. ret' = IF q = NULL THEN -1 ELSE IF ls[q] = << >> THEN -2
               ELSE IF e = NULL THEN -3
               ELSE IF ~Abstract!InSomeQueue(ls, e) THEN -4
               ELSE IF e \notin Abstract!ToSet(ls[q]) THEN -5 ELSE 0
    BY <1>6, SameResults DEF queue_remove
  <2>2. PICK new \in Families : Places(new)' /\ new = IF ret' = 0 THEN shorter ELSE ls
    <3>1. CASE ret' # 0
      BY <1>4, <1>6, <3>1 DEF queue_remove
    <3>2. CASE ret' = 0
      <4>1. q \in Queues /\ e \in Elems /\ RemoveResult(q, e) = 0 /\ Unlink(q, e)
        BY <1>6, <3>2 DEF queue_remove, RemoveResult
      <4>2. e \in Abstract!ToSet(ls[q])
        BY <2>1, <3>2
      <4>3. Shrunk(ls, q, e, shorter)
        BY <4>1, <4>2, RemovedPlaces DEF Places
      <4>4. Places(shorter)'
        BY <4>1, UnlinkPlaces
      <4> QED BY <3>2, <4>3, <4>4 DEF Shrunk
    <3> QED BY <3>1, <3>2
  <2>3. lists' = new
    BY <1>3, <2>2
  <2>4. Abstract!RemoveElem(q, e)
    <3>1. ret' = Abstract!RemoveResult(q, e)
      BY <1>2, <2>1 DEF Abstract!RemoveResult
    <3>2. lists' = IF ret' = 0 THEN shorter ELSE lists
      BY <1>2, <2>2, <2>3
    <3> QED BY <1>2, <3>1, <3>2 DEF Abstract!RemoveElem
  <2> QED BY <2>2, <2>4 DEF Abstract!Next
<1>7. ASSUME UNCHANGED vars
      PROVE  UNCHANGED Abstract!vars /\ \E new \in Families : Places(new)'
  <2>1. Places(ls)'
    BY <1>4, <1>7 DEF vars
  <2>2. lists' = ls /\ ret' = ret
    BY <1>3, <1>7, <2>1 DEF vars
  <2> QED BY <1>2, <2>1, <2>2 DEF Abstract!vars
<1> QED BY <1>5, <1>6, <1>7 DEF Next

(* A history of the pointers is one of sequences: elements keep the order  *)
(* of their insertion, an element leaves from any place, and every call    *)
(* returns the code that the sequences give (queue.c, queue_append and     *)
(* queue_remove).                                                          *)
THEOREM QueuesImplementSequences == Spec => ImplementsSequences
<1> DEFINE Placed == \E ls \in Families : Places(ls)
<1>1. Init => Abstract!Init /\ Placed
  <2> SUFFICES ASSUME Init PROVE Abstract!Init /\ Placed
    OBVIOUS
  <2>1. TypeOK
    BY InitIInv DEF IInv
  <2>2. [q \in Queues |-> List(q)] = [q \in Queues |-> << >>]
    BY <2>1, InitPlaces, MappedIs
  <2>3. ret = 0
    BY DEF Init
  <2> QED BY <2>2, <2>3, InitPlaces DEF Abstract!Init
<1>2. IInv /\ IInv' /\ Placed /\ [Next]_vars
        => [Abstract!Next]_(Abstract!vars) /\ Placed'
  BY StepImplements
<1> HIDE DEF Placed
<1> QED BY <1>1, <1>2, InvariantHolds, PTL
        DEF Spec, ImplementsSequences, Abstract!Spec
=============================================================================
