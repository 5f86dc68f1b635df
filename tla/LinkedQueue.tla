---------------------------- MODULE LinkedQueue -----------------------------
(***************************************************************************)
(* queue.c: generic circular doubly linked queues.  An element carries its *)
(* own prev and next pointers (queue_t is the prefix of task_t and of      *)
(* disk_queue_t), so it can be linked into one queue at a time; a queue is *)
(* only a pointer to its first element.  One action is one call, run to    *)
(* completion, as it is for a caller whom nobody interrupts: lock_kernel   *)
(* sees to that for the kernel's calls; the disk manager makes calls with  *)
(* lock_kernel at 0.  DiskRing has both, interrupted.                      *)
(***************************************************************************)
EXTENDS Integers, FiniteSets, Sequences

CONSTANTS
  Queues,  \* the queue_t * variables passed by address
  Elems,   \* the queue_t structures
  NULL

ASSUME NULLAssumption == NULL \notin Queues \cup Elems

VARIABLES
  head,        \* *queue, the first element or NULL
  prev, next,  \* the pointers inside the elements
  ret          \* the result of the last call

vars == << head, prev, next, ret >>

Init ==
  /\ head = [q \in Queues |-> NULL]
  /\ prev = [e \in Elems |-> NULL]
  /\ next = [e \in Elems |-> NULL]
  /\ ret = 0
-----------------------------------------------------------------------------
(* The elements the loop "do ... while ((aux = aux->next) != *queue)"      *)
(* compares with elem: the least set that holds the head and is closed     *)
(* under next.                                                             *)
Visited(q) ==
  {e \in Elems : \A S \in SUBSET Elems :
     (head[q] \in S /\ \A x \in S : next[x] \in S) => e \in S}

(* queue_size: one more for each element the walk visits. *)
queue_size(q) == IF head[q] = NULL THEN 0 ELSE Cardinality(Visited(q))

Linked(e) == prev[e] # NULL \/ next[e] # NULL

\* Broken variant: the test of line 56 is missing.
AppendResultNoCheck(q, e) ==
  IF q = NULL THEN -1 ELSE IF e = NULL THEN -2 ELSE 0

AppendResult(q, e) ==
  IF q = NULL THEN -1
  ELSE IF e = NULL THEN -2
  ELSE IF Linked(e) THEN -3
  ELSE 0

(* Linking e behind the last element, prev[first]; the assignments of      *)
(* lines 65-83 in one step.                                                *)
AppendFirst(q, e) ==
  /\ head' = [head EXCEPT ![q] = e]
  /\ prev' = [prev EXCEPT ![e] = e]
  /\ next' = [next EXCEPT ![e] = e]

\* Broken variant: the new element becomes the head, a stack.
AppendLastPush(q, e) ==
  LET first == head[q]
      last  == prev[first]
  IN /\ prev' = [prev EXCEPT ![e] = last, ![first] = e]
     /\ next' = [next EXCEPT ![e] = first, ![last] = e]
     /\ head' = [head EXCEPT ![q] = e]

\* Broken variant: line 80, the first element keeps its old prev.
AppendLastStale(q, e) ==
  LET first == head[q]
      last  == prev[first]
  IN /\ prev' = [prev EXCEPT ![e] = last]
     /\ next' = [next EXCEPT ![e] = first, ![last] = e]
     /\ UNCHANGED head

AppendLast(q, e) ==
  LET first == head[q]
      last  == prev[first]
  IN /\ prev' = [prev EXCEPT ![e] = last, ![first] = e]
     /\ next' = [next EXCEPT ![e] = first, ![last] = e]
     /\ UNCHANGED head

queue_append(q, e) ==
  /\ ret' = AppendResult(q, e)
  /\ \/ ret' # 0 /\ UNCHANGED << head, prev, next >>
     \/ ret' = 0 /\ head[q] = NULL /\ AppendFirst(q, e)
     \/ ret' = 0 /\ head[q] # NULL /\ AppendLast(q, e)
-----------------------------------------------------------------------------
\* Broken variant: the refusals are positive codes.
RemoveResultUnsigned(q, e) ==
  IF q = NULL THEN 1 ELSE IF head[q] = NULL THEN 2 ELSE IF e = NULL THEN 3
  ELSE IF prev[e] = NULL \/ next[e] = NULL THEN 4
  ELSE IF e \notin Visited(q) THEN 5 ELSE 0

RemoveResult(q, e) ==
  IF q = NULL THEN -1
  ELSE IF head[q] = NULL THEN -2
  ELSE IF e = NULL THEN -3
  ELSE IF prev[e] = NULL \/ next[e] = NULL THEN -4
  ELSE IF e \notin Visited(q) THEN -5
  ELSE 0

(* Line 121: a head that is its own successor was the only element. *)
NewHead(q, e) ==
  IF e # head[q] THEN head[q]
  ELSE IF next[e] # e THEN next[e] ELSE NULL

(* Lines 122-128: the neighbours are joined unless the queue is now empty, *)
(* and the pointers of the element are cleared.                            *)
Unlink(q, e) ==
  LET p == prev[e]
      n == next[e]
  IN /\ head' = [head EXCEPT ![q] = NewHead(q, e)]
     /\ IF head'[q] # NULL
        THEN /\ next' = [next EXCEPT ![p] = n, ![e] = NULL]
             /\ prev' = [prev EXCEPT ![n] = p, ![e] = NULL]
        ELSE /\ next' = [next EXCEPT ![e] = NULL]
             /\ prev' = [prev EXCEPT ![e] = NULL]

queue_remove(q, e) ==
  /\ ret' = RemoveResult(q, e)
  /\ \/ ret' # 0 /\ UNCHANGED << head, prev, next >>
     \/ ret' = 0 /\ Unlink(q, e)
-----------------------------------------------------------------------------
Next == \E q \in Queues \cup {NULL}, e \in Elems \cup {NULL} :
          queue_append(q, e) \/ queue_remove(q, e)

Spec == Init /\ [][Next]_vars
-----------------------------------------------------------------------------
(* Type invariant: pointers designate elements or nothing. *)
TypeOK ==
  /\ head \in [Queues -> Elems \cup {NULL}]
  /\ prev \in [Elems -> Elems \cup {NULL}]
  /\ next \in [Elems -> Elems \cup {NULL}]
  /\ ret \in -5..0

(* fila_correta of testafila.c (lines 56-100), for every queue at once: in *)
(* each queue prev and next are inverse to each other, and both pointers   *)
(* of an element are set or both are clear.                                *)
fila_correta ==
  /\ \A e \in Elems : prev[e] = NULL <=> next[e] = NULL
  /\ \A e \in Elems : Linked(e) => prev[next[e]] = e /\ next[prev[e]] = e
  /\ \A q \in Queues : head[q] # NULL => Linked(head[q])

(* An element that is linked is found from exactly one head: a queue_size  *)
(* or queue_remove walk never runs into the elements of another queue, and *)
(* no element is linked but out of reach of every queue.                   *)
OwnedByOneQueue ==
  \A e \in Elems :
    Linked(e) <=> \E q \in Queues :
                    /\ head[q] # NULL /\ e \in Visited(q)
                    /\ \A r \in Queues \ {q} : head[r] # NULL
                                                 => e \notin Visited(r)
-----------------------------------------------------------------------------
(* The refinement mapping: the sequence of a queue is read off its next    *)
(* pointers from the head.                                                 *)
List(q) ==
  LET walk[i \in 1..queue_size(q)] ==
        IF i = 1 THEN head[q] ELSE next[walk[i - 1]]
  IN walk

Abstract == INSTANCE QueueSpec WITH lists <- [q \in Queues |-> List(q)]

(* The pointers implement the sequences of QueueSpec: order of insertion,  *)
(* removal from any place, and every result code.                          *)
ImplementsSequences == Abstract!Spec
=============================================================================
