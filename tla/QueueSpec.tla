----------------------------- MODULE QueueSpec ------------------------------
(***************************************************************************)
(* What queue_append and queue_remove of queue.c promise, over             *)
(* sequences: appending puts an element at the end, removing takes one     *)
(* out, an invalid call changes nothing and says why in its result.        *)
(***************************************************************************)
EXTENDS QueueOps

CONSTANTS Queues, Elems, NULL

VARIABLES
  lists,   \* the content of each queue
  ret      \* the result of the last call

vars == << lists, ret >>

Init == lists = [q \in Queues |-> << >>] /\ ret = 0

\* The early returns of an invalid call, in the order of their checks.
AppendResult(q, e) ==
  IF q = NULL THEN -1
  ELSE IF e = NULL THEN -2
  ELSE IF InSomeQueue(lists, e) THEN -3
  ELSE 0

RemoveResult(q, e) ==
  IF q = NULL THEN -1
  ELSE IF lists[q] = << >> THEN -2
  ELSE IF e = NULL THEN -3
  ELSE IF ~InSomeQueue(lists, e) THEN -4
  ELSE IF e \notin ToSet(lists[q]) THEN -5
  ELSE 0

AppendElem(q, e) ==
  /\ ret' = AppendResult(q, e)
  /\ lists' = IF ret' = 0 THEN [lists EXCEPT ![q] = Append(@, e)] ELSE lists

RemoveElem(q, e) ==
  /\ ret' = RemoveResult(q, e)
  /\ lists' = IF ret' = 0
              THEN [lists EXCEPT ![q] = RemoveAt(@, Position(@, e))]
              ELSE lists

Next == \E q \in Queues \cup {NULL}, e \in Elems \cup {NULL} :
          AppendElem(q, e) \/ RemoveElem(q, e)

Spec == Init /\ [][Next]_vars
=============================================================================
