------------------------------ MODULE QueueOps ------------------------------
(***************************************************************************)
(* What the circular queues of queue.c are to their users: a function from *)
(* queue names to sequences.  The first element of a sequence is the one   *)
(* the queue pointer (the head) designates and each next one is its        *)
(* ->next.  LinkedQueue models the pointers themselves and shows that they *)
(* implement these sequences; every other module uses the operators below. *)
(***************************************************************************)
EXTENDS Integers, Sequences, SequencesExt

(* elem->prev || elem->next : the element is linked into some queue. *)
InSomeQueue(qs, e) == \E q \in DOMAIN qs : e \in ToSet(qs[q])

(* queue_append refuses an element that is already linked (code -3). *)
queue_append(qs, q, e) ==
  IF InSomeQueue(qs, e) THEN qs ELSE [qs EXCEPT ![q] = Append(@, e)]

Position(s, e) == CHOOSE i \in DOMAIN s : s[i] = e

(* queue_remove refuses an element that the queue does not hold (codes -2, *)
(* -4 and -5); the order of the others does not change.                    *)
queue_remove(qs, q, e) ==
  IF e \in ToSet(qs[q])
  THEN [qs EXCEPT ![q] = RemoveAt(@, Position(@, e))]
  ELSE qs

\* Broken variant: the task leaves one queue and never reaches the other.
MoveNoAppend(qs, from, to, e) == queue_remove(qs, from, e)

(* The idiom of every blocking and every waking call of the kernel. *)
Move(qs, from, to, e) == queue_append(queue_remove(qs, from, e), to, e)

\* Broken variant: the tasks are appended without being removed.
MoveAllKeep(qs, from, to) == [qs EXCEPT ![to] = @ \o qs[from]]

(* The wake-up loops of terminate_task and sem_destroy: while the queue    *)
(* from is not empty, its first element is removed and appended to to.     *)
MoveAll(qs, from, to) ==
  [qs EXCEPT ![from] = << >>, ![to] = @ \o qs[from]]

NoRepeats(s) == \A i, j \in DOMAIN s : s[i] = s[j] => i = j

(* No element is linked twice: neither in two queues nor twice in one. *)
Exclusive(qs) ==
  /\ \A q \in DOMAIN qs : NoRepeats(qs[q])
  /\ \A p, q \in DOMAIN qs : p # q => ToSet(qs[p]) \cap ToSet(qs[q]) = {}
=============================================================================
