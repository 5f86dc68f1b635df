----------------------------- MODULE ReadyRing ------------------------------
(***************************************************************************)
(* The ring of user_tasks_queue, assignment by assignment: queue_append    *)
(* and queue_remove of queue.c as the contexts of the process run them,    *)
(* each on a stack of its own, while the timer takes the processor away    *)
(* wherever lock_kernel is 0.  The kernel is there with calls that change  *)
(* the ring: one semaphore, task_create and task_exit.  Statements that    *)
(* only read, one after the other, are one step; a quantum may end at any  *)
(* tick.                                                                   *)
(*                                                                         *)
(* The programs are in DiskRing.                                           *)
(***************************************************************************)
EXTENDS QueueOps, FiniteSets

CONSTANTS
  Tasks, Dispatcher, NULL,
  ready         \* the tasks in user_tasks_queue at first, in order

ASSUME ReadyRingAssumption ==
  /\ Dispatcher \notin Tasks /\ NULL \notin Tasks \cup {Dispatcher}
  /\ ready \in Seq(Tasks) /\ ready # << >> /\ NoRepeats(ready)

UserQ  == "user_tasks_queue"
SemQ   == "semaphore.queue"
Queues == {UserQ, SemQ}

VARIABLES
  head, prev, next,   \* the queues' heads and the pointers of the tasks
  current,            \* the context that runs
  lock_kernel,
  work,        \* what each context has before it in the call it is in
  live,        \* the tasks created and not ended
  suspended,   \* the tasks with state = SUSPENDED
  counter,     \* of the semaphore
  lists        \* history: the queues, were each operation one step

ring == << head, prev, next, lists >>
vars == << ring, current, lock_kernel, work, live, suspended, counter >>

Contexts == Tasks \cup {Dispatcher}

(* The queue q is a ring of the elements of s, in this order. *)
IsRing(q, s) ==
  /\ head[q] = IF s = << >> THEN NULL ELSE s[1]
  /\ \A i \in DOMAIN s : LET j == (i % Len(s)) + 1
                         IN next[s[i]] = s[j] /\ prev[s[j]] = s[i]

Around(n) == [t \in Tasks |->
  IF t \in ToSet(ready)
  THEN ready[((Position(ready, t) - 1 + n) % Len(ready)) + 1] ELSE NULL]

Init ==
  /\ head = [q \in Queues |-> IF q = UserQ THEN ready[1] ELSE NULL]
  /\ next = Around(1) /\ prev = Around(Len(ready) - 1)
  /\ lists = [q \in Queues |-> IF q = UserQ THEN ready ELSE << >>]
  /\ current = Dispatcher /\ lock_kernel = 0
  /\ work = [c \in Contexts |-> << >>]
  /\ live = ToSet(ready) /\ suspended = {} /\ counter = 1
-----------------------------------------------------------------------------
(* A call is a sequence of operations on a queue and statements between    *)
(* them; an operation stands at one of its own statements.                 *)
Do(what)   == [op |-> what]
Put(q, t)  == [op |-> "append", queue |-> q, elem |-> t, at |-> "test"]
Drop(q, t) == [op |-> "remove", queue |-> q, elem |-> t, at |-> "test"]

Now(what)  == work[current] # << >> /\ Head(work[current]).op = what
Then(more) == work' = [work EXCEPT ![current] = more \o Tail(@)]
This       == Head(work[current])

(* The elements the loop "while ((aux = aux->next) != *queue)" comes by,   *)
(* in order; NULL once it has followed a NULL pointer.                     *)
Walk(q) ==
  LET aux[i \in 1..(Cardinality(Tasks) + 1)] ==
        IF i = 1 THEN head[q]
        ELSE IF aux[i - 1] = NULL THEN NULL ELSE next[aux[i - 1]]
  IN aux

Meets(q, t) ==
  \E i \in DOMAIN Walk(q) :
    Walk(q)[i] = t /\ \A j \in 2..i : Walk(q)[j] \notin {head[q], NULL}

Closes(q) ==
  \E i \in DOMAIN Walk(q) \ {1} :
    Walk(q)[i] = head[q] /\ \A j \in 1..i : Walk(q)[j] # NULL

Breaks(q) ==
  head[q] # NULL /\ ~Closes(q) /\ \E i \in DOMAIN Walk(q) : Walk(q)[i] = NULL

Linked(t) == prev[t] # NULL /\ next[t] # NULL

(* One statement of an operation: what it assigns and which one follows.   *)
Statement(s, h, p, n, to) ==
  /\ This.at = s /\ head' = h /\ prev' = p /\ next' = n
  /\ Then(IF to = "return" THEN << >> ELSE << [This EXCEPT !.at = to] >>)

\* At the end of each statement, its line in queue.c.
queue_append_step(q, e) ==
  LET first == head[q] IN
  \/ Statement("test", head, prev, next,                           \* 56, 63
       IF prev[e] # NULL \/ next[e] # NULL THEN "return"
       ELSE IF first = NULL THEN "head" ELSE "prev")
  \/ Statement("head", [head EXCEPT ![q] = e], prev, next, "own prev")  \* 65
  \/ Statement("own prev", head, [prev EXCEPT ![e] = e], next, "own next")
  \/ Statement("own next", head, prev, [next EXCEPT ![e] = e], "return") \* 69
  \/ Statement("prev", head, [prev EXCEPT ![e] = prev[first]], next, "next")
  \/ Statement("next", head, prev, [next EXCEPT ![e] = first], "first")  \* 77
  \/ Statement("first", head, [prev EXCEPT ![first] = e], next, "last")  \* 80
  \/ Statement("last", head, prev, [next EXCEPT ![prev[e]] = e], "return")

queue_remove_step(q, e) ==
  LET first == head[q]
      more  == IF next[first] # first THEN next[first] ELSE NULL
  IN
  \/ /\ first = NULL \/ ~Linked(e) \/ Meets(q, e) \/ Closes(q)      \* 96-131
     /\ Statement("test", head, prev, next,
          IF first = NULL \/ ~Linked(e) \/ ~Meets(q, e) THEN "return"
          ELSE IF e = first THEN "head" ELSE "join next")
  \/ Statement("head", [head EXCEPT ![q] = more], prev, next,      \* 121
               IF more = NULL THEN "clear next" ELSE "join next")
  \/ Statement("join next", head, prev,
               [next EXCEPT ![prev[e]] = next[e]], "join prev")    \* 124
  \/ Statement("join prev", head, [prev EXCEPT ![next[e]] = prev[e]], next,
               "clear next")                                       \* 125
  \/ Statement("clear next", head, prev, [next EXCEPT ![e] = NULL],
               "clear prev")                                       \* 127
  \/ Statement("clear prev", head, [prev EXCEPT ![e] = NULL], next, "return")

(* The statement of this operation goes through a NULL pointer. *)
FollowsNull(op, q, e) ==
  \/ op = "append" /\ This.at \in {"prev", "first"} /\ head[q] = NULL
  \/ op = "append" /\ This.at = "last" /\ prev[e] = NULL
  \/ /\ op = "remove" /\ This.at = "test" /\ Linked(e)
     /\ ~Meets(q, e) /\ Breaks(q)
  \/ op = "remove" /\ This.at = "head" /\ head[q] = NULL
  \/ op = "remove" /\ This.at = "join next" /\ prev[e] = NULL
  \/ op = "remove" /\ This.at = "join prev" /\ next[e] = NULL

Scheduling == current = Dispatcher /\ work[Dispatcher] = << >>

(* Somebody goes along a ring and meets a NULL pointer. *)
RingBreaks ==
  \/ Now("append") /\ FollowsNull("append", This.queue, This.elem)
  \/ Now("remove") /\ FollowsNull("remove", This.queue, This.elem)
  \/ Scheduling /\ Breaks(UserQ)

(* A NULL dereference ends the process; sem_up takes the first waiter of a *)
(* counter below zero without looking.                                     *)
Crash == RingBreaks \/ (Now("up") /\ counter < 0 /\ head[SemQ] = NULL)

QueueStep ==
  /\ \/ Now("append") /\ queue_append_step(This.queue, This.elem)
     \/ Now("remove") /\ queue_remove_step(This.queue, This.elem)
  /\ lists' = IF This.at # "test" THEN lists
              ELSE IF This.op = "append"
              THEN queue_append(lists, This.queue, This.elem)
              ELSE queue_remove(lists, This.queue, This.elem)
  /\ UNCHANGED << current, lock_kernel, live, suspended, counter >>
-----------------------------------------------------------------------------
(* The dispatcher: any task it finds on its way round the ring, or none.   *)
Dispatch ==
  /\ Scheduling
  /\ \/ /\ Closes(UserQ) /\ \E t \in Tasks : Meets(UserQ, t) /\ current' = t
        /\ lock_kernel' = 0
     \/ head[UserQ] = NULL /\ UNCHANGED << current, lock_kernel >>
  /\ UNCHANGED << ring, work, live, suspended, counter >>

\* Broken variant: the timer does not look at lock_kernel.
PreemptAnywhere ==
  /\ current # Dispatcher
  /\ current' = Dispatcher /\ lock_kernel' = 0
  /\ UNCHANGED << ring, work, live, suspended, counter >>

(* task_preemption at the end of a quantum, which may be at any tick. *)
Preempt ==
  /\ current # Dispatcher /\ lock_kernel = 0
  /\ current' = Dispatcher
  /\ UNCHANGED << ring, lock_kernel, work, live, suspended, counter >>

Switch ==
  /\ Now("switch") /\ Then(<< >>) /\ current' = Dispatcher /\ lock_kernel' = 0
  /\ UNCHANGED << ring, live, suspended, counter >>

Unlock ==
  /\ Now("unlock") /\ Then(<< >>) /\ lock_kernel' = 0
  /\ UNCHANGED << ring, current, live, suspended, counter >>

sem_down ==
  /\ Now("down") /\ counter' = counter - 1
  /\ \/ counter > 0 /\ Then(<< >>) /\ UNCHANGED << suspended, lock_kernel >>
     \/ /\ counter <= 0 /\ lock_kernel' = 1
        /\ suspended' = suspended \cup {current}
        /\ Then(<< Drop(UserQ, current), Put(SemQ, current), Do("switch") >>)
  /\ UNCHANGED << ring, current, live >>

sem_up ==
  /\ Now("up") /\ counter' = counter + 1
  /\ \/ counter >= 0 /\ Then(<< >>) /\ UNCHANGED << suspended, lock_kernel >>
     \/ LET first == head[SemQ] IN
        /\ counter < 0 /\ lock_kernel' = 1 /\ suspended' = suspended \ {first}
        /\ Then(<< Drop(SemQ, first), Put(UserQ, first), Do("unlock") >>)
  /\ UNCHANGED << ring, current, live >>

(* A task begins its next call. *)
Begin(t, call) ==
  current = t /\ work[t] = << >> /\ work' = [work EXCEPT ![t] = call]

task_create(t, new) ==
  /\ new \notin live /\ Begin(t, << Put(UserQ, new), Do("unlock") >>)
  /\ lock_kernel' = 1 /\ live' = live \cup {new}
  /\ UNCHANGED << ring, current, suspended, counter >>

(* task_exit leaves the rest to terminate_task in the dispatcher. *)
task_exit(t) ==
  /\ current = t /\ work[t] = << >> /\ live' = live \ {t}
  /\ current' = Dispatcher /\ lock_kernel' = 0
  /\ work' = [work EXCEPT ![Dispatcher] = << Drop(UserQ, t) >>]
  /\ UNCHANGED << ring, suspended, counter >>

Kernel ==
  QueueStep \/ Dispatch \/ Switch \/ Unlock \/ sem_down \/ sem_up
-----------------------------------------------------------------------------
(* c is inside an operation on a queue: it has begun and is not done. *)
Inside(c) ==
  work[c] # << >> /\ Head(work[c]).op \in {"append", "remove"}
                  /\ Head(work[c]).at # "test"

(* Every operation is done or not begun, in the order in which they were   *)
(* called.                                                                 *)
RingsWhole ==
  /\ \A q \in Queues : IsRing(q, lists[q])
  /\ \A t \in Tasks :
       ~InSomeQueue(lists, t) => prev[t] = NULL /\ next[t] = NULL
=============================================================================
