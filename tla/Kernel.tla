------------------------------- MODULE Kernel -------------------------------
(***************************************************************************)
(* The PingPongOS kernel: the dispatcher loop, the tasks it switches to,   *)
(* the kernel calls of ppos_core.c and the semaphores of ppos_ipc.c, and   *)
(* the timer signal that preempts user code.                               *)
(*                                                                         *)
(* Grain.  There is one processor.  A kernel call sets lock_kernel, and    *)
(* task_preemption then only counts the tick; so a call up to its          *)
(* task_switch or its return is one action, and TickKernel lets the clock  *)
(* advance anywhere.  That the lock makes one step of what a call does to  *)
(* the queues is OneStep of DiskRing.  Other signals are not masked by     *)
(* it: programs without the disk have none, for those with it see          *)
(* DiskManager.  User code between two calls is not modelled: the running  *)
(* task may make any call of Calls next, or none.                          *)
(*                                                                         *)
(* A task is its descriptor (task_t).  A descriptor that was never created *)
(* has state 0 in static storage, which is TERM.                           *)
(***************************************************************************)
EXTENDS QueueOps, Scheduler, FiniteSets

CONSTANTS
  Tasks,        \* the user task descriptors, main_task among them
  Main,
  Dispatcher,   \* the task of id 1
  Sems,
  NULL,
  DEFAULT_QUANTUM_TICKS,
  Calls,        \* the kernel calls the programs of the instance make
  Prios,        \* arguments of task_setprio
  Durations,    \* arguments of task_sleep
  SemValues,    \* initial values of semaphores
  ExitCodes,    \* arguments of task_exit
  ClockMod,     \* systime() is an unsigned int: 2^32
  MaxCounter    \* bound on a semaphore's counter

ASSUME KernelAssumption ==
  /\ Main \in Tasks /\ Dispatcher \notin Tasks /\ NULL \notin Tasks
  /\ IsFiniteSet(Tasks)
  /\ DEFAULT_QUANTUM_TICKS \in Nat \ {0} /\ ClockMod \in Nat \ {0}
  /\ MaxCounter \in Nat
  /\ Prios \subseteq Int /\ Durations \subseteq Nat
  /\ SemValues \subseteq 0..MaxCounter /\ ExitCodes \subseteq Int

DEFAULT_PRIO == 0

VARIABLES
  current,         \* current_task
  lock_kernel,     \* its value while user code runs
  counter_ticks,   \* ticks left of the running task's quantum
  system_clock,
  num_user_tasks,
  queue,           \* every queue of tasks, see Queues
  state, static_prio, dynam_prio, wake_time, exit_code,   \* fields of task_t
  counter, destroyed,                                     \* semaphore_t
  dpc,             \* where dispatcher_proc stands
  next_task,       \* its local variable
  cur, size,       \* the local variables of wake_tasks
  pc, arg          \* a task inside task_join, and the task it joins

cpu   == << current, lock_kernel, counter_ticks >>
tcb   == << state, static_prio, dynam_prio, wake_time, exit_code >>
sems  == << counter, destroyed >>
disp  == << dpc, next_task, cur, size >>
joins == << pc, arg >>
vars  == << cpu, system_clock, num_user_tasks, queue, tcb, sems, disp, joins >>

UserQ    == [kind |-> "user_tasks_queue",     of |-> NULL]
SleepQ   == [kind |-> "sleeping_tasks_queue", of |-> NULL]
WaitQ(t) == [kind |-> "waiting_tasks",        of |-> t]
SemQ(s)  == [kind |-> "semaphore",            of |-> s]

Queues == {UserQ, SleepQ} \cup {WaitQ(t) : t \in Tasks}
                          \cup {SemQ(s) : s \in Sems}

(* After ppos_init: main_task is ready, the dispatcher has been switched   *)
(* to and everything else is zero.                                         *)
Init ==
  /\ current = Dispatcher /\ lock_kernel = 0
  /\ counter_ticks = 0 /\ system_clock = 0 /\ num_user_tasks = 1
  /\ queue = [q \in Queues |-> IF q = UserQ THEN << Main >> ELSE << >>]
  /\ state = [t \in Tasks |-> IF t = Main THEN "READY" ELSE "TERM"]
  /\ static_prio = [t \in Tasks |-> DEFAULT_PRIO]
  /\ dynam_prio = [t \in Tasks |-> DEFAULT_PRIO]
  /\ wake_time = [t \in Tasks |-> 0]
  /\ exit_code = [t \in Tasks |-> 0]
  /\ counter = [s \in Sems |-> 0]
  /\ destroyed = [s \in Sems |-> FALSE]
  /\ dpc = "loop" /\ next_task = NULL /\ cur = NULL /\ size = 0
  /\ pc = [t \in Tasks |-> "user"] /\ arg = [t \in Tasks |-> NULL]
-----------------------------------------------------------------------------
(* task_switch(&dispatcher) leaves lock_kernel clear. *)
SwitchToDispatcher ==
  current' = Dispatcher /\ lock_kernel' = 0 /\ UNCHANGED counter_ticks

(* A call that returns to its caller with the kernel unlocked. *)
ReturnUnlocked == lock_kernel' = 0 /\ UNCHANGED << current, counter_ticks >>

\* Broken variant: the caller is marked and queued, but keeps the processor.
SuspendNoSwitch(t, q) ==
  /\ state' = [state EXCEPT ![t] = "SUSPENDED"]
  /\ queue' = Move(queue, UserQ, q, t)
  /\ ReturnUnlocked

(* How task_join, task_sleep and sem_down block their caller. *)
Suspend(t, q) ==
  /\ state' = [state EXCEPT ![t] = "SUSPENDED"]
  /\ queue' = Move(queue, UserQ, q, t)
  /\ SwitchToDispatcher

Running(t) == current = t /\ pc[t] = "user"

Uses(call) == call \in Calls
-----------------------------------------------------------------------------
(* ppos_core.c: task management.  A descriptor is created only while its   *)
(* last task has ended: task_create overwrites prev and next.              *)
TaskCreate(t, u) ==
  /\ Uses("task_create") /\ Running(t) /\ state[u] = "TERM"
  /\ state' = [state EXCEPT ![u] = "READY"]
  /\ static_prio' = [static_prio EXCEPT ![u] = DEFAULT_PRIO]
  /\ dynam_prio' = [dynam_prio EXCEPT ![u] = DEFAULT_PRIO]
  /\ exit_code' = [exit_code EXCEPT ![u] = 0]
  /\ queue' = queue_append([queue EXCEPT ![WaitQ(u)] = << >>], UserQ, u)
  /\ num_user_tasks' = num_user_tasks + 1
  /\ ReturnUnlocked
  /\ UNCHANGED << system_clock, wake_time, sems, disp, joins >>

(* The calls that refuse a NULL argument (task_create, sem_create,         *)
(* sem_down, sem_up, sem_destroy) return with lock_kernel still set.       *)
NullArgument(t) ==
  /\ Uses("NULL") /\ Running(t)
  /\ lock_kernel' = 1
  /\ UNCHANGED << current, counter_ticks, system_clock, num_user_tasks, queue,
                  tcb, sems, disp, joins >>

TaskExit(t, code) ==
  /\ Uses("task_exit") /\ Running(t)
  /\ state' = [state EXCEPT ![t] = "TERM"]
  /\ exit_code' = [exit_code EXCEPT ![t] = code]
  /\ SwitchToDispatcher
  /\ UNCHANGED << system_clock, num_user_tasks, queue, static_prio, dynam_prio,
                  wake_time, sems, disp, joins >>

(* The caller keeps its place in user_tasks_queue. *)
TaskYield(t) ==
  /\ Uses("task_yield") /\ Running(t)
  /\ SwitchToDispatcher
  /\ UNCHANGED << system_clock, num_user_tasks, queue, tcb, sems, disp, joins >>

(* A NULL task means the caller, which u = t covers. *)
TaskSetprio(t, u, prio) ==
  /\ Uses("task_setprio") /\ Running(t)
  /\ static_prio' = [static_prio EXCEPT ![u] = prio]
  /\ dynam_prio' = [dynam_prio EXCEPT ![u] = prio]
  /\ ReturnUnlocked
  /\ UNCHANGED << system_clock, num_user_tasks, queue, state, wake_time,
                  exit_code, sems, disp, joins >>

(* Joining a task that has ended, or NULL, returns -1 at once. *)
TaskJoinEnded(t, u) ==
  /\ Uses("task_join") /\ Running(t) /\ state[u] = "TERM"
  /\ ReturnUnlocked
  /\ UNCHANGED << system_clock, num_user_tasks, queue, tcb, sems, disp, joins >>

TaskJoin(t, u) ==
  /\ Uses("task_join") /\ Running(t) /\ state[u] # "TERM"
  /\ Suspend(t, WaitQ(u))
  /\ pc' = [pc EXCEPT ![t] = "join"] /\ arg' = [arg EXCEPT ![t] = u]
  /\ UNCHANGED << system_clock, num_user_tasks, static_prio, dynam_prio,
                  wake_time, exit_code, sems, disp >>

(* Back on the processor, the joiner reads exit_code[arg[t]]; until then   *)
(* it is an ordinary ready task and others run.                            *)
TaskJoinReturn(t) ==
  /\ current = t /\ pc[t] = "join"
  /\ pc' = [pc EXCEPT ![t] = "user"] /\ arg' = [arg EXCEPT ![t] = NULL]
  /\ ReturnUnlocked
  /\ UNCHANGED << system_clock, num_user_tasks, queue, tcb, sems, disp >>

TaskSleep(t, d) ==
  /\ Uses("task_sleep") /\ Running(t)
  /\ wake_time' = [wake_time EXCEPT ![t] = (system_clock + d) % ClockMod]
  /\ Suspend(t, SleepQ)
  /\ UNCHANGED << system_clock, num_user_tasks, static_prio, dynam_prio,
                  exit_code, sems, disp, joins >>
-----------------------------------------------------------------------------
(* ppos_ipc.c: semaphores.  A semaphore is created only while no task is   *)
(* blocked on it: sem_create drops the queue.                              *)
SemCreate(t, s, value) ==
  /\ Uses("sem_create") /\ Running(t) /\ queue[SemQ(s)] = << >>
  /\ counter' = [counter EXCEPT ![s] = value]
  /\ destroyed' = [destroyed EXCEPT ![s] = FALSE]
  /\ ReturnUnlocked
  /\ UNCHANGED << system_clock, num_user_tasks, queue, tcb, disp, joins >>

(* sem_down, sem_up and sem_destroy on a destroyed semaphore: the early    *)
(* return does not clear lock_kernel.                                      *)
SemGone(t, s) ==
  /\ (Uses("sem_down") \/ Uses("sem_up") \/ Uses("sem_destroy"))
  /\ Running(t) /\ destroyed[s]
  /\ lock_kernel' = 1
  /\ UNCHANGED << current, counter_ticks, system_clock, num_user_tasks, queue,
                  tcb, sems, disp, joins >>

SemDown(t, s) ==
  /\ Uses("sem_down") /\ Running(t) /\ ~destroyed[s]
  /\ counter' = [counter EXCEPT ![s] = @ - 1]
  /\ \/ counter'[s] < 0 /\ Suspend(t, SemQ(s))
     \/ counter'[s] >= 0 /\ ReturnUnlocked /\ UNCHANGED << queue, state >>
  /\ UNCHANGED << system_clock, num_user_tasks, static_prio, dynam_prio,
                  wake_time, exit_code, destroyed, disp, joins >>

\* Broken variant: the last waiter is woken instead of the first.
GrantLast(s) ==
  LET last == queue[SemQ(s)][Len(queue[SemQ(s)])]
  IN /\ state' = [state EXCEPT ![last] = "READY"]
     /\ queue' = Move(queue, SemQ(s), UserQ, last)

Grant(s) ==
  LET first == Head(queue[SemQ(s)])
  IN /\ state' = [state EXCEPT ![first] = "READY"]
     /\ queue' = Move(queue, SemQ(s), UserQ, first)

\* Broken variant: < instead of <= in the test for waiters.
SemUpStrict(t, s) ==
  /\ Uses("sem_up") /\ Running(t) /\ ~destroyed[s] /\ counter[s] < MaxCounter
  /\ counter' = [counter EXCEPT ![s] = @ + 1]
  /\ \/ counter'[s] < 0 /\ Grant(s)
     \/ counter'[s] >= 0 /\ UNCHANGED << queue, state >>
  /\ ReturnUnlocked
  /\ UNCHANGED << system_clock, num_user_tasks, static_prio, dynam_prio,
                  wake_time, exit_code, destroyed, disp, joins >>

SemUp(t, s) ==
  /\ Uses("sem_up") /\ Running(t) /\ ~destroyed[s] /\ counter[s] < MaxCounter
  /\ counter' = [counter EXCEPT ![s] = @ + 1]
  /\ \/ counter'[s] <= 0 /\ Grant(s)
     \/ counter'[s] > 0 /\ UNCHANGED << queue, state >>
  /\ ReturnUnlocked
  /\ UNCHANGED << system_clock, num_user_tasks, static_prio, dynam_prio,
                  wake_time, exit_code, destroyed, disp, joins >>

\* Broken variant: released tasks keep the state of a blocked one.
AllReadyNever(q) == state

(* Setting READY every task of a queue. *)
AllReady(q) ==
  [t \in Tasks |-> IF t \in ToSet(queue[q]) THEN "READY" ELSE state[t]]

SemDestroy(t, s) ==
  /\ Uses("sem_destroy") /\ Running(t) /\ ~destroyed[s]
  /\ destroyed' = [destroyed EXCEPT ![s] = TRUE]
  /\ state' = AllReady(SemQ(s))
  /\ queue' = MoveAll(queue, SemQ(s), UserQ)
  /\ ReturnUnlocked
  /\ UNCHANGED << system_clock, num_user_tasks, static_prio, dynam_prio,
                  wake_time, exit_code, counter, disp, joins >>
-----------------------------------------------------------------------------
(* The timer. *)
Tock == system_clock' = (system_clock + 1) % ClockMod

\* Broken variant: counter_ticks-- in the test for zero.
TickUserPostDecrement ==
  /\ current \in Tasks
  /\ Tock
  /\ IF lock_kernel = 0
     THEN /\ counter_ticks' = counter_ticks - 1
          /\ current' = IF counter_ticks = 0 THEN Dispatcher ELSE current
     ELSE UNCHANGED << counter_ticks, current >>
  /\ UNCHANGED << lock_kernel, num_user_tasks, queue, tcb, sems, disp, joins >>

(* SIGALRM during user code: one tick less of the quantum, unless a kernel *)
(* call left the kernel locked.                                            *)
TickUser ==
  /\ current \in Tasks
  /\ Tock
  /\ IF lock_kernel = 0
     THEN /\ counter_ticks' = counter_ticks - 1
          /\ current' = IF counter_ticks' = 0 THEN Dispatcher ELSE current
     ELSE UNCHANGED << counter_ticks, current >>
  /\ UNCHANGED << lock_kernel, num_user_tasks, queue, tcb, sems, disp, joins >>

(* SIGALRM during a kernel call or the dispatcher. *)
TickKernel ==
  /\ dpc # "halted"
  /\ Tock
  /\ UNCHANGED << cpu, num_user_tasks, queue, tcb, sems, disp, joins >>
-----------------------------------------------------------------------------
(* dispatcher_proc. *)
\* Broken variant: the quantum is not renewed.
DispatchTaskOldQuantum ==
  /\ current = Dispatcher /\ dpc = "loop" /\ num_user_tasks # 0
  /\ \E i \in DOMAIN queue[UserQ] :
       /\ IsChoice(queue[UserQ], dynam_prio, i)
       /\ dynam_prio' = Aged(queue[UserQ], dynam_prio, static_prio, i)
       /\ next_task' = queue[UserQ][i]
  /\ current' = next_task'
  /\ counter_ticks' = IF counter_ticks = 0 THEN DEFAULT_QUANTUM_TICKS
                      ELSE counter_ticks - 1
  /\ lock_kernel' = 0
  /\ dpc' = "switched"
  /\ UNCHANGED << system_clock, num_user_tasks, queue, state, static_prio,
                  wake_time, exit_code, sems, cur, size, joins >>

DispatchTask ==
  /\ current = Dispatcher /\ dpc = "loop" /\ num_user_tasks # 0
  /\ \E i \in DOMAIN queue[UserQ] :
       /\ IsChoice(queue[UserQ], dynam_prio, i)
       /\ dynam_prio' = Aged(queue[UserQ], dynam_prio, static_prio, i)
       /\ next_task' = queue[UserQ][i]
  /\ current' = next_task'
  /\ counter_ticks' = DEFAULT_QUANTUM_TICKS
  /\ lock_kernel' = 0
  /\ dpc' = "switched"
  /\ UNCHANGED << system_clock, num_user_tasks, queue, state, static_prio,
                  wake_time, exit_code, sems, cur, size, joins >>

(* Entering wake_tasks: size = queue_size(sleeping_tasks_queue). *)
StartWakeTasks ==
  /\ dpc' = "wake"
  /\ size' = Len(queue[SleepQ])
  /\ cur' = IF queue[SleepQ] = << >> THEN NULL ELSE Head(queue[SleepQ])

(* scheduler() returned NULL. *)
DispatchNone ==
  /\ current = Dispatcher /\ dpc = "loop" /\ num_user_tasks # 0
  /\ queue[UserQ] = << >>
  /\ next_task' = NULL
  /\ StartWakeTasks
  /\ UNCHANGED << cpu, system_clock, num_user_tasks, queue, tcb, sems, joins >>

\* Broken variant: a preempted task is handled like one that has ended.
EndedAlways(t) == TRUE

Ended(t) == state[t] = "TERM"

\* Broken variant: the end of a task is not counted.
TerminateUncounted(t) ==
  /\ state' = AllReady(WaitQ(t))
  /\ queue' = queue_remove(MoveAll(queue, WaitQ(t), UserQ), UserQ, t)
  /\ UNCHANGED num_user_tasks

\* Broken variant: if instead of while, one joiner is woken.
TerminateOneJoiner(t) ==
  /\ IF queue[WaitQ(t)] = << >>
     THEN queue' = queue_remove(queue, UserQ, t) /\ UNCHANGED state
     ELSE LET first == Head(queue[WaitQ(t)])
          IN /\ queue' = queue_remove(Move(queue, WaitQ(t), UserQ, first),
                                      UserQ, t)
             /\ state' = [state EXCEPT ![first] = "READY"]
  /\ num_user_tasks' = num_user_tasks - 1

terminate_task(t) ==
  /\ state' = AllReady(WaitQ(t))
  /\ queue' = queue_remove(MoveAll(queue, WaitQ(t), UserQ), UserQ, t)
  /\ num_user_tasks' = num_user_tasks - 1

(* next_task gave the processor back. *)
AfterSwitch ==
  /\ current = Dispatcher /\ dpc = "switched"
  /\ \/ Ended(next_task) /\ terminate_task(next_task)
     \/ ~Ended(next_task) /\ UNCHANGED << state, queue, num_user_tasks >>
  /\ StartWakeTasks
  /\ UNCHANGED << cpu, system_clock, next_task, static_prio, dynam_prio,
                  wake_time, exit_code, sems, joins >>

(* t->next, in whatever queue t is. *)
NextOf(qs, t) ==
  LET s == qs[CHOOSE q \in Queues : t \in ToSet(qs[q])]
  IN s[(Position(s, t) % Len(s)) + 1]

\* Broken variant: cur->next is read after cur has been moved.
WakeStepLateNext ==
  /\ dpc = "wake" /\ size > 0
  /\ IF system_clock >= wake_time[cur]
     THEN /\ state' = [state EXCEPT ![cur] = "READY"]
          /\ queue' = Move(queue, SleepQ, UserQ, cur)
     ELSE UNCHANGED << state, queue >>
  /\ cur' = NextOf(queue', cur)
  /\ size' = size - 1
  /\ UNCHANGED << cpu, system_clock, num_user_tasks, static_prio, dynam_prio,
                  wake_time, exit_code, sems, dpc, next_task, joins >>

(* One iteration of wake_tasks; each reads the clock again. *)
WakeStep ==
  /\ dpc = "wake" /\ size > 0
  /\ cur' = NextOf(queue, cur)
  /\ IF system_clock >= wake_time[cur]
     THEN /\ state' = [state EXCEPT ![cur] = "READY"]
          /\ queue' = Move(queue, SleepQ, UserQ, cur)
     ELSE UNCHANGED << state, queue >>
  /\ size' = size - 1
  /\ UNCHANGED << cpu, system_clock, num_user_tasks, static_prio, dynam_prio,
                  wake_time, exit_code, sems, dpc, next_task, joins >>

WakeDone ==
  /\ dpc = "wake" /\ size = 0
  /\ dpc' = "loop" /\ cur' = NULL
  /\ UNCHANGED << cpu, system_clock, num_user_tasks, queue, tcb, sems,
                  next_task, size, joins >>

(* The dispatcher's task_exit ends the process. *)
DispatcherExit ==
  /\ current = Dispatcher /\ dpc = "loop" /\ num_user_tasks = 0
  /\ dpc' = "halted"
  /\ UNCHANGED << cpu, system_clock, num_user_tasks, queue, tcb, sems,
                  next_task, cur, size, joins >>

Terminated == dpc = "halted" /\ UNCHANGED vars
-----------------------------------------------------------------------------
OtherCall(t) ==
  \/ \E u \in Tasks : TaskJoin(t, u) \/ TaskJoinEnded(t, u)
  \/ \E u \in Tasks, prio \in Prios : TaskSetprio(t, u, prio)
  \/ \E code \in ExitCodes : TaskExit(t, code)
  \/ \E d \in Durations : TaskSleep(t, d)
  \/ TaskYield(t)
  \/ TaskJoinReturn(t)
  \/ NullArgument(t)
  \/ \E s \in Sems, value \in SemValues : SemCreate(t, s, value)
  \/ \E s \in Sems : SemDown(t, s) \/ SemUp(t, s) \/ SemDestroy(t, s)
                       \/ SemGone(t, s)

User(t) == OtherCall(t) \/ \E u \in Tasks : TaskCreate(t, u)

DispatcherStep ==
  \/ DispatchTask \/ DispatchNone \/ AfterSwitch
  \/ WakeStep \/ WakeDone \/ DispatcherExit

Next ==
  \/ \E t \in Tasks : User(t)
  \/ TickUser \/ TickKernel
  \/ DispatcherStep
  \/ Terminated

Spec == Init /\ [][Next]_vars

(* The dispatcher is never preempted, and the interval timer never stops.  *)
(* Of the tasks nothing is assumed: they may compute forever.              *)
Fairness == WF_vars(DispatcherStep) /\ WF_vars(TickUser)

FairSpec == Spec /\ Fairness
-----------------------------------------------------------------------------
(* Type invariant. *)
TypeOK ==
  /\ current \in Tasks \cup {Dispatcher} /\ lock_kernel \in {0, 1}
  /\ counter_ticks \in Nat /\ system_clock \in 0..(ClockMod - 1)
  /\ num_user_tasks \in Nat
  /\ queue \in [Queues -> Seq(Tasks)]
  /\ state \in [Tasks -> {"READY", "SUSPENDED", "TERM"}]
  /\ static_prio \in [Tasks -> Int] /\ dynam_prio \in [Tasks -> Int]
  /\ wake_time \in [Tasks -> 0..(ClockMod - 1)]
  /\ exit_code \in [Tasks -> Int]
  /\ counter \in [Sems -> Int] /\ destroyed \in [Sems -> BOOLEAN]
  /\ dpc \in {"loop", "switched", "wake", "halted"}
  /\ next_task \in Tasks \cup {NULL}
  /\ cur \in Tasks \cup {NULL} /\ size \in Nat
  /\ pc \in [Tasks -> {"user", "join"}] /\ arg \in [Tasks -> Tasks \cup {NULL}]

(* A task_t has one pair of prev and next: it is never linked into two     *)
(* queues, nor twice into one, whatever the calls and wherever they are    *)
(* preempted.                                                              *)
QueuesExclusive == Exclusive(queue)

(* A task that has ended, whose end the dispatcher has not handled yet. *)
Ending(t) == dpc = "switched" /\ current = Dispatcher
             /\ next_task = t /\ state[t] = "TERM"

(* The state field and the queues never disagree: READY tasks, the running *)
(* one included, are those of user_tasks_queue; a SUSPENDED task is in     *)
(* some blocking queue, so that somebody can still wake it; a task that    *)
(* has ended is in none once terminate_task has run.                       *)
StateMatchesQueue ==
  \A t \in Tasks :
    /\ state[t] = "READY" \/ Ending(t) <=> t \in ToSet(queue[UserQ])
    /\ state[t] = "SUSPENDED" <=>
         \E q \in Queues \ {UserQ} : t \in ToSet(queue[q])

(* Nobody is left waiting for a task that has ended: task_join returns at  *)
(* once for such a task, and terminate_task wakes those who came before.   *)
NoJoinerLeft ==
  \A t \in Tasks : state[t] = "TERM" /\ ~Ending(t) => queue[WaitQ(t)] = << >>

(* Only joins bring the system to a standstill: when tasks are suspended   *)
(* and no one is ready, asleep or queued on a semaphore, some tasks wait   *)
(* for each other in a circle (task_join, which accepts even its caller,   *)
(* checks nothing), and no end of a task has been missed.                  *)
StuckOnlyByJoins ==
  /\ \E t \in Tasks : state[t] = "SUSPENDED"
  /\ queue[UserQ] = << >> /\ queue[SleepQ] = << >>
  /\ \A s \in Sems : queue[SemQ(s)] = << >>
  => \E circle \in SUBSET Tasks :
       /\ circle # {}
       /\ \A t \in circle : \E u \in circle : t \in ToSet(queue[WaitQ(u)])

(* The dispatcher knows who runs: the running task is the one it chose, it *)
(* is READY, and terminate_task is never reached with another descriptor.  *)
CpuOwner ==
  /\ current \in Tasks => /\ dpc = "switched" /\ next_task = current
                          /\ state[current] = "READY"
  /\ dpc = "switched" => next_task \in Tasks

(* The dispatcher leaves its loop, and ends the process, exactly when the  *)
(* last task has ended: num_user_tasks counts the tasks that still need    *)
(* the kernel, neither more (it would spin for ever) nor fewer (they would *)
(* be cut off).                                                            *)
TaskCount ==
  /\ num_user_tasks =
       Cardinality({t \in Tasks : state[t] # "TERM" \/ Ending(t)})
  /\ dpc = "halted" => \A t \in Tasks : state[t] = "TERM"

(* --counter_ticks is tested for zero only: a task must never run with a   *)
(* quantum already used up, or no tick would ever preempt it.              *)
QuantumLeft == current \in Tasks => counter_ticks \in 1..DEFAULT_QUANTUM_TICKS

(* The encoding sem_up relies on when it takes s->queue without looking: a *)
(* negative counter is the number of blocked tasks, and nobody is blocked  *)
(* while units are free.                                                   *)
SemaphoreCount ==
  \A s \in Sems :
    IF destroyed[s] THEN queue[SemQ(s)] = << >>
    ELSE Len(queue[SemQ(s)]) = IF counter[s] < 0 THEN -counter[s] ELSE 0

(* wake_tasks follows next pointers through a queue it is taking apart.    *)
(* Before each iteration cur is the first of the last size elements: no    *)
(* sleeper is visited twice or skipped, and the walk never enters another  *)
(* queue.                                                                  *)
WakeWalk ==
  dpc = "wake" /\ size > 0 =>
    LET s == queue[SleepQ]
    IN size <= Len(s) /\ cur = s[Len(s) - size + 1]

(* A task blocked in task_join leaves the queue of its target only when    *)
(* that target is terminated, and every joiner leaves in the same step.    *)
JoinersReleased ==
  [][\A t \in Tasks :
       queue'[WaitQ(t)] # queue[WaitQ(t)] =>
         \/ Ending(t) /\ queue'[WaitQ(t)] = << >>
         \/ \E u \in Tasks : queue'[WaitQ(t)] = Append(queue[WaitQ(t)], u)]_vars

Sem(s) == INSTANCE Semaphore WITH
  permits   <- IF counter[s] > 0 THEN counter[s] ELSE 0,
  waiting   <- queue[SemQ(s)],
  destroyed <- destroyed[s]

SemInit == \A s \in Sems : Sem(s)!Init

SemNext ==
  \A s \in Sems :
    Sem(s)!Next \/ UNCHANGED << queue[SemQ(s)], counter[s], destroyed[s] >>

(* Each semaphore behaves like Semaphore: the counter and the queue        *)
(* together give units first come, first served, and never lose one.       *)
ImplementsSemaphore == SemInit /\ [][SemNext]_vars

(* Every ready task gets the processor, whatever the running one does, as  *)
(* long as no call leaves the kernel locked for good and ageing reaches    *)
(* far enough (SchedulerRounds).                                           *)
ReadyRuns ==
  <>[](lock_kernel = 0) =>
    \A t \in Tasks : (state[t] = "READY" ~> current = t)

(* When every task has ended, the process ends. *)
EventuallyHalts == (\A t \in Tasks : state[t] = "TERM") ~> dpc = "halted"

(* ppos_core.c:198, the comment on the preemption: what is user code, and  *)
(* not a kernel routine, is subject to it.                                 *)
UserCodeIsPreemptible ==
  current \in Tasks /\ pc[current] = "user" => lock_kernel = 0
=============================================================================
