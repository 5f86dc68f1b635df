---------------------------- MODULE KernelProofs ----------------------------
(***************************************************************************)
(* The safety of the kernel for any number of tasks and semaphores, any    *)
(* quantum, any priorities and any clock width.  IInv joins the invariants *)
(* of Kernel; none of them is inductive alone: which queue a task is in is *)
(* known from its state, its state from who runs, and who runs from where  *)
(* the dispatcher stands.                                                  *)
(***************************************************************************)
EXTENDS Kernel, QueueOpsProofs, FiniteSetTheorems

IInv ==
  /\ TypeOK
  /\ QueuesExclusive
  /\ StateMatchesQueue
  /\ NoJoinerLeft
  /\ CpuOwner
  /\ TaskCount
  /\ QuantumLeft
  /\ SemaphoreCount
  /\ WakeWalk

(* The tasks num_user_tasks counts. *)
Counted == {t \in Tasks : state[t] # "TERM" \/ Ending(t)}
-----------------------------------------------------------------------------
LEMMA QueueNames ==
  /\ UserQ \in Queues /\ SleepQ \in Queues /\ UserQ # SleepQ
  /\ \A t \in Tasks : WaitQ(t) \in Queues /\ WaitQ(t) \notin {UserQ, SleepQ}
  /\ \A s \in Sems : SemQ(s) \in Queues /\ SemQ(s) \notin {UserQ, SleepQ}
  /\ \A t \in Tasks, s \in Sems : WaitQ(t) # SemQ(s)
  /\ \A t, u \in Tasks : WaitQ(t) = WaitQ(u) => t = u
  /\ \A r, s \in Sems : SemQ(r) = SemQ(s) => r = s
BY DEF Queues, UserQ, SleepQ, WaitQ, SemQ

LEMMA ModRange ==
  ASSUME NEW n \in Nat
  PROVE  n % ClockMod \in 0..(ClockMod - 1)
BY KernelAssumption

LEMMA ModWithin ==
  ASSUME NEW n \in Nat \ {0}, NEW k \in 1..n
  PROVE  /\ (k % n) + 1 \in 1..n
         /\ k < n => k % n = k
<1>1. CASE k < n
  <2>1. k % n = k
    BY <1>1
  <2> QED BY <1>1, <2>1
<1>2. CASE k = n
  <2>1. n % n = 0
    OBVIOUS
  <2> QED BY <1>2, <2>1
<1> QED BY <1>1, <1>2

(* The task on the processor. *)
LEMMA RunningTask ==
  ASSUME IInv, NEW t \in Tasks, current = t
  PROVE  /\ dpc = "switched" /\ next_task = t /\ state[t] = "READY"
         /\ t # Dispatcher /\ \A u \in Tasks : ~Ending(u)
         /\ t \in ToSet(queue[UserQ])
         /\ \A q \in Queues \ {UserQ} : t \notin ToSet(queue[q])
<1>1. /\ dpc = "switched" /\ next_task = t /\ state[t] = "READY"
      /\ t # Dispatcher /\ \A u \in Tasks : ~Ending(u)
  BY KernelAssumption DEF IInv, CpuOwner, Ending
<1>2. t \in ToSet(queue[UserQ])
  BY <1>1 DEF IInv, StateMatchesQueue
<1>3. \A q \in Queues \ {UserQ} : t \notin ToSet(queue[q])
  BY <1>1 DEF IInv, StateMatchesQueue
<1> QED BY <1>1, <1>2, <1>3

(* Without a task on the processor. *)
LEMMA DispatcherRuns ==
  ASSUME IInv, dpc # "switched"
  PROVE  current = Dispatcher /\ \A u \in Tasks : ~Ending(u)
BY DEF IInv, CpuOwner, TypeOK, Ending
-----------------------------------------------------------------------------
LEMMA InitIInv == Init => IInv
<1> SUFFICES ASSUME Init PROVE IInv
  OBVIOUS
<1>1. << >> \in Seq(Tasks) /\ << Main >> \in Seq(Tasks)
      /\ ToSet(<< >>) = {} /\ ToSet(<< Main >>) = {Main}
      /\ NoRepeats(<< >>) /\ NoRepeats(<< Main >>)
  BY KernelAssumption DEF ToSet, NoRepeats
<1>2. /\ queue[UserQ] = << Main >>
      /\ \A q \in Queues \ {UserQ} : queue[q] = << >>
  BY QueueNames DEF Init
<1>3. TypeOK
  BY <1>1, KernelAssumption DEF Init, TypeOK, DEFAULT_PRIO
<1>4. QueuesExclusive
  BY <1>1, <1>2 DEF Init, QueuesExclusive, Exclusive
<1>5. StateMatchesQueue
  BY <1>1, <1>2, QueueNames DEF Init, StateMatchesQueue, Ending
<1>6. CpuOwner /\ QuantumLeft /\ WakeWalk
  BY KernelAssumption DEF Init, CpuOwner, QuantumLeft, WakeWalk
<1>7. TaskCount
  <2>1. {t \in Tasks : state[t] # "TERM" \/ Ending(t)} = {} \cup {Main}
    BY KernelAssumption DEF Init, Ending
  <2>2. Cardinality({} \cup {Main}) = 1
    BY FS_EmptySet, FS_AddElement
  <2> QED BY <2>1, <2>2 DEF Init, TaskCount
<1>8. SemaphoreCount
  BY <1>2, QueueNames DEF Init, SemaphoreCount
<1>9. NoJoinerLeft
  BY <1>2, QueueNames DEF NoJoinerLeft
<1> QED BY <1>3, <1>4, <1>5, <1>6, <1>7, <1>8, <1>9 DEF IInv
-----------------------------------------------------------------------------
(* A step that moves no task and changes no state: what is left to show is *)
(* who runs and where the dispatcher stands.                               *)
LEMMA QuietStep ==
  ASSUME IInv, TypeOK', CpuOwner', QuantumLeft', SemaphoreCount', WakeWalk',
         UNCHANGED << num_user_tasks, queue, state >>,
         \A t \in Tasks : Ending(t)' <=> Ending(t),
         dpc' = "halted" => dpc = "halted" \/ num_user_tasks = 0
  PROVE  IInv'
<1>1. QueuesExclusive'
  BY DEF IInv, QueuesExclusive
<1>2. StateMatchesQueue' /\ NoJoinerLeft'
  BY DEF IInv, StateMatchesQueue, NoJoinerLeft
<1>3. TaskCount'
  <2>1. Counted' = Counted /\ num_user_tasks' = Cardinality(Counted')
    BY DEF IInv, TaskCount, Counted
  <2>2. num_user_tasks = 0 => \A t \in Tasks : state[t] = "TERM"
    <3>1. IsFiniteSet(Counted) /\ num_user_tasks = Cardinality(Counted)
      BY KernelAssumption, FS_Subset DEF IInv, TaskCount, Counted
    <3>2. num_user_tasks = 0 => Counted = {}
      BY <3>1, FS_EmptySet
    <3> QED BY <3>2 DEF Counted
  <2> QED BY <2>1, <2>2 DEF IInv, TaskCount, Counted
<1> QED BY <1>1, <1>2, <1>3 DEF IInv

(* The calls and the ticks that move no task. *)
LEMMA QuietUserIInv ==
  ASSUME IInv, NEW t \in Tasks, current = t,
         \/ NullArgument(t) \/ TaskYield(t) \/ TaskJoinReturn(t)
         \/ \E u \in Tasks : TaskJoinEnded(t, u)
         \/ \E u \in Tasks, prio \in Prios : TaskSetprio(t, u, prio)
         \/ \E s \in Sems, value \in SemValues : SemCreate(t, s, value)
         \/ \E s \in Sems : SemGone(t, s)
  PROVE  IInv'
<1>1. /\ dpc = "switched" /\ next_task = t /\ state[t] = "READY"
      /\ t # Dispatcher /\ \A u \in Tasks : ~Ending(u)
  BY RunningTask
<1>2. /\ UNCHANGED << num_user_tasks, queue, state, disp, system_clock,
                      wake_time, counter_ticks >>
      /\ current' \in {t, Dispatcher} /\ lock_kernel' \in {0, 1}
  BY DEF NullArgument, TaskYield, TaskJoinReturn, TaskJoinEnded, TaskSetprio,
         SemCreate, SemGone, SwitchToDispatcher, ReturnUnlocked, tcb
<1>3. TypeOK'
  <2>1. /\ static_prio' \in [Tasks -> Int] /\ dynam_prio' \in [Tasks -> Int]
        /\ exit_code' \in [Tasks -> Int]
    <3>1. CASE UNCHANGED tcb
      BY <3>1 DEF tcb, IInv, TypeOK
    <3>2. ASSUME NEW u \in Tasks, NEW prio \in Prios, TaskSetprio(t, u, prio)
          PROVE  /\ static_prio' \in [Tasks -> Int]
                 /\ dynam_prio' \in [Tasks -> Int]
                 /\ exit_code' \in [Tasks -> Int]
      BY <3>2, KernelAssumption DEF TaskSetprio, IInv, TypeOK
    <3> QED BY <3>1, <3>2 DEF NullArgument, TaskYield, TaskJoinReturn,
                              TaskJoinEnded, SemCreate, SemGone
  <2>2. counter' \in [Sems -> Int] /\ destroyed' \in [Sems -> BOOLEAN]
    <3>1. CASE UNCHANGED sems
      BY <3>1 DEF sems, IInv, TypeOK
    <3>2. ASSUME NEW s \in Sems, NEW value \in SemValues, SemCreate(t, s, value)
          PROVE  counter' \in [Sems -> Int] /\ destroyed' \in [Sems -> BOOLEAN]
      <4>1. value \in Int
        BY KernelAssumption
      <4> QED BY <3>2, <4>1 DEF SemCreate, IInv, TypeOK
    <3> QED BY <3>1, <3>2 DEF NullArgument, TaskYield, TaskJoinReturn,
                              TaskJoinEnded, TaskSetprio, SemGone
  <2>3. pc' \in [Tasks -> {"user", "join"}] /\ arg' \in [Tasks -> Tasks \cup {NULL}]
    BY DEF IInv, TypeOK, NullArgument, TaskYield, TaskJoinReturn,
           TaskJoinEnded, TaskSetprio, SemCreate, SemGone, joins
  <2> QED BY <1>2, <2>1, <2>2, <2>3 DEF IInv, TypeOK, disp
<1>4. CpuOwner' /\ QuantumLeft' /\ WakeWalk' /\ \A u \in Tasks : ~Ending(u)'
  BY <1>1, <1>2, KernelAssumption
  DEF IInv, CpuOwner, QuantumLeft, WakeWalk, Ending, disp
<1>5. SemaphoreCount'
  <2>1. CASE UNCHANGED sems
    BY <1>2, <2>1 DEF IInv, SemaphoreCount, sems
  <2>2. ASSUME NEW s \in Sems, NEW value \in SemValues, SemCreate(t, s, value)
        PROVE  SemaphoreCount'
    <3>1. value \in Nat
      BY KernelAssumption
    <3>2. /\ queue' = queue /\ Len(queue[SemQ(s)]) = 0
          /\ counter'[s] = value /\ ~destroyed'[s]
      BY <1>2, <2>2 DEF SemCreate, IInv, TypeOK
    <3>3. \A r \in Sems \ {s} :
            counter'[r] = counter[r] /\ destroyed'[r] = destroyed[r]
      BY <2>2 DEF SemCreate, IInv, TypeOK
    <3> QED BY <3>1, <3>2, <3>3 DEF IInv, SemaphoreCount
  <2> QED BY <2>1, <2>2
          DEF NullArgument, TaskYield, TaskJoinReturn, TaskJoinEnded,
              TaskSetprio, SemGone
<1> QED BY <1>1, <1>2, <1>3, <1>4, <1>5, QuietStep DEF disp

LEMMA TickIInv ==
  ASSUME IInv, TickUser \/ TickKernel
  PROVE  IInv'
<1>1. /\ UNCHANGED << lock_kernel, num_user_tasks, queue, tcb, sems, disp,
                      joins >>
      /\ system_clock' \in 0..(ClockMod - 1)
  BY ModRange DEF TickUser, TickKernel, Tock, cpu, IInv, TypeOK
<1>2. /\ current' \in Tasks \cup {Dispatcher} /\ counter_ticks' \in Nat
      /\ current' \in Tasks => current' = current
      /\ current = Dispatcher => current' = Dispatcher
      /\ QuantumLeft'
  <2>1. CASE TickKernel
    BY <2>1 DEF TickKernel, cpu, IInv, QuantumLeft, TypeOK
  <2>2. CASE TickUser /\ lock_kernel = 0
    BY <2>2, KernelAssumption DEF TickUser, IInv, QuantumLeft, TypeOK
  <2>3. CASE TickUser /\ lock_kernel # 0
    BY <2>3, KernelAssumption DEF TickUser, IInv, QuantumLeft, TypeOK
  <2> QED BY <2>1, <2>2, <2>3
<1>3. TypeOK' /\ SemaphoreCount' /\ WakeWalk'
  BY <1>1, <1>2 DEF IInv, TypeOK, SemaphoreCount, WakeWalk, tcb, sems, disp, joins
<1>4. CpuOwner'
  BY <1>1, <1>2 DEF IInv, CpuOwner, tcb, disp
<1>5. \A t \in Tasks : Ending(t)' <=> Ending(t)
  <2>1. current \in Tasks => state[current] = "READY" /\ next_task = current
    BY DEF IInv, CpuOwner
  <2> QED BY <1>1, <1>2, <2>1, KernelAssumption
          DEF Ending, tcb, disp, IInv, TypeOK
<1> QED BY <1>1, <1>2, <1>3, <1>4, <1>5, QuietStep DEF tcb, disp

LEMMA QuietDispatcherIInv ==
  ASSUME IInv, DispatchTask \/ WakeDone \/ DispatcherExit
  PROVE  IInv'
<1>1. UNCHANGED << num_user_tasks, queue, state, sems, joins, system_clock,
                   static_prio, wake_time, exit_code >>
  BY DEF DispatchTask, WakeDone, DispatcherExit, tcb
<1>2. CASE DispatchTask
  <2>1. PICK i \in DOMAIN queue[UserQ] :
          /\ next_task' = queue[UserQ][i]
          /\ dynam_prio' = Aged(queue[UserQ], dynam_prio, static_prio, i)
    BY <1>2 DEF DispatchTask
  <2>2. next_task' \in Tasks /\ next_task' \in ToSet(queue[UserQ])
    <3>1. queue[UserQ] \in Seq(Tasks)
      BY QueueNames DEF IInv, TypeOK
    <3> QED BY <2>1, <3>1, ElementOfSeq, LenProperties DEF ToSet
  <2>3. dynam_prio' \in [Tasks -> Int]
    <3>1. /\ dynam_prio \in [Tasks -> Int] /\ static_prio \in [Tasks -> Int]
          /\ DOMAIN dynam_prio = Tasks
      BY DEF IInv, TypeOK
    <3>2. \A t \in Tasks : /\ static_prio[t] \in Int /\ dynam_prio[t] \in Int
                           /\ dynam_prio[t] + ALPHA \in Int
      BY <3>1 DEF ALPHA
    <3> QED BY <2>1, <3>1, <3>2 DEF Aged
  <2>4. state[next_task'] = "READY" /\ \A u \in Tasks : ~Ending(u)
    BY <1>2, <2>2, DispatcherRuns DEF DispatchTask, IInv, StateMatchesQueue
  <2>5. TypeOK'
    BY <1>1, <1>2, <2>2, <2>3, KernelAssumption
    DEF DispatchTask, IInv, TypeOK, sems, joins
  <2>6. /\ CpuOwner' /\ QuantumLeft' /\ SemaphoreCount' /\ WakeWalk'
        /\ \A u \in Tasks : ~Ending(u)'
    BY <1>1, <1>2, <2>2, <2>4, KernelAssumption
    DEF DispatchTask, CpuOwner, QuantumLeft, SemaphoreCount, WakeWalk, Ending,
        IInv, sems
  <2> QED BY <1>1, <1>2, <2>4, <2>5, <2>6, QuietStep DEF DispatchTask
<1>3. CASE WakeDone \/ DispatcherExit
  <2>1. current = Dispatcher /\ \A u \in Tasks : ~Ending(u)
    BY <1>3, DispatcherRuns DEF WakeDone, DispatcherExit
  <2>2. /\ UNCHANGED << cpu, next_task, size, tcb >> /\ dpc' \in {"loop", "halted"}
        /\ dpc' = "halted" => num_user_tasks = 0
        /\ cur' \in {cur, NULL}
    BY <1>3 DEF WakeDone, DispatcherExit
  <2>3. TypeOK'
    BY <1>1, <2>2 DEF IInv, TypeOK, cpu, tcb, sems, joins
  <2>4. /\ CpuOwner' /\ QuantumLeft' /\ SemaphoreCount' /\ WakeWalk'
        /\ \A u \in Tasks : ~Ending(u)'
    BY <1>1, <2>1, <2>2, KernelAssumption
    DEF CpuOwner, QuantumLeft, SemaphoreCount, WakeWalk, Ending, IInv, sems, cpu
  <2> QED BY <1>1, <2>1, <2>2, <2>3, <2>4, QuietStep
<1> QED BY <1>2, <1>3
-----------------------------------------------------------------------------
(* num_user_tasks is right again when nobody was added to the count. *)
LEMMA SameCount ==
  ASSUME IInv, Counted' = Counted, UNCHANGED num_user_tasks, dpc' # "halted"
  PROVE  TaskCount'
BY DEF IInv, TaskCount, Counted

(* The running task blocks: it leaves the ready queue for the queue q. *)
LEMMA SuspendMoves ==
  ASSUME IInv, NEW t \in Tasks, current = t, NEW q \in Queues \ {UserQ},
         Suspend(t, q)
  PROVE  /\ Moved(Queues, Tasks, queue, UserQ, q, t, queue')
         /\ state' \in [Tasks -> {"READY", "SUSPENDED", "TERM"}]
         /\ state' = [state EXCEPT ![t] = "SUSPENDED"]
<1>1. t \in ToSet(queue[UserQ])
  BY RunningTask
<1>2. Moved(Queues, Tasks, queue, UserQ, q, t, Move(queue, UserQ, q, t))
  <2>1. UserQ \in Queues /\ q \in Queues /\ UserQ # q
    BY QueueNames
  <2> QED BY <1>1, <2>1, MoveEffect DEF IInv, TypeOK, QueuesExclusive
<1> QED BY <1>2 DEF Suspend, IInv, TypeOK

LEMMA SuspendIInv ==
  ASSUME IInv, NEW t \in Tasks, current = t, NEW q \in Queues \ {UserQ},
         Suspend(t, q), UNCHANGED << num_user_tasks, disp >>,
         \A u \in Tasks : q = WaitQ(u) => state[u] # "TERM",
         TypeOK', SemaphoreCount'
  PROVE  IInv'
<1>1. /\ dpc = "switched" /\ next_task = t /\ state[t] = "READY"
      /\ t # Dispatcher /\ \A u \in Tasks : ~Ending(u)
      /\ t \in ToSet(queue[UserQ])
  BY RunningTask
<1>2. /\ queue' \in [Queues -> Seq(Tasks)] /\ Exclusive(queue')
      /\ ToSet(queue'[q]) = ToSet(queue[q]) \cup {t}
      /\ ToSet(queue'[UserQ]) = ToSet(queue[UserQ]) \ {t}
      /\ \A p \in Queues \ {UserQ, q} : queue'[p] = queue[p]
      /\ state'[t] = "SUSPENDED"
      /\ \A u \in Tasks \ {t} : state'[u] = state[u]
  <2>1. Moved(Queues, Tasks, queue, UserQ, q, t, queue')
        /\ state' = [state EXCEPT ![t] = "SUSPENDED"]
    BY SuspendMoves
  <2>2. state \in [Tasks -> {"READY", "SUSPENDED", "TERM"}]
    BY DEF IInv, TypeOK
  <2> QED BY <2>1, <2>2 DEF Moved
<1>3. /\ dpc' = "switched" /\ next_task' = t /\ current' = Dispatcher
      /\ counter_ticks' = counter_ticks
  BY <1>1 DEF Suspend, SwitchToDispatcher, disp
<1>4. \A u \in Tasks : ~Ending(u)'
  BY <1>2, <1>3 DEF Ending
<1>5. QueuesExclusive'
  BY <1>2 DEF QueuesExclusive
<1>6. StateMatchesQueue'
  <2> SUFFICES ASSUME NEW u \in Tasks
               PROVE  /\ state'[u] = "READY" <=> u \in ToSet(queue'[UserQ])
                      /\ state'[u] = "SUSPENDED" <=>
                           \E p \in Queues \ {UserQ} : u \in ToSet(queue'[p])
    BY <1>4 DEF StateMatchesQueue
  <2>1. CASE u = t
    BY <1>2, <2>1
  <2>2. CASE u # t
    <3>1. \A p \in Queues : u \in ToSet(queue'[p]) <=> u \in ToSet(queue[p])
      BY <1>2, <2>2
    <3> QED BY <1>1, <1>2, <2>2, <3>1, QueueNames DEF IInv, StateMatchesQueue
  <2> QED BY <2>1, <2>2
<1>7. CpuOwner' /\ QuantumLeft' /\ WakeWalk'
  BY <1>3, KernelAssumption DEF CpuOwner, QuantumLeft, WakeWalk
<1>8. Counted' = Counted
  <2>1. \A u \in Tasks : state'[u] # "TERM" <=> state[u] # "TERM"
    BY <1>1, <1>2
  <2> QED BY <1>1, <1>4, <2>1 DEF Counted
<1>9. NoJoinerLeft'
  <2> SUFFICES ASSUME NEW u \in Tasks, state'[u] = "TERM"
               PROVE  queue'[WaitQ(u)] = << >>
    BY DEF NoJoinerLeft
  <2>1. u # t /\ state[u] = "TERM" /\ WaitQ(u) \in Queues \ {UserQ, q}
    BY <1>2, QueueNames
  <2> QED BY <1>1, <1>2, <2>1 DEF IInv, NoJoinerLeft
<1> QED BY <1>3, <1>5, <1>6, <1>7, <1>8, <1>9, SameCount DEF IInv

(* The three calls that block. *)
LEMMA TaskJoinIInv ==
  ASSUME IInv, NEW t \in Tasks, NEW u \in Tasks, TaskJoin(t, u)
  PROVE  IInv'
<1>1. current = t /\ WaitQ(u) \in Queues \ {UserQ} /\ Suspend(t, WaitQ(u))
  BY QueueNames DEF TaskJoin, Running
<1>2. /\ Moved(Queues, Tasks, queue, UserQ, WaitQ(u), t, queue')
      /\ state' \in [Tasks -> {"READY", "SUSPENDED", "TERM"}]
  BY <1>1, SuspendMoves
<1>3. TypeOK'
  BY <1>1, <1>2
  DEF IInv, TypeOK, TaskJoin, Suspend, SwitchToDispatcher, sems, disp, Moved
<1>4. \A s \in Sems : queue'[SemQ(s)] = queue[SemQ(s)]
  BY <1>2, QueueNames DEF Moved
<1>5. SemaphoreCount'
  BY <1>4 DEF IInv, SemaphoreCount, TaskJoin, sems
<1>6. \A v \in Tasks : WaitQ(u) = WaitQ(v) => state[v] # "TERM"
  BY QueueNames DEF TaskJoin
<1> QED BY <1>1, <1>3, <1>5, <1>6, SuspendIInv DEF TaskJoin

LEMMA TaskSleepIInv ==
  ASSUME IInv, NEW t \in Tasks, NEW d \in Durations, TaskSleep(t, d)
  PROVE  IInv'
<1>1. current = t /\ SleepQ \in Queues \ {UserQ} /\ Suspend(t, SleepQ)
  BY QueueNames DEF TaskSleep, Running
<1>2. /\ Moved(Queues, Tasks, queue, UserQ, SleepQ, t, queue')
      /\ state' \in [Tasks -> {"READY", "SUSPENDED", "TERM"}]
  BY <1>1, SuspendMoves
<1>3. (system_clock + d) % ClockMod \in 0..(ClockMod - 1)
  <2>1. system_clock \in Nat /\ d \in Nat
    BY KernelAssumption DEF IInv, TypeOK
  <2>2. system_clock + d \in Nat
    BY <2>1
  <2> QED BY <2>2, ModRange
<1>4. wake_time' \in [Tasks -> 0..(ClockMod - 1)]
  BY <1>3 DEF TaskSleep, IInv, TypeOK
<1>5. TypeOK'
  BY <1>1, <1>2, <1>4
  DEF IInv, TypeOK, TaskSleep, Suspend, SwitchToDispatcher, sems, disp, joins,
      Moved
<1>6. \A s \in Sems : queue'[SemQ(s)] = queue[SemQ(s)]
  BY <1>2, QueueNames DEF Moved
<1>7. SemaphoreCount'
  BY <1>6 DEF IInv, SemaphoreCount, TaskSleep, sems
<1> QED BY <1>1, <1>5, <1>7, QueueNames, SuspendIInv DEF TaskSleep

LEMMA SemDownIInv ==
  ASSUME IInv, NEW t \in Tasks, NEW s \in Sems, SemDown(t, s)
  PROVE  IInv'
<1>1. /\ current = t /\ SemQ(s) \in Queues \ {UserQ} /\ ~destroyed[s]
      /\ counter[s] \in Int /\ counter'[s] = counter[s] - 1
      /\ \A r \in Sems \ {s} : counter'[r] = counter[r]
      /\ counter' \in [Sems -> Int] /\ destroyed' = destroyed
  <2>1. current = t /\ SemQ(s) \in Queues \ {UserQ} /\ ~destroyed[s]
    BY QueueNames DEF SemDown, Running
  <2>2. /\ counter \in [Sems -> Int] /\ destroyed' = destroyed
        /\ counter' = [counter EXCEPT ![s] = @ - 1]
    BY DEF SemDown, IInv, TypeOK
  <2>3. counter[s] \in Int /\ counter[s] - 1 \in Int
    BY <2>2
  <2> QED BY <2>1, <2>2, <2>3
<1>2. CASE counter'[s] < 0 /\ Suspend(t, SemQ(s))
  <2>1. /\ Moved(Queues, Tasks, queue, UserQ, SemQ(s), t, queue')
        /\ state' \in [Tasks -> {"READY", "SUSPENDED", "TERM"}]
    BY <1>1, <1>2, SuspendMoves
  <2>2. TypeOK'
    BY <1>1, <1>2, <2>1
    DEF IInv, TypeOK, SemDown, Suspend, SwitchToDispatcher, disp, joins, Moved
  <2>3. /\ Len(queue'[SemQ(s)]) = Len(queue[SemQ(s)]) + 1
        /\ \A r \in Sems \ {s} : queue'[SemQ(r)] = queue[SemQ(r)]
    BY <2>1, QueueNames DEF Moved
  <2>4. Len(queue[SemQ(s)]) = IF counter[s] < 0 THEN -counter[s] ELSE 0
    BY <1>1 DEF IInv, SemaphoreCount
  <2>5. Len(queue'[SemQ(s)]) = IF counter'[s] < 0 THEN -counter'[s] ELSE 0
    BY <1>1, <1>2, <2>3, <2>4
  <2>6. SemaphoreCount'
    BY <1>1, <2>3, <2>5 DEF IInv, SemaphoreCount
  <2> QED BY <1>1, <1>2, <2>2, <2>6, QueueNames, SuspendIInv DEF SemDown
<1>3. CASE counter'[s] >= 0 /\ ReturnUnlocked /\ UNCHANGED << queue, state >>
  <2>1. UNCHANGED << current, counter_ticks, queue, state, num_user_tasks, disp >>
    BY <1>3 DEF SemDown, ReturnUnlocked
  <2>2. TypeOK'
    BY <1>1, <1>3, <2>1
    DEF IInv, TypeOK, SemDown, ReturnUnlocked, disp, joins
  <2>3. SemaphoreCount'
    BY <1>1, <1>3 DEF IInv, SemaphoreCount
  <2>4. CpuOwner' /\ QuantumLeft' /\ WakeWalk' /\ dpc' = dpc
        /\ \A u \in Tasks : Ending(u)' <=> Ending(u)
    BY <2>1 DEF IInv, CpuOwner, QuantumLeft, WakeWalk, Ending, disp
  <2> QED BY <2>1, <2>2, <2>3, <2>4, QuietStep
<1> QED BY <1>2, <1>3 DEF SemDown
-----------------------------------------------------------------------------
(* Somebody readies the blocked task e: it leaves the queue from for the   *)
(* end of the ready queue.                                                 *)
Readies(from, e) ==
  /\ state' = [state EXCEPT ![e] = "READY"]
  /\ queue' = Move(queue, from, UserQ, e)

LEMMA ReadyMoves ==
  ASSUME IInv, NEW from \in Queues \ {UserQ}, NEW e \in ToSet(queue[from]),
         Readies(from, e)
  PROVE  /\ Moved(Queues, Tasks, queue, from, UserQ, e, queue')
         /\ e \in Tasks
         /\ state' \in [Tasks -> {"READY", "SUSPENDED", "TERM"}]
         /\ state'[e] = "READY" /\ \A u \in Tasks \ {e} : state'[u] = state[u]
<1>1. Moved(Queues, Tasks, queue, from, UserQ, e, Move(queue, from, UserQ, e))
  <2>1. UserQ \in Queues /\ from \in Queues /\ UserQ # from
    BY QueueNames
  <2> QED BY <2>1, MoveEffect DEF IInv, TypeOK, QueuesExclusive
<1>2. e \in Tasks
  <2>1. queue[from] \in Seq(Tasks)
    BY DEF IInv, TypeOK
  <2> QED BY <2>1, ElementOfSeq, LenProperties DEF ToSet
<1>3. state \in [Tasks -> {"READY", "SUSPENDED", "TERM"}]
  BY DEF IInv, TypeOK
<1> QED BY <1>1, <1>2, <1>3 DEF Readies

LEMMA ReadyIInv ==
  ASSUME IInv, NEW from \in Queues \ {UserQ}, NEW e \in ToSet(queue[from]),
         Readies(from, e), \A u \in Tasks : ~Ending(u),
         UNCHANGED << num_user_tasks, dpc, current, next_task, counter_ticks >>,
         dpc # "halted", TypeOK', SemaphoreCount', WakeWalk'
  PROVE  IInv'
<1>1. /\ queue' \in [Queues -> Seq(Tasks)] /\ Exclusive(queue')
      /\ ToSet(queue'[from]) = ToSet(queue[from]) \ {e}
      /\ ToSet(queue'[UserQ]) = ToSet(queue[UserQ]) \cup {e}
      /\ \A p \in Queues \ {UserQ, from} : queue'[p] = queue[p]
      /\ e \in Tasks
      /\ state'[e] = "READY" /\ \A u \in Tasks \ {e} : state'[u] = state[u]
  BY ReadyMoves DEF Moved
<1>2. state[e] = "SUSPENDED"
  BY <1>1 DEF IInv, StateMatchesQueue
<1>3. \A u \in Tasks : ~Ending(u)'
  <2>1. \A u \in Tasks : state'[u] = "TERM" => state[u] = "TERM"
    BY <1>1
  <2> QED BY <2>1 DEF Ending
<1>4. QueuesExclusive'
  BY <1>1 DEF QueuesExclusive
<1>5. StateMatchesQueue'
  <2> SUFFICES ASSUME NEW u \in Tasks
               PROVE  /\ state'[u] = "READY" <=> u \in ToSet(queue'[UserQ])
                      /\ state'[u] = "SUSPENDED" <=>
                           \E p \in Queues \ {UserQ} : u \in ToSet(queue'[p])
    BY <1>3 DEF StateMatchesQueue
  <2>1. CASE u = e
    <3>1. \A p \in Queues \ {UserQ} : u \notin ToSet(queue'[p])
      BY <1>1, <2>1, QueueNames DEF Exclusive
    <3> QED BY <1>1, <2>1, <3>1
  <2>2. CASE u # e
    <3>1. \A p \in Queues : u \in ToSet(queue'[p]) <=> u \in ToSet(queue[p])
      BY <1>1, <2>2
    <3>2. /\ state[u] = "READY" <=> u \in ToSet(queue[UserQ])
          /\ state[u] = "SUSPENDED" <=>
               \E p \in Queues \ {UserQ} : u \in ToSet(queue[p])
      BY DEF IInv, StateMatchesQueue
    <3> QED BY <1>1, <2>2, <3>1, <3>2, QueueNames
  <2> QED BY <2>1, <2>2
<1>6. CpuOwner' /\ QuantumLeft'
  BY <1>1 DEF IInv, CpuOwner, QuantumLeft
<1>7. Counted' = Counted
  <2>1. \A u \in Tasks : state'[u] # "TERM" <=> state[u] # "TERM"
    BY <1>1, <1>2
  <2> QED BY <1>3, <2>1 DEF Counted
<1>8. NoJoinerLeft'
  <2> SUFFICES ASSUME NEW u \in Tasks, state'[u] = "TERM"
               PROVE  queue'[WaitQ(u)] = << >>
    BY DEF NoJoinerLeft
  <2>1. state[u] = "TERM"
    BY <1>1
  <2>2. queue[WaitQ(u)] = << >> /\ ToSet(<< >>) = {}
    BY <2>1 DEF IInv, NoJoinerLeft, ToSet
  <2> QED BY <1>1, <2>2, QueueNames
<1> QED BY <1>4, <1>5, <1>6, <1>7, <1>8, SameCount DEF IInv

LEMMA SemUpIInv ==
  ASSUME IInv, NEW t \in Tasks, NEW s \in Sems, SemUp(t, s)
  PROVE  IInv'
<1>1. /\ current = t /\ SemQ(s) \in Queues \ {UserQ} /\ ~destroyed[s]
      /\ counter[s] \in Int /\ counter'[s] = counter[s] + 1
      /\ \A r \in Sems \ {s} : counter'[r] = counter[r]
      /\ counter' \in [Sems -> Int] /\ destroyed' = destroyed
  <2>1. current = t /\ SemQ(s) \in Queues \ {UserQ} /\ ~destroyed[s]
    BY QueueNames DEF SemUp, Running
  <2>2. /\ counter \in [Sems -> Int] /\ destroyed' = destroyed
        /\ counter' = [counter EXCEPT ![s] = @ + 1]
    BY DEF SemUp, IInv, TypeOK
  <2>3. counter[s] \in Int /\ counter[s] + 1 \in Int
    BY <2>2
  <2> QED BY <2>1, <2>2, <2>3
<1>2. Len(queue[SemQ(s)]) = IF counter[s] < 0 THEN -counter[s] ELSE 0
  BY <1>1 DEF IInv, SemaphoreCount
<1>3. /\ dpc = "switched" /\ \A u \in Tasks : ~Ending(u)
  BY <1>1, RunningTask
<1>4. UNCHANGED << num_user_tasks, current, counter_ticks, disp >>
  BY DEF SemUp, ReturnUnlocked
<1>5. CASE counter'[s] <= 0 /\ Grant(s)
  <2> DEFINE e == Head(queue[SemQ(s)])
  <2>1. queue[SemQ(s)] \in Seq(Tasks) /\ Len(queue[SemQ(s)]) > 0
    BY <1>1, <1>2, <1>5 DEF IInv, TypeOK
  <2>2. e = queue[SemQ(s)][1] /\ 1 \in DOMAIN queue[SemQ(s)]
    BY <2>1
  <2>3. e \in ToSet(queue[SemQ(s)])
    BY <2>2 DEF ToSet
  <2>4. Readies(SemQ(s), e)
    BY <1>5 DEF Grant, Readies
  <2> HIDE DEF e
  <2>5. /\ Moved(Queues, Tasks, queue, SemQ(s), UserQ, e, queue')
        /\ state' \in [Tasks -> {"READY", "SUSPENDED", "TERM"}]
    BY <1>1, <2>3, <2>4, ReadyMoves
  <2>6. TypeOK'
    BY <1>1, <1>4, <2>5 DEF IInv, TypeOK, SemUp, ReturnUnlocked, disp, joins, Moved
  <2>7. /\ Len(queue'[SemQ(s)]) = Len(queue[SemQ(s)]) - 1
        /\ \A r \in Sems \ {s} : queue'[SemQ(r)] = queue[SemQ(r)]
    BY <2>5, QueueNames DEF Moved
  <2>8. Len(queue'[SemQ(s)]) = IF counter'[s] < 0 THEN -counter'[s] ELSE 0
    BY <1>1, <1>2, <1>5, <2>7
  <2>9. SemaphoreCount'
    BY <1>1, <2>7, <2>8 DEF IInv, SemaphoreCount
  <2>10. WakeWalk'
    BY <1>3, <1>4 DEF WakeWalk, disp
  <2> QED BY <1>1, <1>3, <1>4, <2>3, <2>4, <2>6, <2>9, <2>10, ReadyIInv DEF disp
<1>6. CASE counter'[s] > 0 /\ UNCHANGED << queue, state >>
  <2>1. TypeOK'
    BY <1>1, <1>4, <1>6 DEF IInv, TypeOK, SemUp, ReturnUnlocked, disp, joins
  <2>2. Len(queue'[SemQ(s)]) = IF counter'[s] < 0 THEN -counter'[s] ELSE 0
    BY <1>1, <1>2, <1>6
  <2>3. SemaphoreCount'
    BY <1>1, <1>6, <2>2 DEF IInv, SemaphoreCount
  <2>4. CpuOwner' /\ QuantumLeft' /\ WakeWalk' /\ dpc' = dpc
        /\ \A u \in Tasks : Ending(u)' <=> Ending(u)
    BY <1>4, <1>6 DEF IInv, CpuOwner, QuantumLeft, WakeWalk, Ending, disp
  <2> QED BY <1>4, <1>6, <2>1, <2>3, <2>4, QuietStep
<1> QED BY <1>5, <1>6 DEF SemUp
-----------------------------------------------------------------------------
(* Everybody in the queue from is readied. *)
LEMMA AllReadyMoves ==
  ASSUME IInv, NEW from \in Queues \ {UserQ}
  PROVE  /\ MovedAll(Queues, Tasks, queue, from, UserQ, MoveAll(queue, from, UserQ))
         /\ AllReady(from) \in [Tasks -> {"READY", "SUSPENDED", "TERM"}]
         /\ \A u \in Tasks :
              IF u \in ToSet(queue[from])
              THEN AllReady(from)[u] = "READY" /\ state[u] = "SUSPENDED"
              ELSE AllReady(from)[u] = state[u]
<1>1. MovedAll(Queues, Tasks, queue, from, UserQ, MoveAll(queue, from, UserQ))
  <2>1. UserQ \in Queues /\ from \in Queues /\ UserQ # from
    BY QueueNames
  <2> QED BY <2>1, MoveAllEffect DEF IInv, TypeOK, QueuesExclusive
<1>2. \A u \in Tasks : u \in ToSet(queue[from]) => state[u] = "SUSPENDED"
  BY DEF IInv, StateMatchesQueue
<1>3. state \in [Tasks -> {"READY", "SUSPENDED", "TERM"}]
  BY DEF IInv, TypeOK
<1> QED BY <1>1, <1>2, <1>3 DEF AllReady

LEMMA SemDestroyIInv ==
  ASSUME IInv, NEW t \in Tasks, NEW s \in Sems, SemDestroy(t, s)
  PROVE  IInv'
<1> DEFINE q == SemQ(s)
<1>1. /\ current = t /\ q \in Queues \ {UserQ} /\ q # SleepQ
      /\ destroyed' = [destroyed EXCEPT ![s] = TRUE] /\ counter' = counter
      /\ UNCHANGED << num_user_tasks, current, counter_ticks, disp >>
  BY QueueNames DEF SemDestroy, Running, ReturnUnlocked
<1>2. dpc = "switched" /\ \A u \in Tasks : ~Ending(u)
  BY <1>1, RunningTask
<1>3. /\ MovedAll(Queues, Tasks, queue, q, UserQ, queue')
      /\ state' \in [Tasks -> {"READY", "SUSPENDED", "TERM"}]
      /\ \A u \in Tasks :
           IF u \in ToSet(queue[q])
           THEN state'[u] = "READY" /\ state[u] = "SUSPENDED"
           ELSE state'[u] = state[u]
  BY <1>1, AllReadyMoves DEF SemDestroy
<1> HIDE DEF q
<1>4. /\ queue' \in [Queues -> Seq(Tasks)] /\ Exclusive(queue')
      /\ queue'[q] = << >> /\ ToSet(queue'[q]) = {}
      /\ ToSet(queue'[UserQ]) = ToSet(queue[UserQ]) \cup ToSet(queue[q])
      /\ \A p \in Queues \ {q, UserQ} : queue'[p] = queue[p]
  BY <1>3 DEF MovedAll
<1>5. TypeOK'
  <2>1. destroyed' \in [Sems -> BOOLEAN]
    BY <1>1 DEF IInv, TypeOK
  <2> QED BY <1>1, <1>3, <1>4, <2>1, SMTT(30)
          DEF IInv, TypeOK, SemDestroy, ReturnUnlocked, disp, joins
<1>6. QueuesExclusive'
  BY <1>4 DEF QueuesExclusive
<1>7. \A u \in Tasks : ~Ending(u)'
  BY <1>1, <1>2, <1>3 DEF Ending, disp
<1>8. StateMatchesQueue'
  <2> SUFFICES ASSUME NEW u \in Tasks
               PROVE  /\ state'[u] = "READY" <=> u \in ToSet(queue'[UserQ])
                      /\ state'[u] = "SUSPENDED" <=>
                           \E p \in Queues \ {UserQ} : u \in ToSet(queue'[p])
    BY <1>7 DEF StateMatchesQueue
  <2>1. CASE u \in ToSet(queue[q])
    <3>1. u \in ToSet(queue'[UserQ]) /\ state'[u] = "READY"
      BY <1>3, <1>4, <2>1
    <3>2. \A p \in Queues \ {UserQ} : u \notin ToSet(queue'[p])
      BY <1>4, <3>1, QueueNames DEF Exclusive
    <3> QED BY <3>1, <3>2
  <2>2. CASE u \notin ToSet(queue[q])
    <3>1. \A p \in Queues : u \in ToSet(queue'[p]) <=> u \in ToSet(queue[p])
      BY <1>4, <2>2
    <3>2. /\ state[u] = "READY" <=> u \in ToSet(queue[UserQ])
          /\ state[u] = "SUSPENDED" <=>
               \E p \in Queues \ {UserQ} : u \in ToSet(queue[p])
      BY <1>2 DEF IInv, StateMatchesQueue
    <3> QED BY <1>3, <2>2, <3>1, <3>2, QueueNames
  <2> QED BY <2>1, <2>2
<1>9. CpuOwner' /\ QuantumLeft' /\ WakeWalk'
  BY <1>1, <1>2, <1>3 DEF IInv, CpuOwner, QuantumLeft, WakeWalk, disp
<1>10. Counted' = Counted
  <2>1. \A u \in Tasks : state'[u] # "TERM" <=> state[u] # "TERM"
    BY <1>3
  <2> QED BY <1>2, <1>7, <2>1 DEF Counted
<1>11. NoJoinerLeft'
  <2> SUFFICES ASSUME NEW u \in Tasks, state'[u] = "TERM"
               PROVE  queue'[WaitQ(u)] = << >>
    BY DEF NoJoinerLeft
  <2>1. state[u] = "TERM" /\ WaitQ(u) \in Queues \ {q, UserQ}
    BY <1>3, QueueNames DEF q
  <2> QED BY <1>2, <1>4, <2>1 DEF IInv, NoJoinerLeft
<1>12. SemaphoreCount'
  <2> SUFFICES ASSUME NEW r \in Sems
               PROVE  IF destroyed'[r] THEN queue'[SemQ(r)] = << >>
                      ELSE Len(queue'[SemQ(r)]) =
                             IF counter'[r] < 0 THEN -counter'[r] ELSE 0
    BY DEF SemaphoreCount
  <2>1. CASE r = s
    BY <1>1, <1>4, <2>1 DEF q, IInv, TypeOK
  <2>2. CASE r # s
    <3>1. SemQ(r) \in Queues \ {q, UserQ}
      BY <2>2, QueueNames DEF q
    <3>2. destroyed'[r] = destroyed[r] /\ queue'[SemQ(r)] = queue[SemQ(r)]
      BY <1>1, <1>4, <2>2, <3>1 DEF IInv, TypeOK
    <3> QED BY <1>1, <3>2 DEF IInv, SemaphoreCount
  <2> QED BY <2>1, <2>2
<1> QED BY <1>1, <1>2, <1>5, <1>6, <1>8, <1>9, <1>10, <1>11, <1>12, SameCount
        DEF IInv, disp
-----------------------------------------------------------------------------
LEMMA TaskExitIInv ==
  ASSUME IInv, NEW t \in Tasks, NEW code \in ExitCodes, TaskExit(t, code)
  PROVE  IInv'
<1>1. /\ current = t /\ current' = Dispatcher /\ lock_kernel' = 0
      /\ UNCHANGED << num_user_tasks, counter_ticks, queue, disp, sems >>
      /\ state' = [state EXCEPT ![t] = "TERM"]
  BY DEF TaskExit, Running, SwitchToDispatcher
<1>2. /\ dpc = "switched" /\ next_task = t /\ state[t] = "READY"
      /\ t # Dispatcher /\ \A u \in Tasks : ~Ending(u)
      /\ t \in ToSet(queue[UserQ])
  BY <1>1, RunningTask
<1>3. /\ state' \in [Tasks -> {"READY", "SUSPENDED", "TERM"}]
      /\ state'[t] = "TERM" /\ \A u \in Tasks \ {t} : state'[u] = state[u]
  BY <1>1 DEF IInv, TypeOK
<1>4. \A u \in Tasks : Ending(u)' <=> u = t
  BY <1>1, <1>2, <1>3 DEF Ending, disp
<1>5. TypeOK'
  <2>1. code \in Int
    BY KernelAssumption
  <2>2. exit_code' \in [Tasks -> Int]
    BY <2>1 DEF TaskExit, IInv, TypeOK
  <2> QED BY <1>1, <1>3, <2>2 DEF IInv, TypeOK, TaskExit, disp, sems, joins
<1>6. QueuesExclusive'
  BY <1>1 DEF IInv, QueuesExclusive
<1>7. StateMatchesQueue'
  <2> SUFFICES ASSUME NEW u \in Tasks
               PROVE  /\ state'[u] = "READY" \/ u = t <=> u \in ToSet(queue[UserQ])
                      /\ state'[u] = "SUSPENDED" <=>
                           \E p \in Queues \ {UserQ} : u \in ToSet(queue[p])
    BY <1>1, <1>4 DEF StateMatchesQueue
  <2>1. /\ state[u] = "READY" <=> u \in ToSet(queue[UserQ])
        /\ state[u] = "SUSPENDED" <=>
             \E p \in Queues \ {UserQ} : u \in ToSet(queue[p])
    BY <1>2 DEF IInv, StateMatchesQueue
  <2>2. CASE u = t
    BY <1>2, <1>3, <2>1, <2>2
  <2>3. CASE u # t
    BY <1>3, <2>1, <2>3
  <2> QED BY <2>2, <2>3
<1>8. CpuOwner' /\ QuantumLeft' /\ WakeWalk'
  BY <1>1, <1>2, KernelAssumption DEF CpuOwner, QuantumLeft, WakeWalk, disp
<1>9. Counted' = Counted
  <2>1. \A u \in Tasks : state'[u] # "TERM" \/ u = t <=> state[u] # "TERM"
    BY <1>2, <1>3
  <2> QED BY <1>2, <1>4, <2>1 DEF Counted
<1>10. NoJoinerLeft'
  <2> SUFFICES ASSUME NEW u \in Tasks, state'[u] = "TERM", u # t
               PROVE  queue'[WaitQ(u)] = << >>
    BY <1>4 DEF NoJoinerLeft
  <2> QED BY <1>1, <1>2, <1>3 DEF IInv, NoJoinerLeft
<1>11. SemaphoreCount'
  BY <1>1 DEF IInv, SemaphoreCount, sems
<1> QED BY <1>1, <1>2, <1>5, <1>6, <1>7, <1>8, <1>9, <1>10, <1>11, SameCount
        DEF IInv, disp

(* A created descriptor was in no queue and nobody waited for it. *)
LEMMA TaskCreateMoves ==
  ASSUME IInv, NEW t \in Tasks, NEW u \in Tasks, TaskCreate(t, u)
  PROVE  /\ Appended(Queues, Tasks, queue, UserQ, u, queue')
         /\ \A q \in Queues : u \notin ToSet(queue[q])
<1>1. /\ current = t /\ state[u] = "TERM"
      /\ queue' = queue_append([queue EXCEPT ![WaitQ(u)] = << >>], UserQ, u)
  BY DEF TaskCreate, Running
<1>2. \A v \in Tasks : ~Ending(v)
  BY <1>1, RunningTask
<1>3. \A q \in Queues : u \notin ToSet(queue[q])
  BY <1>1, <1>2, QueueNames DEF IInv, StateMatchesQueue
<1>4. [queue EXCEPT ![WaitQ(u)] = << >>] = queue
  <2>1. queue[WaitQ(u)] = << >>
    BY <1>1, <1>2 DEF IInv, NoJoinerLeft
  <2> QED BY <2>1 DEF IInv, TypeOK
<1>5. Appended(Queues, Tasks, queue, UserQ, u, queue')
  BY <1>1, <1>3, <1>4, QueueNames, AppendEffect
  DEF IInv, TypeOK, QueuesExclusive
<1> QED BY <1>3, <1>5

LEMMA TaskCreateIInv ==
  ASSUME IInv, NEW t \in Tasks, NEW u \in Tasks, TaskCreate(t, u)
  PROVE  IInv'
<1>1. /\ current = t /\ state[u] = "TERM"
      /\ UNCHANGED << current, counter_ticks, disp, sems >>
      /\ state' = [state EXCEPT ![u] = "READY"]
      /\ num_user_tasks' = num_user_tasks + 1
      /\ queue' = queue_append([queue EXCEPT ![WaitQ(u)] = << >>], UserQ, u)
  BY DEF TaskCreate, Running, ReturnUnlocked
<1>2. /\ dpc = "switched" /\ next_task = t /\ state[t] = "READY"
      /\ \A v \in Tasks : ~Ending(v)
  BY <1>1, RunningTask
<1>3. /\ state' \in [Tasks -> {"READY", "SUSPENDED", "TERM"}]
      /\ state'[u] = "READY" /\ \A v \in Tasks \ {u} : state'[v] = state[v]
  BY <1>1 DEF IInv, TypeOK
<1>4. \A q \in Queues : u \notin ToSet(queue[q])
  BY TaskCreateMoves
<1>7. /\ queue' \in [Queues -> Seq(Tasks)] /\ Exclusive(queue')
      /\ ToSet(queue'[UserQ]) = ToSet(queue[UserQ]) \cup {u}
      /\ \A p \in Queues \ {UserQ} : queue'[p] = queue[p]
  BY TaskCreateMoves DEF Appended
<1>8. \A v \in Tasks : ~Ending(v)'
  BY <1>1, <1>2, <1>3 DEF Ending, disp
<1>9. TypeOK'
  <2>1. /\ static_prio' \in [Tasks -> Int] /\ dynam_prio' \in [Tasks -> Int]
        /\ exit_code' \in [Tasks -> Int] /\ wake_time' = wake_time
    BY DEF TaskCreate, IInv, TypeOK, DEFAULT_PRIO
  <2>2. num_user_tasks' \in Nat /\ lock_kernel' = 0 /\ system_clock' = system_clock
        /\ pc' = pc /\ arg' = arg
    BY DEF TaskCreate, ReturnUnlocked, joins, IInv, TypeOK
  <2> QED BY <1>1, <1>3, <1>7, <2>1, <2>2 DEF IInv, TypeOK, disp, sems
<1>10. QueuesExclusive'
  BY <1>7 DEF QueuesExclusive
<1>11. StateMatchesQueue'
  <2> SUFFICES ASSUME NEW v \in Tasks
               PROVE  /\ state'[v] = "READY" <=> v \in ToSet(queue'[UserQ])
                      /\ state'[v] = "SUSPENDED" <=>
                           \E p \in Queues \ {UserQ} : v \in ToSet(queue'[p])
    BY <1>8 DEF StateMatchesQueue
  <2>1. CASE v = u
    BY <1>3, <1>4, <1>7, <2>1
  <2>2. CASE v # u
    <3>1. \A p \in Queues : v \in ToSet(queue'[p]) <=> v \in ToSet(queue[p])
      BY <1>7, <2>2
    <3>2. /\ state[v] = "READY" <=> v \in ToSet(queue[UserQ])
          /\ state[v] = "SUSPENDED" <=>
               \E p \in Queues \ {UserQ} : v \in ToSet(queue[p])
      BY <1>2 DEF IInv, StateMatchesQueue
    <3> QED BY <1>3, <2>2, <3>1, <3>2, QueueNames
  <2> QED BY <2>1, <2>2
<1>12. CpuOwner' /\ QuantumLeft' /\ WakeWalk'
  BY <1>1, <1>2, <1>3 DEF IInv, CpuOwner, QuantumLeft, WakeWalk, disp
<1>13. TaskCount'
  <2>1. Counted' = Counted \cup {u} /\ u \notin Counted
    BY <1>1, <1>2, <1>3, <1>8 DEF Counted
  <2>2. IsFiniteSet(Counted) /\ num_user_tasks = Cardinality(Counted)
    BY KernelAssumption, FS_Subset DEF IInv, TaskCount, Counted
  <2>3. Cardinality(Counted') = num_user_tasks'
    BY <1>1, <2>1, <2>2, FS_AddElement
  <2> QED BY <1>1, <1>2, <2>3 DEF TaskCount, Counted, disp
<1>14. NoJoinerLeft'
  <2> SUFFICES ASSUME NEW v \in Tasks, state'[v] = "TERM"
               PROVE  queue'[WaitQ(v)] = << >>
    BY DEF NoJoinerLeft
  <2>1. v # u /\ state[v] = "TERM" /\ WaitQ(v) \in Queues \ {UserQ}
    BY <1>3, QueueNames
  <2> QED BY <1>2, <1>7, <2>1 DEF IInv, NoJoinerLeft
<1>15. SemaphoreCount'
  BY <1>1, <1>7, QueueNames DEF IInv, SemaphoreCount, sems
<1> QED BY <1>9, <1>10, <1>11, <1>12, <1>13, <1>14, <1>15 DEF IInv
-----------------------------------------------------------------------------
(* wake_tasks starts its walk at the head of the sleepers. *)
LEMMA StartsWalk ==
  ASSUME TypeOK, StartWakeTasks, queue'[SleepQ] = queue[SleepQ]
  PROVE  dpc' = "wake" /\ cur' \in Tasks \cup {NULL} /\ size' \in Nat /\ WakeWalk'
<1> DEFINE s == queue[SleepQ]
<1>1. s \in Seq(Tasks) /\ Len(s) \in Nat /\ size' = Len(s) /\ dpc' = "wake"
  BY QueueNames DEF TypeOK, StartWakeTasks
<1>2. CASE s = << >>
  BY <1>1, <1>2 DEF StartWakeTasks, WakeWalk
<1>3. CASE s # << >>
  <2>1. cur' = s[1] /\ s[1] \in Tasks
    BY <1>1, <1>3 DEF StartWakeTasks
  <2> QED BY <1>1, <2>1 DEF WakeWalk
<1> QED BY <1>2, <1>3

LEMMA DispatchNoneIInv ==
  ASSUME IInv, DispatchNone
  PROVE  IInv'
<1>1. /\ current = Dispatcher /\ \A u \in Tasks : ~Ending(u)
      /\ UNCHANGED << cpu, system_clock, num_user_tasks, queue, tcb, sems, joins >>
      /\ next_task' = NULL
  BY DispatcherRuns DEF DispatchNone
<1>2. dpc' = "wake" /\ cur' \in Tasks \cup {NULL} /\ size' \in Nat /\ WakeWalk'
  BY <1>1, StartsWalk DEF DispatchNone, IInv
<1>3. TypeOK'
  BY <1>1, <1>2 DEF IInv, TypeOK, cpu, tcb, sems, joins
<1>4. CpuOwner' /\ QuantumLeft' /\ SemaphoreCount' /\ \A u \in Tasks : ~Ending(u)'
  BY <1>1, <1>2, KernelAssumption
  DEF IInv, CpuOwner, QuantumLeft, SemaphoreCount, Ending, cpu, sems
<1> QED BY <1>1, <1>2, <1>3, <1>4, QuietStep DEF tcb

(* The joiners of a task that has ended, and the task itself, move. *)
LEMMA TerminateMoves ==
  ASSUME IInv, NEW t \in Tasks, Ending(t), terminate_task(t)
  PROVE  /\ queue' \in [Queues -> Seq(Tasks)] /\ Exclusive(queue')
         /\ queue'[WaitQ(t)] = << >>
         /\ ToSet(queue'[UserQ]) =
              (ToSet(queue[UserQ]) \cup ToSet(queue[WaitQ(t)])) \ {t}
         /\ \A p \in Queues \ {WaitQ(t), UserQ} : queue'[p] = queue[p]
         /\ \A p \in Queues : t \notin ToSet(queue'[p])
         /\ \A p \in Queues \ {UserQ} : t \notin ToSet(queue[p])
         /\ state' \in [Tasks -> {"READY", "SUSPENDED", "TERM"}]
         /\ \A u \in Tasks :
              IF u \in ToSet(queue[WaitQ(t)])
              THEN state'[u] = "READY" /\ state[u] = "SUSPENDED"
              ELSE state'[u] = state[u]
<1> DEFINE q   == WaitQ(t)
           mid == MoveAll(queue, q, UserQ)
<1>1. queue' = queue_remove(mid, UserQ, t) /\ state' = AllReady(q)
  BY DEF terminate_task
<1>2. /\ t \in ToSet(queue[UserQ]) /\ q \in Queues \ {UserQ}
      /\ \A p \in Queues \ {UserQ} : t \notin ToSet(queue[p])
  BY QueueNames DEF IInv, StateMatchesQueue, Ending
<1>3. /\ MovedAll(Queues, Tasks, queue, q, UserQ, mid)
      /\ state' \in [Tasks -> {"READY", "SUSPENDED", "TERM"}]
      /\ \A u \in Tasks :
           IF u \in ToSet(queue[q])
           THEN state'[u] = "READY" /\ state[u] = "SUSPENDED"
           ELSE state'[u] = state[u]
  BY <1>1, <1>2, AllReadyMoves
<1>4. Removed(Queues, Tasks, mid, UserQ, t, queue')
  <2>1. /\ mid \in [Queues -> Seq(Tasks)] /\ Exclusive(mid)
        /\ t \in ToSet(mid[UserQ])
    BY <1>2, <1>3 DEF MovedAll
  <2> HIDE DEF mid
  <2> QED BY <1>1, <2>1, QueueNames, RemoveEffect
<1> HIDE DEF mid
<1> QED BY <1>2, <1>3, <1>4 DEF MovedAll, Removed

(* The task t = next_task has ended. *)
LEMMA TerminateIInv ==
  ASSUME IInv, AfterSwitch, Ended(next_task), terminate_task(next_task)
  PROVE  IInv'
<1> DEFINE t == next_task
           q == WaitQ(t)
<1>1. /\ current = Dispatcher /\ current' = Dispatcher /\ dpc = "switched"
      /\ t \in Tasks /\ state[t] = "TERM" /\ dpc' = "wake"
      /\ num_user_tasks' = num_user_tasks - 1
      /\ UNCHANGED << sems, lock_kernel, counter_ticks, next_task >>
  BY DEF IInv, CpuOwner, AfterSwitch, Ended, terminate_task, StartWakeTasks, cpu
<1>2. \A u \in Tasks : Ending(u) <=> u = t
  BY <1>1 DEF Ending
<1>3. q \in Queues \ {UserQ} /\ q # SleepQ /\ ToSet(<< >>) = {}
  BY <1>1, QueueNames DEF ToSet
<1>4. /\ \A p \in Queues \ {UserQ} : t \notin ToSet(queue[p])
      /\ state' \in [Tasks -> {"READY", "SUSPENDED", "TERM"}]
      /\ \A u \in Tasks :
           IF u \in ToSet(queue[q])
           THEN state'[u] = "READY" /\ state[u] = "SUSPENDED"
           ELSE state'[u] = state[u]
  BY <1>1, <1>2, TerminateMoves
<1>5. /\ queue' \in [Queues -> Seq(Tasks)] /\ Exclusive(queue')
      /\ queue'[q] = << >>
      /\ ToSet(queue'[UserQ]) =
           (ToSet(queue[UserQ]) \cup ToSet(queue[q])) \ {t}
      /\ \A p \in Queues \ {q, UserQ} : queue'[p] = queue[p]
      /\ \A p \in Queues : t \notin ToSet(queue'[p])
  BY <1>1, <1>2, TerminateMoves
<1>6. ToSet(queue'[q]) = {}
  BY <1>3, <1>5
<1>7. /\ cur' \in Tasks \cup {NULL} /\ size' \in Nat /\ WakeWalk'
  <2>1. queue'[SleepQ] = queue[SleepQ]
    BY <1>3, <1>5, QueueNames
  <2> QED BY <2>1, StartsWalk DEF AfterSwitch, IInv
<1> HIDE DEF q
<1>8. /\ Counted' = Counted \ {t} /\ t \in Counted
      /\ \A u \in Tasks : ~Ending(u)'
  <2>1. \A u \in Tasks : ~Ending(u)'
    BY <1>1 DEF Ending
  <2>2. state'[t] = "TERM"
    BY <1>1, <1>3, <1>4
  <2>3. \A u \in Tasks \ {t} : state'[u] # "TERM" <=> state[u] # "TERM"
    BY <1>4
  <2> QED BY <1>1, <1>2, <2>1, <2>2, <2>3 DEF Counted
<1>9. TaskCount' /\ num_user_tasks' \in Nat
  <2>1. IsFiniteSet(Counted) /\ num_user_tasks = Cardinality(Counted)
    BY KernelAssumption, FS_Subset DEF IInv, TaskCount, Counted
  <2>2. /\ IsFiniteSet(Counted \ {t})
        /\ Cardinality(Counted \ {t}) = num_user_tasks - 1
    BY <1>8, <2>1, FS_RemoveElement
  <2>3. num_user_tasks' = Cardinality(Counted') /\ num_user_tasks' \in Nat
    BY <1>1, <1>8, <2>2, FS_CardinalityType
  <2> QED BY <1>1, <2>3 DEF TaskCount, Counted
<1>10. TypeOK'
  BY <1>1, <1>4, <1>5, <1>7, <1>9 DEF IInv, TypeOK, AfterSwitch, sems, cpu, joins
<1>11. QueuesExclusive'
  BY <1>5 DEF QueuesExclusive
<1>12. StateMatchesQueue'
  <2> SUFFICES ASSUME NEW u \in Tasks
               PROVE  /\ state'[u] = "READY" <=> u \in ToSet(queue'[UserQ])
                      /\ state'[u] = "SUSPENDED" <=>
                           \E p \in Queues \ {UserQ} : u \in ToSet(queue'[p])
    BY <1>8 DEF StateMatchesQueue
  <2>1. CASE u = t
    BY <1>1, <1>3, <1>4, <1>5, <1>6, <2>1, QueueNames
  <2>2. CASE u # t /\ u \in ToSet(queue[q])
    <3>1. u \in ToSet(queue'[UserQ]) /\ state'[u] = "READY"
      BY <1>4, <1>5, <1>6, <2>2
    <3>2. \A p \in Queues \ {UserQ} : u \notin ToSet(queue'[p])
      BY <1>5, <1>6, <3>1, QueueNames DEF Exclusive
    <3> QED BY <3>1, <3>2
  <2>3. CASE u # t /\ u \notin ToSet(queue[q])
    <3>1. \A p \in Queues : u \in ToSet(queue'[p]) <=> u \in ToSet(queue[p])
      BY <1>5, <1>6, <2>3
    <3>2. /\ state[u] = "READY" <=> u \in ToSet(queue[UserQ])
          /\ state[u] = "SUSPENDED" <=>
               \E p \in Queues \ {UserQ} : u \in ToSet(queue[p])
      BY <1>2, <2>3 DEF IInv, StateMatchesQueue
    <3> QED BY <1>4, <2>3, <3>1, <3>2, QueueNames
  <2> QED BY <2>1, <2>2, <2>3
<1>13. CpuOwner' /\ QuantumLeft'
  BY <1>1, KernelAssumption DEF CpuOwner, QuantumLeft
<1>14. NoJoinerLeft'
  <2> SUFFICES ASSUME NEW u \in Tasks, state'[u] = "TERM"
               PROVE  queue'[WaitQ(u)] = << >>
    BY DEF NoJoinerLeft
  <2>1. CASE u = t
    BY <1>5, <1>6, <2>1 DEF q
  <2>2. CASE u # t
    <3>1. state[u] = "TERM" /\ WaitQ(u) \in Queues \ {q, UserQ}
      BY <1>1, <1>4, <2>2, QueueNames DEF q
    <3> QED BY <1>2, <1>5, <1>6, <2>2, <3>1 DEF IInv, NoJoinerLeft
  <2> QED BY <2>1, <2>2
<1>15. SemaphoreCount'
  <2>1. \A s \in Sems : queue'[SemQ(s)] = queue[SemQ(s)]
    BY <1>1, <1>5, <1>6, QueueNames DEF q
  <2> QED BY <1>1, <2>1 DEF IInv, SemaphoreCount, sems
<1> QED BY <1>7, <1>9, <1>10, <1>11, <1>12, <1>13, <1>14, <1>15 DEF IInv

LEMMA AfterSwitchIInv ==
  ASSUME IInv, AfterSwitch
  PROVE  IInv'
<1>1. CASE Ended(next_task) /\ terminate_task(next_task)
  BY <1>1, TerminateIInv
<1>2. CASE ~Ended(next_task) /\ UNCHANGED << state, queue, num_user_tasks >>
  <2>1. /\ current = Dispatcher /\ current' = Dispatcher
        /\ \A u \in Tasks : ~Ending(u)
    BY <1>2 DEF AfterSwitch, cpu, Ended, Ending
  <2>2. dpc' = "wake" /\ cur' \in Tasks \cup {NULL} /\ size' \in Nat /\ WakeWalk'
    BY <1>2, StartsWalk DEF AfterSwitch, IInv
  <2>3. TypeOK'
    BY <1>2, <2>2 DEF IInv, TypeOK, AfterSwitch, cpu, sems, joins
  <2>4. CpuOwner' /\ QuantumLeft' /\ SemaphoreCount' /\ \A u \in Tasks : ~Ending(u)'
    BY <1>2, <2>1, <2>2, KernelAssumption
    DEF IInv, CpuOwner, QuantumLeft, SemaphoreCount, Ending, AfterSwitch, sems
  <2> QED BY <1>2, <2>1, <2>2, <2>3, <2>4, QuietStep
<1> QED BY <1>1, <1>2 DEF AfterSwitch
-----------------------------------------------------------------------------
(* Where wake_tasks stands in the queue of sleepers, and where cur->next   *)
(* takes it.                                                               *)
LEMMA WalkPosition ==
  ASSUME IInv, dpc = "wake", size > 0
  PROVE  LET s == queue[SleepQ]
             k == Len(s) - size + 1
         IN /\ k \in 1..Len(s) /\ cur = s[k] /\ Position(s, cur) = k
            /\ cur \in ToSet(s) /\ NextOf(queue, cur) \in Tasks
            /\ k < Len(s) => NextOf(queue, cur) = s[k + 1]
<1> DEFINE s == queue[SleepQ]
           k == Len(s) - size + 1
<1>1. s \in Seq(Tasks) /\ Len(s) \in Nat /\ DOMAIN s = 1..Len(s) /\ NoRepeats(s)
  BY QueueNames DEF IInv, TypeOK, QueuesExclusive, Exclusive
<1>2. size \in Nat /\ size <= Len(s) /\ cur = s[k]
  BY DEF IInv, TypeOK, WakeWalk
<1>3. k \in 1..Len(s) /\ (k < Len(s) => k + 1 \in 1..Len(s))
  BY <1>1, <1>2
<1>4. cur \in ToSet(s)
  BY <1>1, <1>2, <1>3 DEF ToSet
<1>5. Position(s, cur) = k
  <2>1. Position(s, cur) \in DOMAIN s /\ s[Position(s, cur)] = cur
    BY <1>4, PositionOf
  <2> QED BY <1>1, <1>2, <1>3, <2>1 DEF NoRepeats
<1>6. NextOf(queue, cur) = s[(k % Len(s)) + 1]
  <2>1. \A q \in Queues : cur \in ToSet(queue[q]) => q = SleepQ
    BY <1>4, QueueNames DEF IInv, TypeOK, QueuesExclusive, Exclusive
  <2>2. (CHOOSE q \in Queues : cur \in ToSet(queue[q])) = SleepQ
    BY <1>4, <2>1, QueueNames
  <2> QED BY <1>5, <2>2 DEF NextOf
<1> HIDE DEF k
<1>7. (k % Len(s)) + 1 \in 1..Len(s) /\ (k < Len(s) => k % Len(s) = k)
  <2>1. Len(s) \in Nat \ {0}
    BY <1>1, <1>3
  <2> QED BY <1>3, <2>1, ModWithin
<1>8. NextOf(queue, cur) \in Tasks
  BY <1>1, <1>6, <1>7, ElementOfSeq
<1> QED BY <1>2, <1>3, <1>4, <1>5, <1>6, <1>7, <1>8 DEF k

LEMMA WakeStepIInv ==
  ASSUME IInv, WakeStep
  PROVE  IInv'
<1> DEFINE s == queue[SleepQ]
           k == Len(s) - size + 1
<1>1. /\ current = Dispatcher /\ dpc = "wake" /\ size > 0 /\ dpc' = "wake"
      /\ \A u \in Tasks : ~Ending(u)
      /\ cur' = NextOf(queue, cur) /\ size' = size - 1
      /\ UNCHANGED << cpu, system_clock, num_user_tasks, sems, next_task,
                      static_prio, dynam_prio, wake_time, exit_code, joins >>
  BY DispatcherRuns DEF WakeStep
<1>2. /\ k \in 1..Len(s) /\ cur = s[k] /\ Position(s, cur) = k
      /\ cur \in ToSet(s) /\ cur' \in Tasks
      /\ k < Len(s) => cur' = s[k + 1]
  BY <1>1, WalkPosition
<1>3. /\ s \in Seq(Tasks) /\ Len(s) \in Nat /\ size \in Nat /\ size' \in Nat
  BY <1>1, QueueNames DEF IInv, TypeOK
<1>4. CASE UNCHANGED << state, queue >>
  <2>1. TypeOK'
    BY <1>1, <1>2, <1>3, <1>4 DEF IInv, TypeOK, cpu, sems, joins
  <2>2. WakeWalk'
    BY <1>1, <1>2, <1>3, <1>4 DEF WakeWalk
  <2>3. CpuOwner' /\ QuantumLeft' /\ SemaphoreCount' /\ \A u \in Tasks : ~Ending(u)'
    BY <1>1, <1>4, KernelAssumption
    DEF IInv, CpuOwner, QuantumLeft, SemaphoreCount, Ending, cpu, sems
  <2> QED BY <1>1, <1>4, <2>1, <2>2, <2>3, QuietStep
<1>5. CASE Readies(SleepQ, cur)
  <2>1. /\ Moved(Queues, Tasks, queue, SleepQ, UserQ, cur, queue')
        /\ state' \in [Tasks -> {"READY", "SUSPENDED", "TERM"}]
    BY <1>2, <1>5, QueueNames, ReadyMoves
  <2>2. TypeOK'
    BY <1>1, <1>2, <1>3, <2>1 DEF IInv, TypeOK, cpu, sems, joins, Moved
  <2>3. SemaphoreCount'
    <3>1. \A r \in Sems : queue'[SemQ(r)] = queue[SemQ(r)]
      BY <2>1, QueueNames DEF Moved
    <3> QED BY <1>1, <3>1 DEF IInv, SemaphoreCount, sems
  <2>4. WakeWalk'
    <3>1. queue'[SleepQ] = RemoveAt(s, k)
      BY <1>2, <2>1 DEF Moved
    <3>2. /\ Len(RemoveAt(s, k)) = Len(s) - 1
          /\ \A i \in 1..(Len(s) - 1) :
               RemoveAt(s, k)[i] = IF i < k THEN s[i] ELSE s[i + 1]
      BY <1>2, <1>3, RemoveAtProperties
    <3>3. size' > 0 => k \in 1..(Len(s) - 1) /\ size' <= Len(s) - 1
      BY <1>1, <1>2, <1>3
    <3>4. Len(s) - 1 - size' + 1 = k
      BY <1>1, <1>3
    <3>5. size' > 0 => cur' = RemoveAt(s, k)[k]
      BY <1>2, <1>3, <3>2, <3>3
    <3> QED BY <3>1, <3>2, <3>3, <3>4, <3>5 DEF WakeWalk
  <2> QED BY <1>1, <1>2, <1>5, <2>2, <2>3, <2>4, QueueNames, ReadyIInv DEF cpu
<1> QED BY <1>4, <1>5 DEF WakeStep, Readies
-----------------------------------------------------------------------------
LEMMA NextIInv == IInv /\ [Next]_vars => IInv'
<1> SUFFICES ASSUME IInv, [Next]_vars PROVE IInv'
  OBVIOUS
<1>1. ASSUME NEW t \in Tasks, User(t) PROVE IInv'
  <2>1. current = t
    BY <1>1 DEF User, OtherCall, Running, TaskCreate, TaskJoin,
               TaskJoinEnded, TaskSetprio,
               TaskExit, TaskSleep, TaskYield, TaskJoinReturn, NullArgument,
               SemCreate, SemDown, SemUp, SemDestroy, SemGone
  <2>2. ASSUME NEW u \in Tasks, TaskCreate(t, u) \/ TaskJoin(t, u) PROVE IInv'
    BY <2>2, TaskCreateIInv, TaskJoinIInv
  <2>3. ASSUME NEW code \in ExitCodes, TaskExit(t, code) PROVE IInv'
    BY <2>3, TaskExitIInv
  <2>4. ASSUME NEW d \in Durations, TaskSleep(t, d) PROVE IInv'
    BY <2>4, TaskSleepIInv
  <2>5. ASSUME NEW s \in Sems, SemDown(t, s) \/ SemUp(t, s) \/ SemDestroy(t, s)
        PROVE  IInv'
    BY <2>5, SemDownIInv, SemUpIInv, SemDestroyIInv
  <2>6. CASE \/ NullArgument(t) \/ TaskYield(t) \/ TaskJoinReturn(t)
             \/ \E u \in Tasks : TaskJoinEnded(t, u)
             \/ \E u \in Tasks, prio \in Prios : TaskSetprio(t, u, prio)
             \/ \E s \in Sems, value \in SemValues : SemCreate(t, s, value)
             \/ \E s \in Sems : SemGone(t, s)
    BY <2>1, <2>6, QuietUserIInv
  <2> QED BY <1>1, <2>2, <2>3, <2>4, <2>5, <2>6 DEF User, OtherCall
<1>2. ASSUME TickUser \/ TickKernel PROVE IInv'
  BY <1>2, TickIInv
<1>3. ASSUME DispatcherStep PROVE IInv'
  BY <1>3, QuietDispatcherIInv, DispatchNoneIInv, AfterSwitchIInv, WakeStepIInv
  DEF DispatcherStep
<1>4. ASSUME UNCHANGED vars PROVE IInv'
  <2>1. TypeOK'
    BY <1>4 DEF vars, cpu, tcb, sems, disp, joins, IInv, TypeOK
  <2>2. /\ CpuOwner' /\ QuantumLeft' /\ SemaphoreCount' /\ WakeWalk'
        /\ \A u \in Tasks : Ending(u)' <=> Ending(u)
    BY <1>4 DEF vars, cpu, tcb, sems, disp, IInv, CpuOwner, QuantumLeft,
                SemaphoreCount, WakeWalk, Ending
  <2>3. UNCHANGED << num_user_tasks, queue, state, dpc >>
    BY <1>4 DEF vars, tcb, disp
  <2> QED BY <2>1, <2>2, <2>3, QuietStep
<1> QED BY <1>1, <1>2, <1>3, <1>4 DEF Next, Terminated

(* IInv is an invariant of the kernel: it holds at first and every call,   *)
(* tick and step of the dispatcher keeps it.                               *)
THEOREM KernelInvariant == Spec => []IInv
BY InitIInv, NextIInv, PTL DEF Spec

(* Every variable keeps its type: no field of a descriptor, counter or     *)
(* local variable of the kernel ever takes a value of another kind, and    *)
(* num_user_tasks and counter_ticks never go below zero.                   *)
THEOREM KernelTypes == Spec => []TypeOK
<1>1. IInv => TypeOK
  BY DEF IInv
<1> QED BY <1>1, KernelInvariant, PTL

(* No task is ever linked twice: with any number of tasks no sequence of   *)
(* calls and preemptions puts one descriptor in two queues.                *)
THEOREM TasksLinkedOnce == Spec => []QueuesExclusive
<1>1. IInv => QueuesExclusive
  BY DEF IInv
<1> QED BY <1>1, KernelInvariant, PTL

(* The state field of a task and the queue that holds it always agree: no  *)
(* task is lost, and none that is blocked runs.                            *)
THEOREM TasksAccountedFor == Spec => []StateMatchesQueue
<1>1. IInv => StateMatchesQueue
  BY DEF IInv
<1> QED BY <1>1, KernelInvariant, PTL

(* A task that has ended has no joiner left in its queue.                  *)
THEOREM JoinersNeverLeft == Spec => []NoJoinerLeft
<1>1. IInv => NoJoinerLeft
  BY DEF IInv
<1> QED BY <1>1, KernelInvariant, PTL

(* Suspended tasks that nothing else can wake wait for each other: each is *)
(* in the queue of a task that has not ended, which is suspended too.      *)
LEMMA CirclesOnly == IInv => StuckOnlyByJoins
<1> SUFFICES ASSUME IInv, NEW t0 \in Tasks, state[t0] = "SUSPENDED",
                    queue[UserQ] = << >>, queue[SleepQ] = << >>,
                    \A s \in Sems : queue[SemQ(s)] = << >>
             PROVE  \E circle \in SUBSET Tasks :
                      /\ circle # {}
                      /\ \A t \in circle :
                           \E u \in circle : t \in ToSet(queue[WaitQ(u)])
  BY DEF StuckOnlyByJoins
<1> DEFINE circle == {t \in Tasks : state[t] = "SUSPENDED"}
<1>1. \A t \in Tasks : t \notin ToSet(<< >>)
  BY DEF ToSet
<1>2. ASSUME NEW t \in circle
      PROVE  \E u \in circle : t \in ToSet(queue[WaitQ(u)])
  <2>1. PICK q \in Queues \ {UserQ} : t \in ToSet(queue[q])
    BY <1>2 DEF IInv, StateMatchesQueue
  <2>2. PICK u \in Tasks : q = WaitQ(u)
    BY <2>1, <1>1 DEF Queues
  <2>3. \A v \in Tasks : state[v] # "READY" /\ ~Ending(v)
    BY <1>1 DEF IInv, StateMatchesQueue
  <2>4. state[u] # "TERM"
    BY <2>1, <2>2, <2>3, <1>1 DEF IInv, NoJoinerLeft
  <2>5. state[u] = "SUSPENDED"
    BY <2>3, <2>4 DEF IInv, TypeOK
  <2> QED BY <2>1, <2>2, <2>5
<1>3. circle \in SUBSET Tasks /\ circle # {}
  OBVIOUS
<1> QED BY <1>2, <1>3

(* Whatever the tasks do, the only standstill is one of joins in a circle. *)
THEOREM OnlyJoinsDeadlock == Spec => []StuckOnlyByJoins
BY CirclesOnly, KernelInvariant, PTL

(* The running task is the one the dispatcher chose and is ready.          *)
THEOREM ProcessorOwned == Spec => []CpuOwner
<1>1. IInv => CpuOwner
  BY DEF IInv
<1> QED BY <1>1, KernelInvariant, PTL

(* A task never runs on a quantum that is used up, so its last tick always *)
(* preempts it.                                                            *)
THEOREM QuantaRenewed == Spec => []QuantumLeft
<1>1. IInv => QuantumLeft
  BY DEF IInv
<1> QED BY <1>1, KernelInvariant, PTL

(* num_user_tasks is the number of tasks that have not ended, so the       *)
(* dispatcher stops exactly when none is left.                             *)
THEOREM TasksCounted == Spec => []TaskCount
<1>1. IInv => TaskCount
  BY DEF IInv
<1> QED BY <1>1, KernelInvariant, PTL

(* A negative semaphore counter always is the number of tasks blocked, so  *)
(* sem_up never takes the first element of an empty queue.                 *)
THEOREM SemaphoresCounted == Spec => []SemaphoreCount
<1>1. IInv => SemaphoreCount
  BY DEF IInv
<1> QED BY <1>1, KernelInvariant, PTL

(* wake_tasks visits every sleeper once, whatever it removes on the way.   *)
THEOREM WakeTasksVisitsAll == Spec => []WakeWalk
<1>1. IInv => WakeWalk
  BY DEF IInv
<1> QED BY <1>1, KernelInvariant, PTL
-----------------------------------------------------------------------------
(* What a step of the kernel may do: every semaphore takes a step of the   *)
(* abstract Semaphore, and joiners are released by the end of their target *)
(* only.  Both need the invariant.                                         *)

(* The steps that change no queue but the ready queue, nor a semaphore,    *)
(* nor, but for TaskCreate, any queue at all.                              *)
LEMMA OtherQueuesStay ==
  ASSUME IInv, NEW t \in Tasks,
         \/ NullArgument(t) \/ TaskYield(t) \/ TaskJoinReturn(t)
         \/ \E u \in Tasks : TaskJoinEnded(t, u) \/ TaskCreate(t, u)
         \/ \E u \in Tasks, prio \in Prios : TaskSetprio(t, u, prio)
         \/ \E code \in ExitCodes : TaskExit(t, code)
         \/ \E s \in Sems : SemGone(t, s)
  PROVE  UNCHANGED sems /\ \A q \in Queues \ {UserQ} : queue'[q] = queue[q]
<1>1. ASSUME NEW u \in Tasks, TaskCreate(t, u)
      PROVE  UNCHANGED sems /\ \A q \in Queues \ {UserQ} : queue'[q] = queue[q]
  BY <1>1, TaskCreateMoves DEF Appended, TaskCreate
<1>2. CASE \/ NullArgument(t) \/ TaskYield(t) \/ TaskJoinReturn(t)
           \/ \E u \in Tasks : TaskJoinEnded(t, u)
           \/ \E u \in Tasks, prio \in Prios : TaskSetprio(t, u, prio)
           \/ \E code \in ExitCodes : TaskExit(t, code)
           \/ \E s \in Sems : SemGone(t, s)
  BY <1>2 DEF NullArgument, TaskYield, TaskJoinReturn, TaskJoinEnded,
              TaskSetprio, TaskExit, SemGone
<1> QED BY <1>1, <1>2

(* A task that blocks is appended to one queue besides leaving the ready   *)
(* queue.                                                                  *)
LEMMA SuspendAppends ==
  ASSUME IInv, NEW t \in Tasks, current = t, NEW q \in Queues \ {UserQ},
         Suspend(t, q)
  PROVE  /\ queue'[q] = Append(queue[q], t)
         /\ \A p \in Queues \ {UserQ, q} : queue'[p] = queue[p]
BY SuspendMoves DEF Moved

(* Granting a unit takes the first task off the queue of the semaphore.    *)
LEMMA GrantTakesFirst ==
  ASSUME IInv, NEW s \in Sems, queue[SemQ(s)] # << >>, Grant(s)
  PROVE  /\ queue'[SemQ(s)] = Tail(queue[SemQ(s)])
         /\ \A p \in Queues \ {UserQ, SemQ(s)} : queue'[p] = queue[p]
<1> DEFINE q == queue[SemQ(s)]
           e == Head(q)
<1>1. q \in Seq(Tasks) /\ Len(q) \in Nat \ {0} /\ DOMAIN q = 1..Len(q) /\ NoRepeats(q)
  <2>1. q \in Seq(Tasks) /\ NoRepeats(q) /\ q # << >>
    BY QueueNames DEF IInv, TypeOK, QueuesExclusive, Exclusive
  <2> HIDE DEF q
  <2> QED BY <2>1
<1>2. e = q[1] /\ 1 \in DOMAIN q
  BY <1>1
<1>3. e \in ToSet(q)
  BY <1>2 DEF ToSet
<1>4. Position(q, e) = 1
  <2>1. Position(q, e) \in DOMAIN q /\ q[Position(q, e)] = e
    BY <1>3, PositionOf
  <2> QED BY <1>1, <1>2, <2>1 DEF NoRepeats
<1>5. Readies(SemQ(s), e)
  BY DEF Grant, Readies
<1> HIDE DEF e
<1>6. Moved(Queues, Tasks, queue, SemQ(s), UserQ, e, queue')
  BY <1>3, <1>5, QueueNames, ReadyMoves
<1>7. queue'[SemQ(s)] = RemoveAt(q, 1)
      /\ \A p \in Queues \ {UserQ, SemQ(s)} : queue'[p] = queue[p]
  BY <1>4, <1>6 DEF Moved
<1>8. RemoveAt(q, 1) = Tail(q)
  <2>1. /\ RemoveAt(q, 1) \in Seq(Tasks) /\ Len(RemoveAt(q, 1)) = Len(q) - 1
        /\ \A i \in 1..(Len(q) - 1) : RemoveAt(q, 1)[i] = IF i < 1 THEN q[i] ELSE q[i + 1]
    BY <1>1, RemoveAtProperties
  <2>2. /\ Tail(q) \in Seq(Tasks) /\ Len(Tail(q)) = Len(q) - 1
        /\ \A i \in 1..(Len(q) - 1) : Tail(q)[i] = q[i + 1]
    BY <1>1
  <2>3. \A i \in 1..(Len(q) - 1) : RemoveAt(q, 1)[i] = Tail(q)[i]
    BY <2>1, <2>2
  <2> QED BY <2>1, <2>2, <2>3, SeqEqual
<1> QED BY <1>7, <1>8

(* A call on a semaphore changes no blocking queue but its own. *)
LEMMA SemOneQueue ==
  ASSUME IInv, NEW t \in Tasks, NEW s \in Sems,
         \/ SemDown(t, s) \/ SemUp(t, s) \/ SemDestroy(t, s)
         \/ \E value \in SemValues : SemCreate(t, s, value)
  PROVE  \A p \in Queues \ {UserQ, SemQ(s)} : queue'[p] = queue[p]
<1> DEFINE Kept == \A p \in Queues \ {UserQ, SemQ(s)} : queue'[p] = queue[p]
<1>1. ASSUME UNCHANGED queue PROVE Kept
  BY <1>1
<1>2. ASSUME SemDown(t, s), Suspend(t, SemQ(s)) PROVE Kept
  <2>1. current = t /\ SemQ(s) \in Queues \ {UserQ}
    BY <1>2, QueueNames DEF SemDown, Running
  <2> QED BY <1>2, <2>1, SuspendAppends
<1>3. ASSUME SemUp(t, s), counter'[s] <= 0, Grant(s) PROVE Kept
  <2>1. /\ counter[s] \in Int /\ counter'[s] = counter[s] + 1 /\ ~destroyed[s]
        /\ SemQ(s) \in Queues /\ queue[SemQ(s)] \in Seq(Tasks)
    BY <1>3, QueueNames DEF SemUp, IInv, TypeOK
  <2>2. Len(queue[SemQ(s)]) = IF counter[s] < 0 THEN -counter[s] ELSE 0
    BY <2>1 DEF IInv, SemaphoreCount
  <2>3. queue[SemQ(s)] # << >>
    BY <1>3, <2>1, <2>2
  <2> QED BY <1>3, <2>3, GrantTakesFirst
<1>4. ASSUME SemDestroy(t, s) PROVE Kept
  <2>1. SemQ(s) \in Queues \ {UserQ}
    BY QueueNames
  <2> QED BY <1>4, <2>1, AllReadyMoves DEF SemDestroy, MovedAll
<1> HIDE DEF Kept
<1>5. Kept
  BY <1>1, <1>2, <1>3, <1>4 DEF SemDown, SemUp, SemCreate
<1> QED BY <1>5 DEF Kept

(* The dispatcher's steps leave the semaphores and their queues alone, and *)
(* release joiners of a task that has ended only.                          *)
LEMMA DispatcherLeaves ==
  ASSUME IInv, DispatcherStep
  PROVE  /\ UNCHANGED sems
         /\ \A s \in Sems : queue'[SemQ(s)] = queue[SemQ(s)]
         /\ \A t \in Tasks : \/ queue'[WaitQ(t)] = queue[WaitQ(t)]
                             \/ Ending(t) /\ queue'[WaitQ(t)] = << >>
<1>1. UNCHANGED sems
  BY DEF DispatcherStep, DispatchTask, DispatchNone, AfterSwitch, WakeStep,
         WakeDone, DispatcherExit
<1>2. CASE UNCHANGED queue
  BY <1>1, <1>2
<1>3. CASE AfterSwitch /\ Ended(next_task) /\ terminate_task(next_task)
  <2>1. next_task \in Tasks /\ Ending(next_task)
    BY <1>3 DEF AfterSwitch, Ended, Ending, IInv, CpuOwner
  <2>2. /\ queue'[WaitQ(next_task)] = << >>
        /\ \A p \in Queues \ {WaitQ(next_task), UserQ} : queue'[p] = queue[p]
    BY <1>3, <2>1, TerminateMoves
  <2> QED BY <1>1, <2>1, <2>2, QueueNames
<1>4. CASE WakeStep /\ Readies(SleepQ, cur)
  <2>1. cur \in ToSet(queue[SleepQ])
    BY <1>4, WalkPosition DEF WakeStep
  <2>2. \A p \in Queues \ {SleepQ, UserQ} : queue'[p] = queue[p]
    BY <1>4, <2>1, QueueNames, ReadyMoves DEF Moved
  <2> QED BY <1>1, <2>2, QueueNames
<1> QED BY <1>2, <1>3, <1>4
        DEF DispatcherStep, DispatchTask, DispatchNone, AfterSwitch, WakeStep,
            WakeDone, DispatcherExit, Readies
-----------------------------------------------------------------------------
JoinerStep ==
  \A t \in Tasks :
    queue'[WaitQ(t)] # queue[WaitQ(t)] =>
      \/ Ending(t) /\ queue'[WaitQ(t)] = << >>
      \/ \E u \in Tasks : queue'[WaitQ(t)] = Append(queue[WaitQ(t)], u)

LEMMA StepReleasesJoiners == IInv /\ [Next]_vars => JoinerStep \/ UNCHANGED vars
<1> SUFFICES ASSUME IInv, Next PROVE JoinerStep \/ UNCHANGED vars
  OBVIOUS
<1> DEFINE Stays(p) == queue'[p] = queue[p]
<1>1. ASSUME NEW t \in Tasks, User(t) PROVE JoinerStep
  <2>1. CASE \/ NullArgument(t) \/ TaskYield(t) \/ TaskJoinReturn(t)
             \/ \E u \in Tasks : TaskJoinEnded(t, u) \/ TaskCreate(t, u)
             \/ \E u \in Tasks, prio \in Prios : TaskSetprio(t, u, prio)
             \/ \E code \in ExitCodes : TaskExit(t, code)
             \/ \E s \in Sems : SemGone(t, s)
    <3>1. \A q \in Queues \ {UserQ} : Stays(q)
      BY <2>1, OtherQueuesStay
    <3> QED BY <3>1, QueueNames DEF JoinerStep
  <2>2. ASSUME NEW u \in Tasks, TaskJoin(t, u) PROVE JoinerStep
    <3>1. current = t /\ WaitQ(u) \in Queues \ {UserQ} /\ Suspend(t, WaitQ(u))
      BY <2>2, QueueNames DEF TaskJoin, Running
    <3>2. /\ queue'[WaitQ(u)] = Append(queue[WaitQ(u)], t)
          /\ \A p \in Queues \ {UserQ, WaitQ(u)} : Stays(p)
      BY <3>1, SuspendAppends
    <3> QED BY <3>2, QueueNames DEF JoinerStep
  <2>3. ASSUME NEW d \in Durations, TaskSleep(t, d) PROVE JoinerStep
    <3>1. current = t /\ SleepQ \in Queues \ {UserQ} /\ Suspend(t, SleepQ)
      BY <2>3, QueueNames DEF TaskSleep, Running
    <3>2. \A p \in Queues \ {UserQ, SleepQ} : Stays(p)
      BY <3>1, SuspendAppends
    <3> QED BY <3>2, QueueNames DEF JoinerStep
  <2>4. ASSUME NEW s \in Sems,
               \/ SemDown(t, s) \/ SemUp(t, s) \/ SemDestroy(t, s)
               \/ \E value \in SemValues : SemCreate(t, s, value)
        PROVE  JoinerStep
    <3>1. \A p \in Queues \ {UserQ, SemQ(s)} : Stays(p)
      BY <2>4, SemOneQueue
    <3> QED BY <3>1, QueueNames DEF JoinerStep
  <2> QED BY <1>1, <2>1, <2>2, <2>3, <2>4 DEF User, OtherCall
<1>2. CASE TickUser \/ TickKernel
  BY <1>2 DEF TickUser, TickKernel, JoinerStep
<1>3. CASE DispatcherStep
  BY <1>3, DispatcherLeaves DEF JoinerStep
<1> QED BY <1>1, <1>2, <1>3 DEF Next, Terminated

(* A task blocked in task_join is woken by the end of the task it joins,   *)
(* together with every other joiner, and by nothing else.                  *)
THEOREM JoinersReleasedByEnd == Spec => JoinersReleased
<1>1. IInv /\ [Next]_vars => [JoinerStep]_vars
  BY StepReleasesJoiners
<1>2. Spec => [][JoinerStep]_vars
  BY <1>1, KernelInvariant, PTL DEF Spec
<1> QED BY <1>2 DEF JoinersReleased, JoinerStep
-----------------------------------------------------------------------------
LEMMA InitSemaphores == Init => SemInit
BY QueueNames DEF Init, SemInit, Sem!Init

(* The call on a semaphore s is a step of Sem(s). *)
LEMMA SemCalls ==
  ASSUME IInv, NEW t \in Tasks, NEW s \in Sems,
         \/ SemDown(t, s) \/ SemUp(t, s) \/ SemDestroy(t, s)
         \/ \E value \in SemValues : SemCreate(t, s, value)
  PROVE  Sem(s)!Next
<1> DEFINE q == SemQ(s)
<1>1. /\ queue[q] \in Seq(Tasks) /\ counter \in [Sems -> Int]
      /\ destroyed \in [Sems -> BOOLEAN] /\ counter[s] \in Int
      /\ q \in Queues \ {UserQ}
  BY QueueNames DEF IInv, TypeOK
<1>2. ~destroyed[s] =>
        /\ Len(queue[q]) = IF counter[s] < 0 THEN -counter[s] ELSE 0
        /\ counter[s] < 0 <=> queue[q] # << >>
  <2>1. ~destroyed[s] => Len(queue[q]) = IF counter[s] < 0 THEN -counter[s] ELSE 0
    BY DEF IInv, SemaphoreCount
  <2> QED BY <1>1, <2>1
<1>3. ASSUME SemDown(t, s) PROVE Sem(s)!Next
  <2>1. /\ current = t /\ ~destroyed[s] /\ destroyed' = destroyed
        /\ counter'[s] = counter[s] - 1
    BY <1>1, <1>3 DEF SemDown, Running
  <2>2. CASE counter'[s] < 0 /\ Suspend(t, q)
    <3>1. queue'[q] = Append(queue[q], t)
      BY <1>1, <2>1, <2>2, SuspendAppends
    <3>2. Sem(s)!Wait
      BY <1>1, <2>1, <2>2, <3>1 DEF Sem!Wait
    <3> QED BY <3>2 DEF Sem!Next
  <2>3. CASE counter'[s] >= 0 /\ UNCHANGED queue
    <3>1. Sem(s)!Take
      BY <1>1, <2>1, <2>3 DEF Sem!Take
    <3> QED BY <3>1 DEF Sem!Next
  <2> QED BY <1>3, <2>2, <2>3 DEF SemDown
<1>4. ASSUME SemUp(t, s) PROVE Sem(s)!Next
  <2>1. /\ ~destroyed[s] /\ destroyed' = destroyed
        /\ counter'[s] = counter[s] + 1
    BY <1>1, <1>4 DEF SemUp
  <2>2. CASE counter'[s] <= 0 /\ Grant(s)
    <3>1. queue[q] # << >>
      BY <1>1, <1>2, <2>1, <2>2
    <3>2. queue'[q] = Tail(queue[q])
      BY <2>2, <3>1, GrantTakesFirst
    <3>3. Sem(s)!HandOver
      BY <1>1, <2>1, <2>2, <3>1, <3>2 DEF Sem!HandOver
    <3> QED BY <3>3 DEF Sem!Next
  <2>3. CASE counter'[s] > 0 /\ UNCHANGED queue
    <3>1. queue[q] = << >>
      BY <1>1, <1>2, <2>1, <2>3
    <3>2. Sem(s)!GiveBack
      BY <1>1, <2>1, <2>3, <3>1 DEF Sem!GiveBack
    <3> QED BY <3>2 DEF Sem!Next
  <2> QED BY <1>4, <2>2, <2>3 DEF SemUp
<1>5. ASSUME SemDestroy(t, s) PROVE Sem(s)!Next
  <2>1. queue'[q] = << >>
    BY <1>1, <1>5, AllReadyMoves DEF SemDestroy, MovedAll
  <2>2. Sem(s)!Destroy
    BY <1>1, <1>5, <2>1 DEF SemDestroy, Sem!Destroy
  <2> QED BY <2>2 DEF Sem!Next
<1>6. ASSUME NEW value \in SemValues, SemCreate(t, s, value) PROVE Sem(s)!Next
  <2>1. value \in Nat
    BY KernelAssumption
  <2>2. Sem(s)!Create
    BY <1>1, <1>6, <2>1 DEF SemCreate, Sem!Create
  <2> QED BY <2>2 DEF Sem!Next
<1> QED BY <1>3, <1>4, <1>5, <1>6

LEMMA StepsOfSemaphores == IInv /\ [Next]_vars => SemNext \/ UNCHANGED vars
<1> SUFFICES ASSUME IInv, Next PROVE SemNext \/ UNCHANGED vars
  OBVIOUS
<1> DEFINE Stays(r) == UNCHANGED << queue[SemQ(r)], counter[r], destroyed[r] >>
<1>1. ASSUME NEW t \in Tasks, User(t) PROVE SemNext
  <2>1. CASE \/ NullArgument(t) \/ TaskYield(t) \/ TaskJoinReturn(t)
             \/ \E u \in Tasks : TaskJoinEnded(t, u) \/ TaskCreate(t, u)
             \/ \E u \in Tasks, prio \in Prios : TaskSetprio(t, u, prio)
             \/ \E code \in ExitCodes : TaskExit(t, code)
             \/ \E s \in Sems : SemGone(t, s)
    <3>1. \A r \in Sems : Stays(r)
      BY <2>1, OtherQueuesStay, QueueNames DEF sems
    <3> QED BY <3>1 DEF SemNext
  <2>2. ASSUME NEW u \in Tasks, TaskJoin(t, u) PROVE SemNext
    <3>1. current = t /\ WaitQ(u) \in Queues \ {UserQ} /\ Suspend(t, WaitQ(u))
      BY <2>2, QueueNames DEF TaskJoin, Running
    <3>2. \A r \in Sems : Stays(r)
      BY <2>2, <3>1, SuspendAppends, QueueNames DEF TaskJoin, sems
    <3> QED BY <3>2 DEF SemNext
  <2>3. ASSUME NEW d \in Durations, TaskSleep(t, d) PROVE SemNext
    <3>1. current = t /\ SleepQ \in Queues \ {UserQ} /\ Suspend(t, SleepQ)
      BY <2>3, QueueNames DEF TaskSleep, Running
    <3>2. \A r \in Sems : Stays(r)
      BY <2>3, <3>1, SuspendAppends, QueueNames DEF TaskSleep, sems
    <3> QED BY <3>2 DEF SemNext
  <2>4. ASSUME NEW s \in Sems,
               \/ SemDown(t, s) \/ SemUp(t, s) \/ SemDestroy(t, s)
               \/ \E value \in SemValues : SemCreate(t, s, value)
        PROVE  SemNext
    <3>1. Sem(s)!Next
      BY <2>4, SemCalls
    <3>2. \A r \in Sems \ {s} : queue'[SemQ(r)] = queue[SemQ(r)]
      BY <2>4, SemOneQueue, QueueNames
    <3>3. \A r \in Sems \ {s} : counter'[r] = counter[r] /\ destroyed'[r] = destroyed[r]
      BY <2>4 DEF SemDown, SemUp, SemDestroy, SemCreate, IInv, TypeOK
    <3> QED BY <3>1, <3>2, <3>3 DEF SemNext
  <2> QED BY <1>1, <2>1, <2>2, <2>3, <2>4 DEF User, OtherCall
<1>2. CASE TickUser \/ TickKernel
  BY <1>2 DEF TickUser, TickKernel, SemNext, sems
<1>3. CASE DispatcherStep
  <2>1. \A r \in Sems : Stays(r)
    BY <1>3, DispatcherLeaves DEF sems
  <2> QED BY <2>1 DEF SemNext
<1> QED BY <1>1, <1>2, <1>3 DEF Next, Terminated

(* The semaphores of ppos_ipc.c implement the abstract ones: units are     *)
(* granted first come first served and are never lost, for any number of   *)
(* tasks and semaphores.                                                   *)
THEOREM SemaphoresImplement == Spec => ImplementsSemaphore
<1>1. IInv /\ [Next]_vars => [SemNext]_vars
  BY StepsOfSemaphores
<1>2. Spec => [][SemNext]_vars
  BY <1>1, KernelInvariant, PTL DEF Spec
<1>3. Spec => SemInit
  BY InitSemaphores DEF Spec
<1> QED BY <1>2, <1>3 DEF ImplementsSemaphore
=============================================================================
