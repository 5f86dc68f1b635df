# PingPongOS in TLA+

PingPongOS is a small teaching operating system that runs inside one Unix
process: tasks are `ucontext` contexts, the timer interrupt is `SIGALRM`, and
the disk interrupt is `SIGUSR1`. This directory holds its specification: TLA+
modules translated from the C sources, TLC configurations that check them on
small instances, and TLAPS proofs that hold for every instance.

* [1 The system](#1-the-system) - inventory of the components
* [2 The modules](#2-the-modules) - how state and actions correspond to the code
* [3 The runs](#3-the-runs) - what TLC checks, with which bounds
* [4 Fairness](#4-fairness)
* [5 The proofs](#5-the-proofs)
* [6 What the checks found](#6-what-the-checks-found)
* [7 Not modelled](#7-not-modelled)
* [8 Plan](#8-plan)

To check a run: `tlc -config MCKernel.cfg MCKernel`. To check a proof:
`tlapm KernelProofs.tla`.

## 1 The system

| component | state | operations | where it is hard |
|---|---|---|---|
| generic queues, `queue.c` | `prev`, `next` of each element; a head pointer per queue, owned by the caller | `queue_append`, `queue_remove`, `queue_size`, `queue_print` | one pair of pointers per element, so one queue per element; removal of the head, of the last and of the only element |
| scheduler, `ppos_core.c` 52-91 | `dynam_prio` of the ready tasks | `scheduler` | ageing and searching in one pass; floor at `MAX_PRIO`; the queue is never rotated |
| task management and dispatcher, `ppos_core.c` | `task_t`, `user_tasks_queue`, `sleeping_tasks_queue`, one `waiting_tasks` queue per task, `current_task`, `num_user_tasks` | `task_create`, `task_exit`, `task_yield`, `task_setprio`, `task_join`, `task_sleep`; `dispatcher_proc`, `terminate_task`, `wake_tasks` | `terminate_task` and `wake_tasks` move tasks out of the queue they walk; a join of a task that has ended, of itself, in a cycle |
| timer, `ppos_core.c` 194-204 | `system_clock`, `counter_ticks`, `lock_kernel` | `task_preemption` | fires between any two instructions; kept out of the kernel by `lock_kernel` and `task_id()` only |
| semaphores, `ppos_ipc.c` 10-84 | signed `counter`, `queue`, `destroyed` | `sem_create`, `sem_down`, `sem_up`, `sem_destroy` | units and waiters in one integer; early returns with the kernel locked; the result of `sem_down` is read after the task has waited |
| message queues, `ppos_ipc.c` 86-182 | ring `buffer`, `buffer_head`, `buffer_index`, `num_msgs`, three semaphores | `mqueue_create`, `mqueue_send`, `mqueue_recv`, `mqueue_destroy`, `mqueue_msgs` | several kernel calls per operation, preemption in between; destruction under tasks in the middle |
| disk manager, `ppos_disk.c` | request queue, `sig_disk`, semaphore `s_access`, the driver task | `disk_mgr_init`, `disk_block_read`, `disk_block_write`, `driver_proc`, `wake_driver` | a signal handler that calls `queue_append`; the driver woken, and its clients suspended, by user code with the kernel unlocked |
| virtual disk, `disk.c` | `disk.status`, the pending operation, a POSIX timer, the file | `disk_cmd`, the handler of its timer | asynchronous completion: `SIGIO`, in whose handler the disk becomes idle and raises `SIGUSR1` |
| CPU accounting, `ppos_core.c` 144-188 | `born_timestamp`, `cpu_time`, `cpu_activations` of each task; two locals of the dispatcher | inside `task_create`, `task_switch`, `dispatcher_proc` | four reads of a clock that goes on between them, differences of unsigned values |

Interaction. User code calls the kernel. A call sets `lock_kernel`, changes
queues, and either clears it and returns, or switches to the dispatcher, which
clears it too (`task_switch`). The dispatcher chooses a ready task with
`scheduler`, gives it a quantum and switches to it; when it has the processor
back it ends the task if its state is `TERM`, and walks the sleepers. The timer
signal decrements the quantum of the running user task and switches to the
dispatcher when it is used up, unless the kernel is locked or the dispatcher is
the one that runs. Semaphores and message queues are built on these calls; so
is the disk driver, which is an ordinary task except that it is woken by a
signal handler.

What makes each component correct:

* queues: rings stay well formed, `prev` and `next` stay inverse, an element is
  in one queue at most, and the operations are those of sequences, error codes
  included;
* scheduler: the first of the best tasks is chosen, all others age exactly once;
  who is guaranteed to run, and who is not;
* tasks: `state` fields and queues agree, nobody sleeps in a queue nobody
  empties, the process ends when, and only when, the last task has;
* timer: no preemption leaves the kernel's data half changed, and none is lost;
  `lock_kernel` masks the timer only, and only where it is set;
* semaphores: sign of the counter and length of the queue agree, units are
  conserved and granted in order;
* message queues: FIFO, no message lost, doubled or overwritten, nobody blocked
  without reason, destruction lets everybody go;
* disk: the request queue is touched by one task at a time, the device works on
  its head, every request is executed once and in order, and every requester
  wakes up. The code has races in which it does not (section 2); what it keeps
  through each of them, and what it loses, is the subject;
* accounting: what a task is charged is the time it had the processor, whatever
  ticks fall between the reads of the clock.

## 2 The modules

| module | what it is |
|---|---|
| `QueueOps` | operations on queues as sequences, used by everything above `queue.c` |
| `QueueSpec` | abstract: appending and removing, with results |
| `LinkedQueue` | `queue.c`, pointer by pointer; implements `QueueSpec` |
| `Scheduler` | the relation between a ready queue, the choice and the priorities after it |
| `SchedulerLoop` | the loop of `scheduler()`, iteration by iteration; computes that relation |
| `SchedulerRounds` | `scheduler()` again and again over one ready queue: who starves |
| `Semaphore` | abstract: units and a first-come-first-served line |
| `Kernel` | dispatcher, task calls, semaphores, timer; implements `Semaphore` |
| `Channel` | abstract: a bounded FIFO channel |
| `MQueue` | message queues over `Kernel`; implements `Channel` |
| `VirtualDisk` | `disk.c`: the device, its timer and its signal |
| `BlockStore` | abstract: block operations, one at a time, each carried out once |
| `DiskManager` | `ppos_disk.c` over `Kernel` and `VirtualDisk`; implements `BlockStore` |
| `Movers` | `moverBody` of `pingpong-disco2.c` as a sequence of disk requests |
| `DiskMovers` | that program over `DiskManager`: its movers first among the clients, others that only read |
| `ReadyRing` | `user_tasks_queue` and one semaphore's queue, assignment by assignment, under the timer: what `lock_kernel` is for |
| `DiskRing` | the disk manager on `ReadyRing`, where it works without the lock |
| `CpuMeter` | abstract: a meter on every task, advanced by each tick while it is on |
| `Accounting` | the accounting fields over `Kernel`; implements `CpuMeter` |
| `LinkedQueueProofs`, `QueueOpsProofs`, `SchedulerProofs`, `KernelProofs`, `MQueueProofs`, `AccountingProofs`, `DiskProofs`, `MoverProofs` | proofs |
| `MC*` | instances for TLC |

**LinkedQueue.** `prev`, `next` and `head` are functions of elements and of
queues. `queue_append` is `AppendFirst` or `AppendLast` or an error result;
`queue_remove` walks the ring from the head (`Visited`), as the code does, and
unlinks. Arguments range over every queue, every element and NULL, so wrong
calls are included. Refinement: the abstract list of a queue is what a walk
along `next` from its head meets.

**Scheduler and SchedulerLoop.** `SchedulerLoop` has the locals of the C
function (the best task so far, the iterator, the number left) and one action per
branch: a better task displaces the best, which is aged then; a worse one is
aged at once; on return the chosen task gets its static priority back.
`ReturnsFirstBest` states that the outcome is `IsChoice` and `Aged` of
`Scheduler`. `Kernel` uses only those two operators; the proof of
`ReturnsFirstBest` is what entitles it to. `SchedulerRounds` extends the loop
with one action, the next call on the same queue.

**Kernel.** Grain: there is one processor. A kernel call sets `lock_kernel`
first, and while it is set the timer handler only counts the tick, so a call up
to its `task_switch`, or up to its return, is one action. What the user code
between two calls does is not modelled: the running task may make any call next
or compute for ever. `TickUser` is the signal in user code, `TickKernel` the
signal in a kernel call or in the dispatcher. That a call does to the queues what
one step does, whatever the timer interrupts, is `OneStep` of `DiskRing`; in a
program that uses the disk its signals interrupt kernel calls as well, and
`DiskManager` says what comes of it.

| in the code | in the model |
|---|---|
| `current_task`, `lock_kernel`, `counter_ticks`, `system_clock`, `num_user_tasks` | variables of the same names (`current`); `lock_kernel` is its value in user code |
| `user_tasks_queue`, `sleeping_tasks_queue`, `waiting_tasks`, `semaphore_t.queue` | `queue[UserQ]`, `queue[SleepQ]`, `queue[WaitQ(t)]`, `queue[SemQ(s)]` |
| `task_t` | `state`, `static_prio`, `dynam_prio`, `wake_time`, `exit_code` |
| the program counter and locals of `dispatcher_proc`, `wake_tasks` | `dpc`, `next_task`, `cur`, `size` |
| a task between the two halves of `task_join` | `pc`, `arg` |
| `task_switch(&dispatcher)` | `SwitchToDispatcher` |
| one iteration of the dispatcher loop | `DispatchTask` or `DispatchNone`, the task's steps, `AfterSwitch`, `WakeStep`s, `WakeDone` |
| early returns for NULL or a destroyed semaphore | `NullArgument`, `SemGone`: `lock_kernel` stays 1 |

`wake_tasks` is split into one action per iteration because each reads the
clock again. The running task stays in `user_tasks_queue`, as it does in the
code.

**MQueue.** `mqueue_send` and `mqueue_recv` are the same nine steps with two
semaphores exchanged: `sem_down`, the test of its result, `sem_down(s_buffer)`,
the test of its result, `memcpy`, the index and `num_msgs`, `sem_up(s_buffer)`,
the test of its result, `sem_up` of the other semaphore. Between any two the
task can be preempted. The semaphore calls are Kernel's own actions, so a step
of `MQueue` is a step of `Kernel` plus the queue's fields. `mqueue_create` and
`mqueue_destroy` are three steps each, because the first call they make to
`sem_create` or `sem_destroy` clears `lock_kernel`. A `memcpy` with a NULL
buffer ends the process (`fault`).

**DiskManager.** Calls of the kernel are Kernel's own actions (`TaskCreate`,
`SemDown`, `SemUp`, `TaskYield`, `TaskJoin`, `TaskExit`). What lies between them in
`ppos_disk.c` is user code, and each statement that reads or writes what others
use is an action: `place` says where each task is in its code.

| in the code | in the model |
|---|---|
| `disk.queue`, `sig_disk`, `disk.num_blocks`, the local `first` | `requests` (a sequence), `sig_disk`, `num_blocks`, `first` (its requester) |
| `disk.status`, the pending operation, the POSIX timer, `disk.dat` | `status`, `next_block` and `buffer`, `armed`, `contents` |
| `disk_mgr_init` | `InitDisk`, `UncountDriver`, `CreateAccess`, `InitFields` |
| `disk_block_read`, `disk_block_write` | `Ask`, `EnterQueue`, `WakeForRequest`, `Ready`, `Enqueue`, `Up`, `Mark`, `RemoveSelf`, `Yield`, `Return` |
| one round of `driver_proc` | `DriverDown`, `DriverTest` (with `Finish`), `Ready`, `Enqueue`, `ClearSignal`, `DriverCommand`, then `Up`, `Mark`, `RemoveSelf`, `Yield` |
| `disk_sighandle` up to its `raise`; `wake_driver`, on the stack of whatever it interrupts | `DiskDone`; `SetSignal`, `ReadyDriver`, `AppendDriver`, with `handling` and `stage` in between |
| `queue_append` of an element that is still linked | refused, as in `queue.c:56` (`AppendReady`) |

The timer preempts a task between any two of these steps, handlers included, and
the disk interrupts whatever runs, the dispatcher included: no action has a guard
that keeps either out where the code does not. Two things need more than that.

* `lock_kernel` masks the timer, not the disk, so a signal also falls *into* a kernel
  call, which here is one step. What `wake_driver` reads and writes are `sig_disk`, the
  driver's state and the driver's links. A call that touches neither of the last two
  commutes with it, and the signal comes to one before or after the call. The call
  that does is the driver's own `sem_down` when it blocks: between `ppos_ipc.c` 36 and
  37 the driver is in no queue, `wake_driver` puts it into `user_tasks_queue`, the
  `queue_append` to the semaphore is refused, and `sem_down` will return 0 without
  a unit. That is an action, `DownSignalled`. (A `sem_up` that moves the driver
  wakes it all the same, in either order.)
* An operation on the ring of `user_tasks_queue` is one step as well. The code lets
  signals into it: the disk interrupts any, and the timer those of the disk
  manager (`ppos_disk.c` 24, 40, 49, 125, 133, 167, 175), which run with
  `lock_kernel` at 0. `TearRing` is that event: it may happen wherever the code
  admits it, sets `torn`, and the execution ends. What the properties of
  `DiskManager` say is therefore about executions up to a torn ring, and a real
  execution may have one: what becomes of it then is not modelled.
  `DiskRing` shows that up to there, one step is what each operation amounts to.

The code does not survive every interleaving. The history variable `races` records
which races have occurred; no action reads it, and no action is held back to
avoid one. Each property says which races it needs not to have occurred:

| race | what happens | what breaks | limits |
|---|---|---|---|
| `init` | the timer preempts `main` in `disk_mgr_init` after `task_create` has unlocked the kernel | the driver runs into a semaphore of zeros, `sem_create` drops it from every queue: no operation returns | `SomebodyWakes` |
| `down` | `wake_driver` inside the driver's `sem_down` | two tasks at `disk.queue`; later a NULL dereference in `sem_up` | all but `DMTypeOK`, `DriverUncounted` |
| `test` | the disk finishes between the driver's test of `sig_disk` and its command | an operation is carried out twice | `DeviceServesHead`, `ImplementsBlockStore`, `ReversesDisk`, `SomebodyWakes` |
| `park` | the disk finishes after the command and before the driver has left the ready queue, or the timer preempts the driver as it leaves | a wake-up is lost: a request stays | `SomebodyWakes` |
| `requester` | the driver wakes a task that has not suspended itself yet | the task sleeps for ever (run `disk_returns`) | `SomebodyWakes` |
| `handler` | the timer preempts a task inside `disk_sighandle` or `wake_driver` | an operation is carried out twice | as `test` |

Nothing about time is assumed: an operation of the disk may finish in the next
instant or never, and so the races may happen at any time the order of statements
admits.

**ReadyRing and DiskRing.** `ReadyRing` has the actions: `user_tasks_queue` and the
queue of one semaphore as the pointers of `queue.c`. Each context (a task, or the
dispatcher) has `work`, the rest of the call it is in: operations on queues, each at
one of its assignments, and statements between them. The timer takes the
processor away wherever `lock_kernel` is 0. `DiskRing` adds the driver and its clients,
with `wake_driver` on top of any context at any moment, and the specification.
`lists` follows the queues as if each operation were one step. `OneStep` says that
the context that runs finds the rings of `lists` unless it is inside an operation
itself, and meets no NULL pointer, until the timer or the disk falls into an
operation that runs without the lock, or the disk into any (`torn`, the event that is
`TearRing` in `DiskManager`). So `lock_kernel` suffices for the kernel's own
operations, and what is said about a step of `Kernel` is said about its pointers.

**Accounting.** The dispatcher reads the clock four times a round (`ppos_core.c`
165, 167, 169, 171). The first read before and the first read after `task_switch`
become actions of their own in front of the Kernel actions `DispatchTask` and
`AfterSwitch`, and `between` says that the dispatcher stands between two reads.
Everything else is a Kernel action with what it does to the fields. The mapping
to `CpuMeter`: a meter is on from the read that opens a stretch to the read that
closes it (`Measured`), and shows `cpu_time` plus what has passed since
(`ChargedSoFar`). Two meters are on between two reads, so a tick there counts
for the dispatcher and for the task; none is lost. All arithmetic is unsigned
and wraps.

## 3 The runs

| run | instance | properties |
|---|---|---|
| `linked_queue` | 2 queues, 4 elements, every call | `TypeOK`, `fila_correta` (the predicate of `testafila.c`), `OwnedByOneQueue`, `ImplementsSequences` |
| `scheduler` | up to 5 tasks, 4 priorities, two too near to the floor, fairness | `TypeOK`, `ReturnsFirstBest`, `BeyondReachStarves`, `EveryoneRuns` |
| `kernel` | 3 tasks, quantum 2, joins, sleeps and priorities, clock modulo 2 | `TypeOK`, `QueuesExclusive`, `StateMatchesQueue`, `NoJoinerLeft`, `StuckOnlyByJoins`, `CpuOwner`, `TaskCount`, `QuantumLeft`, `WakeWalk`, `JoinersReleased` |
| `kernel_sems` | 3 tasks, 2 semaphores, destruction and new creation, fairness | `StateMatchesQueue`, `SemaphoreCount`, `ImplementsSemaphore`, `ReadyRuns`, `EventuallyHalts` |
| `accounting` | 2 tasks, one descriptor used again, quantum 2, clock and counts modulo 2 | `AccTypeOK`, `ImplementsMeter` |
| `mqueue` | 3 tasks, capacity 2, 2 messages | `MQTypeOK`, `UnitsConserved`, `NoStandstill`, `ImplementsChannel` |
| `mqueue_destroy` | main_task destroys under 2 senders and receivers, capacity 1, fairness | `DestroyReleases` |
| `disk` | `main`, the driver, a mover and a reader, the reader with a call outside the disk too; 2 blocks; none or one of the six kinds of race | `DMTypeOK`, `AccessExclusive`, `DeviceServesHead`, `SomebodyWakes`, `DriverUncounted`, `ReversesDisk`, `ImplementsBlockStore` |
| `ring` | one task that creates the driver and two clients, one read each, assignment by assignment | `OneStep` |
| `kernel_lock_left` | violation | `UserCodeIsPreemptible` |
| `mqueue_use_after_destroy` | violation | `NoUseAfterDestroy` |
| `disk_returns` | violation: one client, fairness | `EveryRequestReturns` |

Each property is stated, with the code it is about, above its definition.

Bounds, and why they are enough to meet the interesting cases:

* Tasks. Three tasks give a running task, a blocked one and a third that acts in
  between; a ring of three has a first, a middle and a last element. Two waiters
  can stand in the line of one semaphore while the third task raises it. Four
  elements over two rings in `linked_queue` allow rings of 0 to 4. In
  `accounting` two tasks are enough, one that is charged and one whose fields
  must not move; a descriptor is used again after its task has ended.
* `DEFAULT_QUANTUM_TICKS` is 1 or 2 instead of 10: the test is for zero after a
  decrement, and what matters is a task that keeps part of its quantum (2) and
  one that does not (1).
* `MAX_PRIO` is -1 or -2 instead of -20, that is, how many steps ageing reaches.
  With n tasks computing, the scheduler reaches all of them when ageing reaches
  n - 1 steps: -2 is the least that lets three tasks run, -1 lets the floor be
  hit. `SchedulerRounds` states the relation itself, for any floor.
* `ClockMod` is 2 in `kernel`: with sleeps of one tick the clock wraps during
  sleeps and while the dispatcher walks the sleepers, and a sleeper is met both
  before and after its time. It is 2 in `accounting` too, and so is `CountMod`:
  every difference and every sum meets the wrap. `AccountingProofs` has the
  result for every modulus. The other runs have no sleepers and a clock of
  one value.
* `MaxCounter` is the one cap in a guard (`SemUp`): a program may call `sem_up`
  without end. In `kernel_sems` it is 1, the greatest initial value, so that a
  semaphore can be raised from -2, two waiters, through 0 to 1; in the message
  queue and disk runs it is at least what their own calls can reach, so it
  blocks nothing.
* `Calls` (the calls the programs of the instance make) and `Operations` (those
  each task makes on the message queue) split the state space by question.
* The disk has two blocks: the mover swaps them with the four requests of
  `moverBody` while the reader asks for the first. Two clients are enough for a
  request to wait in `disk.queue` behind another, and for a client to block on
  `s_access` while the driver or the other one holds it. The reader first asks for the block
  behind the last, which the range test refuses.
* `disk` has a CONSTRAINT, which bounds what is looked at: executions with at most
  one kind of race (`MaxRaces`), each as often as it likes. One with the race
  `handler`, which can strike at nearly every step, is followed up to the second
  operation of the mover (`MaxHandled`). TLC checks the states just outside and
  does not go on from them. The theorems have no such bounds, and are about the
  same seven properties. A torn ring ends the model.
* `disk_returns` follows, by its CONSTRAINT, the executions with no race but `requester`,
  so that of the lost wake-ups it is this one that TLC shows; `EveryRequestReturns`
  itself has no such premise.
* `ring` has two tasks in the kernel, the driver and the signals: one may be half way
  through an operation while another blocks and a third wakes it. The number of
  operations of the driver and of preemptions is not bounded. Its CONSTRAINT stops at
  `torn`, which stays TRUE and makes the property say nothing, and it has
  `CHECK_DEADLOCK FALSE` because the system may really stop: all tasks may end, a
  `sem_up` without a waiter may dereference NULL (`Crash`, after a `down` race), and
  an execution behind `torn` is not followed.
* `MaxMsgs` is 2 where the order of messages matters, so that indices wrap and
  the ring is empty, half full and full, and 1 where only blocking does.
* Symmetry of the tasks other than `main_task` (in `ring`, of the clients), of
  semaphores and of messages is used in safety runs only. `IsChoice` breaks ties by position, not by name, and
  `main_task` is excluded because `Init` names it.

## 4 Fairness

`FairSpec` of `Kernel` assumes weak fairness of `DispatcherStep` and of
`TickUser`, nothing of tasks. The dispatcher is never preempted
(`task_preemption` returns for task id 1) and runs straight code, so it always
goes on. The timer is an interval timer of one millisecond, so a signal comes
as long as the process lives. A task may compute for ever; that `ReadyRuns`
holds all the same is the point of preemption.

`MQFairSpec` adds strong fairness of each task's steps inside a message queue
operation: a task that gets the processor again and again executes an
instruction of the operation before it is preempted again. It may still never
leave its own code.

`DMFairSpec`, for `disk_returns`, has weak fairness of the dispatcher, of the completion of the disk's
operation (its timer is set and goes off once) and of the signal that the handler
raises at its end; and strong fairness of the code of each task, which is
straight line between two calls: a task that gets the processor again and again
gets on with it.

`RoundsSpec` has weak fairness of its steps: the loop always goes on, and the
dispatcher calls it again.

`EventuallyHalts` has a premise about all tasks having ended, and
`DestroyReleases` one about tasks that keep the processor with the kernel locked
(finding 1); without it the property fails.

## 5 The proofs

| theorem | says, for all constants |
|---|---|
| `LinkedQueueProofs!PointersTyped` | `Spec => []TypeOK` |
| `LinkedQueueProofs!QueuesSound` | `Spec => []fila_correta` |
| `LinkedQueueProofs!ElementsInOneQueue` | `Spec => []OwnedByOneQueue` |
| `LinkedQueueProofs!QueuesImplementSequences` | `Spec => ImplementsSequences` |
| `SchedulerProofs!LoopImplementsScheduler` | `Spec => [](TypeOK /\ ReturnsFirstBest)` |
| `SchedulerProofs!RoundsTypes` | `RoundsSpec => []TypeOK` |
| `SchedulerProofs!RoundsReturnFirstBest` | `RoundsSpec => []ReturnsFirstBest` |
| `SchedulerProofs!TasksBeyondReachStarve` | `RoundsSpec => []BeyondReachStarves` |
| `KernelProofs!KernelTypes` | `Spec => []TypeOK` |
| `KernelProofs!TasksLinkedOnce` | `Spec => []QueuesExclusive` |
| `KernelProofs!TasksAccountedFor` | `Spec => []StateMatchesQueue` |
| `KernelProofs!JoinersNeverLeft` | `Spec => []NoJoinerLeft` |
| `KernelProofs!OnlyJoinsDeadlock` | `Spec => []StuckOnlyByJoins` |
| `KernelProofs!ProcessorOwned` | `Spec => []CpuOwner` |
| `KernelProofs!QuantaRenewed` | `Spec => []QuantumLeft` |
| `KernelProofs!TasksCounted` | `Spec => []TaskCount` |
| `KernelProofs!SemaphoresCounted` | `Spec => []SemaphoreCount` |
| `KernelProofs!WakeTasksVisitsAll` | `Spec => []WakeWalk` |
| `KernelProofs!JoinersReleasedByEnd` | `Spec => JoinersReleased` |
| `KernelProofs!SemaphoresImplement` | `Spec => ImplementsSemaphore` |
| `MQueueProofs!QueuesRunOnKernel` | `MQSpec => Spec` |
| `MQueueProofs!QueueTypes` | `MQSpec => []MQTypeOK` |
| `MQueueProofs!UnitsNeverLost` | `MQSpec => []UnitsConserved` |
| `MQueueProofs!NeverAtStandstill` | `MQSpec => []NoStandstill` |
| `MQueueProofs!QueueImplementsChannel` | `MQSpec => ImplementsChannel` |
| `AccountingProofs!AccountingRunsOnKernel` | `AccSpec => Spec` |
| `AccountingProofs!AccountingTypes` | `AccSpec => []AccTypeOK` |
| `AccountingProofs!AccountingImplementsMeter` | `AccSpec => ImplementsMeter` |
| `DiskProofs!DiskTypeCorrect` | `DMSpec => []DMTypeOK` |
| `DiskProofs!DiskQueueExclusive` | `DMSpec => []AccessExclusive` |
| `DiskProofs!DeviceAgrees` | `DMSpec => []DeviceServesHead` |
| `DiskProofs!DriverNotCounted` | `DMSpec => []DriverUncounted` |
| `DiskProofs!DiskImplementsBlockStore` | `DMSpec => ImplementsBlockStore` |
| `DiskProofs!NobodyForgotten` | `DMSpec => []SomebodyWakes` |
| `MoverProofs!MoversReverseDisk` | `DMSpec => []ReversesDisk` |

Assumptions: `KernelAssumption` (`Main` is a task, the dispatcher and NULL are
not, finitely many tasks, a positive quantum and clock modulus, initial values
of semaphores that are not negative), `PrioAssumption` (priorities are
integers), `MQueueAssumption` (three different semaphores, a positive capacity,
and the values `mqueue_create` gives them are possible ones), `CountAssumption`
(a positive modulus), `DiskManagerAssumption` (the driver is a task
other than `Main`, the clients are others, each has a program of reads and
writes, of blocks inside the disk or outside it), `DiskAssumption` (the disk's size
is a natural number and there is some content), `MoversAssumption` (the first
clients run `moverBody`, the others only read, into other buffers, and the movers'
shares cover all of the disk but a middle block), `RoundsAssumption` (tasks are numbered by position),
`NULLAssumption` and `TasksAssumption` of the smaller modules. They are evaluated
by TLC in the runs of the modules that declare them.

*Kernel.* The inductive invariant `IInv` is the conjunction of the safety
invariants of the runs; they need each other. `StateMatchesQueue` needs
`CpuOwner` (only a READY task can call, so the queue it leaves is
`user_tasks_queue`) and `QueuesExclusive` (leaving one queue leaves all);
`QueuesExclusive` needs `StateMatchesQueue` (the target of a move does not hold
the task yet); `TaskCount` needs `StateMatchesQueue` and `CpuOwner` (the task
that `terminate_task` handles has ended and is counted once); `SemaphoreCount`
needs `QueuesExclusive` (moving one waiter shortens the line by one), and
`WakeWalk` needs it so that the rest of the walk keeps its order. The lemmas of
`QueueOpsProofs` say what `queue_append`, `queue_remove`, `Move` and `MoveAll`
do to the content, the length and the order of a family of disjoint queues;
`NextIInv` then has one step per action and, under it, one per conjunct the
action disturbs.

`StuckOnlyByJoins` needs no invariant of its own: when nobody is ready, asleep or
queued on a semaphore, each suspended task is in the queue of a target, which
has not ended and is not ready, hence is suspended too; so the suspended tasks
themselves form the circle.

*Kernel, steps.* `JoinersReleased` and the refinement of `Semaphore` are proved from
`IInv` action by action: each kernel action maps to one abstract step or to a
stutter, with `permits` the positive part of the counter and `waiting` the queue.

*LinkedQueue.* The inductive invariant says that the elements can be divided
among the queues such that `next` and `prev` stay inside an element's part and
are inverse there, each head is in its own part, and a set that contains the
head and is closed under `next` contains the whole part. The last clause is
what stands for "reached by walking" without recursion. For the refinement of
`QueueSpec` each part is written as a sequence in the order of `next` from its
head (`Places`), and each call does to these sequences what `QueueSpec` does:
`AppendLast` puts the element between the last and the head, which is the end of
the sequence, `Unlink` takes it out and lets the rest follow on. Such sequences
are what the mapping reads off the pointers (`ListIs`) and a walk visits just their
elements (`VisitedIsListed`), so the lengths and the error codes agree too. Where an
argument goes along a ring, it takes the least place where it would fail, which
exists because `<` is well founded on the naturals.

*SchedulerLoop.* The inductive invariant says what the scanned part of the queue
looks like: the best so far is the first best of it, and all of it but the best
has been aged once.

*SchedulerRounds.* `ReturnsFirstBest` follows because the loop's invariant does not
care where the priorities came from. For `BeyondReachStarves` the invariant
describes the priorities at the start of a call on a queue of equal priorities:
first a sweep, in which the k-th task is the next to be chosen for the first time
and all from there on have aged k - 1 steps, then a cycle over the first
p - `MAX_PRIO` + 1 tasks while all behind stay at `MAX_PRIO`. In both the first best
task is inside that prefix.

*MQueue.* Each step of `MQueue` is a step of `Kernel` or leaves its variables
alone, so `IInv` holds there too. `MQInv` adds who may act while the queue is
being created, what its creation has done so far, that no semaphore of a live queue
is destroyed, where the tasks blocked on its semaphores stand in their operations,
that nobody is blocked elsewhere, that one unit of `s_buffer` exists, and
`UnitsConserved`. The last two are accounts: the units of a semaphore plus the
tasks that hold one. The lemmas `OneElement` and `Exchange` say what a task that
enters or leaves such a set does to its size, so that a step of an operation is
a transfer between two terms of a sum. `NoStandstill` follows: when nobody is
ready, nobody holds a unit, so `s_buffer` is free and nobody waits for it, and
`num_msgs` is the units of `s_consume` and the complement those of `s_produce`; both
cannot be zero. For `QueueImplementsChannel`, `CInv` adds that `buffer_index` is
`num_msgs` slots behind `buffer_head` round the ring, and that a task between its
`memcpy` and its change of the index holds what is in the slot the index points
at. By the accounts only one task is there (`OneHolder`), and it has room or a
message (`RoomAndMessage`), so its copy goes behind the last message (`CopyStep`)
and its change of the index is the moment of the transfer (`AdvanceStep`).

*Accounting.* `AInv` is `IInv` and `AccTypeOK`. The arithmetic is in lemmas about
remainders: a tick between two reads adds one to a difference modulo n, the sum
of two remainders is the remainder of the sum. Then each action maps to a tick,
to a meter switched on or off, to a reset, or to nothing.

*Disk.* The theorems hold for any number of clients, any programs and any size of
the disk, with every race of section 2 in the behaviours and no assumption about
any. Up to which of them a property holds is part of the property: `races` is a
history of what has happened, so "up to the first race that ..." is a state
predicate. Like the runs, they end at a torn ring.

`DiskManager` suspends and wakes tasks with assignments of its own, outside the
kernel: between `Mark` and `RemoveSelf` a SUSPENDED task is in the ready queue, and
a task that `wake_driver` makes ready may be in it already. Such steps are not
steps of `Kernel`, and `IInv` does not survive them. In its place stands `Base`,
what is left of `IInv` and holds through all races: the types, queues still
exclusive (`AppendReady` refuses what is still linked), who may stand in which
place and wait in which queue, the running task is ready to be preempted
(`OnCpu`), and nobody acts before `disk_mgr_init` is through.

| layer | says | until |
|---|---|---|
| `Base` | above | always |
| `CountInv` | a client is in `disk.queue` once, and only while it waits for it; `num_user_tasks` counts the living tasks but the driver | always |
| `AccInv` | `s_access` is a mutex: its unit is free or one task holds it, and the counter is the length of its line | `down` |
| `DevInv` | the device works on the head of `disk.queue` or on nothing; the driver never gives a command when one has been carried out and not yet taken off | `down`, `test`, `handler` |
| `WakeInv` | who sleeps is remembered in `disk.queue` (`Remembered`), and if that is not empty somebody will look at it (`Expected`, `Signalled`, `DriverReady`) | any race |

`AccInv` holds through `init` although the driver then waits in no queue: it has
blocked without a unit, and whom `sem_create` has dropped is never put back
(`stray`). `SomebodyWakes` is far from inductive: that the driver comes after a signal needs
that it is not between `Mark` and `RemoveSelf` when the signal finds it
(`Parking`), that the driver finds the requester already suspended, and that
`sig_disk` is never set while the driver sleeps without being called. Each of
these is one race, and none can be left out of the premises: with `init`, `park` or
`requester` alone an operation does not return, with `test` or `handler` alone one is
carried out twice, with `down` alone two tasks are at the queue. Of these
counterexamples the runs keep the one of `requester`.

For the refinement, `EnterQueue` maps to the abstract `Ask`, the end of an
operation on the device (`DiskDone`) to `Serve`, `Return` to `Return`, and every
other step, of the kernel, the driver, the timer or a signal, to a stutter. That
`DiskDone` serves the first request of the line, and that it is not served twice,
is `DevInv`; that `Return` finds its request served is `Requesters` of `CountInv`.

*Movers.* `DiskMovers` has any number of movers, of clients beside them and of
blocks; the run has one mover, one other client and two blocks. `CallsInv` ties
requests and ends to the programs: each request in `disk.queue` is the current call
of its requester, a client asks for nothing behind the end of its program, and one
that has ended has come to it, so when `main` has joined all of them every call has
been made (`AllDone`). `SwapInv` ties the disk to the requests: a mover that has had
d operations carried out has exchanged d / 4 of its pairs, and of the next it has
read one or both blocks and written none or one, with what it read still in its
buffers. One operation of one mover takes one of its pairs one step further
(`MoverSwaps`) and leaves all others alone, because the blocks of all pairs are
different (`PairsApart`, the only place with arithmetic of products) and the
buffers are the mover's own. That an operation is carried out once and as asked is
`DevInv` (`DiskCarriesOut`, `ElseNothing`). At the end each pair has had all four of its
operations, and the pairs are the whole disk but the middle block of an odd one
(`PairsCover`), which stays where it is.

Only model-checked: everything under fairness (`EveryoneRuns`, `ReadyRuns`,
`EventuallyHalts`, `DestroyReleases`), which is out of the reach of the proof
system, and `OneStep`. Every other property of a passing run is a theorem.

## 6 What the checks found

1. `kernel_lock_left`. `sem_down`, `sem_up` and `sem_destroy` return -1 for a
   destroyed semaphore (`ppos_ipc.c` 29, 49, 69) without clearing `lock_kernel`;
   so do the NULL checks there, in `task_create`, `mqueue_create` and
   `mqueue_destroy`. The caller goes on in user code that the timer does not
   preempt, until its next call: against the comment at `ppos_core.c:198`.
2. `mqueue_use_after_destroy`. `mqueue_destroy` frees the buffer without taking
   `s_buffer`. A sender or receiver preempted between its second `sem_down` and
   its `memcpy` goes on with a NULL buffer.
3. `disk_returns`. `disk_block_read` and `disk_block_write` release the kernel
   (`sem_up`) and only then suspend their caller (`ppos_disk.c` 129-135, 171-177). A
   caller preempted there until the disk has finished is made ready first and
   suspended second, and nobody wakes it again, against `disk.h:30-32`.

Known from modelling the code, and in the behaviours of the models, but without a
run that shows it:

* The driver suspends itself in the same way (`ppos_disk.c` 36-41): a client that asks
  before it is SUSPENDED does not wake it, and a wake-up before it has left the
  queue is undone (race `park`).
* `task_create` inside `disk_mgr_init` unlocks the kernel; a driver that runs before line
  79 waits on a semaphore that `sem_create` then empties (`init`).
* A completion between lines 18 and 33, or a preemption between `disk.c` 141 and
  `ppos_disk.c` 47, makes the driver start the finished request again: one call, two
  transfers (`test`, `handler`).
* A signal between `ppos_ipc.c` 36 and 37 lets the driver's `sem_down` succeed without
  a unit, while a client has it (`down`).
* The disk manager operates on `user_tasks_queue` with the kernel unlocked
  (`ppos_disk.c` 24, 40, 125, 133, 167, 175), and `wake_driver` in the middle of any other
  operation (49): interrupted there, the ring is left half changed (`torn`).
* A sleeper becomes ready only when the dispatcher walks the sleepers, once per
  round, so a whole quantum of another task can pass after its time;
  `pingpong-sleep.c:35` calls any such sleep an `ERROR`.

Not a disagreement with any document, but worth knowing:
`scheduler` shows, and `TasksBeyondReachStarve` proves, that of tasks that compute at one priority p only the
first p - `MAX_PRIO` + 1 in the queue ever run, because ageing stops at `MAX_PRIO`
and the first of the tasks there wins: 21 tasks with the constants of
`ppos_data.h`, where p is 0 and `MAX_PRIO` -20.

## 7 Not modelled

* `ppos_init`: `Init` of `Kernel` is the state it leaves. A tick that comes
  before the first switch only decrements a `counter_ticks` that is overwritten.
* Contexts, stacks, `malloc`: only who has the processor is kept.
* `task_switch` clears `lock_kernel` one statement before `swapcontext`
  (`ppos_core.c` 377): a tick there is counted against the new task while the old
  context still runs. The switch is one step in the models; with the new quantum of
  10 ticks such a tick preempts nobody.
* `task_switch` called by user code between two user tasks, `task_exit` of
  the dispatcher by anybody else, signals raised by the program itself.
* The programs' side of the contracts: a descriptor is created again only after
  its task has ended; a semaphore is created only when nobody waits for it and
  with a value that is not negative; a message queue is created once, before the
  tasks that use it; a task does not destroy a queue twice at a time when its
  buffer is still there.
* In `MQueue` a `memcpy` is one step, so a copy that is itself interrupted by the
  destruction is not distinguished from one that comes before or after it.
* `mqueue_msgs`, `queue_print`, `task_id`, `systime`, `task_getprio`: they change
  no state.
* Of the disk: the error returns of `disk_mgr_init` and `disk_init` (no file, no
  memory), a NULL buffer, the queries of `disk_cmd` that return constants, how long
  an operation takes (it is any).
* What becomes of `user_tasks_queue` after an operation on it has been interrupted
  inside: `DiskManager` ends there, and `DiskRing` says nothing behind it. `DiskRing`
  has one request per client, a test and a walk of `queue.c` as one step each, and
  none of the device's data.
* Nested `SIGUSR1`: it stays blocked in a context until its handler has returned, and
  a second completion cannot come before.
* Mutexes and barriers are declared in `ppos.h` and implemented nowhere. The test
  programs are behaviours of `Kernel` and `MQueue`; of `pingpong-disco2.c` the movers
  are modelled, of `testafila.c` its predicate `fila_correta`.

## 8 Plan

Done, in this order: `QueueOps`, `LinkedQueue`, `Scheduler`, `Kernel` with
semaphores, their proofs, `MQueue`; then the disk (`VirtualDisk`, `BlockStore`,
`DiskManager`, `Movers`), `Accounting` with its proofs, and the proofs of `MQueue`,
that it implements `Channel` among them, of `SchedulerRounds` and of the disk, that it
implements `BlockStore` among them; that `LinkedQueue` implements `QueueSpec`, and
what the program of `DiskMovers` makes of the disk; last, the races of the disk
manager, with the proofs over all of them, and the ring of the ready queue
under the timer and the disk (`ReadyRing`, `DiskRing`).

Next:

1. A proof of `OneStep`, which the grain of `Kernel` rests on, for any number of
   tasks: so far it is model-checked.
2. `SleepClock`: how late a sleep can be, and `task_sleep` near the end of the 32-bit
   clock.
3. Clients that fill their buffers themselves between two calls, with which an
   operation carried out twice has another effect the second time.
4. A clock of descriptor generations, for a `task_join` that reads the exit code of
   a descriptor used again (`ppos_core.c` 444).
5. The ring behind `torn`: which of the interrupted operations the code survives.
