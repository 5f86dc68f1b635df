---------------------------- MODULE DiskManager -----------------------------
(***************************************************************************)
(* The disk manager of ppos_disk.c: the driver task, the handler of        *)
(* SIGUSR1, the two block operations, and programs that use them, on top   *)
(* of Kernel and VirtualDisk.                                              *)
(*                                                                         *)
(* Grain.  Calls of the kernel are atomic as in Kernel.  What lies between *)
(* them is user code, one action for each statement that reads or writes   *)
(* what others use: the timer can preempt it and the signals of the disk   *)
(* can interrupt it between any two, handlers included.  lock_kernel masks *)
(* the timer only, so the disk also interrupts kernel calls; all of that   *)
(* comes to a signal before or after the call, except in two cases, which  *)
(* are actions of their own: DownSignalled, in the sem_down of the driver, *)
(* and TearRing, inside one operation on the ring of user_tasks_queue.     *)
(* There the model ends; DiskRing says what holds of the ring up to there. *)
(*                                                                         *)
(* The code does not survive every interleaving.  races is a history       *)
(* variable: it names the races that have occurred, no action reads it,    *)
(* and a property says which of them it needs not to have occurred.        *)
(***************************************************************************)
EXTENDS Kernel, VirtualDisk

CONSTANTS
  Driver,     \* disk.driver
  s_access,   \* disk.s_access
  mover,      \* the client tasks, in the order main creates and joins them
  Program     \* the block operations each of them asks for, in order

Clients == ToSet(mover)

ASSUME DiskManagerAssumption ==
  /\ Driver \in Tasks /\ Driver # Main /\ s_access \in Sems
  /\ mover \in Seq(Tasks \ {Main, Driver}) /\ NoRepeats(mover)
  /\ Program \in [Clients ->
       Seq([op_type : {"READ", "WRITE"}, block : Int, buffer : Buffers])]

VARIABLES
  num_blocks,   \* disk.num_blocks
  requests,     \* disk.queue
  sig_disk,
  first,        \* first->requester while driver_proc holds first
  place, at,    \* where a task is in its code; at counts operations done
  stray,        \* linked to themselves, in no queue any more
  handling,     \* contexts interrupted inside disk_sighandle
  stage,        \* where in it each of these stands
  crashed,      \* a NULL dereference has ended the process
  torn,         \* an operation on user_tasks_queue was interrupted inside
  races         \* history: which races have occurred, see Raced

manager == << num_blocks, requests, sig_disk, first >>
code    == << place, at >>
dmVars  == << vars, device, manager, code, stray, handling, stage, crashed,
              torn, races >>

Contexts == Tasks \cup {Dispatcher}

DMInit ==
  /\ Init /\ DiskInit
  /\ num_blocks = 0 /\ requests = << >> /\ sig_disk = FALSE /\ first = NULL
  /\ place = [t \in Tasks |-> IF t = Main THEN "boot"
                              ELSE IF t = Driver THEN "down" ELSE "call"]
  /\ at = [t \in Tasks |-> 1]
  /\ stray = {} /\ handling = {} /\ stage = [c \in Contexts |-> "raise"]
  /\ crashed = FALSE /\ torn = FALSE /\ races = {}

At(t, p) == Running(t) /\ place[t] = p /\ t \notin handling

Goto(t, p) == place' = [place EXCEPT ![t] = p] /\ UNCHANGED at

(* queue_append to user_tasks_queue, which refuses an element still linked *)
(* anywhere: in a queue, or only to itself.                                *)
AppendReady(t) ==
  IF t \in stray THEN queue ELSE queue_append(queue, UserQ, t)

(* Waking a task outside the kernel takes two statements. *)
SetReady(t) == state' = [state EXCEPT ![t] = "READY"] /\ UNCHANGED queue

PutReady(t) == queue' = AppendReady(t) /\ UNCHANGED state

\* The part of the kernel that user code never writes.
KernelSame ==
  UNCHANGED << cpu, system_clock, num_user_tasks, static_prio, dynam_prio,
               wake_time, exit_code, sems, disp, joins >>
-----------------------------------------------------------------------------
(* disk_mgr_init.  task_create unlocks the kernel, and the rest runs as    *)
(* user code.                                                              *)
InitDisk ==
  /\ At(Main, "boot") /\ disk_init
  /\ num_blocks' = disk_size'
  /\ TaskCreate(Main, Driver)
  /\ Goto(Main, "count")
  /\ UNCHANGED << requests, sig_disk, first, stray, handling, stage,
                  crashed >>

\* Broken variant: the driver is counted as a user task.
UncountNever ==
  /\ At(Main, "count") /\ Goto(Main, "access")
  /\ UNCHANGED << vars, device, manager, stray, handling, stage, crashed >>

UncountDriver ==
  /\ At(Main, "count")
  /\ num_user_tasks' = num_user_tasks - 1
  /\ Goto(Main, "access")
  /\ UNCHANGED << cpu, system_clock, queue, tcb, sems, disp, joins,
                  device, manager, stray, handling, stage, crashed >>

(* sem_create forgets whoever waits already: the driver, if it ran before. *)
CreateAccess ==
  /\ At(Main, "access")
  /\ counter' = [counter EXCEPT ![s_access] = 1]
  /\ destroyed' = [destroyed EXCEPT ![s_access] = FALSE]
  /\ queue' = [queue EXCEPT ![SemQ(s_access)] = << >>]
  /\ stray' = ToSet(queue[SemQ(s_access)])
  /\ ReturnUnlocked
  /\ Goto(Main, "fields")
  /\ UNCHANGED << system_clock, num_user_tasks, tcb, disp, joins,
                  device, manager, handling, stage, crashed >>

InitFields ==
  /\ At(Main, "fields")
  /\ requests' = << >> /\ ReturnUnlocked
  /\ Goto(Main, "call")
  /\ UNCHANGED << system_clock, num_user_tasks, queue, tcb, sems, disp, joins,
                  device, num_blocks, sig_disk, first, stray, handling,
                  stage, crashed >>
-----------------------------------------------------------------------------
(* disk_block_read and disk_block_write, which differ in op_type alone.    *)
Call(t) == Program[t][at[t]]

\* Broken variant: > instead of >= at the end of the disk.
InRangeLate(t) == Call(t).block \in 0..num_blocks

InRange(t) == Call(t).block \in 0..(num_blocks - 1)

NextCall(t) ==
  place' = [place EXCEPT ![t] = "call"] /\ at' = [at EXCEPT ![t] = @ + 1]

(* A block outside the disk is refused before anything else. *)
Ask(t) ==
  /\ t \in Clients /\ At(t, "call") /\ at[t] <= Len(Program[t])
  /\ \/ InRange(t) /\ SemDown(t, s_access) /\ Goto(t, "append")
     \/ ~InRange(t) /\ NextCall(t) /\ UNCHANGED vars
  /\ UNCHANGED << device, manager, stray, handling, stage, crashed >>

\* Broken variant: the newest request goes first.
EnterFront(t) ==
  /\ At(t, "append")
  /\ requests' = << [requester |-> t, op_type |-> Call(t).op_type,
                     block |-> Call(t).block, buffer |-> Call(t).buffer] >>
                 \o requests
  /\ Goto(t, "wake")
  /\ UNCHANGED << vars, device, num_blocks, sig_disk, first, stray, handling,
                  stage, crashed >>

EnterQueue(t) ==
  /\ At(t, "append")
  /\ requests' = Append(requests,
       [requester |-> t, op_type |-> Call(t).op_type,
        block |-> Call(t).block, buffer |-> Call(t).buffer])
  /\ Goto(t, "wake")
  /\ UNCHANGED << vars, device, num_blocks, sig_disk, first, stray, handling,
                  stage, crashed >>

\* Broken variant: the driver is left to the signals of the disk.
WakeNobody(t) ==
  /\ At(t, "wake") /\ Goto(t, "up")
  /\ UNCHANGED << vars, device, manager, stray, handling, stage, crashed >>

WakeForRequest(t) ==
  /\ At(t, "wake")
  /\ Goto(t, IF state[Driver] = "SUSPENDED" THEN "ready" ELSE "up")
  /\ UNCHANGED << vars, device, manager, stray, handling, stage, crashed >>

(* A client wakes the driver, the driver the task whose request is done. *)
Woken(t) == IF t = Driver THEN first ELSE Driver

Ready(t) ==
  /\ At(t, "ready") /\ SetReady(Woken(t)) /\ Goto(t, "enqueue")
  /\ KernelSame
  /\ UNCHANGED << device, manager, stray, handling, stage, crashed >>

Enqueue(t) ==
  /\ At(t, "enqueue") /\ PutReady(Woken(t))
  /\ Goto(t, IF t = Driver THEN "clear" ELSE "up")
  /\ KernelSame
  /\ UNCHANGED << device, manager, stray, handling, stage, crashed >>

(* sem_up takes the first waiter of a counter below zero, if there is none *)
(* a NULL dereference.                                                     *)
NoWaiter == counter[s_access] < 0 /\ queue[SemQ(s_access)] = << >>

(* The end of both operations and of each round of the driver: sem_up,     *)
(* then two statements and task_yield to suspend oneself.                  *)
Up(t) ==
  /\ At(t, "up")
  /\ \/ ~NoWaiter /\ SemUp(t, s_access) /\ Goto(t, "mark") /\ UNCHANGED crashed
     \/ NoWaiter /\ crashed' = TRUE /\ UNCHANGED << vars, code >>
  /\ UNCHANGED << device, manager, stray, handling, stage >>

Mark(t) ==
  /\ At(t, "mark") /\ Goto(t, "remove")
  /\ state' = [state EXCEPT ![t] = "SUSPENDED"] /\ UNCHANGED queue
  /\ KernelSame
  /\ UNCHANGED << device, manager, stray, handling, stage, crashed >>

RemoveSelf(t) ==
  /\ At(t, "remove") /\ Goto(t, "yield")
  /\ queue' = queue_remove(queue, UserQ, t) /\ UNCHANGED state
  /\ KernelSame
  /\ UNCHANGED << device, manager, stray, handling, stage, crashed >>

Yield(t) ==
  /\ At(t, "yield") /\ TaskYield(t)
  /\ Goto(t, IF t = Driver THEN "down" ELSE "return")
  /\ UNCHANGED << device, manager, stray, handling, stage, crashed >>

Return(t) ==
  /\ At(t, "return") /\ NextCall(t)
  /\ UNCHANGED << vars, device, manager, stray, handling, stage, crashed >>
-----------------------------------------------------------------------------
(* driver_proc. *)
\* Broken variant: the driver works on the queue without the semaphore.
DriverNoDown ==
  /\ At(Driver, "down") /\ Goto(Driver, "test")
  /\ UNCHANGED << vars, device, manager, stray, handling, stage, crashed >>

DriverDown ==
  /\ At(Driver, "down") /\ SemDown(Driver, s_access) /\ Goto(Driver, "test")
  /\ UNCHANGED << device, manager, stray, handling, stage, crashed >>

(* wake_driver between the queue_remove and the queue_append with which    *)
(* this sem_down would block: the driver, in no queue, goes into           *)
(* user_tasks_queue, the second append is refused, and sem_down will       *)
(* return without a unit.                                                  *)
DownSignalled ==
  /\ At(Driver, "down") /\ counter[s_access] <= 0
  /\ disk_sighandle /\ sig_disk' = TRUE
  /\ counter' = [counter EXCEPT ![s_access] = @ - 1]
  /\ state' = [state EXCEPT ![Driver] = "READY"]
  /\ queue' = Move(queue, UserQ, UserQ, Driver)
  /\ SwitchToDispatcher
  /\ Goto(Driver, "test")
  /\ UNCHANGED << system_clock, num_user_tasks, static_prio, dynam_prio,
                  wake_time, exit_code, destroyed, disp, joins, num_blocks,
                  requests, first, stray, handling, stage, crashed >>

(* The operation at the head of the queue is done, and its request goes.   *)
(* With an empty queue first->requester is a NULL dereference.             *)
Finish ==
  IF requests = << >>
  THEN crashed' = TRUE /\ UNCHANGED << requests, first, code >>
  ELSE /\ requests' = Tail(requests) /\ first' = Head(requests).requester
       /\ Goto(Driver, "ready") /\ UNCHANGED crashed

DriverTest ==
  /\ At(Driver, "test")
  /\ \/ sig_disk /\ Finish
     \/ ~sig_disk /\ Goto(Driver, "command") /\ UNCHANGED << requests, first, crashed >>
  /\ UNCHANGED << vars, device, num_blocks, sig_disk, stray, handling, stage >>

\* Broken variant: sig_disk is not cleared.
KeepSignal ==
  /\ At(Driver, "clear") /\ first' = NULL /\ Goto(Driver, "command")
  /\ UNCHANGED << vars, device, num_blocks, requests, sig_disk, stray, handling,
                  stage, crashed >>

ClearSignal ==
  /\ At(Driver, "clear") /\ first' = NULL /\ sig_disk' = FALSE
  /\ Goto(Driver, "command")
  /\ UNCHANGED << vars, device, num_blocks, requests, stray, handling, stage,
                  crashed >>

DriverCommand ==
  /\ At(Driver, "command")
  /\ IF status = "IDLE" /\ requests # << >>
     THEN disk_cmd(Head(requests).op_type, Head(requests).block,
                   Head(requests).buffer)
     ELSE UNCHANGED device
  /\ Goto(Driver, "up")
  /\ UNCHANGED << vars, manager, stray, handling, stage, crashed >>
-----------------------------------------------------------------------------
(* SIGIO, in whatever context runs: the disk has finished. *)
DiskDone ==
  /\ dpc # "halted" /\ current \notin handling
  /\ disk_sighandle
  /\ handling' = handling \cup {current}
  /\ UNCHANGED << vars, manager, code, stray, stage, crashed >>

InHandler(s) == current \in handling /\ stage[current] = s

(* SIGUSR1, raised at the end of its handler, is handled by wake_driver,   *)
(* which the timer preempts like any code of a task.                       *)
SetSignal ==
  /\ InHandler("raise") /\ sig_disk' = TRUE
  /\ stage' = [stage EXCEPT ![current] = "ready"]
  /\ UNCHANGED << vars, device, num_blocks, requests, first, code, stray,
                  handling, crashed >>

ReadyDriver ==
  /\ InHandler("ready") /\ SetReady(Driver)
  /\ stage' = [stage EXCEPT ![current] = "append"]
  /\ KernelSame
  /\ UNCHANGED << device, manager, code, stray, handling, crashed >>

AppendDriver ==
  /\ InHandler("append") /\ PutReady(Driver)
  /\ stage' = [stage EXCEPT ![current] = "raise"]
  /\ handling' = handling \ {current}
  /\ KernelSame
  /\ UNCHANGED << device, manager, code, stray, crashed >>

wake_driver == SetSignal \/ ReadyDriver \/ AppendDriver
-----------------------------------------------------------------------------
(* main: create the clients, join them, exit; a client: its operations,    *)
(* then task_exit.                                                         *)
MainProgram ==
  /\ At(Main, "call")
  /\ \/ \E i \in DOMAIN mover :
          /\ at[Main] = i /\ TaskCreate(Main, mover[i]) /\ NextCall(Main)
     \/ \E i \in DOMAIN mover :
          /\ at[Main] = Len(mover) + i /\ NextCall(Main)
          /\ TaskJoin(Main, mover[i]) \/ TaskJoinEnded(Main, mover[i])
     \/ /\ at[Main] = 2 * Len(mover) + 1
        /\ TaskExit(Main, 0) /\ UNCHANGED code

ClientExit(t) ==
  /\ t \in Clients /\ At(t, "call") /\ at[t] = Len(Program[t]) + 1
  /\ TaskExit(t, 0) /\ UNCHANGED code

Programs ==
  /\ \/ MainProgram
     \/ Main \notin handling /\ TaskJoinReturn(Main) /\ UNCHANGED code
     \/ \E t \in Clients : ClientExit(t)
  /\ UNCHANGED << device, manager, stray, handling, stage, crashed >>

(* The dispatcher is never preempted, but the disk interrupts it too. *)
Dispatch == Dispatcher \notin handling /\ DispatcherStep

KernelStep ==
  /\ TickUser \/ Dispatch \/ Terminated
  /\ UNCHANGED << device, manager, code, stray, handling, stage, crashed >>

ManagerInit == InitDisk \/ UncountDriver \/ CreateAccess \/ InitFields

TaskStep(t) ==
  \/ Ask(t) \/ EnterQueue(t) \/ WakeForRequest(t) \/ Ready(t) \/ Enqueue(t)
  \/ Up(t) \/ Mark(t) \/ RemoveSelf(t) \/ Yield(t) \/ Return(t)

DriverStep ==
  DriverDown \/ DownSignalled \/ DriverTest \/ ClearSignal \/ DriverCommand

DMStep ==
  \/ ManagerInit \/ Programs \/ DriverStep
  \/ \E t \in Clients \cup {Driver} : TaskStep(t)
  \/ DiskDone \/ wake_driver
  \/ KernelStep
-----------------------------------------------------------------------------
(* The races, each named for where it strikes. *)
AllRaces == {"init", "down", "test", "park", "requester", "handler"}

Completion == armed /\ ~armed'
Preempted(t) == current = t /\ current' = Dispatcher /\ UNCHANGED place

(* The timer preempts main after the task_create of disk_mgr_init. *)
InitRace == Preempted(Main) /\ place[Main] \in {"count", "access", "fields"}

(* The disk interrupts the driver in a sem_down that blocks. *)
DownRace == Completion /\ place[Driver] = "down" /\ place'[Driver] = "test"

(* The disk finishes between the driver's test of sig_disk and its next    *)
(* command.                                                                *)
TestRace ==
  Completion /\ place[Driver] \in {"ready", "enqueue", "clear", "command"}

(* The disk finishes after the driver's command and before the driver has  *)
(* left user_tasks_queue, or the timer preempts it as it leaves.           *)
ParkRace ==
  \/ Completion /\ place[Driver] \in {"up", "mark", "remove"}
  \/ Preempted(Driver) /\ place[Driver] \in {"mark", "remove"}

(* The driver puts a task into user_tasks_queue that has not left it yet. *)
RequesterRace ==
  /\ place[Driver] = "enqueue" /\ place'[Driver] = "clear"
  /\ place[first] \notin {"yield", "return"}

(* The timer preempts a task inside disk_sighandle or wake_driver. *)
HandlerRace == current \in handling /\ current' # current

Raced ==
  {r \in AllRaces :
     \/ r = "init" /\ InitRace
     \/ r = "down" /\ DownRace
     \/ r = "test" /\ TestRace
     \/ r = "park" /\ ParkRace
     \/ r = "requester" /\ RequesterRace
     \/ r = "handler" /\ HandlerRace}

Over == crashed \/ torn

Recorded(A) == ~Over /\ A /\ UNCHANGED torn /\ races' = races \cup Raced

(* An operation on user_tasks_queue is interrupted in its middle: a signal *)
(* of the disk falls into one of the kernel, of the dispatcher or of the   *)
(* code above, or the timer preempts a task inside one of the code above,  *)
(* where the kernel is not locked.  The model ends here.                   *)
TearRing ==
  /\ ~Over
  /\ \/ armed /\ current \notin handling
     \/ /\ current \in Tasks /\ lock_kernel = 0 /\ counter_ticks = 1
        /\ IF current \in handling THEN stage[current] = "append"
           ELSE place[current] \in {"enqueue", "remove"}
  /\ torn' = TRUE
  /\ UNCHANGED << vars, device, manager, code, stray, handling, stage, crashed,
                  races >>

DMNext == Recorded(DMStep) \/ TearRing \/ (Over /\ UNCHANGED dmVars)

DMSpec == DMInit /\ [][DMNext]_dmVars

(* The dispatcher, the disk and its handler go on; a task, which never     *)
(* computes for ever here, gets on with its code when it is given the      *)
(* processor again and again.                                              *)
DMFairSpec ==
  /\ DMSpec
  /\ WF_dmVars(Recorded(wake_driver))
  /\ WF_dmVars(Recorded(KernelStep /\ Dispatch))
  /\ WF_dmVars(Recorded(DiskDone))
  /\ SF_dmVars(Recorded(ManagerInit \/ Programs))
  /\ \A t \in Clients \cup {Driver} :
       SF_dmVars(Recorded(TaskStep(t) \/ (t = Driver /\ DriverStep)))
-----------------------------------------------------------------------------
Places ==
  {"boot", "count", "access", "fields", "call", "append", "wake", "ready",
   "enqueue", "up", "mark", "remove", "yield", "return", "down", "test",
   "clear", "command"}

ManagerTypes ==
  /\ status \in Status
  /\ armed \in BOOLEAN /\ buffer \in Buffers
  /\ next_block \in Blocks \cup {0} /\ (armed => next_block \in Blocks)
  /\ contents \in [Blocks -> Blocks \cup {NoData}]
  /\ memory \in [Buffers -> Blocks \cup {NoData}]
  /\ num_blocks \in {0, NumBlocks}
  /\ requests \in Seq([requester : Clients, op_type : {"READ", "WRITE"},
                       block : Blocks, buffer : Buffers])
  /\ sig_disk \in BOOLEAN /\ first \in Clients \cup {NULL}
  /\ place \in [Tasks -> Places]
  /\ at \in [Tasks -> Nat \ {0}]
  /\ stray \subseteq Tasks /\ handling \subseteq Contexts
  /\ stage \in [Contexts -> {"raise", "ready", "append"}]
  /\ crashed \in BOOLEAN

(* Type invariant of the disk manager, its history included. *)
DMTypeOK == ManagerTypes /\ torn \in BOOLEAN /\ races \subseteq AllRaces

(* Between a sem_down(&s_access) that got the unit and the next sem_up. *)
Holds(t) ==
  /\ place[t] \in {"append", "wake", "ready", "enqueue", "up", "test", "clear",
                   "command"}
  /\ t \notin ToSet(queue[SemQ(s_access)]) \cup stray

(* disk.queue is only ever touched by one task at a time, the driver       *)
(* included, wherever they are preempted and whatever signals interrupt    *)
(* them, unless one has interrupted the driver in a sem_down that blocks.  *)
AccessExclusive ==
  "down" \notin races =>
    \A t, u \in Tasks : Holds(t) /\ Holds(u) => t = u

(* The driver has taken the finished request off the queue, and has not    *)
(* cleared sig_disk yet.                                                   *)
Taken == place[Driver] \in {"ready", "enqueue", "clear"}

(* The request at the head is carried out already, its task not yet woken. *)
HeadDone == (sig_disk /\ ~Taken) \/ handling # {}

(* The races after which an operation may be carried out twice. *)
Intact == races \cap {"down", "test", "handler"} = {}

(* The disk works on the request at the head of the queue and on no other, *)
(* and a signal that is still to be handled is about that request: the     *)
(* driver never frees a request in progress, never starts one twice and    *)
(* never dereferences an empty queue.  Whatever else the timer and the     *)
(* disk interrupt, disk_mgr_init and the tasks' suspensions included.      *)
DeviceServesHead ==
  Intact =>
    /\ ~crashed
    /\ status \in {"READ", "WRITE"} =>
         /\ requests # << >> /\ ~sig_disk /\ handling = {}
         /\ Head(requests).op_type = status
         /\ Head(requests).block = next_block
         /\ Head(requests).buffer = buffer
    /\ HeadDone => requests # << >> /\ ~armed

(* The driver will test sig_disk, and then look at the queue. *)
DriverComes ==
  \/ place[Driver] \in {"yield", "down"} /\ Driver \in ToSet(queue[UserQ])
  \/ place[Driver] = "test"

(* A client between its place in disk.queue and the driver's wake-up. *)
WakingDriver == \E t \in Clients : place[t] \in {"wake", "ready", "enqueue"}

(* Nobody is left suspended for ever: a client that has left               *)
(* user_tasks_queue has a request in disk.queue or is just being put back, *)
(* and while there is a request the disk works on it, its signal is on the *)
(* way, or the driver will come; if the signal has been, the driver will   *)
(* come for that.  So every lost wake-up is one of the races.              *)
SomebodyWakes ==
  races = {} =>
    /\ \A t \in Clients :
         place[t] \in {"yield", "return"} /\ t \notin ToSet(queue[UserQ]) =>
           \/ \E i \in DOMAIN requests : requests[i].requester = t
           \/ first = t /\ place[Driver] \in {"ready", "enqueue"}
    /\ requests # << >> =>
         \/ armed \/ handling # {} \/ DriverComes \/ WakingDriver
         \/ Taken \/ place[Driver] = "command"
    /\ sig_disk => DriverComes \/ Taken \/ handling # {}

(* num_user_tasks leaves the driver out, also when disk_mgr_init is        *)
(* preempted before it says so: the process ends when every user task has  *)
(* ended, and no request is cut off by that, whatever has raced.           *)
DriverUncounted ==
  /\ place[Main] \notin {"boot", "count"} =>
       num_user_tasks = Cardinality({t \in Tasks \ {Driver} :
                                       state[t] # "TERM" \/ Ending(t)})
  /\ dpc = "halted" => requests = << >>

Line == IF HeadDone THEN Tail(requests) ELSE requests

Store == INSTANCE BlockStore WITH
  store  <- contents,
  line   <- Line,
  served <- {t \in Clients :
               /\ place[t] \in {"wake", "ready", "enqueue", "up", "mark",
                                "remove", "yield", "return"}
               /\ \A i \in DOMAIN Line : Line[i].requester # t}

(* The driver, the signals and the disk together are a store of blocks:    *)
(* each operation is carried out once, in the order of the queue, and      *)
(* before it returns, up to the first race that carries one out twice.     *)
ImplementsBlockStore ==
  Store!Init /\ [][Intact' => Store!Next]_(Store!vars)

(* disk.h:30-32: when an operation is done, the signal of the disk wakes   *)
(* the task that asked for it.  So every operation returns.                *)
EveryRequestReturns ==
  []~torn => \A t \in Clients : place[t] = "wake" ~> place[t] = "call"
=============================================================================
