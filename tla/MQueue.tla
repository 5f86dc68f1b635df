------------------------------- MODULE MQueue -------------------------------
(***************************************************************************)
(* The message queues of ppos_ipc.c on top of the kernel: every operation  *)
(* is a sequence of semaphore calls with user code in between, which the   *)
(* timer can interrupt anywhere.  All that touches tasks or semaphores is  *)
(* an action of Kernel; this module adds one mqueue_t and the place of     *)
(* each task inside the operations.                                        *)
(*                                                                         *)
(* mqueue_send and mqueue_recv are one sequence of steps with the roles of *)
(* s_produce and s_consume exchanged:                                      *)
(*   1 sem_down of the first semaphore    2 its result                     *)
(*   3 sem_down(s_buffer)                 4 its result                     *)
(*   5 memcpy                             6 index and num_msgs             *)
(*   7 sem_up(s_buffer)                   8 its result                     *)
(*   9 sem_up of the other semaphore                                       *)
(***************************************************************************)
EXTENDS Kernel

CONSTANTS
  s_buffer, s_produce, s_consume,
  MaxMsgs,   \* max_msgs
  Msgs,
  NoMsg,     \* memory never written
  Operations \* the calls each task makes: "send", "recv", "destroy"

ASSUME MQueueAssumption ==
  /\ {s_buffer, s_produce, s_consume} \subseteq Sems
  /\ s_buffer # s_produce /\ s_buffer # s_consume /\ s_produce # s_consume
  /\ MaxMsgs \in Nat \ {0} /\ NoMsg \notin Msgs
  /\ {0, 1, MaxMsgs} \subseteq SemValues   \* mqueue_create's semaphores
  /\ Operations \in [Tasks -> SUBSET {"send", "recv", "destroy"}]

VARIABLES
  life,      \* queue->buffer: NULL before creation, allocated, NULL again
  buffer,    \* what the allocated memory holds
  buffer_head, buffer_index, num_msgs,
  op, step,  \* the operation a task is in, and where
  item,      \* the task's *msg
  fault      \* a memcpy through a NULL buffer has ended the process

ring   == << buffer, buffer_head, buffer_index >>
mqueue == << life, ring, num_msgs >>
inside == << op, step >>
mqVars == << vars, mqueue, inside, item, fault >>

MQInit ==
  /\ Init
  /\ life = "none" /\ buffer = [i \in 0..(MaxMsgs - 1) |-> NoMsg]
  /\ buffer_head = 0 /\ buffer_index = 0 /\ num_msgs = 0
  /\ op = [t \in Tasks |-> "none"] /\ step = [t \in Tasks |-> 0]
  /\ item = [t \in Tasks |-> NoMsg]
  /\ fault = FALSE

Outside(t) == Running(t) /\ op[t] = "none"

Transfers == {"send", "recv"}

At(t, n) == Running(t) /\ op[t] \in Transfers /\ step[t] = n

Enter(t, o, n) ==
  op' = [op EXCEPT ![t] = o] /\ step' = [step EXCEPT ![t] = n]

Goto(t, n) == step' = [step EXCEPT ![t] = n] /\ UNCHANGED op

(* Back in user code, where nothing depends on *msg. *)
Leave(t) == Enter(t, "none", 0) /\ item' = [item EXCEPT ![t] = NoMsg]

Step(t, n) == Goto(t, n) /\ UNCHANGED item
-----------------------------------------------------------------------------
(* mqueue_create.  Its first sem_create unlocks the kernel; the programs   *)
(* create their queues before their tasks, so nobody is there to notice.   *)
CreateFirst(t) ==
  /\ Outside(t) /\ life = "none"
  /\ SemCreate(t, s_buffer, 1)
  /\ life' = "live" /\ UNCHANGED << ring, num_msgs >>
  /\ Enter(t, "create", 1)
  /\ UNCHANGED << item, fault >>

CreateNext(t) ==
  /\ Running(t) /\ op[t] = "create"
  /\ \/ step[t] = 1 /\ SemCreate(t, s_produce, MaxMsgs) /\ Step(t, 2)
     \/ step[t] = 2 /\ SemCreate(t, s_consume, 0) /\ Leave(t)
  /\ UNCHANGED << mqueue, fault >>

(* The test of queue->buffer at the top of mqueue_send and mqueue_recv;    *)
(* with a NULL buffer they return at once.                                 *)
Call(t, o) ==
  /\ o \in Operations[t] \cap Transfers
  /\ Outside(t) /\ life = "live"
  /\ Enter(t, o, 1)
  /\ \E m \in Msgs :
       item' = [item EXCEPT ![t] = IF o = "send" THEN m ELSE NoMsg]
  /\ UNCHANGED << vars, mqueue, fault >>

\* Broken variant: the buffer is taken before there is room or a message.
FirstSemSwapped(t, n) ==
  IF n \in {3, 4} THEN IF op[t] = "send" THEN s_produce ELSE s_consume
  ELSE s_buffer

(* The semaphore of steps 1 to 4. *)
DownSem(t, n) ==
  IF n \in {3, 4} THEN s_buffer
  ELSE IF op[t] = "send" THEN s_produce ELSE s_consume

Down(t) ==
  /\ \E n \in {1, 3} :
       /\ At(t, n)
       /\ \/ SemDown(t, DownSem(t, n)) /\ Step(t, n + 1)
          \/ SemGone(t, DownSem(t, n)) /\ Leave(t)
  /\ UNCHANGED << mqueue, fault >>

(* sem_down returns -destroyed, read after the task has waited. *)
DownReturn(t) ==
  /\ \E n \in {2, 4} :
       /\ At(t, n)
       /\ IF destroyed[DownSem(t, n)] THEN Leave(t) ELSE Step(t, n + 1)
  /\ UNCHANGED << vars, mqueue, fault >>

\* Broken variant: the message is written where the next one is read.
CopyInHead(t) ==
  /\ buffer' = [buffer EXCEPT ![buffer_head] = item[t]] /\ UNCHANGED item

CopyIn(t) ==
  /\ buffer' = [buffer EXCEPT ![buffer_index] = item[t]] /\ UNCHANGED item

CopyOut(t) ==
  /\ item' = [item EXCEPT ![t] = buffer[buffer_head]] /\ UNCHANGED buffer

(* The memcpy.  Nothing has looked at queue->buffer since Call. *)
Copy(t) ==
  /\ At(t, 5)
  /\ \/ /\ life = "live" /\ Goto(t, 6) /\ UNCHANGED fault
        /\ \/ op[t] = "send" /\ CopyIn(t)
           \/ op[t] = "recv" /\ CopyOut(t)
     \/ /\ life = "freed" /\ fault' = TRUE
        /\ UNCHANGED << inside, item, buffer >>
  /\ UNCHANGED << vars, life, buffer_head, buffer_index, num_msgs >>

\* Broken variant: the index does not wrap where the buffer ends.
SuccessorLate(i) == (i + 1) % (MaxMsgs + 1)

Successor(i) == (i + 1) % MaxMsgs

Advance(t) ==
  /\ At(t, 6) /\ Goto(t, 7)
  /\ \/ /\ op[t] = "send"
        /\ buffer_index' = Successor(buffer_index) /\ num_msgs' = num_msgs + 1
        /\ UNCHANGED buffer_head
     \/ /\ op[t] = "recv"
        /\ buffer_head' = Successor(buffer_head) /\ num_msgs' = num_msgs - 1
        /\ UNCHANGED buffer_index
  /\ UNCHANGED << vars, life, buffer, item, fault >>

UpBuffer(t) ==
  /\ At(t, 7)
  /\ \/ SemUp(t, s_buffer) /\ Step(t, 8)
     \/ SemGone(t, s_buffer) /\ Leave(t)
  /\ UNCHANGED << mqueue, fault >>

UpReturn(t) ==
  /\ At(t, 8)
  /\ IF destroyed[s_buffer] THEN Leave(t) ELSE Step(t, 9)
  /\ UNCHANGED << vars, mqueue, fault >>

\* Broken variant: the semaphore taken first is given back.
OtherSemSame(t) == IF op[t] = "send" THEN s_produce ELSE s_consume

OtherSem(t) == IF op[t] = "send" THEN s_consume ELSE s_produce

UpOther(t) ==
  /\ At(t, 9)
  /\ SemUp(t, OtherSem(t)) \/ SemGone(t, OtherSem(t))
  /\ Leave(t)
  /\ UNCHANGED << mqueue, fault >>
-----------------------------------------------------------------------------
(* mqueue_destroy: the buffer is freed under lock_kernel, and the first    *)
(* sem_destroy already clears it.  The buffer semaphore is not taken.      *)
DestroyFirst(t) ==
  /\ "destroy" \in Operations[t] /\ Outside(t) /\ life = "live"
  /\ life' = "freed" /\ num_msgs' = 0 /\ UNCHANGED ring
  /\ SemDestroy(t, s_buffer)
  /\ Enter(t, "destroy", 1)
  /\ UNCHANGED << item, fault >>

\* Broken variant: the tasks waiting for a message are forgotten.
DestroyNextNoConsume(t) ==
  /\ Running(t) /\ op[t] = "destroy"
  /\ SemDestroy(t, s_produce) /\ Leave(t)
  /\ UNCHANGED << mqueue, fault >>

DestroyNext(t) ==
  /\ Running(t) /\ op[t] = "destroy"
  /\ \/ step[t] = 1 /\ SemDestroy(t, s_produce) /\ Step(t, 2)
     \/ step[t] = 2 /\ SemDestroy(t, s_consume) /\ Leave(t)
  /\ UNCHANGED << mqueue, fault >>

(* A second mqueue_destroy returns -1 with the kernel locked. *)
DestroyGone(t) ==
  /\ "destroy" \in Operations[t] /\ Outside(t) /\ life = "freed"
  /\ NullArgument(t)
  /\ UNCHANGED << mqueue, inside, item, fault >>
-----------------------------------------------------------------------------
Transfer(t) ==
  \/ Down(t) \/ DownReturn(t) \/ Copy(t) \/ Advance(t)
  \/ UpBuffer(t) \/ UpReturn(t) \/ UpOther(t)

Operation(t) == CreateNext(t) \/ Transfer(t) \/ DestroyNext(t)

(* The rest of the kernel.  Outside the operations a task makes the other  *)
(* calls of Kernel, once the queue exists.                                 *)
KernelStep ==
  /\ \/ \E t \in Tasks :
          /\ Outside(t) /\ life # "none"
          /\ \/ \E u \in Tasks : TaskCreate(t, u)
             \/ \E code \in ExitCodes : TaskExit(t, code)
             \/ TaskYield(t)
     \/ TickUser \/ TickKernel \/ DispatcherStep \/ Terminated
  /\ UNCHANGED << mqueue, inside, item, fault >>

MQNext ==
  \/ /\ ~fault
     /\ \/ KernelStep
        \/ \E t \in Tasks :
             \/ CreateFirst(t) \/ Operation(t)
             \/ \E o \in Transfers : Call(t, o)
             \/ DestroyFirst(t) \/ DestroyGone(t)
  \/ fault /\ UNCHANGED mqVars

MQSpec == MQInit /\ [][MQNext]_mqVars

(* Besides the fairness of Kernel: a task that is given the processor      *)
(* again and again executes some instruction of the operation it is in.    *)
MQFairSpec ==
  /\ MQSpec
  /\ WF_mqVars(~fault /\ DispatcherStep /\ UNCHANGED << mqueue, inside, item, fault >>)
  /\ WF_mqVars(~fault /\ TickUser /\ UNCHANGED << mqueue, inside, item, fault >>)
  /\ \A t \in Tasks : SF_mqVars(~fault /\ Operation(t))
-----------------------------------------------------------------------------
(* Type invariant of the message queue. *)
MQTypeOK ==
  /\ life \in {"none", "live", "freed"}
  /\ buffer \in [0..(MaxMsgs - 1) -> Msgs \cup {NoMsg}]
  /\ buffer_head \in 0..(MaxMsgs - 1) /\ buffer_index \in 0..(MaxMsgs - 1)
  /\ num_msgs \in Int /\ (life = "live" => num_msgs \in 0..MaxMsgs)
  /\ op \in [Tasks -> Transfers \cup {"none", "create", "destroy"}]
  /\ step \in [Tasks -> 0..9]
  /\ item \in [Tasks -> Msgs \cup {NoMsg}]
  /\ fault \in BOOLEAN

Blocked(t, s) == t \in ToSet(queue[SemQ(s)])

(* The tasks of an operation that have got past its first sem_down, up to  *)
(* and including step n.                                                   *)
Granted(o, n) ==
  {t \in Tasks : op[t] = o /\ step[t] \in 2..n
                 /\ ~Blocked(t, s_produce) /\ ~Blocked(t, s_consume)}

Past(o, n) == {t \in Tasks : op[t] = o /\ step[t] > n}

Permits(s) == IF counter[s] > 0 THEN counter[s] ELSE 0

Ready == life = "live" /\ \A t \in Tasks : op[t] # "create"

(* The room and the messages of the queue are divided among the two        *)
(* semaphores, the tasks in transit and num_msgs; none is ever lost or     *)
(* invented, wherever the tasks are preempted.                             *)
UnitsConserved ==
  Ready =>
    /\ num_msgs = Permits(s_consume) + Cardinality(Granted("recv", 6))
                  + Cardinality(Past("send", 6))
    /\ MaxMsgs - num_msgs = Permits(s_produce) + Cardinality(Granted("send", 6))
                            + Cardinality(Past("recv", 6))

(* When every task left is blocked inside the queue, it is for a reason:   *)
(* all want to send into a full queue or all to receive from an empty one; *)
(* they never wait for each other.                                         *)
NoStandstill ==
  Ready /\ (\A t \in Tasks : state[t] # "READY") =>
    \/ \A t \in Tasks : state[t] = "SUSPENDED" => op[t] = "send" /\ num_msgs = MaxMsgs
    \/ \A t \in Tasks : state[t] = "SUSPENDED" => op[t] = "recv" /\ num_msgs = 0

(* The queue is a channel: the messages between buffer_head and            *)
(* buffer_index, in the order of sending.                                  *)
Chan == INSTANCE Channel WITH
  Capacity <- MaxMsgs,
  chan <- IF life = "live"
          THEN [i \in 1..num_msgs |-> buffer[(buffer_head + i - 1) % MaxMsgs]]
          ELSE << >>,
  open <- life = "live"

(* Messages are received in the order they were sent, each by one task.    *)
ImplementsChannel == Chan!Spec

(* User code that a call left with the kernel locked (see Kernel's         *)
(* UserCodeIsPreemptible) and that the timer does not interrupt.           *)
Hogged == \E t \in Tasks : Outside(t) /\ lock_kernel = 1

(* mqueue_destroy releases the blocked tasks: those inside the queue,      *)
(* wherever they are, all leave it, unless the process ends at a memcpy    *)
(* or some task keeps the processor with the kernel locked.                *)
DestroyReleases ==
  <>[]~Hogged =>
    (life = "freed" ~> fault \/ \A t \in Tasks : op[t] = "none")

(* ppos_ipc.c:119 and 140: the results of the semaphores are tested so     *)
(* that no task goes on with a queue that has been destroyed.              *)
NoUseAfterDestroy == ~fault
=============================================================================
