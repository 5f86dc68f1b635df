---------------------------- MODULE MQueueProofs ----------------------------
(***************************************************************************)
(* The message queues for any number of tasks, any capacity and any        *)
(* messages: every step of MQueue is a step of Kernel, so that what is     *)
(* proved of the kernel holds under the queues too, from that invariant    *)
(* the accounting of messages and room, and from both that a queue is a    *)
(* bounded FIFO channel.                                                   *)
(***************************************************************************)
EXTENDS MQueue, KernelProofs

MQSems == {s_buffer, s_produce, s_consume}

(* Only main_task is there while the queue is created. *)
Creating == life = "none" \/ \E t \in Tasks : op[t] = "create"

Alone == Creating => \A t \in Tasks \ {Main} : state[t] = "TERM" /\ op[t] = "none"

LifeCycle ==
  \A t \in Tasks :
    /\ op[t] # "none" => life # "none" /\ state[t] # "TERM"
    /\ op[t] = "create" => life = "live" /\ step[t] \in 1..2
    /\ op[t] = "destroy" => life = "freed"
    /\ op[t] \in Transfers => step[t] \in 1..9

(* What mqueue_create has done so far. *)
Fresh ==
  /\ Creating => num_msgs = 0
  /\ op[Main] = "create" => counter[s_buffer] = 1 /\ ~destroyed[s_buffer]
  /\ op[Main] = "create" /\ step[Main] = 2 =>
       counter[s_produce] = MaxMsgs /\ ~destroyed[s_produce]

Alive == Ready => \A s \in MQSems : ~destroyed[s]

(* Where a task can be blocked. *)
InPlace ==
  Ready => \A t \in Tasks :
    /\ Blocked(t, s_produce) => op[t] = "send" /\ step[t] = 2
    /\ Blocked(t, s_consume) => op[t] = "recv" /\ step[t] = 2
    /\ Blocked(t, s_buffer) => op[t] \in Transfers /\ step[t] = 4

OnlyThree ==
  \A q \in Queues \ ({UserQ} \cup {SemQ(s) : s \in MQSems}) : queue[q] = << >>

(* The tasks between sem_down(s_buffer) and its sem_up. *)
Holders ==
  {t \in Tasks : op[t] \in Transfers /\ step[t] \in 4..7 /\ ~Blocked(t, s_buffer)}

BufferUnit == Ready => Permits(s_buffer) + Cardinality(Holders) = 1

(* MQTypeOK, but for the bounds of num_msgs. *)
MQTypes ==
  /\ life \in {"none", "live", "freed"}
  /\ buffer \in [0..(MaxMsgs - 1) -> Msgs \cup {NoMsg}]
  /\ buffer_head \in 0..(MaxMsgs - 1) /\ buffer_index \in 0..(MaxMsgs - 1)
  /\ num_msgs \in Int
  /\ op \in [Tasks -> Transfers \cup {"none", "create", "destroy"}]
  /\ step \in [Tasks -> 0..9]
  /\ item \in [Tasks -> Msgs \cup {NoMsg}]
  /\ fault \in BOOLEAN

MQInv ==
  /\ IInv
  /\ MQTypes
  /\ Alone /\ LifeCycle /\ Fresh
  /\ Alive /\ InPlace /\ OnlyThree
  /\ BufferUnit
  /\ UnitsConserved
-----------------------------------------------------------------------------
LEMMA MQNames ==
  /\ MQSems \subseteq Sems
  /\ s_buffer \in MQSems /\ s_produce \in MQSems /\ s_consume \in MQSems
  /\ s_buffer # s_produce /\ s_buffer # s_consume /\ s_produce # s_consume
  /\ MaxMsgs \in Nat \ {0}
  /\ 0 \in SemValues /\ 1 \in SemValues /\ MaxMsgs \in SemValues
  /\ IsFiniteSet(Tasks)
BY MQueueAssumption, KernelAssumption DEF MQSems

(* Every step of a message queue is a step of the kernel or leaves it      *)
(* alone.                                                                  *)
LEMMA KernelSteps == [MQNext]_mqVars => [Next]_vars
<1> SUFFICES ASSUME [MQNext]_mqVars PROVE [Next]_vars
  OBVIOUS
<1>1. CASE KernelStep
  BY <1>1 DEF KernelStep, Next, User, OtherCall
<1>2. ASSUME NEW t \in Tasks,
             CreateFirst(t) \/ CreateNext(t) \/ DestroyFirst(t) \/ DestroyNext(t)
      PROVE  Next
  BY <1>2, MQNames DEF CreateFirst, CreateNext, DestroyFirst, DestroyNext,
                       MQSems, Next, User, OtherCall
<1>3. ASSUME NEW t \in Tasks, Transfer(t) \/ DestroyGone(t)
      PROVE  Next \/ UNCHANGED vars
  <2>1. DownSem(t, 1) \in Sems /\ DownSem(t, 3) \in Sems /\ OtherSem(t) \in Sems
    BY MQNames DEF DownSem, OtherSem, MQSems
  <2>2. CASE Down(t)
    BY <2>1, <2>2 DEF Down, Next, User, OtherCall
  <2>3. CASE UpBuffer(t) \/ UpOther(t)
    BY <2>1, <2>3, MQNames DEF UpBuffer, UpOther, Next, User, OtherCall, MQSems
  <2>4. CASE DestroyGone(t)
    BY <2>4 DEF DestroyGone, Next, User, OtherCall
  <2> QED
    BY <1>3, <2>2, <2>3, <2>4 DEF Transfer, DownReturn, Copy, Advance, UpReturn
<1>4. ASSUME NEW t \in Tasks, NEW o \in Transfers, Call(t, o)
      PROVE  UNCHANGED vars
  BY <1>4 DEF Call
<1> QED BY <1>1, <1>2, <1>3, <1>4 DEF MQNext, mqVars, Operation

(* A program that uses message queues is a behaviour of the kernel: all    *)
(* that is proved of Kernel holds under them.                              *)
THEOREM QueuesRunOnKernel == MQSpec => Spec
<1>1. MQInit => Init
  BY DEF MQInit
<1> QED BY <1>1, KernelSteps, PTL DEF MQSpec, Spec
-----------------------------------------------------------------------------
(* The tasks that hold a message, and those that hold room for one.  The   *)
(* first semaphore of an operation hands the unit over, the last one takes *)
(* it; in between it is the task's, blocked at s_buffer or not.            *)
HeldMsgs == Granted("recv", 6) \cup Past("send", 6)
HeldRoom == Granted("send", 6) \cup Past("recv", 6)

(* A finite set that changes at one element only. *)
LEMMA OneElement ==
  ASSUME NEW S, NEW R, NEW p, IsFiniteSet(S), IsFiniteSet(R), R \ {p} = S \ {p}
  PROVE  /\ (p \in R <=> p \in S) => Cardinality(R) = Cardinality(S)
         /\ p \in R /\ p \notin S => Cardinality(R) = Cardinality(S) + 1
         /\ p \notin R /\ p \in S => Cardinality(R) = Cardinality(S) - 1
<1>1. CASE p \in R <=> p \in S
  <2>1. R = S
    BY <1>1
  <2> QED BY <1>1, <2>1
<1>2. CASE p \in R /\ p \notin S
  <2>1. R = S \cup {p}
    BY <1>2
  <2> QED BY <1>2, <2>1, FS_AddElement
<1>3. CASE p \notin R /\ p \in S
  <2>1. R = S \ {p}
    BY <1>3
  <2> QED BY <1>3, <2>1, FS_RemoveElement
<1> QED BY <1>1, <1>2, <1>3

(* One element takes the place of another. *)
LEMMA Exchange ==
  ASSUME NEW S, NEW R, NEW p \in S, NEW q, q \notin S, IsFiniteSet(S),
         R = (S \ {p}) \cup {q}
  PROVE  Cardinality(R) = Cardinality(S)
<1>1. IsFiniteSet(S \ {p}) /\ Cardinality(S \ {p}) = Cardinality(S) - 1
  BY FS_RemoveElement
<1>2. Cardinality(R) = Cardinality(S \ {p}) + 1
  BY <1>1, FS_AddElement
<1>3. Cardinality(S) \in Nat
  BY FS_CardinalityType
<1> QED BY <1>1, <1>2, <1>3

LEMMA CountUnion ==
  ASSUME NEW S, NEW R, IsFiniteSet(S), IsFiniteSet(R), S \cap R = {}
  PROVE  /\ Cardinality(S \cup R) = Cardinality(S) + Cardinality(R)
         /\ Cardinality(S) \in Nat /\ Cardinality(R) \in Nat
<1>1. Cardinality(S) \in Nat /\ Cardinality(R) \in Nat
  BY FS_CardinalityType
<1>2. Cardinality(S \cup R) = Cardinality(S) + Cardinality(R) - Cardinality({})
  BY FS_Union
<1> QED BY <1>1, <1>2, FS_EmptySet

LEMMA FiniteHeld ==
  /\ IsFiniteSet(HeldMsgs) /\ IsFiniteSet(HeldRoom) /\ IsFiniteSet(Holders)
  /\ IsFiniteSet(HeldMsgs') /\ IsFiniteSet(HeldRoom') /\ IsFiniteSet(Holders')
  /\ Cardinality(HeldMsgs) \in Nat /\ Cardinality(HeldRoom) \in Nat
  /\ Cardinality(Holders) \in Nat /\ Cardinality(HeldMsgs') \in Nat
  /\ Cardinality(HeldRoom') \in Nat /\ Cardinality(Holders') \in Nat
<1>1. /\ HeldMsgs \subseteq Tasks /\ HeldRoom \subseteq Tasks /\ Holders \subseteq Tasks
      /\ HeldMsgs' \subseteq Tasks /\ HeldRoom' \subseteq Tasks
      /\ Holders' \subseteq Tasks
  BY DEF HeldMsgs, HeldRoom, Holders, Granted, Past
<1>2. \A S \in SUBSET Tasks : IsFiniteSet(S) /\ Cardinality(S) \in Nat
  BY MQNames, FS_Subset, FS_CardinalityType
<1> QED BY <1>1, <1>2

Accounts ==
  Ready =>
    /\ Permits(s_buffer) + Cardinality(Holders) = 1
    /\ num_msgs = Permits(s_consume) + Cardinality(HeldMsgs)
    /\ MaxMsgs - num_msgs = Permits(s_produce) + Cardinality(HeldRoom)

(* The accounts with the tasks of each side taken together. *)
LEMMA AccountsOf ==
  IInv => (Accounts <=> BufferUnit /\ UnitsConserved)
<1> SUFFICES ASSUME IInv PROVE Accounts <=> BufferUnit /\ UnitsConserved
  OBVIOUS
<1>1. /\ Cardinality(HeldMsgs) = Cardinality(Granted("recv", 6)) + Cardinality(Past("send", 6))
      /\ Cardinality(HeldRoom) = Cardinality(Granted("send", 6)) + Cardinality(Past("recv", 6))
      /\ \A o \in Transfers : Cardinality(Granted(o, 6)) \in Nat /\ Cardinality(Past(o, 6)) \in Nat
  <2>1. \A o : IsFiniteSet(Granted(o, 6)) /\ IsFiniteSet(Past(o, 6))
    BY MQNames, FS_Subset DEF Granted, Past
  <2>2. Granted("recv", 6) \cap Past("send", 6) = {} /\ Granted("send", 6) \cap Past("recv", 6) = {}
    BY DEF Granted, Past
  <2> QED BY <2>1, <2>2, CountUnion DEF HeldMsgs, HeldRoom, Transfers
<1>2. \A s \in MQSems : Permits(s) \in Int
  BY MQNames DEF IInv, TypeOK, Permits
<1>3. /\ Permits(s_consume) + Cardinality(HeldMsgs)
           = Permits(s_consume) + Cardinality(Granted("recv", 6)) + Cardinality(Past("send", 6))
      /\ Permits(s_produce) + Cardinality(HeldRoom)
           = Permits(s_produce) + Cardinality(Granted("send", 6)) + Cardinality(Past("recv", 6))
  <2>1. Permits(s_consume) \in Int /\ Permits(s_produce) \in Int
    BY <1>2, MQNames
  <2>2. /\ Cardinality(Granted("recv", 6)) \in Nat /\ Cardinality(Past("send", 6)) \in Nat
        /\ Cardinality(Granted("send", 6)) \in Nat /\ Cardinality(Past("recv", 6)) \in Nat
    BY <1>1 DEF Transfers
  <2> QED BY <1>1, <2>1, <2>2
<1> QED BY <1>3 DEF Accounts, BufferUnit, UnitsConserved

LEMMA AccountsOfNext ==
  IInv' => (Accounts' <=> BufferUnit' /\ UnitsConserved')
BY AccountsOf, PTL
-----------------------------------------------------------------------------
LEMMA BlockedNotRunning ==
  ASSUME IInv, NEW t \in Tasks, current = t
  PROVE  \A s \in Sems : ~Blocked(t, s)
<1>1. \A s \in Sems : SemQ(s) \in Queues \ {UserQ}
  BY QueueNames
<1> QED BY <1>1, RunningTask DEF Blocked

(* The waiters of a semaphore and its counter. *)
LEMMA WaiterCount ==
  ASSUME IInv, NEW s \in Sems, ~destroyed[s]
  PROVE  /\ counter[s] \in Int
         /\ counter[s] < 0 => \E t \in Tasks : Blocked(t, s)
         /\ counter[s] >= 0 => \A t \in Tasks : ~Blocked(t, s)
<1> DEFINE q == queue[SemQ(s)]
<1>1. q \in Seq(Tasks) /\ counter[s] \in Int
  BY QueueNames DEF IInv, TypeOK
<1>2. Len(q) = IF counter[s] < 0 THEN -counter[s] ELSE 0
  BY DEF IInv, SemaphoreCount
<1>3. CASE counter[s] < 0
  <2>1. Len(q) \in Nat \ {0} /\ q[1] \in Tasks /\ 1 \in DOMAIN q
    <3> HIDE DEF q
    <3> QED BY <1>1, <1>2, <1>3
  <2>2. q[1] \in ToSet(q)
    BY <2>1 DEF ToSet
  <2> QED BY <1>1, <1>3, <2>1, <2>2 DEF Blocked
<1>4. CASE counter[s] >= 0
  <2>1. Len(q) = 0
    BY <1>1, <1>2, <1>4
  <2>2. ToSet(q) = {}
    <3> HIDE DEF q
    <3> QED BY <1>1, <2>1 DEF ToSet
  <2> QED BY <1>1, <1>4, <2>2 DEF Blocked
<1> QED BY <1>1, <1>3, <1>4

(* sem_down blocks its caller exactly when there was no unit. *)
LEMMA DownEffect ==
  ASSUME IInv, NEW t \in Tasks, NEW s \in Sems, SemDown(t, s)
  PROVE  /\ current = t /\ ~destroyed[s] /\ UNCHANGED << destroyed, num_user_tasks >>
         /\ counter[s] \in Int /\ counter'[s] = counter[s] - 1
         /\ \A r \in Sems \ {s} : counter'[r] = counter[r]
         /\ \A r \in Sems, u \in Tasks :
              Blocked(u, r)' <=> Blocked(u, r) \/ (u = t /\ r = s /\ counter[s] <= 0)
         /\ \A u \in Tasks : state[u] = "TERM" <=> state'[u] = "TERM"
         /\ \A q \in Queues \ {UserQ, SemQ(s)} : queue'[q] = queue[q]
<1>1. /\ current = t /\ ~destroyed[s] /\ UNCHANGED << destroyed, num_user_tasks >>
      /\ counter \in [Sems -> Int] /\ counter' = [counter EXCEPT ![s] = counter[s] - 1]
      /\ SemQ(s) \in Queues \ {UserQ}
      /\ \A r \in Sems : SemQ(r) \in Queues \ {UserQ}
      /\ state[t] # "TERM"
  BY QueueNames, RunningTask DEF SemDown, Running, IInv, TypeOK
<1>2. \A q \in Queues \ {UserQ, SemQ(s)} : queue'[q] = queue[q]
  BY SemOneQueue
<1>3. counter[s] \in Int /\ counter'[s] = counter[s] - 1
      /\ \A r \in Sems \ {s} : counter'[r] = counter[r]
  BY <1>1
<1>4. \A r \in Sems \ {s}, u \in Tasks : Blocked(u, r)' <=> Blocked(u, r)
  BY <1>1, <1>2, QueueNames DEF Blocked
<1>5. CASE counter'[s] < 0 /\ Suspend(t, SemQ(s))
  <2>1. Moved(Queues, Tasks, queue, UserQ, SemQ(s), t, queue')
        /\ state' = [state EXCEPT ![t] = "SUSPENDED"]
    BY <1>1, <1>5, SuspendMoves
  <2>2. ToSet(queue'[SemQ(s)]) = ToSet(queue[SemQ(s)]) \cup {t}
    BY <2>1 DEF Moved
  <2>3. \A u \in Tasks : Blocked(u, s)' <=> Blocked(u, s) \/ u = t
    BY <2>2 DEF Blocked
  <2>4. \A u \in Tasks : state[u] = "TERM" <=> state'[u] = "TERM"
    BY <1>1, <2>1 DEF IInv, TypeOK
  <2> QED BY <1>1, <1>2, <1>3, <1>4, <1>5, <2>3, <2>4
<1>6. CASE counter'[s] >= 0 /\ UNCHANGED << queue, state >>
  <2>1. \A u \in Tasks : Blocked(u, s)' <=> Blocked(u, s)
    BY <1>6 DEF Blocked
  <2> QED BY <1>1, <1>2, <1>3, <1>4, <1>6, <2>1
<1> QED BY <1>5, <1>6 DEF SemDown

(* sem_up takes one waiter off its semaphore exactly when there is one. *)
LEMMA UpEffect ==
  ASSUME IInv, NEW t \in Tasks, NEW s \in Sems, SemUp(t, s)
  PROVE  /\ current = t /\ ~destroyed[s] /\ UNCHANGED << destroyed, num_user_tasks >>
         /\ counter[s] \in Int /\ counter'[s] = counter[s] + 1
         /\ \A r \in Sems \ {s} : counter'[r] = counter[r]
         /\ \A r \in Sems \ {s}, u \in Tasks : Blocked(u, r)' <=> Blocked(u, r)
         /\ counter[s] >= 0 => \A u \in Tasks : Blocked(u, s)' <=> Blocked(u, s)
         /\ counter[s] < 0 =>
              \E h \in Tasks : /\ Blocked(h, s) /\ ~Blocked(h, s)'
                               /\ \A u \in Tasks \ {h} : Blocked(u, s)' <=> Blocked(u, s)
         /\ \A u \in Tasks : state[u] = "TERM" <=> state'[u] = "TERM"
         /\ \A q \in Queues \ {UserQ, SemQ(s)} : queue'[q] = queue[q]
<1>1. /\ current = t /\ ~destroyed[s] /\ UNCHANGED << destroyed, num_user_tasks >>
      /\ counter \in [Sems -> Int] /\ counter' = [counter EXCEPT ![s] = counter[s] + 1]
      /\ SemQ(s) \in Queues \ {UserQ}
      /\ \A r \in Sems : SemQ(r) \in Queues \ {UserQ}
  BY QueueNames DEF SemUp, Running, IInv, TypeOK
<1>2. \A q \in Queues \ {UserQ, SemQ(s)} : queue'[q] = queue[q]
  BY SemOneQueue
<1>3. counter[s] \in Int /\ counter'[s] = counter[s] + 1
      /\ \A r \in Sems \ {s} : counter'[r] = counter[r]
  BY <1>1
<1>4. \A r \in Sems \ {s}, u \in Tasks : Blocked(u, r)' <=> Blocked(u, r)
  BY <1>1, <1>2, QueueNames DEF Blocked
<1>5. CASE counter'[s] <= 0 /\ Grant(s)
  <2> DEFINE q == queue[SemQ(s)]
  <2>1. q \in Seq(Tasks) /\ Len(q) = IF counter[s] < 0 THEN -counter[s] ELSE 0
    BY <1>1 DEF IInv, TypeOK, SemaphoreCount
  <2>2. counter[s] < 0 /\ q # << >>
    BY <1>3, <1>5, <2>1
  <2>3. PICK h \in Tasks : h = Head(q) /\ h \in ToSet(q)
    <3>1. Head(q) = q[1] /\ 1 \in DOMAIN q /\ q[1] \in Tasks
      <4> HIDE DEF q
      <4> QED BY <2>1, <2>2
    <3> QED BY <3>1 DEF ToSet
  <2>4. Readies(SemQ(s), h)
    BY <1>5, <2>3 DEF Grant, Readies
  <2>5. /\ Moved(Queues, Tasks, queue, SemQ(s), UserQ, h, queue')
        /\ state'[h] = "READY" /\ \A u \in Tasks \ {h} : state'[u] = state[u]
    BY <1>1, <2>3, <2>4, ReadyMoves
  <2>6. ToSet(queue'[SemQ(s)]) = ToSet(q) \ {h}
    BY <2>5 DEF Moved
  <2>7. Blocked(h, s) /\ ~Blocked(h, s)'
        /\ \A u \in Tasks \ {h} : Blocked(u, s)' <=> Blocked(u, s)
    BY <2>3, <2>6 DEF Blocked
  <2>8. state[h] = "SUSPENDED"
    BY <1>1, <2>3 DEF IInv, StateMatchesQueue
  <2>9. \A u \in Tasks : state[u] = "TERM" <=> state'[u] = "TERM"
    BY <2>5, <2>8
  <2> QED BY <1>1, <1>2, <1>3, <1>4, <2>2, <2>3, <2>7, <2>9
<1>6. CASE counter'[s] > 0 /\ UNCHANGED << queue, state >>
  <2>1. \A u \in Tasks : Blocked(u, s)' <=> Blocked(u, s)
    BY <1>6 DEF Blocked
  <2> QED BY <1>1, <1>2, <1>3, <1>4, <1>6, <2>1
<1> QED BY <1>5, <1>6 DEF SemUp
-----------------------------------------------------------------------------
(* Steps of the kernel alone, with message queues as the only source of    *)
(* blocked tasks.                                                          *)
LEMMA DispatcherKeeps ==
  ASSUME IInv, OnlyThree, DispatcherStep
  PROVE  /\ OnlyThree' /\ UNCHANGED sems
         /\ \A s \in Sems : queue'[SemQ(s)] = queue[SemQ(s)]
         /\ state' = state
<1>1. /\ UNCHANGED sems /\ \A s \in Sems : queue'[SemQ(s)] = queue[SemQ(s)]
      /\ \A t \in Tasks : queue'[WaitQ(t)] = queue[WaitQ(t)] \/ queue'[WaitQ(t)] = << >>
  BY DispatcherLeaves
<1>2. /\ queue[SleepQ] = << >> /\ \A t \in Tasks : queue[WaitQ(t)] = << >>
      /\ state \in [Tasks -> {"READY", "SUSPENDED", "TERM"}]
  BY QueueNames, MQNames DEF OnlyThree, IInv, TypeOK
<1>3. ~WakeStep
  BY <1>2, WalkPosition DEF WakeStep, ToSet
<1>4. state' = state /\ queue'[SleepQ] = queue[SleepQ]
  <2>1. CASE AfterSwitch /\ Ended(next_task) /\ terminate_task(next_task)
    <3>1. next_task \in Tasks /\ Ending(next_task)
      BY <2>1 DEF AfterSwitch, Ended, Ending, IInv, CpuOwner
    <3>2. \A p \in Queues \ {WaitQ(next_task), UserQ} : queue'[p] = queue[p]
      BY <2>1, <3>1, TerminateMoves
    <3>3. AllReady(WaitQ(next_task)) = state
      BY <1>2, <3>1 DEF AllReady, ToSet
    <3> QED BY <2>1, <3>1, <3>2, <3>3, QueueNames DEF terminate_task
  <2>2. CASE UNCHANGED << state, queue >>
    BY <2>2
  <2> QED BY <1>3, <2>1, <2>2
          DEF DispatcherStep, DispatchTask, DispatchNone, AfterSwitch, WakeDone,
              DispatcherExit, tcb
<1>5. OnlyThree'
  BY <1>1, <1>2, <1>4 DEF OnlyThree, Queues
<1> QED BY <1>1, <1>4, <1>5

(* Nothing that the accounting speaks of changes. *)
LEMMA SameSems ==
  ASSUME MQInv, UNCHANGED << counter, destroyed, life, op, step, num_msgs >>,
         \A s \in MQSems : queue'[SemQ(s)] = queue[SemQ(s)]
  PROVE  Alive' /\ InPlace' /\ BufferUnit' /\ UnitsConserved'
<1>1. Ready' <=> Ready
  BY DEF Ready
<1>2. \A s \in MQSems : Permits(s)' = Permits(s)
  BY DEF Permits
<1>3. \A s \in MQSems, t \in Tasks : Blocked(t, s)' <=> Blocked(t, s)
  BY DEF Blocked
<1>4. /\ \A o : Granted(o, 6)' = Granted(o, 6)
      /\ \A o : Past(o, 6)' = Past(o, 6)
      /\ Holders' = Holders
  BY <1>3, MQNames DEF Granted, Past, Holders
<1>5. Alive' /\ InPlace'
  BY <1>1, <1>3, MQNames DEF MQInv, Alive, InPlace
<1>6. BufferUnit'
  BY <1>1, <1>2, <1>4, MQNames DEF MQInv, BufferUnit
<1>7. UnitsConserved'
  BY <1>1, <1>2, <1>4, MQNames DEF MQInv, UnitsConserved
<1> QED BY <1>5, <1>6, <1>7

LEMMA OnlyMain ==
  ASSUME MQInv, Creating, NEW t \in Tasks, current = t
  PROVE  t = Main /\ (life # "none" => op[t] = "create")
<1>1. state[t] = "READY"
  BY RunningTask DEF MQInv
<1>2. t = Main
  BY <1>1 DEF MQInv, Alone
<1>3. life # "none" => op[Main] = "create"
  BY DEF MQInv, Alone, Creating
<1> QED BY <1>2, <1>3

LEMMA KernelStepInv ==
  ASSUME MQInv, KernelStep, IInv'
  PROVE  MQInv'
<1>1. UNCHANGED << mqueue, inside, item, fault >>
  BY DEF KernelStep
<1>2. /\ MQTypes' /\ (Creating' <=> Creating)
  BY <1>1 DEF MQInv, MQTypes, mqueue, ring, inside, Creating
<1> DEFINE Kept ==
             /\ UNCHANGED sems /\ OnlyThree'
             /\ \A s \in Sems : queue'[SemQ(s)] = queue[SemQ(s)]
             /\ \A t \in Tasks : op[t] # "none" /\ state[t] # "TERM" => state'[t] # "TERM"
             /\ Creating => \A t \in Tasks : state[t] = "TERM" => state'[t] = "TERM"
<1>3. Kept
  <2>1. CASE TickUser \/ TickKernel \/ Terminated
    BY <2>1 DEF TickUser, TickKernel, Terminated, vars, tcb, sems, OnlyThree, MQInv
  <2>2. CASE DispatcherStep
    BY <2>2, DispatcherKeeps DEF MQInv
  <2>3. ASSUME NEW t \in Tasks, Outside(t), life # "none",
               \/ \E u \in Tasks : TaskCreate(t, u)
               \/ \E code \in ExitCodes : TaskExit(t, code)
               \/ TaskYield(t)
        PROVE  Kept
    <3>1. current = t /\ op[t] = "none" /\ ~Creating
      BY <2>3, OnlyMain DEF Outside, Running
    <3>2. UNCHANGED sems /\ \A q \in Queues \ {UserQ} : queue'[q] = queue[q]
      BY <2>3, OtherQueuesStay DEF MQInv
    <3>3. \A u \in Tasks : op[u] # "none" /\ state[u] # "TERM" => state'[u] # "TERM"
      BY <2>3, <3>1 DEF TaskCreate, TaskExit, TaskYield, tcb, MQInv, IInv, TypeOK
    <3> QED BY <3>1, <3>2, <3>3, QueueNames DEF OnlyThree, MQInv
  <2> QED BY <2>1, <2>2, <2>3 DEF KernelStep
<1>4. Alone'
  BY <1>1, <1>2, <1>3 DEF MQInv, Alone, inside
<1>5. LifeCycle'
  BY <1>1, <1>3 DEF MQInv, LifeCycle, inside, mqueue
<1>6. Fresh'
  BY <1>1, <1>2, <1>3 DEF MQInv, Fresh, inside, mqueue, sems
<1>7. Alive' /\ InPlace' /\ BufferUnit' /\ UnitsConserved'
  BY <1>1, <1>3, SameSems, MQNames DEF inside, mqueue, sems
<1> QED BY <1>2, <1>3, <1>4, <1>5, <1>6, <1>7 DEF MQInv
-----------------------------------------------------------------------------
(* A task inside mqueue_send or mqueue_recv: the queue has been created.   *)
LEMMA InTransfer ==
  ASSUME MQInv, NEW t \in Tasks, current = t, op[t] \in Transfers \/ (life # "none" /\ op[t] = "none")
  PROVE  ~Creating /\ life \in {"live", "freed"} /\ (Ready <=> life = "live")
<1>1. life # "none"
  BY DEF MQInv, LifeCycle, Transfers
<1>2. ~Creating
  BY <1>1, OnlyMain DEF Transfers
<1> QED BY <1>1, <1>2 DEF Creating, Ready, MQInv, MQTypes

(* t goes on to step n of operation o. *)
GoesTo(t, o, n) ==
  /\ op' = [op EXCEPT ![t] = o] /\ step' = [step EXCEPT ![t] = n]
  /\ (o \in Transfers /\ n \in 1..9) \/ (o = "none" /\ n = 0)

(* What a step of one task inside a transfer keeps anyway. *)
LEMMA TransferFrame ==
  ASSUME MQInv, IInv', NEW t \in Tasks, NEW o, NEW n, ~Creating,
         GoesTo(t, o, n),
         UNCHANGED << life, destroyed >>, state[t] # "TERM",
         \A u \in Tasks : state[u] = "TERM" <=> state'[u] = "TERM"
  PROVE  /\ Alone' /\ LifeCycle' /\ Fresh' /\ Alive' /\ (Ready' <=> Ready)
         /\ op'[t] = o /\ step'[t] = n
         /\ \A u \in Tasks \ {t} : op'[u] = op[u] /\ step'[u] = step[u]
<1>1. /\ op'[t] = o /\ step'[t] = n
      /\ \A u \in Tasks \ {t} : op'[u] = op[u] /\ step'[u] = step[u]
  BY DEF MQInv, MQTypes, GoesTo
<1>2. /\ o # "create" /\ o # "destroy"
      /\ (o \in Transfers /\ n \in 1..9) \/ (o = "none" /\ n = 0)
  BY DEF Transfers, GoesTo
<1>3. ~Creating' /\ (Ready' <=> Ready)
  BY <1>1, <1>2 DEF Creating, Ready
<1>4. LifeCycle'
  <2> SUFFICES ASSUME NEW u \in Tasks
               PROVE  /\ op'[u] # "none" => life' # "none" /\ state'[u] # "TERM"
                      /\ op'[u] = "create" => life' = "live" /\ step'[u] \in 1..2
                      /\ op'[u] = "destroy" => life' = "freed"
                      /\ op'[u] \in Transfers => step'[u] \in 1..9
    BY DEF LifeCycle
  <2>1. CASE u = t
    BY <1>1, <1>2, <2>1 DEF Creating, Transfers
  <2>2. CASE u # t
    BY <1>1, <2>2 DEF MQInv, LifeCycle
  <2> QED BY <2>1, <2>2
<1>5. Alone' /\ Fresh'
  BY <1>1, <1>2, <1>3, KernelAssumption DEF Alone, Fresh, Creating
<1>6. Alive'
  BY <1>3 DEF MQInv, Alive
<1> QED BY <1>1, <1>3, <1>4, <1>5, <1>6

(* The share of a task at step n of operation o. *)
OnMsgs(o, n)   == (o = "recv" /\ n \in 2..6) \/ (o = "send" /\ n > 6)
OnRoom(o, n)   == (o = "send" /\ n \in 2..6) \/ (o = "recv" /\ n > 6)
OnBuffer(o, n) == o \in Transfers /\ n \in 4..7

MembersOf(u) ==
  /\ u \in HeldMsgs <=> /\ OnMsgs(op[u], step[u])
                        /\ op[u] = "recv" => ~Blocked(u, s_produce) /\ ~Blocked(u, s_consume)
  /\ u \in HeldRoom <=> /\ OnRoom(op[u], step[u])
                        /\ op[u] = "send" => ~Blocked(u, s_produce) /\ ~Blocked(u, s_consume)
  /\ u \in Holders <=> OnBuffer(op[u], step[u]) /\ ~Blocked(u, s_buffer)

LEMMA Members == \A u \in Tasks : MembersOf(u)
<1> SUFFICES ASSUME NEW u \in Tasks PROVE MembersOf(u)
  OBVIOUS
<1>1. /\ u \in Granted("recv", 6) <=> /\ op[u] = "recv" /\ step[u] \in 2..6
                                     /\ ~Blocked(u, s_produce) /\ ~Blocked(u, s_consume)
      /\ u \in Granted("send", 6) <=> /\ op[u] = "send" /\ step[u] \in 2..6
                                     /\ ~Blocked(u, s_produce) /\ ~Blocked(u, s_consume)
  BY DEF Granted
<1>2. /\ u \in Past("send", 6) <=> op[u] = "send" /\ step[u] > 6
      /\ u \in Past("recv", 6) <=> op[u] = "recv" /\ step[u] > 6
  BY DEF Past
<1>3. u \in HeldMsgs <=> /\ OnMsgs(op[u], step[u])
                         /\ op[u] = "recv" => ~Blocked(u, s_produce) /\ ~Blocked(u, s_consume)
  <2>1. u \in HeldMsgs <=> u \in Granted("recv", 6) \/ u \in Past("send", 6)
    BY DEF HeldMsgs
  <2>2. CASE op[u] = "recv"
    BY <1>1, <1>2, <2>1, <2>2 DEF OnMsgs
  <2>3. CASE op[u] # "recv"
    BY <1>1, <1>2, <2>1, <2>3 DEF OnMsgs
  <2> QED BY <2>2, <2>3
<1>4. u \in HeldRoom <=> /\ OnRoom(op[u], step[u])
                         /\ op[u] = "send" => ~Blocked(u, s_produce) /\ ~Blocked(u, s_consume)
  <2>1. u \in HeldRoom <=> u \in Granted("send", 6) \/ u \in Past("recv", 6)
    BY DEF HeldRoom
  <2>2. CASE op[u] = "send"
    BY <1>1, <1>2, <2>1, <2>2 DEF OnRoom
  <2>3. CASE op[u] # "send"
    BY <1>1, <1>2, <2>1, <2>3 DEF OnRoom
  <2> QED BY <2>2, <2>3
<1>5. u \in Holders <=> OnBuffer(op[u], step[u]) /\ ~Blocked(u, s_buffer)
  BY DEF Holders, OnBuffer
<1> QED BY <1>3, <1>4, <1>5 DEF MembersOf

LEMMA MembersNext == (\A u \in Tasks : MembersOf(u))'
BY Members, PTL

(* A task that neither moves nor is blocked or released keeps its share. *)
LEMMA SameMember ==
  ASSUME NEW u \in Tasks, op'[u] = op[u], step'[u] = step[u],
         \A s \in MQSems : Blocked(u, s)' <=> Blocked(u, s)
  PROVE  /\ u \in HeldMsgs' <=> u \in HeldMsgs
         /\ u \in HeldRoom' <=> u \in HeldRoom
         /\ u \in Holders' <=> u \in Holders
BY Members, MembersNext, MQNames DEF MembersOf

LEMMA OneTask ==
  ASSUME NEW p \in Tasks,
         \A u \in Tasks \ {p} :
           /\ u \in HeldMsgs' <=> u \in HeldMsgs
           /\ u \in HeldRoom' <=> u \in HeldRoom
           /\ u \in Holders' <=> u \in Holders
  PROVE  /\ (p \in HeldMsgs' <=> p \in HeldMsgs) => Cardinality(HeldMsgs') = Cardinality(HeldMsgs)
         /\ p \in HeldMsgs' /\ p \notin HeldMsgs => Cardinality(HeldMsgs') = Cardinality(HeldMsgs) + 1
         /\ p \notin HeldMsgs' /\ p \in HeldMsgs => Cardinality(HeldMsgs') = Cardinality(HeldMsgs) - 1
         /\ (p \in HeldRoom' <=> p \in HeldRoom) => Cardinality(HeldRoom') = Cardinality(HeldRoom)
         /\ p \in HeldRoom' /\ p \notin HeldRoom => Cardinality(HeldRoom') = Cardinality(HeldRoom) + 1
         /\ p \notin HeldRoom' /\ p \in HeldRoom => Cardinality(HeldRoom') = Cardinality(HeldRoom) - 1
         /\ (p \in Holders' <=> p \in Holders) => Cardinality(Holders') = Cardinality(Holders)
         /\ p \in Holders' /\ p \notin Holders => Cardinality(Holders') = Cardinality(Holders) + 1
         /\ p \notin Holders' /\ p \in Holders => Cardinality(Holders') = Cardinality(Holders) - 1
<1>1. /\ HeldMsgs \subseteq Tasks /\ HeldRoom \subseteq Tasks /\ Holders \subseteq Tasks
      /\ HeldMsgs' \subseteq Tasks /\ HeldRoom' \subseteq Tasks
      /\ Holders' \subseteq Tasks
  BY DEF HeldMsgs, HeldRoom, Holders, Granted, Past
<1>2. /\ HeldMsgs' \ {p} = HeldMsgs \ {p}
      /\ HeldRoom' \ {p} = HeldRoom \ {p}
      /\ Holders' \ {p} = Holders \ {p}
  BY <1>1
<1> QED BY <1>2, FiniteHeld, OneElement

(* num_msgs moves as t's share. *)
ShareMoves(t, o, n) ==
  /\ OnBuffer(o, n) <=> OnBuffer(op[t], step[t])
  /\ \/ /\ num_msgs' = num_msgs
        /\ OnMsgs(o, n) <=> OnMsgs(op[t], step[t])
        /\ OnRoom(o, n) <=> OnRoom(op[t], step[t])
     \/ /\ num_msgs' = num_msgs + 1
        /\ OnMsgs(o, n) /\ ~OnMsgs(op[t], step[t])
        /\ ~OnRoom(o, n) /\ OnRoom(op[t], step[t])
     \/ /\ num_msgs' = num_msgs - 1
        /\ ~OnMsgs(o, n) /\ OnMsgs(op[t], step[t])
        /\ OnRoom(o, n) /\ ~OnRoom(op[t], step[t])

(* A step of one task inside a transfer: what is left to show is the       *)
(* accounts.                                                               *)
LEMMA MoveInv ==
  ASSUME MQInv, IInv', MQTypes', OnlyThree', NEW t \in Tasks, NEW o, NEW n, ~Creating,
         GoesTo(t, o, n),
         UNCHANGED << life, destroyed >>, state[t] # "TERM",
         \A u \in Tasks : state[u] = "TERM" <=> state'[u] = "TERM",
         Ready => InPlace' /\ Accounts'
  PROVE  MQInv'
<1>1. /\ Alone' /\ LifeCycle' /\ Fresh' /\ Alive' /\ (Ready' <=> Ready)
  BY TransferFrame
<1>2. InPlace' /\ Accounts'
  BY <1>1 DEF InPlace, Accounts
<1> QED BY <1>1, <1>2, AccountsOfNext DEF MQInv

(* A step of t that touches no semaphore. *)
LEMMA QuietInv ==
  ASSUME MQInv, IInv', MQTypes', NEW t \in Tasks, current = t, ~Creating,
         NEW o, NEW n,
         GoesTo(t, o, n),
         UNCHANGED << vars, life >>,
         Ready => ShareMoves(t, o, n)
  PROVE  MQInv'
<1>1. UNCHANGED << queue, counter, destroyed, state >> /\ state[t] # "TERM"
  BY RunningTask DEF vars, tcb, sems, MQInv
<1>2. /\ op'[t] = o /\ step'[t] = n
      /\ \A u \in Tasks \ {t} : op'[u] = op[u] /\ step'[u] = step[u]
  BY DEF MQInv, MQTypes, GoesTo
<1>3. /\ \A s \in MQSems, u \in Tasks : Blocked(u, s)' <=> Blocked(u, s)
      /\ \A s \in MQSems : Permits(s)' = Permits(s)
  BY <1>1 DEF Blocked, Permits
<1>4. /\ ~Blocked(t, s_buffer) /\ ~Blocked(t, s_produce) /\ ~Blocked(t, s_consume)
      /\ ~Blocked(t, s_buffer)' /\ ~Blocked(t, s_produce)' /\ ~Blocked(t, s_consume)'
  BY <1>3, BlockedNotRunning, MQNames DEF MQInv
<1>5. OnlyThree'
  BY <1>1 DEF MQInv, OnlyThree
<1>6. ASSUME Ready PROVE InPlace' /\ Accounts'
  <2>1. InPlace'
    BY <1>2, <1>3, <1>4, <1>6, MQNames DEF MQInv, InPlace
  <2>2. /\ t \in HeldMsgs' <=> OnMsgs(o, n)
        /\ t \in HeldMsgs <=> OnMsgs(op[t], step[t])
        /\ t \in HeldRoom' <=> OnRoom(o, n)
        /\ t \in HeldRoom <=> OnRoom(op[t], step[t])
        /\ t \in Holders' <=> OnBuffer(o, n)
        /\ t \in Holders <=> OnBuffer(op[t], step[t])
    BY <1>2, <1>4, Members, MembersNext DEF MembersOf
  <2>3. \A u \in Tasks \ {t} :
          /\ u \in HeldMsgs' <=> u \in HeldMsgs
          /\ u \in HeldRoom' <=> u \in HeldRoom
          /\ u \in Holders' <=> u \in Holders
    BY <1>2, <1>3, SameMember
  <2>4. Cardinality(Holders') = Cardinality(Holders)
    BY <1>6, <2>2, <2>3, OneTask DEF ShareMoves
  <2>5. \/ /\ num_msgs' = num_msgs
           /\ Cardinality(HeldMsgs') = Cardinality(HeldMsgs)
           /\ Cardinality(HeldRoom') = Cardinality(HeldRoom)
        \/ /\ num_msgs' = num_msgs + 1
           /\ Cardinality(HeldMsgs') = Cardinality(HeldMsgs) + 1
           /\ Cardinality(HeldRoom') = Cardinality(HeldRoom) - 1
        \/ /\ num_msgs' = num_msgs - 1
           /\ Cardinality(HeldMsgs') = Cardinality(HeldMsgs) - 1
           /\ Cardinality(HeldRoom') = Cardinality(HeldRoom) + 1
    BY <1>6, <2>2, <2>3, OneTask DEF ShareMoves
  <2>6. /\ Permits(s_buffer)' = Permits(s_buffer) /\ Permits(s_consume)' = Permits(s_consume)
        /\ Permits(s_produce)' = Permits(s_produce)
        /\ Permits(s_buffer) \in Int /\ Permits(s_consume) \in Int /\ Permits(s_produce) \in Int
        /\ num_msgs \in Int /\ MaxMsgs \in Int
    BY <1>3, MQNames, SMTT(30) DEF MQInv, IInv, TypeOK, Permits, MQTypes
  <2>7. /\ Permits(s_buffer) + Cardinality(Holders) = 1
        /\ num_msgs = Permits(s_consume) + Cardinality(HeldMsgs)
        /\ MaxMsgs - num_msgs = Permits(s_produce) + Cardinality(HeldRoom)
    BY <1>6, AccountsOf DEF MQInv, Accounts
  <2>8. /\ Permits(s_buffer)' + Cardinality(Holders') = 1
        /\ num_msgs' = Permits(s_consume)' + Cardinality(HeldMsgs')
        /\ MaxMsgs - num_msgs' = Permits(s_produce)' + Cardinality(HeldRoom')
    BY <2>4, <2>5, <2>6, <2>7, FiniteHeld
  <2> QED BY <2>1, <2>8 DEF Accounts
<1>7. \A u \in Tasks : state[u] = "TERM" <=> state'[u] = "TERM"
  BY <1>1
<1>8. UNCHANGED << life, destroyed >>
  BY <1>1
<1> QED BY <1>1, <1>5, <1>6, <1>7, <1>8, MoveInv
-----------------------------------------------------------------------------
LEMMA TypesKept ==
  ASSUME MQInv, NEW t \in Tasks, Operation(t) \/ \E o \in Transfers : Call(t, o)
  PROVE  MQTypes'
<1>1. /\ op \in [Tasks -> Transfers \cup {"none", "create", "destroy"}]
      /\ step \in [Tasks -> 0..9] /\ item \in [Tasks -> Msgs \cup {NoMsg}]
      /\ fault \in BOOLEAN /\ life \in {"none", "live", "freed"} /\ num_msgs \in Int
      /\ buffer \in [0..(MaxMsgs - 1) -> Msgs \cup {NoMsg}]
      /\ buffer_head \in 0..(MaxMsgs - 1) /\ buffer_index \in 0..(MaxMsgs - 1)
  BY DEF MQInv, MQTypes
<1>2. /\ \A n : Step(t, n) => op' = op /\ step' = [step EXCEPT ![t] = n] /\ item' = item
      /\ Leave(t) => /\ op' = [op EXCEPT ![t] = "none"] /\ step' = [step EXCEPT ![t] = 0]
                     /\ item' = [item EXCEPT ![t] = NoMsg]
  BY DEF Step, Goto, Leave, Enter
<1>3. CASE Down(t) \/ DownReturn(t) \/ UpBuffer(t) \/ UpReturn(t) \/ UpOther(t)
  <2>1. UNCHANGED << mqueue, fault >> /\ ((\E n \in 1..9 : Step(t, n)) \/ Leave(t))
    BY <1>3 DEF Down, DownReturn, UpBuffer, UpReturn, UpOther
  <2>2. UNCHANGED << life, buffer, buffer_head, buffer_index, num_msgs, fault >>
    BY <2>1 DEF mqueue, ring
  <2>3. /\ op' \in [Tasks -> Transfers \cup {"none", "create", "destroy"}]
        /\ step' \in [Tasks -> 0..9] /\ item' \in [Tasks -> Msgs \cup {NoMsg}]
    BY <1>1, <1>2, <2>1
  <2> QED BY <1>1, <2>2, <2>3 DEF MQTypes
<1>4. CASE CreateNext(t) \/ DestroyNext(t)
  <2>1. UNCHANGED << mqueue, fault >> /\ (Step(t, 2) \/ Leave(t))
    BY <1>4 DEF CreateNext, DestroyNext
  <2>2. UNCHANGED << life, buffer, buffer_head, buffer_index, num_msgs, fault >>
    BY <2>1 DEF mqueue, ring
  <2>3. /\ op' \in [Tasks -> Transfers \cup {"none", "create", "destroy"}]
        /\ step' \in [Tasks -> 0..9] /\ item' \in [Tasks -> Msgs \cup {NoMsg}]
    BY <1>1, <1>2, <2>1
  <2> QED BY <1>1, <2>2, <2>3 DEF MQTypes
<1>5. CASE Copy(t)
  <2>1. UNCHANGED << life, buffer_head, buffer_index, num_msgs >>
    BY <1>5 DEF Copy
  <2>2. (Goto(t, 6) /\ UNCHANGED fault) \/ (fault' = TRUE /\ UNCHANGED inside)
    BY <1>5 DEF Copy
  <2>3. op' = op /\ step' \in [Tasks -> 0..9]
    BY <1>1, <2>2 DEF Goto, inside
  <2>4. fault' \in BOOLEAN
    BY <1>1, <2>2
  <2>5. /\ buffer' \in [0..(MaxMsgs - 1) -> Msgs \cup {NoMsg}]
        /\ item' \in [Tasks -> Msgs \cup {NoMsg}]
    BY <1>1, <1>5 DEF Copy, CopyIn, CopyOut
  <2> QED BY <1>1, <2>1, <2>3, <2>4, <2>5 DEF MQTypes
<1>6. CASE Advance(t)
  <2>1. /\ op' = op /\ step' \in [Tasks -> 0..9] /\ UNCHANGED << life, buffer, item, fault >>
    BY <1>1, <1>6 DEF Advance, Goto
  <2>2. \A i \in 0..(MaxMsgs - 1) : Successor(i) \in 0..(MaxMsgs - 1)
    BY MQNames DEF Successor
  <2>3. /\ buffer_head' \in 0..(MaxMsgs - 1) /\ buffer_index' \in 0..(MaxMsgs - 1)
        /\ num_msgs' \in Int
    BY <1>1, <1>6, <2>2, SMTT(30) DEF Advance
  <2> QED BY <1>1, <2>1, <2>3 DEF MQTypes
<1>7. ASSUME NEW o \in Transfers, Call(t, o) PROVE MQTypes'
  <2>1. UNCHANGED << life, buffer, buffer_head, buffer_index, num_msgs, fault >>
    BY <1>7 DEF Call, mqueue, ring
  <2>2. /\ op' \in [Tasks -> Transfers \cup {"none", "create", "destroy"}]
        /\ step' \in [Tasks -> 0..9]
    BY <1>1, <1>7 DEF Call, Enter
  <2>3. item' \in [Tasks -> Msgs \cup {NoMsg}]
    BY <1>1, <1>7 DEF Call
  <2> QED BY <1>1, <2>1, <2>2, <2>3 DEF MQTypes
<1> QED BY <1>3, <1>4, <1>5, <1>6, <1>7 DEF Operation, Transfer

(* The steps that touch no semaphore. *)
LEMMA QuietStepInv ==
  ASSUME MQInv, IInv', NEW t \in Tasks,
         \/ DownReturn(t) \/ Copy(t) \/ Advance(t) \/ UpReturn(t)
         \/ \E o \in Transfers : Call(t, o)
  PROVE  MQInv'
<1>1. /\ UNCHANGED vars /\ current = t /\ UNCHANGED life
  BY DEF DownReturn, Copy, Advance, UpReturn, Call, At, Outside, Running, mqueue
<1>2. MQTypes' /\ MQTypes
  BY TypesKept DEF Operation, Transfer, MQInv
<1>3. op[t] \in Transfers \/ (life # "none" /\ op[t] = "none")
  BY DEF DownReturn, Copy, Advance, UpReturn, Call, At, Outside
<1>4. ~Creating /\ (Ready <=> life = "live")
  BY <1>1, <1>3, InTransfer
<1>5. Ready => \A s \in MQSems : ~destroyed[s]
  BY DEF MQInv, Alive
<1>6. ASSUME NEW n \in 1..9, Step(t, n), op[t] \in Transfers, num_msgs' = num_msgs,
             (step[t] = 2 /\ n = 3) \/ (step[t] = 4 /\ n = 5) \/ (step[t] = 8 /\ n = 9)
      PROVE  MQInv'
  <2>1. GoesTo(t, op[t], n)
    BY <1>2, <1>6 DEF GoesTo, Step, Goto, MQTypes
  <2>2. ShareMoves(t, op[t], n)
    BY <1>6 DEF ShareMoves, OnBuffer, OnMsgs, OnRoom
  <2> QED BY <1>1, <1>2, <1>4, <2>1, <2>2, QuietInv
<1>7. ASSUME Leave(t), ~Ready PROVE MQInv'
  <2>1. GoesTo(t, "none", 0)
    BY <1>7 DEF GoesTo, Leave, Enter
  <2> QED BY <1>1, <1>2, <1>4, <1>7, <2>1, QuietInv
<1>8. CASE DownReturn(t)
  <2>1. PICK n \in {2, 4} : At(t, n) /\ IF destroyed[DownSem(t, n)] THEN Leave(t)
                                          ELSE Step(t, n + 1)
    BY <1>8 DEF DownReturn
  <2>2. step[t] = n /\ op[t] \in Transfers /\ num_msgs' = num_msgs
    BY <1>8, <2>1 DEF At, DownReturn, mqueue
  <2>3. DownSem(t, n) \in MQSems
    BY MQNames DEF DownSem
  <2> QED BY <1>5, <1>6, <1>7, <2>1, <2>2, <2>3
<1>9. CASE UpReturn(t)
  <2>1. step[t] = 8 /\ op[t] \in Transfers /\ num_msgs' = num_msgs
    BY <1>9 DEF At, UpReturn, mqueue
  <2> QED BY <1>5, <1>6, <1>7, <1>9, <2>1, MQNames DEF UpReturn
<1>10. ASSUME NEW o \in Transfers, Call(t, o) PROVE MQInv'
  <2>1. GoesTo(t, o, 1) /\ num_msgs' = num_msgs /\ op[t] = "none"
    BY <1>10 DEF GoesTo, Call, Enter, mqueue, Outside
  <2>2. ShareMoves(t, o, 1)
    BY <2>1 DEF ShareMoves, OnBuffer, OnMsgs, OnRoom, Transfers
  <2> QED BY <1>1, <1>2, <1>4, <2>1, <2>2, QuietInv
<1>11. CASE Copy(t)
  <2>1. step[t] = 5 /\ op[t] \in Transfers /\ num_msgs' = num_msgs
    BY <1>11 DEF Copy, At
  <2>2. PICK n \in {5, 6} : GoesTo(t, op[t], n)
    <3>1. CASE Goto(t, 6)
      <4>1. GoesTo(t, op[t], 6)
        BY <1>2, <2>1, <3>1 DEF GoesTo, Goto, MQTypes
      <4> QED BY <4>1
    <3>2. CASE UNCHANGED inside
      <4>1. GoesTo(t, op[t], 5)
        BY <1>2, <2>1, <3>2 DEF GoesTo, inside, MQTypes
      <4> QED BY <4>1
    <3> QED BY <1>11, <3>1, <3>2 DEF Copy
  <2>3. ShareMoves(t, op[t], n)
    BY <2>1 DEF ShareMoves, OnBuffer, OnMsgs, OnRoom
  <2> QED BY <1>1, <1>2, <1>4, <2>2, <2>3, QuietInv
<1>12. CASE Advance(t)
  <2>1. GoesTo(t, op[t], 7) /\ step[t] = 6 /\ op[t] \in Transfers
    BY <1>2, <1>12 DEF GoesTo, Advance, At, Goto, MQTypes
  <2>2. \/ op[t] = "send" /\ num_msgs' = num_msgs + 1
        \/ op[t] = "recv" /\ num_msgs' = num_msgs - 1
    BY <1>12 DEF Advance
  <2>3. ShareMoves(t, op[t], 7)
    BY <2>1, <2>2 DEF ShareMoves, OnBuffer, OnMsgs, OnRoom
  <2> QED BY <1>1, <1>2, <1>4, <2>1, <2>3, QuietInv
<1> QED BY <1>8, <1>9, <1>10, <1>11, <1>12
-----------------------------------------------------------------------------
(* An operation on a semaphore that has been destroyed. *)
LEMMA GoneInv ==
  ASSUME MQInv, IInv', MQTypes', NEW t \in Tasks, op[t] \in Transfers,
         NEW s \in MQSems, SemGone(t, s), Leave(t), UNCHANGED mqueue
  PROVE  MQInv'
<1>1. /\ current = t /\ destroyed[s] /\ UNCHANGED << queue, state, destroyed, life >>
  BY DEF SemGone, Running, tcb, sems, mqueue
<1>2. ~Creating /\ state[t] # "TERM"
  BY <1>1, InTransfer, RunningTask DEF MQInv
<1>3. ~Ready
  BY <1>1 DEF MQInv, Alive
<1>4. GoesTo(t, "none", 0)
  BY DEF GoesTo, Leave, Enter
<1>5. OnlyThree' /\ \A u \in Tasks : state[u] = "TERM" <=> state'[u] = "TERM"
  BY <1>1 DEF MQInv, OnlyThree
<1> QED BY <1>1, <1>2, <1>3, <1>4, <1>5, MoveInv

(* The accounts as numbers. *)
LEMMA Numbers ==
  ASSUME MQInv, Ready
  PROVE  /\ Permits(s_buffer) + Cardinality(Holders) = 1
         /\ num_msgs = Permits(s_consume) + Cardinality(HeldMsgs)
         /\ MaxMsgs - num_msgs = Permits(s_produce) + Cardinality(HeldRoom)
         /\ Permits(s_buffer) \in Nat /\ Permits(s_consume) \in Nat /\ Permits(s_produce) \in Nat
         /\ Cardinality(Holders) \in Nat /\ Cardinality(HeldMsgs) \in Nat
         /\ Cardinality(HeldRoom) \in Nat /\ Cardinality(Holders') \in Nat
         /\ Cardinality(HeldMsgs') \in Nat /\ Cardinality(HeldRoom') \in Nat
         /\ num_msgs \in Int /\ MaxMsgs \in Int
<1>1. /\ Permits(s_buffer) \in Nat /\ Permits(s_consume) \in Nat /\ Permits(s_produce) \in Nat
      /\ num_msgs \in Int /\ MaxMsgs \in Int
  <2>1. counter \in [Sems -> Int] /\ num_msgs \in Int
    BY DEF MQInv, IInv, TypeOK, MQTypes
  <2>2. /\ s_buffer \in Sems /\ s_consume \in Sems /\ s_produce \in Sems
        /\ MaxMsgs \in Int
    BY MQNames
  <2> QED BY <2>1, <2>2 DEF Permits
<1> QED BY <1>1, AccountsOf, FiniteHeld DEF MQInv, Accounts

LEMMA PermitsDown ==
  ASSUME NEW s, counter[s] \in Int, counter'[s] = counter[s] - 1
  PROVE  Permits(s)' = Permits(s) - (IF counter[s] > 0 THEN 1 ELSE 0)
<1>1. CASE counter[s] > 1
  BY <1>1 DEF Permits
<1>2. CASE counter[s] = 1
  BY <1>2 DEF Permits
<1>3. CASE counter[s] < 1
  BY <1>3 DEF Permits
<1> QED BY <1>1, <1>2, <1>3

LEMMA PermitsUp ==
  ASSUME NEW s, counter[s] \in Int, counter'[s] = counter[s] + 1
  PROVE  Permits(s)' = Permits(s) + (IF counter[s] >= 0 THEN 1 ELSE 0)
<1>1. CASE counter[s] > 0
  BY <1>1 DEF Permits
<1>2. CASE counter[s] = 0
  BY <1>2 DEF Permits
<1>3. CASE counter[s] < 0
  BY <1>3 DEF Permits
<1> QED BY <1>1, <1>2, <1>3

LEMMA DownInv ==
  ASSUME MQInv, IInv', NEW t \in Tasks, Down(t)
  PROVE  MQInv'
<1>1. PICK n \in {1, 3} :
        /\ At(t, n)
        /\ \/ SemDown(t, DownSem(t, n)) /\ Step(t, n + 1)
           \/ SemGone(t, DownSem(t, n)) /\ Leave(t)
  BY DEF Down
<1>2. PICK s \in MQSems : s = DownSem(t, n) /\ s \in Sems
  BY MQNames DEF DownSem
<1>3. /\ current = t /\ op[t] \in Transfers /\ step[t] = n
      /\ UNCHANGED << mqueue, life, num_msgs >>
  BY <1>1 DEF At, Running, Down, mqueue
<1>4. MQTypes' /\ ~Creating /\ state[t] # "TERM" /\ MQTypes /\ IInv
  BY <1>2, <1>3, TypesKept, InTransfer, RunningTask DEF Operation, Transfer, MQInv
<1>5. CASE SemGone(t, s) /\ Leave(t)
  BY <1>2, <1>3, <1>4, <1>5, GoneInv
<1>6. CASE SemDown(t, s) /\ Step(t, n + 1)
  <2>1. /\ UNCHANGED destroyed /\ counter[s] \in Int /\ counter'[s] = counter[s] - 1
        /\ \A r \in Sems \ {s} : counter'[r] = counter[r]
        /\ \A r \in Sems, u \in Tasks :
             Blocked(u, r)' <=> Blocked(u, r) \/ (u = t /\ r = s /\ counter[s] <= 0)
        /\ \A u \in Tasks : state[u] = "TERM" <=> state'[u] = "TERM"
        /\ \A q \in Queues \ {UserQ, SemQ(s)} : queue'[q] = queue[q]
    BY <1>2, <1>3, <1>4, <1>6, DownEffect
  <2>2. GoesTo(t, op[t], n + 1) /\ op' = op /\ step'[t] = n + 1
        /\ \A u \in Tasks \ {t} : step'[u] = step[u]
    BY <1>2, <1>3, <1>4, <1>6 DEF GoesTo, Step, Goto, MQTypes
  <2>3. OnlyThree'
    BY <1>2, <1>3, <2>1 DEF MQInv, OnlyThree
  <2>4. ASSUME Ready PROVE InPlace' /\ Accounts'
    <3>1. \A r \in MQSems : ~Blocked(t, r)
      BY <1>2, <1>3, <1>4, BlockedNotRunning, MQNames
    <3>2. /\ \A r \in MQSems : Blocked(t, r)' <=> r = s /\ counter[s] <= 0
          /\ \A r \in MQSems, u \in Tasks \ {t} : Blocked(u, r)' <=> Blocked(u, r)
      BY <2>1, <3>1, MQNames
    <3>3. \A u \in Tasks \ {t} :
            /\ u \in HeldMsgs' <=> u \in HeldMsgs
            /\ u \in HeldRoom' <=> u \in HeldRoom
            /\ u \in Holders' <=> u \in Holders
      BY <2>2, <3>2, SameMember
    <3>4. /\ Permits(s)' = Permits(s) - (IF counter[s] > 0 THEN 1 ELSE 0)
          /\ \A r \in MQSems \ {s} : Permits(r)' = Permits(r)
      <4>1. Permits(s)' = Permits(s) - (IF counter[s] > 0 THEN 1 ELSE 0)
        BY <2>1, PermitsDown
      <4>2. \A r \in MQSems \ {s} : Permits(r)' = Permits(r)
        BY <2>1, MQNames DEF Permits
      <4> QED BY <4>1, <4>2
    <3>5. /\ t \in HeldMsgs <=> OnMsgs(op[t], n)
          /\ t \in HeldRoom <=> OnRoom(op[t], n)
          /\ t \in Holders <=> OnBuffer(op[t], n)
          /\ t \in HeldMsgs' <=> /\ OnMsgs(op[t], n + 1)
                                 /\ op[t] = "recv" => ~Blocked(t, s_produce)' /\ ~Blocked(t, s_consume)'
          /\ t \in HeldRoom' <=> /\ OnRoom(op[t], n + 1)
                                 /\ op[t] = "send" => ~Blocked(t, s_produce)' /\ ~Blocked(t, s_consume)'
          /\ t \in Holders' <=> OnBuffer(op[t], n + 1) /\ ~Blocked(t, s_buffer)'
      BY <1>2, <1>3, <2>2, <3>1, Members, MembersNext, MQNames DEF MembersOf
    <3>6. CASE n = 3
      <4>1. s = s_buffer
        BY <1>2, <1>3, <3>6 DEF DownSem
      <4>2. /\ t \in HeldMsgs' <=> t \in HeldMsgs
            /\ t \in HeldRoom' <=> t \in HeldRoom
            /\ t \notin Holders /\ (t \in Holders' <=> counter[s] > 0)
        BY <1>2, <1>3, <2>1, <3>2, <3>5, <3>6, <4>1, MQNames DEF OnMsgs, OnRoom, OnBuffer
      <4>3. /\ Cardinality(HeldMsgs') = Cardinality(HeldMsgs)
            /\ Cardinality(HeldRoom') = Cardinality(HeldRoom)
            /\ Cardinality(Holders') = Cardinality(Holders)
                                       + (IF counter[s] > 0 THEN 1 ELSE 0)
        BY <3>3, <4>2, OneTask, FiniteHeld
      <4>4. /\ Permits(s_produce)' = Permits(s_produce) /\ Permits(s_consume)' = Permits(s_consume)
            /\ Permits(s_buffer)' = Permits(s_buffer) - (IF counter[s] > 0 THEN 1 ELSE 0)
        BY <3>4, <4>1, MQNames
      <4>5. Accounts'
        BY <1>2, <1>3, <2>4, <4>3, <4>4, Numbers DEF Accounts
      <4>6. InPlace'
        BY <1>2, <1>3, <2>2, <2>4, <3>2, <3>6, <4>1, MQNames DEF MQInv, InPlace
      <4> QED BY <4>5, <4>6
    <3>7. CASE n = 1 /\ op[t] = "send"
      <4>1. s = s_produce
        BY <1>2, <1>3, <3>7 DEF DownSem
      <4>2. /\ t \notin HeldMsgs' /\ t \notin HeldMsgs
            /\ t \notin Holders /\ t \notin Holders'
            /\ t \notin HeldRoom /\ (t \in HeldRoom' <=> counter[s] > 0)
        BY <1>2, <1>3, <2>1, <3>2, <3>5, <3>7, <4>1, MQNames DEF OnMsgs, OnRoom, OnBuffer
      <4>3. /\ Cardinality(HeldMsgs') = Cardinality(HeldMsgs)
            /\ Cardinality(Holders') = Cardinality(Holders)
            /\ Cardinality(HeldRoom') = Cardinality(HeldRoom)
                                        + (IF counter[s] > 0 THEN 1 ELSE 0)
        BY <3>3, <4>2, OneTask, FiniteHeld
      <4>4. /\ Permits(s_buffer)' = Permits(s_buffer) /\ Permits(s_consume)' = Permits(s_consume)
            /\ Permits(s_produce)' = Permits(s_produce) - (IF counter[s] > 0 THEN 1 ELSE 0)
        BY <3>4, <4>1, MQNames
      <4>5. Accounts'
        BY <1>2, <1>3, <2>4, <4>3, <4>4, Numbers DEF Accounts
      <4>6. InPlace'
        BY <1>2, <1>3, <2>2, <2>4, <3>2, <3>7, <4>1, MQNames DEF MQInv, InPlace
      <4> QED BY <4>5, <4>6
    <3>8. CASE n = 1 /\ op[t] = "recv"
      <4>1. s = s_consume
        BY <1>2, <1>3, <3>8 DEF DownSem
      <4>2. /\ t \notin HeldRoom' /\ t \notin HeldRoom
            /\ t \notin Holders /\ t \notin Holders'
            /\ t \notin HeldMsgs /\ (t \in HeldMsgs' <=> counter[s] > 0)
        BY <1>2, <1>3, <2>1, <3>2, <3>5, <3>8, <4>1, MQNames DEF OnMsgs, OnRoom, OnBuffer
      <4>3. /\ Cardinality(HeldRoom') = Cardinality(HeldRoom)
            /\ Cardinality(Holders') = Cardinality(Holders)
            /\ Cardinality(HeldMsgs') = Cardinality(HeldMsgs)
                                        + (IF counter[s] > 0 THEN 1 ELSE 0)
        BY <3>3, <4>2, OneTask, FiniteHeld
      <4>4. /\ Permits(s_buffer)' = Permits(s_buffer) /\ Permits(s_produce)' = Permits(s_produce)
            /\ Permits(s_consume)' = Permits(s_consume) - (IF counter[s] > 0 THEN 1 ELSE 0)
        BY <3>4, <4>1, MQNames
      <4>5. Accounts'
        BY <1>2, <1>3, <2>4, <4>3, <4>4, Numbers DEF Accounts
      <4>6. InPlace'
        BY <1>2, <1>3, <2>2, <2>4, <3>2, <3>8, <4>1, MQNames DEF MQInv, InPlace
      <4> QED BY <4>5, <4>6
    <3> QED BY <1>2, <1>3, <3>6, <3>7, <3>8 DEF Transfers
  <2>5. UNCHANGED << life, destroyed >>
    BY <1>2, <1>3, <2>1
  <2> QED BY <1>4, <2>1, <2>2, <2>3, <2>4, <2>5, MoveInv
<1> QED BY <1>1, <1>2, <1>5, <1>6

(* The share of h, which the step of t releases, and of the others. *)
LEMMA UpMembers ==
  ASSUME MQInv, NEW t \in Tasks, current = t, NEW s \in MQSems, NEW o, NEW n, GoesTo(t, o, n),
         \A r \in MQSems \ {s}, u \in Tasks : Blocked(u, r)' <=> Blocked(u, r),
         \A u \in Tasks : Blocked(u, s)' => Blocked(u, s)
  PROVE  /\ t \in HeldMsgs <=> OnMsgs(op[t], step[t])
         /\ t \in HeldRoom <=> OnRoom(op[t], step[t])
         /\ t \in Holders <=> OnBuffer(op[t], step[t])
         /\ t \in HeldMsgs' <=> OnMsgs(o, n)
         /\ t \in HeldRoom' <=> OnRoom(o, n)
         /\ t \in Holders' <=> OnBuffer(o, n)
         /\ \A u \in Tasks \ {t} :
              /\ op'[u] = op[u] /\ step'[u] = step[u]
              /\ (Blocked(u, s)' <=> Blocked(u, s)) =>
                   /\ u \in HeldMsgs' <=> u \in HeldMsgs
                   /\ u \in HeldRoom' <=> u \in HeldRoom
                   /\ u \in Holders' <=> u \in Holders
<1>1. /\ op'[t] = o /\ step'[t] = n
      /\ \A u \in Tasks \ {t} : op'[u] = op[u] /\ step'[u] = step[u]
  BY DEF MQInv, MQTypes, GoesTo
<1>2. \A r \in MQSems : ~Blocked(t, r) /\ ~Blocked(t, r)'
  BY BlockedNotRunning, MQNames DEF MQInv
<1>3. \A u \in Tasks \ {t} : (Blocked(u, s)' <=> Blocked(u, s)) =>
        /\ u \in HeldMsgs' <=> u \in HeldMsgs
        /\ u \in HeldRoom' <=> u \in HeldRoom
        /\ u \in Holders' <=> u \in Holders
  BY <1>1, SameMember
<1>4. /\ ~Blocked(t, s_buffer) /\ ~Blocked(t, s_produce) /\ ~Blocked(t, s_consume)
      /\ ~Blocked(t, s_buffer)' /\ ~Blocked(t, s_produce)' /\ ~Blocked(t, s_consume)'
  BY <1>2, MQNames
<1>5. /\ t \in HeldMsgs <=> OnMsgs(op[t], step[t])
      /\ t \in HeldRoom <=> OnRoom(op[t], step[t])
      /\ t \in Holders <=> OnBuffer(op[t], step[t])
      /\ t \in HeldMsgs' <=> OnMsgs(o, n)
      /\ t \in HeldRoom' <=> OnRoom(o, n)
      /\ t \in Holders' <=> OnBuffer(o, n)
  BY <1>1, <1>4, Members, MembersNext DEF MembersOf
<1> QED BY <1>1, <1>3, <1>5

(* sem_up passes a unit on: to the semaphore, or from the running task to  *)
(* the first waiter.                                                       *)
LEMMA UpInv ==
  ASSUME MQInv, IInv', NEW t \in Tasks, UpBuffer(t) \/ UpOther(t)
  PROVE  MQInv'
<1>1. PICK s \in MQSems, o \in Transfers \cup {"none"}, n \in 0..9 :
        /\ (SemUp(t, s) /\ GoesTo(t, o, n)) \/ (SemGone(t, s) /\ Leave(t))
        /\ \/ s = s_buffer /\ o = op[t] /\ step[t] = 7 /\ n = 8
           \/ s = OtherSem(t) /\ step[t] = 9 /\ o = "none" /\ n = 0
  <2>1. CASE UpBuffer(t)
    <3>1. op[t] \in Transfers /\ step[t] = 7
          /\ ((SemUp(t, s_buffer) /\ Step(t, 8)) \/ (SemGone(t, s_buffer) /\ Leave(t)))
      BY <2>1 DEF UpBuffer, At
    <3>2. Step(t, 8) => GoesTo(t, op[t], 8)
      BY <3>1 DEF GoesTo, Step, Goto, MQInv, MQTypes
    <3> QED BY <3>1, <3>2, MQNames
  <2>2. CASE UpOther(t)
    <3>1. step[t] = 9 /\ (SemUp(t, OtherSem(t)) \/ SemGone(t, OtherSem(t))) /\ Leave(t)
      BY <2>2 DEF UpOther, At
    <3>2. GoesTo(t, "none", 0)
      BY <3>1 DEF GoesTo, Leave, Enter
    <3>3. OtherSem(t) \in MQSems
      BY MQNames DEF OtherSem
    <3> QED BY <3>1, <3>2, <3>3
  <2> QED BY <2>1, <2>2
<1>2. /\ current = t /\ op[t] \in Transfers /\ UNCHANGED << mqueue, life, num_msgs >> /\ s \in Sems
  BY MQNames DEF UpBuffer, UpOther, At, Running, mqueue
<1>3. MQTypes' /\ ~Creating /\ state[t] # "TERM" /\ IInv
  BY <1>2, TypesKept, InTransfer, RunningTask DEF Operation, Transfer, MQInv
<1>4. CASE SemGone(t, s) /\ Leave(t)
  BY <1>2, <1>3, <1>4, GoneInv
<1>5. CASE SemUp(t, s) /\ GoesTo(t, o, n)
  <2>1. /\ UNCHANGED destroyed /\ counter[s] \in Int /\ counter'[s] = counter[s] + 1
        /\ \A r \in Sems \ {s} : counter'[r] = counter[r]
        /\ \A r \in Sems \ {s}, u \in Tasks : Blocked(u, r)' <=> Blocked(u, r)
        /\ counter[s] >= 0 => \A u \in Tasks : Blocked(u, s)' <=> Blocked(u, s)
        /\ counter[s] < 0 =>
             \E h \in Tasks : /\ Blocked(h, s) /\ ~Blocked(h, s)'
                              /\ \A u \in Tasks \ {h} : Blocked(u, s)' <=> Blocked(u, s)
        /\ \A u \in Tasks : state[u] = "TERM" <=> state'[u] = "TERM"
        /\ \A q \in Queues \ {UserQ, SemQ(s)} : queue'[q] = queue[q]
    BY <1>2, <1>3, <1>5, UpEffect
  <2>2. OnlyThree' /\ UNCHANGED << life, destroyed >>
    BY <1>2, <2>1 DEF MQInv, OnlyThree
  <2>3. \A u \in Tasks : Blocked(u, s)' => Blocked(u, s)
    BY <2>1
  <2>4. /\ t \in HeldMsgs <=> OnMsgs(op[t], step[t])
        /\ t \in HeldRoom <=> OnRoom(op[t], step[t])
        /\ t \in Holders <=> OnBuffer(op[t], step[t])
        /\ t \in HeldMsgs' <=> OnMsgs(o, n)
        /\ t \in HeldRoom' <=> OnRoom(o, n)
        /\ t \in Holders' <=> OnBuffer(o, n)
        /\ \A u \in Tasks \ {t} :
             /\ op'[u] = op[u] /\ step'[u] = step[u]
             /\ (Blocked(u, s)' <=> Blocked(u, s)) =>
                  /\ u \in HeldMsgs' <=> u \in HeldMsgs
                  /\ u \in HeldRoom' <=> u \in HeldRoom
                  /\ u \in Holders' <=> u \in Holders
    BY <1>2, <1>5, <2>1, <2>3, UpMembers, MQNames
  <2>5. ~Blocked(t, s_produce) /\ ~Blocked(t, s_consume) /\ ~Blocked(t, s_buffer)
    BY <1>2, <1>3, BlockedNotRunning, MQNames
  <2>6. ASSUME Ready PROVE InPlace'
    BY <2>1, <2>3, <2>4, <2>5, <2>6, MQNames DEF MQInv, InPlace
  <2>7. /\ Permits(s)' = Permits(s) + (IF counter[s] >= 0 THEN 1 ELSE 0)
        /\ \A r \in MQSems \ {s} : Permits(r)' = Permits(r)
    <3>1. Permits(s)' = Permits(s) + (IF counter[s] >= 0 THEN 1 ELSE 0)
      BY <2>1, PermitsUp
    <3>2. \A r \in MQSems \ {s} : Permits(r)' = Permits(r)
      BY <2>1, MQNames DEF Permits
    <3> QED BY <3>1, <3>2
  <2> DEFINE unit == IF counter[s] >= 0 THEN 1 ELSE 0
             Loses(S, R) == Cardinality(R) = Cardinality(S) - unit
             Stays(S, R) == Cardinality(R) = Cardinality(S)
  <2>8. ASSUME Ready
        PROVE  /\ s = s_buffer => /\ Loses(Holders, Holders')
                                  /\ Stays(HeldMsgs, HeldMsgs') /\ Stays(HeldRoom, HeldRoom')
               /\ s = s_consume => /\ Loses(HeldMsgs, HeldMsgs')
                                   /\ Stays(Holders, Holders') /\ Stays(HeldRoom, HeldRoom')
               /\ s = s_produce => /\ Loses(HeldRoom, HeldRoom')
                                   /\ Stays(HeldMsgs, HeldMsgs') /\ Stays(Holders, Holders')
    <3>1. /\ s = s_buffer => /\ t \in Holders /\ t \notin Holders'
                             /\ t \in HeldMsgs' <=> t \in HeldMsgs
                             /\ t \in HeldRoom' <=> t \in HeldRoom
          /\ s = s_consume => /\ t \in HeldMsgs /\ t \notin HeldMsgs'
                              /\ t \notin HeldRoom /\ t \notin HeldRoom'
                              /\ t \notin Holders /\ t \notin Holders'
          /\ s = s_produce => /\ t \in HeldRoom /\ t \notin HeldRoom'
                              /\ t \notin HeldMsgs /\ t \notin HeldMsgs'
                              /\ t \notin Holders /\ t \notin Holders'
      <4>1. CASE s = s_buffer
        BY <1>1, <1>2, <2>4, <4>1, MQNames DEF OnMsgs, OnRoom, OnBuffer, OtherSem
      <4>2. CASE s = s_consume
        BY <1>1, <1>2, <2>4, <4>2, MQNames DEF OnMsgs, OnRoom, OnBuffer, OtherSem, Transfers
      <4>3. CASE s = s_produce
        BY <1>1, <1>2, <2>4, <4>3, MQNames DEF OnMsgs, OnRoom, OnBuffer, OtherSem, Transfers
      <4> QED BY <4>1, <4>2, <4>3, MQNames
    <3>2. CASE counter[s] >= 0
      <4>1. \A u \in Tasks \ {t} :
              /\ u \in HeldMsgs' <=> u \in HeldMsgs
              /\ u \in HeldRoom' <=> u \in HeldRoom
              /\ u \in Holders' <=> u \in Holders
        BY <2>1, <2>4, <3>2
      <4> QED BY <3>1, <3>2, <4>1, OneTask
    <3>3. CASE counter[s] < 0
      <4>1. PICK h \in Tasks \ {t} :
              /\ Blocked(h, s) /\ ~Blocked(h, s)'
              /\ \A u \in Tasks \ {h} : Blocked(u, s)' <=> Blocked(u, s)
        BY <2>1, <2>5, <3>3, MQNames DEF MQSems
      <4>2. \A u \in Tasks \ {t, h} :
              /\ u \in HeldMsgs' <=> u \in HeldMsgs
              /\ u \in HeldRoom' <=> u \in HeldRoom
              /\ u \in Holders' <=> u \in Holders
        BY <2>4, <4>1
      <4>3. op'[h] = op[h] /\ step'[h] = step[h]
        BY <2>4
      <4>4. /\ s = s_buffer => op[h] \in Transfers /\ step[h] = 4
            /\ s = s_consume => op[h] = "recv" /\ step[h] = 2
            /\ s = s_produce => op[h] = "send" /\ step[h] = 2
        BY <2>8, <4>1 DEF MQInv, InPlace
      <4>5. /\ s = s_buffer => /\ h \notin Holders /\ h \in Holders'
                               /\ h \in HeldMsgs' <=> h \in HeldMsgs
                               /\ h \in HeldRoom' <=> h \in HeldRoom
            /\ s = s_consume => /\ h \notin HeldMsgs /\ h \in HeldMsgs'
                                /\ h \notin HeldRoom /\ h \notin HeldRoom'
                                /\ h \notin Holders /\ h \notin Holders'
            /\ s = s_produce => /\ h \notin HeldRoom /\ h \in HeldRoom'
                                /\ h \notin HeldMsgs /\ h \notin HeldMsgs'
                                /\ h \notin Holders /\ h \notin Holders'
        <5>1. MembersOf(h) /\ MembersOf(h)'
          BY Members, MembersNext
        <5>2. CASE s = s_buffer
          BY <2>1, <4>1, <4>3, <4>4, <5>1, <5>2, MQNames DEF MembersOf, OnBuffer
        <5>3. CASE s = s_consume
          <6>1. ~Blocked(h, s_produce)
            BY <2>8, <4>4, <5>3 DEF MQInv, InPlace
          <6> QED BY <2>1, <4>1, <4>3, <4>4, <5>1, <5>3, <6>1, MQNames
                  DEF MembersOf, OnBuffer, OnMsgs, OnRoom
        <5>4. CASE s = s_produce
          <6>1. ~Blocked(h, s_consume)
            BY <2>8, <4>4, <5>4 DEF MQInv, InPlace
          <6> QED BY <2>1, <4>1, <4>3, <4>4, <5>1, <5>4, <6>1, MQNames
                  DEF MembersOf, OnBuffer, OnMsgs, OnRoom
        <5> QED BY <5>2, <5>3, <5>4, MQNames
      <4>6. /\ HeldMsgs \subseteq Tasks /\ HeldRoom \subseteq Tasks /\ Holders \subseteq Tasks
            /\ HeldMsgs' \subseteq Tasks /\ HeldRoom' \subseteq Tasks
            /\ Holders' \subseteq Tasks
        BY DEF HeldMsgs, HeldRoom, Holders, Granted, Past
      <4>7. CASE s = s_buffer
        <5>1. HeldMsgs' = HeldMsgs /\ HeldRoom' = HeldRoom
          BY <3>1, <4>2, <4>5, <4>6, <4>7
        <5>2. Holders' = (Holders \ {t}) \cup {h}
          BY <3>1, <4>2, <4>5, <4>6, <4>7
        <5>3. Cardinality(Holders') = Cardinality(Holders)
          BY <3>1, <4>5, <4>7, <5>2, FiniteHeld, Exchange
        <5> QED BY <3>3, <4>7, <5>1, <5>3, FiniteHeld, <2>1, MQNames
      <4>8. CASE s = s_consume
        <5>1. Holders' = Holders /\ HeldRoom' = HeldRoom
          BY <3>1, <4>2, <4>5, <4>6, <4>8
        <5>2. HeldMsgs' = (HeldMsgs \ {t}) \cup {h}
          BY <3>1, <4>2, <4>5, <4>6, <4>8
        <5>3. Cardinality(HeldMsgs') = Cardinality(HeldMsgs)
          BY <3>1, <4>5, <4>8, <5>2, FiniteHeld, Exchange
        <5> QED BY <3>3, <4>8, <5>1, <5>3, FiniteHeld, <2>1, MQNames
      <4>9. CASE s = s_produce
        <5>1. Holders' = Holders /\ HeldMsgs' = HeldMsgs
          BY <3>1, <4>2, <4>5, <4>6, <4>9
        <5>2. HeldRoom' = (HeldRoom \ {t}) \cup {h}
          BY <3>1, <4>2, <4>5, <4>6, <4>9
        <5>3. Cardinality(HeldRoom') = Cardinality(HeldRoom)
          BY <3>1, <4>5, <4>9, <5>2, FiniteHeld, Exchange
        <5> QED BY <3>3, <4>9, <5>1, <5>3, FiniteHeld, <2>1, MQNames
      <4> QED BY <4>7, <4>8, <4>9 DEF MQSems
    <3> QED BY <2>1, <3>2, <3>3
  <2>9. ASSUME Ready PROVE Accounts'
    <3>1. CASE s = s_buffer
      BY <1>2, <2>7, <2>8, <2>9, <3>1, Numbers, MQNames DEF Accounts
    <3>2. CASE s = s_consume
      BY <1>2, <2>7, <2>8, <2>9, <3>2, Numbers, MQNames DEF Accounts
    <3>3. CASE s = s_produce
      BY <1>2, <2>7, <2>8, <2>9, <3>3, Numbers, MQNames DEF Accounts
    <3> QED BY <3>1, <3>2, <3>3 DEF MQSems
  <2> QED BY <1>3, <1>5, <2>1, <2>2, <2>6, <2>9, MoveInv
<1> QED BY <1>1, <1>4, <1>5
-----------------------------------------------------------------------------
(* mqueue_create: nobody but main_task is there. *)
LEMMA CreateInv ==
  ASSUME MQInv, IInv', NEW t \in Tasks, CreateFirst(t) \/ CreateNext(t)
  PROVE  MQInv'
<1>1. /\ current = t /\ Creating /\ t = Main /\ (life # "none" => op[t] = "create")
      /\ IInv /\ MQTypes /\ state[t] # "TERM"
  <2>1. current = t /\ Creating
    BY DEF CreateFirst, CreateNext, Outside, Running, Creating
  <2> QED BY <2>1, OnlyMain, RunningTask DEF MQInv
<1>2. \A u \in Tasks \ {t} : state[u] = "TERM" /\ op[u] = "none"
  BY <1>1 DEF MQInv, Alone
<1>3. num_msgs = 0 /\ num_msgs' = 0 /\ num_msgs' \in Int
  BY <1>1 DEF MQInv, Fresh, CreateFirst, CreateNext, mqueue
<1>4. PICK s \in MQSems, v \in SemValues : SemCreate(t, s, v)
  BY MQNames DEF CreateFirst, CreateNext
<1>5. /\ UNCHANGED << queue, state >>
      /\ counter \in [Sems -> Int] /\ destroyed \in [Sems -> BOOLEAN]
      /\ counter' \in [Sems -> Int] /\ destroyed' \in [Sems -> BOOLEAN]
  BY <1>1, <1>4 DEF SemCreate, tcb, IInv, TypeOK
<1>6. OnlyThree'
  BY <1>5 DEF MQInv, OnlyThree
<1>7. CASE CreateFirst(t)
  <2>1. /\ life = "none" /\ life' = "live" /\ UNCHANGED << ring, item, fault >>
        /\ op' = [op EXCEPT ![t] = "create"] /\ step' = [step EXCEPT ![t] = 1]
        /\ SemCreate(t, s_buffer, 1)
    BY <1>7 DEF CreateFirst, Enter
  <2>2. /\ op'[t] = "create" /\ step'[t] = 1
        /\ \A u \in Tasks \ {t} : op'[u] = "none"
        /\ op' \in [Tasks -> Transfers \cup {"none", "create", "destroy"}]
        /\ step' \in [Tasks -> 0..9]
    BY <1>1, <1>2, <2>1 DEF MQTypes
  <2>3. counter'[s_buffer] = 1 /\ ~destroyed'[s_buffer]
    BY <1>5, <2>1, MQNames DEF SemCreate
  <2>4. MQTypes'
    BY <1>1, <1>3, <2>1, <2>2 DEF MQTypes, ring
  <2>5. Alone' /\ LifeCycle' /\ Fresh'
    BY <1>1, <1>2, <1>3, <1>5, <2>1, <2>2, <2>3 DEF Alone, LifeCycle, Fresh, Transfers
  <2>6. ~Ready'
    BY <2>2 DEF Ready
  <2> QED BY <1>6, <2>4, <2>5, <2>6 DEF MQInv, Alive, InPlace, BufferUnit, UnitsConserved
<1>8. CASE CreateNext(t)
  <2>1. /\ op[t] = "create" /\ life = "live" /\ life' = "live"
        /\ counter[s_buffer] = 1 /\ ~destroyed[s_buffer]
        /\ step[t] = 2 => counter[s_produce] = MaxMsgs /\ ~destroyed[s_produce]
    BY <1>1, <1>8 DEF CreateNext, mqueue, MQInv, LifeCycle, Fresh
  <2>2. MQTypes'
    BY <1>1, <1>8, TypesKept DEF Operation
  <2>3. CASE step[t] = 1 /\ SemCreate(t, s_produce, MaxMsgs) /\ Step(t, 2)
    <3>1. /\ op'[t] = "create" /\ step'[t] = 2
          /\ \A u \in Tasks \ {t} : op'[u] = "none"
      BY <1>1, <1>2, <2>1, <2>3 DEF MQTypes, Step, Goto
    <3>2. /\ counter'[s_produce] = MaxMsgs /\ ~destroyed'[s_produce]
          /\ counter'[s_buffer] = 1 /\ ~destroyed'[s_buffer]
      BY <1>5, <2>1, <2>3, MQNames DEF SemCreate
    <3>3. Alone' /\ LifeCycle' /\ Fresh'
      BY <1>1, <1>2, <1>3, <1>5, <2>1, <3>1, <3>2 DEF Alone, LifeCycle, Fresh, Transfers
    <3>4. ~Ready'
      BY <3>1 DEF Ready
    <3> QED BY <1>6, <2>2, <3>3, <3>4 DEF MQInv, Alive, InPlace, BufferUnit, UnitsConserved
  <2>4. CASE step[t] = 2 /\ SemCreate(t, s_consume, 0) /\ Leave(t)
    <3>1. \A u \in Tasks : op'[u] = "none"
      BY <1>1, <1>2, <2>4 DEF MQTypes, Leave, Enter
    <3>2. /\ counter'[s_produce] = MaxMsgs /\ ~destroyed'[s_produce]
          /\ counter'[s_buffer] = 1 /\ ~destroyed'[s_buffer]
          /\ counter'[s_consume] = 0 /\ ~destroyed'[s_consume]
      BY <1>5, <2>1, <2>4, MQNames DEF SemCreate
    <3>3. Alone' /\ LifeCycle' /\ Fresh' /\ Alive'
      BY <1>1, <1>2, <1>3, <1>5, <2>1, <3>1, <3>2
         DEF Alone, LifeCycle, Fresh, Creating, Transfers, Alive, MQSems
    <3>4. \A u \in Tasks, r \in MQSems : ~Blocked(u, r)'
      <4>1. \A r \in Sems : SemQ(r) \in Queues \ {UserQ}
        BY QueueNames
      <4>2. ASSUME NEW u \in Tasks, u # t, NEW r \in MQSems
            PROVE  u \notin ToSet(queue[SemQ(r)])
        BY <1>1, <1>2, <4>1, <4>2, RunningTask, MQNames DEF IInv, StateMatchesQueue
      <4>3. \A r \in MQSems : t \notin ToSet(queue[SemQ(r)])
        BY <1>1, BlockedNotRunning, MQNames DEF Blocked
      <4> QED BY <1>5, <4>2, <4>3 DEF Blocked
    <3>5. InPlace'
      BY <3>4, MQNames DEF InPlace
    <3>6. HeldMsgs' = {} /\ HeldRoom' = {} /\ Holders' = {}
      BY <3>1 DEF HeldMsgs, HeldRoom, Holders, Granted, Past, Transfers
    <3>7. /\ Permits(s_buffer)' = 1 /\ Permits(s_consume)' = 0
          /\ Permits(s_produce)' = MaxMsgs
      BY <3>2, MQNames DEF Permits
    <3>8. Accounts'
      BY <1>3, <3>6, <3>7, FS_EmptySet, MQNames DEF Accounts
    <3> QED BY <1>6, <2>2, <3>3, <3>5, <3>8, AccountsOfNext DEF MQInv
  <2> QED BY <1>8, <2>3, <2>4 DEF CreateNext
<1> QED BY <1>7, <1>8

(* mqueue_destroy: after its first step nothing is promised but where      *)
(* tasks can be.                                                           *)
LEMMA DestroyInv ==
  ASSUME MQInv, IInv', NEW t \in Tasks, DestroyFirst(t) \/ DestroyNext(t)
  PROVE  MQInv'
<1>1. /\ current = t /\ ~Creating /\ IInv /\ MQTypes /\ state[t] # "TERM"
      /\ life' = "freed"
  <2>1. current = t
    BY DEF DestroyFirst, DestroyNext, Outside, Running
  <2>2. life # "none" /\ op[t] # "create"
    BY DEF DestroyFirst, DestroyNext, Outside, MQInv, LifeCycle
  <2>3. ~Creating
    BY <2>1, <2>2, OnlyMain
  <2>4. life' = "freed"
    BY DEF DestroyFirst, DestroyNext, mqueue, MQInv, LifeCycle
  <2> QED BY <2>1, <2>3, <2>4, RunningTask DEF MQInv
<1>2. PICK s \in MQSems : SemDestroy(t, s)
  BY MQNames DEF DestroyFirst, DestroyNext
<1>3. /\ SemQ(s) \in Queues \ {UserQ} /\ s \in Sems
      /\ state' = AllReady(SemQ(s))
      /\ \A q \in Queues \ {UserQ, SemQ(s)} : queue'[q] = queue[q]
  BY <1>1, <1>2, QueueNames, MQNames, SemOneQueue DEF SemDestroy
<1>4. \A u \in Tasks : state[u] = "TERM" <=> state'[u] = "TERM"
  <2>1. \A u \in Tasks :
          IF u \in ToSet(queue[SemQ(s)])
          THEN AllReady(SemQ(s))[u] = "READY" /\ state[u] = "SUSPENDED"
          ELSE AllReady(SemQ(s))[u] = state[u]
    BY <1>1, <1>3, AllReadyMoves
  <2> QED BY <1>3, <2>1
<1>5. OnlyThree'
  BY <1>3, MQNames DEF MQInv, OnlyThree
<1>6. MQTypes'
  <2>1. CASE DestroyNext(t)
    BY <2>1, TypesKept DEF Operation
  <2>2. CASE DestroyFirst(t)
    <3>1. /\ UNCHANGED << ring, item, fault >> /\ num_msgs' = 0
          /\ op' = [op EXCEPT ![t] = "destroy"] /\ step' = [step EXCEPT ![t] = 1]
      BY <2>2 DEF DestroyFirst, Enter
    <3> QED BY <1>1, <3>1 DEF MQTypes, ring
  <2> QED BY <2>1, <2>2
<1>7. /\ op'[t] \in {"none", "destroy"}
      /\ \A u \in Tasks \ {t} : op'[u] = op[u] /\ step'[u] = step[u]
  <2>1. CASE DestroyFirst(t)
    BY <1>1, <2>1 DEF DestroyFirst, Enter, MQTypes
  <2>2. CASE DestroyNext(t)
    BY <1>1, <2>2 DEF DestroyNext, Step, Goto, Leave, Enter, MQTypes
  <2> QED BY <2>1, <2>2
<1>8. \A u \in Tasks : op'[u] # "create"
  BY <1>1, <1>7 DEF Creating
<1>9. Alone' /\ Fresh' /\ ~Ready'
  BY <1>1, <1>8, KernelAssumption DEF Alone, Fresh, Creating, Ready
<1>10. LifeCycle'
  <2> SUFFICES ASSUME NEW u \in Tasks
               PROVE  /\ op'[u] # "none" => state'[u] # "TERM"
                      /\ op'[u] \in Transfers => step'[u] \in 1..9
    BY <1>1, <1>8 DEF LifeCycle
  <2>1. CASE u = t
    BY <1>1, <1>4, <1>7, <2>1 DEF Transfers
  <2>2. CASE u # t
    BY <1>4, <1>7, <2>2 DEF MQInv, LifeCycle
  <2> QED BY <2>1, <2>2
<1> QED BY <1>5, <1>6, <1>9, <1>10 DEF MQInv, Alive, InPlace, BufferUnit, UnitsConserved

LEMMA DestroyGoneInv ==
  ASSUME MQInv, IInv', NEW t \in Tasks, DestroyGone(t)
  PROVE  MQInv'
<1>1. /\ UNCHANGED << life, ring, num_msgs, op, step, item, fault >>
      /\ UNCHANGED << queue, state, counter, destroyed >>
  BY DEF DestroyGone, NullArgument, tcb, sems, mqueue, inside
<1>2. MQTypes' /\ Alone' /\ LifeCycle' /\ Fresh' /\ OnlyThree'
  BY <1>1 DEF MQInv, MQTypes, ring, Alone, Creating, LifeCycle, Fresh, OnlyThree
<1> QED BY <1>1, <1>2, SameSems DEF MQInv
-----------------------------------------------------------------------------
LEMMA InitMQInv == MQInit => MQInv
<1> SUFFICES ASSUME MQInit PROVE MQInv
  OBVIOUS
<1>1. IInv /\ state = [t \in Tasks |-> IF t = Main THEN "READY" ELSE "TERM"]
  BY InitIInv DEF MQInit, Init
<1>2. life = "none" /\ num_msgs = 0 /\ \A t \in Tasks : op[t] = "none"
  BY DEF MQInit
<1>3. MQTypes
  <2>1. 0 \in 0..(MaxMsgs - 1) /\ 0 \in 0..9 /\ 0 \in Int
    BY MQNames
  <2>2. /\ op \in [Tasks -> Transfers \cup {"none", "create", "destroy"}]
        /\ step \in [Tasks -> 0..9] /\ item \in [Tasks -> Msgs \cup {NoMsg}]
        /\ buffer \in [0..(MaxMsgs - 1) -> Msgs \cup {NoMsg}]
    BY <2>1 DEF MQInit
  <2>3. fault \in BOOLEAN
    BY DEF MQInit
  <2> QED BY <2>1, <2>2, <2>3 DEF MQInit, MQTypes
<1>4. Alone /\ LifeCycle /\ Fresh
  BY <1>1, <1>2, KernelAssumption DEF Alone, LifeCycle, Fresh, Transfers
<1>5. OnlyThree
  BY QueueNames DEF MQInit, Init, OnlyThree
<1>6. ~Ready
  BY <1>2 DEF Ready
<1> QED BY <1>1, <1>3, <1>4, <1>5, <1>6
        DEF MQInv, Alive, InPlace, BufferUnit, UnitsConserved

LEMMA StutterInv ==
  ASSUME MQInv, UNCHANGED mqVars
  PROVE  MQInv'
<1>1. /\ UNCHANGED << vars, life, ring, num_msgs, op, step, item, fault >>
      /\ UNCHANGED << queue, state, counter, destroyed >>
  BY DEF mqVars, vars, tcb, sems, mqueue, inside
<1>2. IInv'
  BY <1>1, NextIInv DEF MQInv
<1>3. MQTypes' /\ Alone' /\ LifeCycle' /\ Fresh' /\ OnlyThree'
  BY <1>1 DEF MQInv, MQTypes, ring, Alone, Creating, LifeCycle, Fresh, OnlyThree
<1> QED BY <1>1, <1>2, <1>3, SameSems DEF MQInv

LEMMA NextMQInv == MQInv /\ [MQNext]_mqVars => MQInv'
<1> SUFFICES ASSUME MQInv, [MQNext]_mqVars PROVE MQInv'
  OBVIOUS
<1>1. IInv'
  BY KernelSteps, NextIInv DEF MQInv
<1>2. CASE KernelStep
  BY <1>1, <1>2, KernelStepInv
<1>3. ASSUME NEW t \in Tasks,
             \/ CreateFirst(t) \/ Operation(t) \/ DestroyFirst(t) \/ DestroyGone(t)
             \/ \E o \in Transfers : Call(t, o)
      PROVE  MQInv'
  <2>1. CASE CreateFirst(t) \/ CreateNext(t)
    BY <1>1, <2>1, CreateInv
  <2>2. CASE \/ DownReturn(t) \/ Copy(t) \/ Advance(t) \/ UpReturn(t)
             \/ \E o \in Transfers : Call(t, o)
    BY <1>1, <2>2, QuietStepInv
  <2>3. CASE Down(t)
    BY <1>1, <2>3, DownInv
  <2>4. CASE UpBuffer(t) \/ UpOther(t)
    BY <1>1, <2>4, UpInv
  <2>5. CASE DestroyFirst(t) \/ DestroyNext(t)
    BY <1>1, <2>5, DestroyInv
  <2>6. CASE DestroyGone(t)
    BY <1>1, <2>6, DestroyGoneInv
  <2> QED BY <1>3, <2>1, <2>2, <2>3, <2>4, <2>5, <2>6 DEF Operation, Transfer
<1>4. CASE UNCHANGED mqVars
  BY <1>4, StutterInv
<1> QED BY <1>2, <1>3, <1>4 DEF MQNext

THEOREM QueueInvariant == MQSpec => []MQInv
BY InitMQInv, NextMQInv, PTL DEF MQSpec
-----------------------------------------------------------------------------
LEMMA TypesBounded == MQInv => MQTypeOK
<1> SUFFICES ASSUME MQInv PROVE MQTypeOK
  OBVIOUS
<1>1. MQTypes
  BY DEF MQInv
<1>2. life = "live" => num_msgs \in 0..MaxMsgs
  <2>1. CASE Ready
    <3>1. num_msgs >= 0 /\ MaxMsgs - num_msgs >= 0 /\ num_msgs \in Int /\ MaxMsgs \in Int
      BY <2>1, Numbers
    <3> QED BY <3>1
  <2>2. CASE Creating
    BY <2>2, MQNames DEF MQInv, Fresh
  <2> QED BY <2>1, <2>2 DEF Ready, Creating
<1> QED BY <1>1, <1>2 DEF MQTypes, MQTypeOK

LEMMA NoneStuck == MQInv => NoStandstill
<1> SUFFICES ASSUME MQInv, Ready, \A t \in Tasks : state[t] # "READY"
             PROVE  \/ \A t \in Tasks : state[t] = "SUSPENDED" =>
                                          op[t] = "send" /\ num_msgs = MaxMsgs
                    \/ \A t \in Tasks : state[t] = "SUSPENDED" =>
                                          op[t] = "recv" /\ num_msgs = 0
  BY DEF NoStandstill
<1>1. /\ IInv /\ state \in [Tasks -> {"READY", "SUSPENDED", "TERM"}]
      /\ \A s \in MQSems : s \in Sems /\ ~destroyed[s]
  BY MQNames DEF MQInv, IInv, TypeOK, Alive
<1>2. ASSUME NEW t \in Tasks, state[t] = "SUSPENDED"
      PROVE  Blocked(t, s_buffer) \/ Blocked(t, s_produce) \/ Blocked(t, s_consume)
  <2>1. PICK q \in Queues \ {UserQ} : t \in ToSet(queue[q])
    BY <1>1, <1>2 DEF IInv, StateMatchesQueue
  <2>2. queue[q] # << >>
    BY <2>1 DEF ToSet
  <2>3. q \in {SemQ(s) : s \in MQSems}
    BY <2>1, <2>2 DEF MQInv, OnlyThree
  <2> QED BY <2>1, <2>3 DEF MQSems, Blocked
<1>3. \A t \in Tasks : op[t] # "none" => state[t] = "SUSPENDED"
  BY <1>1 DEF MQInv, LifeCycle
<1>4. \A t \in Tasks :
        /\ Blocked(t, s_produce) => op[t] = "send" /\ step[t] = 2
        /\ Blocked(t, s_consume) => op[t] = "recv" /\ step[t] = 2
        /\ Blocked(t, s_buffer) => op[t] \in Transfers /\ step[t] = 4
  BY DEF MQInv, InPlace
<1>5. Holders = {}
  <2> SUFFICES ASSUME NEW t \in Holders PROVE FALSE
    OBVIOUS
  <2>1. /\ t \in Tasks /\ op[t] \in Transfers /\ step[t] \in 4..7 /\ ~Blocked(t, s_buffer)
    BY DEF Holders
  <2>2. state[t] = "SUSPENDED"
    BY <1>3, <2>1 DEF Transfers
  <2>3. step[t] = 2
    BY <1>2, <1>4, <2>1, <2>2
  <2> QED BY <2>1, <2>3
<1>6. \A t \in Tasks : ~Blocked(t, s_buffer)
  <2>1. Permits(s_buffer) = 1
    BY <1>5, FS_EmptySet, Numbers
  <2>2. counter[s_buffer] >= 0 /\ counter[s_buffer] \in Int
    BY <1>1, <2>1, WaiterCount, MQNames DEF Permits
  <2> QED BY <1>1, <2>2, WaiterCount, MQNames
<1>7. HeldMsgs = {} /\ HeldRoom = {}
  <2> SUFFICES ASSUME NEW t \in HeldMsgs \cup HeldRoom PROVE FALSE
    OBVIOUS
  <2>1. t \in Tasks
    BY DEF HeldMsgs, HeldRoom, Granted, Past
  <2>2. op[t] \in Transfers
    BY DEF HeldMsgs, HeldRoom, Granted, Past, Transfers
  <2>3. state[t] = "SUSPENDED"
    BY <1>3, <2>1, <2>2 DEF Transfers
  <2>4. \/ Blocked(t, s_produce) /\ op[t] = "send" /\ step[t] = 2
        \/ Blocked(t, s_consume) /\ op[t] = "recv" /\ step[t] = 2
    BY <1>2, <1>4, <1>6, <2>1, <2>3
  <2>5. MembersOf(t)
    BY <2>1, Members
  <2> QED BY <2>4, <2>5 DEF MembersOf, OnMsgs, OnRoom
<1>8. num_msgs = Permits(s_consume) /\ MaxMsgs - num_msgs = Permits(s_produce)
      /\ MaxMsgs \in Nat \ {0} /\ num_msgs \in Int
  <2>1. Cardinality(HeldMsgs) = 0 /\ Cardinality(HeldRoom) = 0
    BY <1>7, FS_EmptySet
  <2> QED BY <2>1, Numbers, MQNames
<1>9. \A s \in MQSems : (\E t \in Tasks : Blocked(t, s)) => Permits(s) = 0
  BY <1>1, WaiterCount DEF Permits
<1>10. CASE \E t \in Tasks : Blocked(t, s_produce)
  <2>1. num_msgs = MaxMsgs /\ Permits(s_consume) # 0
    BY <1>8, <1>9, <1>10, MQNames
  <2>2. \A t \in Tasks : ~Blocked(t, s_consume)
    BY <1>9, <2>1, MQNames
  <2> QED BY <1>2, <1>4, <1>6, <2>1, <2>2
<1>11. CASE \A t \in Tasks : ~Blocked(t, s_produce)
  <2>1. (\E t \in Tasks : Blocked(t, s_consume)) => num_msgs = 0
    BY <1>8, <1>9, MQNames
  <2> QED BY <1>2, <1>4, <1>6, <1>11, <2>1
<1> QED BY <1>10, <1>11

(* Every field of the queue and every task's place inside an operation     *)
(* keep their types, and between creation and destruction num_msgs stays   *)
(* within the capacity, for any capacity and any number of tasks.          *)
THEOREM QueueTypes == MQSpec => []MQTypeOK
BY TypesBounded, QueueInvariant, PTL

(* No message and no free place of the queue is lost or counted twice,     *)
(* wherever senders and receivers are preempted: s_consume, s_produce, the *)
(* tasks in transit and num_msgs always add up.                            *)
THEOREM UnitsNeverLost == MQSpec => []UnitsConserved
<1>1. MQInv => UnitsConserved
  BY DEF MQInv
<1> QED BY <1>1, QueueInvariant, PTL

(* Senders and receivers never wait for each other: when nobody is ready,  *)
(* all are senders to a full queue or all are receivers from an empty one. *)
THEOREM NeverAtStandstill == MQSpec => []NoStandstill
BY NoneStuck, QueueInvariant, PTL

-----------------------------------------------------------------------------
(* The queue as a channel: what is in it lies from buffer_head on, and a   *)
(* transfer happens when the index changes.                                *)
(* One turn round the ring. *)
LEMMA Around ==
  ASSUME NEW n \in Nat \ {0}, NEW h \in 0..(n - 1), NEW k \in 0..n
  PROVE  (h + k) % n = IF h + k < n THEN h + k ELSE h + k - n
<1>1. CASE h + k < n
  BY <1>1
<1>2. CASE h + k >= n
  <2>1. h + k - n \in 0..(n - 1)
    BY <1>2
  <2>2. (h + k) % n = h + k - n
    BY <2>1
  <2> QED BY <1>2, <2>2
<1> QED BY <1>1, <1>2

(* Every element of the ring is in a slot of its own, and buffer_index is  *)
(* the slot behind the last.                                               *)
LEMMA Slots ==
  ASSUME NEW n \in Nat \ {0}, NEW h \in 0..(n - 1), NEW k \in 0..n
  PROVE  /\ \A i \in 1..k : (h + i - 1) % n \in 0..(n - 1)
         /\ k < n => \A i \in 1..k : (h + i - 1) % n # (h + k) % n
         /\ k < n => (((h + k) % n) + 1) % n = (h + (k + 1)) % n
         /\ k > 0 => /\ (((h + 1) % n) + (k - 1)) % n = (h + k) % n
                     /\ \A i \in 1..(k - 1) :
                          (((h + 1) % n) + i - 1) % n = (h + (i + 1) - 1) % n
<1> DEFINE Slot(j) == IF h + j < n THEN h + j ELSE h + j - n
<1>1. ASSUME NEW j \in 0..n
      PROVE  (h + j) % n = Slot(j) /\ Slot(j) \in 0..(n - 1)
  <2>1. (h + j) % n = Slot(j)
    BY Around
  <2> QED BY <2>1
<1>2. \A i \in 1..k : i - 1 \in 0..n /\ h + i - 1 = h + (i - 1)
  OBVIOUS
<1>3. \A i \in 1..k : (h + i - 1) % n = Slot(i - 1)
  BY <1>1, <1>2
<1>4. (h + k) % n = Slot(k) /\ Slot(k) \in 0..(n - 1)
  BY <1>1
<1>5. \A i \in 1..k : Slot(i - 1) \in 0..(n - 1)
  BY <1>1, <1>2
<1>6. ASSUME k < n
      PROVE  /\ \A i \in 1..k : (h + i - 1) % n # (h + k) % n
             /\ (((h + k) % n) + 1) % n = (h + (k + 1)) % n
  <2>1. \A i \in 1..k : Slot(i - 1) # Slot(k)
    BY <1>6
  <2>2. (h + (k + 1)) % n = Slot(k + 1)
    BY <1>1, <1>6
  <2>3. (Slot(k) + 1) % n = IF Slot(k) + 1 < n THEN Slot(k) + 1 ELSE Slot(k) + 1 - n
    <3> HIDE DEF Slot
    <3>1. 1 \in 0..n
      OBVIOUS
    <3> QED BY <1>4, <3>1, Around
  <2>4. (Slot(k) + 1) % n = Slot(k + 1)
    BY <1>6, <2>3
  <2> QED BY <1>3, <1>4, <2>1, <2>2, <2>4
<1>7. ASSUME k > 0
      PROVE  /\ (((h + 1) % n) + (k - 1)) % n = (h + k) % n
             /\ \A i \in 1..(k - 1) :
                  (((h + 1) % n) + i - 1) % n = (h + (i + 1) - 1) % n
  <2>1. (h + 1) % n = Slot(1) /\ Slot(1) \in 0..(n - 1)
    BY <1>1
  <2>2. ASSUME NEW j \in 0..n
        PROVE  (Slot(1) + j) % n = IF Slot(1) + j < n THEN Slot(1) + j ELSE Slot(1) + j - n
    <3> HIDE DEF Slot
    <3> QED BY <2>1, Around
  <2>3. \A j \in 0..(n - 1) : (Slot(1) + j) % n = Slot(j + 1)
    BY <2>2
  <2>4. ASSUME NEW j \in 0..(n - 1)
        PROVE  (Slot(1) + j) % n = (h + (j + 1)) % n
    <3>1. j + 1 \in 0..n
      OBVIOUS
    <3>2. (h + (j + 1)) % n = Slot(j + 1)
      BY <3>1, <1>1
    <3> QED BY <2>3, <3>2
  <2>5. k - 1 \in 0..(n - 1) /\ (k - 1) + 1 = k
    BY <1>7
  <2>6. (Slot(1) + (k - 1)) % n = (h + k) % n
    BY <2>4, <2>5
  <2>7. ASSUME NEW i \in 1..(k - 1)
        PROVE  (Slot(1) + i - 1) % n = (h + (i + 1) - 1) % n
    <3>1. /\ i - 1 \in 0..(n - 1) /\ Slot(1) + i - 1 = Slot(1) + (i - 1)
          /\ h + ((i - 1) + 1) = h + (i + 1) - 1
      BY <2>1
    <3> QED BY <3>1, <2>4
  <2> QED BY <2>1, <2>6, <2>7
<1> QED BY <1>3, <1>5, <1>6, <1>7

-----------------------------------------------------------------------------
Contents ==
  IF life = "live"
  THEN [i \in 1..num_msgs |-> buffer[(buffer_head + i - 1) % MaxMsgs]]
  ELSE << >>

(* What a task between its memcpy and its change of the index has copied.  *)
Copied(t) ==
  item[t] = buffer[IF op[t] = "send" THEN buffer_index ELSE buffer_head]

AtIndex(t) == op[t] \in Transfers /\ step[t] = 6

CInv ==
  /\ life = "none" => buffer_head = 0 /\ buffer_index = 0 /\ num_msgs = 0
  /\ life = "live" => buffer_index = (buffer_head + num_msgs) % MaxMsgs
  /\ \A t \in Tasks : op[t] = "send" => item[t] \in Msgs
  /\ life = "live" => \A t \in Tasks : AtIndex(t) => Copied(t)

(* One task at a time is between sem_down(s_buffer) and sem_up(s_buffer).  *)
LEMMA OneHolder ==
  ASSUME MQInv, Ready, NEW t \in Tasks, NEW u \in Tasks,
         op[t] \in Transfers, step[t] \in 5..6,
         op[u] \in Transfers, step[u] \in 5..6
  PROVE  t = u
<1>1. t \in Holders /\ u \in Holders
  BY DEF Holders, MQInv, InPlace
<1>2. Cardinality(Holders) <= 1 /\ Cardinality(Holders) \in Nat /\ IsFiniteSet(Holders)
  BY Numbers, FiniteHeld
<1>3. IsFiniteSet(Holders \ {t}) /\ Cardinality(Holders \ {t}) = Cardinality(Holders) - 1
  BY <1>1, <1>2, FS_RemoveElement
<1>4. Cardinality(Holders \ {t}) = 0
  BY <1>2, <1>3, FS_CardinalityType
<1>5. Holders \ {t} = {}
  BY <1>3, <1>4, FS_EmptySet
<1> QED BY <1>1, <1>5

(* A sender there has room for its message, a receiver one to take. *)
LEMMA RoomAndMessage ==
  ASSUME MQInv, Ready, NEW t \in Tasks, op[t] \in Transfers, step[t] \in 5..6
  PROVE  /\ num_msgs \in 0..MaxMsgs
         /\ op[t] = "send" => num_msgs < MaxMsgs
         /\ op[t] = "recv" => num_msgs > 0
<1>1. ~Blocked(t, s_produce) /\ ~Blocked(t, s_consume)
  BY DEF MQInv, InPlace
<1>2. /\ op[t] = "send" => t \in HeldRoom
      /\ op[t] = "recv" => t \in HeldMsgs
  BY <1>1 DEF HeldRoom, HeldMsgs, Granted
<1>3. /\ op[t] = "send" => Cardinality(HeldRoom) # 0
      /\ op[t] = "recv" => Cardinality(HeldMsgs) # 0
  BY <1>2, FiniteHeld, FS_EmptySet
<1> QED BY <1>3, Numbers

LEMMA ContentsTyped ==
  ASSUME MQInv, life = "live"
  PROVE  /\ num_msgs \in 0..MaxMsgs
         /\ \A i \in 1..num_msgs :
              buffer[(buffer_head + i - 1) % MaxMsgs] \in Msgs \cup {NoMsg}
         /\ Contents \in Seq(Msgs \cup {NoMsg}) /\ Len(Contents) = num_msgs
         /\ DOMAIN Contents = 1..num_msgs
<1>1. num_msgs \in 0..MaxMsgs
  BY TypesBounded DEF MQTypeOK
<1>2. /\ buffer \in [0..(MaxMsgs - 1) -> Msgs \cup {NoMsg}]
      /\ buffer_head \in 0..(MaxMsgs - 1)
  BY DEF MQInv, MQTypes
<1>3. \A i \in 1..num_msgs : (buffer_head + i - 1) % MaxMsgs \in 0..(MaxMsgs - 1)
  BY <1>1, <1>2, MQNames, Slots
<1>4. \A i \in 1..num_msgs :
        buffer[(buffer_head + i - 1) % MaxMsgs] \in Msgs \cup {NoMsg}
  BY <1>2, <1>3
<1>5. Contents = [i \in 1..num_msgs |-> buffer[(buffer_head + i - 1) % MaxMsgs]]
  BY DEF Contents
<1>6. Contents \in Seq(Msgs \cup {NoMsg})
  BY <1>1, <1>4, <1>5
<1> QED BY <1>1, <1>4, <1>5, <1>6

LEMMA ContentsTypedState ==
  MQInv /\ life = "live" =>
    Contents \in Seq(Msgs \cup {NoMsg}) /\ Len(Contents) = num_msgs
BY ContentsTyped

LEMMA ContentsTypedNext ==
  (MQInv /\ life = "live" =>
    Contents \in Seq(Msgs \cup {NoMsg}) /\ Len(Contents) = num_msgs)'
BY ContentsTypedState, PTL

LEMMA InitCInv == MQInit => CInv /\ Chan!Init
<1> SUFFICES ASSUME MQInit PROVE CInv /\ Chan!Init
  OBVIOUS
<1>1. life = "none" /\ \A t \in Tasks : op[t] = "none"
  BY DEF MQInit
<1>2. CInv
  BY <1>1 DEF MQInit, CInv, AtIndex, Transfers
<1>3. Chan!Init
  BY <1>1 DEF MQInit, Chan!Init
<1> QED BY <1>2, <1>3

(* Steps that leave the ring alone. *)
LEMMA RingKept ==
  ASSUME CInv, UNCHANGED mqueue,
         \A u \in Tasks : op'[u] = "send" => item'[u] \in Msgs,
         \A u \in Tasks : AtIndex(u)' =>
           AtIndex(u) /\ op'[u] = op[u] /\ item'[u] = item[u]
  PROVE  CInv' /\ UNCHANGED Contents
<1>1. UNCHANGED << life, buffer, buffer_head, buffer_index, num_msgs >>
  BY DEF mqueue, ring
<1>2. \A u \in Tasks : AtIndex(u) /\ op'[u] = op[u] /\ item'[u] = item[u] =>
        (Copied(u) => Copied(u)')
  BY <1>1 DEF Copied
<1> QED BY <1>1, <1>2 DEF CInv, Contents

(* Steps of one task that leave the ring alone; its own item may change.   *)
LEMMA QuietChannel ==
  ASSUME MQInv, CInv, UNCHANGED mqueue, NEW t \in Tasks, NEW o, NEW n, NEW m,
         m \in Msgs \cup {NoMsg},
         op' = [op EXCEPT ![t] = o], step' = [step EXCEPT ![t] = n],
         item' = [item EXCEPT ![t] = m],
         o = "send" => m \in Msgs,
         ~(o \in Transfers /\ n = 6)
  PROVE  CInv' /\ Chan!Prepare
<1>1. /\ op'[t] = o /\ step'[t] = n /\ item'[t] = m
      /\ \A u \in Tasks \ {t} : /\ op'[u] = op[u] /\ step'[u] = step[u]
                                /\ item'[u] = item[u]
  BY DEF MQInv, MQTypes
<1>2. \A u \in Tasks : op'[u] = "send" => item'[u] \in Msgs
  BY <1>1 DEF CInv
<1>3. \A u \in Tasks : AtIndex(u)' => AtIndex(u) /\ op'[u] = op[u] /\ item'[u] = item[u]
  BY <1>1 DEF AtIndex
<1>4. CInv' /\ UNCHANGED Contents
  BY <1>2, <1>3, RingKept
<1>5. UNCHANGED life
  BY DEF mqueue
<1> QED BY <1>4, <1>5 DEF Chan!Prepare, Contents
-----------------------------------------------------------------------------
ChannelStep == CInv' /\ (Chan!Next \/ UNCHANGED Chan!vars)

LEMMA CallSteps ==
  ASSUME MQInv, CInv, NEW t \in Tasks,
         \/ Down(t) \/ DownReturn(t) \/ UpBuffer(t) \/ UpReturn(t) \/ UpOther(t)
         \/ CreateNext(t) \/ DestroyNext(t)
         \/ \E o \in Transfers : Call(t, o)
  PROVE  ChannelStep
<1>1. UNCHANGED mqueue
  BY DEF Down, DownReturn, UpBuffer, UpReturn, UpOther, CreateNext, DestroyNext, Call
<1>2. /\ op \in [Tasks -> Transfers \cup {"none", "create", "destroy"}]
      /\ step \in [Tasks -> 0..9] /\ item \in [Tasks -> Msgs \cup {NoMsg}]
  BY DEF MQInv, MQTypes
<1>3. ASSUME Leave(t) PROVE ChannelStep
  BY <1>1, <1>3, QuietChannel DEF Leave, Enter, Transfers, ChannelStep, Chan!Next
<1>4. ASSUME NEW n, Step(t, n), n # 6 PROVE ChannelStep
  <2>1. /\ op' = [op EXCEPT ![t] = op[t]] /\ step' = [step EXCEPT ![t] = n]
        /\ item' = [item EXCEPT ![t] = item[t]]
    BY <1>2, <1>4 DEF Step, Goto
  <2>2. item[t] \in Msgs \cup {NoMsg} /\ (op[t] = "send" => item[t] \in Msgs)
    BY <1>2 DEF CInv
  <2>3. CInv' /\ Chan!Prepare
    BY <1>1, <1>4, <2>1, <2>2, QuietChannel
  <2> QED BY <2>3 DEF ChannelStep, Chan!Next
<1>5. ASSUME NEW o \in Transfers, Call(t, o) PROVE ChannelStep
  <2>1. PICK m \in Msgs \cup {NoMsg} :
          item' = [item EXCEPT ![t] = m] /\ (o = "send" => m \in Msgs)
    BY <1>5 DEF Call
  <2>2. op' = [op EXCEPT ![t] = o] /\ step' = [step EXCEPT ![t] = 1]
    BY <1>5 DEF Call, Enter
  <2>3. CInv' /\ Chan!Prepare
    <3>1. ~(o \in Transfers /\ 1 = 6)
      OBVIOUS
    <3> QED BY <1>1, <2>1, <2>2, <3>1, QuietChannel
  <2> QED BY <2>3 DEF ChannelStep, Chan!Next
<1>6. Leave(t) \/ (\E n \in {2, 3, 4, 5, 8, 9} : Step(t, n)) \/ \E o \in Transfers : Call(t, o)
  BY DEF Down, DownReturn, UpBuffer, UpReturn, UpOther, CreateNext, DestroyNext
<1> QED BY <1>3, <1>4, <1>5, <1>6

(* memcpy writes behind the last message, and reads the first. *)
LEMMA CopyStep ==
  ASSUME MQInv, CInv, NEW t \in Tasks, Copy(t)
  PROVE  ChannelStep
<1>1. /\ current = t /\ op[t] \in Transfers /\ step[t] = 5
      /\ UNCHANGED << life, buffer_head, buffer_index, num_msgs >>
  BY DEF Copy, At, Running
<1>2. /\ op \in [Tasks -> Transfers \cup {"none", "create", "destroy"}]
      /\ step \in [Tasks -> 0..9] /\ item \in [Tasks -> Msgs \cup {NoMsg}]
      /\ buffer \in [0..(MaxMsgs - 1) -> Msgs \cup {NoMsg}]
      /\ buffer_head \in 0..(MaxMsgs - 1) /\ buffer_index \in 0..(MaxMsgs - 1)
  BY DEF MQInv, MQTypes
<1>3. CASE life = "freed" /\ UNCHANGED << inside, item, buffer >>
  <2>1. CInv'
    BY <1>1, <1>3 DEF CInv, inside
  <2>2. UNCHANGED Chan!vars
    BY <1>1, <1>3 DEF Chan!vars
  <2> QED BY <2>1, <2>2 DEF ChannelStep
<1>4. CASE life = "live" /\ Goto(t, 6)
  <2>1. Ready
    BY <1>1, <1>4, InTransfer
  <2>2. /\ op' = op /\ step'[t] = 6 /\ \A u \in Tasks \ {t} : step'[u] = step[u]
    BY <1>2, <1>4 DEF Goto
  <2>3. \A u \in Tasks : AtIndex(u)' => u = t
    BY <1>1, <2>1, <2>2, OneHolder DEF AtIndex
  <2>4. CASE op[t] = "send" /\ CopyIn(t)
    <3>1. item' = item /\ buffer' = [buffer EXCEPT ![buffer_index] = item[t]]
      BY <2>4 DEF CopyIn
    <3>2. num_msgs \in 0..MaxMsgs /\ num_msgs < MaxMsgs
      BY <1>1, <2>1, <2>4, RoomAndMessage
    <3>3. /\ buffer_index = (buffer_head + num_msgs) % MaxMsgs
          /\ \A i \in 1..num_msgs :
               (buffer_head + i - 1) % MaxMsgs # (buffer_head + num_msgs) % MaxMsgs
      BY <1>2, <1>4, <3>2, MQNames, Slots, SMTT(30) DEF CInv
    <3>4. \A i \in 1..num_msgs :
            /\ (buffer_head + i - 1) % MaxMsgs \in 0..(MaxMsgs - 1)
            /\ (buffer_head + i - 1) % MaxMsgs # buffer_index
      BY <1>2, <3>2, <3>3, MQNames, Slots
    <3>5. \A i \in 1..num_msgs :
            buffer'[(buffer_head + i - 1) % MaxMsgs]
              = buffer[(buffer_head + i - 1) % MaxMsgs]
      BY <1>2, <3>1, <3>4
    <3>6. UNCHANGED Contents
      BY <1>1, <3>5 DEF Contents
    <3>7. Copied(t)'
      BY <1>1, <1>2, <2>2, <2>4, <3>1 DEF Copied
    <3>8. CInv'
      BY <1>1, <1>4, <2>2, <2>3, <3>1, <3>7 DEF CInv
    <3>9. UNCHANGED Chan!vars
      BY <1>1, <3>1, <3>6 DEF Chan!vars, Contents
    <3> QED BY <3>8, <3>9 DEF ChannelStep
  <2>5. CASE op[t] = "recv" /\ CopyOut(t)
    <3>1. buffer' = buffer /\ item' = [item EXCEPT ![t] = buffer[buffer_head]]
      BY <2>5 DEF CopyOut
    <3>2. buffer[buffer_head] \in Msgs \cup {NoMsg}
      BY <1>2
    <3>3. UNCHANGED Contents
      BY <1>1, <3>1 DEF Contents
    <3>4. Copied(t)'
      BY <1>1, <1>2, <2>2, <2>5, <3>1 DEF Copied
    <3>5. \A u \in Tasks : op'[u] = "send" => item'[u] \in Msgs
      BY <1>2, <2>2, <2>5, <3>1 DEF CInv
    <3>6. CInv'
      BY <1>1, <1>4, <2>3, <3>4, <3>5 DEF CInv
    <3>7. Chan!Prepare
      BY <1>1, <3>1, <3>2, <3>3 DEF Chan!Prepare, Contents
    <3> QED BY <3>6, <3>7 DEF ChannelStep, Chan!Next
  <2> QED BY <1>1, <1>4, <2>4, <2>5 DEF Copy
<1> QED BY <1>3, <1>4 DEF Copy

(* The change of the index is the moment of the transfer. *)
LEMMA AdvanceStep ==
  ASSUME MQInv, MQInv', CInv, NEW t \in Tasks, Advance(t)
  PROVE  ChannelStep
<1>1. /\ current = t /\ op[t] \in Transfers /\ step[t] = 6 /\ Goto(t, 7)
      /\ UNCHANGED << life, buffer, item >>
  BY DEF Advance, At, Running
<1>2. /\ op \in [Tasks -> Transfers \cup {"none", "create", "destroy"}]
      /\ step \in [Tasks -> 0..9] /\ item \in [Tasks -> Msgs \cup {NoMsg}]
      /\ buffer \in [0..(MaxMsgs - 1) -> Msgs \cup {NoMsg}]
      /\ buffer_head \in 0..(MaxMsgs - 1) /\ buffer_index \in 0..(MaxMsgs - 1)
  BY DEF MQInv, MQTypes
<1>3. /\ op' = op /\ step'[t] = 7 /\ \A u \in Tasks \ {t} : step'[u] = step[u]
  BY <1>1, <1>2 DEF Goto
<1>4. ~Creating /\ life \in {"live", "freed"} /\ (Ready <=> life = "live")
  BY <1>1, InTransfer
<1>5. CASE life = "freed"
  <2>1. CInv'
    BY <1>1, <1>3, <1>5 DEF CInv
  <2>2. UNCHANGED Chan!vars
    BY <1>1, <1>5 DEF Chan!vars
  <2> QED BY <2>1, <2>2 DEF ChannelStep
<1>6. CASE life = "live"
  <2>1. \A u \in Tasks : ~AtIndex(u)'
    BY <1>1, <1>3, <1>4, <1>6, OneHolder DEF AtIndex
  <2>2. /\ buffer_index = (buffer_head + num_msgs) % MaxMsgs
        /\ item[t] = buffer[IF op[t] = "send" THEN buffer_index ELSE buffer_head]
        /\ op[t] = "send" => item[t] \in Msgs
    BY <1>1, <1>6 DEF CInv, AtIndex, Copied
  <2>3. /\ num_msgs \in 0..MaxMsgs
        /\ Contents \in Seq(Msgs \cup {NoMsg}) /\ Len(Contents) = num_msgs
        /\ Contents' \in Seq(Msgs \cup {NoMsg}) /\ Len(Contents') = num_msgs'
    <3>1. life' = "live"
      BY <1>1, <1>6
    <3> QED BY <1>6, <3>1, ContentsTyped, ContentsTypedNext
  <2>4. \A i \in 1..num_msgs : Contents[i] = buffer[(buffer_head + i - 1) % MaxMsgs]
    BY <1>6 DEF Contents
  <2>5. \A i \in 1..num_msgs' : Contents'[i] = buffer[(buffer_head' + i - 1) % MaxMsgs]
    BY <1>1, <1>6 DEF Contents
  <2>6. CASE op[t] = "send"
    <3>1. /\ buffer_index' = Successor(buffer_index) /\ num_msgs' = num_msgs + 1
          /\ buffer_head' = buffer_head
      BY <2>6 DEF Advance
    <3>2. num_msgs < MaxMsgs
      BY <1>1, <1>4, <1>6, <2>6, RoomAndMessage
    <3>3. buffer_index' = (buffer_head + (num_msgs + 1)) % MaxMsgs
      <4>1. buffer_index' = (buffer_index + 1) % MaxMsgs
        BY <3>1 DEF Successor
      <4>2. (((buffer_head + num_msgs) % MaxMsgs) + 1) % MaxMsgs
              = (buffer_head + (num_msgs + 1)) % MaxMsgs
        <5>1. /\ MaxMsgs \in Nat \ {0} /\ buffer_head \in 0..(MaxMsgs - 1)
              /\ num_msgs \in 0..MaxMsgs
          BY <1>2, <2>3, MQNames
        <5> QED BY <3>2, <5>1, Slots
      <4> QED BY <2>2, <4>1, <4>2
    <3>4. CInv'
      BY <1>1, <1>3, <1>6, <2>1, <3>1, <3>3 DEF CInv
    <3>5. Contents' = Append(Contents, item[t])
      <4>1. item[t] \in Msgs \cup {NoMsg}
        BY <1>2
      <4>2. /\ Append(Contents, item[t]) \in Seq(Msgs \cup {NoMsg})
            /\ Len(Append(Contents, item[t])) = num_msgs + 1
            /\ \A i \in 1..num_msgs : Append(Contents, item[t])[i] = Contents[i]
            /\ Append(Contents, item[t])[num_msgs + 1] = item[t]
        BY <2>3, <4>1, AppendProperties
      <4>3. Contents'[num_msgs + 1] = item[t]
        <5>1. num_msgs + 1 \in 1..num_msgs' /\ buffer_head + (num_msgs + 1) - 1 = buffer_head + num_msgs
          BY <1>2, <2>3, <3>1
        <5> QED BY <2>2, <2>5, <2>6, <3>1, <5>1
      <4>4. \A i \in 1..num_msgs : Contents'[i] = Contents[i]
        BY <2>3, <2>4, <2>5, <3>1
      <4>5. \A i \in 1..(num_msgs + 1) : Contents'[i] = Append(Contents, item[t])[i]
        BY <2>3, <4>2, <4>3, <4>4
      <4> QED BY <2>3, <3>1, <4>2, <4>5, SeqEqual
    <3>6. Chan!Send(t)
      BY <1>1, <1>6, <2>2, <2>3, <2>6, <3>2, <3>5 DEF Chan!Send, Contents
    <3> QED BY <3>4, <3>6 DEF ChannelStep, Chan!Next
  <2>7. CASE op[t] = "recv"
    <3>1. /\ buffer_head' = Successor(buffer_head) /\ num_msgs' = num_msgs - 1
          /\ buffer_index' = buffer_index
      BY <2>7 DEF Advance
    <3>2. num_msgs > 0
      BY <1>1, <1>4, <1>6, <2>7, RoomAndMessage
    <3>3. /\ (buffer_head' + (num_msgs - 1)) % MaxMsgs = (buffer_head + num_msgs) % MaxMsgs
          /\ \A i \in 1..(num_msgs - 1) :
               (buffer_head' + i - 1) % MaxMsgs = (buffer_head + (i + 1) - 1) % MaxMsgs
      <4>1. buffer_head' = (buffer_head + 1) % MaxMsgs
        BY <3>1 DEF Successor
      <4>2. /\ (((buffer_head + 1) % MaxMsgs) + (num_msgs - 1)) % MaxMsgs
                 = (buffer_head + num_msgs) % MaxMsgs
            /\ \A i \in 1..(num_msgs - 1) :
                 (((buffer_head + 1) % MaxMsgs) + i - 1) % MaxMsgs
                   = (buffer_head + (i + 1) - 1) % MaxMsgs
        <5>1. /\ MaxMsgs \in Nat \ {0} /\ buffer_head \in 0..(MaxMsgs - 1)
              /\ num_msgs \in 0..MaxMsgs
          BY <1>2, <2>3, MQNames
        <5> QED BY <3>2, <5>1, Slots
      <4> QED BY <4>1, <4>2
    <3>4. CInv'
      BY <1>1, <1>3, <1>6, <2>1, <2>2, <3>1, <3>3 DEF CInv
    <3>5. Contents # << >>
      BY <2>3, <3>2
    <3>6. /\ Tail(Contents) \in Seq(Msgs \cup {NoMsg})
          /\ Len(Tail(Contents)) = num_msgs - 1
          /\ \A i \in 1..(num_msgs - 1) : Tail(Contents)[i] = Contents[i + 1]
      BY <2>3, <3>5, HeadTailProperties
    <3>7. \A i \in 1..(num_msgs - 1) : Contents'[i] = Contents[i + 1]
      BY <2>3, <2>4, <2>5, <3>1, <3>3, SMTT(30)
    <3>8. Contents' = Tail(Contents)
      BY <2>3, <3>1, <3>6, <3>7, SeqEqual
    <3>9. Head(Contents) = item[t]
      <4>1. Head(Contents) = Contents[1]
        BY <2>3, <3>5
      <4>2. (buffer_head + 1 - 1) % MaxMsgs = buffer_head
        BY <1>2, MQNames
      <4>3. Contents[1] = buffer[buffer_head]
        BY <2>3, <2>4, <3>2, <4>2
      <4> QED BY <2>2, <2>7, <4>1, <4>3
    <3>10. Chan!Receive(t)
      BY <1>1, <1>6, <3>5, <3>8, <3>9 DEF Chan!Receive, Contents
    <3> QED BY <3>4, <3>10 DEF ChannelStep, Chan!Next
  <2> QED BY <1>1, <2>6, <2>7 DEF Transfers
<1> QED BY <1>4, <1>5, <1>6

(* Creation opens the channel, destruction closes it. *)
LEMMA CreateStep ==
  ASSUME MQInv, CInv, NEW t \in Tasks, CreateFirst(t)
  PROVE  ChannelStep
<1>1. /\ life = "none" /\ life' = "live" /\ op' = [op EXCEPT ![t] = "create"]
      /\ UNCHANGED << buffer, buffer_head, buffer_index, num_msgs, item >>
  BY DEF CreateFirst, Enter, ring
<1>2. \A u \in Tasks : op[u] = "none"
  BY <1>1 DEF MQInv, LifeCycle
<1>3. \A u \in Tasks : op'[u] \in {"none", "create"}
  BY <1>1, <1>2 DEF MQInv, MQTypes
<1>4. (0 + 0) % MaxMsgs = 0
  BY MQNames
<1>5. CInv'
  BY <1>1, <1>3, <1>4 DEF CInv, AtIndex, Transfers
<1>6. Contents' = << >>
  BY <1>1 DEF Contents, CInv
<1>7. Chan!Open
  BY <1>1, <1>6 DEF Chan!Open, Contents
<1> QED BY <1>5, <1>7 DEF ChannelStep, Chan!Next

LEMMA CloseStep ==
  ASSUME MQInv, CInv, NEW t \in Tasks, DestroyFirst(t)
  PROVE  ChannelStep
<1>1. /\ life = "live" /\ life' = "freed" /\ op' = [op EXCEPT ![t] = "destroy"]
      /\ UNCHANGED item
  BY DEF DestroyFirst, Enter
<1>2. \A u \in Tasks : op'[u] = "send" => op[u] = "send"
  BY <1>1 DEF MQInv, MQTypes
<1>3. CInv'
  BY <1>1, <1>2 DEF CInv
<1>4. Chan!Close
  BY <1>1 DEF Chan!Close
<1> QED BY <1>3, <1>4 DEF ChannelStep, Chan!Next

LEMMA StepsOfChannel ==
  MQInv /\ MQInv' /\ CInv /\ [MQNext]_mqVars => CInv' /\ [Chan!Next]_(Chan!vars)
<1> SUFFICES ASSUME MQInv, MQInv', CInv, [MQNext]_mqVars PROVE ChannelStep
  BY DEF ChannelStep
<1>1. ASSUME UNCHANGED << mqueue, inside, item >> PROVE ChannelStep
  <2>1. UNCHANGED << life, buffer, buffer_head, buffer_index, num_msgs, op, step, item >>
    BY <1>1 DEF mqueue, ring, inside
  <2>2. CInv'
    BY <2>1 DEF CInv, AtIndex, Copied
  <2>3. UNCHANGED Chan!vars
    BY <2>1 DEF Chan!vars
  <2> QED BY <2>2, <2>3 DEF ChannelStep
<1>2. CASE KernelStep \/ UNCHANGED mqVars
  BY <1>1, <1>2 DEF KernelStep, mqVars
<1>3. ASSUME NEW t \in Tasks, DestroyGone(t) PROVE ChannelStep
  BY <1>1, <1>3 DEF DestroyGone
<1> QED
  BY <1>2, <1>3, CallSteps, CopyStep, AdvanceStep, CreateStep, CloseStep
     DEF MQNext, Operation, Transfer

(* mqueue_send and mqueue_recv are a bounded FIFO channel, for any number  *)
(* of tasks, any capacity and any messages: none is lost, doubled or       *)
(* overtaken wherever the tasks are preempted, and closing it loses what   *)
(* is in it.                                                               *)
THEOREM QueueImplementsChannel == MQSpec => ImplementsChannel
<1> DEFINE Both == MQInv /\ CInv
<1>1. MQInit => Both /\ Chan!Init
  BY InitMQInv, InitCInv
<1>2. Both /\ [MQNext]_mqVars => Both' /\ [Chan!Next]_(Chan!vars)
  BY NextMQInv, StepsOfChannel
<1>3. MQSpec => Chan!Init /\ [][Chan!Next]_(Chan!vars)
  <2> HIDE DEF Both
  <2> QED BY <1>1, <1>2, PTL DEF MQSpec
<1> QED BY <1>3 DEF ImplementsChannel, Chan!Spec
=============================================================================
