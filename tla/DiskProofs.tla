----------------------------- MODULE DiskProofs -----------------------------
(***************************************************************************)
(* The disk manager for any number of clients, any programs and any size   *)
(* of disk, every race of DiskManager included.  The invariants come in    *)
(* layers, each true up to the races it does not survive: Base, the        *)
(* kernel's state as the manager leaves it, and CountInv, the accounts of  *)
(* num_user_tasks, whatever happens; AccInv, the accounts of s_access,     *)
(* until a signal interrupts the driver in a sem_down that blocks; DevInv, *)
(* the driver and the device, until the first race that carries an         *)
(* operation out twice; WakeInv, that nobody is forgotten, until the first *)
(* race of any kind.                                                       *)
(***************************************************************************)
EXTENDS DiskManager, KernelProofs

AccessQ == SemQ(s_access)
In(q) == ToSet(queue[q])
Booting == place[Main] \in {"boot", "count", "access", "fields"}

TaskTypes ==
  /\ current \in Tasks \cup {Dispatcher}
  /\ num_user_tasks \in Int
  /\ queue \in [Queues -> Seq(Tasks)] /\ Exclusive(queue)
  /\ state \in [Tasks -> {"READY", "SUSPENDED", "TERM"}]
  /\ counter \in [Sems -> Int] /\ destroyed \in [Sems -> BOOLEAN]
  /\ dpc \in {"loop", "switched", "wake", "halted"}
  /\ next_task \in Tasks \cup {NULL}

NoSleepers == queue[SleepQ] = << >> /\ (dpc = "wake" => size = 0)

PlacesOf(t) ==
  IF t = Main THEN {"boot", "count", "access", "fields", "call"}
  ELSE IF t = Driver
    THEN {"down", "test", "ready", "enqueue", "clear", "command", "up", "mark",
          "remove", "yield"}
  ELSE IF t \in Clients
    THEN {"call", "append", "wake", "ready", "enqueue", "up", "mark", "remove",
          "yield", "return"}
  ELSE {"call"}

Roles == \A t \in Tasks : place[t] \in PlacesOf(t)

OnCpu ==
  /\ dpc = "switched" => next_task \in Tasks
  /\ current \in Tasks =>
       /\ dpc = "switched" /\ next_task = current /\ state[current] # "TERM"
       /\ place[current] # "yield" => current \in In(UserQ)

WhoWaits ==
  /\ \A t \in Tasks : In(WaitQ(t)) \subseteq {Main}
  /\ \A s \in Sems : \A t \in In(SemQ(s)) : s = s_access /\ place[t] \in {"append", "test"}

Living ==
  \A t \in Tasks :
    /\ \A q \in Queues : t \in In(q) => state[t] # "TERM" \/ Ending(t)
    /\ Ending(t) => t \in In(UserQ) /\ t # Driver
    /\ place[t] \notin {"call", "down"} => state[t] # "TERM"

Starting ==
  /\ Booting =>
       /\ requests = << >> /\ ~sig_disk /\ handling = {} /\ ~armed
       /\ \A t \in Clients : place[t] = "call" /\ \A q \in Queues : t \notin In(q)
  /\ place[Main] # "boot" => state[Driver] # "TERM"

Asked ==
  \A t \in Tasks : place[t] = "append" =>
    at[t] \in 1..Len(Program[t]) /\ Call(t).block \in Blocks

Strays ==
  \A t \in stray : /\ t = Driver /\ place[t] = "test"
                   /\ \A q \in Queues : t \notin In(q)

Rest == NoSleepers /\ Roles /\ OnCpu /\ WhoWaits /\ Living /\ Starting /\ Asked /\ Strays

Base == ManagerTypes /\ TaskTypes /\ Rest /\ ~destroyed[s_access]

Asker(i) == requests[i].requester

Waits(t) ==
  \/ place[t] \in {"wake", "ready", "enqueue", "up", "mark", "remove"}
  \/ place[t] \in {"yield", "return"} /\ t \notin In(UserQ)

Waking == place[Driver] \in {"ready", "enqueue"}

Requesters ==
  /\ \A i, j \in DOMAIN requests : Asker(i) = Asker(j) => i = j
  /\ \A i \in DOMAIN requests : Waits(Asker(i))
  /\ Waking => /\ first \in Clients /\ Waits(first)
               /\ \A i \in DOMAIN requests : Asker(i) # first

Waiters == Len(queue[AccessQ]) = IF counter[s_access] < 0 THEN -counter[s_access] ELSE 0

Units ==
  IF place[Main] \in {"boot", "count", "access"}
  THEN counter[s_access] <= 0 /\ stray = {} /\ \A t \in Tasks : ~Holds(t)
  ELSE counter[s_access] <= 1 /\ (counter[s_access] = 1 <=> \A t \in Tasks : ~Holds(t))

Exclusively == \A t, u \in Tasks : Holds(t) /\ Holds(u) => t = u

Access == Waiters /\ Units /\ Exclusively

AccInv == "down" \notin races => Access

Alive(t) == state[t] # "TERM" \/ Ending(t)

UserTasks == {t \in Tasks \ {Driver} : Alive(t)}

Extra == IF place[Main] = "count" THEN 1 ELSE 0

Count ==
  /\ num_user_tasks = Cardinality(UserTasks) + Extra
  /\ dpc = "halted" => num_user_tasks = 0

CountInv == Base /\ Requesters /\ Count

Busy == status \in {"READ", "WRITE"}

Serves ==
  /\ ~crashed
  /\ Busy => /\ requests # << >> /\ ~sig_disk /\ handling = {}
             /\ Head(requests).op_type = status
             /\ Head(requests).block = next_block
             /\ Head(requests).buffer = buffer
  /\ HeadDone => requests # << >> /\ ~armed

Device ==
  /\ Serves
  /\ handling \subseteq {current}
  /\ armed <=> Busy
  /\ status = "UNKNOWN" => place[Main] = "boot"
  /\ place[Driver] = "command" => ~HeadDone
  /\ Taken => handling = {} /\ ~armed
  /\ \A c \in Contexts : stage[c] # "raise" => c \in handling /\ sig_disk

DevInv == Intact => Device

Remembered == \A t \in Clients : Waits(t) =>
   \/ \E i \in DOMAIN requests : Asker(i) = t
   \/ Waking /\ first = t

Expected ==
  requests # << >> =>
    \/ armed \/ handling # {} \/ DriverComes \/ WakingDriver
    \/ Taken \/ place[Driver] = "command"

Signalled ==
  /\ HeadDone => place[Driver] \in {"yield", "down", "test"}
  /\ sig_disk /\ handling = {} => DriverComes \/ Taken

Parking ==
  /\ place[Driver] \in {"mark", "remove"} => current = Driver
  /\ place[Driver] = "remove" => state[Driver] = "SUSPENDED"
  /\ place[Driver] \in {"up", "mark", "remove"} => requests = << >> \/ armed

DriverReady ==
  place[Driver] \in {"yield", "down"} /\ Driver \notin In(UserQ) =>
    \/ state[Driver] # "READY"
    \/ \E t \in Clients : place[t] = "enqueue"
    \/ \E c \in handling : stage[c] = "append"

Unpreempted ==
  Booting =>
    /\ place[Driver] = "down"
    /\ IF place[Main] = "boot" THEN state[Driver] = "TERM" ELSE current = Main

Woke ==
  /\ stray = {}
  /\ Remembered /\ Expected /\ Signalled /\ Parking /\ DriverReady

WakeInv == races = {} => Unpreempted /\ Woke
-----------------------------------------------------------------------------
(* Who is who. *)
LEMMA DiskNames ==
  /\ Main \in Tasks /\ Driver \in Tasks /\ Driver # Main
  /\ Dispatcher \notin Tasks /\ NULL \notin Tasks
  /\ Clients \subseteq Tasks \ {Main, Driver}
  /\ \A i \in DOMAIN mover : mover[i] \in Clients
  /\ s_access \in Sems /\ AccessQ \in Queues
  /\ AccessQ # UserQ /\ AccessQ # SleepQ
  /\ \A t \in Tasks : WaitQ(t) # AccessQ
<1>1. mover \in Seq(Tasks \ {Main, Driver})
  BY DiskManagerAssumption
<1>2. \A i \in DOMAIN mover : mover[i] \in Tasks \ {Main, Driver}
  BY <1>1
<1>3. Clients \subseteq Tasks \ {Main, Driver} /\ \A i \in DOMAIN mover : mover[i] \in Clients
  BY <1>2 DEF Clients, ToSet
<1> QED BY <1>3, DiskManagerAssumption, KernelAssumption, QueueNames DEF AccessQ

(* queue_append and queue_remove, whether they refuse or not. *)
Put(D, T, qs, q, e, new) ==
  /\ new \in [D -> Seq(T)] /\ Exclusive(new)
  /\ \A p \in D \ {q} : new[p] = qs[p]
  /\ ToSet(new[q]) = IF \A p \in D : e \notin ToSet(qs[p])
                     THEN ToSet(qs[q]) \cup {e} ELSE ToSet(qs[q])

TakenOut(D, T, qs, q, e, new) ==
  /\ new \in [D -> Seq(T)] /\ Exclusive(new)
  /\ \A p \in D \ {q} : new[p] = qs[p]
  /\ ToSet(new[q]) = ToSet(qs[q]) \ {e}

LEMMA AppendAny ==
  ASSUME NEW D, NEW T, NEW qs \in [D -> Seq(T)], Exclusive(qs), NEW q \in D, NEW e \in T
  PROVE  Put(D, T, qs, q, e, queue_append(qs, q, e))
<1>1. CASE \A p \in D : e \notin ToSet(qs[p])
  <2>1. Appended(D, T, qs, q, e, queue_append(qs, q, e))
    BY <1>1, AppendEffect
  <2> QED BY <1>1, <2>1 DEF Appended, Put
<1>2. CASE ~(\A p \in D : e \notin ToSet(qs[p]))
  <2>1. InSomeQueue(qs, e)
    BY <1>2 DEF InSomeQueue
  <2>2. queue_append(qs, q, e) = qs
    BY <2>1 DEF queue_append
  <2> QED BY <1>2, <2>2 DEF Put
<1> QED BY <1>1, <1>2

LEMMA RemoveAny ==
  ASSUME NEW D, NEW T, NEW qs \in [D -> Seq(T)], Exclusive(qs), NEW q \in D, NEW e \in T
  PROVE  TakenOut(D, T, qs, q, e, queue_remove(qs, q, e))
<1>1. CASE e \in ToSet(qs[q])
  <2>1. Removed(D, T, qs, q, e, queue_remove(qs, q, e))
    BY <1>1, RemoveEffect
  <2> QED BY <2>1 DEF Removed, TakenOut
<1>2. CASE e \notin ToSet(qs[q])
  <2>1. queue_remove(qs, q, e) = qs
    BY <1>2 DEF queue_remove
  <2> QED BY <1>2, <2>1 DEF TakenOut
<1> QED BY <1>1, <1>2

(* Emptying a queue. *)
LEMMA EmptyEffect ==
  ASSUME NEW D, NEW T, NEW qs \in [D -> Seq(T)], Exclusive(qs), NEW q \in D
  PROVE  LET new == [qs EXCEPT ![q] = << >>]
         IN /\ new \in [D -> Seq(T)] /\ Exclusive(new)
            /\ \A p \in D \ {q} : new[p] = qs[p]
            /\ new[q] = << >> /\ ToSet(new[q]) = {}
<1> DEFINE new == [qs EXCEPT ![q] = << >>]
<1>1. << >> \in Seq(T) /\ ToSet(<< >>) = {} /\ NoRepeats(<< >>)
  BY DEF ToSet, NoRepeats
<1>2. /\ new \in [D -> Seq(T)] /\ \A p \in D \ {q} : new[p] = qs[p]
      /\ new[q] = << >>
  BY <1>1
<1>3. \A p \in D : NoRepeats(new[p]) /\ ToSet(new[p]) \subseteq ToSet(qs[p])
  BY <1>1, <1>2 DEF Exclusive
<1>4. \A p, r \in D : p # r => ToSet(new[p]) \cap ToSet(new[r]) = {}
  BY <1>3 DEF Exclusive
<1>5. Exclusive(new)
  BY <1>2, <1>3, <1>4 DEF Exclusive
<1> QED BY <1>1, <1>2, <1>5
-----------------------------------------------------------------------------
(* The task that runs. *)
LEMMA Runner ==
  ASSUME Base, NEW t \in Tasks, current = t
  PROVE  /\ dpc = "switched" /\ next_task = t /\ state[t] # "TERM"
         /\ \A u \in Tasks : ~Ending(u)
         /\ t \notin In(AccessQ)
         /\ place[t] # "yield" =>
              t \in In(UserQ) /\ \A q \in Queues \ {UserQ} : t \notin In(q)
<1>1. /\ dpc = "switched" /\ next_task = t /\ state[t] # "TERM"
      /\ place[t] # "yield" => t \in In(UserQ)
  BY DEF Base, Rest, OnCpu
<1>2. \A u \in Tasks : ~Ending(u)
  BY DiskNames DEF Ending
<1>3. \A q \in Queues \ {UserQ} : In(q) \cap In(UserQ) = {}
  BY QueueNames DEF Base, TaskTypes, Exclusive, In
<1>4. t \notin In(AccessQ)
  BY <1>1, <1>3, DiskNames DEF Base, Rest, WhoWaits, AccessQ
<1> QED BY <1>1, <1>2, <1>3, <1>4

(* Waking a task outside the kernel. *)
LEMMA PutReadyEffect ==
  ASSUME Base, NEW t \in Tasks, PutReady(t)
  PROVE  /\ state' = state
         /\ queue' \in [Queues -> Seq(Tasks)] /\ Exclusive(queue')
         /\ \A p \in Queues \ {UserQ} : queue'[p] = queue[p]
         /\ In(UserQ)' = IF t \notin stray /\ \A p \in Queues : t \notin In(p)
                         THEN In(UserQ) \cup {t} ELSE In(UserQ)
<1>1. /\ UserQ \in Queues /\ queue \in [Queues -> Seq(Tasks)] /\ Exclusive(queue)
      /\ queue' = AppendReady(t) /\ state' = state
  BY QueueNames DEF PutReady, Base, TaskTypes
<1>2. CASE t \in stray
  BY <1>1, <1>2 DEF AppendReady, In
<1>3. CASE t \notin stray
  <2>1. queue' = queue_append(queue, UserQ, t)
    BY <1>1, <1>3 DEF AppendReady
  <2>2. Put(Queues, Tasks, queue, UserQ, t, queue')
    BY <1>1, <2>1, AppendAny
  <2> QED BY <1>1, <1>3, <2>2 DEF Put, In
<1> QED BY <1>2, <1>3

(* A task of the ready queue goes to its end. *)
LEMMA RequeueEffect ==
  ASSUME Base, NEW t \in Tasks, t \in In(UserQ), queue' = Move(queue, UserQ, UserQ, t)
  PROVE  /\ queue' \in [Queues -> Seq(Tasks)] /\ Exclusive(queue')
         /\ \A p \in Queues \ {UserQ} : queue'[p] = queue[p]
         /\ In(UserQ)' = In(UserQ) /\ Len(queue'[UserQ]) = Len(queue[UserQ])
<1> DEFINE mid == queue_remove(queue, UserQ, t)
<1>1. /\ UserQ \in Queues /\ queue \in [Queues -> Seq(Tasks)] /\ Exclusive(queue)
      /\ queue' = queue_append(mid, UserQ, t)
  BY QueueNames DEF Base, TaskTypes, Move
<1>2. Removed(Queues, Tasks, queue, UserQ, t, mid)
  BY <1>1, RemoveEffect DEF In
<1> HIDE DEF mid
<1>3. Appended(Queues, Tasks, mid, UserQ, t, queue')
  BY <1>1, <1>2, AppendEffect DEF Removed
<1>4. Len(queue[UserQ]) \in Nat
  BY <1>1, LenProperties
<1> QED BY <1>1, <1>2, <1>3, <1>4 DEF Removed, Appended, In

(* The running task blocks. *)
LEMMA BlockEffect ==
  ASSUME Base, NEW t \in Tasks, current = t, place[t] # "yield",
         NEW q \in Queues \ {UserQ}, Suspend(t, q)
  PROVE  /\ state' = [state EXCEPT ![t] = "SUSPENDED"] /\ current' = Dispatcher
         /\ queue' \in [Queues -> Seq(Tasks)] /\ Exclusive(queue')
         /\ \A p \in Queues \ {UserQ, q} : queue'[p] = queue[p]
         /\ In(UserQ)' = In(UserQ) \ {t} /\ In(q)' = In(q) \cup {t}
         /\ Len(queue'[q]) = Len(queue[q]) + 1
<1>1. /\ UserQ \in Queues /\ queue \in [Queues -> Seq(Tasks)] /\ Exclusive(queue)
      /\ t \in ToSet(queue[UserQ])
  BY QueueNames, Runner DEF Base, TaskTypes, In
<1>2. Moved(Queues, Tasks, queue, UserQ, q, t, Move(queue, UserQ, q, t))
  BY <1>1, MoveEffect
<1> QED BY <1>2 DEF Suspend, SwitchToDispatcher, Moved, In

(* A unit of s_access goes to the first task that waits for it. *)
LEMMA GrantEffect ==
  ASSUME Base, queue[AccessQ] # << >>, Grant(s_access)
  PROVE  \E e \in In(AccessQ) :
           /\ e \in Tasks /\ state' = [state EXCEPT ![e] = "READY"]
           /\ queue' \in [Queues -> Seq(Tasks)] /\ Exclusive(queue')
           /\ \A p \in Queues \ {UserQ, AccessQ} : queue'[p] = queue[p]
           /\ In(UserQ)' = In(UserQ) \cup {e} /\ In(AccessQ)' = In(AccessQ) \ {e}
           /\ Len(queue'[AccessQ]) = Len(queue[AccessQ]) - 1
<1> DEFINE e == Head(queue[AccessQ])
<1>1. /\ UserQ \in Queues /\ AccessQ \in Queues /\ AccessQ # UserQ
      /\ queue \in [Queues -> Seq(Tasks)] /\ Exclusive(queue)
  BY QueueNames, DiskNames DEF Base, TaskTypes
<1>2. queue[AccessQ] \in Seq(Tasks)
  BY <1>1
<1>3. e = queue[AccessQ][1] /\ 1 \in DOMAIN queue[AccessQ] /\ e \in Tasks
  BY <1>2
<1>4. e \in ToSet(queue[AccessQ])
  BY <1>3 DEF ToSet
<1>5. state' = [state EXCEPT ![e] = "READY"] /\ queue' = Move(queue, AccessQ, UserQ, e)
  BY DEF Grant, AccessQ
<1> HIDE DEF e
<1>6. Moved(Queues, Tasks, queue, AccessQ, UserQ, e, Move(queue, AccessQ, UserQ, e))
  BY <1>1, <1>4, MoveEffect
<1> QED BY <1>3, <1>4, <1>5, <1>6 DEF Moved, In

(* A task is created, in no queue before. *)
LEMMA CreateEffect ==
  ASSUME Base, NEW t \in Tasks, NEW u \in Tasks, TaskCreate(t, u)
  PROVE  /\ current' = current /\ current = t /\ state[u] = "TERM"
         /\ state' = [state EXCEPT ![u] = "READY"]
         /\ num_user_tasks' = num_user_tasks + 1
         /\ UNCHANGED << counter, destroyed, dpc, next_task, size >>
         /\ \A p \in Queues : u \notin In(p)
         /\ queue' \in [Queues -> Seq(Tasks)] /\ Exclusive(queue')
         /\ \A p \in Queues \ {UserQ, WaitQ(u)} : queue'[p] = queue[p]
         /\ In(UserQ)' = In(UserQ) \cup {u} /\ In(WaitQ(u))' = {}
<1> DEFINE mid == [queue EXCEPT ![WaitQ(u)] = << >>]
<1>1. /\ current = t /\ state[u] = "TERM" /\ queue' = queue_append(mid, UserQ, u)
      /\ current' = current /\ state' = [state EXCEPT ![u] = "READY"]
      /\ num_user_tasks' = num_user_tasks + 1
      /\ UNCHANGED << counter, destroyed, dpc, next_task, size >>
  BY DEF TaskCreate, Running, ReturnUnlocked, sems, disp
<1>2. /\ UserQ \in Queues /\ WaitQ(u) \in Queues /\ WaitQ(u) # UserQ
      /\ queue \in [Queues -> Seq(Tasks)] /\ Exclusive(queue)
  BY QueueNames DEF Base, TaskTypes
<1>3. \A p \in Queues : u \notin In(p)
  BY <1>1, Runner DEF Base, Rest, Living
<1>4. /\ mid \in [Queues -> Seq(Tasks)] /\ Exclusive(mid)
      /\ \A p \in Queues \ {WaitQ(u)} : mid[p] = queue[p]
      /\ mid[WaitQ(u)] = << >> /\ ToSet(mid[WaitQ(u)]) = {}
  BY <1>2, EmptyEffect
<1> HIDE DEF mid
<1>5. \A p \in Queues : u \notin ToSet(mid[p])
  BY <1>3, <1>4 DEF In
<1>6. Appended(Queues, Tasks, mid, UserQ, u, queue')
  BY <1>1, <1>2, <1>4, <1>5, AppendEffect
<1> QED BY <1>1, <1>2, <1>3, <1>4, <1>6 DEF Appended, In

(* The dispatcher takes a task that has ended out of the ready queue and   *)
(* brings its joiners back.                                                *)
LEMMA TerminateEffect ==
  ASSUME Base, NEW t \in Tasks, terminate_task(t)
  PROVE  /\ state' = AllReady(WaitQ(t)) /\ num_user_tasks' = num_user_tasks - 1
         /\ queue' \in [Queues -> Seq(Tasks)] /\ Exclusive(queue')
         /\ \A p \in Queues \ {UserQ, WaitQ(t)} : queue'[p] = queue[p]
         /\ In(UserQ)' = (In(UserQ) \cup In(WaitQ(t))) \ {t} /\ In(WaitQ(t))' = {}
<1> DEFINE mid == MoveAll(queue, WaitQ(t), UserQ)
<1>1. /\ UserQ \in Queues /\ WaitQ(t) \in Queues /\ WaitQ(t) # UserQ
      /\ queue \in [Queues -> Seq(Tasks)] /\ Exclusive(queue)
      /\ queue' = queue_remove(mid, UserQ, t)
      /\ state' = AllReady(WaitQ(t)) /\ num_user_tasks' = num_user_tasks - 1
  BY QueueNames DEF Base, TaskTypes, terminate_task
<1>2. MovedAll(Queues, Tasks, queue, WaitQ(t), UserQ, mid)
  BY <1>1, MoveAllEffect
<1> HIDE DEF mid
<1>3. mid \in [Queues -> Seq(Tasks)] /\ Exclusive(mid)
  BY <1>2 DEF MovedAll
<1>4. TakenOut(Queues, Tasks, mid, UserQ, t, queue')
  BY <1>1, <1>3, RemoveAny
<1> QED BY <1>1, <1>2, <1>4 DEF MovedAll, TakenOut, In
-----------------------------------------------------------------------------
(* A step of the running task, which goes on to the place p. *)
Plain(t, p) ==
  /\ place' = [place EXCEPT ![t] = p] /\ p \in PlacesOf(t)
  /\ UNCHANGED << dpc, next_task, size >> /\ current' \in {t, Dispatcher}

(* It enters no queue but that of s_access, or, main alone, that of a join. *)
Entering(t, p) ==
  \A q \in Queues \ {UserQ} : \A u \in Tasks :
    u \in In(q)' => \/ u \in In(q)
                    \/ u = t /\ q = AccessQ /\ p \in {"append", "test"}
                    \/ u = t /\ t = Main /\ \E v \in Tasks : q = WaitQ(v)

(* Nobody ends, and nobody who has not been created becomes ready. *)
NobodyEnds ==
  \A u \in Tasks :
    state'[u] = "TERM" => state[u] = "TERM" /\ (u \in In(UserQ)' => u \in In(UserQ))

StillIdle ==
  Booting' => /\ Booting /\ requests' = << >> /\ ~sig_disk' /\ handling' = {} /\ ~armed'
              /\ \A c \in Clients : c \notin In(UserQ)'

(* Who is linked to himself alone stays so, or nobody is that yet. *)
StrayStays ==
  Strays' \/ (stray' = stray /\ \A u \in stray : u \notin In(UserQ)')

LEMMA RunStep ==
  ASSUME Base, TaskTypes', NEW t \in Tasks, current = t, NEW p, Plain(t, p),
         queue'[SleepQ] = queue[SleepQ], Entering(t, p), NobodyEnds, StillIdle, StrayStays,
         current' = t => p = "yield" \/ t \in In(UserQ)',
         place'[Main] # "boot" => place[Main] # "boot" \/ state'[Driver] # "TERM",
         p = "append" => at'[t] \in 1..Len(Program[t]) /\ Call(t)'.block \in Blocks,
         \A u \in Tasks \ {t} : at'[u] = at[u]
  PROVE  Rest'
<1>1. /\ dpc = "switched" /\ next_task = t /\ state[t] # "TERM"
      /\ \A u \in Tasks : ~Ending(u)
      /\ t \notin In(AccessQ)
  BY Runner
<1>2. /\ place \in [Tasks -> Places]
      /\ place'[t] = p /\ \A u \in Tasks \ {t} : place'[u] = place[u]
      /\ dpc' = "switched" /\ next_task' = t /\ size' = size
  BY <1>1 DEF Base, ManagerTypes, Plain
<1>3. NoSleepers'
  BY <1>1, <1>2 DEF NoSleepers, Base, Rest
<1>4. Roles'
  BY <1>2 DEF Plain, Base, Rest, Roles, PlacesOf
<1>5. OnCpu'
  BY <1>1, <1>2, DiskNames DEF OnCpu, Plain, NobodyEnds
<1>6. WhoWaits'
  <2>1. ASSUME NEW v \in Tasks, NEW u \in In(WaitQ(v))' PROVE u = Main
    <3>1. WaitQ(v) \in Queues \ {UserQ} /\ WaitQ(v) # AccessQ /\ u \in Tasks
      BY <2>1, QueueNames, DiskNames, ElementOfSeq DEF TaskTypes, In, ToSet
    <3> QED BY <3>1, <2>1 DEF Entering, Base, Rest, WhoWaits
  <2>2. ASSUME NEW s \in Sems, NEW u \in In(SemQ(s))'
        PROVE  s = s_access /\ place'[u] \in {"append", "test"}
    <3>1. /\ SemQ(s) \in Queues \ {UserQ} /\ (SemQ(s) = AccessQ => s = s_access)
          /\ \A v \in Tasks : SemQ(s) # WaitQ(v)
      BY QueueNames, DiskNames DEF AccessQ
    <3>2. u \in Tasks
      BY <2>2, <3>1, ElementOfSeq DEF TaskTypes, In, ToSet
    <3>3. CASE u \in In(SemQ(s))
      <4>1. s = s_access /\ place[u] \in {"append", "test"}
        BY <3>3 DEF Base, Rest, WhoWaits
      <4>2. u # t
        BY <3>3, <4>1, <1>1 DEF AccessQ
      <4> QED BY <3>2, <4>1, <4>2, <1>2
    <3> QED BY <3>1, <3>2, <3>3, <2>2, <1>2 DEF Entering
  <2> QED BY <2>1, <2>2 DEF WhoWaits
<1>7. Living'
  <2>1. ASSUME NEW u \in Tasks, NEW q \in Queues, u \in In(q)', state'[u] = "TERM"
        PROVE  FALSE
    <3>1. state[u] = "TERM" /\ u # t /\ \A r \in Queues : u \notin In(r)
      BY <1>1, <2>1 DEF NobodyEnds, Base, Rest, Living
    <3> QED BY <2>1, <3>1 DEF Entering, NobodyEnds
  <2>2. \A u \in Tasks : ~Ending(u)'
    BY <1>1, <1>2 DEF Ending, NobodyEnds
  <2> QED BY <1>1, <1>2, <2>1, <2>2 DEF Living, NobodyEnds, Base, Rest
<1>8. Starting'
  <2>1. state'[Driver] = "TERM" => state[Driver] = "TERM"
    BY DiskNames DEF NobodyEnds
  <2>2. place'[Main] # "boot" => state'[Driver] # "TERM"
    BY <2>1 DEF Base, Rest, Starting
  <2>3. ASSUME Booting', NEW c \in Clients
        PROVE  place'[c] = "call" /\ \A q \in Queues : c \notin In(q)'
    <3>1. /\ place[c] = "call" /\ \A q \in Queues : c \notin In(q)
          /\ c \in Tasks /\ c # Main
      BY <2>3, DiskNames DEF StillIdle, Base, Rest, Starting
    <3>2. c # t
      BY <3>1, Runner, QueueNames
    <3> QED BY <1>2, <2>3, <3>1, <3>2 DEF StillIdle, Entering
  <2> QED BY <2>2, <2>3 DEF Starting, StillIdle
<1>9. Asked'
  <2>1. \A u \in Tasks \ {t} : place'[u] = "append" =>
          at'[u] \in 1..Len(Program[u]) /\ Call(u)'.block \in Blocks
    BY <1>2 DEF Call, Base, Rest, Asked
  <2> QED BY <1>2, <2>1 DEF Asked
<1>10. Strays'
  <2>1. ASSUME NEW u \in stray PROVE u = Driver /\ place[u] = "test" /\ u # t
    BY <2>1, <1>1, <1>2, Runner, QueueNames DEF Base, Rest, Strays
  <2> QED BY <1>2, <2>1, DiskNames DEF StrayStays, Strays, Base, Rest, Entering
<1> QED BY <1>3, <1>4, <1>5, <1>6, <1>7, <1>8, <1>9, <1>10 DEF Rest
-----------------------------------------------------------------------------
(* Base is inductive whatever races occur.  First the steps that move      *)
(* no task.                                                                *)
LEMMA BootingRunner ==
  ASSUME Base, Booting
  PROVE  /\ current \notin Clients
         /\ requests = << >> /\ ~sig_disk /\ handling = {} /\ ~armed
         /\ \A c \in Clients : c \notin In(UserQ)
<1>1. /\ requests = << >> /\ ~sig_disk /\ handling = {} /\ ~armed
      /\ \A c \in Clients : place[c] = "call" /\ c \notin In(UserQ)
  BY QueueNames DEF Base, Rest, Starting
<1>2. current \in Tasks => current \in In(UserQ) \/ place[current] = "yield"
  BY DEF Base, Rest, OnCpu
<1> QED BY <1>1, <1>2, DiskNames

LEMMA PlaceTypes ==
  ASSUME ManagerTypes, NEW t \in Tasks, NEW p, Plain(t, p)
  PROVE  /\ place' \in [Tasks -> Places]
         /\ place'[t] = p /\ \A u \in Tasks \ {t} : place'[u] = place[u]
<1>1. p \in Places
  BY DEF Plain, PlacesOf, Places
<1> QED BY <1>1 DEF Plain, ManagerTypes

(* Tasks are marked ready or suspended. *)
Marks ==
  /\ state' \in [Tasks -> {"READY", "SUSPENDED", "TERM"}]
  /\ \A u \in Tasks : state'[u] = "TERM" => state[u] = "TERM"

LEMMA QuietBase ==
  ASSUME Base, NEW t \in Tasks, current = t, NEW p, Plain(t, p), ManagerTypes',
         UNCHANGED << queue, destroyed, stray >>,
         counter' \in [Sems -> Int], num_user_tasks' \in Int,
         state' = state \/ Marks,
         current' = Dispatcher \/ place[t] # "yield",
         t = Main => \/ p = place[t]
                     \/ place[t] # "boot" /\ (p # "call" => place[t] # "call"),
         Booting' => UNCHANGED << requests, sig_disk, handling, armed >>,
         p = "append" => at'[t] \in 1..Len(Program[t]) /\ Call(t)'.block \in Blocks,
         \A u \in Tasks \ {t} : at'[u] = at[u]
  PROVE  Base'
<1>1. /\ place'[t] = p /\ \A u \in Tasks \ {t} : place'[u] = place[u]
  BY PlaceTypes DEF Base
<1>2. /\ state' \in [Tasks -> {"READY", "SUSPENDED", "TERM"}]
      /\ \A u \in Tasks : state'[u] = "TERM" => state[u] = "TERM"
      /\ state[Driver] # "TERM" => state'[Driver] # "TERM"
  BY DiskNames DEF Base, TaskTypes, Marks
<1>3. TaskTypes'
  BY <1>2 DEF Base, TaskTypes, Plain
<1>4. Entering(t, p) /\ NobodyEnds /\ queue'[SleepQ] = queue[SleepQ]
      /\ \A u \in Tasks : u \in In(UserQ)' <=> u \in In(UserQ)
  BY <1>2 DEF Entering, NobodyEnds, In
<1>5. StillIdle
  <2>1. Booting' => Booting
    BY <1>1, DiskNames DEF Booting, Base, Rest, Roles, PlacesOf
  <2> QED BY <2>1, <1>4, BootingRunner, DiskNames DEF StillIdle
<1>6. current' = t => p = "yield" \/ t \in In(UserQ)'
  BY Runner, DiskNames, <1>4
<1>7. place'[Main] # "boot" => place[Main] # "boot" \/ state'[Driver] # "TERM"
  BY <1>1, DiskNames
<1>8. StrayStays
  BY QueueNames DEF StrayStays, Base, Rest, Strays, In
<1>9. Rest'
  BY <1>3, <1>4, <1>5, <1>6, <1>7, <1>8, RunStep DEF Base
<1> QED BY <1>3, <1>9 DEF Base

LEMMA MyPlaces ==
  /\ PlacesOf(Main) = {"boot", "count", "access", "fields", "call"}
  /\ PlacesOf(Driver) = {"down", "test", "ready", "enqueue", "clear", "command",
                         "up", "mark", "remove", "yield"}
  /\ \A t \in Clients : PlacesOf(t) = {"call", "append", "wake", "ready", "enqueue",
                                       "up", "mark", "remove", "yield", "return"}
<1>1. \A t \in Clients : t # Main /\ t # Driver
  BY DiskNames
<1> QED BY <1>1, DiskNames DEF PlacesOf

(* Where a task of the manager stands, and goes. *)
LEMMA Step ==
  ASSUME Base, NEW t \in Tasks, NEW from, At(t, from), NEW p \in PlacesOf(t),
         place' = [place EXCEPT ![t] = p], UNCHANGED disp,
         current' \in {current, Dispatcher}
  PROVE  current = t /\ place[t] = from /\ from \in PlacesOf(t) /\ Plain(t, p)
BY DEF At, Running, Plain, disp, Base, Rest, Roles

LEMMA BootQuietBase ==
  ASSUME Base, UncountDriver \/ InitFields
  PROVE  Base'
<1>1. Main \in Tasks /\ UNCHANGED << queue, tcb, sems, disp, current, device,
                       num_blocks, sig_disk, first, at, stray, handling, stage, crashed >>
      /\ num_user_tasks' \in Int
  BY DiskNames DEF UncountDriver, InitFields, Goto, ReturnUnlocked, cpu, manager,
                   Base, TaskTypes
<1>2. CASE UncountDriver
  <2>1. Plain(Main, "access") /\ current = Main /\ place[Main] = "count"
    BY <1>1, <1>2, MyPlaces, Step DEF UncountDriver, Goto
  <2>2. ManagerTypes'
    BY <1>1, <1>2, <2>1, PlaceTypes DEF UncountDriver, Base, ManagerTypes, device, pending, manager
  <2> QED BY <1>1, <1>2, <2>1, <2>2, QuietBase
      DEF UncountDriver, manager, device, pending, tcb, sems, Base, TaskTypes
<1>3. CASE InitFields
  <2>1. Plain(Main, "call") /\ current = Main /\ place[Main] = "fields"
    BY <1>1, <1>3, MyPlaces, Step DEF InitFields, Goto
  <2>2. ManagerTypes'
    <3>1. requests' \in Seq([requester : Clients, op_type : {"READ", "WRITE"},
                             block : Blocks, buffer : Buffers])
      BY <1>3 DEF InitFields
    <3> QED BY <1>1, <2>1, <3>1, PlaceTypes DEF Base, ManagerTypes, device, pending
  <2>3. ~Booting'
    BY <1>1, <2>1, PlaceTypes DEF Base, Booting
  <2> QED BY <1>1, <2>1, <2>2, <2>3, QuietBase DEF tcb, sems, Base, TaskTypes
<1> QED BY <1>2, <1>3

LEMMA NextCallAt ==
  ASSUME ManagerTypes, NEW t \in Tasks, NextCall(t)
  PROVE  /\ at' \in [Tasks -> Nat \ {0}] /\ \A u \in Tasks \ {t} : at'[u] = at[u]
         /\ at'[t] = at[t] + 1
BY DEF ManagerTypes, NextCall

LEMMA ReturnBase ==
  ASSUME Base, NEW t \in Clients \cup {Driver}, Return(t)
  PROVE  Base'
<1>1. /\ t \in Tasks /\ At(t, "return") /\ NextCall(t)
      /\ UNCHANGED << vars, device, manager, stray, handling, stage, crashed >>
  BY DiskNames DEF Return
<1>2. t \in Clients
  BY <1>1, DiskNames DEF At, Base, Rest, Roles, PlacesOf
<1>3. Plain(t, "call") /\ current = t /\ place[t] = "return"
  BY <1>1, <1>2, MyPlaces, Step DEF NextCall, vars, cpu
<1>4. ManagerTypes'
  BY <1>1, <1>3, PlaceTypes, NextCallAt DEF Base, ManagerTypes, device, pending, manager
<1> QED BY <1>1, <1>2, <1>3, <1>4, NextCallAt, QuietBase, DiskNames
    DEF Base, vars, cpu, tcb, sems, device, pending, manager, TaskTypes

LEMMA MarkBase ==
  ASSUME Base, NEW t \in Clients \cup {Driver}, Mark(t) \/ Yield(t)
  PROVE  Base'
<1>1. /\ t \in Tasks \ {Main}
      /\ UNCHANGED << num_user_tasks, queue, sems, disp, device, manager, at, stray,
                      handling, stage, crashed >>
      /\ state' = state \/ Marks
      /\ current' \in {current, Dispatcher} /\ (Yield(t) => current' = Dispatcher)
  BY DiskNames DEF Mark, Yield, Goto, KernelSame, cpu, TaskYield, SwitchToDispatcher, tcb,
                   At, Running, Marks, Base, TaskTypes
<1> DEFINE p == IF Mark(t) THEN "remove" ELSE IF t = Driver THEN "down" ELSE "return"
<1>2. /\ p \in PlacesOf(t) /\ place' = [place EXCEPT ![t] = p]
      /\ (At(t, "mark") /\ Mark(t)) \/ (At(t, "yield") /\ Yield(t))
  BY DiskNames, MyPlaces DEF Mark, Yield, Goto
<1>3. /\ Plain(t, p) /\ current = t /\ p # "append"
      /\ (place[t] = "mark" /\ Mark(t)) \/ (place[t] = "yield" /\ Yield(t))
  BY <1>1, <1>2, Step
<1>4. ManagerTypes'
  BY <1>1, <1>3, PlaceTypes DEF Base, ManagerTypes, device, pending, manager
<1> HIDE DEF p
<1>5. current' = Dispatcher \/ place[t] # "yield"
  BY <1>1, <1>3
<1> QED
  BY <1>1, <1>3, <1>4, <1>5, QuietBase DEF Base, sems, device, pending, manager, TaskTypes

LEMMA EnterQueueBase ==
  ASSUME Base, NEW t \in Clients \cup {Driver}, EnterQueue(t)
  PROVE  Base'
<1> DEFINE r == [requester |-> t, op_type |-> Call(t).op_type,
                 block |-> Call(t).block, buffer |-> Call(t).buffer]
<1>1. /\ t \in Tasks /\ At(t, "append") /\ requests' = Append(requests, r)
      /\ UNCHANGED << vars, device, num_blocks, sig_disk, first, at, stray, handling, stage, crashed >>
      /\ place' = [place EXCEPT ![t] = "wake"]
  BY DiskNames DEF EnterQueue, Goto
<1>2. t \in Clients /\ t # Main /\ t # Driver
  BY <1>1, DiskNames DEF At, Base, Rest, Roles, PlacesOf
<1>3. Plain(t, "wake") /\ current = t /\ place[t] = "append"
  BY <1>1, <1>2, MyPlaces, Step DEF vars, cpu
<1>4. r \in [requester : Clients, op_type : {"READ", "WRITE"},
             block : Blocks, buffer : Buffers]
  <2>1. at[t] \in 1..Len(Program[t]) /\ Call(t).block \in Blocks
    BY <1>1, <1>3 DEF Base, Rest, Asked
  <2>2. Program[t] \in Seq([op_type : {"READ", "WRITE"}, block : Int, buffer : Buffers])
    BY <1>2, DiskManagerAssumption
  <2>3. Call(t) \in [op_type : {"READ", "WRITE"}, block : Int, buffer : Buffers]
    BY <2>1, <2>2, ElementOfSeq DEF Call
  <2> QED BY <1>2, <2>1, <2>3
<1> HIDE DEF r
<1>5. ManagerTypes'
  <2>1. requests' \in Seq([requester : Clients, op_type : {"READ", "WRITE"},
                           block : Blocks, buffer : Buffers])
    BY <1>1, <1>4 DEF Base, ManagerTypes
  <2> QED BY <1>1, <1>3, <2>1, PlaceTypes DEF Base, ManagerTypes, device, pending
<1>6. ~Booting'
  BY <1>2, <1>3, BootingRunner, PlaceTypes, DiskNames DEF Base, Booting
<1> QED BY <1>1, <1>2, <1>3, <1>5, <1>6, QuietBase DEF Base, vars, cpu, tcb, sems, TaskTypes

LEMMA DriverQuietBase ==
  ASSUME Base, DriverCommand
  PROVE  Base'
<1>1. /\ Driver \in Tasks \ {Main} /\ At(Driver, "command")
      /\ UNCHANGED << vars, manager, at, stray, handling, stage, crashed >>
      /\ place' = [place EXCEPT ![Driver] = "up"]
      /\ \/ status = "IDLE" /\ requests # << >>
            /\ disk_cmd(Head(requests).op_type, Head(requests).block, Head(requests).buffer)
         \/ UNCHANGED device
  BY DiskNames DEF DriverCommand, Goto
<1>2. Plain(Driver, "up") /\ current = Driver /\ place[Driver] = "command"
  BY <1>1, MyPlaces, Step DEF vars, cpu
<1>3. Booting' => UNCHANGED device
  <2>1. Booting' => Booting
    BY <1>1, <1>2, PlaceTypes DEF Base, Booting
  <2> QED BY <1>1, <2>1, BootingRunner
<1>4. /\ status' \in Status /\ next_block' \in Blocks \cup {0} /\ buffer' \in Buffers
      /\ armed' \in BOOLEAN /\ (armed' => next_block' \in Blocks)
      /\ UNCHANGED << contents, memory >>
  <2>1. CASE UNCHANGED device
    BY <2>1 DEF Base, ManagerTypes, device, pending
  <2>2. CASE /\ requests # << >>
             /\ disk_cmd(Head(requests).op_type, Head(requests).block, Head(requests).buffer)
    <3>1. Head(requests) \in [requester : Clients, op_type : {"READ", "WRITE"},
                              block : Blocks, buffer : Buffers]
      BY <2>2, HeadTailProperties DEF Base, ManagerTypes
    <3> QED BY <2>2, <3>1 DEF disk_cmd, disk_settimer, pending, Base, ManagerTypes, Status
  <2> QED BY <1>1, <2>1, <2>2
<1>5. ManagerTypes'
  BY <1>1, <1>2, <1>4, PlaceTypes DEF Base, ManagerTypes, manager
<1> QED BY <1>1, <1>2, <1>3, <1>5, QuietBase
    DEF Base, vars, cpu, tcb, sems, device, pending, manager, TaskTypes
-----------------------------------------------------------------------------
(* The steps of a task that move tasks between the queues. *)
Aside == UNCHANGED << requests, sig_disk, handling, armed >>

(* Only e may become ready, and only by being marked so. *)
Moves(e) ==
  /\ queue' \in [Queues -> Seq(Tasks)] /\ Exclusive(queue')
  /\ queue'[SleepQ] = queue[SleepQ]
  /\ In(UserQ)' \subseteq In(UserQ) \cup {e}
  /\ \/ state' = [state EXCEPT ![e] = "READY"]
     \/ state' = state /\ state[e] # "TERM"
     \/ /\ state' \in {state, [state EXCEPT ![e] = "SUSPENDED"]}
        /\ In(UserQ)' \subseteq In(UserQ)

LEMMA MovingBase ==
  ASSUME Base, NEW t \in Tasks, current = t, NEW p, Plain(t, p), ManagerTypes',
         NEW e \in Tasks, Moves(e), Entering(t, p),
         Booting' => Booting /\ Aside,
         Booting' => e \notin Clients \/ In(UserQ)' \subseteq In(UserQ),
         \/ Strays'
         \/ stray' = stray /\ (e \notin stray \/ In(UserQ)' \subseteq In(UserQ)),
         counter' \in [Sems -> Int], destroyed' \in [Sems -> BOOLEAN], ~destroyed'[s_access],
         num_user_tasks' \in Int,
         current' = t => p = "yield" \/ t \in In(UserQ)',
         place'[Main] # "boot" => place[Main] # "boot" \/ state'[Driver] # "TERM",
         p = "append" => at'[t] \in 1..Len(Program[t]) /\ Call(t)'.block \in Blocks,
         \A u \in Tasks \ {t} : at'[u] = at[u]
  PROVE  Base'
<1>1. /\ state' \in [Tasks -> {"READY", "SUSPENDED", "TERM"}]
      /\ \A u \in Tasks : state'[u] = "TERM" => state[u] = "TERM"
      /\ In(UserQ)' \subseteq In(UserQ) \/ state'[e] # "TERM"
      /\ In(UserQ)' \subseteq In(UserQ) \cup {e}
  BY DEF Base, TaskTypes, Moves
<1>2. TaskTypes'
  BY <1>1 DEF Base, TaskTypes, Plain, Moves
<1>3. NobodyEnds
  BY <1>1 DEF NobodyEnds
<1>4. StillIdle
  BY <1>1, BootingRunner DEF StillIdle, Aside
<1>5. StrayStays
  BY <1>1, QueueNames DEF StrayStays, Base, Rest, Strays
<1>6. Rest'
  BY <1>2, <1>3, <1>4, <1>5, RunStep DEF Moves
<1> QED BY <1>2, <1>6 DEF Base

(* What nothing outside disk_mgr_init undoes. *)
LEMMA BootingStays ==
  ASSUME Base, NEW t \in Tasks, current = t, NEW p, Plain(t, p),
         t = Main => place[Main] # "boot" /\ (p # "call" => place[Main] # "call")
  PROVE  /\ Booting' => Booting /\ t \notin Clients
         /\ place'[Main] # "boot" => place[Main] # "boot"
<1>1. /\ place'[t] = p /\ \A u \in Tasks \ {t} : place'[u] = place[u]
  BY PlaceTypes DEF Base
<1>2. place[Main] \in PlacesOf(Main) /\ p \in PlacesOf(t)
  BY DiskNames DEF Base, Rest, Roles, Plain
<1> QED BY <1>1, <1>2, MyPlaces, DiskNames, BootingRunner DEF Booting

LEMMA SemDownBase ==
  ASSUME Base, NEW t \in Tasks \ {Main}, NEW p \in {"append", "test"}, p \in PlacesOf(t),
         NEW from \in {"call", "down"}, At(t, from), SemDown(t, s_access), Goto(t, p),
         UNCHANGED << device, manager, stray, handling, stage, crashed >>,
         p = "append" => at[t] \in 1..Len(Program[t]) /\ Call(t).block \in Blocks
  PROVE  Base'
<1>1. /\ UNCHANGED << num_user_tasks, destroyed, disp, at >>
      /\ counter' = [counter EXCEPT ![s_access] = @ - 1]
      /\ \/ counter'[s_access] < 0 /\ Suspend(t, AccessQ)
         \/ counter'[s_access] >= 0 /\ ReturnUnlocked /\ UNCHANGED << queue, state >>
      /\ place' = [place EXCEPT ![t] = p]
  BY DEF SemDown, Goto, AccessQ
<1>2. current' \in {current, Dispatcher}
  BY <1>1 DEF Suspend, SwitchToDispatcher, ReturnUnlocked
<1>3. Plain(t, p) /\ current = t /\ place[t] = from
  BY <1>1, <1>2, Step
<1>4. ManagerTypes'
  BY <1>1, <1>3, PlaceTypes DEF Base, ManagerTypes, device, pending, manager
<1>5. /\ counter' \in [Sems -> Int] /\ counter[s_access] \in Int
      /\ counter'[s_access] = counter[s_access] - 1
  BY <1>1, DiskNames DEF Base, TaskTypes
<1>6. Booting' => Booting /\ t \notin Clients /\ Aside
  BY <1>3, BootingStays DEF Aside, device, pending, manager
<1>7. place'[Main] # "boot" => place[Main] # "boot"
  BY <1>3, BootingStays
<1>8. p = "append" => at'[t] \in 1..Len(Program[t]) /\ Call(t)'.block \in Blocks
  BY <1>1 DEF Call
<1>9. CASE counter'[s_access] < 0 /\ Suspend(t, AccessQ)
  <2>1. /\ state' = [state EXCEPT ![t] = "SUSPENDED"] /\ current' = Dispatcher
        /\ queue' \in [Queues -> Seq(Tasks)] /\ Exclusive(queue')
        /\ \A q \in Queues \ {UserQ, AccessQ} : queue'[q] = queue[q]
        /\ In(UserQ)' = In(UserQ) \ {t} /\ In(AccessQ)' = In(AccessQ) \cup {t}
        /\ Len(queue'[AccessQ]) = Len(queue[AccessQ]) + 1
    BY <1>3, <1>9, BlockEffect, DiskNames
  <2>2. Entering(t, p) /\ Moves(t)
    BY <2>1, DiskNames, QueueNames DEF Entering, Moves, In
  <2>3. In(UserQ)' \subseteq In(UserQ)
    BY <2>1
  <2> QED BY <1>1, <1>3, <1>4, <1>5, <1>6, <1>7, <1>8, <2>1, <2>2, <2>3,
             MovingBase, DiskNames DEF Base, TaskTypes
<1>10. CASE counter'[s_access] >= 0 /\ ReturnUnlocked /\ UNCHANGED << queue, state >>
  BY <1>1, <1>3, <1>4, <1>5, <1>6, <1>8, <1>10, QuietBase
      DEF Base, TaskTypes, Aside
<1> QED BY <1>1, <1>9, <1>10

LEMMA AskBase ==
  ASSUME Base, NEW t \in Clients, Ask(t)
  PROVE  Base'
<1>1. /\ t \in Tasks \ {Main} /\ At(t, "call") /\ at[t] \in Nat \ {0}
      /\ at[t] <= Len(Program[t])
      /\ UNCHANGED << device, manager, stray, handling, stage, crashed >>
  BY DiskNames DEF Ask, Base, ManagerTypes
<1>2. Len(Program[t]) \in Nat
  BY DiskManagerAssumption, LenProperties
<1>3. CASE InRange(t) /\ SemDown(t, s_access) /\ Goto(t, "append")
  <2>1. num_blocks \in {0, NumBlocks} /\ NumBlocks \in Nat
    BY DiskAssumption DEF Base, ManagerTypes
  <2>2. Call(t).block \in Blocks
    BY <1>3, <2>1 DEF InRange, Blocks
  <2>3. at[t] \in 1..Len(Program[t])
    BY <1>1, <1>2
  <2> QED BY <1>1, <1>3, <2>2, <2>3, MyPlaces, SemDownBase
<1>4. CASE NextCall(t) /\ UNCHANGED vars
  <2>1. Plain(t, "call") /\ current = t /\ place[t] = "call"
    BY <1>1, <1>4, MyPlaces, Step DEF NextCall, vars, cpu
  <2>2. ManagerTypes'
    BY <1>1, <1>4, <2>1, PlaceTypes, NextCallAt DEF Base, ManagerTypes, device, pending, manager
  <2>3. Booting' => Aside
    BY <1>1 DEF Aside, device, pending, manager
  <2> QED BY <1>1, <1>4, <2>1, <2>2, <2>3, NextCallAt, QuietBase
      DEF Base, vars, cpu, tcb, sems, TaskTypes, Aside
<1> QED BY <1>3, <1>4 DEF Ask

LEMMA DriverDownBase ==
  ASSUME Base, DriverDown
  PROVE  Base'
BY DiskNames, MyPlaces, SemDownBase DEF DriverDown

LEMMA UpBase ==
  ASSUME Base, NEW t \in Clients \cup {Driver}, Up(t)
  PROVE  Base'
<1>1. /\ t \in Tasks \ {Main} /\ At(t, "up")
      /\ UNCHANGED << num_user_tasks, destroyed, disp, at, current, device, manager, stray,
                      handling, stage >>
  BY DiskNames DEF Up, SemUp, Goto, ReturnUnlocked, vars, cpu, sems, code
<1>2. CASE NoWaiter
  <2>1. /\ UNCHANGED << vars, code >> /\ crashed' = TRUE
    BY <1>2 DEF Up
  <2>2. Plain(t, place[t]) /\ current = t /\ place[t] = "up"
    BY <1>1, <2>1 DEF At, Running, Plain, Base, ManagerTypes, Rest, Roles, disp, code
  <2>3. ManagerTypes'
    BY <1>1, <2>1 DEF Base, ManagerTypes, device, pending, manager, code
  <2> QED BY <1>1, <2>1, <2>2, <2>3, QuietBase
      DEF Base, vars, cpu, tcb, sems, device, pending, manager, code, TaskTypes
<1>3. CASE ~NoWaiter
  <2>1. /\ counter' = [counter EXCEPT ![s_access] = @ + 1]
        /\ \/ counter'[s_access] <= 0 /\ Grant(s_access)
           \/ counter'[s_access] > 0 /\ UNCHANGED << queue, state >>
        /\ place' = [place EXCEPT ![t] = "mark"] /\ UNCHANGED crashed
    BY <1>3 DEF Up, SemUp, Goto
  <2>2. Plain(t, "mark") /\ current = t /\ place[t] = "up"
    BY <1>1, <2>1, MyPlaces, Step
  <2>3. ManagerTypes'
    BY <1>1, <2>1, <2>2, PlaceTypes DEF Base, ManagerTypes, device, pending, manager
  <2>4. /\ counter' \in [Sems -> Int] /\ counter[s_access] \in Int
        /\ counter'[s_access] = counter[s_access] + 1
    BY <2>1, DiskNames DEF Base, TaskTypes
  <2>5. Booting' => Booting /\ Aside
    BY <1>1, <2>2, BootingStays DEF Aside, device, pending, manager
  <2>6. place'[Main] # "boot" => place[Main] # "boot"
    BY <1>1, <2>2, BootingStays
  <2>7. CASE counter'[s_access] > 0 /\ UNCHANGED << queue, state >>
    BY <1>1, <2>1, <2>2, <2>3, <2>4, <2>5, <2>7, QuietBase DEF Base, TaskTypes, Aside
  <2>8. CASE counter'[s_access] <= 0 /\ Grant(s_access)
    <3>0. queue[AccessQ] # << >>
      BY <1>3, <2>4, <2>8 DEF NoWaiter, AccessQ
    <3>1. PICK e \in In(AccessQ) :
             /\ e \in Tasks /\ state' = [state EXCEPT ![e] = "READY"]
             /\ queue' \in [Queues -> Seq(Tasks)] /\ Exclusive(queue')
             /\ \A p \in Queues \ {UserQ, AccessQ} : queue'[p] = queue[p]
             /\ In(UserQ)' = In(UserQ) \cup {e} /\ In(AccessQ)' = In(AccessQ) \ {e}
             /\ Len(queue'[AccessQ]) = Len(queue[AccessQ]) - 1
      BY <2>8, <3>0, GrantEffect
    <3>2. (Booting => e \notin Clients) /\ e \notin stray
      BY <3>1, DiskNames DEF Base, Rest, Starting, Strays
    <3>3. Entering(t, "mark") /\ Moves(e)
      BY <3>1, DiskNames, QueueNames DEF Entering, Moves, In
    <3>4. t \in In(UserQ)'
      BY <1>1, <2>2, <3>1, Runner
    <3> QED BY <1>1, <2>1, <2>2, <2>3, <2>4, <2>5, <2>6, <3>1, <3>2, <3>3, <3>4,
               MovingBase DEF Base, TaskTypes
  <2> QED BY <2>1, <2>7, <2>8
<1> QED BY <1>2, <1>3

(* A task woken outside the kernel. *)
LEMMA PutReadyMoves ==
  ASSUME Base, NEW e \in Tasks, state[e] # "TERM", PutReady(e)
  PROVE  /\ Moves(e) /\ \A t, p : Entering(t, p)
         /\ In(UserQ) \subseteq In(UserQ)' /\ queue'[AccessQ] = queue[AccessQ]
         /\ e \notin stray \/ In(UserQ)' \subseteq In(UserQ)
<1>1. /\ state' = state
      /\ queue' \in [Queues -> Seq(Tasks)] /\ Exclusive(queue')
      /\ \A p \in Queues \ {UserQ} : queue'[p] = queue[p]
      /\ In(UserQ)' = IF e \notin stray /\ \A p \in Queues : e \notin In(p)
                      THEN In(UserQ) \cup {e} ELSE In(UserQ)
  BY PutReadyEffect
<1> QED BY <1>1, QueueNames, DiskNames DEF Moves, Entering, In

(* The device at the end of an operation. *)
LEMMA DoneTypes ==
  ASSUME ManagerTypes, disk_sighandle
  PROVE  /\ status' \in Status /\ next_block' \in Blocks \cup {0} /\ buffer' \in Buffers
         /\ contents' \in [Blocks -> Blocks \cup {NoData}]
         /\ memory' \in [Buffers -> Blocks \cup {NoData}]
         /\ armed /\ armed' = FALSE
<1>1. /\ buffer \in Buffers /\ next_block \in Blocks
      /\ contents \in [Blocks -> Blocks \cup {NoData}]
      /\ memory \in [Buffers -> Blocks \cup {NoData}]
  BY DEF ManagerTypes, disk_sighandle
<1>2. memory[buffer] \in Blocks \cup {NoData}
  BY <1>1
<1> QED BY <1>1, <1>2 DEF disk_sighandle, Status

LEMMA WakeForRequestBase ==
  ASSUME Base, NEW t \in Clients \cup {Driver}, WakeForRequest(t)
  PROVE  Base'
<1> DEFINE p == IF state[Driver] = "SUSPENDED" THEN "ready" ELSE "up"
<1>1. /\ t \in Tasks /\ At(t, "wake") /\ place' = [place EXCEPT ![t] = p]
      /\ UNCHANGED << vars, at, current, device, manager, stray, handling, stage,
                      crashed >>
  BY DiskNames DEF WakeForRequest, Goto, vars, cpu
<1>2. t # Main /\ t # Driver
  BY <1>1, DiskNames, MyPlaces DEF At, Base, Rest, Roles
<1>3. Plain(t, p) /\ current = t /\ place[t] = "wake"
  BY <1>1, <1>2, MyPlaces, Step DEF vars, cpu
<1>4. ManagerTypes'
  BY <1>1, <1>3, PlaceTypes DEF Base, ManagerTypes, device, pending, manager
<1> QED BY <1>1, <1>2, <1>3, <1>4, QuietBase
    DEF Base, vars, cpu, tcb, sems, device, pending, manager, TaskTypes

(* Whom a task wakes is not one that has ended. *)
LEMMA WokenLives ==
  ASSUME Base, Requesters, NEW t \in Clients \cup {Driver}, place[t] \in {"ready", "enqueue"}
  PROVE  Woken(t) \in Tasks /\ state[Woken(t)] # "TERM"
<1>1. CASE t = Driver
  <2>1. first \in Clients /\ Waits(first)
    BY <1>1 DEF Requesters, Waking
  <2>2. first \in Tasks /\ place[first] \notin {"call", "down"}
    BY <2>1, DiskNames DEF Waits
  <2> QED BY <1>1, <2>2 DEF Woken, Base, Rest, Living
<1>2. CASE t # Driver
  <2>1. t \in Clients /\ ~Booting
    BY <1>2 DEF Base, Rest, Starting
  <2> QED BY <1>2, <2>1, DiskNames DEF Woken, Base, Rest, Starting, Booting
<1> QED BY <1>1, <1>2

LEMMA ReadyBase ==
  ASSUME Base, Requesters, NEW t \in Clients \cup {Driver}, Ready(t)
  PROVE  Base'
<1>1. /\ t \in Tasks \ {Main} /\ At(t, "ready") /\ place' = [place EXCEPT ![t] = "enqueue"]
      /\ UNCHANGED << num_user_tasks, queue, sems, disp, current, at, device, manager,
                      stray, handling, stage, crashed >>
      /\ state' = [state EXCEPT ![Woken(t)] = "READY"]
  BY DiskNames DEF Ready, SetReady, Goto, KernelSame, cpu
<1>2. Plain(t, "enqueue") /\ current = t /\ place[t] = "ready"
  BY <1>1, MyPlaces, Step
<1>3. ManagerTypes'
  BY <1>1, <1>2, PlaceTypes DEF Base, ManagerTypes, device, pending, manager
<1>4. Marks
  BY <1>1 DEF Marks, Base, TaskTypes
<1> QED BY <1>1, <1>2, <1>3, <1>4, QuietBase
    DEF Base, sems, device, pending, manager, TaskTypes

LEMMA EnqueueBase ==
  ASSUME Base, Requesters, NEW t \in Clients \cup {Driver}, Enqueue(t)
  PROVE  Base'
<1> DEFINE p == IF t = Driver THEN "clear" ELSE "up"
<1>1. /\ t \in Tasks \ {Main} /\ At(t, "enqueue") /\ place' = [place EXCEPT ![t] = p]
      /\ UNCHANGED << num_user_tasks, sems, disp, current, at, device, manager,
                      stray, handling, stage, crashed >>
      /\ PutReady(Woken(t))
  BY DiskNames DEF Enqueue, Goto, KernelSame, cpu
<1>2. Plain(t, p) /\ current = t /\ place[t] = "enqueue" /\ p # "append"
  BY <1>1, MyPlaces, Step
<1>3. ManagerTypes'
  BY <1>1, <1>2, PlaceTypes DEF Base, ManagerTypes, device, pending, manager
<1>4. Woken(t) \in Tasks /\ state[Woken(t)] # "TERM"
  BY <1>2, WokenLives
<1>5. /\ Moves(Woken(t)) /\ Entering(t, p)
      /\ In(UserQ) \subseteq In(UserQ)'
      /\ Woken(t) \notin stray \/ In(UserQ)' \subseteq In(UserQ)
  BY <1>1, <1>4, PutReadyMoves
<1>6. /\ Booting' => Booting /\ Aside /\ t \notin Clients
      /\ place'[Main] # "boot" => place[Main] # "boot"
  BY <1>1, <1>2, BootingStays DEF Aside, device, pending, manager
<1>7. ~Booting
  <2>1. Booting => place[t] = "enqueue" /\ t = Driver
    BY <1>2 DEF Base, Rest, Starting
  <2>2. t = Driver => first \in Clients /\ place[first] # "call"
    BY <1>2 DEF Requesters, Waking, Waits
  <2> QED BY <2>1, <2>2 DEF Base, Rest, Starting
<1>8. t \in In(UserQ)'
  BY <1>1, <1>2, <1>5, Runner
<1> HIDE DEF p
<1> QED BY <1>1, <1>2, <1>3, <1>4, <1>5, <1>6, <1>7, <1>8, MovingBase
    DEF Base, TaskTypes, sems

LEMMA DownSignalledBase ==
  ASSUME Base, DownSignalled
  PROVE  Base'
<1>1. /\ Driver \in Tasks \ {Main} /\ At(Driver, "down") /\ disk_sighandle
      /\ place' = [place EXCEPT ![Driver] = "test"] /\ sig_disk' = TRUE
      /\ counter' = [counter EXCEPT ![s_access] = @ - 1]
      /\ state' = [state EXCEPT ![Driver] = "READY"]
      /\ queue' = Move(queue, UserQ, UserQ, Driver)
      /\ current' = Dispatcher
      /\ UNCHANGED << num_user_tasks, destroyed, disp, at, num_blocks, requests, first,
                      stray, handling, stage, crashed >>
  BY DiskNames DEF DownSignalled, Goto, SwitchToDispatcher
<1>2. Plain(Driver, "test") /\ current = Driver /\ place[Driver] = "down"
  BY <1>1, MyPlaces, Step
<1>3. ManagerTypes'
  BY <1>1, <1>2, DoneTypes, PlaceTypes DEF Base, ManagerTypes
<1>4. Driver \in In(UserQ) /\ UserQ \in Queues
  BY <1>2, Runner, QueueNames, DiskNames
<1>5. /\ queue' \in [Queues -> Seq(Tasks)] /\ Exclusive(queue')
      /\ \A p \in Queues \ {UserQ} : queue'[p] = queue[p]
      /\ In(UserQ)' = In(UserQ) /\ Len(queue'[UserQ]) = Len(queue[UserQ])
  BY <1>1, <1>4, RequeueEffect
<1>6. /\ Moves(Driver) /\ Entering(Driver, "test")
  BY <1>1, <1>5, <1>4, QueueNames, DiskNames DEF Moves, Entering, In
<1>7. ~Booting
  BY <1>1, BootingRunner DEF disk_sighandle
<1>8. /\ Booting' => Booting
      /\ place'[Main] # "boot" => place[Main] # "boot"
  BY <1>1, <1>2, BootingStays
<1>9. Driver \notin stray /\ Driver \notin Clients
  BY <1>2, DiskNames DEF Base, Rest, Strays
<1>10. counter' \in [Sems -> Int]
  BY <1>1, DiskNames DEF Base, TaskTypes
<1> QED BY <1>1, <1>2, <1>3, <1>6, <1>7, <1>8, <1>9, <1>10, MovingBase, DiskNames
    DEF Base, TaskTypes

LEMMA RemoveSelfBase ==
  ASSUME Base, NEW t \in Clients \cup {Driver}, RemoveSelf(t)
  PROVE  Base'
<1>1. /\ t \in Tasks \ {Main} /\ At(t, "remove")
      /\ UNCHANGED << num_user_tasks, state, sems, disp, at, current, device, manager, stray,
                      handling, stage, crashed >>
      /\ queue' = queue_remove(queue, UserQ, t)
      /\ place' = [place EXCEPT ![t] = "yield"]
  BY DiskNames DEF RemoveSelf, Goto, KernelSame, cpu
<1>2. Plain(t, "yield") /\ current = t /\ place[t] = "remove"
  BY <1>1, MyPlaces, Step
<1>3. ManagerTypes'
  BY <1>1, <1>2, PlaceTypes DEF Base, ManagerTypes, device, pending, manager
<1>4. /\ Booting' => Booting /\ Aside
      /\ place'[Main] # "boot" => place[Main] # "boot"
  BY <1>1, <1>2, BootingStays DEF Aside, device, pending, manager
<1>5. TakenOut(Queues, Tasks, queue, UserQ, t, queue')
  BY <1>1, QueueNames, RemoveAny DEF Base, TaskTypes
<1>6. /\ Moves(t) /\ Entering(t, "yield") /\ queue'[AccessQ] = queue[AccessQ]
      /\ In(UserQ)' \subseteq In(UserQ)
  BY <1>1, <1>5, QueueNames, DiskNames DEF TakenOut, Moves, Entering, In
<1> QED BY <1>1, <1>2, <1>3, <1>4, <1>6, MovingBase DEF Base, TaskTypes, sems

(* The request the driver has finished. *)
LEMMA HeadRequest ==
  ASSUME ManagerTypes, requests # << >>
  PROVE  /\ Head(requests) = requests[1] /\ 1 \in DOMAIN requests
         /\ Head(requests).requester \in Clients
         /\ Head(requests).op_type \in {"READ", "WRITE"}
         /\ Head(requests).block \in Blocks /\ Head(requests).buffer \in Buffers
         /\ Tail(requests) \in Seq([requester : Clients, op_type : {"READ", "WRITE"},
                                    block : Blocks, buffer : Buffers])
<1>1. /\ requests \in Seq([requester : Clients, op_type : {"READ", "WRITE"},
                           block : Blocks, buffer : Buffers])
  BY DEF ManagerTypes
<1>2. Head(requests) = requests[1] /\ 1 \in DOMAIN requests
  BY <1>1
<1>3. /\ Head(requests) \in [requester : Clients, op_type : {"READ", "WRITE"},
                             block : Blocks, buffer : Buffers]
      /\ Tail(requests) \in Seq([requester : Clients, op_type : {"READ", "WRITE"},
                                 block : Blocks, buffer : Buffers])
  BY <1>1, HeadTailProperties
<1> QED BY <1>2, <1>3

LEMMA DriverTestBase ==
  ASSUME Base, DriverTest
  PROVE  Base'
<1>1. /\ Driver \in Tasks \ {Main} /\ At(Driver, "test")
      /\ UNCHANGED << vars, current, device, num_blocks, sig_disk, stray, handling,
                      stage >>
  BY DiskNames DEF DriverTest, vars, cpu
<1>2. CASE sig_disk /\ requests = << >>
  <2>1. UNCHANGED << requests, first, code >> /\ crashed' = TRUE
    BY <1>2 DEF DriverTest, Finish
  <2>2. Plain(Driver, place[Driver]) /\ current = Driver /\ place[Driver] = "test"
    BY <1>1, <2>1 DEF At, Running, Plain, Base, ManagerTypes, Rest, Roles, disp, code,
                      vars, cpu
  <2>3. ManagerTypes'
    BY <1>1, <2>1 DEF Base, ManagerTypes, device, pending, code
  <2> QED BY <1>1, <2>1, <2>2, <2>3, QuietBase
      DEF Base, vars, cpu, tcb, sems, device, pending, code, TaskTypes
<1>3. ASSUME NEW p \in {"ready", "command"}, place' = [place EXCEPT ![Driver] = p],
             UNCHANGED << at, crashed >>,
             \/ requests' = requests /\ first' = first
             \/ /\ sig_disk /\ requests # << >>
                /\ requests' = Tail(requests) /\ first' = Head(requests).requester
      PROVE  Base'
  <2>1. Plain(Driver, p) /\ current = Driver /\ place[Driver] = "test"
    BY <1>1, <1>3, MyPlaces, Step DEF vars, cpu
  <2>2. ManagerTypes'
    BY <1>1, <1>3, <2>1, HeadRequest, PlaceTypes DEF Base, ManagerTypes, device, pending
  <2>3. Booting' => UNCHANGED << requests, sig_disk, handling, armed >>
    BY <1>1, <1>3, <2>1, BootingStays, BootingRunner DEF device, pending
  <2> QED BY <1>1, <1>3, <2>1, <2>2, <2>3, QuietBase
      DEF Base, vars, cpu, tcb, sems, TaskTypes
<1> QED BY <1>1, <1>2, <1>3 DEF DriverTest, Finish, Goto

LEMMA ClearSignalBase ==
  ASSUME Base, ClearSignal
  PROVE  Base'
<1>1. /\ Driver \in Tasks \ {Main} /\ At(Driver, "clear") /\ first' = NULL
      /\ sig_disk' = FALSE /\ place' = [place EXCEPT ![Driver] = "command"]
      /\ UNCHANGED << vars, current, at, device, num_blocks, requests, stray, handling,
                      stage, crashed >>
  BY DiskNames DEF ClearSignal, Goto, vars, cpu
<1>2. Plain(Driver, "command") /\ current = Driver /\ place[Driver] = "clear"
  BY <1>1, MyPlaces, Step DEF vars, cpu
<1>3. ManagerTypes'
  BY <1>1, <1>2, PlaceTypes DEF Base, ManagerTypes, device, pending
<1>4. Booting' => UNCHANGED << requests, sig_disk, handling, armed >>
  <2>1. Booting' => Booting
    BY <1>1, <1>2, BootingStays
  <2>2. Booting => sig_disk' = sig_disk
    BY <1>1, BootingRunner DEF Base, ManagerTypes
  <2> QED BY <1>1, <2>1, <2>2 DEF device, pending
<1> QED BY <1>1, <1>2, <1>3, <1>4, QuietBase DEF Base, vars, cpu, tcb, sems, TaskTypes
-----------------------------------------------------------------------------
(* The steps of main. *)
LEMMA InitDiskBase ==
  ASSUME Base, InitDisk
  PROVE  Base'
<1>1. /\ Main \in Tasks /\ At(Main, "boot") /\ disk_init /\ num_blocks' = NumBlocks
      /\ TaskCreate(Main, Driver) /\ place' = [place EXCEPT ![Main] = "count"]
      /\ UNCHANGED << at, requests, sig_disk, first, stray, handling, stage, crashed >>
  BY DiskNames DEF InitDisk, Goto, disk_size, disk_init
<1>2. /\ current' = current /\ num_user_tasks' = num_user_tasks + 1
      /\ state' = [state EXCEPT ![Driver] = "READY"]
      /\ UNCHANGED << counter, destroyed, dpc, next_task, size, cur >>
      /\ queue' \in [Queues -> Seq(Tasks)] /\ Exclusive(queue')
      /\ \A p \in Queues \ {UserQ, WaitQ(Driver)} : queue'[p] = queue[p]
      /\ In(UserQ)' = In(UserQ) \cup {Driver} /\ In(WaitQ(Driver))' = {}
  BY <1>1, CreateEffect, DiskNames DEF TaskCreate, disp
<1>3. Plain(Main, "count") /\ current = Main /\ place[Main] = "boot"
  BY <1>1, <1>2, Step, MyPlaces DEF disp
<1>4. ManagerTypes'
  BY <1>1, <1>3, PlaceTypes, DiskAssumption, BootingRunner
  DEF Base, ManagerTypes, Booting, disk_init, Status
<1>5. Booting' => Booting /\ Aside
  BY <1>1, <1>3 DEF Booting, Aside, disk_init
<1>6. Moves(Driver) /\ Entering(Main, "count") /\ queue'[AccessQ] = queue[AccessQ]
  BY <1>2, QueueNames, DiskNames DEF Moves, Entering, In
<1>7. Driver \notin stray
  <2>1. state[Driver] = "TERM"
    BY <1>1, CreateEffect, DiskNames
  <2> QED BY <2>1, DiskNames DEF Base, Rest, Strays, Living
<1>8. state'[Driver] # "TERM" /\ num_user_tasks' \in Int
  BY <1>2, DiskNames DEF Base, TaskTypes
<1>9. Main \in In(UserQ)' /\ Driver \notin Clients
  BY <1>2, <1>3, DiskNames, Runner
<1> QED BY <1>1, <1>2, <1>3, <1>4, <1>5, <1>6, <1>7, <1>8, <1>9, MovingBase, DiskNames
    DEF Base, TaskTypes

LEMMA CreateAccessBase ==
  ASSUME Base, CreateAccess
  PROVE  Base'
<1>1. /\ Main \in Tasks /\ At(Main, "access")
      /\ counter' = [counter EXCEPT ![s_access] = 1]
      /\ destroyed' = [destroyed EXCEPT ![s_access] = FALSE]
      /\ queue' = [queue EXCEPT ![AccessQ] = << >>]
      /\ stray' = In(AccessQ) /\ place' = [place EXCEPT ![Main] = "fields"]
      /\ UNCHANGED << current, num_user_tasks, state, disp, device, manager, at, handling, stage,
                      crashed >>
  BY DiskNames DEF CreateAccess, Goto, ReturnUnlocked, tcb, AccessQ, In
<1>2. Plain(Main, "fields") /\ current = Main /\ place[Main] = "access"
  BY <1>1, Step, MyPlaces
<1>3. In(AccessQ) \subseteq Tasks
  BY DiskNames, ElementOfSeq DEF Base, TaskTypes, In, ToSet
<1>4. ManagerTypes'
  BY <1>1, <1>2, <1>3, PlaceTypes DEF Base, ManagerTypes, device, pending, manager
<1>5. Booting' => Booting /\ Aside
  BY <1>1, <1>2 DEF Booting, Aside, device, pending, manager
<1>6. /\ queue' \in [Queues -> Seq(Tasks)] /\ Exclusive(queue')
      /\ \A p \in Queues \ {AccessQ} : queue'[p] = queue[p]
      /\ queue'[AccessQ] = << >> /\ In(AccessQ)' = {}
  <2>1. queue \in [Queues -> Seq(Tasks)] /\ Exclusive(queue) /\ AccessQ \in Queues
    BY DiskNames DEF Base, TaskTypes
  <2>2. LET new == [queue EXCEPT ![AccessQ] = << >>]
        IN /\ new \in [Queues -> Seq(Tasks)] /\ Exclusive(new)
           /\ \A p \in Queues \ {AccessQ} : new[p] = queue[p]
           /\ new[AccessQ] = << >> /\ ToSet(new[AccessQ]) = {}
    BY <2>1, EmptyEffect
  <2> QED BY <1>1, <2>2 DEF In
<1>7. Moves(Main) /\ Entering(Main, "fields")
  BY <1>1, <1>6, QueueNames, DiskNames DEF Moves, Entering, In
<1>8. /\ counter' \in [Sems -> Int] /\ destroyed' \in [Sems -> BOOLEAN]
      /\ counter'[s_access] = 1 /\ ~destroyed'[s_access]
  BY <1>1, DiskNames DEF Base, TaskTypes
<1>9. Strays'
  <2>1. \A u \in In(AccessQ) : u = Driver /\ place[u] = "test"
    BY <1>2, <1>3, DiskNames, MyPlaces
    DEF AccessQ, Base, Rest, WhoWaits, Roles, Starting, Booting, PlacesOf
  <2>2. \A u \in In(AccessQ) : \A q \in Queues : u \notin In(q)'
    BY <1>6, DiskNames DEF Base, TaskTypes, Exclusive, In
  <2> QED BY <1>1, <1>2, <2>1, <2>2, PlaceTypes, DiskNames DEF Strays, Base
<1>10. Main \in In(UserQ)' /\ Main \notin Clients
  BY <1>2, <1>6, DiskNames, QueueNames, Runner DEF In
<1> QED BY <1>1, <1>2, <1>4, <1>5, <1>7, <1>8, <1>9, <1>10, MovingBase DEF Base, TaskTypes

LEMMA MainCreatesBase ==
  ASSUME Base, NEW u \in Clients, At(Main, "call"), TaskCreate(Main, u), NextCall(Main),
         UNCHANGED << device, manager, stray, handling, stage, crashed >>
  PROVE  Base'
<1>1. /\ Main \in Tasks /\ u \in Tasks /\ place' = [place EXCEPT ![Main] = "call"]
      /\ UNCHANGED << device, manager, stray, handling, stage, crashed >>
  BY DiskNames DEF NextCall
<1>2. /\ current' = current /\ num_user_tasks' = num_user_tasks + 1
      /\ state' = [state EXCEPT ![u] = "READY"]
      /\ UNCHANGED << counter, destroyed, dpc, next_task, size, cur >>
      /\ queue' \in [Queues -> Seq(Tasks)] /\ Exclusive(queue')
      /\ \A p \in Queues \ {UserQ, WaitQ(u)} : queue'[p] = queue[p]
      /\ In(UserQ)' = In(UserQ) \cup {u} /\ In(WaitQ(u))' = {}
  BY <1>1, CreateEffect DEF TaskCreate, disp
<1>3. Plain(Main, "call") /\ current = Main /\ place[Main] = "call"
  BY <1>1, <1>2, Step, MyPlaces DEF disp
<1>4. ManagerTypes'
  BY <1>1, <1>3, PlaceTypes, NextCallAt DEF Base, ManagerTypes, device, pending, manager
<1>5. ~Booting'
  BY <1>1, <1>3, PlaceTypes DEF Base, Booting
<1>6. Moves(u) /\ Entering(Main, "call") /\ queue'[AccessQ] = queue[AccessQ]
  BY <1>1, <1>2, QueueNames, DiskNames DEF Moves, Entering, In
<1>7. u \notin stray
  BY DiskNames DEF Base, Rest, Strays
<1>8. num_user_tasks' \in Int /\ Main \in In(UserQ)'
  BY <1>1, <1>2, <1>3, Runner DEF Base, TaskTypes
<1> QED BY <1>1, <1>2, <1>3, <1>4, <1>5, <1>6, <1>7, <1>8, NextCallAt, MovingBase
    DEF Base, TaskTypes

LEMMA MainJoinsBase ==
  ASSUME Base, NEW u \in Clients, At(Main, "call"), NextCall(Main),
         TaskJoin(Main, u) \/ TaskJoinEnded(Main, u),
         UNCHANGED << device, manager, stray, handling, stage, crashed >>
  PROVE  Base'
<1>1. /\ Main \in Tasks /\ u \in Tasks /\ place' = [place EXCEPT ![Main] = "call"]
      /\ UNCHANGED << device, manager, stray, handling, stage, crashed, num_user_tasks, sems, disp >>
      /\ \/ Suspend(Main, WaitQ(u))
         \/ UNCHANGED << current, queue, state >>
  BY DiskNames DEF NextCall, TaskJoin, TaskJoinEnded, ReturnUnlocked, tcb
<1>2. current' \in {current, Dispatcher}
  BY <1>1 DEF Suspend, SwitchToDispatcher
<1>3. Plain(Main, "call") /\ current = Main /\ place[Main] = "call"
  BY <1>1, <1>2, Step, MyPlaces
<1>4. ManagerTypes'
  BY <1>1, <1>3, PlaceTypes, NextCallAt DEF Base, ManagerTypes, device, pending, manager
<1>5. ~Booting'
  BY <1>1, <1>3, PlaceTypes DEF Base, Booting
<1>6. CASE UNCHANGED << current, queue, state >>
  BY <1>1, <1>3, <1>4, <1>5, <1>6, NextCallAt, QuietBase DEF Base, TaskTypes, sems
<1>7. CASE Suspend(Main, WaitQ(u))
  <2>1. /\ state' = [state EXCEPT ![Main] = "SUSPENDED"] /\ current' = Dispatcher
        /\ queue' \in [Queues -> Seq(Tasks)] /\ Exclusive(queue')
        /\ \A p \in Queues \ {UserQ, WaitQ(u)} : queue'[p] = queue[p]
        /\ In(UserQ)' = In(UserQ) \ {Main} /\ In(WaitQ(u))' = In(WaitQ(u)) \cup {Main}
    BY <1>1, <1>3, <1>7, BlockEffect, QueueNames
  <2>2. Moves(Main) /\ Entering(Main, "call") /\ queue'[AccessQ] = queue[AccessQ]
    BY <1>1, <2>1, QueueNames, DiskNames DEF Moves, Entering, In
  <2> QED BY <1>1, <1>3, <1>4, <1>5, <2>1, <2>2, NextCallAt, DiskNames, MovingBase
      DEF Base, TaskTypes, sems
<1> QED BY <1>1, <1>6, <1>7

LEMMA JoinReturnBase ==
  ASSUME Base, TaskJoinReturn(Main), UNCHANGED code,
         UNCHANGED << device, manager, stray, handling, stage, crashed >>
  PROVE  Base'
<1>1. /\ Main \in Tasks /\ current = Main /\ current' = current
      /\ UNCHANGED << device, manager, stray, handling, stage, crashed, num_user_tasks, queue,
                      state, sems, disp, place, at >>
  BY DiskNames DEF TaskJoinReturn, ReturnUnlocked, code, tcb
<1>2. Plain(Main, place[Main]) /\ place[Main] \notin {"yield", "append"}
  BY <1>1, MyPlaces DEF Plain, Base, Rest, Roles, ManagerTypes, disp
<1>3. ManagerTypes'
  BY <1>1 DEF Base, ManagerTypes, device, pending, manager
<1> QED BY <1>1, <1>2, <1>3, QuietBase
    DEF Base, TaskTypes, sems, device, pending, manager
-----------------------------------------------------------------------------
(* The steps outside the code of the running task: the end of a task, the  *)
(* signals, the timer and the dispatcher. *)
LEMMA ExitBase ==
  ASSUME Base, NEW t \in Clients \cup {Main}, At(t, "call"), TaskExit(t, 0), UNCHANGED code,
         t = Main => ~Booting,
         UNCHANGED << device, manager, stray, handling, stage, crashed >>
  PROVE  Base'
<1>1. /\ t \in Tasks /\ current = t /\ place[t] = "call" /\ current' = Dispatcher
      /\ state' = [state EXCEPT ![t] = "TERM"]
      /\ UNCHANGED << device, manager, stray, handling, stage, crashed, num_user_tasks, queue,
                      sems, disp, place, at >>
  BY DiskNames DEF TaskExit, SwitchToDispatcher, code, At, Running
<1>2. /\ dpc = "switched" /\ next_task = t /\ \A u \in Tasks : ~Ending(u)
      /\ t \in In(UserQ) /\ t # Driver
  BY <1>1, Runner, DiskNames
<1>3. /\ state' \in [Tasks -> {"READY", "SUSPENDED", "TERM"}] /\ state'[t] = "TERM"
      /\ \A u \in Tasks \ {t} : state'[u] = state[u]
  BY <1>1 DEF Base, TaskTypes
<1>4. ManagerTypes'
  BY <1>1 DEF Base, ManagerTypes, device, pending, manager
<1>5. TaskTypes' /\ ~destroyed'[s_access]
  BY <1>1, <1>3 DEF Base, TaskTypes, sems, disp
<1>6. Ending(t)'
  BY <1>1, <1>2, <1>3 DEF Ending, disp
<1>7. Living'
  BY <1>1, <1>2, <1>3, <1>6 DEF Base, Rest, Living, In, Ending, disp
<1>8. Starting'
  <2>1. t # Driver
    BY DiskNames
  <2> QED BY <1>1, <1>3, <2>1, DiskNames
      DEF Base, Rest, Starting, Booting, In, device, pending, manager
<1>9. NoSleepers' /\ Roles' /\ OnCpu' /\ WhoWaits' /\ Asked' /\ Strays'
  BY <1>1, <1>2, DiskNames
  DEF Base, Rest, NoSleepers, Roles, PlacesOf, OnCpu, WhoWaits, In, Asked, Call, Strays, disp
<1> QED BY <1>4, <1>5, <1>7, <1>8, <1>9 DEF Base, Rest

LEMMA DiskDoneBase ==
  ASSUME Base, DiskDone
  PROVE  Base'
<1>1. /\ disk_sighandle /\ armed /\ handling' = handling \cup {current}
      /\ UNCHANGED << current, num_user_tasks, queue, state, sems, disp,
                      manager, place, at, stray, stage, crashed >>
  BY DEF DiskDone, disk_sighandle, vars, cpu, tcb, code
<1>2. ~Booting
  BY <1>1, BootingRunner
<1>3. ManagerTypes'
  BY <1>1, DoneTypes DEF Base, ManagerTypes, TaskTypes, Contexts, manager
<1>4. TaskTypes' /\ ~destroyed'[s_access]
  BY <1>1 DEF Base, TaskTypes, sems, disp
<1>5. Living' /\ Starting'
  BY <1>1, <1>2 DEF Base, Rest, Living, Ending, In, Starting, Booting, disp
<1>6. NoSleepers' /\ Roles' /\ OnCpu' /\ WhoWaits' /\ Asked' /\ Strays'
  BY <1>1 DEF Base, Rest, NoSleepers, Roles, PlacesOf, OnCpu, WhoWaits, In, Asked, Call,
              Strays, disp
<1> QED BY <1>3, <1>4, <1>5, <1>6 DEF Base, Rest

LEMMA SignalBase ==
  ASSUME Base, wake_driver
  PROVE  Base'
<1>1. /\ current \in handling /\ Driver \in Tasks
      /\ handling' \subseteq handling /\ sig_disk' \in BOOLEAN
      /\ stage' \in [Contexts -> {"raise", "ready", "append"}]
      /\ UNCHANGED << current, num_user_tasks, sems, disp, device, num_blocks, requests,
                      first, place, at, stray, crashed >>
      /\ \/ UNCHANGED << queue, state >>
         \/ UNCHANGED queue /\ state' = [state EXCEPT ![Driver] = "READY"]
         \/ PutReady(Driver)
  <2>1. CASE SetSignal
    BY <2>1, DiskNames DEF SetSignal, InHandler, Base, ManagerTypes, code, vars, cpu, tcb
  <2>2. CASE ReadyDriver
    BY <2>2, DiskNames DEF ReadyDriver, InHandler, SetReady, Base, ManagerTypes, code,
                           manager, KernelSame, cpu
  <2>3. CASE AppendDriver
    BY <2>3, DiskNames DEF AppendDriver, InHandler, Base, ManagerTypes, code, manager,
                           KernelSame, cpu
  <2> QED BY <2>1, <2>2, <2>3 DEF wake_driver
<1>2. ~Booting /\ state[Driver] # "TERM"
  BY <1>1, BootingRunner DEF Booting, Base, Rest, Starting
<1>3. ManagerTypes'
  BY <1>1 DEF Base, ManagerTypes, device, pending
<1>4. /\ state' \in {state, [state EXCEPT ![Driver] = "READY"]}
      /\ queue' \in [Queues -> Seq(Tasks)] /\ Exclusive(queue')
      /\ \A p \in Queues \ {UserQ} : queue'[p] = queue[p]
      /\ \/ In(UserQ)' = In(UserQ)
         \/ Driver \notin stray /\ In(UserQ)' = In(UserQ) \cup {Driver}
  <2>1. CASE UNCHANGED queue /\ state' \in {state, [state EXCEPT ![Driver] = "READY"]}
    BY <2>1 DEF In, Base, TaskTypes
  <2>2. CASE PutReady(Driver)
    BY <1>1, <2>2, PutReadyEffect
  <2> QED BY <1>1, <2>1, <2>2
<1>5. /\ state' \in [Tasks -> {"READY", "SUSPENDED", "TERM"}] /\ state'[Driver] # "TERM"
      /\ \A u \in Tasks \ {Driver} : state'[u] = state[u]
  BY <1>1, <1>2, <1>4 DEF Base, TaskTypes
<1>6. /\ TaskTypes' /\ ~destroyed'[s_access]
      /\ \A p \in Queues \ {UserQ} : \A u : u \in In(p)' => u \in In(p)
      /\ \A u \in Tasks : u \in In(UserQ)' => u \in In(UserQ) \/ u = Driver
      /\ \A u \in Tasks : u \in In(UserQ) => u \in In(UserQ)'
      /\ queue'[SleepQ] = queue[SleepQ]
      /\ \A u \in stray : u \in In(UserQ)' => u \in In(UserQ) \/ u # Driver
  BY <1>1, <1>4, <1>5, QueueNames, DiskNames DEF Base, TaskTypes, sems, disp, In
<1>8. \A u \in Tasks : state'[u] = "TERM" => u # Driver /\ (Ending(u) => Ending(u)')
  BY <1>1, <1>5 DEF Ending, disp
<1>9. Living'
  <2>1. ASSUME NEW u \in Tasks, NEW q \in Queues, u \in In(q)', state'[u] = "TERM"
        PROVE  Ending(u)'
    BY <1>5, <1>6, <1>8, <2>1 DEF Base, Rest, Living
  <2>2. \A u \in Tasks : Ending(u)' => u \in In(UserQ)' /\ u # Driver
    BY <1>1, <1>5, <1>6 DEF Base, Rest, Living, Ending, disp
  <2> QED BY <1>1, <1>5, <2>1, <2>2 DEF Base, Rest, Living
<1>10. Starting'
  BY <1>1, <1>2, <1>5 DEF Starting, Booting
<1>11. OnCpu'
  BY <1>1, <1>5, <1>6 DEF Base, Rest, OnCpu, disp
<1>12. WhoWaits' /\ Strays'
  BY <1>1, <1>6, QueueNames DEF Base, Rest, WhoWaits, Strays
<1>13. NoSleepers' /\ Roles' /\ Asked'
  BY <1>1, <1>6 DEF Base, Rest, NoSleepers, Roles, PlacesOf, Asked, Call, disp
<1> QED BY <1>3, <1>6, <1>9, <1>10, <1>11, <1>12, <1>13 DEF Base, Rest

LEMMA TickBase ==
  ASSUME Base, TickUser, UNCHANGED << device, manager, code, stray, handling, stage, crashed >>
  PROVE  Base'
<1>1. /\ current \in Tasks /\ current' \in {current, Dispatcher}
      /\ UNCHANGED << num_user_tasks, queue, state, sems, disp, device, manager,
                      place, at, stray, handling, stage, crashed >>
  BY DEF TickUser, code, tcb
<1>2. \A u \in Tasks : ~Ending(u)
  BY <1>1, Runner
<1>3. ManagerTypes'
  BY <1>1 DEF Base, ManagerTypes, device, pending, manager
<1>4. TaskTypes' /\ ~destroyed'[s_access]
  BY <1>1 DEF Base, TaskTypes, sems, disp
<1>5. Living' /\ Starting'
  <2>1. \A u \in Tasks : ~Ending(u)'
    BY <1>1, <1>2, Runner DEF Ending, disp
  <2> QED BY <1>1, <1>2, <2>1
      DEF Base, Rest, Living, In, Starting, Booting, disp, device, pending, manager
<1>6. NoSleepers' /\ Roles' /\ OnCpu' /\ WhoWaits' /\ Asked' /\ Strays'
  BY <1>1, DiskNames
  DEF Base, Rest, NoSleepers, Roles, PlacesOf, OnCpu, WhoWaits, In, Asked, Call, Strays, disp
<1> QED BY <1>3, <1>4, <1>5, <1>6 DEF Base, Rest

LEMMA DispatchBase ==
  ASSUME Base, DispatcherStep, UNCHANGED << device, manager, code, stray, handling, stage, crashed >>
  PROVE  Base'
<1>1. /\ UNCHANGED << destroyed, counter, place, at, device, manager, stray, handling, stage,
                      crashed >>
      /\ queue[SleepQ] = << >> /\ Len(<< >>) = 0 /\ ~WakeStep
  BY DEF DispatcherStep, DispatchTask, DispatchNone, AfterSwitch, WakeStep, WakeDone,
         DispatcherExit, sems, code, Base, Rest, NoSleepers
<1>2. current = Dispatcher
  BY DEF DispatcherStep, DispatchTask, DispatchNone, AfterSwitch, WakeStep, WakeDone,
         DispatcherExit, Base, TaskTypes, Rest, OnCpu
<1>3. ManagerTypes'
  BY <1>1 DEF Base, ManagerTypes, device, pending, manager
<1>4. Roles' /\ Asked'
  BY <1>1 DEF Base, Rest, Roles, PlacesOf, Asked, Call
<1>5. CASE DispatchTask
  <2>1. PICK i \in DOMAIN queue[UserQ] : next_task' = queue[UserQ][i]
    BY <1>5 DEF DispatchTask
  <2>2. /\ current' = next_task' /\ dpc = "loop" /\ dpc' = "switched"
        /\ UNCHANGED << queue, state, num_user_tasks >>
    BY <1>5 DEF DispatchTask
  <2>3. next_task' \in Tasks /\ next_task' \in In(UserQ)
    <3>1. queue[UserQ] \in Seq(Tasks)
      BY QueueNames DEF Base, TaskTypes
    <3> QED BY <2>1, <3>1, ElementOfSeq, LenProperties DEF In, ToSet
  <2>4. state[next_task'] # "TERM" /\ \A u \in Tasks : ~Ending(u) /\ ~Ending(u)'
    BY <2>2, <2>3, QueueNames, DiskNames DEF Ending, Base, Rest, Living
  <2>5. TaskTypes' /\ ~destroyed'[s_access]
    BY <1>1, <2>2, <2>3 DEF Base, TaskTypes
  <2>6. NoSleepers' /\ OnCpu' /\ WhoWaits' /\ Living' /\ Starting' /\ Strays'
    BY <1>1, <2>2, <2>3, <2>4
    DEF Base, Rest, NoSleepers, OnCpu, WhoWaits, Living, Starting, Booting, In,
        Strays, device, pending, manager
  <2> QED BY <1>3, <1>4, <2>5, <2>6 DEF Base, Rest
<1>6. ASSUME dpc' \in {"wake", "loop", "halted"}, current' = current,
             UNCHANGED << queue, state, num_user_tasks >>, next_task' \in {next_task, NULL},
             dpc' = "wake" => size' = 0,
             dpc # "switched" \/ state[next_task] # "TERM"
      PROVE  Base'
  <2>1. \A u \in Tasks : ~Ending(u) /\ ~Ending(u)'
    BY <1>6 DEF Ending
  <2>2. TaskTypes' /\ ~destroyed'[s_access]
    BY <1>1, <1>6 DEF Base, TaskTypes
  <2>3. NoSleepers' /\ OnCpu' /\ WhoWaits' /\ Living' /\ Starting' /\ Strays'
    BY <1>1, <1>2, <1>6, <2>1, DiskNames
    DEF Base, Rest, NoSleepers, OnCpu, WhoWaits, Living, Starting, Booting, In,
        Strays, device, pending, manager
  <2> QED BY <1>3, <1>4, <2>2, <2>3 DEF Base, Rest
<1>7. CASE DispatchNone \/ WakeDone \/ DispatcherExit
  BY <1>1, <1>2, <1>6, <1>7
  DEF DispatchNone, WakeDone, DispatcherExit, StartWakeTasks, cpu, tcb
<1>8. CASE AfterSwitch /\ ~Ended(next_task)
  BY <1>1, <1>2, <1>6, <1>8 DEF AfterSwitch, Ended, StartWakeTasks, cpu
<1>9. CASE AfterSwitch /\ Ended(next_task)
  <2> DEFINE t == next_task
  <2>1. /\ t \in Tasks /\ state[t] = "TERM" /\ terminate_task(t) /\ t' = t
        /\ next_task' \in Tasks
        /\ dpc = "switched" /\ dpc' = "wake" /\ size' = 0 /\ current' = current
    BY <1>1, <1>9 DEF AfterSwitch, Ended, StartWakeTasks, cpu, Base, Rest, OnCpu
  <2>2. /\ state' = AllReady(WaitQ(t)) /\ num_user_tasks' = num_user_tasks - 1
        /\ queue' \in [Queues -> Seq(Tasks)] /\ Exclusive(queue')
        /\ \A p \in Queues \ {UserQ, WaitQ(t)} : queue'[p] = queue[p]
        /\ In(UserQ)' = (In(UserQ) \cup In(WaitQ(t))) \ {t} /\ In(WaitQ(t))' = {}
    BY <2>1, TerminateEffect
  <2>3. Ending(t) /\ t \in In(UserQ) /\ \A u \in Tasks : Ending(u) => u = t
    BY <1>2, <2>1 DEF Ending, Base, Rest, Living
  <2>4. \A q \in Queues \ {UserQ} : t \notin In(q)
    BY <2>1, <2>3, QueueNames DEF Base, TaskTypes, Exclusive, In
  <2> HIDE DEF t
  <2>5. /\ state' \in [Tasks -> {"READY", "SUSPENDED", "TERM"}]
        /\ \A u \in Tasks : state'[u] \in {state[u], "READY"}
        /\ \A u \in In(WaitQ(t)) : u \in Tasks => state'[u] = "READY"
    BY <2>2 DEF AllReady, Base, TaskTypes, In
  <2>6. TaskTypes'
    BY <1>1, <2>1, <2>2, <2>5 DEF Base, TaskTypes
  <2>7. /\ queue'[AccessQ] = queue[AccessQ] /\ queue'[SleepQ] = queue[SleepQ]
        /\ In(WaitQ(t)) \subseteq {Main}
        /\ \A q \in Queues \ {UserQ} : In(q)' \subseteq In(q)
    BY <2>1, <2>2, QueueNames, DiskNames DEF In, Base, Rest, WhoWaits
  <2>8. \A u \in Tasks : ~Ending(u)'
    BY <2>1 DEF Ending
  <2>9. Living'
    <3>1. ASSUME NEW u \in Tasks, NEW q \in Queues, u \in In(q)', state'[u] = "TERM"
          PROVE  FALSE
      <4>1. state[u] = "TERM" /\ u \notin In(WaitQ(t)) /\ u # t
        BY <2>2, <2>4, <2>5, <2>7, <3>1
      <4>2. \A r \in Queues : u \notin In(r)
        BY <2>3, <4>1 DEF Base, Rest, Living
      <4> QED BY <2>2, <2>7, <3>1, <4>1, <4>2
    <3> QED BY <1>1, <2>5, <2>8, <3>1 DEF Base, Rest, Living
  <2>10. Starting'
    <3>1. state'[Driver] = "TERM" => state[Driver] = "TERM"
      BY <2>5, DiskNames
    <3>2. \A c \in Clients : \A q \in Queues : c \in In(q)' => \E r \in Queues : c \in In(r)
      BY <2>2, <2>7, QueueNames, DiskNames
    <3> QED BY <1>1, <3>1, <3>2 DEF Base, Rest, Starting, Booting, device, pending, manager
  <2>11. ~destroyed'[s_access] /\ NoSleepers' /\ OnCpu'
    BY <1>1, <1>2, <2>1, <2>7, DiskNames
    DEF Base, Rest, NoSleepers, OnCpu
  <2>12. WhoWaits'
    BY <1>1, <2>7, QueueNames DEF Base, Rest, WhoWaits
  <2>13. Strays'
    <3>1. ASSUME NEW u \in stray, NEW q \in Queues PROVE u \notin In(q)'
      <4>1. WaitQ(t) \in Queues /\ UserQ \in Queues
        BY <2>1, QueueNames
      <4>2. u \notin In(q) /\ u \notin In(UserQ) /\ u \notin In(WaitQ(t))
        BY <3>1, <4>1 DEF Base, Rest, Strays
      <4> QED BY <2>2, <2>7, <4>2
    <3> QED BY <1>1, <3>1 DEF Base, Rest, Strays
  <2> QED BY <1>3, <1>4, <2>6, <2>9, <2>10, <2>11, <2>12, <2>13 DEF Base, Rest
<1> QED BY <1>1, <1>5, <1>7, <1>8, <1>9 DEF DispatcherStep

LEMMA InitBase == DMInit => Base
<1> SUFFICES ASSUME DMInit PROVE Base
  OBVIOUS
<1>1. << >> \in Seq(Tasks) /\ << Main >> \in Seq(Tasks)
      /\ ToSet(<< >>) = {} /\ ToSet(<< Main >>) = {Main}
      /\ NoRepeats(<< >>) /\ NoRepeats(<< Main >>) /\ Len(<< >>) = 0
  BY DiskNames DEF ToSet, NoRepeats
<1>2. /\ queue \in [Queues -> Seq(Tasks)] /\ queue[UserQ] = << Main >>
      /\ \A q \in Queues \ {UserQ} : queue[q] = << >>
      /\ current = Dispatcher /\ dpc = "loop"
      /\ state = [t \in Tasks |-> IF t = Main THEN "READY" ELSE "TERM"]
      /\ requests = << >> /\ ~sig_disk /\ handling = {} /\ ~armed
      /\ stray = {} /\ first = NULL
      /\ place = [t \in Tasks |-> IF t = Main THEN "boot"
                              ELSE IF t = Driver THEN "down" ELSE "call"]
  BY <1>1, QueueNames DEF DMInit, Init, DiskInit
<1>3. Exclusive(queue)
  BY <1>1, <1>2 DEF Exclusive
<1>4. ManagerTypes
  <2>1. buffer \in Buffers
    BY DiskAssumption DEF DMInit, DiskInit
  <2>2. /\ status \in Status /\ next_block = 0
        /\ contents \in [Blocks -> Blocks \cup {NoData}]
        /\ memory \in [Buffers -> Blocks \cup {NoData}]
    BY DEF DMInit, DiskInit, Status
  <2>3. /\ num_blocks = 0 /\ at \in [Tasks -> Nat \ {0}] /\ crashed = FALSE
        /\ sig_disk = FALSE /\ armed = FALSE
        /\ stage \in [Contexts -> {"raise", "ready", "append"}]
    BY DEF DMInit, DiskInit
  <2>4. place \in [Tasks -> Places]
    BY <1>2 DEF Places
  <2>5. requests \in Seq([requester : Clients, op_type : {"READ", "WRITE"},
                         block : Blocks, buffer : Buffers])
    BY <1>2
  <2> QED BY <1>2, <2>1, <2>2, <2>3, <2>4, <2>5 DEF ManagerTypes
<1>5. TaskTypes
  BY <1>2, <1>3 DEF DMInit, Init, TaskTypes
<1>6. ~destroyed[s_access] /\ NoSleepers /\ Strays
  BY <1>1, <1>2, DiskNames, QueueNames DEF DMInit, Init, NoSleepers, Strays
<1>7. Roles /\ Asked
  BY <1>2, DiskNames, MyPlaces DEF Roles, Asked, PlacesOf
<1>8. OnCpu /\ Living /\ WhoWaits
  BY <1>1, <1>2, QueueNames, DiskNames DEF OnCpu, Living, WhoWaits, Ending, In
<1>9. Starting
  BY <1>1, <1>2, QueueNames, DiskNames DEF Starting, In
<1> QED BY <1>4, <1>5, <1>6, <1>7, <1>8, <1>9 DEF Base, Rest

(* A step of the code, or one that changes nothing but the history. *)
Still ==
  UNCHANGED << vars, device, manager, code, stray, handling, stage, crashed >>

LEMMA StillSame ==
  Still => UNCHANGED << current, num_user_tasks, queue, state, counter, destroyed, dpc,
                        next_task, size, place, at, device, manager, stray, handling,
                        stage, crashed >>
BY DEF Still, vars, cpu, tcb, sems, disp, code

LEMMA Split ==
  [DMNext]_dmVars => \/ ~Over /\ DMStep /\ torn' = torn /\ races' = races \cup Raced
                     \/ Still /\ torn' \in {torn, TRUE} /\ races' = races
BY DEF DMNext, Recorded, TearRing, dmVars, Still

LEMMA BaseStep == Base /\ Requesters /\ (DMStep \/ Still) => Base'
<1> SUFFICES ASSUME Base, Requesters, DMStep \/ Still PROVE Base'
  OBVIOUS
<1> USE DEF Dispatch
<1>1. CASE ManagerInit
  BY <1>1, InitDiskBase, BootQuietBase, CreateAccessBase DEF ManagerInit
<1>2. CASE Programs
  <2>1. UNCHANGED << device, manager, stray, handling, stage, crashed >>
    BY <1>2 DEF Programs
  <2>2. CASE MainProgram
    <3>1. At(Main, "call") /\ ~Booting
      BY <2>2 DEF MainProgram, At, Booting
    <3>2. \A i \in DOMAIN mover : mover[i] \in Clients
      BY DiskNames
    <3> QED BY <2>1, <2>2, <3>1, <3>2, MainCreatesBase, MainJoinsBase, ExitBase
        DEF MainProgram
  <2>3. CASE TaskJoinReturn(Main) /\ UNCHANGED code
    BY <2>1, <2>3, JoinReturnBase
  <2>4. ASSUME NEW t \in Clients, ClientExit(t) PROVE Base'
    <3>1. t # Main
      BY DiskNames
    <3> QED BY <2>1, <2>4, <3>1, ExitBase DEF ClientExit
  <2> QED BY <1>2, <2>2, <2>3, <2>4 DEF Programs
<1>3. CASE DriverStep
  BY <1>3, DriverDownBase, DownSignalledBase, DriverTestBase, ClearSignalBase,
     DriverQuietBase DEF DriverStep
<1>4. ASSUME NEW t \in Clients \cup {Driver}, TaskStep(t) PROVE Base'
  <2>1. ASSUME Ask(t) PROVE Base'
    BY <2>1, AskBase DEF Ask
  <2> QED BY <1>4, <2>1, EnterQueueBase, WakeForRequestBase, ReadyBase, EnqueueBase,
             UpBase, MarkBase, RemoveSelfBase, ReturnBase DEF TaskStep
<1>5. CASE DiskDone \/ wake_driver
  BY <1>5, DiskDoneBase, SignalBase
<1>6. CASE Still
  <2>1. /\ UNCHANGED << current, num_user_tasks, queue, state, counter, destroyed, dpc,
                        next_task, size, place, at, device, manager, stray, handling,
                        stage, crashed >>
    BY <1>6, StillSame
  <2>2. ManagerTypes' /\ TaskTypes' /\ ~destroyed'[s_access]
    BY <2>1 DEF Base, ManagerTypes, TaskTypes, device, pending, manager
  <2>3. Rest'
    BY <2>1 DEF Base, Rest, NoSleepers, Roles, PlacesOf, OnCpu, WhoWaits, Living, Ending,
                In, Starting, Booting, Asked, Call, Strays, device, pending, manager
  <2> QED BY <2>2, <2>3 DEF Base
<1>7. CASE KernelStep
  BY <1>6, <1>7, TickBase, DispatchBase DEF KernelStep, Terminated, Still
<1> QED BY <1>1, <1>2, <1>3, <1>4, <1>5, <1>6, <1>7 DEF DMStep
-----------------------------------------------------------------------------
(* The races of a step that the history does not know after it. *)
LEMMA RaceFree ==
  ASSUME races' = races \cup Raced
  PROVE  /\ \A r \in races : r \in races'
         /\ "init" \notin races' => ~InitRace
         /\ "down" \notin races' => ~DownRace
         /\ "test" \notin races' => ~TestRace
         /\ "park" \notin races' => ~ParkRace
         /\ "requester" \notin races' => ~RequesterRace
         /\ "handler" \notin races' => ~HandlerRace
BY DEF Raced, AllRaces

(* The accounts of s_access, as long as no signal has fallen into a        *)
(* sem_down of the driver that blocks.                                     *)
Holding == {"append", "wake", "ready", "enqueue", "up", "test", "clear", "command"}

LEMMA WhoHolds ==
  /\ \A u \in Tasks : Holds(u) <=> place[u] \in Holding /\ u \notin In(AccessQ) \cup stray
  /\ \A u \in Tasks :
       Holds(u)' <=> place'[u] \in Holding /\ u \notin In(AccessQ)' \cup stray'
BY DEF Holds, Holding, In, AccessQ

LEMMA RunnerHolds ==
  ASSUME Base, NEW t \in Tasks, current = t, place[t] # "yield"
  PROVE  t \notin In(AccessQ) \cup stray /\ (Holds(t) <=> place[t] \in Holding)
<1>1. t \notin In(AccessQ) /\ t \in In(UserQ)
  BY Runner
<1>2. t \notin stray
  BY <1>1, QueueNames DEF Base, Rest, Strays
<1> QED BY <1>1, <1>2, WhoHolds

(* sem_down and sem_up on s_access. *)
LEMMA DownEffect ==
  ASSUME Base, NEW t \in Tasks, current = t, place[t] # "yield", SemDown(t, s_access)
  PROVE  /\ counter'[s_access] = counter[s_access] - 1 /\ counter[s_access] \in Int
         /\ UNCHANGED << num_user_tasks, disp >>
         /\ \/ /\ counter[s_access] >= 1 /\ UNCHANGED << queue, state, current >>
            \/ /\ counter[s_access] <= 0 /\ current' = Dispatcher
               /\ state' = [state EXCEPT ![t] = "SUSPENDED"]
               /\ In(UserQ)' = In(UserQ) \ {t} /\ In(AccessQ)' = In(AccessQ) \cup {t}
               /\ Len(queue'[AccessQ]) = Len(queue[AccessQ]) + 1
<1>1. /\ counter'[s_access] = counter[s_access] - 1 /\ counter[s_access] \in Int
      /\ UNCHANGED << num_user_tasks, disp >>
      /\ \/ counter'[s_access] < 0 /\ Suspend(t, AccessQ)
         \/ counter'[s_access] >= 0 /\ ReturnUnlocked /\ UNCHANGED << queue, state >>
  BY DiskNames DEF SemDown, AccessQ, Base, TaskTypes
<1>2. CASE counter'[s_access] < 0 /\ Suspend(t, AccessQ)
  <2>1. /\ state' = [state EXCEPT ![t] = "SUSPENDED"] /\ current' = Dispatcher
        /\ In(UserQ)' = In(UserQ) \ {t} /\ In(AccessQ)' = In(AccessQ) \cup {t}
        /\ Len(queue'[AccessQ]) = Len(queue[AccessQ]) + 1
    BY <1>2, BlockEffect, DiskNames
  <2> QED BY <1>1, <1>2, <2>1
<1> QED BY <1>1, <1>2 DEF ReturnUnlocked

LEMMA UpEffect ==
  ASSUME Base, ~NoWaiter, NEW t \in Tasks, SemUp(t, s_access)
  PROVE  /\ counter'[s_access] = counter[s_access] + 1 /\ counter[s_access] \in Int
         /\ UNCHANGED << num_user_tasks, current, disp >>
         /\ \/ counter[s_access] >= 0 /\ UNCHANGED << queue, state >>
            \/ /\ counter[s_access] < 0
               /\ Len(queue'[AccessQ]) = Len(queue[AccessQ]) - 1
               /\ \E e \in In(AccessQ) :
                    /\ e \in Tasks /\ state' = [state EXCEPT ![e] = "READY"]
                    /\ In(UserQ)' = In(UserQ) \cup {e} /\ In(AccessQ)' = In(AccessQ) \ {e}
<1>1. /\ counter'[s_access] = counter[s_access] + 1 /\ counter[s_access] \in Int
      /\ UNCHANGED << num_user_tasks, current, disp >>
      /\ \/ counter'[s_access] <= 0 /\ Grant(s_access)
         \/ counter'[s_access] > 0 /\ UNCHANGED << queue, state >>
  BY DiskNames DEF SemUp, ReturnUnlocked, Base, TaskTypes
<1>2. CASE counter'[s_access] <= 0 /\ Grant(s_access)
  <2>1. queue[AccessQ] # << >> /\ counter[s_access] < 0
    BY <1>1, <1>2 DEF NoWaiter, AccessQ
  <2> QED BY <1>1, <1>2, <2>1, GrantEffect
<1> QED BY <1>1, <1>2

(* Nothing else moves a task into the queue of s_access, or out of it. *)
LEMMA KernelKeeps ==
  ASSUME Base, KernelStep
  PROVE  /\ UNCHANGED << counter, destroyed, device, manager, place, at, stray, handling,
                         stage, crashed >>
         /\ queue'[AccessQ] = queue[AccessQ]
<1>1. UNCHANGED << counter, destroyed, device, manager, place, at, stray, handling,
                   stage, crashed >>
  BY DEF KernelStep, TickUser, Terminated, vars, Dispatch, DispatcherStep,
         DispatchTask, DispatchNone, AfterSwitch, WakeStep, WakeDone, DispatcherExit, sems,
         code
<1>2. ASSUME AfterSwitch, terminate_task(next_task) PROVE queue'[AccessQ] = queue[AccessQ]
  <2>1. next_task \in Tasks
    BY <1>2 DEF AfterSwitch, Base, Rest, OnCpu
  <2> QED BY <1>2, <2>1, TerminateEffect, DiskNames
<1>3. ~WakeStep
  BY DEF WakeStep, Base, Rest, NoSleepers
<1> QED BY <1>1, <1>2, <1>3
    DEF KernelStep, TickUser, Terminated, vars, Dispatch, DispatcherStep,
        DispatchTask, DispatchNone, AfterSwitch, WakeDone, DispatcherExit

LEMMA ProgramsKeep ==
  ASSUME Base, Programs
  PROVE  /\ UNCHANGED << counter, destroyed, device, manager, stray, handling,
                         stage, crashed, place >>
         /\ queue'[AccessQ] = queue[AccessQ]
         /\ \A t \in Tasks \ {Main} : at'[t] = at[t]
<1>1. UNCHANGED << device, manager, stray, handling, stage, crashed, counter, destroyed >>
  BY DEF Programs, MainProgram, ClientExit, TaskCreate, TaskJoin, TaskJoinEnded, TaskExit,
         TaskJoinReturn, sems
<1>2. UNCHANGED place /\ \A t \in Tasks \ {Main} : at'[t] = at[t]
  <2>1. \/ UNCHANGED code
        \/ At(Main, "call") /\ NextCall(Main)
    BY DEF Programs, MainProgram, ClientExit
  <2> QED BY <2>1, DiskNames DEF Base, ManagerTypes, At, NextCall, code
<1>3. queue'[AccessQ] = queue[AccessQ]
  <2>1. ASSUME NEW i \in DOMAIN mover, TaskCreate(Main, mover[i])
        PROVE  queue'[AccessQ] = queue[AccessQ]
    <3>1. mover[i] \in Tasks /\ Main \in Tasks
      BY DiskNames
    <3> QED BY <2>1, <3>1, CreateEffect, DiskNames
  <2>2. ASSUME NEW i \in DOMAIN mover, At(Main, "call"), TaskJoin(Main, mover[i])
        PROVE  queue'[AccessQ] = queue[AccessQ]
    <3>1. /\ mover[i] \in Tasks /\ Main \in Tasks /\ Suspend(Main, WaitQ(mover[i]))
          /\ WaitQ(mover[i]) \in Queues \ {UserQ} /\ current = Main /\ place[Main] = "call"
      BY <2>2, DiskNames, QueueNames DEF TaskJoin, At, Running
    <3>2. \A p \in Queues \ {UserQ, WaitQ(mover[i])} : queue'[p] = queue[p]
      BY <3>1, BlockEffect
    <3> QED BY <3>1, <3>2, DiskNames
  <2> QED BY <2>1, <2>2
      DEF Programs, MainProgram, ClientExit, TaskJoinEnded, TaskExit, TaskJoinReturn
<1> QED BY <1>1, <1>2, <1>3

Early == place[Main] \in {"boot", "count", "access"}

LEMMA AccKeep ==
  ASSUME Access, counter'[s_access] = counter[s_access],
         Len(queue'[AccessQ]) = Len(queue[AccessQ]), stray' = stray,
         \A t \in Tasks : Holds(t)' <=> Holds(t), Early' <=> Early
  PROVE  Access'
<1>1. Units'
  BY DEF Access, Units, Early
<1>2. Exclusively'
  BY DEF Access, Exclusively
<1>3. Waiters'
  BY DEF Access, Waiters
<1> QED BY <1>1, <1>2, <1>3 DEF Access

LEMMA BootAcc ==
  ASSUME Base, Access, ManagerInit
  PROVE  Access'
<1>1. /\ Main \in Tasks /\ current = Main /\ At(Main, place[Main]) /\ Booting
      /\ \/ place' = [place EXCEPT ![Main] = "count"]
         \/ place' = [place EXCEPT ![Main] = "access"]
         \/ place' = [place EXCEPT ![Main] = "fields"]
         \/ place' = [place EXCEPT ![Main] = "call"]
  BY DiskNames DEF ManagerInit, InitDisk, UncountDriver, CreateAccess, InitFields, At, Booting,
                   Goto, Running
<1>2. /\ place[Main] \notin Holding /\ place'[Main] \notin Holding
      /\ \A t \in Tasks \ {Main} : place'[t] = place[t]
  BY <1>1 DEF Holding, Booting, Base, ManagerTypes
<1>3. CASE CreateAccess
  <2>1. /\ counter'[s_access] = 1 /\ place'[Main] = "fields" /\ stray' = In(AccessQ)
        /\ queue'[AccessQ] = << >> /\ Early
    BY <1>1, <1>3, DiskNames
    DEF CreateAccess, Goto, Base, TaskTypes, ManagerTypes, AccessQ, In, Early, At
  <2>2. \A t \in Tasks : ~Holds(t)'
    <3>1. stray = {} /\ \A t \in Tasks : ~Holds(t)
      BY <2>1 DEF Access, Units, Early
    <3> QED BY <1>2, <2>1, <3>1, WhoHolds
  <2>3. Len(queue'[AccessQ]) = 0
    BY <2>1
  <2> QED BY <2>1, <2>2, <2>3 DEF Access, Units, Waiters, Exclusively
<1>4. CASE InitDisk \/ UncountDriver \/ InitFields
  <2>1. counter' = counter /\ stray' = stray /\ (Early' <=> Early)
    BY <1>1, <1>4 DEF InitDisk, UncountDriver, InitFields, TaskCreate, sems, Goto, At, Early,
                      Base, ManagerTypes
  <2>2. queue'[AccessQ] = queue[AccessQ]
    <3>1. CASE InitDisk
      BY <1>1, <3>1, CreateEffect, DiskNames DEF InitDisk
    <3> QED BY <1>4, <3>1 DEF UncountDriver, InitFields
  <2>3. \A t \in Tasks : Holds(t)' <=> Holds(t)
    BY <1>2, <2>1, <2>2, WhoHolds DEF In
  <2> QED BY <2>1, <2>2, <2>3, AccKeep
<1> QED BY <1>3, <1>4 DEF ManagerInit

(* The steps between a sem_down and the next sem_up, or outside both. *)
LEMMA PassAcc ==
  ASSUME Base, Access, NEW t \in Tasks \ {Main}, NEW p, place' = [place EXCEPT ![t] = p],
         place[t] \in Holding <=> p \in Holding,
         queue'[AccessQ] = queue[AccessQ], UNCHANGED << counter, stray >>
  PROVE  Access'
<1>1. /\ Main \in Tasks /\ place'[t] = p
      /\ \A u \in Tasks \ {t} : place'[u] = place[u]
  BY DiskNames DEF Base, ManagerTypes
<1>2. \A u \in Tasks : Holds(u)' <=> Holds(u)
  BY <1>1, WhoHolds DEF In
<1> QED BY <1>1, <1>2, AccKeep DEF Early

LEMMA DownAcc ==
  ASSUME Base, Access, NEW t \in Tasks \ {Main}, NEW p \in Holding, current = t,
         place[t] \in {"call", "down"}, SemDown(t, s_access),
         place' = [place EXCEPT ![t] = p], stray' = stray
  PROVE  Access'
<1>1. /\ Main \in Tasks /\ place'[t] = p
      /\ \A u \in Tasks \ {t} : place'[u] = place[u]
      /\ t \notin In(AccessQ) \cup stray /\ place[t] \notin Holding
      /\ Early' <=> Early
  BY DiskNames, RunnerHolds DEF Base, ManagerTypes, Holding, Early
<1>2. /\ counter'[s_access] = counter[s_access] - 1 /\ counter[s_access] \in Int
      /\ \/ counter[s_access] >= 1 /\ UNCHANGED queue
         \/ /\ counter[s_access] <= 0 /\ In(AccessQ)' = In(AccessQ) \cup {t}
            /\ Len(queue'[AccessQ]) = Len(queue[AccessQ]) + 1
  BY <1>1, DownEffect DEF Holding
<1>3. /\ Early => counter[s_access] <= 0 /\ stray = {} /\ \A u \in Tasks : ~Holds(u)
      /\ ~Early => /\ counter[s_access] <= 1
                   /\ (counter[s_access] = 1 <=> \A u \in Tasks : ~Holds(u))
  BY DEF Access, Units, Early
<1>4. Waiters'
  BY <1>2 DEF Access, Waiters
<1>5. CASE counter[s_access] >= 1 /\ UNCHANGED queue
  <2>1. \A u \in Tasks : Holds(u)' <=> u = t
    BY <1>1, <1>2, <1>3, <1>5, WhoHolds DEF In
  <2>2. Units' /\ Exclusively'
    BY <1>1, <1>2, <1>3, <1>5, <2>1 DEF Units, Exclusively, Early
  <2> QED BY <1>4, <2>2 DEF Access
<1>6. CASE counter[s_access] <= 0 /\ In(AccessQ)' = In(AccessQ) \cup {t}
  <2>1. \A u \in Tasks : Holds(u)' <=> Holds(u)
    BY <1>1, <1>6, WhoHolds
  <2>2. Units'
    BY <1>1, <1>2, <1>3, <1>6, <2>1 DEF Units, Early
  <2>3. Exclusively'
    BY <2>1 DEF Access, Exclusively
  <2> QED BY <1>4, <2>2, <2>3 DEF Access
<1> QED BY <1>2, <1>5, <1>6

LEMMA AWaiter ==
  ASSUME Base, Waiters
  PROVE  ~NoWaiter
<1>1. counter[s_access] \in Int
  BY DiskNames DEF Base, TaskTypes
<1> QED BY <1>1 DEF Waiters, NoWaiter, AccessQ

LEMMA UpAcc ==
  ASSUME Base, Access, NEW t \in Tasks \ {Main}, current = t, place[t] = "up",
         SemUp(t, s_access), place' = [place EXCEPT ![t] = "mark"], stray' = stray
  PROVE  Access'
<1>1. /\ Main \in Tasks /\ place'[t] = "mark" /\ (Early' <=> Early)
      /\ \A u \in Tasks \ {t} : place'[u] = place[u]
      /\ t \notin In(AccessQ) \cup stray /\ Holds(t)
  BY DiskNames, RunnerHolds DEF Base, ManagerTypes, Early, Holding
<1>2. ~NoWaiter
  BY AWaiter DEF Access
<1>3. /\ counter'[s_access] = counter[s_access] + 1 /\ counter[s_access] \in Int
      /\ \/ counter[s_access] >= 0 /\ UNCHANGED queue
         \/ /\ counter[s_access] < 0
            /\ Len(queue'[AccessQ]) = Len(queue[AccessQ]) - 1
            /\ \E e \in In(AccessQ) : e \in Tasks /\ In(AccessQ)' = In(AccessQ) \ {e}
  BY <1>1, <1>2, UpEffect
<1>4. /\ ~Early /\ counter[s_access] <= 1
      /\ (counter[s_access] = 1 <=> \A u \in Tasks : ~Holds(u))
  BY <1>1 DEF Access, Units, Early
<1>5. \A u \in Tasks : Holds(u) <=> u = t
  BY <1>1 DEF Access, Exclusively
<1>6. counter[s_access] <= 0
  BY <1>1, <1>3, <1>4
<1>7. Waiters'
  BY <1>3, <1>6 DEF Access, Waiters
<1>8. CASE counter[s_access] >= 0 /\ UNCHANGED queue
  <2>1. \A u \in Tasks : ~Holds(u)'
    BY <1>1, <1>5, <1>8, WhoHolds DEF In, Holding
  <2>2. Units' /\ Exclusively'
    BY <1>1, <1>3, <1>4, <1>6, <1>8, <2>1 DEF Units, Exclusively, Early
  <2> QED BY <1>7, <2>2 DEF Access
<1>9. ASSUME NEW e \in In(AccessQ), e \in Tasks, In(AccessQ)' = In(AccessQ) \ {e},
             counter[s_access] < 0
      PROVE  Access'
  <2>1. place[e] \in Holding /\ e # t /\ e \notin stray
    BY <1>1, <1>9, DiskNames DEF Base, Rest, WhoWaits, Strays, AccessQ, Holding
  <2>2. \A u \in Tasks : Holds(u)' <=> u = e
    BY <1>1, <1>5, <1>9, <2>1, WhoHolds DEF Holding
  <2>3. Units' /\ Exclusively'
    BY <1>1, <1>3, <1>4, <1>9, <2>2 DEF Units, Exclusively, Early
  <2> QED BY <1>7, <2>3 DEF Access
<1> QED BY <1>3, <1>8, <1>9

(* What wakes a task outside the kernel keeps the queue of s_access. *)
LEMMA PutReadyKeeps ==
  ASSUME Base, NEW t \in Tasks, PutReady(t)
  PROVE  queue'[AccessQ] = queue[AccessQ]
BY PutReadyEffect, DiskNames

LEMMA NotSignalled ==
  ASSUME ManagerTypes, ~DownRace
  PROVE  ~DownSignalled
<1>1. DownSignalled => place[Driver] = "down" /\ place'[Driver] = "test" /\ armed /\ ~armed'
  BY DiskNames DEF DownSignalled, disk_sighandle, At, Goto, ManagerTypes
<1> QED BY <1>1 DEF DownRace, Completion

LEMMA AccStep ==
  ASSUME Base, Requesters, Access, DMStep, ~DownRace
  PROVE  Access'
<1>1. ASSUME UNCHANGED << counter, place, stray >>, queue'[AccessQ] = queue[AccessQ]
      PROVE  Access'
  <2>1. (\A t \in Tasks : Holds(t)' <=> Holds(t)) /\ (Early' <=> Early)
    BY <1>1 DEF Holds, AccessQ, Early
  <2> QED BY <1>1, <2>1, AccKeep
<1>2. CASE ManagerInit
  BY <1>2, BootAcc
<1>3. CASE Programs \/ KernelStep
  BY <1>1, <1>3, ProgramsKeep, KernelKeeps
<1>4. CASE DiskDone \/ wake_driver
  <2>1. CASE DiskDone
    BY <1>1, <2>1 DEF DiskDone, vars, sems, code
  <2>2. CASE wake_driver
    <3>1. UNCHANGED << counter, place, stray >> /\ (UNCHANGED queue \/ PutReady(Driver))
      BY <2>2 DEF wake_driver, SetSignal, ReadyDriver, AppendDriver, SetReady, KernelSame,
                  vars, sems, code
    <3> QED BY <1>1, <3>1, PutReadyKeeps, DiskNames
  <2> QED BY <1>4, <2>1, <2>2
<1>5. ASSUME NEW t \in Clients \cup {Driver}, NEW from, At(t, from) PROVE
        t \in Tasks \ {Main} /\ current = t /\ place[t] = from
  BY <1>5, DiskNames DEF At, Running
<1>6. ASSUME NEW t \in Clients \cup {Driver}, NEW from, At(t, from), NEW p,
             place' = [place EXCEPT ![t] = p],
             from \in Holding <=> p \in Holding,
             queue'[AccessQ] = queue[AccessQ], UNCHANGED << counter, stray >>
      PROVE  Access'
  <2>1. t \in Tasks \ {Main} /\ (place[t] \in Holding <=> p \in Holding)
    BY <1>5, <1>6
  <2> QED BY <1>6, <2>1, PassAcc
<1>7. CASE DriverStep
  <2>1. CASE DriverDown
    <3>1. /\ Driver \in Tasks \ {Main} /\ current = Driver /\ place[Driver] = "down"
          /\ SemDown(Driver, s_access) /\ stray' = stray
          /\ place' = [place EXCEPT ![Driver] = "test"] /\ "test" \in Holding
      BY <1>5, <2>1 DEF DriverDown, Goto, Holding
    <3> QED BY <3>1, DownAcc
  <2>2. ~DownSignalled
    BY NotSignalled DEF Base
  <2>3. CASE DriverTest
    <3>1. /\ UNCHANGED << vars, stray >>
          /\ place' = place \/ \E p \in Holding : place' = [place EXCEPT ![Driver] = p]
          /\ At(Driver, "test")
      BY <2>3 DEF DriverTest, Finish, Goto, Holding, code
    <3>2. UNCHANGED << counter, queue >> /\ "test" \in Holding
      BY <3>1 DEF vars, sems, Holding
    <3> QED BY <1>1, <1>6, <3>1, <3>2
  <2>4. CASE DriverCommand \/ ClearSignal
    <3>1. \E from, p \in Holding :
            At(Driver, from) /\ place' = [place EXCEPT ![Driver] = p]
      BY <2>4 DEF DriverCommand, ClearSignal, Goto, Holding
    <3>2. UNCHANGED << counter, queue, stray >>
      BY <2>4 DEF DriverCommand, ClearSignal, vars, sems
    <3> QED BY <1>6, <3>1, <3>2
  <2> QED BY <1>7, <2>1, <2>2, <2>3, <2>4 DEF DriverStep
<1>8. ASSUME NEW t \in Clients \cup {Driver}, TaskStep(t) PROVE Access'
  <2>1. CASE Ask(t)
    <3>1. CASE SemDown(t, s_access) /\ Goto(t, "append")
      BY <1>5, <2>1, <3>1, DownAcc DEF Ask, Goto, Holding
    <3>2. CASE NextCall(t) /\ UNCHANGED vars
      <4>1. /\ At(t, "call") /\ place' = [place EXCEPT ![t] = "call"]
            /\ UNCHANGED << queue, counter, stray >>
        BY <2>1, <3>2 DEF Ask, NextCall, vars, sems
      <4> QED BY <1>6, <4>1
    <3> QED BY <2>1, <3>1, <3>2 DEF Ask
  <2>2. CASE EnterQueue(t) \/ WakeForRequest(t)
    <3>1. /\ \E from, p \in Holding : At(t, from) /\ place' = [place EXCEPT ![t] = p]
          /\ UNCHANGED << queue, counter, stray >>
      BY <2>2 DEF EnterQueue, WakeForRequest, Goto, vars, sems, Holding
    <3> QED BY <1>6, <3>1
  <2>3. CASE Ready(t) \/ Enqueue(t)
    <3>1. /\ \E from, p \in Holding : At(t, from) /\ place' = [place EXCEPT ![t] = p]
          /\ UNCHANGED << counter, stray >>
          /\ UNCHANGED queue \/ PutReady(Woken(t))
      BY <2>3 DEF Ready, Enqueue, SetReady, Goto, KernelSame, sems, Holding
    <3>2. UNCHANGED queue \/ (Woken(t) \in Tasks /\ PutReady(Woken(t)))
      BY <1>5, <2>3, <3>1, WokenLives DEF Ready, Enqueue, SetReady
    <3> QED BY <1>6, <3>1, <3>2, PutReadyKeeps
  <2>4. CASE Up(t)
    <3>1. t \in Tasks \ {Main} /\ current = t /\ place[t] = "up" /\ stray' = stray
      BY <1>5, <2>4 DEF Up
    <3>2. ~NoWaiter
      BY AWaiter DEF Access
    <3> QED BY <2>4, <3>1, <3>2, UpAcc DEF Up, Goto
  <2>5. CASE Mark(t) \/ Yield(t) \/ Return(t)
    <3>1. /\ \E from, p : /\ from \notin Holding /\ p \notin Holding /\ At(t, from)
                          /\ place' = [place EXCEPT ![t] = p]
          /\ UNCHANGED << queue, counter, stray >>
      BY <2>5 DEF Mark, Yield, TaskYield, Return, NextCall, Goto, KernelSame, vars, sems,
                  Holding
    <3> QED BY <1>6, <3>1
  <2>6. CASE RemoveSelf(t)
    <3>1. queue'[AccessQ] = queue[AccessQ]
      <4>1. TakenOut(Queues, Tasks, queue, UserQ, t, queue')
        BY <1>5, <2>6, QueueNames, RemoveAny DEF RemoveSelf, Base, TaskTypes
      <4> QED BY <4>1, DiskNames DEF TakenOut
    <3>2. /\ At(t, "remove") /\ place' = [place EXCEPT ![t] = "yield"]
          /\ UNCHANGED << counter, stray >>
      BY <2>6 DEF RemoveSelf, Goto, KernelSame, sems
    <3>3. "remove" \notin Holding /\ "yield" \notin Holding
      BY DEF Holding
    <3> QED BY <1>6, <3>1, <3>2, <3>3
  <2> QED BY <1>8, <2>1, <2>2, <2>3, <2>4, <2>5, <2>6 DEF TaskStep
<1> QED BY <1>2, <1>3, <1>4, <1>7, <1>8 DEF DMStep

LEMMA InitAcc == DMInit => Access
<1> SUFFICES ASSUME DMInit PROVE Access
  OBVIOUS
<1>1. /\ \A t \in Tasks : place[t] \notin Holding
      /\ place[Main] = "boot" /\ stray = {}
  BY DiskNames DEF DMInit, Holding
<1>2. queue[AccessQ] = << >> /\ counter[s_access] = 0
  BY DiskNames, QueueNames DEF DMInit, Init
<1>3. Waiters
  BY <1>2 DEF Waiters
<1> QED BY <1>1, <1>2, <1>3, WhoHolds DEF Access, Units, Exclusively
-----------------------------------------------------------------------------
(* Who has a request or is being woken, and who counts as a user task: no  *)
(* race disturbs either.                                                   *)
LEMMA AskerClient ==
  ASSUME ManagerTypes, NEW i \in DOMAIN requests
  PROVE  Asker(i) \in Clients
<1> DEFINE R == [requester : Clients, op_type : {"READ", "WRITE"},
                 block : Blocks, buffer : Buffers]
<1>1. requests \in Seq(R)
  BY DEF ManagerTypes
<1>2. requests[i] \in R
  <2> HIDE DEF R
  <2> QED BY <1>1, ElementOfSeq, LenProperties
<1> QED BY <1>2 DEF Asker

\* No longer waiting for the driver to wake it.
Released(u) == ~Waking /\ \A i \in DOMAIN requests : Asker(i) # u

LEMMA RequestersKeep ==
  ASSUME Base, Requesters, UNCHANGED requests, Waking' => Waking /\ first' = first,
         \A u \in Clients : Waits(u) => Waits(u)' \/ Released(u)'
  PROVE  Requesters'
<1>1. \A i \in DOMAIN requests : Asker(i)' = Asker(i) /\ Asker(i) \in Clients
  BY AskerClient DEF Base, Asker
<1>2. \A i \in DOMAIN requests : Waits(Asker(i))'
  <2>1. \A i \in DOMAIN requests : ~Released(Asker(i))'
    BY <1>1 DEF Released
  <2>2. \A i \in DOMAIN requests : Waits(Asker(i))
    BY DEF Requesters
  <2>3. ASSUME NEW i \in DOMAIN requests PROVE Waits(Asker(i))'
    <3> DEFINE u == Asker(i)
    <3>1. u \in Clients /\ Waits(u) /\ ~Released(u)' /\ u' = u
      BY <1>1, <2>1, <2>2
    <3> QED BY <3>1
  <2> QED BY <2>3
<1>3. Waking' => first' \in Clients /\ Waits(first)'
  <2> SUFFICES ASSUME Waking' PROVE first' \in Clients /\ Waits(first)'
    OBVIOUS
  <2>1. first \in Clients /\ Waits(first) /\ first' = first
    BY DEF Requesters
  <2>2. ~Released(first)'
    BY DEF Released
  <2> QED BY <2>1, <2>2 DEF Waits
<1>4. Waking' => \A i \in DOMAIN requests : Asker(i)' # first'
  BY <1>1 DEF Requesters
<1> QED BY <1>1, <1>2, <1>3, <1>4 DEF Requesters

LEMMA CountKeep ==
  ASSUME CountInv, Base', UNCHANGED << requests, num_user_tasks >>,
         Waking' => Waking /\ first' = first,
         \A u \in Clients : Waits(u) => Waits(u)' \/ Released(u)',
         \A u \in Tasks \ {Driver} : Alive(u)' <=> Alive(u), Extra' = Extra,
         dpc' = "halted" => dpc = "halted" \/ num_user_tasks = 0
  PROVE  CountInv'
<1>1. Requesters'
  BY RequestersKeep DEF CountInv
<1>2. UserTasks' = UserTasks
  BY DEF UserTasks
<1> QED BY <1>1, <1>2 DEF CountInv, Count

(* A step of the running task. *)
LEMMA RunCount ==
  ASSUME CountInv, Base', NEW t \in Tasks, current = t, NEW p,
         place' = [place EXCEPT ![t] = p],
         t = Main => p = place[t] \/ "count" \notin {p, place[t]},
         t = Driver => p # "ready" /\ (p = "enqueue" => place[t] = "ready"),
         first' = first \/ (t = Driver /\ p = "command"),
         UNCHANGED << dpc, next_task, requests, num_user_tasks >>,
         t \in Clients /\ Waits(t) => Waits(t)',
         NEW e \in Tasks, e = Driver \/ state[e] # "TERM",
         state' \in {state, [state EXCEPT ![e] = "READY"], [state EXCEPT ![e] = "SUSPENDED"]},
         \/ In(UserQ)' \subseteq In(UserQ)
         \/ In(UserQ)' \subseteq In(UserQ) \cup {e} /\ (e \in Clients => ~Waits(e) \/ Released(e)')
  PROVE  CountInv'
<1>1. /\ Base /\ dpc = "switched" /\ next_task = t /\ state[t] # "TERM"
      /\ \A u \in Tasks : ~Ending(u)
      /\ \A u \in Tasks \ {t} : place'[u] = place[u]
      /\ Main \in Tasks
  BY Runner, DiskNames DEF CountInv, Base, ManagerTypes
<1>2. \A u \in Tasks \ {Driver} : state'[u] = "TERM" <=> state[u] = "TERM"
  BY <1>1 DEF Base, TaskTypes
<1>3. state'[t] # "TERM"
  BY <1>1 DEF Base, TaskTypes
<1>4. \A u \in Tasks : ~Ending(u)'
  BY <1>1, <1>3 DEF Ending
<1>5. \A u \in Tasks \ {Driver} : Alive(u)' <=> Alive(u)
  BY <1>1, <1>2, <1>4 DEF Alive
<1>6. \A u \in Clients : Waits(u) => Waits(u)' \/ Released(u)'
  <2> SUFFICES ASSUME NEW u \in Clients \ {t}, Waits(u), ~Released(u)' PROVE Waits(u)'
    OBVIOUS
  <2>1. u \in Tasks
    BY DiskNames
  <2>2. u \notin In(UserQ) => u \notin In(UserQ)'
    OBVIOUS
  <2> QED BY <1>1, <2>1, <2>2 DEF Waits
<1>7. place'[Main] = "count" <=> place[Main] = "count"
  BY <1>1 DEF Base, ManagerTypes
<1>8. Waking' => Waking /\ first' = first
  <2>1. t = Driver => place'[Driver] = p
    BY <1>1, DiskNames DEF Base, ManagerTypes
  <2> QED BY <1>1, <2>1, DiskNames DEF Waking
<1> QED BY <1>1, <1>5, <1>6, <1>7, <1>8, CountKeep DEF Extra

\* The driver wakes nobody before disk_mgr_init is through.
LEMMA BootNobody ==
  ASSUME Base, Requesters, Booting
  PROVE  ~Waking
BY DEF Base, Rest, Starting, Requesters, Waking, Waits

LEMMA BootCount ==
  ASSUME CountInv, ManagerInit, Base'
  PROVE  CountInv'
<1>1. /\ Main \in Tasks /\ Driver \in Tasks /\ Main # Driver /\ current = Main /\ Booting
      /\ Base /\ Main \notin Clients
  BY DiskNames DEF ManagerInit, InitDisk, UncountDriver, CreateAccess, InitFields, At, Running,
                   Booting, CountInv
<1>2. /\ dpc = "switched" /\ next_task = Main /\ state[Main] # "TERM"
      /\ \A u \in Tasks : ~Ending(u)
  BY <1>1, Runner
<1>3. CASE InitDisk \/ UncountDriver
  <2>1. /\ UNCHANGED << dpc, next_task, requests >>
        /\ state' \in {state, [state EXCEPT ![Driver] = "READY"]}
        /\ In(UserQ)' \subseteq In(UserQ) \cup {Driver}
        /\ \/ /\ num_user_tasks' = num_user_tasks + 1 /\ place[Main] = "boot"
              /\ place' = [place EXCEPT ![Main] = "count"]
           \/ /\ num_user_tasks' = num_user_tasks - 1 /\ place[Main] = "count"
              /\ place' = [place EXCEPT ![Main] = "access"]
    <3>1. CASE InitDisk
      BY <1>1, <3>1, CreateEffect DEF InitDisk, At, Goto
    <3>2. CASE UncountDriver
      BY <3>2 DEF UncountDriver, At, Goto, disp, tcb, manager, In
    <3> QED BY <1>3, <3>1, <3>2
  <2>2. /\ \A u \in Tasks \ {Driver} : state'[u] = state[u]
        /\ \A u \in Tasks \ {Main} : place'[u] = place[u]
        /\ place' \in [Tasks -> Places]
        /\ place[Main] \in {"boot", "count"} /\ place'[Main] \in {"count", "access"}
    BY <1>1, <2>1 DEF Base, ManagerTypes, TaskTypes
  <2>3. \A u \in Tasks : u # Driver => ~Ending(u)'
    BY <1>1, <1>2, <2>1, <2>2 DEF Ending
  <2>4. UserTasks' = UserTasks
    BY <1>2, <2>2, <2>3 DEF UserTasks, Alive
  <2>5. num_user_tasks = Cardinality(UserTasks) + Extra /\ num_user_tasks \in Int
    BY DEF CountInv, Count, Base, TaskTypes
  <2>6. Count'
    <3>1. num_user_tasks' = num_user_tasks - Extra + Extra'
      BY <1>1, <2>1, <2>2, <2>5 DEF Extra, Base, ManagerTypes
    <3>2. Cardinality(UserTasks) = num_user_tasks - Extra /\ Extra \in Int /\ Extra' \in Int
      BY <2>5, FS_CardinalityType, FS_Subset, KernelAssumption DEF UserTasks, Extra
    <3> QED BY <1>2, <2>1, <2>4, <3>1, <3>2 DEF Count
  <2>7. requests' = << >>
    BY <1>1, <2>1, BootingRunner
  <2>8. Requesters'
    BY <1>1, <2>2, <2>7, BootNobody DEF CountInv, Requesters, Waking
  <2> QED BY <2>6, <2>8 DEF CountInv
<1>4. CASE CreateAccess
  <2>1. /\ place' = [place EXCEPT ![Main] = "fields"] /\ place[Main] = "access"
        /\ UNCHANGED << dpc, next_task, requests, first, num_user_tasks, state >>
        /\ queue' = [queue EXCEPT ![AccessQ] = << >>]
    BY <1>4 DEF CreateAccess, Goto, At, disp, tcb, manager, AccessQ
  <2>2. In(UserQ)' = In(UserQ)
    BY <1>1, <2>1, DiskNames, QueueNames DEF In, Base, TaskTypes
  <2> QED BY <1>1, <1>2, <2>1, <2>2, RunCount
<1>5. CASE InitFields
  <2>1. /\ place' = [place EXCEPT ![Main] = "call"] /\ place[Main] = "fields"
        /\ UNCHANGED << dpc, next_task, first, num_user_tasks, state, queue >> /\ requests' = << >>
    BY <1>5 DEF InitFields, Goto, At, disp, tcb
  <2>2. In(UserQ)' = In(UserQ) /\ requests' = requests
    BY <1>1, <2>1, BootingRunner DEF In
  <2> QED BY <1>1, <1>2, <2>1, <2>2, RunCount
<1> QED BY <1>3, <1>4, <1>5 DEF ManagerInit

LEMMA TasksFinite ==
  /\ IsFiniteSet(UserTasks) /\ Cardinality(UserTasks) \in Nat
  /\ Extra \in {0, 1}
<1>1. IsFiniteSet(UserTasks)
  BY FS_Subset, KernelAssumption DEF UserTasks
<1> QED BY <1>1, FS_CardinalityType DEF Extra

LEMMA CreateCount ==
  ASSUME CountInv, NEW u \in Clients, At(Main, "call"), TaskCreate(Main, u), NextCall(Main),
         UNCHANGED manager, Base'
  PROVE  CountInv'
<1>1. /\ Base /\ Main \in Tasks /\ u \in Tasks /\ u # Driver /\ UNCHANGED << place, requests, first >>
      /\ current = Main /\ place[Main] = "call" /\ u # Main
  BY DiskNames DEF CountInv, NextCall, At, Running, Base, ManagerTypes, manager
<1>2. /\ dpc = "switched" /\ next_task = Main /\ state[Main] # "TERM"
      /\ \A v \in Tasks : ~Ending(v)
  BY <1>1, Runner
<1>3. /\ UNCHANGED << dpc, next_task, current >> /\ state[u] = "TERM"
      /\ state' = [state EXCEPT ![u] = "READY"] /\ num_user_tasks' = num_user_tasks + 1
      /\ In(UserQ)' = In(UserQ) \cup {u}
  BY <1>1, CreateEffect
<1>4. state'[u] = "READY" /\ \A v \in Tasks \ {u} : state'[v] = state[v]
  BY <1>1, <1>3 DEF Base, TaskTypes
<1>5. \A v \in Tasks : ~Ending(v)'
  BY <1>1, <1>2, <1>3, <1>4 DEF Ending
<1>6. UserTasks' = UserTasks \cup {u} /\ u \notin UserTasks
  BY <1>1, <1>2, <1>3, <1>4, <1>5 DEF UserTasks, Alive
<1>7. Cardinality(UserTasks') = Cardinality(UserTasks) + 1 /\ Extra' = 0 /\ Extra = 0
  BY <1>1, <1>6, TasksFinite, FS_AddElement DEF Extra
<1>8. Count'
  BY <1>2, <1>3, <1>7, TasksFinite DEF CountInv, Count
<1>9. place[u] = "call"
  BY <1>1, <1>3, MyPlaces DEF Base, Rest, Living, Roles
<1>10. \A v \in Clients : Waits(v) => Waits(v)'
  BY <1>1, <1>3, <1>9 DEF Waits
<1>11. Requesters'
  BY <1>1, <1>10, RequestersKeep DEF CountInv, Waking
<1> QED BY <1>8, <1>11 DEF CountInv

LEMMA ExitCount ==
  ASSUME CountInv, NEW t \in Clients \cup {Main}, At(t, "call"), TaskExit(t, 0),
         UNCHANGED code, UNCHANGED manager, Base'
  PROVE  CountInv'
<1>1. /\ Base /\ t \in Tasks /\ current = t /\ current' = Dispatcher
      /\ state' = [state EXCEPT ![t] = "TERM"]
      /\ UNCHANGED << num_user_tasks, queue, dpc, next_task, place, requests, first >>
  BY DiskNames DEF CountInv, TaskExit, SwitchToDispatcher, code, At, Running, disp, manager
<1>2. dpc = "switched" /\ next_task = t /\ state[t] # "TERM" /\ \A u \in Tasks : ~Ending(u)
  BY <1>1, Runner
<1>3. state'[t] = "TERM" /\ \A u \in Tasks \ {t} : state'[u] = state[u]
  BY <1>1 DEF Base, TaskTypes
<1>4. \A u \in Tasks : Alive(u)' <=> Alive(u)
  BY <1>1, <1>2, <1>3 DEF Alive, Ending
<1>5. \A u \in Clients : Waits(u) => Waits(u)'
  BY <1>1 DEF Waits, In
<1> QED BY <1>1, <1>2, <1>4, <1>5, CountKeep DEF Extra, Waking

LEMMA ProgramsCount ==
  ASSUME CountInv, Programs, Base'
  PROVE  CountInv'
<1>1. /\ Base /\ Main \in Tasks \ {Driver} /\ Main \notin Clients /\ UNCHANGED << place, requests, first >>
      /\ UNCHANGED manager /\ \A i \in DOMAIN mover : mover[i] \in Clients
      /\ place' = [place EXCEPT ![Main] = place[Main]]
  BY DiskNames, ProgramsKeep DEF CountInv, manager, Base, ManagerTypes
<1>2. ASSUME NEW i \in DOMAIN mover, At(Main, "call"), TaskJoin(Main, mover[i])
      PROVE  CountInv'
  <2>1. /\ WaitQ(mover[i]) \in Queues \ {UserQ} /\ Suspend(Main, WaitQ(mover[i]))
        /\ current = Main /\ place[Main] = "call"
        /\ UNCHANGED << dpc, next_task, num_user_tasks >>
    BY <1>1, <1>2, QueueNames, DiskNames DEF TaskJoin, At, Running, disp
  <2>2. state' = [state EXCEPT ![Main] = "SUSPENDED"] /\ In(UserQ)' = In(UserQ) \ {Main}
    BY <1>1, <2>1, BlockEffect
  <2>3. state[Main] # "TERM"
    BY <1>1, <2>1, Runner
  <2>4. In(UserQ)' \subseteq In(UserQ)
    BY <2>2
  <2> QED BY <1>1, <2>1, <2>2, <2>3, <2>4, RunCount
<1>3. ASSUME current = Main, UNCHANGED << dpc, next_task, num_user_tasks, state, queue >>
      PROVE  CountInv'
  <2>1. state[Main] # "TERM" /\ In(UserQ)' = In(UserQ)
    BY <1>1, <1>3, Runner DEF In
  <2> QED BY <1>1, <1>3, <2>1, RunCount
<1>4. CASE MainProgram
  <2>1. ASSUME NEW i \in DOMAIN mover, TaskJoinEnded(Main, mover[i]) PROVE CountInv'
    BY <1>3, <2>1 DEF TaskJoinEnded, Running, disp, tcb
  <2> QED BY <1>1, <1>2, <1>4, <2>1, CreateCount, ExitCount DEF MainProgram
<1>5. CASE TaskJoinReturn(Main)
  BY <1>3, <1>5 DEF TaskJoinReturn, disp, tcb
<1>6. ASSUME NEW t \in Clients, ClientExit(t) PROVE CountInv'
  BY <1>1, <1>6, ExitCount DEF ClientExit
<1> QED BY <1>4, <1>5, <1>6 DEF Programs

LEMMA AppendAt ==
  ASSUME NEW S, NEW s \in Seq(S), NEW e
  PROVE  /\ Len(s) \in Nat /\ DOMAIN s = 1..Len(s)
         /\ DOMAIN Append(s, e) = 1..(Len(s) + 1)
         /\ Append(s, e)[Len(s) + 1] = e
         /\ \A i \in DOMAIN s : Append(s, e)[i] = s[i]
<1>1. s \in Seq(S \cup {e}) /\ e \in S \cup {e}
  OBVIOUS
<1> QED BY <1>1, AppendProperties, LenProperties

LEMMA EnterCount ==
  ASSUME CountInv, NEW t \in Clients, EnterQueue(t), Base'
  PROVE  CountInv'
<1> DEFINE r == [requester |-> t, op_type |-> Call(t).op_type,
                 block |-> Call(t).block, buffer |-> Call(t).buffer]
<1>1. /\ Base /\ t \in Tasks /\ t # Main /\ current = t /\ place[t] = "append"
      /\ requests' = Append(requests, r) /\ r.requester = t
      /\ UNCHANGED vars /\ place' = [place EXCEPT ![t] = "wake"]
  BY DiskNames DEF CountInv, EnterQueue, Goto, At, Running
<1>2. /\ requests \in Seq([requester : Clients, op_type : {"READ", "WRITE"},
                           block : Blocks, buffer : Buffers])
      /\ place'[t] = "wake" /\ \A u \in Tasks \ {t} : place'[u] = place[u]
  BY <1>1 DEF Base, ManagerTypes
<1> HIDE DEF r
<1>3. /\ DOMAIN requests = 1..Len(requests) /\ Len(requests) \in Nat
      /\ DOMAIN requests' = 1..(Len(requests) + 1)
      /\ requests'[Len(requests) + 1].requester = t
      /\ \A i \in DOMAIN requests : Asker(i)' = Asker(i)
  <2>1. /\ Len(requests) \in Nat /\ DOMAIN requests = 1..Len(requests)
        /\ DOMAIN requests' = 1..(Len(requests) + 1)
        /\ requests'[Len(requests) + 1] = r
        /\ \A i \in DOMAIN requests : requests'[i] = requests[i]
    BY <1>1, <1>2, AppendAt
  <2> QED BY <1>1, <2>1 DEF Asker
<1>4. ~(Waking /\ first = t) /\ \A i \in DOMAIN requests : Asker(i) # t /\ Asker(i) \in Clients
  BY <1>1, AskerClient DEF CountInv, Base, Requesters, Waits
<1>5. \A u \in Clients : Waits(u) => Waits(u)'
  BY <1>1, <1>2, DiskNames DEF Waits, In, vars
<1>6. Waits(t)'
  BY <1>2 DEF Waits
<1>7. Requesters'
  <2>1. \A i \in DOMAIN requests' : i \in DOMAIN requests \/ i = Len(requests) + 1
    BY <1>3
  <2>2. \A i \in DOMAIN requests : Waits(Asker(i))'
    BY <1>3, <1>4, <1>5 DEF CountInv, Requesters
  <2>3. \A i \in DOMAIN requests' : Waits(Asker(i))'
    BY <1>3, <1>6, <2>1, <2>2 DEF Waits, Asker
  <2>4. \A i, j \in DOMAIN requests' : Asker(i)' = Asker(j)' => i = j
    <3>1. \A i, j \in DOMAIN requests : Asker(i) = Asker(j) => i = j
      BY DEF CountInv, Requesters
    <3> QED BY <1>3, <1>4, <2>1, <3>1 DEF Asker
  <2>5. Waking' => first' \in Clients /\ Waits(first)'
    <3>1. Waking' => Waking /\ first' = first
      BY <1>1, <1>2, DiskNames DEF Waking, EnterQueue
    <3>2. Waking => first \in Clients /\ Waits(first)
      BY DEF CountInv, Requesters
    <3> QED BY <1>5, <3>1, <3>2 DEF Waits
  <2>6. Waking' => \A i \in DOMAIN requests' : Asker(i)' # first'
    <3>1. Waking' => Waking /\ first' = first
      BY <1>1, <1>2, DiskNames DEF Waking, EnterQueue
    <3>2. Waking => \A i \in DOMAIN requests : Asker(i) # first
      BY DEF CountInv, Requesters
    <3> QED BY <1>3, <1>4, <2>1, <3>1, <3>2 DEF Asker
  <2> QED BY <2>3, <2>4, <2>5, <2>6 DEF Requesters
<1>8. Count'
  BY <1>1, <1>2, DiskNames
  DEF CountInv, Count, UserTasks, Alive, Ending, Extra, vars, cpu, disp, tcb
<1> QED BY <1>7, <1>8 DEF CountInv

LEMMA FinishCount ==
  ASSUME CountInv, At(Driver, "test"), requests # << >>, requests' = Tail(requests),
         first' = Head(requests).requester, UNCHANGED vars, Goto(Driver, "ready"), Base'
  PROVE  CountInv'
<1>1. /\ Base /\ Driver \in Tasks /\ current = Driver /\ Driver \notin Clients /\ Driver # Main
      /\ UNCHANGED << num_user_tasks, dpc, next_task, current, state, queue >>
      /\ place' = [place EXCEPT ![Driver] = "ready"] /\ Main \in Tasks
  BY DiskNames DEF CountInv, At, Running, Goto, vars, cpu, disp, tcb
<1>2. /\ Head(requests) = requests[1] /\ 1 \in DOMAIN requests
      /\ first' = Asker(1) /\ Asker(1) \in Clients
  BY <1>1, HeadRequest DEF Base, Asker
<1>3. /\ Len(requests) \in Nat /\ DOMAIN requests = 1..Len(requests)
      /\ DOMAIN requests' = 1..(Len(requests) - 1)
      /\ \A i \in 1..(Len(requests) - 1) : Asker(i)' = Asker(i + 1)
  <2>1. requests \in Seq([requester : Clients, op_type : {"READ", "WRITE"},
                          block : Blocks, buffer : Buffers])
    BY <1>1 DEF Base, ManagerTypes
  <2>2. /\ Len(requests') = Len(requests) - 1
        /\ \A i \in 1..Len(requests') : requests'[i] = requests[i + 1]
        /\ Tail(requests) \in Seq([requester : Clients, op_type : {"READ", "WRITE"},
                                   block : Blocks, buffer : Buffers])
    BY <2>1, HeadTailProperties
  <2>3. /\ Len(requests) \in Nat /\ DOMAIN requests = 1..Len(requests)
        /\ DOMAIN requests' = 1..Len(requests')
    BY <2>1, <2>2, <1>2, LenProperties
  <2> QED BY <2>2, <2>3 DEF Asker
<1>4. \A i \in DOMAIN requests' : i + 1 \in DOMAIN requests /\ Asker(i + 1) # Asker(1)
  BY <1>2, <1>3 DEF CountInv, Requesters
<1>5. \A u \in Clients : Waits(u) <=> Waits(u)'
  <2>1. \A u \in Clients : place'[u] = place[u]
    BY <1>1, DiskNames DEF Base, ManagerTypes
  <2> QED BY <1>1, <2>1 DEF Waits, In
<1>6. Requesters'
  <2>1. \A i \in DOMAIN requests' : Waits(Asker(i))' /\ Asker(i)' = Asker(i + 1)
    BY <1>1, <1>3, <1>4, <1>5, AskerClient DEF CountInv, Base, Requesters
  <2>2. Waits(first)'
    BY <1>2, <1>5 DEF CountInv, Requesters, Waits
  <2> QED BY <1>2, <1>3, <1>4, <2>1, <2>2 DEF CountInv, Requesters
<1>7. Count'
  <2>1. UserTasks' = UserTasks
    BY <1>1 DEF UserTasks, Alive, Ending
  <2>2. Extra' = Extra
    BY <1>1 DEF Extra, Base, ManagerTypes
  <2> QED BY <1>1, <2>1, <2>2 DEF CountInv, Count
<1> QED BY <1>6, <1>7 DEF CountInv

LEMMA TaskStepCount ==
  ASSUME CountInv, NEW t \in Clients \cup {Driver}, TaskStep(t), Base'
  PROVE  CountInv'
<1>1. /\ Base /\ t \in Tasks /\ t # Main /\ Driver \in Tasks /\ Driver \notin Clients
  BY DiskNames DEF CountInv
<1>2. ASSUME NEW from, At(t, from)
      PROVE  /\ current = t /\ place[t] = from /\ state[t] # "TERM" /\ t \notin In(AccessQ)
             /\ from # "yield" => t \in In(UserQ)
  BY <1>1, <1>2, Runner DEF At, Running
<1>3. ASSUME NEW p, place' = [place EXCEPT ![t] = p], current = t,
             p \in {"wake", "ready", "enqueue", "up", "mark", "remove"}
                \/ place[t] \in {"call", "append"}
                \/ (p \in {"yield", "return"} /\ t \notin In(UserQ)')
      PROVE  Waits(t) => Waits(t)'
  BY <1>1, <1>3 DEF Waits, Base, ManagerTypes
<1>4. CASE Ask(t)
  <2>1. /\ current = t /\ place[t] = "call" /\ state[t] # "TERM"
        /\ UNCHANGED << requests, first >>
      BY <1>2, <1>4 DEF Ask, manager
  <2>2. CASE SemDown(t, s_access) /\ Goto(t, "append")
    <3>1. /\ UNCHANGED << dpc, next_task, num_user_tasks >>
          /\ state' \in {state, [state EXCEPT ![t] = "SUSPENDED"]}
          /\ In(UserQ)' \subseteq In(UserQ) /\ place' = [place EXCEPT ![t] = "append"]
      BY <1>1, <2>1, <2>2, DownEffect DEF Goto, disp, In
    <3> QED BY <1>1, <1>3, <2>1, <3>1, RunCount
  <2>3. CASE NextCall(t) /\ UNCHANGED vars
    <3>1. /\ UNCHANGED << dpc, next_task, num_user_tasks, state >>
          /\ In(UserQ)' \subseteq In(UserQ) /\ place' = [place EXCEPT ![t] = "call"]
      BY <2>3 DEF NextCall, vars, disp, tcb, In
    <3> QED BY <1>1, <1>3, <2>1, <3>1, RunCount
  <2> QED BY <1>4, <2>2, <2>3 DEF Ask
<1>5. CASE EnterQueue(t)
  <2>1. t \in Clients
    BY <1>1, <1>2, <1>5, MyPlaces DEF EnterQueue, Base, Rest, Roles
  <2> QED BY <1>5, <2>1, EnterCount
<1>6. CASE WakeForRequest(t)
  <2>1. /\ current = t /\ place[t] = "wake" /\ UNCHANGED << requests, first, num_user_tasks >>
        /\ state[t] # "TERM" /\ In(UserQ)' \subseteq In(UserQ)
        /\ UNCHANGED << dpc, next_task, state >>
        /\ \E p \in {"ready", "up"} : place' = [place EXCEPT ![t] = p]
    BY <1>2, <1>6 DEF WakeForRequest, manager, vars, disp, tcb, Goto, In
  <2>2. t # Driver
    BY <2>1, <1>1, MyPlaces DEF Base, Rest, Roles
  <2> QED BY <1>1, <1>3, <2>1, <2>2, RunCount
<1>12. CASE Ready(t)
  <2>1. /\ current = t /\ place[t] = "ready" /\ UNCHANGED << requests, first, num_user_tasks >>
        /\ In(UserQ)' \subseteq In(UserQ)
        /\ UNCHANGED << dpc, next_task >> /\ place' = [place EXCEPT ![t] = "enqueue"]
        /\ state' = [state EXCEPT ![Woken(t)] = "READY"]
    BY <1>2, <1>12 DEF Ready, SetReady, KernelSame, manager, disp, Goto, In
  <2>2. Woken(t) \in Tasks /\ state[Woken(t)] # "TERM"
    BY <1>1, <2>1, WokenLives DEF CountInv
  <2> QED BY <1>1, <1>3, <2>1, <2>2, RunCount
<1>13. CASE Enqueue(t)
  <2> DEFINE p == IF t = Driver THEN "clear" ELSE "up"
  <2>1. /\ current = t /\ place[t] = "enqueue" /\ UNCHANGED << requests, first, num_user_tasks >>
        /\ UNCHANGED << dpc, next_task, state >> /\ place' = [place EXCEPT ![t] = p]
        /\ PutReady(Woken(t))
    BY <1>2, <1>13 DEF Enqueue, PutReady, KernelSame, manager, disp, Goto
  <2>2. Woken(t) \in Tasks /\ state[Woken(t)] # "TERM"
    BY <1>1, <2>1, WokenLives DEF CountInv
  <2>3. In(UserQ)' \subseteq In(UserQ) \cup {Woken(t)}
    BY <1>1, <2>1, <2>2, PutReadyEffect
  <2>4. \A e \in Clients : e = Woken(t) => Released(e)'
    <3> SUFFICES ASSUME Woken(t) \in Clients PROVE \A e : e = Woken(t) => Released(e)'
      OBVIOUS
    <3>1. t = Driver /\ Woken(t) = first /\ Waking
      BY <1>1, <2>1 DEF Woken, Waking
    <3>2. ~Waking'
      BY <1>1, <2>1, <3>1 DEF Waking, Base, ManagerTypes
    <3>3. \A i \in DOMAIN requests : Asker(i) # first
      BY <3>1 DEF CountInv, Requesters
    <3> QED BY <2>1, <3>1, <3>2, <3>3 DEF Released, Asker
  <2>5. t \in Clients /\ Waits(t) => Waits(t)'
    BY <1>1, <1>3, <2>1
  <2>6. p # "ready" /\ p # "enqueue" /\ p # "count"
    OBVIOUS
  <2>7. PICK e \in Tasks : e = Woken(t)
    BY <2>2
  <2>8. /\ state[e] # "TERM" /\ In(UserQ)' \subseteq In(UserQ) \cup {e}
        /\ e \in Clients => Released(e)'
    BY <2>2, <2>3, <2>4, <2>7
  <2> HIDE DEF p
  <2> QED BY <1>1, <2>1, <2>5, <2>6, <2>8, RunCount
<1>7. CASE Up(t)
  <2>1. /\ current = t /\ place[t] = "up" /\ UNCHANGED << requests, first >>
        /\ state[t] # "TERM"
    BY <1>2, <1>7 DEF Up, manager
  <2>2. ASSUME NEW p \in {"up", "mark"}, place' = [place EXCEPT ![t] = p],
               UNCHANGED << dpc, next_task, num_user_tasks, state, queue >>
        PROVE  CountInv'
    <3>1. In(UserQ)' \subseteq In(UserQ)
      BY <2>2 DEF In
    <3> QED BY <1>1, <1>3, <2>1, <2>2, <3>1, RunCount
  <2>3. ASSUME NEW e \in In(AccessQ), e \in Tasks, state' = [state EXCEPT ![e] = "READY"],
               In(UserQ)' = In(UserQ) \cup {e}, place' = [place EXCEPT ![t] = "mark"],
               UNCHANGED << dpc, next_task, num_user_tasks >>
        PROVE  CountInv'
    <3>1. place[e] \in {"append", "test"}
      BY <2>3, DiskNames DEF Base, CountInv, Rest, WhoWaits, AccessQ
    <3>2. state[e] # "TERM" /\ ~Waits(e)
      BY <1>1, <2>3, <3>1 DEF Waits, Base, Rest, Living
    <3>3. In(UserQ)' \subseteq In(UserQ) \cup {e}
      BY <2>3
    <3> QED BY <1>1, <1>3, <2>1, <2>3, <3>2, <3>3, RunCount
  <2>4. CASE NoWaiter
    <3>1. place' = [place EXCEPT ![t] = place[t]]
      BY <1>1, <1>7, <2>4 DEF Up, code, Base, ManagerTypes
    <3> QED BY <1>7, <2>1, <2>2, <2>4, <3>1 DEF Up, vars, cpu, disp, tcb
  <2>5. CASE ~NoWaiter
    <3>1. /\ SemUp(t, s_access) /\ place' = [place EXCEPT ![t] = "mark"]
      BY <1>7, <2>5 DEF Up, Goto
    <3>2. /\ UNCHANGED << num_user_tasks, dpc, next_task >>
          /\ \/ UNCHANGED << queue, state >>
             \/ \E e \in In(AccessQ) :
                    /\ e \in Tasks /\ state' = [state EXCEPT ![e] = "READY"]
                    /\ In(UserQ)' = In(UserQ) \cup {e}
      BY <1>1, <2>5, <3>1, UpEffect DEF disp
    <3> QED BY <2>2, <2>3, <3>1, <3>2
  <2> QED BY <2>4, <2>5
<1>8. CASE Mark(t)
  <2>1. /\ current = t /\ place[t] = "mark" /\ UNCHANGED << requests, first, num_user_tasks >>
        /\ UNCHANGED << dpc, next_task >> /\ place' = [place EXCEPT ![t] = "remove"]
        /\ state' = [state EXCEPT ![t] = "SUSPENDED"] /\ state[t] # "TERM"
        /\ In(UserQ)' \subseteq In(UserQ)
    BY <1>2, <1>8 DEF Mark, manager, KernelSame, disp, Goto, In
  <2> QED BY <1>1, <1>3, <2>1, RunCount
<1>9. CASE RemoveSelf(t)
  <2>1. TakenOut(Queues, Tasks, queue, UserQ, t, queue')
    BY <1>1, <1>9, QueueNames, RemoveAny DEF RemoveSelf, Base, TaskTypes
  <2>2. /\ current = t /\ place[t] = "remove" /\ UNCHANGED << requests, first, num_user_tasks >>
        /\ UNCHANGED << dpc, next_task, state >> /\ place' = [place EXCEPT ![t] = "yield"]
        /\ In(UserQ)' \subseteq In(UserQ) /\ t \notin In(UserQ)' /\ state[t] # "TERM"
    BY <1>2, <1>9, <2>1 DEF RemoveSelf, manager, KernelSame, disp, Goto, In, TakenOut
  <2> QED BY <1>1, <1>3, <2>2, RunCount
<1>10. CASE Yield(t)
  <2>1. PICK p \in {"down", "return"} :
          place' = [place EXCEPT ![t] = p] /\ (t \in Clients => p = "return")
    BY <1>1, <1>10 DEF Yield, Goto
  <2>2. /\ current = t /\ place[t] = "yield" /\ UNCHANGED << requests, first, num_user_tasks >>
        /\ UNCHANGED << dpc, next_task, state >>
        /\ In(UserQ)' = In(UserQ) /\ state[t] # "TERM"
    BY <1>2, <1>10 DEF Yield, TaskYield, manager, disp, tcb, In
  <2>3. t \in Clients /\ Waits(t) => Waits(t)'
    BY <1>1, <2>1, <2>2 DEF Waits, Base, ManagerTypes
  <2> QED BY <1>1, <2>1, <2>2, <2>3, RunCount
<1>11. CASE Return(t)
  <2>1. /\ current = t /\ place[t] = "return" /\ UNCHANGED << requests, first, num_user_tasks >>
        /\ UNCHANGED << dpc, next_task, state >> /\ place' = [place EXCEPT ![t] = "call"]
        /\ In(UserQ)' = In(UserQ) /\ state[t] # "TERM" /\ t \in In(UserQ)
    BY <1>2, <1>11 DEF Return, NextCall, manager, vars, disp, tcb, In
  <2>2. ~Waits(t)
    BY <2>1 DEF Waits
  <2> QED BY <1>1, <2>1, <2>2, RunCount
<1> QED BY <1>4, <1>5, <1>6, <1>12, <1>13, <1>7, <1>8, <1>9, <1>10, <1>11 DEF TaskStep

LEMMA DriverStepCount ==
  ASSUME CountInv, DriverStep, Base'
  PROVE  CountInv'
<1>1. /\ Base /\ Driver \in Tasks /\ Driver # Main /\ Driver \notin Clients
      /\ current = Driver /\ place[Driver] \in {"down", "test", "clear", "command"}
  BY DiskNames DEF CountInv, DriverStep, DriverDown, DownSignalled, DriverTest, ClearSignal,
                   DriverCommand, At, Running
<1>2. CASE DriverDown \/ DownSignalled
  <2>1. /\ UNCHANGED << dpc, next_task, num_user_tasks, requests, first >>
        /\ \E s \in {"READY", "SUSPENDED"} : state' \in {state, [state EXCEPT ![Driver] = s]}
        /\ In(UserQ)' \subseteq In(UserQ) /\ place' = [place EXCEPT ![Driver] = "test"]
    <3>1. CASE DriverDown
      BY <1>1, <3>1, DownEffect DEF DriverDown, Goto, disp, In, manager
    <3>2. CASE DownSignalled
      <4>1. Driver \in In(UserQ)
        BY <1>1, Runner
      <4> QED BY <1>1, <3>2, <4>1, RequeueEffect DEF DownSignalled, Goto, disp
    <3> QED BY <1>2, <3>1, <3>2
  <2> QED BY <1>1, <2>1, RunCount
<1>3. ASSUME NEW p \in {"test", "command", "up"}, place' = [place EXCEPT ![Driver] = p],
             UNCHANGED << requests, vars >>, first' = first \/ p = "command"
      PROVE  CountInv'
  <2>1. In(UserQ)' \subseteq In(UserQ) /\ UNCHANGED << dpc, next_task, num_user_tasks, state >>
    BY <1>3 DEF In, vars, disp, tcb
  <2> QED BY <1>1, <1>3, <2>1, RunCount
<1>4. CASE DriverTest
  <2>1. CASE sig_disk /\ requests # << >>
    BY <1>4, <2>1, FinishCount DEF DriverTest, Finish
  <2>2. CASE sig_disk /\ requests = << >>
    <3>1. place' = [place EXCEPT ![Driver] = "test"] /\ UNCHANGED << requests, first, vars >>
      BY <1>1, <1>4, <2>2 DEF DriverTest, Finish, code, At, Base, ManagerTypes
    <3> QED BY <1>3, <3>1
  <2>3. CASE ~sig_disk
    BY <1>3, <1>4, <2>3 DEF DriverTest, Goto
  <2> QED BY <2>1, <2>2, <2>3
<1>5. CASE ClearSignal \/ DriverCommand
  BY <1>3, <1>5 DEF ClearSignal, DriverCommand, Goto, manager
<1> QED BY <1>2, <1>4, <1>5 DEF DriverStep

LEMMA SignalCount ==
  ASSUME CountInv, DiskDone \/ wake_driver, Base'
  PROVE  CountInv'
<1>1. /\ Base /\ Driver \in Tasks /\ Driver \notin Clients
      /\ UNCHANGED << current, dpc, next_task, num_user_tasks, requests, first, place >>
  BY DiskNames DEF CountInv, DiskDone, wake_driver, SetSignal, ReadyDriver, AppendDriver,
                   KernelSame, vars, cpu, disp, manager, code
<1>2. /\ \A u \in Tasks \ {Driver} : state'[u] = state[u]
      /\ \A u \in Tasks \ {Driver} : u \in In(UserQ)' => u \in In(UserQ)
  <2>1. CASE DiskDone \/ SetSignal
    BY <2>1 DEF DiskDone, SetSignal, vars, tcb, In
  <2>2. CASE ReadyDriver
    BY <1>1, <2>2 DEF ReadyDriver, SetReady, In, Base, TaskTypes
  <2>3. CASE AppendDriver
    <3>1. state' = state /\ In(UserQ)' \subseteq In(UserQ) \cup {Driver}
      BY <1>1, <2>3, PutReadyEffect DEF AppendDriver
    <3> QED BY <3>1
  <2> QED BY <2>1, <2>2, <2>3 DEF wake_driver
<1>3. \A u \in Tasks \ {Driver} : Alive(u)' <=> Alive(u)
  BY <1>1, <1>2 DEF Alive, Ending
<1>4. \A u \in Clients : Waits(u) => Waits(u)'
  BY <1>1, <1>2, DiskNames DEF Waits
<1> QED BY <1>1, <1>3, <1>4, CountKeep DEF Extra, Waking

LEMMA KernelCount ==
  ASSUME CountInv, KernelStep, Base'
  PROVE  CountInv'
<1>1. Base /\ UNCHANGED << requests, first, place >> /\ Extra' = Extra
  BY KernelKeeps DEF CountInv, manager, Extra
<1>2. ASSUME UNCHANGED << num_user_tasks, queue, state >>,
             \A u \in Tasks : Ending(u)' <=> Ending(u),
             dpc' = "halted" => dpc = "halted" \/ num_user_tasks = 0
      PROVE  CountInv'
  <2>1. \A u \in Clients : Waits(u) => Waits(u)'
    BY <1>1, <1>2 DEF Waits, In
  <2> QED BY <1>1, <1>2, <2>1, CountKeep DEF Alive, Waking
<1>3. CASE TickUser
  <2>1. /\ current \in Tasks /\ current' \in {current, Dispatcher}
        /\ UNCHANGED << num_user_tasks, queue, state, dpc, next_task >>
    BY <1>3 DEF TickUser, tcb, disp
  <2>2. \A u \in Tasks : ~Ending(u) /\ ~Ending(u)'
    BY <1>1, <2>1, Runner DEF Ending
  <2> QED BY <1>2, <2>1, <2>2
<1>4. CASE Terminated
  BY <1>2, <1>4 DEF Terminated, vars, tcb, disp, cpu, Ending
<1>5. CASE DispatchTask
  <2>1. /\ dpc = "loop" /\ dpc' = "switched" /\ current' = next_task'
        /\ UNCHANGED << num_user_tasks, queue, state >>
        /\ \E i \in DOMAIN queue[UserQ] : next_task' = queue[UserQ][i]
    BY <1>5 DEF DispatchTask
  <2>2. next_task' \in Tasks
    <3>1. queue[UserQ] \in Seq(Tasks)
      BY <1>1, QueueNames DEF Base, TaskTypes
    <3> QED BY <2>1, <3>1, ElementOfSeq, LenProperties
  <2>3. \A u \in Tasks : ~Ending(u) /\ ~Ending(u)'
    BY <2>1, <2>2, DiskNames DEF Ending
  <2> QED BY <1>2, <2>1, <2>3
<1>6. CASE DispatchNone \/ WakeDone \/ DispatcherExit
  <2>1. /\ dpc # "switched" /\ dpc' # "switched"
        /\ UNCHANGED << num_user_tasks, queue, state >>
        /\ dpc' = "halted" => num_user_tasks = 0
    BY <1>6 DEF DispatchNone, WakeDone, DispatcherExit, StartWakeTasks, tcb
  <2> QED BY <1>2, <2>1 DEF Ending
<1>7. CASE AfterSwitch
  <2>1. /\ current = Dispatcher /\ dpc = "switched" /\ dpc' = "wake" /\ next_task \in Tasks
    BY <1>1, <1>7 DEF AfterSwitch, StartWakeTasks, Base, Rest, OnCpu
  <2>2. CASE ~Ended(next_task)
    BY <1>2, <1>7, <2>1, <2>2 DEF AfterSwitch, Ended, Ending
  <2>3. CASE Ended(next_task)
    <3> DEFINE t == next_task
    <3>1. /\ state' = AllReady(WaitQ(t)) /\ num_user_tasks' = num_user_tasks - 1
          /\ In(UserQ)' = (In(UserQ) \cup In(WaitQ(t))) \ {t}
      BY <1>1, <1>7, <2>1, <2>3, TerminateEffect DEF AfterSwitch
    <3>2. Ending(t) /\ t \in In(UserQ) /\ t # Driver /\ \A u \in Tasks : Ending(u) => u = t
      BY <1>1, <2>1, <2>3 DEF Ending, Ended, Base, Rest, Living
    <3>3. In(WaitQ(t)) \subseteq {Main} /\ t \notin In(WaitQ(t)) /\ WaitQ(t) \in Queues
      BY <1>1, <2>1, <3>2, QueueNames DEF Base, Rest, WhoWaits, TaskTypes, Exclusive, In
    <3> HIDE DEF t
    <3>4. t \in Tasks
      BY <2>1 DEF t
    <3>5. \A u \in Tasks : state'[u] = "TERM" <=> state[u] = "TERM"
      <4>1. \A u \in In(WaitQ(t)) : u \in Tasks => state[u] # "TERM"
        BY <1>1, <3>2, <3>3 DEF Base, Rest, Living
      <4> QED BY <3>1, <4>1 DEF AllReady, In
    <3>6. \A u \in Tasks : ~Ending(u)'
      BY <2>1 DEF Ending
    <3>7. UserTasks' = UserTasks \ {t} /\ t \in UserTasks
      BY <2>3, <3>2, <3>4, <3>5, <3>6 DEF UserTasks, Alive, Ended, Ending
    <3>8. Cardinality(UserTasks') = Cardinality(UserTasks) - 1
      BY <3>7, TasksFinite, FS_RemoveElement
    <3>9. Count'
      BY <1>1, <2>1, <3>1, <3>8, TasksFinite DEF CountInv, Count
    <3>10. \A u \in Clients : Waits(u) => Waits(u)'
      <4>1. \A u \in Clients : u \in In(UserQ)' => u \in In(UserQ)
        BY <3>1, <3>3, DiskNames
      <4> QED BY <1>1, <4>1 DEF Waits
    <3>11. Requesters'
      BY <1>1, <3>10, RequestersKeep DEF CountInv, Waking
    <3> QED BY <3>9, <3>11 DEF CountInv
  <2> QED BY <2>2, <2>3
<1>8. ~WakeStep
  BY <1>1 DEF WakeStep, Base, Rest, NoSleepers
<1> QED BY <1>3, <1>4, <1>5, <1>6, <1>7, <1>8 DEF KernelStep, Dispatch, DispatcherStep

LEMMA CountStep == CountInv /\ (DMStep \/ Still) => CountInv'
<1> SUFFICES ASSUME CountInv, DMStep \/ Still PROVE CountInv'
  OBVIOUS
<1>1. Base'
  BY BaseStep DEF CountInv
<1>2. CASE Still
  <2>1. UNCHANGED << requests, first, place, queue, state, num_user_tasks, dpc, next_task,
                     current >>
    BY <1>2, StillSame DEF manager
  <2>2. /\ \A u \in Clients : Waits(u) => Waits(u)'
        /\ \A u \in Tasks : Alive(u)' <=> Alive(u)
        /\ Extra' = Extra
    BY <2>1 DEF Waits, In, Alive, Ending, Extra
  <2> QED BY <1>1, <2>1, <2>2, CountKeep DEF Waking
<1>3. CASE DriverStep
  BY <1>1, <1>3, DriverStepCount
<1> QED BY <1>1, <1>2, <1>3, BootCount, ProgramsCount, TaskStepCount, SignalCount, KernelCount
    DEF DMStep

LEMMA InitCount == DMInit => CountInv
<1> SUFFICES ASSUME DMInit PROVE CountInv
  OBVIOUS
<1>1. Base /\ requests = << >> /\ num_user_tasks = 1 /\ dpc = "loop" /\ Extra = 0
  BY InitBase, DiskNames DEF DMInit, Init, Extra
<1>2. UserTasks = {} \cup {Main}
  BY DiskNames DEF DMInit, Init, UserTasks, Alive, Ending
<1>3. Cardinality({} \cup {Main}) = 1
  BY FS_EmptySet, FS_AddElement
<1>4. ~Waking
  BY DiskNames DEF DMInit, Waking
<1> QED BY <1>1, <1>2, <1>3, <1>4 DEF CountInv, Requesters, Count

LEMMA AlwaysCount == DMSpec => []CountInv
<1>1. CountInv /\ [DMNext]_dmVars => CountInv'
  BY CountStep, Split
<1> QED BY InitCount, <1>1, PTL DEF DMSpec
LEMMA AlwaysAcc == DMSpec => []AccInv
<1>1. DMInit => AccInv
  BY InitAcc DEF AccInv
<1>2. CountInv /\ AccInv /\ [DMNext]_dmVars => AccInv'
  <2> SUFFICES ASSUME CountInv, AccInv, [DMNext]_dmVars, "down" \notin races' PROVE Access'
    BY DEF AccInv
  <2>1. CASE DMStep /\ races' = races \cup Raced
    <3>1. Access /\ ~DownRace
      BY <2>1, RaceFree DEF AccInv
    <3> QED BY <2>1, <3>1, AccStep DEF CountInv
  <2>2. CASE Still /\ races' = races
    <3>1. Access /\ UNCHANGED << counter, queue, stray, place >>
      BY <2>2, StillSame DEF AccInv
    <3>2. (\A t \in Tasks : Holds(t)' <=> Holds(t)) /\ (Early' <=> Early)
      BY <3>1 DEF Holds, Early
    <3> QED BY <3>1, <3>2, AccKeep
  <2> QED BY <2>1, <2>2, Split
<1> QED BY <1>1, <1>2, AlwaysCount, PTL DEF DMSpec

(* The state has its type, the history included. *)
THEOREM DiskTypeCorrect == DMSpec => []DMTypeOK
<1> DEFINE History == torn \in BOOLEAN /\ races \subseteq AllRaces
<1>1. DMInit => History
  BY DEF DMInit
<1>2. History /\ [DMNext]_dmVars => History'
  <2>1. Raced \subseteq AllRaces
    BY DEF Raced
  <2> QED BY <2>1, Split
<1>3. CountInv /\ History => DMTypeOK
  BY DEF CountInv, Base, DMTypeOK
<1> HIDE DEF History
<1> QED BY <1>1, <1>2, <1>3, AlwaysCount, PTL DEF DMSpec

(* disk.queue is only ever touched by one task at a time, whatever the     *)
(* timer preempts and the disk interrupts, unless a signal has fallen into *)
(* a sem_down with which the driver blocks.                                *)
THEOREM DiskQueueExclusive == DMSpec => []AccessExclusive
<1>1. AccInv => AccessExclusive
  BY DEF AccInv, Access, Exclusively, AccessExclusive
<1> QED BY <1>1, AlwaysAcc, PTL

(* The driver is left out of num_user_tasks and nobody else is, from       *)
(* disk_mgr_init's own correction on and whatever has raced: the process   *)
(* ends when every user task has ended, and no request is cut off.         *)
THEOREM DriverNotCounted == DMSpec => []DriverUncounted
<1>1. CountInv => DriverUncounted
  <2> SUFFICES ASSUME CountInv PROVE DriverUncounted
    OBVIOUS
  <2>1. place[Main] \notin {"boot", "count"} => num_user_tasks = Cardinality(UserTasks)
    BY TasksFinite DEF CountInv, Count, Extra
  <2>2. ASSUME dpc = "halted" PROVE requests = << >>
    <3>1. UserTasks = {}
      BY <2>2, TasksFinite, FS_EmptySet DEF CountInv, Count, Extra
    <3>2. SUFFICES ASSUME requests # << >> PROVE FALSE
      OBVIOUS
    <3>3. 1 \in DOMAIN requests /\ Asker(1) \in Clients /\ Waits(Asker(1))
      BY <3>2, HeadRequest DEF CountInv, Base, Requesters, Asker
    <3>4. state[Asker(1)] # "TERM" /\ Asker(1) \in Tasks \ {Driver}
      BY <3>3, DiskNames DEF Waits, CountInv, Base, Rest, Living
    <3> QED BY <3>1, <3>4 DEF UserTasks, Alive
  <2> QED BY <2>1, <2>2 DEF DriverUncounted, UserTasks, Alive
<1> QED BY <1>1, AlwaysCount, PTL
-----------------------------------------------------------------------------
(* The driver and the device, when no signal falls into a sem_down of the  *)
(* driver or between its test and its command, and no task is preempted    *)
(* inside the handler.                                                     *)
KeepsHead == requests # << >> => requests' # << >> /\ Head(requests') = Head(requests)

LEMMA DevKeep ==
  ASSUME Device, UNCHANGED << device, sig_disk, crashed, handling, stage >>, KeepsHead,
         handling = {} \/ current' = current, Taken' <=> Taken,
         place'[Driver] = "command" => place[Driver] = "command",
         place[Main] = "boot" => place'[Main] = "boot"
  PROVE  Device'
<1>1. /\ UNCHANGED << status, next_block, buffer, armed >>
      /\ Busy' = Busy /\ (HeadDone' <=> HeadDone)
  BY DEF device, pending, Busy, HeadDone
<1>2. Serves'
  BY <1>1 DEF Device, Serves, KeepsHead
<1> QED BY <1>1, <1>2 DEF Device

LEMMA AtQuiet ==
  ASSUME Device, NEW t, NEW p, At(t, p)
  PROVE  current = t /\ place[t] = p /\ handling = {}
BY DEF Device, At, Running

LEMMA PlacesMove ==
  ASSUME Base, NEW t \in Tasks, NEW p, place' = [place EXCEPT ![t] = p]
  PROVE  /\ place'[t] = p /\ \A u \in Tasks \ {t} : place'[u] = place[u]
         /\ Main \in Tasks /\ Driver \in Tasks /\ Driver # Main
BY DiskNames DEF Base, ManagerTypes

LEMMA BootDev ==
  ASSUME Base, Device, ManagerInit
  PROVE  Device'
<1>1. /\ requests = << >> /\ ~sig_disk /\ handling = {} /\ ~armed /\ current = Main
  <2>1. Booting /\ current = Main
    BY DEF ManagerInit, InitDisk, UncountDriver, CreateAccess, InitFields, At, Running,
           Booting
  <2> QED BY <2>1, BootingRunner
<1>2. CASE InitDisk
  <2>1. /\ status' = "IDLE" /\ ~armed' /\ handling' = {} /\ requests' = << >>
        /\ ~sig_disk' /\ crashed' = crashed /\ place' = [place EXCEPT ![Main] = "count"]
        /\ stage' = stage
    BY <1>1, <1>2 DEF InitDisk, disk_init, Goto
  <2>2. Taken' <=> Taken
    BY <2>1, PlacesMove, DiskNames DEF Taken
  <2>3. ~HeadDone' /\ ~Busy' /\ place'[Main] # "boot"
    BY <2>1, PlacesMove, DiskNames DEF HeadDone, Busy
  <2> QED BY <1>1, <2>1, <2>2, <2>3 DEF Device, Serves
<1>3. CASE UncountDriver \/ CreateAccess \/ InitFields
  <2>1. /\ UNCHANGED << device, sig_disk, crashed, handling, stage >> /\ KeepsHead
        /\ place[Main] # "boot"
        /\ \E p \in {"access", "fields", "call"} : place' = [place EXCEPT ![Main] = p]
    BY <1>1, <1>3
    DEF UncountDriver, CreateAccess, InitFields, At, Goto, manager, KeepsHead
  <2>2. place'[Driver] = place[Driver]
    BY <2>1, PlacesMove, DiskNames
  <2> QED BY <1>1, <2>1, <2>2, DevKeep DEF Taken
<1> QED BY <1>2, <1>3 DEF ManagerInit

LEMMA ProgramsDev ==
  ASSUME Base, Device, Programs
  PROVE  Device'
<1>1. /\ UNCHANGED << device, sig_disk, crashed, handling, stage, place >> /\ KeepsHead
  BY ProgramsKeep DEF manager, KeepsHead
<1>2. handling = {}
  BY AtQuiet DEF Programs, MainProgram, ClientExit, TaskJoinReturn, Device, Running
<1> QED BY <1>1, <1>2, DevKeep DEF Taken

LEMMA TaskStepDev ==
  ASSUME Base, Base', Waiters, Device, NEW t \in Clients \cup {Driver}, TaskStep(t)
  PROVE  Device'
<1>1. t \in Tasks \ {Main} /\ Driver \notin Clients
  BY DiskNames
<1>2. /\ handling = {}
      /\ UNCHANGED << device, sig_disk, crashed, handling, stage >>
  <2>1. ~NoWaiter
    BY AWaiter
  <2> QED BY <2>1, AtQuiet
      DEF TaskStep, Ask, EnterQueue, WakeForRequest, Ready, Enqueue, Up, Mark, RemoveSelf,
          Yield, Return, manager
<1>4. KeepsHead
  <2>1. CASE UNCHANGED requests
    BY <2>1 DEF KeepsHead
  <2>2. CASE EnterQueue(t)
    <3> DEFINE r == [requester |-> t, op_type |-> Call(t).op_type,
                     block |-> Call(t).block, buffer |-> Call(t).buffer]
               R == [requester : Clients, op_type : {"READ", "WRITE"}, block : Blocks,
                     buffer : Buffers]
    <3>1. requests' = Append(requests, r) /\ requests \in Seq(R) /\ requests' \in Seq(R)
      BY <2>2 DEF EnterQueue, Base, ManagerTypes
    <3> HIDE DEF r, R
    <3>2. Len(requests') = Len(requests) + 1 /\ Len(requests) \in Nat
          /\ \A i \in 1..Len(requests) : requests'[i] = requests[i]
      BY <3>1
    <3> QED BY <3>1, <3>2 DEF KeepsHead
  <2> QED BY <2>1, <2>2
      DEF TaskStep, Ask, WakeForRequest, Ready, Enqueue, Up, Mark, RemoveSelf, Yield,
          Return, manager
<1> DEFINE Stays == /\ Taken' <=> Taken
                    /\ place'[Driver] = "command" => place[Driver] = "command"
                    /\ place'[Main] = place[Main]
           Taking == {"ready", "enqueue", "clear"}
<1>5. ASSUME NEW from, NEW p, At(t, from), place' = [place EXCEPT ![t] = p], p # "command",
             t = Driver => (from \in Taking <=> p \in Taking)
      PROVE  Stays
  BY <1>1, <1>5, PlacesMove DEF Taken, At
<1>6. Stays
  <2> HIDE DEF Stays
  <2>1. CASE Ask(t)
    BY <1>5, <2>1 DEF Ask, Goto, NextCall
  <2>2. CASE EnterQueue(t) \/ Return(t)
    BY <1>5, <2>2 DEF EnterQueue, Return, Goto, NextCall
  <2>3. CASE WakeForRequest(t)
    <3>1. t # Driver
      BY <1>1, <2>3, MyPlaces DEF WakeForRequest, At, Base, Rest, Roles
    <3>2. \/ place' = [place EXCEPT ![t] = "ready"]
          \/ place' = [place EXCEPT ![t] = "up"]
      BY <2>3 DEF WakeForRequest, Goto
    <3>3. At(t, "wake")
      BY <2>3 DEF WakeForRequest
    <3> QED BY <1>5, <3>1, <3>2, <3>3
  <2>4. CASE Ready(t) \/ Enqueue(t)
    BY <1>5, <2>4 DEF Ready, Enqueue, Goto
  <2>5. CASE Up(t)
    <3>1. ~NoWaiter
      BY AWaiter
    <3> QED BY <1>5, <2>5, <3>1 DEF Up, Goto
  <2>6. CASE Mark(t) \/ RemoveSelf(t) \/ Yield(t)
    BY <1>5, <2>6 DEF Mark, RemoveSelf, Yield, Goto
  <2> QED BY <2>1, <2>2, <2>3, <2>4, <2>5, <2>6 DEF TaskStep
<1> QED BY <1>2, <1>4, <1>6, DevKeep

LEMMA DriverStepDev ==
  ASSUME Base, Device, DriverStep, ~DownRace
  PROVE  Device'
<1>1. /\ ~DownSignalled /\ handling = {} /\ \A c \in Contexts : stage[c] = "raise"
      /\ Driver \in Tasks /\ ~crashed
  <2>1. ~DownSignalled
    BY NotSignalled DEF Base
  <2>2. handling = {}
    BY <2>1, AtQuiet DEF DriverStep, DriverDown, DriverTest, ClearSignal, DriverCommand
  <2> QED BY <2>1, <2>2, DiskNames DEF Device, Serves
<1>2. CASE DriverDown
  <2>1. UNCHANGED << device, sig_disk, crashed, handling, stage, requests >>
        /\ place' = [place EXCEPT ![Driver] = "test"] /\ place[Driver] = "down"
    BY <1>2 DEF DriverDown, manager, Goto, At
  <2>2. place'[Driver] = "test" /\ place'[Main] = place[Main] /\ KeepsHead
    BY <1>1, <2>1, PlacesMove DEF KeepsHead
  <2> QED BY <1>1, <2>1, <2>2, DevKeep DEF Taken
<1>3. CASE DriverTest
  <2>1. /\ UNCHANGED << device, status, next_block, buffer, armed, stage, sig_disk >>
        /\ handling' = {} /\ place[Driver] = "test" /\ ~Taken
    BY <1>1, <1>3 DEF DriverTest, At, device, pending, Taken
  <2>2. CASE sig_disk
    <3>1. requests # << >> /\ ~armed /\ ~crashed /\ ~Busy /\ ~Busy'
      BY <2>1, <2>2 DEF Device, Serves, HeadDone, Busy
    <3>2. crashed' = crashed /\ place' = [place EXCEPT ![Driver] = "ready"]
      BY <1>3, <2>2, <3>1 DEF DriverTest, Finish, Goto
    <3>3. place'[Driver] = "ready" /\ place'[Main] = place[Main]
      BY <1>1, <3>2, PlacesMove
    <3> QED BY <1>1, <2>1, <3>1, <3>2, <3>3 DEF Device, Serves, HeadDone, Busy, Taken
  <2>3. CASE ~sig_disk
    <3>1. UNCHANGED << requests, crashed >> /\ place' = [place EXCEPT ![Driver] = "command"]
      BY <1>3, <2>3 DEF DriverTest, Goto
    <3>2. place'[Driver] = "command" /\ place'[Main] = place[Main]
      BY <1>1, <3>1, PlacesMove
    <3> QED BY <1>1, <2>1, <2>3, <3>1, <3>2 DEF Device, Serves, HeadDone, Busy, Taken
  <2> QED BY <2>2, <2>3
<1>4. CASE ClearSignal
  <2>1. /\ UNCHANGED << device, status, next_block, buffer, armed, stage, requests, crashed >>
        /\ handling' = {} /\ ~sig_disk' /\ Taken /\ place' = [place EXCEPT ![Driver] = "command"]
    BY <1>1, <1>4 DEF ClearSignal, Goto, At, device, pending, Taken
  <2>2. place'[Driver] = "command" /\ place'[Main] = place[Main]
    BY <1>1, <2>1, PlacesMove
  <2> QED BY <1>1, <2>1, <2>2 DEF Device, Serves, HeadDone, Busy, Taken
<1>5. CASE DriverCommand
  <2>1. /\ place[Driver] = "command" /\ ~sig_disk
        /\ UNCHANGED << requests, sig_disk, crashed, stage, handling >> /\ handling' = {}
        /\ place' = [place EXCEPT ![Driver] = "up"]
    BY <1>1, <1>5 DEF DriverCommand, At, Goto, manager, Device, HeadDone, Taken
  <2>2. place'[Driver] = "up" /\ place'[Main] = place[Main] /\ ~Taken /\ ~Taken'
    BY <1>1, <2>1, PlacesMove DEF Taken
  <2>3. CASE status = "IDLE" /\ requests # << >>
    <3>1. /\ Head(requests).op_type \in {"READ", "WRITE"} /\ Head(requests).block \in Blocks
      BY <2>3, HeadRequest DEF Base
    <3>2. /\ status' = Head(requests).op_type /\ next_block' = Head(requests).block
          /\ buffer' = Head(requests).buffer /\ armed' = TRUE
      BY <1>5, <2>3, <3>1 DEF DriverCommand, disk_cmd, Accepts, disk_settimer
    <3> QED BY <1>1, <2>1, <2>2, <2>3, <3>1, <3>2 DEF Device, Serves, HeadDone, Busy
  <2>4. CASE ~(status = "IDLE" /\ requests # << >>)
    <3>1. UNCHANGED device /\ KeepsHead
      BY <1>5, <2>4 DEF DriverCommand, KeepsHead, manager
    <3> QED BY <1>1, <2>1, <2>2, <3>1, DevKeep
  <2> QED BY <2>3, <2>4
<1> QED BY <1>1, <1>2, <1>3, <1>4, <1>5 DEF DriverStep

LEMMA SignalDev ==
  ASSUME Base, Device, DiskDone \/ wake_driver, ~TestRace
  PROVE  Device'
<1>1. CASE DiskDone
  <2>1. /\ armed /\ ~armed' /\ status' = "IDLE" /\ handling' = handling \cup {current}
        /\ UNCHANGED << current, requests, sig_disk, crashed, place, stage >>
    BY <1>1 DEF DiskDone, disk_sighandle, vars, cpu, manager, code
  <2>2. Busy /\ requests # << >> /\ ~crashed /\ status # "UNKNOWN" /\ ~Busy' /\ handling = {}
    BY <2>1 DEF Device, Busy, Serves
  <2>3. place[Driver] # "command" /\ ~Taken
    BY <2>1 DEF TestRace, Completion, Taken
  <2> QED BY <2>1, <2>2, <2>3 DEF Device, Serves, HeadDone, Busy, Taken
<1>2. CASE wake_driver
  <2>1. /\ current \in handling /\ current' = current
        /\ UNCHANGED << device, status, next_block, buffer, armed, requests, place, crashed >>
        /\ \E s \in {"raise", "ready", "append"} :
             stage' = [stage EXCEPT ![current] = s]
             /\ \/ s # "raise" /\ handling' = handling
                \/ s = "raise" /\ handling' = handling \ {current}
        /\ sig_disk' = TRUE
    <3>1. UNCHANGED sig_disk => sig_disk \/ SetSignal
      BY <1>2, DiskNames DEF wake_driver, ReadyDriver, AppendDriver, InHandler, Device,
                             Base, TaskTypes, Contexts
    <3>2. CASE SetSignal
      BY <3>2 DEF SetSignal, InHandler, device, pending, code, vars, cpu
    <3>3. CASE ReadyDriver \/ AppendDriver
      <4>1. sig_disk
        BY <3>1, <3>3 DEF ReadyDriver, AppendDriver, InHandler, Device, Base, TaskTypes,
                          Contexts
      <4> QED BY <3>3, <4>1 DEF ReadyDriver, AppendDriver, InHandler, device, pending, code,
                          KernelSame, cpu, manager, Base, ManagerTypes
    <3> QED BY <1>2, <3>2, <3>3 DEF wake_driver
  <2>2. handling = {current} /\ requests # << >> /\ ~armed /\ ~Busy /\ ~Busy' /\ ~Taken
    BY <2>1 DEF Device, Serves, HeadDone, Busy
  <2>3. place[Driver] # "command"
    BY <2>2 DEF Device, HeadDone
  <2>4. \A c \in Contexts : stage'[c] # "raise" => c \in handling'
    BY <2>1, <2>2 DEF Device, Base, ManagerTypes
  <2> QED BY <2>1, <2>2, <2>3, <2>4 DEF Device, Serves, HeadDone, Busy, Taken
<1> QED BY <1>1, <1>2

LEMMA KernelDev ==
  ASSUME Base, Device, KernelStep, ~HandlerRace
  PROVE  Device'
<1>1. /\ UNCHANGED << device, sig_disk, crashed, handling, stage, place, requests >>
      /\ KeepsHead
  BY DEF KernelStep, manager, code, KeepsHead
<1>2. handling = {} \/ current' = current
  BY DEF HandlerRace, Device
<1> QED BY <1>1, <1>2, DevKeep DEF Taken

LEMMA DevStep ==
  ASSUME Base, Base', Waiters, Device, DMStep, ~DownRace, ~TestRace, ~HandlerRace
  PROVE  Device'
BY BootDev, ProgramsDev, DriverStepDev, TaskStepDev, SignalDev, KernelDev DEF DMStep

LEMMA InitDev == DMInit => Device
<1> SUFFICES ASSUME DMInit PROVE Device
  OBVIOUS
<1>1. ~crashed /\ ~sig_disk /\ handling = {} /\ ~armed /\ status = "UNKNOWN"
      /\ place[Main] = "boot" /\ place[Driver] = "down"
      /\ stage = [c \in Contexts |-> "raise"]
  BY DiskNames DEF DMInit, DiskInit
<1> QED BY <1>1 DEF Device, Serves, Busy, HeadDone, Taken

\* What a step leaves intact was intact before it.
LEMMA IntactBefore ==
  ASSUME [DMNext]_dmVars, Intact'
  PROVE  /\ Intact /\ "down" \notin races
         /\ \/ DMStep /\ ~DownRace /\ ~TestRace /\ ~HandlerRace
            \/ Still
BY Split, RaceFree DEF Intact

LEMMA AlwaysDev == DMSpec => []DevInv
<1>1. DMInit => DevInv
  BY InitDev DEF DevInv
<1>2. CountInv /\ CountInv' /\ AccInv /\ DevInv /\ [DMNext]_dmVars => DevInv'
  <2> SUFFICES ASSUME CountInv, CountInv', AccInv, DevInv, [DMNext]_dmVars, Intact'
               PROVE  Device'
    BY DEF DevInv
  <2>1. Base /\ Base' /\ Waiters /\ Device
    BY IntactBefore DEF CountInv, AccInv, Access, DevInv
  <2>2. CASE Still
    <3>1. UNCHANGED << device, sig_disk, crashed, handling, stage, place, requests, current >>
      BY <2>2, StillSame DEF manager
    <3> QED BY <2>1, <3>1, DevKeep DEF Taken, KeepsHead
  <2> QED BY <2>1, <2>2, IntactBefore, DevStep
<1> QED BY <1>1, <1>2, AlwaysCount, AlwaysAcc, PTL DEF DMSpec

(* The disk and the driver never disagree about the request in progress,   *)
(* wherever else the timer and the disk interrupt the tasks: disk_cmd      *)
(* never meets a disk that is busy with another request, and no signal     *)
(* finds the queue empty.                                                  *)
THEOREM DeviceAgrees == DMSpec => []DeviceServesHead
<1>1. DevInv => DeviceServesHead
  BY DEF DevInv, Device, Serves, Busy, DeviceServesHead
<1> QED BY <1>1, AlwaysDev, PTL
-----------------------------------------------------------------------------
(* The driver, the signals and the disk together implement BlockStore.     *)
ServicePlaces ==
  {"wake", "ready", "enqueue", "up", "mark", "remove", "yield", "return"}

InService(t) == place[t] \in ServicePlaces

InLine(s, t) == \E i \in DOMAIN s : s[i].requester = t

Served == {t \in Clients : InService(t) /\ ~InLine(Line, t)}

LEMMA StoreKeep ==
  ASSUME UNCHANGED << contents, memory >>, Line' = Line,
         \A t \in Clients : InService(t)' <=> InService(t)
  PROVE  UNCHANGED Store!vars
BY DEF Store!vars, InService, ServicePlaces

LEMMA LineKeep ==
  ASSUME UNCHANGED << requests, sig_disk, handling >>, Taken' <=> Taken
  PROVE  Line' = Line
BY DEF Line, HeadDone

(* Only a client in "append" enters the service, and only in "return" does *)
(* one leave it.                                                           *)
LEMMA ServiceKeep ==
  ASSUME Base, NEW t \in Tasks, NEW p, place' = [place EXCEPT ![t] = p],
         \/ t \notin Clients
         \/ place[t] \in {"call", "append"} /\ p \in {"call", "append"}
         \/ InService(t) /\ p \in ServicePlaces
  PROVE  \A u \in Clients : InService(u)' <=> InService(u)
<1>1. /\ place'[t] = p /\ \A u \in Tasks \ {t} : place'[u] = place[u]
      /\ Clients \subseteq Tasks
  BY DiskNames DEF Base, ManagerTypes
<1> QED BY <1>1 DEF InService, ServicePlaces

LEMMA TailAt ==
  ASSUME NEW S, NEW s \in Seq(S), s # << >>
  PROVE  /\ Len(s) \in Nat \ {0} /\ DOMAIN s = 1..Len(s) /\ Head(s) = s[1]
         /\ DOMAIN Tail(s) = 1..(Len(s) - 1) /\ Len(Tail(s)) = Len(s) - 1
         /\ Tail(s) \in Seq(S)
         /\ \A i \in 1..(Len(s) - 1) : Tail(s)[i] = s[i + 1]
<1>1. Len(s) \in Nat /\ Len(s) # 0 /\ DOMAIN s = 1..Len(s) /\ Head(s) = s[1]
  OBVIOUS
<1>2. Tail(s) \in Seq(S) /\ Len(Tail(s)) = Len(s) - 1
      /\ \A i \in 1..(Len(s) - 1) : Tail(s)[i] = s[i + 1]
  BY <1>1
<1>3. DOMAIN Tail(s) = 1..Len(Tail(s))
  BY <1>2
<1> QED BY <1>1, <1>2, <1>3

LEMMA TailAppend ==
  ASSUME NEW S, NEW s \in Seq(S), s # << >>, NEW e \in S
  PROVE  Tail(Append(s, e)) = Append(Tail(s), e)
<1>1. /\ Len(s) \in Nat \ {0} /\ Append(s, e) \in Seq(S) /\ Append(s, e) # << >>
      /\ Len(Append(s, e)) = Len(s) + 1
      /\ \A i \in 1..Len(s) : Append(s, e)[i] = s[i]
      /\ Append(s, e)[Len(s) + 1] = e
  OBVIOUS
<1>2. /\ Tail(s) \in Seq(S) /\ Len(Tail(s)) = Len(s) - 1
      /\ \A i \in 1..(Len(s) - 1) : Tail(s)[i] = s[i + 1]
  BY TailAt
<1>3. /\ Append(Tail(s), e) \in Seq(S) /\ Len(Append(Tail(s), e)) = Len(s)
      /\ \A i \in 1..(Len(s) - 1) : Append(Tail(s), e)[i] = s[i + 1]
      /\ Append(Tail(s), e)[Len(s)] = e
  BY <1>1, <1>2
<1>4. /\ Tail(Append(s, e)) \in Seq(S) /\ Len(Tail(Append(s, e))) = Len(s)
      /\ \A i \in 1..Len(s) : Tail(Append(s, e))[i] = Append(s, e)[i + 1]
  BY <1>1, TailAt
<1>5. \A i \in 1..Len(s) : Tail(Append(s, e))[i] = Append(Tail(s), e)[i]
  <2>1. ASSUME NEW i \in 1..Len(s) PROVE Tail(Append(s, e))[i] = Append(Tail(s), e)[i]
    <3>1. CASE i = Len(s)
      BY <1>1, <1>3, <1>4, <3>1
    <3>2. CASE i # Len(s)
      <4>1. i \in 1..(Len(s) - 1) /\ i + 1 \in 1..Len(s)
        BY <1>1, <2>1, <3>2
      <4> QED BY <1>1, <1>3, <1>4, <4>1
    <3> QED BY <3>1, <3>2
  <2> QED BY <2>1
<1> QED BY <1>3, <1>4, <1>5, SeqEqual

Requests == [requester : Clients, op_type : {"READ", "WRITE"}, block : Blocks,
             buffer : Buffers]

LEMMA LineFacts ==
  ASSUME CountInv, Device
  PROVE  /\ requests \in Seq(Requests) /\ Line \in Seq(Requests)
         /\ HeadDone => requests # << >> /\ Line = Tail(requests)
         /\ ~HeadDone => Line = requests
         /\ \A t : InLine(Line, t) => InLine(requests, t)
         /\ \A t : InLine(requests, t) => t \in Clients /\ Waits(t)
<1>1. /\ requests \in Seq(Requests) /\ (HeadDone => requests # << >>)
      /\ Line = IF HeadDone THEN Tail(requests) ELSE requests
  BY DEF CountInv, Base, ManagerTypes, Requests, Device, Serves, HeadDone, Line
<1>2. CASE ~HeadDone
  BY <1>1, <1>2, AskerClient DEF CountInv, Base, Requesters, Asker, InLine
<1>3. CASE HeadDone
  <2>1. /\ Line \in Seq(Requests)
        /\ \A i \in DOMAIN Line : i + 1 \in DOMAIN requests /\ Line[i] = requests[i + 1]
    BY <1>1, <1>3, TailAt
  <2> QED BY <1>1, <1>3, <2>1, AskerClient DEF CountInv, Base, Requesters, Asker, InLine
<1> QED BY <1>2, <1>3

(* EnterQueue is the step Ask of the store. *)
LEMMA EnterAsks ==
  ASSUME CountInv, Device, NEW t \in Clients, EnterQueue(t)
  PROVE  Store!Ask
<1> DEFINE r == [requester |-> t, op_type |-> Call(t).op_type,
                 block |-> Call(t).block, buffer |-> Call(t).buffer]
<1>1. /\ requests' = Append(requests, r) /\ place[t] = "append" /\ current = t
      /\ UNCHANGED << contents, memory, sig_disk, handling >>
      /\ place' = [place EXCEPT ![t] = "wake"]
  BY DEF EnterQueue, At, Running, Goto, device
<1>2. r \in Requests
  <2>1. Call(t).block \in Blocks /\ at[t] \in 1..Len(Program[t]) /\ t \in Tasks
    BY <1>1, DiskNames DEF CountInv, Base, Rest, Asked
  <2>2. Call(t) \in [op_type : {"READ", "WRITE"}, block : Int, buffer : Buffers]
    <3> DEFINE R == [op_type : {"READ", "WRITE"}, block : Int, buffer : Buffers]
    <3>1. Program[t] \in Seq(R)
      BY DiskManagerAssumption
    <3> HIDE DEF R
    <3>2. Program[t][at[t]] \in R
      BY <2>1, <3>1
    <3> QED BY <3>2 DEF Call, R
  <2> QED BY <2>1, <2>2 DEF Requests
<1>3. /\ ~InLine(requests, t) /\ ~InLine(Line, t) /\ t \notin Served
      /\ requests \in Seq(Requests) /\ Line \in Seq(Requests)
      /\ HeadDone => requests # << >>
  BY <1>1, LineFacts DEF Waits, Served, InService, ServicePlaces
<1> HIDE DEF r
<1>4. Line' = Append(Line, r)
  <2>1. HeadDone' <=> HeadDone
    BY <1>1, PlacesMove, DiskNames DEF HeadDone, Taken, CountInv
  <2> QED BY <1>1, <1>2, <1>3, <2>1, TailAppend DEF Line
<1>5. \A u : InLine(Line', u) <=> InLine(Line, u) \/ u = t
  <2>1. r.requester = t
    BY DEF r
  <2> QED BY <1>3, <1>4, <2>1, AppendAt DEF InLine
<1>6. Served' = Served
  <2>1. /\ place'[t] = "wake" /\ \A u \in Tasks \ {t} : place'[u] = place[u]
        /\ Clients \subseteq Tasks
    BY <1>1, DiskNames DEF CountInv, Base, ManagerTypes
  <2> QED BY <1>3, <1>5, <2>1 DEF Served, InService, ServicePlaces
<1>7. /\ {u \in Clients :
            /\ place[u] \in {"wake", "ready", "enqueue", "up", "mark", "remove",
                             "yield", "return"}
            /\ \A i \in DOMAIN Line : Line[i].requester # u} = Served
      /\ {u \in Clients :
            /\ place[u] \in {"wake", "ready", "enqueue", "up", "mark", "remove",
                             "yield", "return"}
            /\ \A i \in DOMAIN Line : Line[i].requester # u}' = Served'
  BY DEF Served, InService, ServicePlaces, InLine
<1>8. r \in Store!Operations /\ r.requester = t
  BY <1>2, DiskNames DEF r, Requests, Store!Operations
<1>9. Store!Idle(r.requester)
  BY <1>3, <1>8 DEF Store!Idle, Served, InService, ServicePlaces, InLine
<1> QED BY <1>1, <1>4, <1>6, <1>7, <1>8, <1>9 DEF Store!Ask

(* DiskDone is the step Serve: the disk carries out the head's operation. *)
LEMMA DoneServes ==
  ASSUME CountInv, Device, DiskDone
  PROVE  Store!Serve
<1>1. /\ armed /\ UNCHANGED << requests, sig_disk, place >>
      /\ handling' # {}
      /\ \/ /\ status = "READ" /\ UNCHANGED contents
            /\ memory' = [memory EXCEPT ![buffer] = contents[next_block]]
         \/ /\ status = "WRITE" /\ UNCHANGED memory
            /\ contents' = [contents EXCEPT ![next_block] = memory[buffer]]
  BY DEF DiskDone, disk_sighandle, manager, code
<1> DEFINE h == Head(requests)
<1>2. /\ requests # << >> /\ ~HeadDone /\ HeadDone'
      /\ h.op_type = status /\ h.block = next_block /\ h.buffer = buffer
  BY <1>1 DEF Device, Serves, Busy, HeadDone
<1>3. Line = requests /\ Line' = Tail(requests) /\ requests \in Seq(Requests)
  BY <1>1, <1>2, LineFacts DEF Line
<1>4. InService(h.requester) /\ h.requester \in Clients
  BY <1>2, HeadRequest, LineFacts DEF InLine, InService, ServicePlaces, Waits, CountInv, Base
<1>5. \A u : InLine(Line', u) <=> InLine(Line, u) /\ u # h.requester
  <2>1. /\ DOMAIN requests = 1..Len(requests) /\ h = requests[1]
        /\ DOMAIN Line' = 1..(Len(requests) - 1) /\ Len(requests) \in Nat \ {0}
        /\ \A i \in 1..(Len(requests) - 1) : Line'[i] = requests[i + 1]
    BY <1>2, <1>3, TailAt
  <2>2. \A i, j \in DOMAIN requests : requests[i].requester = requests[j].requester => i = j
    BY DEF CountInv, Requesters, Asker
  <2>3. ASSUME NEW i \in DOMAIN Line'
        PROVE  /\ i + 1 \in DOMAIN requests /\ Line'[i] = requests[i + 1]
               /\ Line'[i].requester # h.requester
    BY <2>1, <2>2, <2>3
  <2>4. ASSUME NEW u, InLine(Line, u), u # h.requester PROVE InLine(Line', u)
    <3>1. PICK i \in DOMAIN requests : requests[i].requester = u
      BY <1>3, <2>4 DEF InLine
    <3>2. i # 1 /\ i - 1 \in DOMAIN Line' /\ requests[i] = Line'[i - 1]
      BY <2>1, <2>4, <3>1
    <3> QED BY <3>1, <3>2 DEF InLine
  <2>5. ASSUME NEW u, InLine(Line', u) PROVE InLine(Line, u) /\ u # h.requester
    <3>1. PICK i \in DOMAIN Line' : Line'[i].requester = u
      BY <2>5 DEF InLine
    <3>2. Line[i + 1].requester = u /\ i + 1 \in DOMAIN Line /\ u # h.requester
      BY <1>3, <2>3, <3>1
    <3> QED BY <3>2 DEF InLine
  <2> QED BY <2>4, <2>5
<1>6. Served' = Served \cup {h.requester}
  BY <1>1, <1>4, <1>5 DEF Served, InService, ServicePlaces
<1>7. /\ {u \in Clients :
            /\ place[u] \in {"wake", "ready", "enqueue", "up", "mark", "remove",
                             "yield", "return"}
            /\ \A i \in DOMAIN Line : Line[i].requester # u} = Served
      /\ {u \in Clients :
            /\ place[u] \in {"wake", "ready", "enqueue", "up", "mark", "remove",
                             "yield", "return"}
            /\ \A i \in DOMAIN Line : Line[i].requester # u}' = Served'
  BY DEF Served, InService, ServicePlaces, InLine
<1> QED BY <1>1, <1>2, <1>3, <1>6, <1>7 DEF Store!Serve, Store!Read, Store!Write

(* Return is the step Return. *)
LEMMA ReturnReturns ==
  ASSUME CountInv, Device, NEW t \in Clients, Return(t)
  PROVE  Store!Return
<1>1. /\ UNCHANGED << contents, memory, requests, sig_disk, handling >>
      /\ place[t] = "return" /\ current = t /\ place' = [place EXCEPT ![t] = "call"]
      /\ t \in In(UserQ)
  BY DiskNames, Runner DEF Return, At, Running, NextCall, device, manager, CountInv
<1>2. Line' = Line /\ t \in Served
  BY <1>1, PlacesMove, DiskNames, LineKeep, LineFacts DEF CountInv, Taken, Served, InService, ServicePlaces, Waits
<1>3. Served' = Served \ {t}
  <2>1. /\ place'[t] = "call" /\ \A u \in Tasks \ {t} : place'[u] = place[u]
        /\ Clients \subseteq Tasks
    BY <1>1, DiskNames DEF CountInv, Base, ManagerTypes
  <2> QED BY <1>2, <2>1 DEF Served, InService, ServicePlaces
<1>4. /\ {u \in Clients :
            /\ place[u] \in {"wake", "ready", "enqueue", "up", "mark", "remove",
                             "yield", "return"}
            /\ \A i \in DOMAIN Line : Line[i].requester # u} = Served
      /\ {u \in Clients :
            /\ place[u] \in {"wake", "ready", "enqueue", "up", "mark", "remove",
                             "yield", "return"}
            /\ \A i \in DOMAIN Line : Line[i].requester # u}' = Served'
  BY DEF Served, InService, ServicePlaces, InLine
<1> QED BY <1>1, <1>2, <1>3, <1>4 DEF Store!Return

(* Every other step of a task, of the signals and of the kernel leaves the *)
(* store as it is.                                                         *)
LEMMA TaskStepQuiet ==
  ASSUME CountInv, Device, Waiters, NEW t \in Clients \cup {Driver}, TaskStep(t),
         ~EnterQueue(t), ~Return(t)
  PROVE  UNCHANGED Store!vars
<1>1. Base /\ t \in Tasks /\ Driver \notin Clients /\ t # Main /\ place[t] \in PlacesOf(t)
  BY DiskNames DEF CountInv, Base, Rest, Roles
<1>2. ASSUME UNCHANGED << contents, memory, requests, sig_disk, handling >>,
             NEW p, place' = [place EXCEPT ![t] = p],
             t = Driver => (place[t] \in {"ready", "enqueue", "clear"}
                            <=> p \in {"ready", "enqueue", "clear"}),
             t \in Clients => \/ place[t] \in {"call", "append"} /\ p \in {"call", "append"}
                              \/ InService(t) /\ p \in ServicePlaces
      PROVE  UNCHANGED Store!vars
  <2>1. \A u \in Clients : InService(u)' <=> InService(u)
    BY <1>1, <1>2, ServiceKeep
  <2>2. Taken' <=> Taken
    BY <1>1, <1>2, PlacesMove DEF Taken
  <2> QED BY <1>2, <2>1, <2>2, LineKeep, StoreKeep
<1>3. CASE Ask(t)
  <2>1. /\ UNCHANGED << contents, memory, requests, sig_disk, handling >>
        /\ place[t] = "call" /\ t \in Clients
        /\ place' = [place EXCEPT ![t] = "call"] \/ place' = [place EXCEPT ![t] = "append"]
    BY <1>3 DEF Ask, At, Goto, NextCall, device, manager
  <2>2. t # Driver
    BY <1>1, <2>1
  <2>3. \A u \in Clients : InService(u)' <=> InService(u)
    BY <1>1, <2>1, ServiceKeep
  <2>4. Taken' <=> Taken
    BY <1>1, <2>1, <2>2, PlacesMove DEF Taken
  <2> QED BY <2>1, <2>3, <2>4, LineKeep, StoreKeep
<1>4. CASE WakeForRequest(t) \/ Ready(t) \/ Enqueue(t)
  <2>1. UNCHANGED << contents, memory, requests, sig_disk, handling >>
    BY <1>4 DEF WakeForRequest, Ready, Enqueue, device, manager
  <2>2. CASE WakeForRequest(t)
    <3>1. /\ place[t] = "wake"
          /\ place' = [place EXCEPT ![t] = "ready"] \/ place' = [place EXCEPT ![t] = "up"]
      BY <2>2 DEF WakeForRequest, At, Goto
    <3>2. t # Driver
      BY <1>1, <3>1, MyPlaces
    <3> QED BY <1>2, <2>1, <3>1, <3>2 DEF InService, ServicePlaces
  <2>3. CASE Ready(t) \/ Enqueue(t)
    <3>1. /\ place[t] \in {"ready", "enqueue"}
          /\ \/ place' = [place EXCEPT ![t] = "enqueue"]
             \/ t = Driver /\ place' = [place EXCEPT ![t] = "clear"]
             \/ t # Driver /\ place' = [place EXCEPT ![t] = "up"]
      BY <2>3 DEF Ready, Enqueue, At, Goto
    <3> QED BY <1>1, <1>2, <2>1, <3>1 DEF InService, ServicePlaces
  <2> QED BY <1>4, <2>2, <2>3
<1>5. CASE Up(t) \/ Mark(t) \/ RemoveSelf(t) \/ Yield(t)
  <2>1. ~NoWaiter
    BY <1>1, AWaiter
  <2>2. UNCHANGED << contents, memory, requests, sig_disk, handling >>
    BY <1>5 DEF Up, Mark, RemoveSelf, Yield, device, manager
  <2>3. /\ place[t] \in {"up", "mark", "remove", "yield"}
        /\ \/ place' = [place EXCEPT ![t] = "mark"]
           \/ place' = [place EXCEPT ![t] = "remove"]
           \/ place' = [place EXCEPT ![t] = "yield"]
           \/ t = Driver /\ place' = [place EXCEPT ![t] = "down"]
           \/ t # Driver /\ place' = [place EXCEPT ![t] = "return"]
    BY <1>5, <2>1 DEF Up, Mark, RemoveSelf, Yield, At, Goto
  <2> QED BY <1>1, <1>2, <2>2, <2>3 DEF InService, ServicePlaces
<1> QED BY <1>3, <1>4, <1>5 DEF TaskStep

LEMMA TaskStepStore ==
  ASSUME CountInv, Device, Waiters, NEW t \in Clients \cup {Driver}, TaskStep(t)
  PROVE  [Store!Next]_(Store!vars)
<1>1. /\ t \in Tasks /\ place[t] \in PlacesOf(t)
      /\ t = Driver => place[t] \notin {"append", "return"}
  BY DiskNames, MyPlaces DEF CountInv, Base, Rest, Roles
<1>2. CASE EnterQueue(t)
  BY <1>1, <1>2, EnterAsks DEF EnterQueue, At, Store!Next
<1>3. CASE Return(t)
  BY <1>1, <1>3, ReturnReturns DEF Return, At, Store!Next
<1> QED BY <1>2, <1>3, TaskStepQuiet

LEMMA DriverStepStore ==
  ASSUME CountInv, Device, DriverStep, ~DownRace
  PROVE  UNCHANGED Store!vars
<1>1. /\ Base /\ Driver \in Tasks /\ Driver \notin Clients /\ ~DownSignalled
      /\ handling = {} /\ ~crashed
  <2>1. Base /\ ~DownSignalled
    BY NotSignalled DEF CountInv, Base
  <2> QED BY <2>1, DiskNames, AtQuiet
      DEF DriverStep, DriverDown, DriverTest, ClearSignal, DriverCommand, Device, Serves
<1>2. UNCHANGED << contents, memory, handling >>
  BY <1>1 DEF DriverStep, DriverDown, DriverTest, ClearSignal, DriverCommand, device, disk_cmd
<1>3. CASE DriverTest /\ sig_disk
  <2>1. HeadDone /\ requests # << >>
    BY <1>3 DEF HeadDone, Device, Serves, DriverTest, At, Taken
  <2>2. requests' = Tail(requests) /\ place' = [place EXCEPT ![Driver] = "ready"]
    BY <1>3, <2>1 DEF DriverTest, Finish, Goto
  <2>3. Taken' /\ ~HeadDone'
    BY <1>1, <1>2, <2>2, PlacesMove DEF Taken, HeadDone
  <2>4. Line' = Line
    BY <2>1, <2>2, <2>3 DEF Line
  <2> QED BY <1>1, <1>2, <2>2, <2>4, ServiceKeep, StoreKeep
<1>4. CASE ClearSignal
  <2>1. /\ Taken /\ ~sig_disk' /\ requests' = requests
        /\ place' = [place EXCEPT ![Driver] = "command"]
    BY <1>4 DEF ClearSignal, At, Goto, Taken
  <2>2. Line' = Line
    BY <1>1, <1>2, <2>1 DEF Line, HeadDone
  <2> QED BY <1>1, <1>2, <2>1, <2>2, ServiceKeep, StoreKeep
<1>5. ASSUME UNCHANGED << requests, sig_disk >>, NEW p \in {"test", "command", "up"},
             place' = [place EXCEPT ![Driver] = p], ~Taken
      PROVE  UNCHANGED Store!vars
  <2>1. ~Taken'
    BY <1>1, <1>5, PlacesMove DEF Taken
  <2> QED BY <1>1, <1>2, <1>5, <2>1, ServiceKeep, LineKeep, StoreKeep
<1>6. CASE DriverDown \/ (DriverTest /\ ~sig_disk) \/ DriverCommand
  <2>1. ~Taken /\ UNCHANGED << requests, sig_disk >>
    BY <1>6 DEF DriverDown, DriverTest, DriverCommand, At, Taken, manager
  <2>2. \/ place' = [place EXCEPT ![Driver] = "test"]
        \/ place' = [place EXCEPT ![Driver] = "command"]
        \/ place' = [place EXCEPT ![Driver] = "up"]
    BY <1>6 DEF DriverDown, DriverTest, DriverCommand, Goto
  <2> QED BY <1>5, <2>1, <2>2
<1> QED BY <1>1, <1>3, <1>4, <1>6 DEF DriverStep

LEMMA SignalStore ==
  ASSUME CountInv, Device, wake_driver
  PROVE  UNCHANGED Store!vars
<1>1. /\ UNCHANGED << contents, memory, requests, place >> /\ current \in handling
      /\ handling' = handling \/ sig_disk' = sig_disk
      /\ SetSignal => sig_disk'
  BY DEF wake_driver, SetSignal, ReadyDriver, AppendDriver, InHandler, device, manager, code
<1>2. HeadDone /\ ~Taken /\ ~Taken'
  BY <1>1 DEF HeadDone, Device, Taken
<1>3. HeadDone'
  <2>1. CASE SetSignal
    BY <1>1, <1>2, <2>1 DEF HeadDone
  <2>2. CASE ReadyDriver \/ AppendDriver
    <3>1. sig_disk /\ sig_disk' = sig_disk
      BY <2>2 DEF ReadyDriver, AppendDriver, InHandler, Device, CountInv, Base, TaskTypes,
                  Contexts, manager
    <3> QED BY <1>2, <3>1 DEF HeadDone
  <2> QED BY <2>1, <2>2 DEF wake_driver
<1> QED BY <1>1, <1>2, <1>3, StoreKeep DEF Line, InService

LEMMA BootStore ==
  ASSUME CountInv, ManagerInit
  PROVE  UNCHANGED Store!vars
<1>1. Base /\ Booting /\ requests = << >>
  <2>1. Booting
    BY DEF ManagerInit, InitDisk, UncountDriver, CreateAccess, InitFields, At, Booting
  <2> QED BY <2>1, BootingRunner DEF CountInv
<1>2. /\ UNCHANGED << contents, memory, requests, sig_disk, handling >>
      /\ \E p : place' = [place EXCEPT ![Main] = p]
  BY <1>1 DEF ManagerInit, InitDisk, UncountDriver, CreateAccess, InitFields, Goto,
         device, manager, disk_init
<1>3. (\A u \in Clients : InService(u)' <=> InService(u)) /\ (Taken' <=> Taken)
  BY <1>1, <1>2, DiskNames, ServiceKeep, PlacesMove DEF Taken
<1> QED BY <1>2, <1>3, LineKeep, StoreKeep

LEMMA ProgramsStore ==
  ASSUME CountInv, Programs
  PROVE  UNCHANGED Store!vars
BY ProgramsKeep, LineKeep, StoreKeep DEF CountInv, device, manager, InService, Taken

LEMMA StoreStep ==
  ASSUME CountInv, AccInv, DevInv, [DMNext]_dmVars, Intact'
  PROVE  [Store!Next]_(Store!vars)
<1>1. Waiters /\ Device
  BY IntactBefore DEF AccInv, Access, DevInv
<1>2. CASE KernelStep \/ Still
  <2>1. UNCHANGED << contents, memory, requests, sig_disk, handling, place >>
    BY <1>2 DEF KernelStep, Still, device, manager, code
  <2> QED BY <2>1, LineKeep, StoreKeep DEF InService, Taken
<1>3. CASE DiskDone
  BY <1>1, <1>3, DoneServes DEF Store!Next
<1> QED BY <1>1, <1>2, <1>3, IntactBefore, TaskStepStore, DriverStepStore, SignalStore,
           BootStore, ProgramsStore DEF DMStep

LEMMA StoreInit == DMInit => Store!Init
<1> SUFFICES ASSUME DMInit PROVE Store!Init
  OBVIOUS
<1>1. requests = << >> /\ sig_disk = FALSE /\ handling = {}
      /\ \A t \in Clients : place[t] = "call"
  BY DiskNames DEF DMInit
<1> QED BY <1>1 DEF Store!Init, Line, HeadDone

(* Whatever the interleaving of clients, driver, disk and signals, up to   *)
(* the first signal inside a sem_down of the driver or between its test    *)
(* and its command, and the first preemption inside the handler: the       *)
(* operations on the disk are those of a store of blocks, each carried     *)
(* out once, in the order of the queue, and before it returns.             *)
THEOREM DiskImplementsBlockStore == DMSpec => ImplementsBlockStore
<1>1. DMInit => Store!Init
  BY StoreInit
<1>2. CountInv /\ AccInv /\ DevInv /\ [DMNext]_dmVars => [Intact' => Store!Next]_(Store!vars)
  BY StoreStep
<1> QED BY <1>1, <1>2, AlwaysCount, AlwaysAcc, AlwaysDev, PTL
        DEF DMSpec, ImplementsBlockStore
-----------------------------------------------------------------------------
(* Nobody is left suspended for ever before the first race.  Calm is what  *)
(* holds then.                                                             *)
Calm == CountInv /\ Access /\ Device /\ Unpreempted /\ Woke

LEMMA CalmNames ==
  ASSUME Calm
  PROVE  /\ Base /\ Main \in Tasks /\ Driver \in Tasks /\ Driver # Main
         /\ Driver \notin Clients /\ Clients \subseteq Tasks \ {Main, Driver}
         /\ state \in [Tasks -> {"READY", "SUSPENDED", "TERM"}]
         /\ place \in [Tasks -> Places]
         /\ place[Driver] \in {"down", "test", "ready", "enqueue", "clear", "command",
                               "up", "mark", "remove", "yield"}
         /\ requests # << >> => ~Booting
BY DiskNames, MyPlaces
DEF Calm, CountInv, Base, TaskTypes, ManagerTypes, Rest, Roles, Starting

(* While disk_mgr_init runs without being preempted, the driver does not.  *)
LEMMA UnpreemptedKeep ==
  ASSUME Calm, DMStep \/ Still, ~InitRace
  PROVE  Unpreempted'
<1>1. /\ Base /\ Main \in Tasks /\ Driver \in Tasks /\ Driver # Main
      /\ state \in [Tasks -> {"READY", "SUSPENDED", "TERM"}] /\ place \in [Tasks -> Places]
  BY CalmNames
<1>2. CASE ManagerInit
  <2>1. /\ current = Main /\ current' = Main /\ place[Driver] = "down"
        /\ \E p \in {"count", "access", "fields", "call"} : place' = [place EXCEPT ![Main] = p]
    BY <1>2 DEF ManagerInit, InitDisk, TaskCreate, UncountDriver, CreateAccess, InitFields,
                At, Running, Goto, ReturnUnlocked, cpu, Calm, Unpreempted, Booting
  <2> QED BY <1>1, <2>1 DEF Unpreempted
<1>3. SUFFICES ASSUME ~ManagerInit, Booting' PROVE Unpreempted'
  BY <1>2 DEF Unpreempted
<1>4. place'[Main] = place[Main] => Booting
  BY <1>3 DEF Booting
<1>5. ASSUME NEW t \in Clients \cup {Driver}, current = t PROVE ~Booting
  <2>1. state[t] # "TERM" /\ t \in Tasks /\ t # Main
    BY <1>1, <1>5, Runner, DiskNames
  <2> QED BY <1>1, <1>5, <2>1, BootingRunner DEF Calm, Unpreempted
<1>6. ASSUME NEW t \in Clients \cup {Driver}, TaskStep(t) \/ (t = Driver /\ DriverStep)
      PROVE  FALSE
  <2>1. current = t
    BY <1>6 DEF TaskStep, Ask, EnterQueue, WakeForRequest, Ready, Enqueue, Up, Mark,
         RemoveSelf, Yield, Return, DriverStep, DriverDown, DownSignalled, DriverTest,
         ClearSignal, DriverCommand, At, Running
  <2>2. place'[Main] = place[Main]
    <3>1. t # Main /\ \E p : place' = [place EXCEPT ![t] = p]
      BY <1>1, <1>6, DiskNames, AWaiter
      DEF TaskStep, Ask, EnterQueue, WakeForRequest, Ready, Enqueue, Up, Mark,
          RemoveSelf, Yield, Return, DriverStep, DriverDown, DownSignalled, DriverTest,
          ClearSignal, DriverCommand, Finish, Goto, NextCall, Calm, Access, Device, Serves,
          At, Taken, HeadDone
    <3> QED BY <1>1, <3>1
  <2> QED BY <1>4, <1>5, <2>1, <2>2
<1>7. CASE Programs
  <2>1. UNCHANGED place /\ Booting
    BY <1>1, <1>4, <1>7, ProgramsKeep
  <2>2. TaskJoinReturn(Main)
    <3>1. ~MainProgram
      BY <2>1 DEF MainProgram, At, Booting
    <3>2. \A t \in Clients : ~ClientExit(t)
      BY <1>5, <2>1 DEF ClientExit, At, Running
    <3> QED BY <1>7, <3>1, <3>2 DEF Programs
  <2>3. UNCHANGED << current, state >>
    BY <2>2 DEF TaskJoinReturn, ReturnUnlocked, tcb
  <2> QED BY <2>1, <2>3 DEF Calm, Unpreempted
<1>8. CASE DiskDone \/ wake_driver
  <2>1. UNCHANGED place /\ Booting
    BY <1>4, <1>8 DEF DiskDone, wake_driver, SetSignal, ReadyDriver, AppendDriver, code
  <2>2. armed \/ handling # {}
    BY <1>8 DEF DiskDone, disk_sighandle, wake_driver, SetSignal, ReadyDriver, AppendDriver,
         InHandler
  <2> QED BY <1>1, <2>1, <2>2, BootingRunner
<1>9. CASE KernelStep
  <2>1. UNCHANGED place /\ Booting
    BY <1>1, <1>4, <1>9, KernelKeeps
  <2>2. CASE TickUser
    <3>1. state' = state /\ current' \in {current, Dispatcher}
      BY <2>2 DEF TickUser, tcb
    <3> QED BY <2>1, <3>1 DEF Calm, Unpreempted, InitRace, Preempted, Booting
  <2>3. CASE Dispatch
    <3>1. current = Dispatcher /\ Dispatcher # Main
      BY <1>1, <2>3, DiskNames DEF Dispatch, DispatcherStep, DispatchTask, DispatchNone,
         AfterSwitch, WakeStep, WakeDone, DispatcherExit, Base, TaskTypes, Rest, OnCpu,
         NoSleepers
    <3>2. place[Main] = "boot" /\ place[Driver] = "down" /\ state[Driver] = "TERM"
      BY <2>1, <3>1 DEF Calm, Unpreempted
    <3>3. state'[Driver] = "TERM"
      <4>1. CASE UNCHANGED state
        BY <3>2, <4>1
      <4>2. CASE AfterSwitch /\ terminate_task(next_task)
        <5>1. next_task \in Tasks
          BY <1>1, <4>2 DEF AfterSwitch, Base, Rest, OnCpu
        <5>2. state' = AllReady(WaitQ(next_task)) /\ In(WaitQ(next_task)) \subseteq {Main}
          BY <1>1, <4>2, <5>1, TerminateEffect DEF Base, Rest, WhoWaits
        <5> QED BY <1>1, <3>2, <5>2 DEF AllReady, In
      <4>3. ~WakeStep
        BY <1>1 DEF WakeStep, Base, Rest, NoSleepers
      <4> QED BY <2>3, <4>1, <4>2, <4>3
          DEF Dispatch, DispatcherStep, DispatchTask, DispatchNone, AfterSwitch, WakeDone,
              DispatcherExit, tcb
    <3> QED BY <2>1, <3>2, <3>3 DEF Unpreempted
  <2>4. CASE Terminated
    BY <2>1, <2>4 DEF Terminated, vars, cpu, tcb, Calm, Unpreempted
  <2> QED BY <1>9, <2>2, <2>3, <2>4 DEF KernelStep
<1>10. CASE Still
  <2>1. UNCHANGED << place, state, current >>
    BY <1>10, StillSame
  <2> QED BY <1>4, <2>1 DEF Calm, Unpreempted, Booting
<1> QED BY <1>3, <1>6, <1>7, <1>8, <1>9, <1>10 DEF DMStep

(* The steps that neither touch the queue of requests nor move the driver. *)
Same == UNCHANGED << requests, sig_disk, handling, armed, stray, stage, first >>

LEMMA WakeKeep ==
  ASSUME Woke, Same, place'[Driver] = place[Driver],
         place[Driver] \in {"yield", "down"} =>
           state'[Driver] = state[Driver] /\ (Driver \in In(UserQ)' <=> Driver \in In(UserQ)),
         place[Driver] \in {"mark", "remove"} =>
           current' = current /\ state'[Driver] = state[Driver],
         \A u \in Clients :
           /\ Waits(u)' => Waits(u)
           /\ place[u] \in {"wake", "ready", "enqueue"} => place'[u] = place[u]
  PROVE  Woke'
<1> USE DEF Same
<1>1. /\ DriverComes' <=> DriverComes
      /\ HeadDone' <=> HeadDone
      /\ Taken' <=> Taken
      /\ WakingDriver => WakingDriver'
  BY DEF DriverComes, In, HeadDone, Taken, WakingDriver
<1>2. Remembered'
  BY DEF Woke, Remembered, Asker, Waking
<1>3. Expected'
  BY <1>1 DEF Woke, Expected
<1>4. Signalled'
  BY <1>1 DEF Woke, Signalled
<1>5. Parking' /\ DriverReady'
  BY DEF Woke, Parking, DriverReady
<1> QED BY <1>2, <1>3, <1>4, <1>5 DEF Woke

(* Such a step of a task in its code. *)
LEMMA RunWake ==
  ASSUME Calm, Same, NEW t \in Tasks \ {Driver}, current = t,
         place[t] \notin {"wake", "ready", "enqueue"},
         NEW p, place' = [place EXCEPT ![t] = p],
         place[Driver] \in {"yield", "down"} =>
           state'[Driver] = state[Driver] /\ (Driver \in In(UserQ)' <=> Driver \in In(UserQ)),
         \A u \in Clients \ {t} : u \in In(UserQ) => u \in In(UserQ)',
         t \in Clients => (Waits(t)' => Waits(t))
  PROVE  Woke'
<1>1. /\ place'[t] = p /\ \A u \in Tasks \ {t} : place'[u] = place[u]
      /\ Clients \subseteq Tasks /\ Driver \in Tasks
  BY CalmNames
<1>2. place[Driver] \notin {"mark", "remove"} /\ place'[Driver] = place[Driver]
  BY <1>1 DEF Calm, Woke, Parking
<1>3. \A u \in Clients \ {t} : Waits(u)' => Waits(u)
  BY <1>1 DEF Waits
<1>4. \A u \in Clients :
        /\ Waits(u)' => Waits(u)
        /\ place[u] \in {"wake", "ready", "enqueue"} => place'[u] = place[u]
  BY <1>1, <1>3
<1> QED BY <1>2, <1>4, WakeKeep DEF Calm

(* Putting a suspended task into user_tasks_queue brings it back. *)
LEMMA PutBack ==
  ASSUME Calm, NEW t \in Tasks \ {Main}, PutReady(t), place[t] \in {"yield", "down", "return"}
  PROVE  t \in In(UserQ)' /\ In(UserQ)' = In(UserQ) \cup {t}
<1>1. Base /\ stray = {}
  BY DEF Calm, CountInv, Woke
<1>2. \A q \in Queues \ {UserQ} : t \notin In(q)
  <2>1. queue[SleepQ] = << >> /\ ToSet(<< >>) = {}
    BY <1>1 DEF Base, Rest, NoSleepers, ToSet
  <2>2. /\ \A u \in Tasks : t \notin In(WaitQ(u))
        /\ \A s \in Sems : t \notin In(SemQ(s))
    BY <1>1 DEF Base, Rest, WhoWaits
  <2> QED BY <2>1, <2>2 DEF In, Queues
<1>3. In(UserQ)' = IF t \notin stray /\ \A p \in Queues : t \notin In(p)
                   THEN In(UserQ) \cup {t} ELSE In(UserQ)
  BY <1>1, PutReadyEffect
<1> QED BY <1>1, <1>2, <1>3

LEMMA PutKeeps ==
  ASSUME Base, NEW t \in Tasks, PutReady(t)
  PROVE  In(UserQ) \subseteq In(UserQ)' /\ In(UserQ)' \subseteq In(UserQ) \cup {t}
BY PutReadyEffect

(* A driver that is marked ready comes. *)
LEMMA ReadyComes ==
  ASSUME Calm, requests # << >>, place[Driver] \in {"yield", "down"}, state[Driver] # "SUSPENDED"
  PROVE  \/ DriverComes \/ handling # {}
         \/ \E t \in Clients : place[t] = "enqueue"
<1>1. state[Driver] = "READY"
  <2>1. ~Booting /\ state[Driver] \in {"READY", "SUSPENDED", "TERM"}
    BY CalmNames
  <2> QED BY <2>1, CalmNames DEF Booting, Base, Rest, Starting
<1> QED BY <1>1 DEF Calm, Woke, DriverReady, DriverComes, In

LEMMA BootWake ==
  ASSUME Calm, ManagerInit
  PROVE  Woke'
<1>1. /\ Base /\ Booting /\ current = Main /\ place[Driver] = "down"
      /\ requests = << >> /\ ~sig_disk /\ handling = {} /\ ~armed
      /\ \A c \in Clients : place[c] = "call"
      /\ stray = {}
  <2>1. Booting /\ Base /\ current = Main
    BY CalmNames DEF ManagerInit, InitDisk, UncountDriver, CreateAccess, InitFields, At, Booting, Running
  <2> QED BY <2>1, BootingRunner DEF Base, Rest, Starting, Calm, Unpreempted, Woke
<1>2. /\ requests' = << >> /\ ~sig_disk' /\ handling' = {} /\ ~armed'
      /\ \E p : place' = [place EXCEPT ![Main] = p]
  BY <1>1 DEF ManagerInit, InitDisk, disk_init, UncountDriver, CreateAccess, InitFields, Goto,
         manager, device, pending
<1>3. place'[Driver] = "down" /\ \A c \in Clients : place'[c] = "call"
  BY <1>1, <1>2, CalmNames
<1>4. stray' = {}
  <2>1. \A t \in Tasks : t \notin In(AccessQ)
    <3>1. \A t \in Tasks : place[t] \notin {"append", "test"}
      BY <1>1, CalmNames DEF Base, Rest, Roles, PlacesOf, Booting
    <3> QED BY <1>1, <3>1, DiskNames DEF Base, Rest, WhoWaits, AccessQ
  <2>2. In(AccessQ) \subseteq Tasks
    BY <1>1, DiskNames, ElementOfSeq DEF Base, TaskTypes, In, ToSet
  <2>3. ToSet(queue[SemQ(s_access)]) = {}
    BY <2>1, <2>2 DEF In, AccessQ
  <2> QED BY <1>1, <2>3 DEF ManagerInit, InitDisk, UncountDriver, CreateAccess, InitFields
<1>5. DriverReady'
  <2>1. CASE InitDisk
    BY <1>1, <2>1, CalmNames, CreateEffect DEF InitDisk, DriverReady
  <2>2. CASE UncountDriver \/ CreateAccess \/ InitFields
    <3>1. state' = state /\ In(UserQ)' = In(UserQ)
      BY <1>1, <2>2, QueueNames, DiskNames
      DEF UncountDriver, CreateAccess, InitFields, tcb, In, AccessQ, Base, TaskTypes
    <3>2. Driver \in In(UserQ) \/ state[Driver] # "READY"
      BY <1>1 DEF Calm, Woke, DriverReady
    <3> QED BY <1>1, <1>3, <3>1, <3>2 DEF DriverReady
  <2> QED BY <2>1, <2>2 DEF ManagerInit
<1>6. Remembered' /\ Expected' /\ Signalled' /\ Parking'
  BY <1>2, <1>3 DEF Remembered, Waits, Expected, Signalled, HeadDone, Parking
<1> QED BY <1>4, <1>5, <1>6 DEF Woke

(* The steps of a client. *)
LEMMA EnterWake ==
  ASSUME Calm, NEW t \in Clients, EnterQueue(t)
  PROVE  Woke'
<1> DEFINE r == [requester |-> t, op_type |-> Call(t).op_type,
                 block |-> Call(t).block, buffer |-> Call(t).buffer]
           R == [requester : Clients, op_type : {"READ", "WRITE"}, block : Blocks,
                 buffer : Buffers]
<1>1. /\ Base /\ t \in Tasks \ {Driver} /\ current = t
      /\ place[t] = "append" /\ requests' = Append(requests, r)
      /\ place' = [place EXCEPT ![t] = "wake"]
      /\ UNCHANGED << current, state, queue, armed, sig_disk, handling, stray, stage, first >>
  BY CalmNames DEF EnterQueue, At, Running, Goto, vars, cpu, tcb, device, pending
<1>2. /\ place'[t] = "wake" /\ \A u \in Tasks \ {t} : place'[u] = place[u]
      /\ Clients \subseteq Tasks /\ Driver \in Tasks /\ t # Driver
  BY <1>1, CalmNames
<1>3. requests \in Seq(R)
  BY <1>1 DEF Base, ManagerTypes
<1>4. r.requester = t
  OBVIOUS
<1> HIDE DEF r, R
<1>5. /\ DOMAIN requests = 1..Len(requests) /\ Len(requests) \in Nat
      /\ DOMAIN requests' = 1..(Len(requests) + 1)
      /\ requests'[Len(requests) + 1] = r
      /\ \A i \in DOMAIN requests : requests'[i] = requests[i]
  BY <1>1, <1>3, AppendAt
<1>6. Remembered'
  <2>1. ASSUME NEW u \in Clients, Waits(u)'
        PROVE  (\E i \in DOMAIN requests' : Asker(i)' = u) \/ (Waking /\ first = u)'
    <3>1. CASE u = t
      BY <1>4, <1>5, <3>1 DEF Asker
    <3>2. CASE u # t
      <4>1. Waits(u)
        BY <1>1, <1>2, <2>1, <3>2 DEF Waits, In
      <4>2. CASE Waking /\ first = u
        BY <1>1, <1>2, <4>2 DEF Waking
      <4>3. CASE \E i \in DOMAIN requests : Asker(i) = u
        BY <1>5, <4>3 DEF Asker
      <4> QED BY <4>1, <4>2, <4>3 DEF Calm, Woke, Remembered
    <3> QED BY <3>1, <3>2
  <2> QED BY <2>1 DEF Remembered
<1>7. Expected'
  BY <1>2 DEF Expected, WakingDriver
<1>8. Signalled'
  <2>1. /\ (HeadDone' <=> HeadDone) /\ (DriverComes => DriverComes') /\ (Taken' <=> Taken)
        /\ place'[Driver] = place[Driver]
    BY <1>1, <1>2 DEF HeadDone, DriverComes, Taken
  <2> QED BY <1>1, <2>1 DEF Calm, Woke, Signalled
<1>9. Parking'
  <2>1. place[Driver] \notin {"mark", "remove"}
    BY <1>1, <1>2 DEF Calm, Woke, Parking
  <2>2. place[Driver] # "up"
    <3>1. t \notin In(AccessQ) /\ Holds(t)
      BY <1>1, Runner DEF Holds, In, AccessQ, Calm, Woke
    <3>2. ~Holds(Driver)
      BY <1>1, <1>2, <3>1 DEF Calm, Access, Exclusively
    <3>3. Driver \in In(AccessQ) => place[Driver] \in {"append", "test"}
      BY <1>1, DiskNames DEF Base, Rest, WhoWaits, AccessQ
    <3> QED BY <3>2, <3>3 DEF Holds, In, AccessQ, Calm, Woke
  <2> QED BY <1>1, <1>2, <2>1, <2>2 DEF Parking
<1>10. DriverReady'
  BY <1>1, <1>2 DEF Calm, Woke, DriverReady, In
<1> QED BY <1>1, <1>6, <1>7, <1>8, <1>9, <1>10 DEF Woke, Calm

LEMMA RequestWake ==
  ASSUME Calm, NEW t \in Clients, WakeForRequest(t)
  PROVE  Woke'
<1>1. /\ Base /\ t \in Tasks \ {Driver} /\ current = t /\ place[t] = "wake"
      /\ UNCHANGED << current, state, queue, requests, armed, sig_disk, handling, stray, stage,
                      first >>
      /\ \/ state[Driver] = "SUSPENDED" /\ place' = [place EXCEPT ![t] = "ready"]
         \/ state[Driver] # "SUSPENDED" /\ place' = [place EXCEPT ![t] = "up"]
  BY CalmNames
  DEF WakeForRequest, At, Running, Goto, vars, cpu, tcb, device, pending, manager
<1>2. /\ place'[t] \in {"ready", "up"} /\ \A u \in Tasks \ {t} : place'[u] = place[u]
      /\ place'[t] = "up" => state[Driver] # "SUSPENDED"
      /\ Clients \subseteq Tasks /\ Driver \in Tasks /\ t # Driver
  BY <1>1, CalmNames
<1>3. /\ (DriverComes' <=> DriverComes) /\ (HeadDone' <=> HeadDone) /\ (Taken' <=> Taken)
      /\ place'[Driver] = place[Driver]
  BY <1>1, <1>2 DEF DriverComes, HeadDone, Taken
<1>4. Remembered'
  <2>1. \A u \in Clients : Waits(u)' => Waits(u)
    BY <1>1, <1>2 DEF Waits, In
  <2> QED BY <1>1, <1>3, <2>1 DEF Calm, Woke, Remembered, Asker, Waking
<1>5. Expected'
  <2>1. CASE place'[t] = "ready"
    BY <2>1 DEF Expected, WakingDriver
  <2>2. CASE place'[t] = "up"
    <3>1. SUFFICES ASSUME requests # << >>
                   PROVE  \/ armed \/ handling # {} \/ DriverComes \/ WakingDriver'
                          \/ Taken \/ place[Driver] = "command"
      BY <1>1, <1>3 DEF Expected
    <3>2. CASE place[Driver] \in {"yield", "down"}
      <4>1. \A u \in Clients : place[u] = "enqueue" => place'[u] = "enqueue"
        BY <1>1, <1>2
      <4> QED BY <1>2, <2>2, <3>1, <3>2, <4>1, ReadyComes DEF WakingDriver
    <3>3. CASE place[Driver] \in {"up", "mark", "remove"}
      BY <3>1, <3>3 DEF Calm, Woke, Parking
    <3>4. CASE place[Driver] \in {"test", "ready", "enqueue", "clear", "command"}
      BY <3>4 DEF DriverComes, Taken
    <3> QED BY <3>2, <3>3, <3>4, CalmNames
  <2> QED BY <1>2, <2>1, <2>2
<1>6. Signalled' /\ Parking'
  BY <1>1, <1>3 DEF Calm, Woke, Signalled, Parking
<1>7. DriverReady'
  <2>1. \A u \in Clients : place[u] = "enqueue" => place'[u] = "enqueue"
    BY <1>1, <1>2
  <2> QED BY <1>1, <1>3, <2>1 DEF Calm, Woke, DriverReady, In
<1> QED BY <1>1, <1>4, <1>5, <1>6, <1>7 DEF Calm, Woke

(* A client marks the driver ready, then puts it into user_tasks_queue. *)
LEMMA ClientReadyWake ==
  ASSUME Calm, NEW t \in Clients, Ready(t)
  PROVE  Woke'
<1>1. /\ Base /\ t \in Tasks \ {Driver} /\ current = t /\ place[t] = "ready"
      /\ UNCHANGED << current, queue, requests, armed, sig_disk, handling, stray, stage, first >>
      /\ place' = [place EXCEPT ![t] = "enqueue"]
  BY CalmNames
  DEF Ready, SetReady, KernelSame, At, Running, Goto, cpu, device, pending, manager
<1>2. /\ place'[t] = "enqueue" /\ \A u \in Tasks \ {t} : place'[u] = place[u]
      /\ Clients \subseteq Tasks /\ Driver \in Tasks /\ t # Driver
  BY <1>1, CalmNames
<1>3. /\ (DriverComes' <=> DriverComes) /\ (HeadDone' <=> HeadDone) /\ (Taken' <=> Taken)
      /\ place'[Driver] = place[Driver]
  BY <1>1, <1>2 DEF DriverComes, HeadDone, Taken
<1>4. Remembered'
  <2>1. \A u \in Clients : Waits(u)' => Waits(u)
    BY <1>1, <1>2 DEF Waits, In
  <2> QED BY <1>1, <1>3, <2>1 DEF Calm, Woke, Remembered, Asker, Waking
<1>5. Expected' /\ DriverReady'
  BY <1>2 DEF Expected, WakingDriver, DriverReady
<1>6. Signalled' /\ Parking'
  BY <1>1, <1>3 DEF Calm, Woke, Signalled, Parking
<1> QED BY <1>1, <1>4, <1>5, <1>6 DEF Calm, Woke

LEMMA ClientEnqueueWake ==
  ASSUME Calm, NEW t \in Clients, Enqueue(t)
  PROVE  Woke'
<1>1. /\ Base /\ t \in Tasks \ {Driver} /\ t # Driver /\ Driver \in Tasks /\ Driver # Main
      /\ current = t /\ place[t] = "enqueue" /\ PutReady(Driver)
      /\ UNCHANGED << current, state, requests, armed, sig_disk, handling, stray, stage, first >>
      /\ place' = [place EXCEPT ![t] = "up"]
  BY CalmNames
  DEF Enqueue, PutReady, Woken, KernelSame, At, Running, Goto, cpu, device, pending, manager
<1>2. /\ place'[t] = "up" /\ \A u \in Tasks \ {t} : place'[u] = place[u]
      /\ Clients \subseteq Tasks /\ place'[Driver] = place[Driver]
  BY <1>1, CalmNames
<1>3. In(UserQ) \subseteq In(UserQ)'
      /\ (place[Driver] \in {"yield", "down"} => Driver \in In(UserQ)')
  BY <1>1, PutBack, PutKeeps
<1>4. /\ DriverComes => DriverComes'
      /\ place[Driver] \in {"yield", "down", "test"} => DriverComes'
      /\ (HeadDone' <=> HeadDone) /\ (Taken' <=> Taken)
  BY <1>1, <1>2, <1>3 DEF DriverComes, HeadDone, Taken, In
<1>5. Remembered'
  <2>1. \A u \in Clients : Waits(u)' => Waits(u)
    BY <1>1, <1>2, <1>3 DEF Waits
  <2> QED BY <1>1, <1>2, <2>1 DEF Calm, Woke, Remembered, Asker, Waking
<1>6. Expected'
  <2>1. CASE place[Driver] \in {"yield", "down", "test"}
    BY <1>4, <2>1 DEF Expected
  <2>2. CASE place[Driver] \in {"up", "mark", "remove"}
    BY <1>1, <2>2 DEF Calm, Woke, Parking, Expected
  <2>3. CASE place[Driver] \in {"ready", "enqueue", "clear", "command"}
    BY <1>2, <2>3 DEF Expected, Taken
  <2> QED BY <2>1, <2>2, <2>3, CalmNames
<1>7. Signalled' /\ Parking' /\ DriverReady'
  BY <1>1, <1>2, <1>3, <1>4 DEF Calm, Woke, Signalled, Parking, DriverReady
<1> QED BY <1>1, <1>5, <1>6, <1>7 DEF Calm, Woke

LEMMA ClientWake ==
  ASSUME Calm, NEW t \in Clients, TaskStep(t)
  PROVE  Woke'
<1>1. /\ Base /\ t \in Tasks \ {Driver} /\ Driver \in Tasks /\ Driver # Main
      /\ Clients \subseteq Tasks
      /\ \A p : place' = [place EXCEPT ![t] = p] => place'[t] = p
  BY CalmNames
<1>2. CASE EnterQueue(t) \/ WakeForRequest(t) \/ Ready(t) \/ Enqueue(t)
  BY <1>2, EnterWake, RequestWake, ClientReadyWake, ClientEnqueueWake
<1>3. CASE Ask(t)
  <2>1. /\ current = t /\ place[t] = "call" /\ Same
        /\ \/ SemDown(t, s_access) /\ place' = [place EXCEPT ![t] = "append"]
           \/ UNCHANGED vars /\ place' = [place EXCEPT ![t] = "call"]
    BY <1>3 DEF Ask, At, Running, Goto, NextCall, device, pending, manager, Same
  <2>2. \/ UNCHANGED << state, queue >>
        \/ /\ state' = [state EXCEPT ![t] = "SUSPENDED"]
           /\ In(UserQ)' = In(UserQ) \ {t}
    BY <1>1, <2>1, DownEffect DEF vars, tcb
  <2>3. /\ state'[Driver] = state[Driver] /\ (Driver \in In(UserQ)' <=> Driver \in In(UserQ))
        /\ \A u \in Clients \ {t} : u \in In(UserQ) => u \in In(UserQ)'
    BY <1>1, <2>2, CalmNames DEF In
  <2>4. ~Waits(t)'
    BY <1>1, <2>1 DEF Waits
  <2> QED BY <1>1, <2>1, <2>3, <2>4, RunWake
<1>4. CASE Up(t)
  <2>1. /\ current = t /\ place[t] = "up" /\ Same
        /\ SemUp(t, s_access) /\ place' = [place EXCEPT ![t] = "mark"] /\ ~NoWaiter
    BY <1>1, <1>4, AWaiter
    DEF Up, At, Running, Goto, device, pending, manager, Same, Calm, Access
  <2>2. \/ UNCHANGED << state, queue >>
        \/ \E e \in In(AccessQ) :
             /\ e \in Tasks /\ state' = [state EXCEPT ![e] = "READY"]
             /\ In(UserQ)' = In(UserQ) \cup {e}
    BY <1>1, <2>1, UpEffect
  <2>3. place[Driver] \in {"yield", "down"} => Driver \notin In(AccessQ)
    BY <1>1, DiskNames DEF Base, Rest, WhoWaits, AccessQ
  <2>4. /\ place[Driver] \in {"yield", "down"} =>
             /\ state'[Driver] = state[Driver]
             /\ Driver \in In(UserQ)' <=> Driver \in In(UserQ)
        /\ In(UserQ) \subseteq In(UserQ)'
    BY <1>1, <2>2, <2>3, CalmNames DEF In
  <2>5. Waits(t)
    BY <2>1 DEF Waits
  <2> QED BY <1>1, <2>1, <2>4, <2>5, RunWake
<1>5. CASE Mark(t)
  <2>1. /\ current = t /\ place[t] = "mark" /\ Same /\ In(UserQ)' = In(UserQ)
        /\ place' = [place EXCEPT ![t] = "remove"]
        /\ state' = [state EXCEPT ![t] = "SUSPENDED"]
    BY <1>5 DEF Mark, At, Running, Goto, device, pending, manager, In, Same
  <2>2. Waits(t) /\ state'[Driver] = state[Driver]
    BY <1>1, <2>1, CalmNames DEF Waits
  <2> QED BY <1>1, <2>1, <2>2, RunWake
<1>6. CASE RemoveSelf(t)
  <2>1. /\ current = t /\ place[t] = "remove" /\ Same /\ state' = state
        /\ place' = [place EXCEPT ![t] = "yield"]
        /\ queue' = queue_remove(queue, UserQ, t)
    BY <1>6 DEF RemoveSelf, At, Running, Goto, device, pending, manager, Same
  <2>2. TakenOut(Queues, Tasks, queue, UserQ, t, queue')
    BY <1>1, <2>1, QueueNames, RemoveAny DEF Base, TaskTypes
  <2>3. Waits(t) /\ In(UserQ)' = In(UserQ) \ {t}
    BY <2>1, <2>2 DEF Waits, TakenOut, In
  <2> QED BY <1>1, <2>1, <2>3, RunWake
<1>7. CASE Yield(t)
  <2>1. /\ current = t /\ place[t] = "yield" /\ Same /\ UNCHANGED << state, queue >>
        /\ place' = [place EXCEPT ![t] = "return"]
    BY <1>1, <1>7 DEF Yield, TaskYield, At, Running, Goto, device, pending, manager, tcb, Same
  <2>2. Waits(t)' => Waits(t)
    BY <1>1, <2>1 DEF Waits, In
  <2>3. In(UserQ)' = In(UserQ)
    BY <2>1 DEF In
  <2> QED BY <1>1, <2>1, <2>2, <2>3, RunWake
<1>8. CASE Return(t)
  <2>1. /\ current = t /\ place[t] = "return" /\ Same /\ UNCHANGED << state, queue >>
        /\ place' = [place EXCEPT ![t] = "call"]
    BY <1>8 DEF Return, NextCall, At, Running, device, pending, manager, tcb, vars, Same
  <2>2. ~Waits(t)'
    BY <1>1, <2>1 DEF Waits
  <2>3. In(UserQ)' = In(UserQ)
    BY <2>1 DEF In
  <2> QED BY <1>1, <2>1, <2>2, <2>3, RunWake
<1> QED BY <1>2, <1>3, <1>4, <1>5, <1>6, <1>7, <1>8 DEF TaskStep

(* The steps of the driver. *)
LEMMA DriverMoves ==
  ASSUME Calm, NEW p, place' = [place EXCEPT ![Driver] = p]
  PROVE  /\ place'[Driver] = p /\ \A u \in Clients : place'[u] = place[u] /\ u # Driver
         /\ Driver \in Tasks /\ Clients \subseteq Tasks
BY CalmNames

LEMMA LeavingWake ==
  ASSUME Calm, Same, NEW p \in {"mark", "remove", "yield"},
         place[Driver] \in {"up", "mark", "remove"}, current = Driver, current' = current,
         place' = [place EXCEPT ![Driver] = p],
         \A u \in Clients : u \in In(UserQ) => u \in In(UserQ)',
         p = "remove" => state'[Driver] = "SUSPENDED",
         p = "yield" => state'[Driver] # "READY"
  PROVE  Woke'
<1>1. /\ place'[Driver] = p /\ \A u \in Clients : place'[u] = place[u]
      /\ UNCHANGED << requests, sig_disk, handling, armed, stray, stage, first >>
  BY DriverMoves DEF Same
<1>2. ~HeadDone /\ ~sig_disk /\ ~HeadDone' /\ (requests = << >> \/ armed) /\ ~Waking
  <2>1. ~HeadDone /\ ~Taken
    BY DEF Calm, Woke, Signalled, Taken
  <2> QED BY <1>1, <2>1 DEF HeadDone, Taken, Calm, Woke, Parking, Waking
<1>3. Remembered'
  <2>1. \A u \in Clients : Waits(u)' => Waits(u)
    BY <1>1 DEF Waits
  <2> QED BY <1>1, <1>2, <2>1 DEF Calm, Woke, Remembered, Asker
<1>4. Expected' /\ Signalled' /\ Parking' /\ DriverReady'
  BY <1>1, <1>2 DEF Expected, Signalled, Parking, DriverReady
<1> QED BY <1>1, <1>3, <1>4 DEF Calm, Woke

LEMMA DriverEnqueueWake ==
  ASSUME Calm, Enqueue(Driver), ~RequesterRace
  PROVE  Woke'
<1>1. /\ Base /\ current = Driver /\ place[Driver] = "enqueue" /\ PutReady(first)
      /\ UNCHANGED << requests, armed, sig_disk, handling, stray, stage, first >>
      /\ place' = [place EXCEPT ![Driver] = "clear"] /\ handling = {}
  BY CalmNames, AtQuiet
  DEF Enqueue, PutReady, Woken, KernelSame, At, Running, Goto, device, pending, manager, Calm
<1>2. /\ place'[Driver] = "clear" /\ \A u \in Clients : place'[u] = place[u]
      /\ first \in Clients /\ first \in Tasks \ {Main} /\ Clients \subseteq Tasks
  BY <1>1, DriverMoves, CalmNames DEF Calm, CountInv, Requesters, Waking
<1>3. place[first] \in {"yield", "return"}
  BY <1>1, <1>2 DEF RequesterRace
<1>4. first \in In(UserQ)' /\ In(UserQ) \subseteq In(UserQ)'
  BY <1>1, <1>2, <1>3, PutBack
<1>5. Remembered'
  <2>1. \A u \in Clients : Waits(u)' => Waits(u) /\ u # first
    BY <1>2, <1>3, <1>4 DEF Waits
  <2> QED BY <1>1, <2>1 DEF Calm, Woke, Remembered, Asker, Waking
<1>6. Expected' /\ Signalled' /\ Parking' /\ DriverReady'
  BY <1>1, <1>2 DEF Expected, Signalled, HeadDone, Taken, Parking, DriverReady
<1> QED BY <1>1, <1>5, <1>6 DEF Calm, Woke

LEMMA DriverTaskWake ==
  ASSUME Calm, TaskStep(Driver), ~RequesterRace
  PROVE  Woke'
<1>1. /\ Base /\ Driver \in Tasks /\ Driver # Main /\ Driver \notin Clients
      /\ Clients \subseteq Tasks
      /\ state \in [Tasks -> {"READY", "SUSPENDED", "TERM"}]
  BY CalmNames
<1>2. CASE Up(Driver)
  <2>1. /\ place[Driver] = "up" /\ Same /\ current' = current /\ current = Driver
        /\ SemUp(Driver, s_access) /\ place' = [place EXCEPT ![Driver] = "mark"] /\ ~NoWaiter
    BY <1>1, <1>2, AWaiter
    DEF Up, At, Running, Goto, device, pending, manager, SemUp, ReturnUnlocked, Same, Calm,
        Access
  <2>2. In(UserQ) \subseteq In(UserQ)'
    BY <1>1, <2>1, UpEffect DEF In
  <2> QED BY <2>1, <2>2, LeavingWake
<1>3. CASE Mark(Driver)
  <2>1. /\ place[Driver] = "mark" /\ Same /\ current' = current /\ current = Driver
        /\ queue' = queue /\ place' = [place EXCEPT ![Driver] = "remove"]
        /\ state'[Driver] = "SUSPENDED"
    BY <1>1, <1>3 DEF Mark, At, Running, Goto, device, pending, manager, KernelSame, cpu, Same
  <2> QED BY <2>1, LeavingWake DEF In
<1>4. CASE RemoveSelf(Driver)
  <2>1. /\ place[Driver] = "remove" /\ Same /\ UNCHANGED << current, state >>
        /\ current = Driver /\ queue' = queue_remove(queue, UserQ, Driver)
        /\ place' = [place EXCEPT ![Driver] = "yield"]
    BY <1>4 DEF RemoveSelf, At, Running, Goto, device, pending, manager, KernelSame, cpu, Same
  <2>2. In(UserQ)' = In(UserQ) \ {Driver}
    <3>1. TakenOut(Queues, Tasks, queue, UserQ, Driver, queue')
      BY <1>1, <2>1, QueueNames, RemoveAny DEF Base, TaskTypes
    <3> QED BY <3>1 DEF TakenOut, In
  <2>3. state[Driver] = "SUSPENDED"
    BY <2>1 DEF Calm, Woke, Parking
  <2> QED BY <1>1, <2>1, <2>2, <2>3, LeavingWake
<1>5. CASE Yield(Driver)
  <2>1. /\ place[Driver] = "yield" /\ UNCHANGED << state, queue >>
        /\ place' = [place EXCEPT ![Driver] = "down"]
        /\ UNCHANGED << requests, sig_disk, handling, armed, stray, stage, first >>
    BY <1>5 DEF Yield, TaskYield, At, Running, Goto, device, pending, manager, tcb
  <2>2. place'[Driver] = "down" /\ \A u \in Clients : place'[u] = place[u]
    BY <2>1, DriverMoves
  <2>3. /\ (DriverComes' <=> DriverComes) /\ (HeadDone' <=> HeadDone) /\ ~Taken /\ ~Taken'
        /\ ~Waking
    BY <2>1, <2>2 DEF DriverComes, HeadDone, Taken, Waking
  <2>4. Remembered'
    <3>1. \A u \in Clients : Waits(u)' => Waits(u)
      BY <2>1, <2>2 DEF Waits, In
    <3> QED BY <2>1, <2>3, <3>1 DEF Calm, Woke, Remembered, Asker
  <2>5. Expected'
    BY <2>1, <2>2, <2>3 DEF Calm, Woke, Expected, WakingDriver
  <2>6. Signalled' /\ Parking' /\ DriverReady'
    BY <2>1, <2>2, <2>3 DEF Calm, Woke, Signalled, Parking, DriverReady, In
  <2> QED BY <2>1, <2>4, <2>5, <2>6 DEF Calm, Woke
<1>6. CASE Ready(Driver)
  <2>1. /\ place[Driver] = "ready" /\ queue' = queue
        /\ place' = [place EXCEPT ![Driver] = "enqueue"] /\ handling = {}
        /\ UNCHANGED << requests, sig_disk, handling, armed, stray, stage, first >>
    BY <1>6, AtQuiet DEF Ready, At, Running, Goto, device, pending, manager, SetReady, Calm
  <2>2. place'[Driver] = "enqueue" /\ \A u \in Clients : place'[u] = place[u]
    BY <2>1, DriverMoves
  <2>3. Remembered'
    <3>1. \A u \in Clients : Waits(u)' => Waits(u)
      BY <2>1, <2>2 DEF Waits, In
    <3> QED BY <2>1, <2>2, <3>1 DEF Calm, Woke, Remembered, Asker, Waking
  <2>4. Expected' /\ Signalled' /\ Parking' /\ DriverReady'
    BY <2>1, <2>2 DEF Expected, Signalled, HeadDone, Taken, Parking, DriverReady
  <2> QED BY <2>1, <2>3, <2>4 DEF Calm, Woke
<1>7. CASE Enqueue(Driver)
  BY <1>7, DriverEnqueueWake
<1>8. ~Ask(Driver) /\ ~EnterQueue(Driver) /\ ~WakeForRequest(Driver) /\ ~Return(Driver)
  BY CalmNames DEF Ask, EnterQueue, WakeForRequest, Return, At
<1> QED BY <1>2, <1>3, <1>4, <1>5, <1>6, <1>7, <1>8 DEF TaskStep

LEMMA DownWake ==
  ASSUME Calm, DriverDown
  PROVE  Woke'
<1>1. /\ Base /\ Driver \in Tasks /\ Driver # Main /\ current = Driver
      /\ place[Driver] = "down" /\ place' = [place EXCEPT ![Driver] = "test"]
      /\ UNCHANGED << requests, sig_disk, handling, armed, stray, stage, first >>
      /\ SemDown(Driver, s_access)
  BY CalmNames DEF DriverDown, At, Running, Goto, device, pending, manager
<1>2. place'[Driver] = "test" /\ \A u \in Clients : place'[u] = place[u] /\ u # Driver
  BY <1>1, DriverMoves
<1>3. \A u \in Clients : u \in In(UserQ) => u \in In(UserQ)'
  BY <1>1, <1>2, DownEffect DEF In
<1>4. Remembered'
  <2>1. \A u \in Clients : Waits(u)' => Waits(u)
    BY <1>2, <1>3 DEF Waits
  <2> QED BY <1>1, <2>1 DEF Calm, Woke, Remembered, Asker, Waking
<1>5. DriverComes'
  BY <1>2 DEF DriverComes
<1>6. Expected' /\ Signalled' /\ Parking' /\ DriverReady'
  BY <1>1, <1>2, <1>5 DEF Expected, Signalled, Parking, DriverReady
<1> QED BY <1>1, <1>4, <1>6 DEF Calm, Woke

LEMMA TestWake ==
  ASSUME Calm, DriverTest
  PROVE  Woke'
<1>1. /\ Base /\ Driver \in Tasks /\ handling = {} /\ handling' = {} /\ stray' = {}
      /\ place[Driver] = "test" /\ UNCHANGED << queue, sig_disk >> /\ ~Waking
  BY CalmNames, AtQuiet DEF DriverTest, At, Calm, Woke, vars, Waking
<1>2. CASE ~sig_disk
  <2>1. requests' = requests /\ place' = [place EXCEPT ![Driver] = "command"]
    BY <1>2 DEF DriverTest, Goto
  <2>2. place'[Driver] = "command" /\ \A u \in Clients : place'[u] = place[u]
    BY <2>1, DriverMoves
  <2>3. Remembered'
    <3>1. \A u \in Clients : Waits(u)' => Waits(u)
      BY <1>1, <2>2 DEF Waits, In
    <3> QED BY <1>1, <2>1, <3>1 DEF Calm, Woke, Remembered, Asker
  <2>4. Expected' /\ Signalled' /\ Parking' /\ DriverReady'
    BY <1>1, <1>2, <2>2 DEF Expected, Signalled, HeadDone, Parking, DriverReady
  <2> QED BY <1>1, <2>3, <2>4 DEF Woke
<1>3. CASE sig_disk
  <2>1. requests # << >> /\ ~armed
    BY <1>1, <1>3 DEF Calm, Device, Serves, HeadDone, Taken
  <2>2. /\ requests' = Tail(requests) /\ first' = Head(requests).requester
        /\ place' = [place EXCEPT ![Driver] = "ready"]
    BY <1>3, <2>1 DEF DriverTest, Finish, Goto
  <2>3. place'[Driver] = "ready" /\ \A u \in Clients : place'[u] = place[u]
    BY <2>2, DriverMoves
  <2>4. Remembered'
    <3>1. /\ DOMAIN requests = 1..Len(requests) /\ Head(requests) = requests[1]
          /\ DOMAIN requests' = 1..(Len(requests) - 1) /\ Len(requests) \in Nat
          /\ \A i \in 1..(Len(requests) - 1) : requests'[i] = requests[i + 1]
      <4> DEFINE R == [requester : Clients, op_type : {"READ", "WRITE"}, block : Blocks,
                       buffer : Buffers]
      <4>1. requests \in Seq(R)
        BY <1>1 DEF Base, ManagerTypes
      <4> HIDE DEF R
      <4> QED BY <2>1, <2>2, <4>1, TailAt
    <3>2. ASSUME NEW u \in Clients, Waits(u)'
          PROVE  (\E i \in DOMAIN requests' : Asker(i)' = u) \/ (Waking /\ first = u)'
      <4>1. Waits(u)
        BY <1>1, <2>3, <3>2 DEF Waits, In
      <4>2. PICK i \in DOMAIN requests : Asker(i) = u
        BY <1>1, <4>1 DEF Calm, Woke, Remembered
      <4>3. CASE i = 1
        BY <2>2, <2>3, <3>1, <4>2, <4>3 DEF Asker, Waking
      <4>4. CASE i # 1
        <5>1. i - 1 \in DOMAIN requests' /\ requests'[i - 1] = requests[i]
          BY <3>1, <4>4
        <5> QED BY <4>2, <5>1 DEF Asker
      <4> QED BY <4>3, <4>4
    <3> QED BY <3>2 DEF Remembered
  <2>5. Expected' /\ Signalled' /\ Parking' /\ DriverReady'
    BY <1>1, <2>3 DEF Expected, Signalled, HeadDone, Taken, Parking, DriverReady
  <2> QED BY <1>1, <2>4, <2>5 DEF Woke
<1> QED BY <1>2, <1>3

LEMMA ClearWake ==
  ASSUME Calm, ClearSignal
  PROVE  Woke'
<1>1. /\ handling = {} /\ handling' = {} /\ place[Driver] = "clear" /\ ~sig_disk'
      /\ UNCHANGED << queue, requests, stray >> /\ ~Waking
      /\ place' = [place EXCEPT ![Driver] = "command"]
  BY CalmNames, AtQuiet DEF ClearSignal, At, Goto, vars, Calm, Waking
<1>2. place'[Driver] = "command" /\ \A u \in Clients : place'[u] = place[u]
  BY <1>1, DriverMoves
<1>3. Remembered'
  <2>1. \A u \in Clients : Waits(u)' => Waits(u)
    BY <1>1, <1>2 DEF Waits, In
  <2> QED BY <1>1, <2>1 DEF Calm, Woke, Remembered, Asker
<1>4. Expected' /\ Signalled' /\ Parking' /\ DriverReady'
  BY <1>1, <1>2 DEF Expected, Signalled, HeadDone, Parking, DriverReady
<1> QED BY <1>1, <1>3, <1>4 DEF Calm, Woke

LEMMA CommandWake ==
  ASSUME Calm, DriverCommand
  PROVE  Woke'
<1>1. /\ Base /\ handling = {} /\ handling' = {} /\ place[Driver] = "command"
      /\ UNCHANGED << requests, sig_disk, queue, stray >> /\ ~Waking
      /\ place' = [place EXCEPT ![Driver] = "up"] /\ ~sig_disk
  BY CalmNames, AtQuiet
  DEF DriverCommand, At, Goto, vars, manager, Calm, Waking, Device, HeadDone, Taken
<1>2. place'[Driver] = "up" /\ \A u \in Clients : place'[u] = place[u]
  BY <1>1, DriverMoves
<1>3. Remembered'
  <2>1. \A u \in Clients : Waits(u)' => Waits(u)
    BY <1>1, <1>2 DEF Waits, In
  <2> QED BY <1>1, <2>1 DEF Calm, Woke, Remembered, Asker
<1>4. requests # << >> => armed'
  <2>1. CASE requests # << >> /\ status = "IDLE"
    <3>1. Head(requests).block \in Blocks
      BY <1>1, <2>1, HeadRequest DEF Base
    <3> QED BY <2>1, <3>1 DEF DriverCommand, disk_cmd, Accepts, disk_settimer
  <2>2. CASE requests # << >> /\ status # "IDLE"
    <3>1. status # "UNKNOWN"
      BY <2>2, CalmNames DEF Calm, Device, Booting
    <3>2. armed
      BY <1>1, <2>2, <3>1 DEF Calm, Device, Busy, Base, ManagerTypes, Status
    <3> QED BY <2>2, <3>2 DEF DriverCommand, device, pending
  <2> QED BY <2>1, <2>2
<1>5. Expected' /\ Signalled' /\ Parking' /\ DriverReady'
  BY <1>1, <1>2, <1>4 DEF Expected, Signalled, HeadDone, Taken, Parking, DriverReady
<1> QED BY <1>1, <1>3, <1>5 DEF Calm, Woke

(* The signals, the programs and the kernel. *)
LEMMA DoneWake ==
  ASSUME Calm, DiskDone, ~TestRace, ~ParkRace
  PROVE  Woke'
<1>1. /\ armed /\ ~armed' /\ handling' # {} /\ Completion
      /\ UNCHANGED << requests, sig_disk, place, state, queue, current, stray, stage, first >>
  BY DEF DiskDone, disk_sighandle, vars, cpu, tcb, code, manager, Completion
<1>2. place[Driver] \in {"down", "test", "yield"} /\ handling = {}
  BY <1>1, CalmNames DEF TestRace, ParkRace, Calm, Device, Serves, Busy
<1>3. Remembered'
  BY <1>1 DEF Calm, Woke, Remembered, Waits, In, Asker, Waking
<1>4. Expected' /\ Signalled' /\ Parking'
  BY <1>1, <1>2 DEF Expected, Signalled, HeadDone, Parking
<1>5. DriverReady'
  BY <1>1, <1>2 DEF Calm, Woke, DriverReady, In
<1> QED BY <1>1, <1>3, <1>4, <1>5 DEF Calm, Woke

LEMMA SignalWake ==
  ASSUME Calm, wake_driver
  PROVE  Woke'
<1>1. /\ Base /\ Driver \in Tasks \ {Main} /\ Clients \subseteq Tasks
      /\ current \in handling /\ handling \subseteq {current} /\ current \in Contexts
      /\ UNCHANGED << requests, place, armed, current, stray, first >>
  BY CalmNames DEF wake_driver, SetSignal, ReadyDriver, AppendDriver, InHandler, device,
     pending, code, KernelSame, cpu, vars, manager, Calm, Device, Base, TaskTypes, Contexts
<1>2. HeadDone /\ place[Driver] \in {"yield", "down", "test"} /\ ~Taken /\ handling = {current}
  BY <1>1 DEF HeadDone, Calm, Woke, Signalled, Taken
<1>3. In(UserQ) \subseteq In(UserQ)'
  BY <1>1, PutKeeps DEF wake_driver, SetSignal, ReadyDriver, AppendDriver, SetReady, vars, In
<1>4. Remembered' /\ Parking'
  <2>1. \A u \in Clients : Waits(u)' => Waits(u)
    BY <1>1, <1>3 DEF Waits
  <2>2. Remembered'
    BY <1>1, <2>1 DEF Calm, Woke, Remembered, Asker, Waking
  <2> QED BY <1>1, <1>2, <2>2 DEF Parking
<1>5. CASE SetSignal
  <2>1. /\ handling' = handling /\ stage' = [stage EXCEPT ![current] = "ready"]
        /\ UNCHANGED << state, queue >> /\ stage[current] = "raise"
    BY <1>5 DEF SetSignal, InHandler, vars, tcb
  <2>2. Expected' /\ Signalled' /\ DriverReady'
    BY <1>1, <1>2, <2>1 DEF Expected, Signalled, HeadDone, DriverReady, Calm, Woke, In
  <2> QED BY <1>1, <1>4, <2>2 DEF Calm, Woke
<1>6. CASE ReadyDriver
  <2>1. /\ handling' = handling /\ stage' = [stage EXCEPT ![current] = "append"]
        /\ stage[current] = "ready"
    BY <1>6 DEF ReadyDriver, InHandler
  <2>2. stage'[current] = "append"
    BY <1>1, <2>1 DEF Base, ManagerTypes
  <2>3. Expected' /\ Signalled' /\ DriverReady'
    BY <1>1, <1>2, <2>1, <2>2 DEF Expected, Signalled, HeadDone, DriverReady
  <2> QED BY <1>1, <1>4, <2>3 DEF Calm, Woke
<1>7. CASE AppendDriver
  <2>1. PutReady(Driver) /\ sig_disk' = sig_disk
    BY <1>7 DEF AppendDriver, InHandler, manager
  <2>2. DriverComes'
    BY <1>1, <1>2, <2>1, PutBack DEF DriverComes, In
  <2>3. Expected' /\ Signalled'
    BY <1>1, <1>2, <2>2 DEF Expected, Signalled
  <2>4. DriverReady'
    BY <1>1, <1>2, <2>2 DEF DriverReady, DriverComes, In
  <2> QED BY <1>1, <1>4, <2>3, <2>4 DEF Calm, Woke
<1> QED BY <1>5, <1>6, <1>7 DEF wake_driver

LEMMA ProgramsWake ==
  ASSUME Calm, Programs
  PROVE  Woke'
<1>1. /\ Base /\ Main \in Tasks /\ Driver \in Tasks /\ Driver # Main /\ Driver \notin Clients
      /\ Main \notin Clients /\ Clients \subseteq Tasks
      /\ state \in [Tasks -> {"READY", "SUSPENDED", "TERM"}]
      /\ \A i \in DOMAIN mover : mover[i] \in Clients
      /\ current # Driver
  <2>1. current \in Clients \cup {Main}
    BY DEF Programs, MainProgram, ClientExit, At, Running, TaskJoinReturn
  <2> QED BY <2>1, CalmNames, DiskNames
<1>2. Same /\ UNCHANGED place
  BY <1>1, ProgramsKeep DEF device, pending, manager, Same
<1> DEFINE Fine ==
             /\ state'[Driver] = state[Driver]
             /\ Driver \in In(UserQ)' <=> Driver \in In(UserQ)
             /\ \A u \in Clients : u \in In(UserQ) => u \in In(UserQ)'
<1>3. Fine
  <2>1. ASSUME NEW i \in DOMAIN mover, TaskCreate(Main, mover[i])
        PROVE  Fine
    <3>1. /\ state' = [state EXCEPT ![mover[i]] = "READY"]
          /\ In(UserQ)' = In(UserQ) \cup {mover[i]}
      BY <1>1, <2>1, CreateEffect
    <3> QED BY <1>1, <3>1
  <2>2. ASSUME NEW i \in DOMAIN mover, At(Main, "call"), TaskJoin(Main, mover[i])
        PROVE  Fine
    <3>1. /\ mover[i] \in Tasks /\ Suspend(Main, WaitQ(mover[i]))
          /\ WaitQ(mover[i]) \in Queues \ {UserQ} /\ current = Main /\ place[Main] = "call"
      BY <1>1, <2>2, QueueNames DEF TaskJoin, At, Running
    <3>2. state' = [state EXCEPT ![Main] = "SUSPENDED"] /\ In(UserQ)' = In(UserQ) \ {Main}
      BY <1>1, <3>1, BlockEffect
    <3> QED BY <1>1, <3>2
  <2>3. ASSUME UNCHANGED queue, NEW t \in Clients \cup {Main},
               state' \in {state, [state EXCEPT ![t] = "TERM"]}
        PROVE  Fine
    BY <1>1, <2>3 DEF In
  <2>4. ASSUME NEW t \in Clients \cup {Main}, TaskExit(t, 0) PROVE Fine
    BY <2>3, <2>4 DEF TaskExit
  <2>5. ASSUME NEW i \in DOMAIN mover, TaskJoinEnded(Main, mover[i]) PROVE Fine
    BY <2>3, <2>5 DEF TaskJoinEnded, tcb
  <2>6. ASSUME TaskJoinReturn(Main) PROVE Fine
    BY <2>3, <2>6 DEF TaskJoinReturn, tcb
  <2> HIDE DEF Fine
  <2> QED BY <2>1, <2>2, <2>4, <2>5, <2>6 DEF Programs, MainProgram, ClientExit
<1>4. \A u \in Clients : Waits(u)' => Waits(u)
  BY <1>2, <1>3 DEF Waits
<1>5. place[Driver] \notin {"mark", "remove"}
  BY <1>1 DEF Calm, Woke, Parking
<1> QED BY <1>2, <1>3, <1>4, <1>5, WakeKeep DEF Calm

LEMMA KernelWake ==
  ASSUME Calm, KernelStep, ~ParkRace
  PROVE  Woke'
<1>1. /\ Base /\ Main \in Tasks /\ Driver \in Tasks /\ Driver # Main /\ Driver \notin Clients
      /\ Clients \subseteq Tasks \ {Main} /\ state \in [Tasks -> {"READY", "SUSPENDED", "TERM"}]
      /\ Driver # Dispatcher
  BY CalmNames, DiskNames
<1>2. Same /\ UNCHANGED place
  BY <1>1, KernelKeeps DEF device, pending, manager, Same
<1>3. place[Driver] \in {"mark", "remove"} => current' = current
  <2>1. SUFFICES ASSUME place[Driver] \in {"mark", "remove"} PROVE current' = current
    OBVIOUS
  <2>2. current = Driver
    BY <2>1 DEF Calm, Woke, Parking
  <2>3. CASE TickUser
    BY <1>2, <2>1, <2>2, <2>3 DEF TickUser, ParkRace, Preempted
  <2>4. CASE Dispatch
    <3>1. current = Dispatcher
      BY <1>1, <2>4 DEF Dispatch, DispatcherStep, DispatchTask, DispatchNone, AfterSwitch,
         WakeStep, WakeDone, DispatcherExit, Base, TaskTypes, Rest, OnCpu, NoSleepers
    <3> QED BY <1>1, <2>2, <3>1
  <2>5. CASE Terminated
    BY <2>5 DEF Terminated, vars, cpu
  <2> QED BY <2>3, <2>4, <2>5 DEF KernelStep
<1>4. /\ state'[Driver] = state[Driver] /\ (Driver \in In(UserQ)' <=> Driver \in In(UserQ))
      /\ \A u \in Clients : Waits(u)' => Waits(u)
  <2>1. CASE UNCHANGED << state, queue >>
    BY <1>2, <2>1 DEF In, Waits
  <2>2. CASE AfterSwitch /\ Ended(next_task)
    <3> DEFINE t == next_task
    <3>1. t \in Tasks /\ Ending(t)
      BY <1>1, <2>2 DEF AfterSwitch, Ended, Ending, Base, Rest, OnCpu
    <3>2. t # Driver /\ In(WaitQ(t)) \subseteq {Main}
      BY <1>1, <3>1 DEF Base, Rest, Living, WhoWaits
    <3>3. /\ state' = AllReady(WaitQ(t))
          /\ In(UserQ)' = (In(UserQ) \cup In(WaitQ(t))) \ {t}
      BY <1>1, <2>2, <3>1, TerminateEffect DEF AfterSwitch
    <3>4. state[t] = "TERM"
      BY <3>1 DEF Ending
    <3> HIDE DEF t
    <3>5. \A u \in Tasks \ {Main} : state'[u] = state[u]
      BY <3>2, <3>3 DEF AllReady, In
    <3>6. place[t] \notin {"yield", "return"}
      BY <1>1, <3>1, <3>4 DEF Base, Rest, Living
    <3>7. \A u \in Clients : Waits(u)' => Waits(u)
      BY <1>1, <1>2, <3>3, <3>6 DEF Waits
    <3> QED BY <1>1, <3>2, <3>3, <3>5, <3>7
  <2>3. ~WakeStep
    BY <1>1 DEF WakeStep, Base, Rest, NoSleepers
  <2> QED BY <2>1, <2>2, <2>3
      DEF KernelStep, TickUser, Terminated, vars, tcb, Dispatch, DispatcherStep,
          DispatchTask, DispatchNone, AfterSwitch, WakeDone, DispatcherExit
<1> QED BY <1>2, <1>3, <1>4, WakeKeep DEF Calm

LEMMA AlwaysWake == DMSpec => []WakeInv
<1>1. DMInit => WakeInv
  <2> SUFFICES ASSUME DMInit PROVE Unpreempted /\ Woke
    BY DEF WakeInv
  <2>1. /\ requests = << >> /\ sig_disk = FALSE /\ handling = {} /\ stray = {}
        /\ place[Driver] = "down" /\ state[Driver] = "TERM" /\ place[Main] = "boot"
        /\ \A t \in Clients : place[t] = "call"
    BY DiskNames DEF DMInit, Init
  <2> QED BY <2>1
      DEF Unpreempted, Woke, Remembered, Waits, Expected, Signalled, HeadDone, Parking,
          DriverReady
<1>2. CountInv /\ AccInv /\ DevInv /\ WakeInv /\ [DMNext]_dmVars => WakeInv'
  <2> SUFFICES ASSUME CountInv, AccInv, DevInv, WakeInv, [DMNext]_dmVars, races' = {}
               PROVE  Unpreempted' /\ Woke'
    BY DEF WakeInv
  <2>1. /\ races = {}
        /\ \/ /\ DMStep /\ ~InitRace /\ ~DownRace /\ ~TestRace
              /\ ~ParkRace /\ ~RequesterRace
           \/ Still
    BY Split, RaceFree
  <2>2. Calm
    BY <2>1 DEF Calm, AccInv, DevInv, Intact, WakeInv
  <2>3. CASE Still
    <3>1. UNCHANGED << place, state, queue, current >> /\ Same
      BY <2>3, StillSame DEF device, pending, manager, Same
    <3>2. (\A u \in Clients : Waits(u)' => Waits(u)) /\ In(UserQ)' = In(UserQ)
      BY <3>1 DEF Waits, In
    <3>3. Unpreempted'
      BY <2>2, <3>1 DEF Calm, Unpreempted, Booting
    <3> QED BY <2>2, <3>1, <3>2, <3>3, WakeKeep DEF Calm
  <2>4. CASE DMStep /\ ~InitRace /\ ~DownRace /\ ~TestRace /\ ~ParkRace /\ ~RequesterRace
    <3>1. Unpreempted'
      BY <2>2, <2>4, UnpreemptedKeep
    <3>2. CASE DriverStep
      <4>1. ~DownSignalled
        BY <2>2, <2>4, NotSignalled DEF Calm, CountInv, Base
      <4> QED BY <2>2, <3>1, <3>2, <4>1, DownWake, TestWake, ClearWake, CommandWake
          DEF DriverStep
    <3>3. ASSUME NEW t \in Clients \cup {Driver}, TaskStep(t) PROVE Woke'
      BY <2>2, <2>4, <3>3, ClientWake, DriverTaskWake
    <3> QED BY <2>2, <2>4, <3>1, <3>2, <3>3, BootWake, DoneWake, SignalWake, ProgramsWake,
               KernelWake DEF DMStep
  <2> QED BY <2>1, <2>3, <2>4
<1> QED BY <1>1, <1>2, AlwaysCount, AlwaysAcc, AlwaysDev, PTL DEF DMSpec

(* Up to the first race nobody is left suspended for ever: a client that   *)
(* sleeps has its request in disk.queue or is being woken, and as long as  *)
(* there is a request the disk works on it, its signal is on the way, or   *)
(* somebody will look at the queue.  So a lost wake-up needs one of the    *)
(* six races.                                                              *)
THEOREM NobodyForgotten == DMSpec => []SomebodyWakes
<1>1. WakeInv => SomebodyWakes
  <2> SUFFICES ASSUME races = {}, Woke PROVE SomebodyWakes
    BY DEF WakeInv, SomebodyWakes
  <2> QED BY DEF Woke, Remembered, Waits, Waking, In, Asker, Expected, Signalled, SomebodyWakes
<1> QED BY <1>1, AlwaysWake, PTL
=============================================================================
