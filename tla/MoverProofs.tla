----------------------------- MODULE MoverProofs -----------------------------
(***************************************************************************)
(* The movers turn the disk end for end, for any number of movers, any     *)
(* disk they divide among them, whatever others read meanwhile.  First,    *)
(* CallsInv, how the requests and the ends of the tasks follow their       *)
(* programs, whatever races occur; then SwapInv, how far each pair of      *)
(* blocks is exchanged, given the number of operations its mover has had   *)
(* carried out, until a race has one of them carried out twice.            *)
(***************************************************************************)
EXTENDS DiskMovers, DiskProofs

RequestOf(t) ==
  [requester |-> t, op_type |-> Call(t).op_type, block |-> Call(t).block,
   buffer |-> Call(t).buffer]

CallsInv ==
  /\ \A i \in DOMAIN requests : requests[i] = RequestOf(Asker(i))
  /\ \A t \in Clients : /\ at[t] <= Len(Program[t]) + 1
                        /\ InService(t) => at[t] <= Len(Program[t])
  /\ place[Main] # "boot" => num_blocks = NumBlocks
  /\ Booting => at[Main] = 1
  /\ \A i \in DOMAIN mover : state[mover[i]] = "TERM" /\ i < at[Main] =>
       at[mover[i]] = Len(Program[mover[i]]) + 1
  /\ state[Main] = "TERM" => at[Main] = 2 * Len(mover) + 1

(* No task ends in this step. *)
NoneEnds == \A t \in Tasks : state'[t] = "TERM" => state[t] = "TERM"

(* A step that neither asks for an operation nor goes on to the next one.  *)
LEMMA CallsKeep ==
  ASSUME CallsInv, ManagerTypes, UNCHANGED << at, num_blocks >>, NoneEnds,
         \A i \in DOMAIN requests' : \E j \in DOMAIN requests : requests'[i] = requests[j],
         place'[Main] # "boot" => place[Main] # "boot", Booting' => Booting,
         \A t \in Clients : InService(t)' => InService(t)
  PROVE  CallsInv'
<1>1. \A i \in DOMAIN requests' : requests'[i] = RequestOf(Asker(i))'
  <2> SUFFICES ASSUME NEW i \in DOMAIN requests'
               PROVE  requests'[i] = RequestOf(Asker(i))'
    OBVIOUS
  <2>1. PICK j \in DOMAIN requests : requests'[i] = requests[j]
    OBVIOUS
  <2>2. requests[j] = RequestOf(Asker(j)) /\ Asker(i)' = Asker(j)
    BY <2>1 DEF CallsInv, Asker
  <2> QED BY <2>1, <2>2 DEF RequestOf, Call
<1>2. \A i \in DOMAIN mover : mover[i] \in Tasks
  BY DiskNames
<1> QED BY <1>1, <1>2, DiskNames DEF CallsInv, NoneEnds

(* One of the clients goes on to its next operation. *)
LEMMA NextOperation ==
  ASSUME CallsInv, CountInv, NEW t \in Clients, NextCall(t), At(t, place[t]),
         at[t] <= Len(Program[t]), ~Waits(t),
         UNCHANGED << requests, num_blocks, state >>
  PROVE  CallsInv'
<1>1. /\ Base /\ ManagerTypes /\ t \in Tasks /\ t # Main /\ Main \in Tasks /\ Clients \subseteq Tasks
      /\ state[t] # "TERM" /\ \A i \in DOMAIN mover : mover[i] \in Clients
  BY DiskNames, Runner DEF CountInv, Base, At, Running
<1>2. /\ at'[t] = at[t] + 1 /\ \A u \in Tasks \ {t} : at'[u] = at[u]
      /\ place'[t] = "call" /\ \A u \in Tasks \ {t} : place'[u] = place[u]
  BY <1>1, NextCallAt DEF NextCall, ManagerTypes
<1>3. \A i \in DOMAIN requests : requests[i] = RequestOf(Asker(i))'
  <2> SUFFICES ASSUME NEW i \in DOMAIN requests PROVE requests[i] = RequestOf(Asker(i))'
    OBVIOUS
  <2>1. Asker(i) \in Clients /\ Asker(i) # t /\ Asker(i)' = Asker(i)
    BY <1>1, AskerClient DEF CountInv, Requesters, Asker
  <2>2. Call(Asker(i))' = Call(Asker(i))
    BY <1>1, <1>2, <2>1 DEF Call
  <2> QED BY <2>1, <2>2 DEF CallsInv, RequestOf
<1>4. \A u \in Clients : /\ at'[u] <= Len(Program[u]) + 1
                         /\ InService(u)' => at'[u] <= Len(Program[u])
  <2>1. at'[t] <= Len(Program[t]) + 1 /\ ~InService(t)'
    <3>1. at[t] \in Nat /\ Len(Program[t]) \in Nat
      <4> DEFINE R == [op_type : {"READ", "WRITE"}, block : Int, buffer : Buffers]
      <4>1. Program[t] \in Seq(R)
        BY DiskManagerAssumption
      <4> HIDE DEF R
      <4> QED BY <1>1, <4>1 DEF ManagerTypes
    <3> QED BY <1>2, <3>1 DEF InService, ServicePlaces
  <2>2. \A u \in Clients \ {t} : at'[u] = at[u] /\ (InService(u)' <=> InService(u))
    BY <1>1, <1>2 DEF InService
  <2> QED BY <2>1, <2>2 DEF CallsInv
<1>5. \A i \in DOMAIN mover : state[mover[i]] = "TERM" => at'[mover[i]] = at[mover[i]]
  BY <1>1, <1>2
<1>6. Booting' = Booting /\ at'[Main] = at[Main] /\ place'[Main] = place[Main]
  BY <1>1, <1>2 DEF Booting
<1> QED BY <1>3, <1>4, <1>5, <1>6 DEF CallsInv

LEMMA SetStateEndsNobody ==
  ASSUME TaskTypes, NEW t \in Tasks,
         state' \in {state, [state EXCEPT ![t] = "READY"], [state EXCEPT ![t] = "SUSPENDED"]}
  PROVE  NoneEnds
BY DEF TaskTypes, NoneEnds

LEMMA KernelCalls ==
  ASSUME CallsInv, CountInv, KernelStep
  PROVE  CallsInv'
<1>1. /\ Base /\ ManagerTypes /\ UNCHANGED << requests, num_blocks, place, at >>
  BY KernelKeeps DEF CountInv, Base, manager
<1>2. NoneEnds
  <2>1. ASSUME AfterSwitch, terminate_task(next_task) PROVE NoneEnds
    BY <2>1 DEF terminate_task, AllReady, NoneEnds
  <2>2. ~WakeStep
    BY <1>1 DEF WakeStep, Base, Rest, NoSleepers
  <2> QED BY <2>1, <2>2
      DEF KernelStep, TickUser, Terminated, vars, Dispatch, DispatcherStep,
          DispatchTask, DispatchNone, AfterSwitch, WakeDone, DispatcherExit, tcb, NoneEnds
<1> QED BY <1>1, <1>2, CallsKeep DEF Booting, InService

LEMMA DeviceCalls ==
  ASSUME CallsInv, CountInv, DiskDone \/ wake_driver
  PROVE  CallsInv'
<1>1. /\ Base /\ ManagerTypes /\ TaskTypes /\ Driver \in Tasks
      /\ UNCHANGED << requests, num_blocks, place, at >>
  BY DiskNames DEF CountInv, Base, DiskDone, wake_driver, SetSignal, ReadyDriver,
                   AppendDriver, manager, code
<1>2. state' \in {state, [state EXCEPT ![Driver] = "READY"]}
  BY DEF DiskDone, wake_driver, SetSignal, ReadyDriver, AppendDriver, SetReady, PutReady,
         vars, tcb
<1>3. NoneEnds
  BY <1>1, <1>2, SetStateEndsNobody
<1> QED BY <1>1, <1>3, CallsKeep DEF Booting, InService

LEMMA DriverCalls ==
  ASSUME CallsInv, CountInv, DriverStep
  PROVE  CallsInv'
<1>1. /\ Base /\ ManagerTypes /\ TaskTypes /\ Driver \in Tasks /\ Driver # Main
      /\ Driver \notin Clients
  BY DiskNames DEF CountInv, Base
<1>2. /\ UNCHANGED << num_blocks, at >>
      /\ UNCHANGED place \/ \E p : place' = [place EXCEPT ![Driver] = p]
  BY DEF DriverStep, DriverDown, DownSignalled, DriverTest, Finish, ClearSignal,
         DriverCommand, Goto, manager, code
<1>3. \A i \in DOMAIN requests' : \E j \in DOMAIN requests : requests'[i] = requests[j]
  <2>1. CASE requests # << >> /\ requests' = Tail(requests)
    <3>1. requests \in Seq(Requests)
      BY <1>1 DEF ManagerTypes, Requests
    <3>2. \A i \in DOMAIN requests' : i + 1 \in DOMAIN requests /\ requests'[i] = requests[i + 1]
      BY <2>1, <3>1, TailAt
    <3> QED BY <3>2
  <2>2. CASE UNCHANGED requests
    BY <2>2
  <2> QED BY <2>1, <2>2
      DEF DriverStep, DriverDown, DownSignalled, DriverTest, ClearSignal, DriverCommand,
          Finish, manager
<1>4. NoneEnds
  <2>1. state' \in {state, [state EXCEPT ![Driver] = "READY"],
                    [state EXCEPT ![Driver] = "SUSPENDED"]}
    BY DEF DriverStep, DriverDown, DownSignalled, DriverTest, ClearSignal, DriverCommand,
           SemDown, Suspend, vars, tcb
  <2> QED BY <1>1, <2>1, SetStateEndsNobody
<1>5. /\ place'[Main] = place[Main] /\ (Booting' <=> Booting)
      /\ \A u \in Clients : InService(u)' <=> InService(u)
  <2>1. CASE UNCHANGED place
    BY <2>1 DEF Booting, InService
  <2>2. ASSUME NEW p, place' = [place EXCEPT ![Driver] = p]
        PROVE  /\ place'[Main] = place[Main]
               /\ \A u \in Clients : InService(u)' <=> InService(u)
    BY <1>1, <2>2, DiskNames, PlacesMove, ServiceKeep
  <2> QED BY <1>2, <2>1, <2>2 DEF Booting
<1> QED BY <1>1, <1>2, <1>3, <1>4, <1>5, CallsKeep

LEMMA EnterCalls ==
  ASSUME CallsInv, CountInv, NEW t \in Clients, EnterQueue(t)
  PROVE  CallsInv'
<1>1. /\ Base /\ ManagerTypes /\ t \in Tasks /\ t # Main /\ place[t] = "append"
      /\ requests' = Append(requests, RequestOf(t)) /\ RequestOf(t).requester = t
      /\ UNCHANGED << at, num_blocks, state >> /\ place' = [place EXCEPT ![t] = "wake"]
  BY DiskNames DEF CountInv, Base, EnterQueue, Goto, At, vars, tcb, RequestOf
<1>2. /\ at[t] <= Len(Program[t]) /\ place'[Main] = place[Main]
      /\ \A u \in Clients \ {t} : place'[u] = place[u]
  BY <1>1, DiskNames DEF Base, ManagerTypes, Rest, Asked
<1>3. /\ Len(requests) \in Nat /\ DOMAIN requests = 1..Len(requests)
      /\ DOMAIN requests' = 1..(Len(requests) + 1)
      /\ requests'[Len(requests) + 1] = RequestOf(t)
      /\ \A i \in DOMAIN requests : requests'[i] = requests[i]
  BY <1>1, AppendAt DEF ManagerTypes
<1>4. \A i \in DOMAIN requests' : requests'[i] = RequestOf(Asker(i))'
  <2> SUFFICES ASSUME NEW i \in DOMAIN requests'
               PROVE  requests'[i] = RequestOf(Asker(i))'
    OBVIOUS
  <2>1. CASE i = Len(requests) + 1
    <3>1. Asker(i)' = t /\ Call(t)' = Call(t)
      BY <1>1, <1>3, <2>1 DEF Asker, Call
    <3> QED BY <1>3, <2>1, <3>1 DEF RequestOf
  <2>2. CASE i \in DOMAIN requests
    <3>1. Asker(i)' = Asker(i) /\ requests[i] = RequestOf(Asker(i))
      BY <1>3, <2>2 DEF Asker, CallsInv
    <3> QED BY <1>1, <1>3, <2>2, <3>1 DEF RequestOf, Call
  <2> QED BY <1>3, <2>1, <2>2
<1> QED BY <1>1, <1>2, <1>4 DEF CallsInv, InService, Booting

LEMMA TaskStepCalls ==
  ASSUME CallsInv, CountInv, NEW t \in Clients \cup {Driver}, TaskStep(t)
  PROVE  CallsInv'
<1>1. /\ Base /\ ManagerTypes /\ TaskTypes /\ t \in Tasks /\ t # Main /\ Driver \notin Clients
      /\ Driver \in Tasks /\ Main \in Tasks /\ place[t] \in PlacesOf(t)
  BY DiskNames DEF CountInv, Base, Rest, Roles
<1>2. CASE EnterQueue(t)
  <2>1. t \in Clients
    BY <1>1, <1>2 DEF EnterQueue, At, PlacesOf
  <2> QED BY <1>2, <2>1, EnterCalls
<1>3. CASE Return(t)
  <2>1. t \in Clients /\ place[t] = "return" /\ current = t /\ At(t, place[t])
    BY <1>1, <1>3 DEF Return, At, PlacesOf, Running
  <2>2. at[t] <= Len(Program[t]) /\ ~Waits(t)
    BY <1>1, <2>1, Runner DEF CallsInv, InService, ServicePlaces, Waits
  <2> QED BY <1>3, <2>1, <2>2, NextOperation DEF Return, vars, tcb, manager
<1>4. CASE Ask(t) /\ UNCHANGED vars /\ NextCall(t)
  <2>1. /\ t \in Clients /\ At(t, place[t]) /\ at[t] <= Len(Program[t]) /\ ~Waits(t)
        /\ UNCHANGED << requests, num_blocks, state >>
    BY <1>4 DEF Ask, At, Waits, vars, tcb, manager
  <2> QED BY <1>4, <2>1, NextOperation
<1>5. CASE Ask(t) /\ SemDown(t, s_access) /\ Goto(t, "append")
  <2>1. /\ t \in Clients /\ UNCHANGED << at, num_blocks, requests >> /\ place[t] = "call"
        /\ place' = [place EXCEPT ![t] = "append"]
        /\ state' \in {state, [state EXCEPT ![t] = "SUSPENDED"]}
    BY <1>5 DEF Ask, At, Goto, manager, SemDown, Suspend
  <2>2. NoneEnds
    BY <1>1, <2>1, SetStateEndsNobody
  <2>3. \A u \in Clients : InService(u)' <=> InService(u)
    BY <1>1, <2>1, ServiceKeep
  <2>4. place'[Main] = place[Main]
    BY <1>1, <2>1 DEF ManagerTypes
  <2> QED BY <1>1, <2>1, <2>2, <2>3, <2>4, CallsKeep DEF Booting
<1>6. CASE WakeForRequest(t) \/ Ready(t) \/ Enqueue(t) \/ Up(t) \/ Mark(t)
           \/ RemoveSelf(t) \/ Yield(t)
  <2>1. /\ UNCHANGED << at, num_blocks, requests >>
        /\ \/ UNCHANGED place
           \/ \E p \in ServicePlaces \cup {"clear", "down"} :
                place' = [place EXCEPT ![t] = p] /\ (t \in Clients => p \in ServicePlaces)
    BY <1>1, <1>6
    DEF WakeForRequest, Ready, Enqueue, Up, Mark, RemoveSelf, Yield, Goto, manager, code,
        ServicePlaces
  <2>2. t \in Clients => InService(t)
    BY <1>1, <1>6 DEF WakeForRequest, Ready, Enqueue, Up, Mark, RemoveSelf, Yield, At,
                      InService, ServicePlaces
  <2>3. place'[Main] = place[Main] /\ \A u \in Clients : InService(u)' <=> InService(u)
    <3>1. CASE UNCHANGED place
      BY <3>1 DEF InService
    <3>2. ASSUME NEW p, place' = [place EXCEPT ![t] = p], t \in Clients => p \in ServicePlaces
          PROVE  /\ place'[Main] = place[Main]
                 /\ \A u \in Clients : InService(u)' <=> InService(u)
      BY <1>1, <2>2, <3>2, PlacesMove, ServiceKeep
    <3> QED BY <2>1, <3>1, <3>2
  <2>4. NoneEnds
    <3>1. CASE Up(t)
      <4>1. CASE NoWaiter
        BY <1>1, <3>1, <4>1, SetStateEndsNobody DEF Up, vars, tcb
      <4>2. CASE ~NoWaiter
        <5>1. SemUp(t, s_access)
          BY <3>1, <4>2 DEF Up
        <5>2. \/ state' = state
              \/ \E e \in Tasks : state' = [state EXCEPT ![e] = "READY"]
          BY <1>1, <4>2, <5>1, UpEffect
        <5> QED BY <1>1, <5>2, SetStateEndsNobody
      <4> QED BY <4>1, <4>2
    <3>2. CASE Ready(t)
      <4>1. Woken(t) \in Tasks /\ state' = [state EXCEPT ![Woken(t)] = "READY"]
        BY <3>2, WokenLives DEF Ready, At, SetReady, CountInv
      <4> QED BY <1>1, <4>1, SetStateEndsNobody
    <3>3. CASE WakeForRequest(t) \/ Enqueue(t) \/ Mark(t) \/ RemoveSelf(t) \/ Yield(t)
      <4>1. state' \in {state, [state EXCEPT ![t] = "SUSPENDED"]}
        BY <3>3 DEF WakeForRequest, Enqueue, PutReady, Mark, RemoveSelf, Yield, TaskYield,
                    vars, tcb
      <4> QED BY <1>1, <4>1, SetStateEndsNobody
    <3> QED BY <1>6, <3>1, <3>2, <3>3
  <2> QED BY <1>1, <2>1, <2>3, <2>4, CallsKeep DEF Booting
<1> QED BY <1>2, <1>3, <1>4, <1>5, <1>6 DEF TaskStep, Ask

LEMMA BootCalls ==
  ASSUME CallsInv, CountInv, ManagerInit
  PROVE  CallsInv'
<1>1. /\ Base /\ ManagerTypes /\ TaskTypes /\ Main \in Tasks /\ Driver \in Tasks /\ Booting
      /\ Main \notin Clients /\ \A i \in DOMAIN mover : mover[i] \in Clients
      /\ Clients \subseteq Tasks
  BY DiskNames DEF CountInv, Base, ManagerInit, InitDisk, UncountDriver, CreateAccess,
                   InitFields, At, Booting
<1>2. /\ requests = << >> /\ requests' = << >> /\ UNCHANGED at
      /\ state' \in {state, [state EXCEPT ![Driver] = "READY"]}
      /\ \E p : place' = [place EXCEPT ![Main] = p]
  <2>1. requests = << >>
    BY <1>1, BootingRunner
  <2> QED BY <2>1 DEF ManagerInit, InitDisk, UncountDriver, CreateAccess, InitFields, Goto,
             TaskCreate, manager, tcb
<1>3. NoneEnds /\ \A u \in Clients : InService(u)' <=> InService(u)
  <2>1. PICK p : place' = [place EXCEPT ![Main] = p]
    BY <1>2
  <2> QED BY <1>1, <1>2, <2>1, ServiceKeep, SetStateEndsNobody
<1>4. CASE InitDisk
  <2>1. num_blocks' = NumBlocks
    BY <1>4 DEF InitDisk, disk_init, disk_size
  <2> QED BY <1>1, <1>2, <1>3, <2>1 DEF CallsInv, NoneEnds
<1>5. CASE UncountDriver \/ CreateAccess \/ InitFields
  <2>1. UNCHANGED num_blocks /\ place[Main] # "boot"
    BY <1>5 DEF UncountDriver, CreateAccess, InitFields, At, manager
  <2> QED BY <1>1, <1>2, <1>3, <2>1, CallsKeep
<1> QED BY <1>4, <1>5 DEF ManagerInit

(* Main goes on to its next client. *)
LEMMA MainGoesOn ==
  ASSUME CallsInv, CountInv, Programs, NextCall(Main), At(Main, "call"), NoneEnds,
         \A i \in DOMAIN mover : i < at[Main] + 1 =>
           i < at[Main] \/ state'[mover[i]] # "TERM"
  PROVE  CallsInv'
<1>1. /\ Base /\ ManagerTypes /\ Main \in Tasks /\ Main \notin Clients /\ Clients \subseteq Tasks
      /\ \A i \in DOMAIN mover : mover[i] \in Clients
      /\ UNCHANGED << requests, num_blocks, place >> /\ place[Main] = "call"
      /\ current = Main
  BY DiskNames, ProgramsKeep DEF CountInv, Base, manager, At, Running
<1>2. /\ at'[Main] = at[Main] + 1 /\ \A u \in Clients : at'[u] = at[u]
      /\ at[Main] \in Nat
  BY <1>1, NextCallAt DEF ManagerTypes
<1>3. \A i \in DOMAIN requests : requests[i] = RequestOf(Asker(i))'
  <2>1. \A i \in DOMAIN requests : Asker(i) \in Clients /\ Asker(i)' = Asker(i)
    BY <1>1, AskerClient DEF Asker
  <2> QED BY <1>2, <2>1 DEF CallsInv, RequestOf, Call
<1>4. state[Main] # "TERM"
  BY <1>1, Runner
<1> QED BY <1>1, <1>2, <1>3, <1>4 DEF CallsInv, NoneEnds, Booting, InService

(* A task ends where its program does. *)
LEMMA ExitCalls ==
  ASSUME CallsInv, CountInv, Programs, UNCHANGED code, NEW t \in Clients \cup {Main},
         TaskExit(t, 0),
         t \in Clients => at[t] = Len(Program[t]) + 1,
         t = Main => at[Main] = 2 * Len(mover) + 1
  PROVE  CallsInv'
<1>1. /\ ManagerTypes /\ TaskTypes /\ t \in Tasks /\ UNCHANGED << requests, num_blocks, place, at >>
      /\ Main \in Tasks /\ Main \notin Clients
      /\ \A i \in DOMAIN mover : mover[i] \in Clients /\ mover[i] \in Tasks
  BY DiskNames, ProgramsKeep DEF CountInv, Base, manager, code
<1>2. \A u \in Tasks \ {t} : state'[u] = state[u]
  BY <1>1 DEF TaskExit, TaskTypes
<1> QED BY <1>1, <1>2 DEF CallsInv, RequestOf, Call, Asker, Booting, InService

LEMMA ProgramsCalls ==
  ASSUME CallsInv, CountInv, Programs
  PROVE  CallsInv'
<1>1. /\ Base /\ ManagerTypes /\ TaskTypes /\ Main \in Tasks /\ Main \notin Clients
      /\ Clients \subseteq Tasks
      /\ \A i \in DOMAIN mover : mover[i] \in Clients
      /\ UNCHANGED << requests, num_blocks, place >>
      /\ DOMAIN mover = 1..Len(mover) /\ Len(mover) \in Nat /\ at[Main] \in Nat
  <2>1. mover \in Seq(Tasks \ {Main, Driver})
    BY DiskManagerAssumption
  <2>2. DOMAIN mover = 1..Len(mover) /\ Len(mover) \in Nat
    BY <2>1
  <2> QED BY <2>2, DiskNames, ProgramsKeep DEF CountInv, Base, manager, ManagerTypes
<1>2. ASSUME NEW i \in DOMAIN mover, at[Main] = i, TaskCreate(Main, mover[i]),
             NextCall(Main), At(Main, "call")
      PROVE  CallsInv'
  <2>1. mover[i] \in Tasks /\ state' = [state EXCEPT ![mover[i]] = "READY"]
    BY <1>1, <1>2 DEF TaskCreate
  <2>2. NoneEnds
    BY <1>1, <2>1, SetStateEndsNobody
  <2>3. state'[mover[i]] = "READY"
    BY <1>1, <2>1 DEF TaskTypes
  <2> QED BY <1>1, <1>2, <2>2, <2>3, MainGoesOn
<1>3. ASSUME NEW i \in DOMAIN mover, at[Main] = Len(mover) + i, NextCall(Main),
             At(Main, "call"), TaskJoin(Main, mover[i]) \/ TaskJoinEnded(Main, mover[i])
      PROVE  CallsInv'
  <2>1. state' \in {state, [state EXCEPT ![Main] = "SUSPENDED"]}
    BY <1>3 DEF TaskJoin, TaskJoinEnded, Suspend, tcb
  <2>2. NoneEnds
    BY <1>1, <2>1, SetStateEndsNobody
  <2> QED BY <1>1, <1>3, <2>2, MainGoesOn
<1>4. CASE TaskJoinReturn(Main) /\ UNCHANGED code
  <2>1. UNCHANGED << state, at >>
    BY <1>4 DEF TaskJoinReturn, tcb, code
  <2> QED BY <1>1, <2>1, CallsKeep DEF NoneEnds, Booting, InService
<1>5. CASE at[Main] = 2 * Len(mover) + 1 /\ TaskExit(Main, 0) /\ UNCHANGED code
  BY <1>1, <1>5, ExitCalls
<1>6. ASSUME NEW t \in Clients, ClientExit(t) PROVE CallsInv'
  BY <1>1, <1>6, ExitCalls DEF ClientExit
<1> QED BY <1>2, <1>3, <1>4, <1>5, <1>6 DEF Programs, MainProgram

LEMMA CallsStep == CallsInv /\ CountInv /\ [DMNext]_dmVars => CallsInv'
<1> SUFFICES ASSUME CallsInv, CountInv, [DMNext]_dmVars PROVE CallsInv'
  OBVIOUS
<1>1. CASE Still
  <2>1. UNCHANGED << at, num_blocks, requests, place, state >> /\ ManagerTypes
    BY <1>1, StillSame DEF manager, CountInv, Base
  <2> QED BY <2>1, CallsKeep DEF NoneEnds, Booting, InService
<1>2. CASE DMStep
  BY <1>2, KernelCalls, DeviceCalls, DriverCalls, TaskStepCalls, BootCalls, ProgramsCalls
  DEF DMStep
<1> QED BY <1>1, <1>2, Split

LEMMA InitCalls == DMInit => CallsInv
<1> SUFFICES ASSUME DMInit PROVE CallsInv
  OBVIOUS
<1>1. /\ requests = << >> /\ at = [t \in Tasks |-> 1] /\ place[Main] = "boot"
      /\ \A t \in Clients : place[t] = "call" /\ at[t] = 1 /\ Len(Program[t]) \in Nat
      /\ at[Main] = 1 /\ state[Main] = "READY"
      /\ \A i \in DOMAIN mover : i \in Nat /\ i >= 1
  <2> DEFINE R == [op_type : {"READ", "WRITE"}, block : Int, buffer : Buffers]
  <2>1. \A t \in Clients : Program[t] \in Seq(R)
    BY DiskManagerAssumption
  <2>2. mover \in Seq(Tasks \ {Main, Driver})
    BY DiskManagerAssumption
  <2> HIDE DEF R
  <2>3. \A t \in Clients : Len(Program[t]) \in Nat
    BY <2>1
  <2>4. \A i \in DOMAIN mover : i \in Nat /\ i >= 1
    BY <2>2
  <2> QED BY <2>3, <2>4, DiskNames DEF DMInit, Init
<1> QED BY <1>1 DEF CallsInv, InService, ServicePlaces

LEMMA AlwaysCalls == DMSpec => []CallsInv
BY InitCalls, CallsStep, AlwaysCount, PTL DEF DMSpec
-----------------------------------------------------------------------------
(* The blocks the movers exchange. *)
PerTask == M!blocksPerTask
Numbers == 0..(NUMTASKS - 1)
Share   == 0..(PerTask - 1)
Half    == NUMTASKS * PerTask

Orig(n, i) == n * PerTask + i
Dest(n, i) == NumBlocks - 1 - Orig(n, i)

LEMMA Products ==
  ASSUME NEW a \in Nat, NEW b \in Nat, NEW c \in Nat, a < b
  PROVE  a * c + c <= b * c
<1>1. b - a - 1 \in Nat
  OBVIOUS
<1>2. PICK d \in Nat : b = a + 1 + d
  BY <1>1
<1>3. b * c = a * c + c + d * c
  BY <1>2
<1>4. d * c >= 0 /\ a * c \in Nat
  OBVIOUS
<1> QED BY <1>3, <1>4

LEMMA Sizes ==
  /\ NumBlocks \in Nat /\ NUMTASKS \in Nat \ {0} /\ PerTask \in Nat /\ Half \in Nat
  /\ NumBlocks - 2 * Half \in {0, 1}
  /\ \A n \in Numbers : mover[n + 1] \in Clients
  /\ \A n, m \in Numbers : mover[n + 1] = mover[m + 1] => n = m
<1>1. NumBlocks \in Nat /\ NUMTASKS \in Nat \ {0} /\ NUMTASKS \in 1..Len(mover)
  <2>1. Len(mover) \in Nat
    <3>1. mover \in Seq(Tasks \ {Main, Driver})
      BY DiskManagerAssumption
    <3> QED BY <3>1
  <2> QED BY <2>1, DiskAssumption, MoversAssumption
<1>2. PerTask \in Nat
  <2>1. NumBlocks \div NUMTASKS \in Nat
    BY <1>1
  <2> QED BY <2>1 DEF PerTask, M!blocksPerTask
<1>3. NumBlocks - 2 * Half \in {0, 1}
  BY MoversAssumption DEF Half, PerTask
<1>4. Half \in Nat
  BY <1>1, <1>2 DEF Half
<1>5. DOMAIN mover = 1..Len(mover) /\ NoRepeats(mover)
  <2>1. mover \in Seq(Tasks \ {Main, Driver}) /\ NoRepeats(mover)
    BY DiskManagerAssumption
  <2> QED BY <2>1
<1>6. \A n \in Numbers : n + 1 \in DOMAIN mover /\ n \in Nat
  <2>1. Len(mover) \in Nat
    BY <1>5, DiskManagerAssumption
  <2> QED BY <1>1, <1>5, <2>1 DEF Numbers
<1> QED BY <1>1, <1>2, <1>3, <1>4, <1>5, <1>6, DiskNames DEF NoRepeats

(* The movers' blocks are all different, and they are the first Half.      *)
LEMMA PairsApart ==
  /\ \A n \in Numbers, i \in Share : Orig(n, i) \in 0..(Half - 1)
  /\ \A n, m \in Numbers, i, j \in Share : Orig(n, i) = Orig(m, j) => n = m /\ i = j
<1>1. /\ PerTask \in Nat /\ NUMTASKS \in Nat /\ \A n \in Numbers : n \in Nat /\ n < NUMTASKS
      /\ \A i \in Share : i \in Nat /\ i < PerTask
  BY Sizes DEF Numbers, Share
<1>2. \A n \in Numbers : n * PerTask \in Nat
  BY <1>1
<1>3. ASSUME NEW n \in Numbers, NEW i \in Share PROVE Orig(n, i) \in 0..(Half - 1)
  <2>1. n * PerTask + PerTask <= Half
    BY <1>1, Products DEF Half
  <2> QED BY <1>1, <1>2, <2>1, Sizes DEF Orig
<1>4. ASSUME NEW n \in Numbers, NEW m \in Numbers, NEW i \in Share, NEW j \in Share,
             Orig(n, i) = Orig(m, j)
      PROVE  n = m /\ i = j
  <2>1. ~(n < m)
    <3>1. n < m => n * PerTask + PerTask <= m * PerTask
      BY <1>1, Products
    <3> QED BY <1>1, <1>2, <1>4, <3>1 DEF Orig
  <2>2. ~(m < n)
    <3>1. m < n => m * PerTask + PerTask <= n * PerTask
      BY <1>1, Products
    <3> QED BY <1>1, <1>2, <1>4, <3>1 DEF Orig
  <2>3. n = m
    BY <1>1, <2>1, <2>2
  <2> QED BY <1>1, <1>2, <1>4, <2>3 DEF Orig
<1> QED BY <1>3, <1>4

LEMMA PairsCover ==
  ASSUME NEW b \in 0..(Half - 1)
  PROVE  \E n \in Numbers, i \in Share : b = Orig(n, i)
<1>1. /\ b \in Nat /\ PerTask \in Nat \ {0} /\ NUMTASKS \in Nat
      /\ b < NUMTASKS * PerTask
  BY Sizes DEF Half
<1> DEFINE n == b \div PerTask
           i == b % PerTask
<1>2. n \in Nat /\ i \in Share /\ b = n * PerTask + i
  BY <1>1 DEF Share
<1> HIDE DEF n, i
<1>3. n < NUMTASKS
  <2>1. NUMTASKS < n => NUMTASKS * PerTask + PerTask <= n * PerTask
    BY <1>1, <1>2, Products
  <2>2. NUMTASKS * PerTask \in Nat /\ n * PerTask \in Nat /\ i \in Nat
    BY <1>1, <1>2 DEF Share
  <2>3. NUMTASKS = n => NUMTASKS * PerTask = n * PerTask
    OBVIOUS
  <2> QED BY <1>1, <1>2, <2>1, <2>2, <2>3
<1>4. n \in Numbers
  BY <1>1, <1>2, <1>3 DEF Numbers
<1> QED BY <1>2, <1>4 DEF Orig

(* The pairs of blocks: the first of each is in the first half of the      *)
(* disk, the second in the other, and no block is in two pairs.            *)
LEMMA BlockNames ==
  /\ \A n \in Numbers, i \in Share :
       Orig(n, i) \in Blocks /\ Dest(n, i) \in Blocks /\ Orig(n, i) < Half
  /\ \A n, m \in Numbers, i, j \in Share : Orig(n, i) # Dest(m, j)
  /\ \A n, m \in Numbers, i, j \in Share :
       Orig(n, i) = Orig(m, j) \/ Dest(n, i) = Dest(m, j) => n = m /\ i = j
<1>1. \A n \in Numbers, i \in Share :
        Orig(n, i) \in 0..(Half - 1) /\ Dest(n, i) = NumBlocks - 1 - Orig(n, i)
  BY PairsApart DEF Dest
<1>2. ASSUME NEW n \in Numbers, NEW m \in Numbers, NEW i \in Share, NEW j \in Share,
             Dest(n, i) = Dest(m, j)
      PROVE  n = m /\ i = j
  <2>1. Orig(n, i) = Orig(m, j)
    BY <1>1, <1>2, Sizes
  <2> QED BY <2>1, PairsApart
<1> QED BY <1>1, <1>2, PairsApart, Sizes DEF Blocks

LEMMA MoverLength ==
  ASSUME NEW n \in Numbers
  PROVE  /\ Program[mover[n + 1]] = M!moverBody(n)
         /\ Len(Program[mover[n + 1]]) = 4 * PerTask
<1>1. Program[mover[n + 1]] = M!moverBody(n) /\ PerTask \in Nat
  BY MoversAssumption, Sizes DEF Numbers
<1> QED BY <1>1 DEF M!moverBody, PerTask

(* The calls of mover n: with call k it works on its pair of number        *)
(* (k - 1) \div 4.                                                         *)
LEMMA MoverCalls ==
  ASSUME NEW n \in Numbers, NEW k \in 1..Len(Program[mover[n + 1]])
  PROVE  LET i == (k - 1) \div 4
             d == k - 1 - 4 * i
             call == Program[mover[n + 1]][k]
         IN /\ i \in Share /\ d \in 0..3
            /\ d = 0 => call = M!disk_block_read(Orig(n, i), M!buffer1(n))
            /\ d = 1 => call = M!disk_block_read(Dest(n, i), M!buffer2(n))
            /\ d = 2 => call = M!disk_block_write(Dest(n, i), M!buffer1(n))
            /\ d = 3 => call = M!disk_block_write(Orig(n, i), M!buffer2(n))
<1> DEFINE i == (k - 1) \div 4
           d == k - 1 - 4 * i
<1>1. Program[mover[n + 1]] = M!moverBody(n) /\ PerTask \in Nat
  BY MoverLength, Sizes
<1>2. Len(Program[mover[n + 1]]) = 4 * PerTask
  BY MoverLength
<1>3. k \in 1..(4 * PerTask) /\ i \in Share /\ d \in 0..3 /\ (k - 1) % 4 = d
  BY <1>1, <1>2 DEF Share
<1>4. Program[mover[n + 1]][k]
        = M!Swap(n, n * PerTask + i, NumBlocks - 1 - (n * PerTask) - i)[d + 1]
  BY <1>1, <1>3 DEF M!moverBody, PerTask
<1>5. n * PerTask \in Nat /\ i \in Nat /\ NumBlocks \in Nat
  BY <1>1, <1>3, Sizes DEF Numbers, Share
<1> HIDE DEF i, d
<1>6. /\ n * PerTask + i = Orig(n, i)
      /\ NumBlocks - 1 - (n * PerTask) - i = Dest(n, i)
  BY <1>5 DEF Orig, Dest
<1>7. Program[mover[n + 1]][k] = M!Swap(n, Orig(n, i), Dest(n, i))[d + 1]
  BY <1>4, <1>6
<1>8. /\ d = 0 => Program[mover[n + 1]][k] = M!disk_block_read(Orig(n, i), M!buffer1(n))
      /\ d = 1 => Program[mover[n + 1]][k] = M!disk_block_read(Dest(n, i), M!buffer2(n))
      /\ d = 2 => Program[mover[n + 1]][k] = M!disk_block_write(Dest(n, i), M!buffer1(n))
      /\ d = 3 => Program[mover[n + 1]][k] = M!disk_block_write(Orig(n, i), M!buffer2(n))
  BY <1>7 DEF M!Swap
<1> QED BY <1>3, <1>8 DEF i, d

(* The other clients only read, and into buffers of their own. *)
LEMMA ReaderCalls ==
  ASSUME NEW t \in Clients, \A n \in Numbers : t # mover[n + 1],
         NEW k \in 1..Len(Program[t])
  PROVE  /\ Program[t][k].op_type = "READ"
         /\ \A n \in Numbers : Program[t][k].buffer \notin {M!buffer1(n), M!buffer2(n)}
<1>1. mover \in Seq(Tasks \ {Main, Driver}) /\ Program[t] \in Seq(
        [op_type : {"READ", "WRITE"}, block : Int, buffer : Buffers])
  BY DiskManagerAssumption
<1>2. DOMAIN mover = 1..Len(mover) /\ Len(mover) \in Nat /\ k \in DOMAIN Program[t]
  BY <1>1
<1>3. PICK i \in DOMAIN mover : t = mover[i]
  BY DEF Clients, ToSet
<1>4. i \notin 1..NUMTASKS
  <2>1. i \in 1..NUMTASKS => i - 1 \in Numbers /\ (i - 1) + 1 = i
    BY Sizes DEF Numbers
  <2> QED BY <1>3, <2>1
<1>5. i \in (NUMTASKS + 1)..Len(mover)
  BY <1>2, <1>3, <1>4, Sizes
<1> QED BY <1>2, <1>3, <1>5, MoversAssumption DEF Numbers
-----------------------------------------------------------------------------
(* How many operations of t the disk has carried out. *)
Done(t) == IF t \in Served THEN at[t] ELSE at[t] - 1

LEMMA ServedIs ==
  /\ {t \in Clients : /\ place[t] \in {"wake", "ready", "enqueue", "up", "mark", "remove",
                                       "yield", "return"}
                      /\ \A i \in DOMAIN Line : Line[i].requester # t} = Served
  /\ {t \in Clients : /\ place[t] \in {"wake", "ready", "enqueue", "up", "mark", "remove",
                                       "yield", "return"}
                      /\ \A i \in DOMAIN Line : Line[i].requester # t}' = Served'
BY DEF Served, InService, InLine, ServicePlaces

LEMMA ProgramOf ==
  ASSUME NEW t \in Clients
  PROVE  /\ Len(Program[t]) \in Nat
         /\ \A k \in 1..Len(Program[t]) :
              Program[t][k] \in [op_type : {"READ", "WRITE"}, block : Int, buffer : Buffers]
<1> DEFINE R == [op_type : {"READ", "WRITE"}, block : Int, buffer : Buffers]
<1>1. Program[t] \in Seq(R)
  BY DiskManagerAssumption
<1> HIDE DEF R
<1>2. Len(Program[t]) \in Nat /\ \A k \in 1..Len(Program[t]) : Program[t][k] \in R
  BY <1>1
<1> QED BY <1>2 DEF R

LEMMA MoverBuffers ==
  ASSUME NEW n \in Numbers, NEW i \in Share
  PROVE  M!buffer1(n) \in Buffers /\ M!buffer2(n) \in Buffers
<1> DEFINE t == mover[n + 1]
<1>1. t \in Clients /\ 1 \in 1..Len(Program[t]) /\ 2 \in 1..Len(Program[t])
  BY MoverLength, Sizes DEF Share
<1>2. Program[t][1].buffer \in Buffers /\ Program[t][2].buffer \in Buffers
  BY <1>1, ProgramOf
<1>3. (1 - 1) \div 4 = 0 /\ (2 - 1) \div 4 = 0
  OBVIOUS
<1>4. Program[t][1] = M!disk_block_read(Orig(n, 0), M!buffer1(n))
  BY <1>1, <1>3, MoverCalls
<1>5. Program[t][2] = M!disk_block_read(Dest(n, 0), M!buffer2(n))
  BY <1>1, <1>3, MoverCalls
<1> QED BY <1>2, <1>4, <1>5 DEF M!disk_block_read

(* The disk carries out operation k of t. *)
Effect(c) ==
  /\ c.op_type = "READ" =>
       memory' = [memory EXCEPT ![c.buffer] = contents[c.block]] /\ UNCHANGED contents
  /\ c.op_type = "WRITE" =>
       contents' = [contents EXCEPT ![c.block] = memory[c.buffer]] /\ UNCHANGED memory

CarriesOut(t, k) ==
  /\ Done(t) = k - 1 /\ Done(t)' = k
  /\ \A u \in Clients \ {t} : Done(u)' = Done(u)
  /\ Effect(Program[t][k])

(* When the disk finishes, it has carried out the next operation of one    *)
(* client.                                                                 *)
LEMMA DiskCarriesOut ==
  ASSUME CountInv, Device, CallsInv, DiskDone
  PROVE  \E t \in Clients : \E k \in 1..Len(Program[t]) : CarriesOut(t, k)
<1> DEFINE h == Head(requests)
<1>1. Line # << >> /\ (Store!Read(Head(Line)) \/ Store!Write(Head(Line)))
      /\ Served' = Served \cup {Head(Line).requester}
  BY DoneServes, ServedIs DEF Store!Serve
<1>2. armed /\ UNCHANGED << requests, at >>
  BY DEF DiskDone, disk_sighandle, manager, code
<1>3. /\ Base /\ requests # << >> /\ ~HeadDone /\ Line = requests
      /\ requests \in Seq(Requests)
  BY <1>2, LineFacts DEF Device, Serves, Busy, HeadDone, CountInv
<1>4. PICK t \in Clients : t = h.requester /\ t = Asker(1) /\ InService(t) /\ h = RequestOf(t)
  <2>1. 1 \in DOMAIN requests /\ h = requests[1]
    BY <1>3, TailAt
  <2>2. Asker(1) \in Clients /\ Waits(Asker(1)) /\ h = RequestOf(Asker(1))
        /\ h.requester = Asker(1)
    BY <1>3, <2>1, AskerClient DEF Asker, CountInv, Base, Requesters, CallsInv
  <2> QED BY <2>2 DEF Waits, InService, ServicePlaces
<1>5. t \notin Served
  <2>1. 1 \in DOMAIN Line /\ Line[1].requester = t
    BY <1>3, <1>4, TailAt DEF Asker
  <2> QED BY <2>1 DEF Served, InLine
<1>6. Served' = Served \cup {t} /\ (Store!Read(h) \/ Store!Write(h))
  BY <1>1, <1>3, <1>4
<1> HIDE DEF h
<1>7. PICK k \in 1..Len(Program[t]) : k = at[t]
  <2>1. at[t] \in Nat \ {0}
    BY <1>3, <1>4, DiskNames DEF Base, ManagerTypes
  <2>2. at[t] <= Len(Program[t])
    BY <1>4 DEF CallsInv
  <2>3. at[t] \in 1..Len(Program[t])
    BY <2>1, <2>2, ProgramOf
  <2> QED BY <2>3
<1>8. /\ Done(t) = k - 1 /\ Done(t)' = k
      /\ \A u \in Clients \ {t} : Done(u)' = Done(u)
  BY <1>2, <1>4, <1>5, <1>6, <1>7 DEF Done
<1>9. h.op_type = Program[t][k].op_type /\ h.block = Program[t][k].block
      /\ h.buffer = Program[t][k].buffer
  BY <1>4, <1>7 DEF RequestOf, Call
<1>10. Effect(Program[t][k])
  BY <1>6, <1>9 DEF Store!Read, Store!Write, Effect
<1> QED BY <1>8, <1>10 DEF CarriesOut

LEMMA StoreStays ==
  ASSUME UNCHANGED Store!vars
  PROVE  UNCHANGED << contents, memory >> /\ Served' = Served
BY ServedIs DEF Store!vars

LEMMA MoverAsks ==
  ASSUME CountInv, CallsInv, NEW n \in Numbers, Ask(mover[n + 1])
  PROVE  UNCHANGED at
<1> DEFINE t == mover[n + 1]
<1>1. t \in Clients /\ t \in Tasks /\ current = t /\ Base
  BY Sizes, DiskNames DEF Ask, At, Running, CountInv
<1>2. num_blocks = NumBlocks
  BY <1>1, BootingRunner DEF CallsInv, Booting
<1>3. at[t] \in 1..Len(Program[t])
  BY <1>1, ProgramOf DEF Ask, Base, ManagerTypes
<1>4. Call(t).block \in Blocks
  <2> DEFINE i == (at[t] - 1) \div 4
             d == at[t] - 1 - 4 * i
  <2>1. /\ i \in Share /\ d \in 0..3
        /\ d = 0 => Call(t) = M!disk_block_read(Orig(n, i), M!buffer1(n))
        /\ d = 1 => Call(t) = M!disk_block_read(Dest(n, i), M!buffer2(n))
        /\ d = 2 => Call(t) = M!disk_block_write(Dest(n, i), M!buffer1(n))
        /\ d = 3 => Call(t) = M!disk_block_write(Orig(n, i), M!buffer2(n))
    BY <1>3, MoverCalls DEF Call
  <2> HIDE DEF i, d
  <2>2. Call(t).block \in {Orig(n, i), Dest(n, i)}
    BY <2>1 DEF M!disk_block_read, M!disk_block_write
  <2> QED BY <2>1, <2>2, BlockNames
<1>5. InRange(t)
  BY <1>2, <1>4 DEF InRange, Blocks
<1> QED BY <1>5 DEF Ask, Goto

(* Nothing else changes a block, a buffer or the count of a mover. *)
LEMMA ElseNothing ==
  ASSUME CountInv, Device, Waiters, CallsInv, DMStep \/ Still, ~DiskDone, ~DownRace
  PROVE  /\ UNCHANGED << contents, memory >>
         /\ \A n \in Numbers : Done(mover[n + 1])' = Done(mover[n + 1])
<1> DEFINE Unmoved == /\ UNCHANGED << contents, memory >>
                      /\ \A n \in Numbers : Done(mover[n + 1])' = Done(mover[n + 1])
<1>1. ASSUME UNCHANGED Store!vars, \A u \in Clients : at'[u] = at[u] PROVE Unmoved
  BY <1>1, StoreStays, Sizes DEF Done
<1>2. CASE KernelStep \/ Still
  <2>1. UNCHANGED << contents, memory, requests, sig_disk, handling, place, at >>
    BY <1>2 DEF KernelStep, Still, device, manager, code
  <2> QED BY <1>1, <2>1, LineKeep, StoreKeep DEF InService, Taken
<1>3. CASE DriverStep \/ wake_driver \/ ManagerInit
  <2>1. UNCHANGED at
    BY <1>3 DEF DriverStep, DriverDown, DownSignalled, DriverTest, Finish, ClearSignal,
                DriverCommand, wake_driver, SetSignal, ReadyDriver, AppendDriver, ManagerInit,
                InitDisk, UncountDriver, CreateAccess, InitFields, Goto, code
  <2> QED BY <1>1, <1>3, <2>1, DriverStepStore, SignalStore, BootStore
<1>4. CASE Programs
  <2>1. \A u \in Clients : at'[u] = at[u]
    BY <1>4, ProgramsKeep, DiskNames DEF CountInv
  <2> QED BY <1>1, <1>4, <2>1, ProgramsStore
<1>5. ASSUME NEW t \in Clients \cup {Driver}, TaskStep(t) PROVE Unmoved
  <2>1. /\ Base /\ t \in Tasks /\ Driver \notin Clients /\ place[t] \in PlacesOf(t)
        /\ Clients \subseteq Tasks /\ ManagerTypes
    BY DiskNames DEF CountInv, Base, Rest, Roles
  <2>2. CASE Return(t)
    <3>1. /\ t \in Clients /\ current = t /\ place[t] = "return" /\ NextCall(t)
          /\ UNCHANGED << contents, memory >>
      BY <2>1, <2>2 DEF Return, At, PlacesOf, Running, device
    <3>2. t \in In(UserQ) /\ ~Waits(t)
      BY <2>1, <3>1, Runner DEF Waits
    <3>3. t \in Served
      BY <3>1, <3>2, LineFacts DEF Served, InService, ServicePlaces
    <3>4. t \notin Served'
      BY <2>1, <3>1 DEF NextCall, Served, InService, ServicePlaces, ManagerTypes
    <3>5. \E u \in Served : Served' = Served \ {u}
      BY <2>2, <3>1, ReturnReturns, ServedIs DEF Store!Return
    <3>6. Served' = Served \ {t}
      BY <3>3, <3>4, <3>5
    <3>7. at'[t] = at[t] + 1 /\ at[t] \in Nat /\ \A u \in Clients \ {t} : at'[u] = at[u]
      BY <2>1, <3>1, NextCallAt DEF ManagerTypes
    <3>8. \A u \in Clients : Done(u)' = Done(u)
      BY <3>3, <3>6, <3>7 DEF Done
    <3> QED BY <3>1, <3>8, Sizes
  <2>3. CASE EnterQueue(t)
    <3>1. t \in Clients /\ UNCHANGED at
      BY <2>1, <2>3 DEF EnterQueue, At, PlacesOf, Goto
    <3>2. UNCHANGED << contents, memory >> /\ Served' = Served
      BY <2>3, <3>1, EnterAsks, ServedIs DEF Store!Ask
    <3> QED BY <3>1, <3>2 DEF Done
  <2>4. CASE Ask(t)
    <3>1. /\ t \in Clients /\ t # Driver
          /\ UNCHANGED << contents, memory, requests, sig_disk, handling >>
          /\ place[t] = "call"
          /\ \E p \in {"call", "append"} : place' = [place EXCEPT ![t] = p]
          /\ UNCHANGED at \/ NextCall(t)
      BY <2>1, <2>4 DEF Ask, At, Goto, NextCall, device, manager
    <3>2. UNCHANGED Store!vars
      BY <2>1, <3>1, PlacesMove, LineKeep, ServiceKeep, StoreKeep DEF Taken
    <3>3. \A n \in Numbers : at'[mover[n + 1]] = at[mover[n + 1]]
      <4> SUFFICES ASSUME NEW n \in Numbers PROVE at'[mover[n + 1]] = at[mover[n + 1]]
        OBVIOUS
      <4>1. CASE t = mover[n + 1]
        BY <2>4, <4>1, MoverAsks
      <4>2. CASE t # mover[n + 1]
        BY <2>1, <3>1, <4>2, NextCallAt, Sizes
      <4> QED BY <4>1, <4>2
    <3> QED BY <3>2, <3>3, StoreStays DEF Done
  <2>5. CASE WakeForRequest(t) \/ Ready(t) \/ Enqueue(t) \/ Up(t) \/ Mark(t)
             \/ RemoveSelf(t) \/ Yield(t)
    <3>1. UNCHANGED << contents, memory, at >>
      BY <2>5 DEF WakeForRequest, Ready, Enqueue, Up, Mark, RemoveSelf, Yield, Goto,
                  device, code
    <3>2. ~EnterQueue(t) /\ ~Return(t)
      BY <2>5 DEF WakeForRequest, Ready, Enqueue, Up, Mark, RemoveSelf, Yield, EnterQueue,
                  Return, At
    <3> QED BY <1>1, <1>5, <3>1, <3>2, TaskStepQuiet
  <2> QED BY <1>5, <2>2, <2>3, <2>4, <2>5 DEF TaskStep
<1> QED BY <1>2, <1>3, <1>4, <1>5 DEF DMStep
-----------------------------------------------------------------------------
(* Pair i of mover n, when d of its four operations have been carried out  *)
(* (none if d < 0, all if d > 4): both blocks read, then both written.     *)
PairIs(n, i, d) ==
  /\ contents[Orig(n, i)] = IF d >= 4 THEN Dest(n, i) ELSE Orig(n, i)
  /\ contents[Dest(n, i)] = IF d >= 3 THEN Orig(n, i) ELSE Dest(n, i)
  /\ d \in {1, 2} => memory[M!buffer1(n)] = Orig(n, i)
  /\ d \in {2, 3} => memory[M!buffer2(n)] = Dest(n, i)

SwapInv ==
  /\ \A n \in Numbers, i \in Share : PairIs(n, i, Done(mover[n + 1]) - 4 * i)
  /\ \A b \in Blocks : Half <= b /\ Half <= NumBlocks - 1 - b => contents[b] = b

(* Call k of mover n is carried out: what becomes of each pair. *)
LEMMA MoverSwaps ==
  ASSUME SwapInv, ManagerTypes, NEW n \in Numbers, NEW k \in 1..Len(Program[mover[n + 1]]),
         CarriesOut(mover[n + 1], k)
  PROVE  SwapInv'
<1> DEFINE i == (k - 1) \div 4
           d == k - 1 - 4 * i
           o == Orig(n, i)
           e == Dest(n, i)
           one == M!buffer1(n)
           two == M!buffer2(n)
           call == Program[mover[n + 1]][k]
<1> HIDE DEF call
<1>1. /\ Done(mover[n + 1]) = k - 1 /\ Done(mover[n + 1])' = k /\ Effect(call)
      /\ \A m \in Numbers \ {n} : Done(mover[m + 1])' = Done(mover[m + 1])
  <2>1. \A m \in Numbers \ {n} : mover[m + 1] \in Clients \ {mover[n + 1]}
    BY Sizes
  <2> QED BY <2>1 DEF CarriesOut, call
<1>2. /\ i \in Share /\ i \in Nat /\ d \in 0..3 /\ k \in Nat /\ k - 1 = d + 4 * i
      /\ d = 0 => call = M!disk_block_read(o, one)
      /\ d = 1 => call = M!disk_block_read(e, two)
      /\ d = 2 => call = M!disk_block_write(e, one)
      /\ d = 3 => call = M!disk_block_write(o, two)
  <2>1. k \in Nat
    BY MoverLength, Sizes
  <2>2. /\ i \in Share /\ d \in 0..3
        /\ d = 0 => call = M!disk_block_read(o, one)
        /\ d = 1 => call = M!disk_block_read(e, two)
        /\ d = 2 => call = M!disk_block_write(e, one)
        /\ d = 3 => call = M!disk_block_write(o, two)
    BY MoverCalls DEF call
  <2>3. i \in Nat
    BY <2>2 DEF Share
  <2> QED BY <2>1, <2>2, <2>3
<1>3. /\ contents \in [Blocks -> Blocks \cup {NoData}]
      /\ memory \in [Buffers -> Blocks \cup {NoData}]
      /\ o \in Blocks /\ e \in Blocks /\ o # e /\ one # two
      /\ one \in Buffers /\ two \in Buffers
  BY <1>2, BlockNames, MoverBuffers DEF ManagerTypes, M!buffer1, M!buffer2
<1>4. PairIs(n, i, d)
  <2>1. Done(mover[n + 1]) - 4 * i = d
    BY <1>1, <1>2
  <2> QED BY <1>2, <2>1 DEF SwapInv
<1> HIDE DEF i, d, o, e, one, two
<1>5. /\ d = 0 => UNCHANGED contents /\ memory' = [memory EXCEPT ![one] = contents[o]]
      /\ d = 1 => UNCHANGED contents /\ memory' = [memory EXCEPT ![two] = contents[e]]
      /\ d = 2 => UNCHANGED memory /\ contents' = [contents EXCEPT ![e] = memory[one]]
      /\ d = 3 => UNCHANGED memory /\ contents' = [contents EXCEPT ![o] = memory[two]]
  <2>1. CASE d = 0
    BY <1>1, <1>2, <2>1 DEF Effect, M!disk_block_read
  <2>2. CASE d = 1
    BY <1>1, <1>2, <2>2 DEF Effect, M!disk_block_read
  <2>3. CASE d = 2
    BY <1>1, <1>2, <2>3 DEF Effect, M!disk_block_write
  <2>4. CASE d = 3
    BY <1>1, <1>2, <2>4 DEF Effect, M!disk_block_write
  <2> QED BY <2>1, <2>2, <2>3, <2>4
<1>6. /\ contents[o] = o
      /\ contents[e] = IF d >= 3 THEN o ELSE e
      /\ d \in {1, 2} => memory[one] = o
      /\ d \in {2, 3} => memory[two] = e
  BY <1>2, <1>4 DEF PairIs, o, e, one, two
<1>7. /\ contents'[o] = IF d + 1 >= 4 THEN e ELSE o
      /\ contents'[e] = IF d + 1 >= 3 THEN o ELSE e
      /\ d + 1 \in {1, 2} => memory'[one] = o
      /\ d + 1 \in {2, 3} => memory'[two] = e
      /\ \A b \in Blocks \ {o, e} : contents'[b] = contents[b]
      /\ \A b \in Buffers \ {one, two} : memory'[b] = memory[b]
  <2>1. CASE d = 0
    BY <1>3, <1>5, <1>6, <2>1
  <2>2. CASE d = 1
    BY <1>3, <1>5, <1>6, <2>2
  <2>3. CASE d = 2
    BY <1>3, <1>5, <1>6, <2>3
  <2>4. CASE d = 3
    BY <1>3, <1>5, <1>6, <2>4
  <2> QED BY <1>2, <2>1, <2>2, <2>3, <2>4
<1>8. ASSUME NEW m \in Numbers, NEW j \in Share
      PROVE  PairIs(m, j, Done(mover[m + 1]) - 4 * j)'
  <2>1. CASE m = n /\ j = i
    <3>1. Done(mover[m + 1])' - 4 * j = d + 1
      BY <1>1, <1>2, <2>1
    <3>2. PairIs(n, i, d + 1)'
      BY <1>7 DEF PairIs, o, e, one, two
    <3> QED BY <2>1, <3>1, <3>2 DEF PairIs
  <2>2. CASE m # n \/ j # i
    <3>1. PairIs(m, j, Done(mover[m + 1]) - 4 * j)
      BY DEF SwapInv
    <3>2. /\ Orig(m, j) \in Blocks \ {o, e} /\ Dest(m, j) \in Blocks \ {o, e}
      BY <1>2, <2>2, BlockNames DEF o, e
    <3>3. contents'[Orig(m, j)] = contents[Orig(m, j)]
          /\ contents'[Dest(m, j)] = contents[Dest(m, j)]
      BY <1>7, <3>2
    <3>4. CASE m # n
      <4>1. M!buffer1(m) \notin {one, two} /\ M!buffer2(m) \notin {one, two}
        BY <3>4 DEF M!buffer1, M!buffer2, one, two
      <4>2. /\ memory'[M!buffer1(m)] = memory[M!buffer1(m)]
            /\ memory'[M!buffer2(m)] = memory[M!buffer2(m)]
        BY <1>7, <4>1, MoverBuffers
      <4> QED BY <1>1, <3>1, <3>3, <3>4, <4>2 DEF PairIs
    <3>5. CASE m = n
      <4>1. j \in Nat /\ j # i /\ Done(mover[m + 1]) = k - 1 /\ Done(mover[m + 1])' = k
        BY <1>1, <2>2, <3>5 DEF Share
      <4>2. \/ k - 1 - 4 * j >= 4 /\ k - 4 * j >= 4
            \/ k - 1 - 4 * j < 0 /\ k - 4 * j <= 0
        BY <1>2, <4>1
      <4> QED BY <1>2, <3>1, <3>3, <4>1, <4>2 DEF PairIs
    <3> QED BY <3>4, <3>5
  <2> QED BY <2>1, <2>2
<1>9. ASSUME NEW b \in Blocks, Half <= b, Half <= NumBlocks - 1 - b PROVE contents'[b] = b
  <2>1. o < Half /\ e = NumBlocks - 1 - o /\ o \in Blocks
    BY <1>2, BlockNames DEF o, e, Dest
  <2>2. b \notin {o, e}
    BY <1>9, <2>1, Sizes DEF Blocks
  <2> QED BY <1>7, <1>9, <2>2 DEF SwapInv
<1> QED BY <1>8, <1>9 DEF SwapInv

LEMMA SwapStep ==
  ASSUME SwapInv, CallsInv, CountInv, Device, Waiters, DMStep \/ Still, ~DownRace
  PROVE  SwapInv'
<1>1. CASE ~DiskDone
  BY <1>1, ElseNothing DEF SwapInv, PairIs
<1>2. CASE DiskDone
  <2>1. PICK t \in Clients : \E k \in 1..Len(Program[t]) : CarriesOut(t, k)
    BY <1>2, DiskCarriesOut
  <2>2. ManagerTypes
    BY DEF CountInv, Base
  <2>3. CASE \E n \in Numbers : t = mover[n + 1]
    <3>1. PICK n \in Numbers : t = mover[n + 1]
      BY <2>3
    <3> QED BY <2>1, <2>2, <3>1, MoverSwaps
  <2>4. CASE \A n \in Numbers : t # mover[n + 1]
    <3>1. PICK k \in 1..Len(Program[t]) : CarriesOut(t, k)
      BY <2>1
    <3>2. /\ Program[t][k].op_type = "READ"
          /\ \A n \in Numbers : Program[t][k].buffer \notin {M!buffer1(n), M!buffer2(n)}
      BY <2>4, ReaderCalls
    <3>3. /\ contents' = contents
          /\ \A n \in Numbers, i \in Share :
               /\ memory'[M!buffer1(n)] = memory[M!buffer1(n)]
               /\ memory'[M!buffer2(n)] = memory[M!buffer2(n)]
      BY <2>2, <3>1, <3>2, MoverBuffers DEF ManagerTypes, CarriesOut, Effect
    <3>4. \A n \in Numbers : mover[n + 1] \in Clients \ {t}
      BY <2>4, Sizes
    <3>5. \A n \in Numbers : Done(mover[n + 1])' = Done(mover[n + 1])
      BY <3>1, <3>4 DEF CarriesOut
    <3> QED BY <3>3, <3>5 DEF SwapInv, PairIs
  <2> QED BY <2>3, <2>4
<1> QED BY <1>1, <1>2

LEMMA InitSwap == DMInit => SwapInv
<1> SUFFICES ASSUME DMInit PROVE SwapInv
  OBVIOUS
<1>1. /\ contents = [b \in Blocks |-> b]
      /\ \A t \in Clients : place[t] = "call" /\ at[t] = 1
  BY DiskNames DEF DMInit, DiskInit
<1>2. \A n \in Numbers : Done(mover[n + 1]) = 0
  BY <1>1, Sizes DEF Done, Served, InService, ServicePlaces
<1>3. \A n \in Numbers, i \in Share : PairIs(n, i, Done(mover[n + 1]) - 4 * i)
  <2> SUFFICES ASSUME NEW n \in Numbers, NEW i \in Share
               PROVE  PairIs(n, i, Done(mover[n + 1]) - 4 * i)
    OBVIOUS
  <2>1. i \in Nat /\ Done(mover[n + 1]) - 4 * i <= 0
    BY <1>2 DEF Share
  <2>2. Done(mover[n + 1]) - 4 * i \in Int
    BY <1>2, <2>1
  <2> QED BY <1>1, <2>1, <2>2, BlockNames DEF PairIs
<1> QED BY <1>1, <1>3 DEF SwapInv

(* When the process ends, every mover has had its last operation.          *)
LEMMA AllDone ==
  ASSUME CountInv, CallsInv, dpc = "halted", NEW n \in Numbers
  PROVE  Done(mover[n + 1]) = Len(Program[mover[n + 1]])
<1>1. UserTasks = {}
  BY TasksFinite, FS_EmptySet DEF CountInv, Count, Extra
<1>2. \A t \in Tasks \ {Driver} : state[t] = "TERM"
  BY <1>1 DEF UserTasks, Alive
<1>3. /\ mover[n + 1] \in Clients /\ n + 1 \in DOMAIN mover /\ Len(mover) \in Nat
      /\ n + 1 < 2 * Len(mover) + 1
  <2>1. mover \in Seq(Tasks \ {Main, Driver})
    BY DiskManagerAssumption
  <2>2. DOMAIN mover = 1..Len(mover) /\ Len(mover) \in Nat
    BY <2>1
  <2> QED BY <2>2, Sizes, MoversAssumption DEF Numbers
<1>4. at[Main] = 2 * Len(mover) + 1
  BY <1>2, DiskNames DEF CallsInv
<1>5. at[mover[n + 1]] = Len(Program[mover[n + 1]]) + 1 /\ Len(Program[mover[n + 1]]) \in Nat
  BY <1>2, <1>3, <1>4, DiskNames, ProgramOf DEF CallsInv
<1>6. mover[n + 1] \notin Served
  BY <1>3, <1>5 DEF CallsInv, Served
<1> QED BY <1>5, <1>6 DEF Done

LEMMA AlwaysSwap == DMSpec => [](Intact => SwapInv)
<1>1. DMInit => (Intact => SwapInv)
  BY InitSwap
<1>2. /\ (Intact => SwapInv) /\ CallsInv /\ CountInv /\ AccInv /\ DevInv
      /\ [DMNext]_dmVars
      => (Intact => SwapInv)'
  <2> SUFFICES ASSUME Intact => SwapInv, CallsInv, CountInv, AccInv, DevInv,
                      [DMNext]_dmVars, Intact'
               PROVE  SwapInv'
    OBVIOUS
  <2>1. SwapInv /\ Device /\ Waiters
    BY IntactBefore DEF AccInv, Access, DevInv
  <2>2. CASE Still
    <3>1. ~DownRace /\ ~DiskDone
      <4>1. place' = place /\ device' = device
        BY <2>2, StillSame
      <4>2. armed' = armed
        BY <4>1 DEF device, pending
      <4> QED BY <4>2 DEF DownRace, Completion, DiskDone, disk_sighandle, pending
    <3> QED BY <2>1, <2>2, <3>1, SwapStep
  <2> QED BY <2>1, <2>2, IntactBefore, SwapStep
<1> QED BY <1>1, <1>2, AlwaysCalls, AlwaysCount, AlwaysAcc, AlwaysDev, PTL DEF DMSpec

(* pingpong-disco2.c turns the disk end for end: when it ends every block  *)
(* holds what the block at the other end held, for any number of movers,   *)
(* any disk they divide among them and any clients that only read          *)
(* meanwhile, however the tasks, the driver and the signals interleave,    *)
(* unless a signal has interrupted a sem_down of the driver or come        *)
(* between its test and its command, or a handler has been preempted.      *)
THEOREM MoversReverseDisk == DMSpec => []ReversesDisk
<1>1. (Intact => SwapInv) /\ CallsInv /\ CountInv => ReversesDisk
  <2> SUFFICES ASSUME SwapInv, CallsInv, CountInv, dpc = "halted", NEW b \in Blocks
               PROVE  contents[b] = NumBlocks - 1 - b
    BY DEF ReversesDisk
  <2>1. ASSUME NEW n \in Numbers, NEW i \in Share
        PROVE  contents[Orig(n, i)] = Dest(n, i) /\ contents[Dest(n, i)] = Orig(n, i)
    <3>1. Len(Program[mover[n + 1]]) = 4 * PerTask
      BY MoverLength
    <3>2. Done(mover[n + 1]) - 4 * i >= 4
      BY <3>1, AllDone, Sizes DEF Share
    <3>3. Done(mover[n + 1]) - 4 * i \in Int
      BY <3>1, AllDone, Sizes DEF Share
    <3> QED BY <3>2, <3>3 DEF SwapInv, PairIs
  <2>2. b \in 0..(NumBlocks - 1) /\ NumBlocks \in Nat /\ Half \in Nat
        /\ NumBlocks - 2 * Half \in {0, 1}
    BY Sizes DEF Blocks
  <2>3. CASE b < Half
    <3>1. PICK n \in Numbers, i \in Share : b = Orig(n, i)
      BY <2>2, <2>3, PairsCover
    <3> QED BY <2>1, <3>1 DEF Dest
  <2>4. CASE NumBlocks - 1 - b < Half
    <3>1. NumBlocks - 1 - b \in 0..(Half - 1)
      BY <2>2, <2>4
    <3>2. PICK n \in Numbers, i \in Share : NumBlocks - 1 - b = Orig(n, i)
      BY <3>1, PairsCover
    <3>3. b = Dest(n, i)
      BY <2>2, <3>2 DEF Dest
    <3> QED BY <2>1, <3>2, <3>3
  <2>5. CASE Half <= b /\ Half <= NumBlocks - 1 - b
    <3>1. b = NumBlocks - 1 - b
      BY <2>2, <2>5
    <3> QED BY <2>5, <3>1 DEF SwapInv
  <2> QED BY <2>2, <2>3, <2>4, <2>5
<1> QED BY <1>1, AlwaysSwap, AlwaysCalls, AlwaysCount, PTL
=============================================================================
