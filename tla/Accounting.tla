----------------------------- MODULE Accounting -----------------------------
(***************************************************************************)
(* CPU accounting: the fields of task_t that task_create resets,           *)
(* task_switch and dispatcher_proc add to and terminate_task prints.       *)
(*                                                                         *)
(* The kernel measures by reading the clock when a stretch of time begins  *)
(* and when it ends, and the timer signal may come between any two of      *)
(* these reads.  So DispatchTask and AfterSwitch of Kernel, which switch   *)
(* to a task and take the processor back, are each preceded here by an     *)
(* action of its own for the first of the dispatcher's two clock reads.    *)
(***************************************************************************)
EXTENDS Kernel

CONSTANT CountMod   \* cpu_activations is an unsigned int too

ASSUME CountAssumption == CountMod \in Nat \ {0}

VARIABLES
  born_timestamp, cpu_time, cpu_activations,   \* fields of task_t
  init_cpu_time, init_disp_time,               \* locals of dispatcher_proc
  between      \* the dispatcher is between the two clock reads before
               \* ("switch") or after ("return") task_switch, or at neither

Everybody == Tasks \cup {Dispatcher}

fields  == << born_timestamp, cpu_time, cpu_activations >>
reads   == << init_cpu_time, init_disp_time, between >>
accVars == << vars, fields, reads >>

AccInit ==
  /\ Init
  /\ born_timestamp = [t \in Everybody |-> 0]
  /\ cpu_time = [t \in Everybody |-> 0]
  /\ cpu_activations =
       [t \in Everybody |-> IF t = Dispatcher THEN 1 % CountMod ELSE 0]
  /\ init_cpu_time = 0 /\ init_disp_time = 0
  /\ between = "neither"
-----------------------------------------------------------------------------
(* systime() - since, unsigned. *)
Elapsed(since) == (system_clock - since) % ClockMod

\* Broken variant: the clock difference is signed.
ChargeSigned(t, since) ==
  cpu_time' = [cpu_time EXCEPT ![t] = @ + (system_clock - since)]

\* Broken variant: the processor time of the last turn only.
ChargeLast(t, since) ==
  cpu_time' = [cpu_time EXCEPT ![t] = Elapsed(since)]

Charge(t, since) ==
  cpu_time' = [cpu_time EXCEPT ![t] = (@ + Elapsed(since)) % ClockMod]

(* task_switch counts an activation of the task it switches to. *)
CountSwitch ==
  cpu_activations' =
    IF current' = current THEN cpu_activations
    ELSE [cpu_activations EXCEPT ![current'] = (@ + 1) % CountMod]

\* Broken variant: a new task inherits the processor time of the last one.
CreateKeepsTime(t, u) ==
  /\ TaskCreate(t, u)
  /\ born_timestamp' = [born_timestamp EXCEPT ![u] = system_clock]
  /\ cpu_activations' = [cpu_activations EXCEPT ![u] = 0]
  /\ UNCHANGED << cpu_time, reads >>

Create(t, u) ==
  /\ TaskCreate(t, u)
  /\ born_timestamp' = [born_timestamp EXCEPT ![u] = system_clock]
  /\ cpu_time' = [cpu_time EXCEPT ![u] = 0]
  /\ cpu_activations' = [cpu_activations EXCEPT ![u] = 0]
  /\ UNCHANGED reads

(* Calls and ticks: a task may lose the processor to the dispatcher. *)
CallOrTick ==
  /\ (\E t \in Tasks : OtherCall(t)) \/ TickUser \/ TickKernel
  /\ CountSwitch
  /\ UNCHANGED << born_timestamp, cpu_time, reads >>

(* scheduler() returns the task at position i. *)
Returns(i) ==
  i \in DOMAIN queue[UserQ] /\ IsChoice(queue[UserQ], dynam_prio, i)

(* scheduler() has returned a task. *)
ReadCpuClock ==
  /\ current = Dispatcher /\ dpc = "loop" /\ num_user_tasks # 0
  /\ between = "neither" /\ \E i \in DOMAIN queue[UserQ] : Returns(i)
  /\ init_cpu_time' = system_clock
  /\ between' = "switch"
  /\ UNCHANGED << vars, fields, init_disp_time >>

SwitchTo ==
  /\ between = "switch" /\ DispatchTask
  /\ Charge(Dispatcher, init_disp_time)
  /\ CountSwitch
  /\ between' = "neither"
  /\ UNCHANGED << born_timestamp, init_cpu_time, init_disp_time >>

ReadDispClock ==
  /\ current = Dispatcher /\ dpc = "switched" /\ between = "neither"
  /\ init_disp_time' = system_clock
  /\ between' = "return"
  /\ UNCHANGED << vars, fields, init_cpu_time >>

\* Broken variant: the dispatcher's clock is read after the task's time.
TakeBackLateRead ==
  /\ between = "return" /\ AfterSwitch
  /\ Charge(next_task, init_cpu_time)
  /\ init_disp_time' = system_clock
  /\ between' = "neither"
  /\ UNCHANGED << born_timestamp, cpu_activations, init_cpu_time >>

TakeBack ==
  /\ between = "return" /\ AfterSwitch
  /\ Charge(next_task, init_cpu_time)
  /\ between' = "neither"
  /\ UNCHANGED << born_timestamp, cpu_activations, init_cpu_time,
                  init_disp_time >>

WalkOrIdle ==
  /\ DispatchNone \/ WakeStep \/ WakeDone
  /\ UNCHANGED << fields, reads >>

Exit ==
  /\ DispatcherExit
  /\ Charge(Dispatcher, init_disp_time)
  /\ UNCHANGED << born_timestamp, cpu_activations, reads >>

AccNext ==
  \/ \E t, u \in Tasks : Create(t, u)
  \/ CallOrTick
  \/ ReadCpuClock \/ SwitchTo \/ ReadDispClock \/ TakeBack
  \/ WalkOrIdle \/ Exit
  \/ Terminated /\ UNCHANGED accVars

AccSpec == AccInit /\ [][AccNext]_accVars
-----------------------------------------------------------------------------
(* Type invariant. *)
AccTypeOK ==
  /\ {born_timestamp, cpu_time} \subseteq [Everybody -> 0..(ClockMod - 1)]
  /\ cpu_activations \in [Everybody -> 0..(CountMod - 1)]
  /\ {init_cpu_time, init_disp_time} \subseteq 0..(ClockMod - 1)
  /\ between \in {"neither", "switch", "return"}
  /\ between # "neither" => current = Dispatcher
  /\ between = "switch" => /\ dpc = "loop" /\ num_user_tasks # 0
                           /\ \E i \in DOMAIN queue[UserQ] : Returns(i)
  /\ between = "return" => dpc = "switched"

(* The task scheduler() has returned. *)
Chosen == queue[UserQ][CHOOSE i \in DOMAIN queue[UserQ] : Returns(i)]

(* Whose time is being measured: from the read of the clock that opens a   *)
(* stretch to the read that closes it.                                     *)
Measured ==
  CASE between = "switch" -> {Dispatcher, Chosen}
    [] between = "return" -> {Dispatcher, next_task}
    [] between = "neither" /\ dpc = "switched" -> {next_task}
    [] between = "neither" /\ dpc \in {"loop", "wake"} -> {Dispatcher}
    [] between = "neither" /\ dpc = "halted" -> {}

Since(t) == IF t = Dispatcher THEN init_disp_time ELSE init_cpu_time

Lived == [t \in Everybody |-> Elapsed(born_timestamp[t])]

ChargedSoFar ==
  [t \in Everybody |->
     IF t \in Measured THEN (cpu_time[t] + Elapsed(Since(t))) % ClockMod
     ELSE cpu_time[t]]

(* The task chosen is measured before it is switched to, the dispatcher    *)
(* after.                                                                  *)
TurnsSoFar ==
  [t \in Everybody |->
     IF between = "switch" /\ t = Chosen
     THEN (cpu_activations[t] + 1) % CountMod
     ELSE IF /\ t = Dispatcher /\ current = Dispatcher
             /\ dpc = "switched" /\ between = "neither"
          THEN (cpu_activations[t] - 1) % CountMod
          ELSE cpu_activations[t]]

Meter == INSTANCE CpuMeter WITH
  Who     <- Everybody,
  First   <- Dispatcher,
  Mod     <- ClockMod,
  Turns   <- CountMod,
  on      <- Measured,
  lived   <- Lived,
  charged <- ChargedSoFar,
  turns   <- TurnsSoFar

(* The times the kernel prints are those of a meter that every tick        *)
(* advances: no tick is lost however the signal falls between two reads of *)
(* the clock, a tick between the dispatcher's two reads is charged to it   *)
(* and to the task, an activation is one measured stretch, and none of     *)
(* this is disturbed when the clock or a counter wraps.                    *)
ImplementsMeter == Meter!Spec
=============================================================================
