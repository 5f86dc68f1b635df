-------------------------- MODULE AccountingProofs --------------------------
(***************************************************************************)
(* The accounting implements CpuMeter, for any number of tasks and any     *)
(* width of the clock and of the counters.  The arithmetic is that of      *)
(* remainders: a difference of two clock readings, added up modulo         *)
(* ClockMod, advances by one with every tick, wrapped or not.              *)
(***************************************************************************)
EXTENDS Accounting, KernelProofs

LEMMA DivMod ==
  ASSUME NEW n \in Nat \ {0}, NEW a \in Int
  PROVE  /\ a \div n \in Int /\ a % n \in 0..(n - 1)
         /\ a = n * (a \div n) + (a % n)
OBVIOUS

LEMMA OneRemainder ==
  ASSUME NEW n \in Nat \ {0}, NEW q \in Int, NEW p \in Int,
         NEW r \in 0..(n - 1), NEW s \in 0..(n - 1), n * q + r = n * p + s
  PROVE  r = s
<1>1. n * (q - p) = s - r
  OBVIOUS
<1>2. CASE q - p >= 1
  <2>1. n * (q - p) >= n
    BY <1>2
  <2> QED BY <1>1, <2>1
<1>3. CASE q - p <= -1
  <2>1. n * (q - p) <= -n
    BY <1>3
  <2> QED BY <1>1, <2>1
<1> QED BY <1>1, <1>2, <1>3

(* An inner remainder may be left out. *)
LEMMA ModPlus ==
  ASSUME NEW n \in Nat \ {0}, NEW a \in Int, NEW b \in Int
  PROVE  ((a % n) + b) % n = (a + b) % n
<1> DEFINE x == (a % n) + b
           y == a + b
<1>1. x \in Int /\ y \in Int
  BY DivMod
<1>2. /\ x = n * (x \div n) + (x % n) /\ y = n * (y \div n) + (y % n)
      /\ a = n * (a \div n) + (a % n)
  BY <1>1, DivMod
<1>3. /\ x % n \in 0..(n - 1) /\ y % n \in 0..(n - 1)
      /\ x \div n \in Int /\ y \div n \in Int /\ a \div n \in Int
  BY <1>1, DivMod
<1>4. n * ((x \div n) + (a \div n)) + (x % n) = n * (y \div n) + (y % n)
  <2>1. y = n * (a \div n) + x
    BY <1>2, <1>3
  <2>2. n * ((x \div n) + (a \div n)) = n * (x \div n) + n * (a \div n)
    BY <1>3
  <2> QED BY <1>2, <1>3, <2>1, <2>2
<1>5. (x \div n) + (a \div n) \in Int
  BY <1>3
<1> QED BY <1>3, <1>4, <1>5, OneRemainder

LEMMA ModNext ==
  ASSUME NEW n \in Nat \ {0}, NEW a \in Int
  PROVE  ((a % n) + 1) % n = (a + 1) % n
<1> DEFINE one == 1
<1>1. one \in Int
  OBVIOUS
<1> HIDE DEF one
<1>2. ((a % n) + one) % n = (a + one) % n
  BY <1>1, ModPlus
<1> QED BY <1>2 DEF one

LEMMA ModSmall ==
  ASSUME NEW n \in Nat \ {0}, NEW a \in 0..(n - 1)
  PROVE  a % n = a
<1>1. n * (a \div n) + (a % n) = n * 0 + a
  BY DivMod
<1>2. a \div n \in Int /\ a % n \in 0..(n - 1)
  BY DivMod
<1> QED BY <1>1, <1>2, OneRemainder
-----------------------------------------------------------------------------
(* One tick later: the time since a reading, and a sum with it.            *)
LEMMA ElapsedTick ==
  ASSUME NEW n \in Nat \ {0}, NEW c \in Int, NEW s \in Int
  PROVE  (((c + 1) % n) - s) % n = (((c - s) % n) + 1) % n
<1> DEFINE a == c + 1
           b == -s
           d == c - s
<1>1. a \in Int /\ b \in Int /\ d \in Int /\ a + b = d + 1
  OBVIOUS
<1>2. \A m \in Int : m + b = m - s
  OBVIOUS
<1> HIDE DEF a, b, d
<1>3. ((a % n) + b) % n = (a + b) % n
  BY <1>1, ModPlus
<1>4. ((d % n) + 1) % n = (d + 1) % n
  BY <1>1, ModNext
<1>5. (a % n) + b = (a % n) - s
  BY <1>1, <1>2, DivMod
<1>6. ((a % n) - s) % n = ((d % n) + 1) % n
  BY <1>1, <1>3, <1>4, <1>5
<1> QED BY <1>6 DEF a, d

LEMMA SumTick ==
  ASSUME NEW n \in Nat \ {0}, NEW x \in Int, NEW e \in Int
  PROVE  (x + ((e + 1) % n)) % n = (((x + e) % n) + 1) % n
<1> DEFINE a == e + 1
           d == x + e
<1>1. a \in Int /\ d \in Int /\ a + x = d + 1
  OBVIOUS
<1> HIDE DEF a, d
<1>2. ((a % n) + x) % n = (a + x) % n
  BY <1>1, ModPlus
<1>3. ((d % n) + 1) % n = (d + 1) % n
  BY <1>1, ModNext
<1>4. (a % n) + x = x + (a % n)
  BY <1>1, DivMod
<1>5. (x + (a % n)) % n = ((d % n) + 1) % n
  BY <1>1, <1>2, <1>3, <1>4
<1> QED BY <1>5 DEF a, d

(* Taking away one and adding it again. *)
LEMMA DownUp ==
  ASSUME NEW n \in Nat \ {0}, NEW a \in 0..(n - 1)
  PROVE  /\ (((a - 1) % n) + 1) % n = a
         /\ (((a + 1) % n) - 1) % n = a
<1> DEFINE d == a - 1
           e == a + 1
           m == -1
<1>1. /\ d \in Int /\ e \in Int /\ m \in Int /\ a \in Int
      /\ d + 1 = a /\ e + m = a
  OBVIOUS
<1>2. \A k \in Int : k + m = k - 1
  OBVIOUS
<1> HIDE DEF d, e, m
<1>3. ((d % n) + 1) % n = (d + 1) % n
  BY <1>1, ModNext
<1>4. ((e % n) + m) % n = (e + m) % n
  BY <1>1, ModPlus
<1>5. (e % n) + m = (e % n) - 1
  BY <1>1, <1>2, DivMod
<1>6. a % n = a
  BY ModSmall
<1>7. ((d % n) + 1) % n = a
  BY <1>1, <1>3, <1>6
<1>8. ((e % n) - 1) % n = a
  BY <1>1, <1>4, <1>5, <1>6
<1> QED BY <1>7, <1>8 DEF d, e
-----------------------------------------------------------------------------
LEMMA StepsOfKernel == [AccNext]_accVars => [Next]_vars
<1> SUFFICES ASSUME [AccNext]_accVars PROVE [Next]_vars
  OBVIOUS
<1>1. CASE \E t, u \in Tasks : Create(t, u)
  BY <1>1 DEF Create, Next, User
<1>2. CASE CallOrTick
  BY <1>2 DEF CallOrTick, Next, User
<1>3. CASE ReadCpuClock \/ ReadDispClock
  BY <1>3 DEF ReadCpuClock, ReadDispClock
<1>4. CASE SwitchTo \/ TakeBack \/ WalkOrIdle \/ Exit
  BY <1>4 DEF SwitchTo, TakeBack, WalkOrIdle, Exit, Next, DispatcherStep
<1>5. CASE UNCHANGED accVars
  BY <1>5 DEF accVars
<1> QED BY <1>1, <1>2, <1>3, <1>4, <1>5 DEF AccNext

(* Measuring the time changes nothing of what the kernel does: all that is *)
(* proved of Kernel holds with it.                                         *)
THEOREM AccountingRunsOnKernel == AccSpec => Spec
<1>1. AccInit => Init
  BY DEF AccInit
<1> QED BY <1>1, StepsOfKernel, PTL DEF AccSpec, Spec
-----------------------------------------------------------------------------
AInv == IInv /\ AccTypeOK

LEMMA AccFields ==
  ASSUME AInv
  PROVE  /\ born_timestamp \in [Everybody -> 0..(ClockMod - 1)]
         /\ cpu_time \in [Everybody -> 0..(ClockMod - 1)]
         /\ cpu_activations \in [Everybody -> 0..(CountMod - 1)]
         /\ init_cpu_time \in 0..(ClockMod - 1)
         /\ init_disp_time \in 0..(ClockMod - 1)
         /\ system_clock \in 0..(ClockMod - 1)
         /\ Dispatcher \in Everybody /\ Tasks \subseteq Everybody
BY DEF AInv, AccTypeOK, IInv, TypeOK, Everybody

LEMMA ElapsedRange ==
  ASSUME AInv, NEW s \in 0..(ClockMod - 1)
  PROVE  Elapsed(s) \in 0..(ClockMod - 1)
<1>1. system_clock - s \in Int
  BY AccFields
<1> QED BY <1>1, DivMod, KernelAssumption DEF Elapsed

LEMMA ChargeTyped ==
  ASSUME AInv, NEW t \in Everybody, NEW s \in 0..(ClockMod - 1), Charge(t, s)
  PROVE  cpu_time' \in [Everybody -> 0..(ClockMod - 1)]
<1>1. cpu_time[t] + Elapsed(s) \in Int
  BY AccFields, ElapsedRange
<1>2. (cpu_time[t] + Elapsed(s)) % ClockMod \in 0..(ClockMod - 1)
  BY <1>1, DivMod, KernelAssumption
<1> QED BY <1>2, AccFields DEF Charge

LEMMA CountTyped ==
  ASSUME AInv, CountSwitch, current' \in Everybody
  PROVE  cpu_activations' \in [Everybody -> 0..(CountMod - 1)]
<1>1. cpu_activations[current'] + 1 \in Int
  BY AccFields
<1>2. (cpu_activations[current'] + 1) % CountMod \in 0..(CountMod - 1)
  BY <1>1, DivMod, CountAssumption
<1> QED BY <1>2, AccFields DEF CountSwitch

(* Where the dispatcher stands: it has the processor between its reads. *)
LEMMA Positions ==
  ASSUME AInv
  PROVE  /\ current \in Everybody
         /\ dpc # "switched" => current = Dispatcher
         /\ dpc \in {"loop", "switched", "wake", "halted"}
         /\ dpc = "switched" => next_task \in Tasks
         /\ Dispatcher \notin Tasks
BY KernelAssumption
   DEF AInv, IInv, CpuOwner, TypeOK, AccTypeOK, Everybody

LEMMA InitAInv == AccInit => AInv
<1> SUFFICES ASSUME AccInit PROVE AInv
  OBVIOUS
<1>1. IInv
  BY InitIInv DEF AccInit
<1>2. 0 \in 0..(ClockMod - 1) /\ 0 \in 0..(CountMod - 1)
  BY KernelAssumption, CountAssumption
<1>3. 1 % CountMod \in 0..(CountMod - 1)
  BY DivMod, CountAssumption
<1>4. cpu_activations \in [Everybody -> 0..(CountMod - 1)]
  BY <1>2, <1>3 DEF AccInit
<1> QED BY <1>1, <1>2, <1>4 DEF AInv, AccInit, AccTypeOK

LEMMA NextAccTypes ==
  ASSUME AInv, [AccNext]_accVars, IInv'
  PROVE  AccTypeOK'
<1>1. CASE \E t, u \in Tasks : Create(t, u)
  <2>1. PICK t \in Tasks, u \in Tasks : Create(t, u)
    BY <1>1
  <2>2. between = "neither"
    BY <2>1, Positions DEF Create, TaskCreate, Running, AInv, AccTypeOK
  <2>3. 0 \in 0..(ClockMod - 1) /\ 0 \in 0..(CountMod - 1)
    BY KernelAssumption, CountAssumption
  <2>4. /\ born_timestamp' \in [Everybody -> 0..(ClockMod - 1)]
        /\ cpu_time' \in [Everybody -> 0..(ClockMod - 1)]
        /\ cpu_activations' \in [Everybody -> 0..(CountMod - 1)]
    BY <2>1, <2>3, AccFields DEF Create
  <2> QED BY <2>1, <2>2, <2>4, AccFields DEF AccTypeOK, Create, reads
<1>2. CASE CallOrTick
  <2>1. current' \in Everybody
    BY DEF IInv, TypeOK, Everybody
  <2>2. cpu_activations' \in [Everybody -> 0..(CountMod - 1)]
    BY <1>2, <2>1, CountTyped DEF CallOrTick
  <2>3. CASE between = "neither"
    BY <1>2, <2>2, <2>3, AccFields DEF CallOrTick, AccTypeOK, reads
  <2>4. CASE between # "neither"
    <3>1. TickKernel
      BY <1>2, <2>4, Positions
         DEF CallOrTick, AInv, AccTypeOK, TickUser, OtherCall, Running,
             TaskJoin, TaskJoinEnded, TaskSetprio, TaskExit, TaskSleep,
             TaskYield, TaskJoinReturn, NullArgument, SemCreate, SemDown,
             SemUp, SemDestroy, SemGone
    <3>2. UNCHANGED << current, dpc, num_user_tasks, queue, dynam_prio >>
      BY <3>1 DEF TickKernel, cpu, disp, tcb
    <3> QED BY <1>2, <2>2, <3>2, AccFields
            DEF CallOrTick, AInv, AccTypeOK, reads, Returns
  <2> QED BY <2>3, <2>4
<1>3. CASE ReadCpuClock
  BY <1>3, AccFields DEF ReadCpuClock, AccTypeOK, vars, cpu, disp, tcb,
                   fields, Returns
<1>4. CASE SwitchTo
  <2>1. cpu_time' \in [Everybody -> 0..(ClockMod - 1)]
    BY <1>4, ChargeTyped, AccFields DEF SwitchTo
  <2>2. current' \in Everybody
    BY DEF IInv, TypeOK, Everybody
  <2>3. cpu_activations' \in [Everybody -> 0..(CountMod - 1)]
    BY <1>4, <2>2, CountTyped DEF SwitchTo
  <2> QED BY <1>4, <2>1, <2>3, AccFields DEF SwitchTo, AccTypeOK
<1>5. CASE ReadDispClock
  BY <1>5, AccFields DEF ReadDispClock, AccTypeOK, vars, cpu, disp, fields
<1>6. CASE TakeBack
  <2>1. next_task \in Everybody
    BY <1>6, Positions, AccFields DEF TakeBack, AfterSwitch
  <2>2. cpu_time' \in [Everybody -> 0..(ClockMod - 1)]
    BY <1>6, <2>1, ChargeTyped, AccFields DEF TakeBack
  <2> QED BY <1>6, <2>2, AccFields DEF TakeBack, AccTypeOK
<1>7. CASE WalkOrIdle
  <2>1. between = "neither"
    <3>1. CASE DispatchNone
      <4>1. dpc = "loop" /\ DOMAIN queue[UserQ] = {}
        BY <3>1 DEF DispatchNone
      <4> QED BY <4>1 DEF AInv, AccTypeOK
    <3>2. CASE WakeStep \/ WakeDone
      BY <3>2 DEF WakeStep, WakeDone, AInv, AccTypeOK
    <3> QED BY <1>7, <3>1, <3>2 DEF WalkOrIdle
  <2> QED BY <1>7, <2>1, AccFields DEF WalkOrIdle, AccTypeOK, fields, reads
<1>8. CASE Exit
  <2>1. between = "neither"
    BY <1>8 DEF Exit, DispatcherExit, AInv, AccTypeOK
  <2>2. cpu_time' \in [Everybody -> 0..(ClockMod - 1)]
    BY <1>8, ChargeTyped, AccFields DEF Exit
  <2> QED BY <1>8, <2>1, <2>2, AccFields DEF Exit, AccTypeOK, reads
<1>9. CASE UNCHANGED accVars
  BY <1>9 DEF accVars, vars, cpu, disp, tcb, fields, reads, AInv,
                   AccTypeOK, Returns
<1> QED BY <1>1, <1>2, <1>3, <1>4, <1>5, <1>6, <1>7, <1>8, <1>9 DEF AccNext

LEMMA NextAInv == AInv /\ [AccNext]_accVars => AInv'
<1> SUFFICES ASSUME AInv, [AccNext]_accVars PROVE AInv'
  OBVIOUS
<1>1. IInv'
  BY StepsOfKernel, NextIInv DEF AInv
<1> QED BY <1>1, NextAccTypes DEF AInv

LEMMA AccInvariant == AccSpec => []AInv
BY InitAInv, NextAInv, PTL DEF AccSpec

(* The accounting fields keep their width, and the dispatcher reads the    *)
(* clock only while it has the processor.                                  *)
THEOREM AccountingTypes == AccSpec => []AccTypeOK
<1>1. AInv => AccTypeOK
  BY DEF AInv
<1> QED BY <1>1, AccInvariant, PTL
-----------------------------------------------------------------------------
(* The mapping, position by position. *)
LEMMA MeasuredAt ==
  /\ between = "switch" => Measured = {Dispatcher, Chosen}
  /\ between = "return" => Measured = {Dispatcher, next_task}
  /\ between = "neither" /\ dpc = "switched" => Measured = {next_task}
  /\ between = "neither" /\ dpc \in {"loop", "wake"} =>
       Measured = {Dispatcher}
  /\ between = "neither" /\ dpc = "halted" => Measured = {}
BY DEF Measured

(* No two positions of the queue are a first best choice. *)
LEMMA OneChoice ==
  ASSUME AInv, NEW i, NEW j, Returns(i), Returns(j)
  PROVE  i = j
<1>1. queue[UserQ] \in Seq(Tasks) /\ dynam_prio \in [Tasks -> Int]
  BY QueueNames DEF AInv, IInv, TypeOK
<1>2. /\ i \in DOMAIN queue[UserQ] /\ j \in DOMAIN queue[UserQ]
      /\ DOMAIN queue[UserQ] = 1..Len(queue[UserQ])
      /\ i \in Int /\ j \in Int
  BY <1>1 DEF Returns
<1>3. /\ dynam_prio[queue[UserQ][i]] \in Int
      /\ dynam_prio[queue[UserQ][j]] \in Int
  BY <1>1, <1>2
<1>4. /\ j < i => dynam_prio[queue[UserQ][i]] < dynam_prio[queue[UserQ][j]]
      /\ i < j => dynam_prio[queue[UserQ][j]] < dynam_prio[queue[UserQ][i]]
      /\ dynam_prio[queue[UserQ][i]] <= dynam_prio[queue[UserQ][j]]
      /\ dynam_prio[queue[UserQ][j]] <= dynam_prio[queue[UserQ][i]]
  BY <1>2 DEF Returns, IsChoice
<1> QED BY <1>2, <1>3, <1>4

LEMMA ChosenTask ==
  ASSUME AInv, NEW i \in DOMAIN queue[UserQ], Returns(i)
  PROVE  Chosen = queue[UserQ][i] /\ Chosen \in Tasks
<1> DEFINE j == CHOOSE k \in DOMAIN queue[UserQ] : Returns(k)
<1>1. Returns(j)
  OBVIOUS
<1>2. j = i
  BY <1>1, OneChoice
<1>3. queue[UserQ] \in Seq(Tasks)
  BY QueueNames DEF AInv, IInv, TypeOK
<1>4. Chosen = queue[UserQ][j]
  BY DEF Chosen
<1> HIDE DEF j
<1> QED BY <1>2, <1>3, <1>4

(* Only the task about to be switched to, and the dispatcher that has just *)
(* been switched to, have a count that is not that of their turns.         *)
LEMMA TurnsAt ==
  ASSUME NEW t \in Everybody
  PROVE  /\ between = "switch" /\ t = Chosen =>
              TurnsSoFar[t] = (cpu_activations[t] + 1) % CountMod
         /\ /\ t = Dispatcher /\ current = Dispatcher
            /\ dpc = "switched" /\ between = "neither"
            => TurnsSoFar[t] = (cpu_activations[t] - 1) % CountMod
         /\ /\ ~(between = "switch" /\ t = Chosen)
            /\ ~(/\ t = Dispatcher /\ current = Dispatcher
                 /\ dpc = "switched" /\ between = "neither")
            => TurnsSoFar[t] = cpu_activations[t]
BY DEF TurnsSoFar

LEMMA MeterInit == AccInit => Meter!Init
<1> SUFFICES ASSUME AccInit PROVE Meter!Init
  OBVIOUS
<1>1. 0 % ClockMod = 0 /\ system_clock = 0 /\ 0 - 0 = 0
  BY ModSmall, KernelAssumption DEF AccInit, Init
<1>2. Measured = {Dispatcher}
  BY MeasuredAt DEF AccInit, Init
<1>3. Lived = [w \in Everybody |-> 0]
  BY <1>1 DEF AccInit, Lived, Elapsed
<1>4. ChargedSoFar = [w \in Everybody |-> 0]
  <2>1. \A w \in Everybody : ChargedSoFar[w] = 0
    BY <1>1 DEF AccInit, ChargedSoFar, Elapsed, Since
  <2> QED BY <2>1 DEF ChargedSoFar
<1>5. TurnsSoFar = [w \in Everybody |-> IF w = Dispatcher THEN 1 % CountMod
                                        ELSE 0]
  BY DEF AccInit, Init, TurnsSoFar
<1> QED BY <1>2, <1>3, <1>4, <1>5 DEF Meter!Init
-----------------------------------------------------------------------------
(* A tick advances the meters that are on. *)
LEMMA TickMeters ==
  ASSUME AInv, Tock, UNCHANGED << born_timestamp, cpu_time, reads >>,
         Measured' = Measured, Measured # {}, TurnsSoFar' = TurnsSoFar
  PROVE  Meter!Tick
<1>1. ClockMod \in Nat \ {0} /\ system_clock \in Int
  BY KernelAssumption, AccFields
<1>2. ASSUME NEW s \in 0..(ClockMod - 1)
      PROVE  ((system_clock' - s) % ClockMod) = (Elapsed(s) + 1) % ClockMod
  <2>1. s \in Int
    BY <1>1, <1>2
  <2>2. (((system_clock + 1) % ClockMod) - s) % ClockMod =
          (((system_clock - s) % ClockMod) + 1) % ClockMod
    BY <1>1, <2>1, ElapsedTick
  <2> QED BY <2>2 DEF Tock, Elapsed
<1>3. \A w \in Everybody :
        Elapsed(born_timestamp[w])' = (Lived[w] + 1) % ClockMod
  BY <1>2, AccFields DEF Elapsed, Lived
<1>4. Lived' = [w \in Everybody |-> (Lived[w] + 1) % ClockMod]
  BY <1>3 DEF Lived
<1>5. ASSUME NEW w \in Measured, w \in Everybody
      PROVE  ChargedSoFar'[w] = (ChargedSoFar[w] + 1) % ClockMod
  <2> DEFINE e == Elapsed(Since(w))
  <2>1. /\ Since(w) \in 0..(ClockMod - 1) /\ Since(w)' = Since(w)
        /\ cpu_time[w] \in Int
    BY <1>5, AccFields DEF Since, reads
  <2>2. e \in Int
    BY <2>1, ElapsedRange
  <2>3. ChargedSoFar[w] = (cpu_time[w] + e) % ClockMod
    BY <1>5 DEF ChargedSoFar
  <2>4. ChargedSoFar'[w] = (cpu_time[w] + Elapsed(Since(w))') % ClockMod
    BY <1>5 DEF ChargedSoFar
  <2>5. Elapsed(Since(w))' = (e + 1) % ClockMod
    BY <1>2, <2>1 DEF Elapsed
  <2> HIDE DEF e
  <2> QED BY <1>1, <2>1, <2>2, <2>3, <2>4, <2>5, SumTick
<1>6. \A w \in Everybody \ Measured : ChargedSoFar'[w] = ChargedSoFar[w]
  BY DEF ChargedSoFar
<1>7. ChargedSoFar' = [w \in Everybody |->
                         IF w \in Measured
                         THEN (ChargedSoFar[w] + 1) % ClockMod
                         ELSE ChargedSoFar[w]]
  BY <1>5, <1>6 DEF ChargedSoFar
<1> QED BY <1>4, <1>7 DEF Meter!Tick

(* A step that reads no clock and adds nothing leaves the meters alone. *)
LEMMA QuietMeters ==
  ASSUME UNCHANGED << system_clock, born_timestamp, cpu_time, reads >>,
         Measured' = Measured, TurnsSoFar' = TurnsSoFar
  PROVE  UNCHANGED Meter!vars
<1>1. Lived' = Lived
  BY DEF Lived, Elapsed
<1>2. ChargedSoFar' = ChargedSoFar
  BY DEF ChargedSoFar, Elapsed, Since, reads
<1> QED BY <1>1, <1>2 DEF Meter!vars

(* A task that loses the processor hands the turn to the dispatcher, whose *)
(* meter is switched on when it reads the clock.                           *)
LEMMA CallOrTickTurns ==
  ASSUME AInv, CallOrTick
  PROVE  Measured' = Measured /\ TurnsSoFar' = TurnsSoFar
<1>1. /\ UNCHANGED << dpc, next_task, between >>
      /\ \/ TickKernel
         \/ current \in Tasks /\ current' \in {current, Dispatcher}
  BY DEF CallOrTick, reads, TickUser, TickKernel, disp, cpu, OtherCall,
         Running, TaskJoin, TaskJoinEnded, TaskSetprio, TaskExit, TaskSleep,
         TaskYield, TaskJoinReturn, NullArgument, SemCreate, SemDown, SemUp,
         SemDestroy, SemGone, Suspend, SwitchToDispatcher, ReturnUnlocked
<1>2. CASE TickKernel
  <2>1. UNCHANGED << current, queue, dynam_prio >>
    BY <1>2 DEF TickKernel, cpu, tcb
  <2>2. Chosen' = Chosen
    BY <2>1 DEF Chosen, Returns
  <2>3. cpu_activations' = cpu_activations
    BY <2>1 DEF CallOrTick, CountSwitch
  <2> QED BY <1>1, <2>1, <2>2, <2>3 DEF Measured, TurnsSoFar
<1>3. CASE current \in Tasks /\ current' \in {current, Dispatcher}
  <2>1. /\ dpc = "switched" /\ between = "neither"
        /\ current # Dispatcher
    BY <1>3, Positions DEF AInv, AccTypeOK
  <2>2. Measured' = Measured
    BY <1>1, <2>1, MeasuredAt DEF Measured
  <2>3. CASE current' = current
    <3>1. cpu_activations' = cpu_activations
      BY <2>3 DEF CallOrTick, CountSwitch
    <3> QED BY <1>1, <2>1, <2>2, <2>3, <3>1 DEF TurnsSoFar
  <2>4. CASE current' = Dispatcher
    <3>1. /\ cpu_activations' = [cpu_activations EXCEPT ![Dispatcher] =
                                   (@ + 1) % CountMod]
          /\ Dispatcher \in Everybody
      BY <2>1, <2>4, AccFields DEF CallOrTick, CountSwitch
    <3>2. TurnsSoFar'[Dispatcher] = TurnsSoFar[Dispatcher]
      <4>1. TurnsSoFar'[Dispatcher] =
              (cpu_activations'[Dispatcher] - 1) % CountMod
        BY <1>1, <2>1, <2>4, <3>1 DEF TurnsSoFar
      <4>2. TurnsSoFar[Dispatcher] = cpu_activations[Dispatcher]
        BY <2>1, <3>1 DEF TurnsSoFar
      <4>3. cpu_activations'[Dispatcher] =
              (cpu_activations[Dispatcher] + 1) % CountMod
        BY <3>1, AccFields
      <4>4. cpu_activations[Dispatcher] \in 0..(CountMod - 1)
        BY <3>1, AccFields
      <4> QED BY <4>1, <4>2, <4>3, <4>4, DownUp, CountAssumption
    <3>3. \A t \in Everybody \ {Dispatcher} : TurnsSoFar'[t] = TurnsSoFar[t]
      BY <1>1, <2>1, <2>4, <3>1, AccFields DEF TurnsSoFar
    <3> QED BY <2>2, <3>2, <3>3 DEF TurnsSoFar
  <2> QED BY <1>3, <2>3, <2>4
<1> QED BY <1>1, <1>2, <1>3
-----------------------------------------------------------------------------
LEMMA NoTimeYet ==
  ASSUME AInv
  PROVE  \A c \in 0..(ClockMod - 1) :
           (c + ((system_clock - system_clock) % ClockMod)) % ClockMod = c
<1> SUFFICES ASSUME NEW c \in 0..(ClockMod - 1)
             PROVE  (c + ((system_clock - system_clock) % ClockMod))
                       % ClockMod = c
  OBVIOUS
<1>1. system_clock - system_clock = 0 /\ 0 \in 0..(ClockMod - 1)
  BY AccFields, KernelAssumption
<1>2. (system_clock - system_clock) % ClockMod = 0
  BY <1>1, ModSmall, KernelAssumption
<1>3. c + ((system_clock - system_clock) % ClockMod) = c
  BY <1>2
<1> QED BY <1>3, ModSmall, KernelAssumption

LEMMA CreateMeters ==
  ASSUME AInv, NEW t \in Tasks, NEW u \in Tasks, Create(t, u)
  PROVE  Meter!Reset(u)
<1>1. /\ current = t /\ dpc = "switched" /\ next_task = t /\ u # t
      /\ between = "neither" /\ t # Dispatcher /\ u # Dispatcher
      /\ u \in Everybody
  <2>1. current = t /\ state[u] = "TERM"
    BY DEF Create, TaskCreate, Running
  <2>2. dpc = "switched" /\ next_task = t /\ state[t] = "READY"
    BY <2>1, RunningTask DEF AInv
  <2> QED BY <2>1, <2>2, Positions, AccFields DEF AInv, AccTypeOK
<1>2. UNCHANGED << system_clock, current, dpc, next_task, between,
                   init_cpu_time, init_disp_time >>
  BY <1>1 DEF Create, TaskCreate, ReturnUnlocked, disp, reads
<1>3. Measured = {t} /\ Measured' = {t}
  BY <1>1, <1>2, MeasuredAt DEF Measured
<1>4. /\ born_timestamp' = [born_timestamp EXCEPT ![u] = system_clock]
      /\ cpu_time' = [cpu_time EXCEPT ![u] = 0]
      /\ cpu_activations' = [cpu_activations EXCEPT ![u] = 0]
  BY DEF Create
<1>5. Lived' = [Lived EXCEPT ![u] = 0]
  <2>1. (system_clock - system_clock) % ClockMod = 0
    <3>1. system_clock - system_clock = 0 /\ 0 \in 0..(ClockMod - 1)
      BY AccFields, KernelAssumption
    <3> QED BY <3>1, ModSmall, KernelAssumption
  <2>2. Lived'[u] = 0
    BY <1>1, <1>2, <1>4, <2>1, AccFields DEF Lived, Elapsed
  <2>3. \A w \in Everybody \ {u} : Lived'[w] = Lived[w]
    BY <1>2, <1>4, AccFields DEF Lived, Elapsed
  <2> QED BY <2>2, <2>3 DEF Lived
<1>6. ChargedSoFar' = [ChargedSoFar EXCEPT ![u] = 0]
  <2>1. ChargedSoFar'[u] = 0
    BY <1>1, <1>3, <1>4, AccFields DEF ChargedSoFar
  <2>2. \A w \in Everybody \ {u} : ChargedSoFar'[w] = ChargedSoFar[w]
    BY <1>2, <1>3, <1>4, AccFields DEF ChargedSoFar, Elapsed, Since
  <2> QED BY <2>1, <2>2 DEF ChargedSoFar
<1>7. TurnsSoFar' = [TurnsSoFar EXCEPT ![u] = 0]
  <2>1. \A w \in Everybody : /\ TurnsSoFar[w] = cpu_activations[w]
                             /\ TurnsSoFar'[w] = cpu_activations'[w]
    BY <1>1, <1>2 DEF TurnsSoFar
  <2> QED BY <1>1, <1>4, <2>1, AccFields DEF TurnsSoFar
<1> QED BY <1>1, <1>3, <1>5, <1>6, <1>7 DEF Meter!Reset

LEMMA ReadCpuMeters ==
  ASSUME AInv, ReadCpuClock
  PROVE  Chosen \in Everybody /\ Meter!SwitchOn(Chosen)
<1>1. /\ current = Dispatcher /\ dpc = "loop" /\ between = "neither"
      /\ between' = "switch" /\ init_cpu_time' = system_clock
      /\ UNCHANGED << system_clock, current, dpc, queue, dynam_prio, next_task,
                      born_timestamp, cpu_time, cpu_activations,
                      init_disp_time >>
  BY DEF ReadCpuClock, vars, fields, cpu, disp, tcb
<1>2. Chosen \in Tasks /\ Chosen \in Everybody /\ Chosen # Dispatcher
  BY ChosenTask, AccFields, Positions DEF ReadCpuClock
<1>3. Chosen' = Chosen
  BY <1>1 DEF Chosen, Returns
<1>4. Measured = {Dispatcher} /\ Measured' = {Dispatcher, Chosen}
  BY <1>1, <1>3, MeasuredAt DEF Measured
<1>5. Lived' = Lived
  BY <1>1 DEF Lived, Elapsed
<1>6. ChargedSoFar' = ChargedSoFar
  <2>1. ChargedSoFar'[Chosen] = ChargedSoFar[Chosen]
    <3>1. ChargedSoFar[Chosen] = cpu_time[Chosen]
      BY <1>2, <1>4 DEF ChargedSoFar
    <3>2. ChargedSoFar'[Chosen] =
            (cpu_time[Chosen] + ((system_clock - system_clock) % ClockMod))
               % ClockMod
      BY <1>1, <1>2, <1>4 DEF ChargedSoFar, Elapsed, Since
    <3> QED BY <1>2, <3>1, <3>2, NoTimeYet, AccFields
  <2>2. \A w \in Everybody \ {Chosen} : ChargedSoFar'[w] = ChargedSoFar[w]
    BY <1>1, <1>4 DEF ChargedSoFar, Elapsed, Since
  <2> QED BY <2>1, <2>2 DEF ChargedSoFar
<1>7. TurnsSoFar' = [TurnsSoFar EXCEPT ![Chosen] = (@ + 1) % CountMod]
  <2>1. \A w \in Everybody : TurnsSoFar[w] = cpu_activations[w]
    BY <1>1 DEF TurnsSoFar
  <2>2. TurnsSoFar'[Chosen] = (cpu_activations[Chosen] + 1) % CountMod
    BY <1>1, <1>2, <1>3 DEF TurnsSoFar
  <2>3. \A w \in Everybody \ {Chosen} : TurnsSoFar'[w] = cpu_activations[w]
    BY <1>1, <1>3 DEF TurnsSoFar
  <2>4. TurnsSoFar'[Chosen] = (TurnsSoFar[Chosen] + 1) % CountMod
    BY <1>2, <2>1, <2>2
  <2>5. \A w \in Everybody \ {Chosen} : TurnsSoFar'[w] = TurnsSoFar[w]
    BY <2>1, <2>3
  <2> QED BY <1>2, <2>4, <2>5 DEF TurnsSoFar
<1> QED BY <1>2, <1>4, <1>5, <1>6, <1>7 DEF Meter!SwitchOn

(* task_switch goes to the task scheduler() has returned. *)
LEMMA SwitchMeters ==
  ASSUME AInv, SwitchTo
  PROVE  Meter!SwitchOff(Dispatcher)
<1>1. PICK i \in DOMAIN queue[UserQ] :
        IsChoice(queue[UserQ], dynam_prio, i) /\ next_task' = queue[UserQ][i]
  BY DEF SwitchTo, DispatchTask
<1>2. /\ Chosen = next_task' /\ Chosen \in Tasks /\ Chosen \in Everybody
      /\ Chosen # Dispatcher
  BY <1>1, ChosenTask, AccFields, Positions DEF Returns
<1>3. /\ between = "switch" /\ between' = "neither" /\ current = Dispatcher
      /\ dpc = "loop" /\ dpc' = "switched" /\ current' = next_task'
      /\ UNCHANGED << system_clock, born_timestamp, init_cpu_time,
                      init_disp_time >>
  BY DEF SwitchTo, DispatchTask
<1>4. Measured = {Dispatcher, Chosen} /\ Measured' = {Chosen}
  BY <1>2, <1>3, MeasuredAt DEF Measured
<1>5. Lived' = Lived
  BY <1>3 DEF Lived, Elapsed
<1>6. ChargedSoFar' = ChargedSoFar
  <2>1. cpu_time' = [cpu_time EXCEPT ![Dispatcher] =
                       (@ + Elapsed(init_disp_time)) % ClockMod]
    BY DEF SwitchTo, Charge
  <2>2. ChargedSoFar'[Dispatcher] = ChargedSoFar[Dispatcher]
    BY <1>2, <1>4, <2>1, AccFields DEF ChargedSoFar, Since
  <2>3. ChargedSoFar'[Chosen] = ChargedSoFar[Chosen]
    BY <1>2, <1>3, <1>4, <2>1, AccFields DEF ChargedSoFar, Since, Elapsed
  <2>4. \A w \in Everybody \ {Dispatcher, Chosen} :
          ChargedSoFar'[w] = ChargedSoFar[w]
    BY <1>4, <2>1, AccFields DEF ChargedSoFar
  <2> QED BY <2>2, <2>3, <2>4 DEF ChargedSoFar
<1>7. TurnsSoFar' = TurnsSoFar
  <2>1. cpu_activations' = [cpu_activations EXCEPT ![Chosen] =
                              (@ + 1) % CountMod]
    BY <1>2, <1>3 DEF SwitchTo, CountSwitch
  <2>2. \A w \in Everybody : TurnsSoFar'[w] = cpu_activations'[w]
    BY <1>2, <1>3 DEF TurnsSoFar
  <2>3. TurnsSoFar[Chosen] = (cpu_activations[Chosen] + 1) % CountMod
    BY <1>2, <1>3 DEF TurnsSoFar
  <2>4. \A w \in Everybody \ {Chosen} : TurnsSoFar[w] = cpu_activations[w]
    BY <1>3 DEF TurnsSoFar
  <2> QED BY <1>2, <2>1, <2>2, <2>3, <2>4, AccFields DEF TurnsSoFar
<1> QED BY <1>2, <1>4, <1>5, <1>6, <1>7 DEF Meter!SwitchOff

LEMMA ReadDispMeters ==
  ASSUME AInv, ReadDispClock
  PROVE  Meter!SwitchOn(Dispatcher)
<1>1. /\ current = Dispatcher /\ dpc = "switched" /\ between = "neither"
      /\ between' = "return" /\ init_disp_time' = system_clock
      /\ UNCHANGED << system_clock, current, dpc, next_task, born_timestamp,
                      cpu_time, cpu_activations, init_cpu_time >>
  BY DEF ReadDispClock, vars, fields, cpu, disp
<1>2. next_task # Dispatcher /\ Dispatcher \in Everybody
  BY <1>1, AccFields, Positions
<1>3. Measured = {next_task} /\ Measured' = {Dispatcher, next_task}
  BY <1>1, MeasuredAt DEF Measured
<1>4. Lived' = Lived
  BY <1>1 DEF Lived, Elapsed
<1>5. ChargedSoFar' = ChargedSoFar
  <2>1. ChargedSoFar'[Dispatcher] = ChargedSoFar[Dispatcher]
    <3>1. ChargedSoFar[Dispatcher] = cpu_time[Dispatcher]
      BY <1>2, <1>3 DEF ChargedSoFar
    <3>2. ChargedSoFar'[Dispatcher] =
            (cpu_time[Dispatcher] + ((system_clock - system_clock) % ClockMod))
               % ClockMod
      BY <1>1, <1>2, <1>3 DEF ChargedSoFar, Elapsed, Since
    <3> QED BY <3>1, <3>2, NoTimeYet, AccFields
  <2>2. \A w \in Everybody \ {Dispatcher} : ChargedSoFar'[w] = ChargedSoFar[w]
    BY <1>1, <1>3 DEF ChargedSoFar, Elapsed, Since
  <2> QED BY <2>1, <2>2 DEF ChargedSoFar
<1>6. TurnsSoFar' = [TurnsSoFar EXCEPT ![Dispatcher] = (@ + 1) % CountMod]
  <2>1. TurnsSoFar[Dispatcher] = (cpu_activations[Dispatcher] - 1) % CountMod
    BY <1>1, <1>2 DEF TurnsSoFar
  <2>2. TurnsSoFar'[Dispatcher] = cpu_activations[Dispatcher]
    BY <1>1, <1>2 DEF TurnsSoFar
  <2>3. cpu_activations[Dispatcher] \in 0..(CountMod - 1)
    BY AccFields
  <2>4. TurnsSoFar'[Dispatcher] = (TurnsSoFar[Dispatcher] + 1) % CountMod
    BY <2>1, <2>2, <2>3, DownUp, CountAssumption
  <2>5. \A w \in Everybody \ {Dispatcher} : TurnsSoFar'[w] = TurnsSoFar[w]
    BY <1>1 DEF TurnsSoFar
  <2> QED BY <1>2, <2>4, <2>5 DEF TurnsSoFar
<1> QED BY <1>2, <1>3, <1>4, <1>5, <1>6 DEF Meter!SwitchOn

LEMMA TakeBackMeters ==
  ASSUME AInv, TakeBack
  PROVE  next_task \in Everybody /\ Meter!SwitchOff(next_task)
<1>1. /\ dpc = "switched" /\ dpc' = "wake" /\ current = Dispatcher
      /\ between = "return" /\ between' = "neither"
      /\ UNCHANGED << system_clock, current, next_task, born_timestamp,
                      cpu_activations, init_cpu_time, init_disp_time >>
  BY DEF TakeBack, AfterSwitch, StartWakeTasks, cpu
<1>2. next_task \in Everybody /\ next_task # Dispatcher
  BY <1>1, AccFields, Positions
<1>3. Measured = {Dispatcher, next_task} /\ Measured' = {Dispatcher}
  BY <1>1, MeasuredAt DEF Measured
<1>4. Lived' = Lived
  BY <1>1 DEF Lived, Elapsed
<1>5. ChargedSoFar' = ChargedSoFar
  <2>1. cpu_time' = [cpu_time EXCEPT ![next_task] =
                       (@ + Elapsed(init_cpu_time)) % ClockMod]
    BY DEF TakeBack, Charge
  <2>2. ChargedSoFar'[next_task] = ChargedSoFar[next_task]
    BY <1>2, <1>3, <2>1, AccFields DEF ChargedSoFar, Since
  <2>3. \A w \in Everybody \ {next_task} : ChargedSoFar'[w] = ChargedSoFar[w]
    BY <1>1, <1>2, <1>3, <2>1, AccFields DEF ChargedSoFar, Since, Elapsed
  <2> QED BY <2>2, <2>3 DEF ChargedSoFar
<1>6. TurnsSoFar' = TurnsSoFar
  BY <1>1 DEF TurnsSoFar
<1> QED BY <1>2, <1>3, <1>4, <1>5, <1>6 DEF Meter!SwitchOff

LEMMA ExitMeters ==
  ASSUME AInv, Exit
  PROVE  Meter!SwitchOff(Dispatcher)
<1>1. /\ dpc = "loop" /\ dpc' = "halted" /\ between = "neither"
      /\ UNCHANGED << system_clock, current, born_timestamp,
                      cpu_activations, init_cpu_time, init_disp_time, between >>
  BY DEF Exit, DispatcherExit, cpu, reads, AInv, AccTypeOK
<1>2. Measured = {Dispatcher} /\ Measured' = {}
  BY <1>1, MeasuredAt DEF Measured
<1>3. Lived' = Lived
  BY <1>1 DEF Lived, Elapsed
<1>4. ChargedSoFar' = ChargedSoFar
  <2>1. cpu_time' = [cpu_time EXCEPT ![Dispatcher] =
                       (@ + Elapsed(init_disp_time)) % ClockMod]
    BY DEF Exit, Charge
  <2>2. \A w \in Everybody : ChargedSoFar'[w] = ChargedSoFar[w]
    BY <1>2, <2>1, AccFields DEF ChargedSoFar, Since
  <2> QED BY <2>2 DEF ChargedSoFar
<1>5. TurnsSoFar' = TurnsSoFar
  BY <1>1 DEF TurnsSoFar
<1> QED BY <1>2, <1>3, <1>4, <1>5 DEF Meter!SwitchOff

LEMMA WalkMeters ==
  ASSUME AInv, WalkOrIdle
  PROVE  UNCHANGED Meter!vars
<1>1. /\ dpc \in {"loop", "wake"} /\ dpc' \in {"loop", "wake"}
      /\ between = "neither"
      /\ UNCHANGED << system_clock, current, born_timestamp, cpu_time,
                      cpu_activations, reads, between >>
  <2>1. CASE DispatchNone
    <3>1. dpc = "loop" /\ DOMAIN queue[UserQ] = {}
      BY <2>1 DEF DispatchNone
    <3>2. between = "neither"
      BY <3>1 DEF AInv, AccTypeOK
    <3> QED BY <2>1, <3>2 DEF WalkOrIdle, DispatchNone, StartWakeTasks, cpu,
                              fields, reads
  <2>2. CASE WakeStep \/ WakeDone
    <3>1. dpc = "wake" /\ between = "neither"
      BY <2>2 DEF WakeStep, WakeDone, AInv, AccTypeOK
    <3> QED BY <2>2, <3>1 DEF WalkOrIdle, WakeStep, WakeDone, cpu, fields, reads
  <2> QED BY <2>1, <2>2 DEF WalkOrIdle
<1>2. Measured = {Dispatcher} /\ Measured' = {Dispatcher}
  BY <1>1, MeasuredAt DEF Measured
<1>3. TurnsSoFar' = TurnsSoFar
  BY <1>1 DEF TurnsSoFar
<1> QED BY <1>1, <1>2, <1>3, QuietMeters

LEMMA CallOrTickMeters ==
  ASSUME AInv, CallOrTick
  PROVE  Meter!Tick \/ UNCHANGED Meter!vars
<1>1. Measured' = Measured /\ TurnsSoFar' = TurnsSoFar
  BY CallOrTickTurns
<1>2. UNCHANGED << born_timestamp, cpu_time, reads >>
  BY DEF CallOrTick
<1>3. CASE TickUser \/ TickKernel
  <2>1. Tock
    BY <1>3 DEF TickUser, TickKernel
  <2>2. dpc # "halted"
    BY <1>3, Positions DEF TickUser, TickKernel
  <2>3. Measured # {}
    BY <2>2, MeasuredAt, Positions DEF AInv, AccTypeOK
  <2> QED BY <1>1, <1>2, <2>1, <2>3, TickMeters
<1>4. CASE \E t \in Tasks : OtherCall(t)
  <2>1. UNCHANGED system_clock
    BY <1>4 DEF OtherCall, TaskJoin, TaskJoinEnded, TaskSetprio, TaskExit,
                TaskSleep, TaskYield, TaskJoinReturn, NullArgument, SemCreate,
                SemDown, SemUp, SemDestroy, SemGone
  <2> QED BY <1>1, <1>2, <2>1, QuietMeters
<1> QED BY <1>3, <1>4 DEF CallOrTick

LEMMA StepsOfMeter == AInv /\ [AccNext]_accVars => [Meter!Next]_(Meter!vars)
<1> SUFFICES ASSUME AInv, [AccNext]_accVars
             PROVE  Meter!Next \/ UNCHANGED Meter!vars
  OBVIOUS
<1>1. CASE \E t, u \in Tasks : Create(t, u)
  BY <1>1, CreateMeters, AccFields DEF Meter!Next
<1>2. CASE CallOrTick
  BY <1>2, CallOrTickMeters DEF Meter!Next
<1>3. CASE ReadCpuClock
  BY <1>3, ReadCpuMeters DEF Meter!Next
<1>4. CASE SwitchTo
  BY <1>4, SwitchMeters, AccFields DEF Meter!Next
<1>5. CASE ReadDispClock
  BY <1>5, ReadDispMeters, AccFields DEF Meter!Next
<1>6. CASE TakeBack
  BY <1>6, TakeBackMeters DEF Meter!Next
<1>7. CASE WalkOrIdle
  BY <1>7, WalkMeters
<1>8. CASE Exit
  BY <1>8, ExitMeters, AccFields DEF Meter!Next
<1>9. CASE UNCHANGED accVars
  <2>1. /\ UNCHANGED << system_clock, born_timestamp, cpu_time, reads >>
        /\ UNCHANGED << current, dpc, next_task, queue, dynam_prio, between,
                        cpu_activations >>
    BY <1>9 DEF accVars, vars, cpu, disp, tcb, fields, reads
  <2>2. Chosen' = Chosen
    BY <2>1 DEF Chosen, Returns
  <2>3. Measured' = Measured /\ TurnsSoFar' = TurnsSoFar
    BY <2>1, <2>2 DEF Measured, TurnsSoFar
  <2> QED BY <2>1, <2>3, QuietMeters
<1> QED BY <1>1, <1>2, <1>3, <1>4, <1>5, <1>6, <1>7, <1>8, <1>9 DEF AccNext

(* The times and activations the kernel prints are those of a meter that   *)
(* every tick advances: for any number of tasks, any quantum and any width *)
(* of the clock no tick is lost, wherever the signal falls.                *)
THEOREM AccountingImplementsMeter == AccSpec => ImplementsMeter
<1>1. AccSpec => Meter!Init /\ [][Meter!Next]_(Meter!vars)
  BY MeterInit, StepsOfMeter, AccInvariant, PTL DEF AccSpec
<1> QED BY <1>1 DEF ImplementsMeter, Meter!Spec
=============================================================================
