-------------------------- MODULE SchedulerProofs ---------------------------
(***************************************************************************)
(* One call of scheduler(): its loop computes the relation of Scheduler,   *)
(* for every length of the ready queue and every priority.  Then call      *)
(* after call on a queue that does not change: who starves.                *)
(***************************************************************************)
EXTENDS SchedulerRounds, FiniteSetTheorems, TLAPS

OneOlder(p) == IF p > MAX_PRIO THEN p + ALPHA ELSE p

(* Behind cur nothing has changed; before it, all but the task chosen so   *)
(* far are one step older, and that task is the first best of them.        *)
Scanned ==
  /\ max_prio = before[ready[choosen_task]]
  /\ \A j \in 1..cur :
       /\ before[ready[choosen_task]] <= before[ready[j]]
       /\ j < choosen_task => before[ready[choosen_task]] < before[ready[j]]
  /\ \A t \in Tasks :
       dynam_prio[t] = IF \E j \in 1..cur : j # choosen_task /\ ready[j] = t
                       THEN OneOlder(before[t]) ELSE before[t]

IInv ==
  /\ TypeOK
  /\ ~returned => Scanned
  /\ returned => cur = Len(ready)
  /\ ReturnsFirstBest
-----------------------------------------------------------------------------
LEMMA InitIInv == Init => IInv
<1> SUFFICES ASSUME Init PROVE IInv
  OBVIOUS
<1>1. Cardinality(Tasks) \in Nat
  BY TasksAssumption, FS_CardinalityType
<1>2. PICK n \in 1..Cardinality(Tasks) : ready \in [1..n -> Tasks]
  BY DEF Init, ReadyQueues
<1>3. ready \in Seq(Tasks) /\ 1 \in DOMAIN ready /\ Distinct(ready)
  BY <1>1, <1>2 DEF Init, ReadyQueues
<1>4. TypeOK
  <2>1. /\ static_prio \in [Tasks -> Int] /\ before \in [Tasks -> Int]
        /\ dynam_prio \in [Tasks -> Int]
    BY TasksAssumption DEF Init
  <2>2. ready[1] \in Tasks
    BY <1>3
  <2>3. max_prio \in Int
    BY <2>1, <2>2 DEF Init
  <2>4. cur = 1 /\ choosen_task = 1 /\ returned \in BOOLEAN
    BY DEF Init
  <2> QED BY <1>3, <2>1, <2>3, <2>4 DEF TypeOK
<1>5. Scanned
  BY <1>3, <1>4 DEF Init, Scanned, TypeOK
<1> QED BY <1>4, <1>5 DEF IInv, Init, ReturnsFirstBest

LEMMA ScanBetterIInv == IInv /\ ScanBetter => IInv'
<1> SUFFICES ASSUME IInv, ScanBetter PROVE IInv'
  OBVIOUS
<1> DEFINE t == ready[cur + 1]
           c == ready[choosen_task]
<1>1. TypeOK /\ ~returned /\ Scanned
  BY SMTT(30) DEF IInv, ScanBetter, TypeOK
<1>2. /\ cur + 1 \in DOMAIN ready /\ choosen_task \in DOMAIN ready
      /\ cur \in 1..Len(ready) /\ choosen_task \in 1..cur
      /\ DOMAIN ready = 1..Len(ready)
      /\ t \in Tasks /\ c \in Tasks /\ t # c
      /\ \A j \in 1..cur : ready[j] # t /\ ready[j] \in Tasks
      /\ \A j \in 1..cur : j # choosen_task => ready[j] # c
  <2>1. /\ DOMAIN ready = 1..Len(ready) /\ Len(ready) \in Nat
        /\ cur \in 1..Len(ready) /\ choosen_task \in 1..cur
        /\ cur < Len(ready)
    BY <1>1, SMTT(30) DEF ScanBetter, TypeOK
  <2>2. /\ cur + 1 \in DOMAIN ready /\ choosen_task \in DOMAIN ready
        /\ \A j \in 1..cur : j \in DOMAIN ready /\ j # cur + 1
    BY <2>1
  <2>3. \A j \in DOMAIN ready : ready[j] \in Tasks
    BY <1>1 DEF TypeOK
  <2> HIDE DEF t, c
  <2>4. \A j \in 1..cur : ready[j] # t
    BY <1>1, <2>2 DEF TypeOK, Distinct, t
  <2>5. \A j \in 1..cur : j # choosen_task => ready[j] # c
    BY <1>1, <2>2 DEF TypeOK, Distinct, c
  <2> QED BY <2>1, <2>2, <2>3, <2>4, <2>5 DEF t, c
<1>3. dynam_prio[t] = before[t] /\ dynam_prio[c] = before[c]
  BY <1>1, <1>2 DEF Scanned
<1>4. dynam_prio' = [dynam_prio EXCEPT ![c] = OneOlder(before[c])]
  BY <1>1, <1>2, <1>3 DEF ScanBetter, Age, OneOlder, TypeOK
<1>5. dynam_prio'[t] = before[t] /\ max_prio' = before[t]
  BY <1>1, <1>2, <1>3, <1>4 DEF ScanBetter, TypeOK
<1>6. OneOlder(before[c]) \in Int
  BY <1>1, <1>2, PrioAssumption DEF OneOlder, ALPHA, TypeOK
<1>7. TypeOK'
  BY <1>1, <1>2, <1>4, <1>5, <1>6, SMTT(30) DEF ScanBetter, TypeOK
<1>8. Scanned'
  <2>1. before[t] < before[c]
    BY <1>1, <1>3 DEF ScanBetter, Scanned
  <2>2. ASSUME NEW j \in 1..(cur + 1)
        PROVE  /\ before[t] <= before[ready[j]]
               /\ j < cur + 1 => before[t] < before[ready[j]]
    <3>1. CASE j = cur + 1
      BY <1>1, <1>2, <3>1, SMTT(30) DEF TypeOK
    <3>2. CASE j \in 1..cur
      <4>1. before[c] <= before[ready[j]]
        BY <1>1, <3>2 DEF Scanned
      <4>2. before[t] \in Int /\ before[c] \in Int /\ before[ready[j]] \in Int
        BY <1>1, <1>2, <3>2 DEF TypeOK
      <4> QED BY <2>1, <3>2, <4>1, <4>2
    <3> QED BY <1>2, <3>1, <3>2
  <2>3. ASSUME NEW u \in Tasks
        PROVE  dynam_prio'[u] =
                 IF \E j \in 1..(cur + 1) : j # cur + 1 /\ ready[j] = u
                 THEN OneOlder(before[u]) ELSE before[u]
    <3>1. (\E j \in 1..(cur + 1) : j # cur + 1 /\ ready[j] = u)
            <=> \E j \in 1..cur : ready[j] = u
      BY <1>2
    <3>2. CASE u = c
      BY <1>1, <1>2, <1>4, <3>1, <3>2 DEF TypeOK
    <3>3. CASE u # c
      <4>1. dynam_prio'[u] = dynam_prio[u]
        BY <1>1, <1>4, <3>3 DEF TypeOK
      <4>2. (\E j \in 1..cur : ready[j] = u)
              <=> \E j \in 1..cur : j # choosen_task /\ ready[j] = u
        BY <3>3
      <4> QED BY <1>1, <3>1, <4>1, <4>2 DEF Scanned
    <3> QED BY <3>2, <3>3
  <2> QED BY <1>2, <1>5, <2>2, <2>3 DEF ScanBetter, Scanned
<1> QED BY <1>1, <1>7, <1>8 DEF IInv, ReturnsFirstBest, ScanBetter

LEMMA ScanWorseIInv == IInv /\ ScanWorse => IInv'
<1> SUFFICES ASSUME IInv, ScanWorse PROVE IInv'
  OBVIOUS
<1> DEFINE t == ready[cur + 1]
           c == ready[choosen_task]
<1>1. TypeOK /\ ~returned /\ Scanned
  BY SMTT(30) DEF IInv, ScanWorse, TypeOK
<1>2. /\ cur + 1 \in DOMAIN ready /\ choosen_task \in DOMAIN ready
      /\ cur \in 1..Len(ready) /\ choosen_task \in 1..cur
      /\ DOMAIN ready = 1..Len(ready)
      /\ t \in Tasks /\ c \in Tasks /\ t # c
      /\ \A j \in 1..cur : ready[j] # t /\ ready[j] \in Tasks
      /\ \A j \in 1..cur : j # choosen_task => ready[j] # c
  <2>1. /\ DOMAIN ready = 1..Len(ready) /\ Len(ready) \in Nat
        /\ cur \in 1..Len(ready) /\ choosen_task \in 1..cur
        /\ cur < Len(ready)
    BY <1>1, SMTT(30) DEF ScanWorse, TypeOK
  <2>2. /\ cur + 1 \in DOMAIN ready /\ choosen_task \in DOMAIN ready
        /\ \A j \in 1..cur : j \in DOMAIN ready /\ j # cur + 1
    BY <2>1
  <2>3. \A j \in DOMAIN ready : ready[j] \in Tasks
    BY <1>1 DEF TypeOK
  <2> HIDE DEF t, c
  <2>4. \A j \in 1..cur : ready[j] # t
    BY <1>1, <2>2 DEF TypeOK, Distinct, t
  <2>5. \A j \in 1..cur : j # choosen_task => ready[j] # c
    BY <1>1, <2>2 DEF TypeOK, Distinct, c
  <2> QED BY <2>1, <2>2, <2>3, <2>4, <2>5 DEF t, c
<1>3. dynam_prio[t] = before[t]
  BY <1>1, <1>2 DEF Scanned
<1>4. dynam_prio' = [dynam_prio EXCEPT ![t] = OneOlder(before[t])]
  BY <1>1, <1>2, <1>3 DEF ScanWorse, Age, OneOlder, TypeOK
<1>5. OneOlder(before[t]) \in Int
  BY <1>1, <1>2, PrioAssumption DEF OneOlder, ALPHA, TypeOK
<1>6. TypeOK'
  <2>1. dynam_prio' \in [Tasks -> Int]
    BY <1>1, <1>4, <1>5 DEF TypeOK
  <2>2. cur' \in DOMAIN ready /\ choosen_task' \in 1..cur'
    BY <1>2 DEF ScanWorse
  <2> QED BY <1>1, <2>1, <2>2 DEF ScanWorse, TypeOK
<1>7. Scanned'
  <2>1. before[c] <= before[t]
    BY <1>1, <1>2, <1>3 DEF ScanWorse, Scanned, TypeOK
  <2>2. ASSUME NEW j \in 1..(cur + 1)
        PROVE  /\ before[c] <= before[ready[j]]
               /\ j < choosen_task => before[c] < before[ready[j]]
    <3>1. CASE j = cur + 1
      BY <1>2, <2>1, <3>1
    <3>2. CASE j \in 1..cur
      BY <1>1, <3>2 DEF Scanned
    <3> QED BY <1>2, <3>1, <3>2
  <2>3. ASSUME NEW u \in Tasks
        PROVE  dynam_prio'[u] =
                 IF \E j \in 1..(cur + 1) : j # choosen_task /\ ready[j] = u
                 THEN OneOlder(before[u]) ELSE before[u]
    <3>1. CASE u = t
      <4>1. dynam_prio'[u] = OneOlder(before[u])
        BY <1>1, <1>2, <1>4, <3>1 DEF TypeOK
      <4>2. cur + 1 \in 1..(cur + 1) /\ cur + 1 # choosen_task
        BY <1>2
      <4> QED BY <3>1, <4>1, <4>2
    <3>2. CASE u # t
      <4>1. dynam_prio'[u] = dynam_prio[u]
        BY <1>1, <1>4, <3>2 DEF TypeOK
      <4>2. (\E j \in 1..(cur + 1) : j # choosen_task /\ ready[j] = u)
              <=> \E j \in 1..cur : j # choosen_task /\ ready[j] = u
        BY <1>2, <3>2
      <4> QED BY <1>1, <4>1, <4>2 DEF Scanned
    <3> QED BY <3>1, <3>2
  <2> QED BY <1>1, <1>2, <2>2, <2>3 DEF ScanWorse, Scanned
<1> QED BY <1>1, <1>6, <1>7 DEF IInv, ReturnsFirstBest, ScanWorse

LEMMA ReturnIInv == IInv /\ Return => IInv'
<1> SUFFICES ASSUME IInv, Return PROVE IInv'
  OBVIOUS
<1> DEFINE c == ready[choosen_task]
<1>1. TypeOK /\ Scanned /\ cur = Len(ready) /\ DOMAIN ready = 1..cur
  BY DEF IInv, Return, TypeOK
<1>2. c \in Tasks /\ choosen_task \in DOMAIN ready
  BY <1>1 DEF TypeOK
<1>3. TypeOK'
  BY <1>1, <1>2 DEF Return, TypeOK
<1>4. IsChoice(ready, before, choosen_task)
  BY <1>1 DEF Scanned, IsChoice
<1>5. ASSUME NEW u \in Tasks
      PROVE  dynam_prio'[u] =
               Aged(ready, before, static_prio, choosen_task)[u]
  <2>1. Aged(ready, before, static_prio, choosen_task)[u] =
          IF u = c THEN static_prio[u]
          ELSE IF before[u] > MAX_PRIO /\ \E j \in DOMAIN ready : ready[j] = u
               THEN before[u] + ALPHA ELSE before[u]
    BY <1>1 DEF Aged, TypeOK
  <2>2. CASE u = c
    BY <1>1, <2>1, <2>2 DEF Return, TypeOK
  <2>3. CASE u # c
    <3>1. dynam_prio'[u] = dynam_prio[u]
      BY <1>1, <2>3 DEF Return, TypeOK
    <3>2. (\E j \in 1..cur : j # choosen_task /\ ready[j] = u)
            <=> \E j \in DOMAIN ready : ready[j] = u
      BY <1>1, <2>3
    <3> QED BY <1>1, <2>1, <2>3, <3>1, <3>2 DEF Scanned, OneOlder
  <2> QED BY <2>2, <2>3
<1>6. dynam_prio' = Aged(ready, before, static_prio, choosen_task)
  <2>1. /\ dynam_prio' = [u \in Tasks |-> dynam_prio'[u]]
        /\ Aged(ready, before, static_prio, choosen_task) =
             [u \in Tasks |->
                Aged(ready, before, static_prio, choosen_task)[u]]
    BY <1>1, <1>3 DEF TypeOK, Aged
  <2> QED BY <1>5, <2>1
<1> QED BY <1>1, <1>3, <1>4, <1>6 DEF IInv, ReturnsFirstBest, Return

LEMMA NextIInv == IInv /\ [Next]_vars => IInv'
<1> SUFFICES ASSUME IInv, [Next]_vars PROVE IInv'
  OBVIOUS
<1>1. CASE UNCHANGED vars
  BY <1>1 DEF vars, IInv, TypeOK, Scanned, ReturnsFirstBest
<1> QED BY <1>1, ScanBetterIInv, ScanWorseIInv, ReturnIInv DEF Next

(* scheduler() returns the first task of best priority, and has then aged  *)
(* each of the other ready tasks exactly once: for every ready queue and   *)
(* every priority, the ones outside MAX_PRIO..MIN_PRIO included.           *)
THEOREM LoopImplementsScheduler == Spec => [](TypeOK /\ ReturnsFirstBest)
<1>1. IInv => TypeOK /\ ReturnsFirstBest
  BY DEF IInv
<1> QED BY InitIInv, NextIInv, <1>1, PTL DEF Spec
-----------------------------------------------------------------------------
(* Who starves.  For tasks of one priority p, span steps above MAX_PRIO,   *)
(* the dynamic priorities follow a pattern: first a sweep, in which the    *)
(* task after the last one chosen is the best so far; once the sweep has   *)
(* taken span + 1 tasks, a cycle among them, with all the tasks behind     *)
(* stuck at MAX_PRIO and losing every tie.                                 *)
Span(p) == p - MAX_PRIO

(* The k-th task is chosen next, for the first time. *)
Sweep(d, p, k) ==
  \A j \in DOMAIN ready :
    d[ready[j]] = IF j < k THEN p - (k - 1 - j) ELSE p - (k - 1)

(* The k-th task is chosen next; those before it have come round.          *)
Cycle(d, p, k) ==
  \A j \in DOMAIN ready :
    /\ j > Span(p) + 1 => d[ready[j]] = MAX_PRIO
    /\ j <= Span(p) + 1 /\ j >= k => d[ready[j]] = MAX_PRIO + (j - k)
    /\ j < k => d[ready[j]] = MAX_PRIO + (j - k) + Span(p) + 1

Pattern(d, p) == \E k \in 1..(Span(p) + 1) : Sweep(d, p, k) \/ Cycle(d, p, k)

(* More ready tasks, all of priority p, than ageing can tell apart. *)
Crowded(p) ==
  /\ p >= MAX_PRIO
  /\ \A j \in DOMAIN ready : static_prio[ready[j]] = p
  /\ Len(ready) > Span(p) + 1

RInv ==
  /\ IInv
  /\ \A p \in Prios : Crowded(p) =>
       /\ Pattern(before, p)
       /\ returned => Pattern(dynam_prio, p) /\ choosen_task <= Span(p) + 1
-----------------------------------------------------------------------------
(* What Aged does to the task at a position of the queue. *)
LEMMA AgedAt ==
  ASSUME ready \in Seq(Tasks), Distinct(ready), NEW d \in [Tasks -> Int],
         NEW i \in DOMAIN ready, NEW j \in DOMAIN ready
  PROVE  Aged(ready, d, static_prio, i)[ready[j]] =
           IF j = i THEN static_prio[ready[i]] ELSE OneOlder(d[ready[j]])
<1>1. ready[j] \in Tasks /\ (ready[j] = ready[i] <=> j = i)
  BY DEF Distinct
<1>2. DOMAIN d = Tasks
  OBVIOUS
<1> QED BY <1>1, <1>2 DEF Aged, OneOlder

LEMMA ReadyTyped ==
  ASSUME TypeOK, NEW j \in DOMAIN ready
  PROVE  j \in Nat \ {0} /\ ready[j] \in Tasks
<1>1. ready \in Seq(Tasks)
  BY DEF TypeOK
<1> QED BY <1>1

LEMMA CrowdedNumbers ==
  ASSUME TypeOK, NEW p \in Int, Crowded(p)
  PROVE  /\ MAX_PRIO \in Int /\ Span(p) \in Nat /\ p = MAX_PRIO + Span(p)
         /\ DOMAIN ready = 1..Len(ready) /\ Len(ready) \in Nat
         /\ \A k \in 1..(Span(p) + 1) : k \in DOMAIN ready
<1>1. DOMAIN ready = 1..Len(ready) /\ Len(ready) \in Nat
  BY DEF TypeOK
<1>2. MAX_PRIO \in Int /\ Span(p) \in Nat /\ p = MAX_PRIO + Span(p)
  BY PrioAssumption DEF Crowded, Span
<1>3. Len(ready) > Span(p) + 1
  BY DEF Crowded
<1> QED BY <1>1, <1>2, <1>3

(* The chosen task is back at p, the others are one step older. *)
LEMMA AgedCrowd ==
  ASSUME TypeOK, NEW p \in Int, Crowded(p), NEW d \in [Tasks -> Int],
         NEW i \in DOMAIN ready, NEW j \in DOMAIN ready
  PROVE  /\ j = i => Aged(ready, d, static_prio, i)[ready[j]] = p
         /\ j # i /\ d[ready[j]] > MAX_PRIO =>
              Aged(ready, d, static_prio, i)[ready[j]] = d[ready[j]] - 1
         /\ j # i /\ d[ready[j]] = MAX_PRIO =>
              Aged(ready, d, static_prio, i)[ready[j]] = MAX_PRIO
<1>1. Aged(ready, d, static_prio, i)[ready[j]] =
        IF j = i THEN static_prio[ready[i]] ELSE OneOlder(d[ready[j]])
  BY AgedAt, ZenonT(40) DEF TypeOK
<1>2. static_prio[ready[i]] = p
  BY DEF Crowded
<1>3. d[ready[j]] \in Int /\ MAX_PRIO \in Int
  BY PrioAssumption DEF TypeOK
<1> QED BY <1>1, <1>2, <1>3 DEF OneOlder, ALPHA

(* During the sweep the k-th task is the first of the best. *)
LEMMA SweepChoice ==
  ASSUME TypeOK, NEW d \in [Tasks -> Int], NEW p \in Int,
         Crowded(p), NEW k \in 1..(Span(p) + 1), Sweep(d, p, k),
         NEW i \in DOMAIN ready, IsChoice(ready, d, i)
  PROVE  /\ i = k
         /\ Pattern(Aged(ready, d, static_prio, i), p)
<1> DEFINE e == Aged(ready, d, static_prio, i)
<1>1. /\ Span(p) \in Nat /\ MAX_PRIO \in Int /\ p = MAX_PRIO + Span(p)
      /\ DOMAIN ready = 1..Len(ready) /\ Len(ready) \in Nat
      /\ k \in DOMAIN ready /\ k \in Int
      /\ \A j \in DOMAIN ready : j \in Nat \ {0} /\ d[ready[j]] \in Int
  BY CrowdedNumbers, ReadyTyped
<1>2. i = k
  <2>1. d[ready[k]] = p - (k - 1)
    BY <1>1 DEF Sweep
  <2>2. CASE i < k
    <3>1. d[ready[i]] = p - (k - 1 - i)
      BY <1>1, <2>2 DEF Sweep
    <3>2. d[ready[i]] <= d[ready[k]]
      BY <1>1 DEF IsChoice
    <3> QED BY <1>1, <2>1, <3>1, <3>2
  <2>3. CASE i > k
    <3>1. d[ready[i]] = p - (k - 1)
      BY <1>1, <2>3 DEF Sweep
    <3>2. d[ready[i]] < d[ready[k]]
      BY <1>1, <2>3 DEF IsChoice
    <3> QED BY <1>1, <2>1, <3>1, <3>2
  <2> QED BY <1>1, <2>2, <2>3
<1>3. \A j \in DOMAIN ready :
        /\ j = k => e[ready[j]] = p
        /\ j # k /\ d[ready[j]] > MAX_PRIO => e[ready[j]] = d[ready[j]] - 1
        /\ j # k /\ d[ready[j]] = MAX_PRIO => e[ready[j]] = MAX_PRIO
  BY <1>2, AgedCrowd
<1> HIDE DEF e
<1>4. CASE k < Span(p) + 1
  <2>1. Sweep(e, p, k + 1)
    <3> SUFFICES ASSUME NEW j \in DOMAIN ready
                 PROVE  /\ j < k + 1 => e[ready[j]] = p - (k - j)
                        /\ j >= k + 1 => e[ready[j]] = p - k
      BY <1>1 DEF Sweep
    <3>1. CASE j = k
      BY <1>1, <1>3, <3>1
    <3>2. CASE j < k
      <4>1. d[ready[j]] = p - (k - 1 - j)
        BY <3>2 DEF Sweep
      <4>2. d[ready[j]] > MAX_PRIO /\ j # k
        BY <1>1, <3>2, <4>1
      <4>3. e[ready[j]] = d[ready[j]] - 1
        BY <1>3, <4>2
      <4> QED BY <1>1, <3>2, <4>1, <4>3, SMTT(30)
    <3>3. CASE j > k
      <4>1. d[ready[j]] = p - (k - 1)
        BY <1>1, <3>3 DEF Sweep
      <4>2. d[ready[j]] > MAX_PRIO /\ j # k
        BY <1>1, <1>4, <3>3, <4>1
      <4>3. e[ready[j]] = d[ready[j]] - 1
        BY <1>3, <4>2
      <4> QED BY <1>1, <3>3, <4>1, <4>3, SMTT(30)
    <3> QED BY <1>1, <3>1, <3>2, <3>3
  <2>2. k + 1 \in 1..(Span(p) + 1)
    BY <1>1, <1>4
  <2> QED BY <1>2, <2>1, <2>2 DEF Pattern, e
<1>5. CASE k = Span(p) + 1
  <2>1. Cycle(e, p, 1)
    <3> SUFFICES ASSUME NEW j \in DOMAIN ready
                 PROVE  /\ j > k => e[ready[j]] = MAX_PRIO
                        /\ j <= k => e[ready[j]] = MAX_PRIO + (j - 1)
      BY <1>1, <1>5 DEF Cycle
    <3>1. CASE j = k
      BY <1>1, <1>3, <1>5, <3>1
    <3>2. CASE j < k
      <4>1. d[ready[j]] = p - (k - 1 - j)
        BY <3>2 DEF Sweep
      <4>2. d[ready[j]] > MAX_PRIO /\ j # k
        BY <1>1, <1>5, <3>2, <4>1, SMTT(30)
      <4>3. e[ready[j]] = d[ready[j]] - 1
        BY <1>3, <4>2
      <4>4. e[ready[j]] = MAX_PRIO + Span(p) - (Span(p) - j) - 1
        BY <1>1, <1>5, <4>1, <4>3
      <4> QED BY <1>1, <1>5, <3>2, <4>4
    <3>3. CASE j > k
      <4>1. d[ready[j]] = p - (k - 1)
        BY <1>1, <3>3 DEF Sweep
      <4>2. d[ready[j]] = MAX_PRIO /\ j # k
        BY <1>1, <1>5, <3>3, <4>1
      <4> QED BY <1>1, <1>3, <3>3, <4>2
    <3> QED BY <1>1, <3>1, <3>2, <3>3
  <2>2. 1 \in 1..(Span(p) + 1)
    BY <1>1
  <2> QED BY <1>2, <2>1, <2>2 DEF Pattern, e
<1> QED BY <1>1, <1>2, <1>4, <1>5

(* In the cycle too. *)
LEMMA CycleChoice ==
  ASSUME TypeOK, NEW d \in [Tasks -> Int], NEW p \in Int,
         Crowded(p), NEW k \in 1..(Span(p) + 1), Cycle(d, p, k),
         NEW i \in DOMAIN ready, IsChoice(ready, d, i)
  PROVE  /\ i = k
         /\ Pattern(Aged(ready, d, static_prio, i), p)
<1> DEFINE e == Aged(ready, d, static_prio, i)
           last == Span(p) + 1
<1>1. /\ Span(p) \in Nat /\ MAX_PRIO \in Int /\ p = MAX_PRIO + Span(p)
      /\ DOMAIN ready = 1..Len(ready) /\ Len(ready) \in Nat
      /\ k \in DOMAIN ready /\ k \in Int
      /\ \A j \in DOMAIN ready : j \in Nat \ {0} /\ d[ready[j]] \in Int
  BY CrowdedNumbers, ReadyTyped
<1>2. i = k
  <2>1. d[ready[k]] = MAX_PRIO
    BY <1>1 DEF Cycle
  <2>2. CASE i < k
    <3>1. d[ready[i]] = MAX_PRIO + (i - k) + Span(p) + 1
      BY <1>1, <2>2 DEF Cycle
    <3>2. d[ready[i]] <= d[ready[k]]
      BY <1>1 DEF IsChoice
    <3> QED BY <1>1, <2>1, <2>2, <3>1, <3>2
  <2>3. CASE i > k
    <3>1. d[ready[i]] >= MAX_PRIO
      BY <1>1, <2>3 DEF Cycle
    <3>2. d[ready[i]] < d[ready[k]]
      BY <1>1, <2>3 DEF IsChoice
    <3>3. d[ready[i]] \in Int
      BY DEF TypeOK
    <3> QED BY <1>1, <2>1, <3>1, <3>2, <3>3
  <2> QED BY <1>1, <2>2, <2>3
<1>3. \A j \in DOMAIN ready :
        /\ j = k => e[ready[j]] = p
        /\ j # k /\ d[ready[j]] > MAX_PRIO => e[ready[j]] = d[ready[j]] - 1
        /\ j # k /\ d[ready[j]] = MAX_PRIO => e[ready[j]] = MAX_PRIO
  BY <1>2, AgedCrowd
<1> HIDE DEF e
<1>4. \A j \in DOMAIN ready : j > last => e[ready[j]] = MAX_PRIO
  BY <1>1, <1>3 DEF Cycle
<1>5. ASSUME NEW j \in DOMAIN ready, j > k, j <= last
      PROVE  e[ready[j]] = MAX_PRIO + (j - (k + 1))
  <2>1. d[ready[j]] = MAX_PRIO + (j - k)
    BY <1>1, <1>5 DEF Cycle
  <2>2. d[ready[j]] > MAX_PRIO /\ j # k
    BY <1>1, <1>5, <2>1
  <2>3. e[ready[j]] = d[ready[j]] - 1
    BY <1>3, <2>2
  <2> QED BY <1>1, <1>5, <2>1, <2>3
<1>6. \A j \in DOMAIN ready :
        j <= k => e[ready[j]] = MAX_PRIO + (j - (k + 1)) + last
  <2> SUFFICES ASSUME NEW j \in DOMAIN ready, j <= k
               PROVE  e[ready[j]] = MAX_PRIO + (j - (k + 1)) + last
    OBVIOUS
  <2>1. CASE j = k
    BY <1>1, <1>3, <2>1
  <2>2. CASE j < k
    <3>1. d[ready[j]] = MAX_PRIO + (j - k) + Span(p) + 1
      BY <2>2 DEF Cycle
    <3>2. d[ready[j]] > MAX_PRIO
      BY <1>1, <3>1
    <3>3. e[ready[j]] = d[ready[j]] - 1
      BY <1>3, <2>2, <3>2
    <3> QED BY <1>1, <2>2, <3>1, <3>3
  <2> QED BY <1>1, <2>1, <2>2
<1>7. CASE k < last
  <2>1. Cycle(e, p, k + 1)
    <3> SUFFICES ASSUME NEW j \in DOMAIN ready
                 PROVE  /\ j > last => e[ready[j]] = MAX_PRIO
                        /\ j <= last /\ j >= k + 1 =>
                             e[ready[j]] = MAX_PRIO + (j - (k + 1))
                        /\ j < k + 1 =>
                             e[ready[j]] = MAX_PRIO + (j - (k + 1)) + last
      BY <1>1 DEF Cycle
    <3>1. j >= k + 1 <=> j > k
      BY <1>1
    <3>2. j < k + 1 <=> j <= k
      BY <1>1
    <3> QED BY <1>4, <1>5, <1>6, <3>1, <3>2
  <2> QED BY <1>1, <1>2, <1>7, <2>1 DEF Pattern, e
<1>8. CASE k = last
  <2>1. Cycle(e, p, 1)
    <3> SUFFICES ASSUME NEW j \in DOMAIN ready
                 PROVE  /\ j > last => e[ready[j]] = MAX_PRIO
                        /\ j <= last => e[ready[j]] = MAX_PRIO + (j - 1)
      BY <1>1 DEF Cycle
    <3>1. j <= last => e[ready[j]] = MAX_PRIO + (j - (k + 1)) + last
      BY <1>6, <1>8
    <3> QED BY <1>1, <1>4, <1>8, <3>1
  <2> QED BY <1>1, <1>2, <2>1 DEF Pattern, e
<1> QED BY <1>1, <1>2, <1>7, <1>8

LEMMA PatternChoice ==
  ASSUME TypeOK, NEW d \in [Tasks -> Int], NEW p \in Int, Crowded(p),
         Pattern(d, p), NEW i \in DOMAIN ready, IsChoice(ready, d, i)
  PROVE  i <= Span(p) + 1 /\ Pattern(Aged(ready, d, static_prio, i), p)
<1>1. PICK k \in 1..(Span(p) + 1) : Sweep(d, p, k) \/ Cycle(d, p, k)
  BY DEF Pattern
<1>2. Span(p) \in Int
  BY PrioAssumption DEF Span
<1> QED BY <1>1, <1>2, SweepChoice, CycleChoice
-----------------------------------------------------------------------------
LEMMA InitRInv == RoundsInit => RInv
<1> SUFFICES ASSUME RoundsInit PROVE RInv
  OBVIOUS
<1>1. Cardinality(Tasks) \in Nat
  BY TasksAssumption, FS_CardinalityType
<1>2. PICK n \in 1..Cardinality(Tasks) : ready = [i \in 1..n |-> i]
  BY DEF RoundsInit
<1>3. /\ ready \in Seq(Tasks) /\ Distinct(ready) /\ DOMAIN ready = 1..n
      /\ Len(ready) = n /\ ready[1] \in Tasks
  <2>1. \A i \in 1..n : i \in Tasks
    BY <1>1, RoundsAssumption
  <2> QED BY <1>1, <1>2, <2>1 DEF Distinct
<1>4. TypeOK
  <2>1. static_prio \in [Tasks -> Int]
    BY TasksAssumption DEF RoundsInit
  <2>2. max_prio \in Int
    BY <1>3, <2>1 DEF RoundsInit
  <2>3. before = static_prio /\ dynam_prio = static_prio
    BY DEF RoundsInit
  <2>4. cur = 1 /\ choosen_task = 1 /\ returned = FALSE
    BY DEF RoundsInit
  <2>5. cur \in DOMAIN ready /\ choosen_task \in 1..cur
    BY <1>1, <1>3, <2>4
  <2> QED BY <1>3, <2>1, <2>2, <2>3, <2>4, <2>5 DEF TypeOK
<1>5. IInv
  BY <1>3, <1>4 DEF IInv, Scanned, RoundsInit, ReturnsFirstBest, TypeOK
<1>6. ASSUME NEW p \in Prios, Crowded(p)
      PROVE  Pattern(before, p)
  <2>1. p \in Int /\ 1 \in 1..(Span(p) + 1)
    BY <1>6, PrioAssumption, TasksAssumption DEF Crowded, Span
  <2>2. Sweep(before, p, 1)
    BY <1>3, <1>6, <2>1 DEF Sweep, Crowded, RoundsInit
  <2> QED BY <2>1, <2>2 DEF Pattern
<1> QED BY <1>5, <1>6 DEF RInv, RoundsInit

(* An iteration of the loop leaves the pattern of the call alone; on       *)
(* return the loop has computed Aged, which carries it to the next call.   *)
LEMMA LoopRInv == RInv /\ Next => RInv'
<1> SUFFICES ASSUME RInv, Next PROVE RInv'
  OBVIOUS
<1>1. IInv /\ IInv' /\ TypeOK /\ TypeOK'
  BY NextIInv DEF RInv, IInv
<1>2. UNCHANGED << ready, static_prio, before >>
  BY DEF Next, ScanBetter, ScanWorse, Return
<1>3. ASSUME NEW p \in Prios, Crowded(p)'
      PROVE  /\ Pattern(before, p)'
             /\ returned' => /\ Pattern(dynam_prio, p)'
                             /\ choosen_task' <= Span(p) + 1
  <2>1. Crowded(p) /\ p \in Int
    BY <1>2, <1>3, TasksAssumption DEF Crowded, Span
  <2>2. Pattern(before, p)
    BY <1>3, <2>1 DEF RInv
  <2>3. Pattern(before, p)'
    BY <1>2, <2>2 DEF Pattern, Sweep, Cycle, Span
  <2>4. ASSUME returned'
        PROVE  /\ Pattern(dynam_prio, p)'
               /\ choosen_task' <= Span(p) + 1
    <3>1. /\ IsChoice(ready, before, choosen_task')
          /\ dynam_prio' = Aged(ready, before, static_prio, choosen_task')
      BY <1>1, <1>2, <2>4 DEF IInv, ReturnsFirstBest
    <3>2. choosen_task' \in DOMAIN ready /\ before \in [Tasks -> Int]
      <4>1. cur' \in DOMAIN ready /\ choosen_task' \in 1..cur'
        BY <1>1, <1>2 DEF TypeOK
      <4>2. DOMAIN ready = 1..Len(ready) /\ Len(ready) \in Nat
        BY <1>1 DEF TypeOK
      <4>3. before \in [Tasks -> Int]
        BY <1>1 DEF TypeOK
      <4> QED BY <4>1, <4>2, <4>3
    <3>3. /\ choosen_task' <= Span(p) + 1
          /\ Pattern(dynam_prio', p)
      BY <1>1, <2>1, <2>2, <3>1, <3>2, PatternChoice
    <3> QED BY <1>2, <3>3 DEF Pattern, Sweep, Cycle, Span
  <2> QED BY <2>3, <2>4
<1> QED BY <1>1, <1>3 DEF RInv

LEMMA NextCallRInv == RInv /\ NextCall => RInv'
<1> SUFFICES ASSUME RInv, NextCall PROVE RInv'
  OBVIOUS
<1>1. TypeOK /\ Len(ready) \in Nat /\ DOMAIN ready = 1..Len(ready)
  BY DEF RInv, IInv, TypeOK
<1>2. 1 \in DOMAIN ready /\ ready[1] \in Tasks
  BY <1>1 DEF TypeOK
<1>3. IInv'
  <2>1. TypeOK'
    <3>1. dynam_prio[ready[1]] \in Int
      BY <1>1, <1>2 DEF TypeOK
    <3>2. cur' \in DOMAIN ready /\ choosen_task' \in 1..cur'
      BY <1>2 DEF NextCall
    <3> QED BY <1>1, <3>1, <3>2 DEF NextCall, TypeOK
  <2>2. Scanned'
    BY <1>1, <1>2 DEF NextCall, Scanned, TypeOK
  <2> QED BY <2>1, <2>2 DEF IInv, NextCall, ReturnsFirstBest
<1>4. ASSUME NEW p \in Prios, Crowded(p)'
      PROVE  Pattern(before, p)'
  <2>1. Crowded(p)
    BY <1>4 DEF NextCall, Crowded, Span
  <2>2. Pattern(dynam_prio, p)
    BY <1>4, <2>1 DEF RInv, NextCall
  <2> QED BY <2>2 DEF NextCall, Pattern, Sweep, Cycle, Span
<1> QED BY <1>3, <1>4 DEF RInv, NextCall

LEMMA NextRInv == RInv /\ [RoundsNext]_vars => RInv'
<1> SUFFICES ASSUME RInv, [RoundsNext]_vars PROVE RInv'
  OBVIOUS
<1>1. CASE UNCHANGED vars
  <2>1. IInv'
    BY <1>1, NextIInv DEF RInv
  <2> QED BY <1>1, <2>1 DEF vars, RInv, Crowded, Pattern, Sweep, Cycle, Span
<1> QED BY <1>1, LoopRInv, NextCallRInv DEF RoundsNext

LEMMA RoundsInvariant == RoundsSpec => []RInv
BY InitRInv, NextRInv, PTL DEF RoundsSpec

(* However many rounds have gone by, positions stay inside the queue, no   *)
(* task is in it twice and every priority is an integer.                   *)
THEOREM RoundsTypes == RoundsSpec => []TypeOK
<1>1. RInv => TypeOK
  BY DEF RInv, IInv
<1> QED BY <1>1, RoundsInvariant, PTL

(* Round after round scheduler() returns the first best task, whatever the *)
(* ageing of the rounds before has left.                                   *)
THEOREM RoundsReturnFirstBest == RoundsSpec => []ReturnsFirstBest
<1>1. RInv => ReturnsFirstBest
  BY DEF RInv, IInv
<1> QED BY <1>1, RoundsInvariant, PTL

(* Of tasks at one priority that can age m steps, those behind the first   *)
(* m + 1 never run, however long the queue stays as it is.                 *)
THEOREM TasksBeyondReachStarve == RoundsSpec => []BeyondReachStarves
<1>1. RInv => BeyondReachStarves
  <2> SUFFICES ASSUME RInv, NEW p \in Prios, NEW i \in DOMAIN ready,
                      p >= MAX_PRIO,
                      \A j \in DOMAIN ready : static_prio[ready[j]] = p,
                      i - 1 > p - MAX_PRIO, Chosen(ready[i])
               PROVE  FALSE
    BY DEF BeyondReachStarves
  <2>1. TypeOK /\ DOMAIN ready = 1..Len(ready) /\ Len(ready) \in Nat
    BY DEF RInv, IInv, TypeOK
  <2>2. p \in Int /\ MAX_PRIO \in Int
    BY TasksAssumption, PrioAssumption
  <2>3. Crowded(p)
    BY <2>1, <2>2 DEF Crowded, Span
  <2>4. choosen_task <= p - MAX_PRIO + 1
    BY <2>3 DEF RInv, Chosen, Span
  <2>5. choosen_task = i
    <3>1. choosen_task \in DOMAIN ready
      BY <2>1 DEF TypeOK
    <3>2. Distinct(ready) /\ ready[choosen_task] = ready[i]
      BY <2>1 DEF TypeOK, Chosen
    <3> QED BY <3>1, <3>2 DEF Distinct
  <2> QED BY <2>1, <2>2, <2>4, <2>5
<1> QED BY <1>1, RoundsInvariant, PTL
=============================================================================
