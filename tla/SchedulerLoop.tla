--------------------------- MODULE SchedulerLoop ----------------------------
(***************************************************************************)
(* One call of scheduler(), an iteration of its loop at a time.  The loop  *)
(* ages tasks while it is still looking for the best one, and compares     *)
(* with priorities that are partly aged already; that the result is the    *)
(* relation of Scheduler is not obvious, and is what is shown here.        *)
(***************************************************************************)
EXTENDS Scheduler, FiniteSets

CONSTANTS
  Tasks,
  Prios   \* the priorities tasks may have; every int in the code

ASSUME TasksAssumption == IsFiniteSet(Tasks) /\ Prios \subseteq Int

VARIABLES
  ready,        \* user_tasks_queue
  static_prio,
  before,       \* the dynamic priorities when the call began
  dynam_prio,
  cur, choosen_task,   \* positions in the ready queue
  max_prio,
  returned

vars == << ready, static_prio, before, dynam_prio,
           cur, choosen_task, max_prio, returned >>

Distinct(s) == \A i, j \in DOMAIN s : s[i] = s[j] => i = j

(* The kernel's queues hold no task twice (QueueOps), and scheduler()      *)
(* returns NULL at once when the queue is empty.                           *)
ReadyQueues ==
  {s \in UNION {[1..n -> Tasks] : n \in 1..Cardinality(Tasks)} : Distinct(s)}

Init ==
  /\ ready \in ReadyQueues
  /\ static_prio \in [Tasks -> Prios]
  /\ before \in [Tasks -> Prios]
  /\ dynam_prio = before
  /\ cur = 1 /\ choosen_task = 1
  /\ max_prio = before[ready[1]]
  /\ returned = FALSE

\* Broken variant: ageing does not stop at MAX_PRIO.
AgePastFloor(d, t) == [d EXCEPT ![t] = @ + ALPHA]

\* Broken variant: nobody grows older.
AgeNever(d, t) == d

Age(d, t) == IF d[t] > MAX_PRIO THEN [d EXCEPT ![t] = @ + ALPHA] ELSE d

\* Broken variant: the displaced task is not aged.
ScanBetterNoAge ==
  LET t == ready[cur + 1]
  IN /\ cur < Len(ready)
     /\ dynam_prio[t] < max_prio
     /\ choosen_task' = cur + 1
     /\ max_prio' = dynam_prio[t]
     /\ cur' = cur + 1
     /\ UNCHANGED << ready, static_prio, before, dynam_prio, returned >>

\* Broken variant: the scan does not go on to the next task.
ScanBetterNoNext ==
  LET t == ready[cur + 1]
  IN /\ cur < Len(ready)
     /\ dynam_prio[t] < max_prio
     /\ dynam_prio' = Age(dynam_prio, ready[choosen_task])
     /\ choosen_task' = cur + 1
     /\ max_prio' = dynam_prio'[t]
     /\ UNCHANGED << ready, static_prio, before, cur, returned >>

(* The next task is better: the one chosen so far is aged and displaced. *)
ScanBetter ==
  LET t == ready[cur + 1]
  IN /\ cur < Len(ready)
     /\ dynam_prio[t] < max_prio
     /\ dynam_prio' = Age(dynam_prio, ready[choosen_task])
     /\ choosen_task' = cur + 1
     /\ max_prio' = dynam_prio'[t]
     /\ cur' = cur + 1
     /\ UNCHANGED << ready, static_prio, before, returned >>

ScanWorse ==
  LET t == ready[cur + 1]
  IN /\ cur < Len(ready)
     /\ ~(dynam_prio[t] < max_prio)
     /\ dynam_prio' = Age(dynam_prio, t)
     /\ cur' = cur + 1
     /\ UNCHANGED << ready, static_prio, before, choosen_task, max_prio,
                     returned >>

(* Back at the head of the circular queue. *)
Return ==
  /\ cur = Len(ready) /\ ~returned
  /\ dynam_prio' = [dynam_prio EXCEPT
                      ![ready[choosen_task]] = static_prio[ready[choosen_task]]]
  /\ returned' = TRUE
  /\ UNCHANGED << ready, static_prio, before, cur, choosen_task, max_prio >>

Next == ScanBetter \/ ScanWorse \/ Return

Spec == Init /\ [][Next]_vars
-----------------------------------------------------------------------------
(* Type invariant. *)
TypeOK ==
  /\ ready \in Seq(Tasks) /\ Distinct(ready)
  /\ static_prio \in [Tasks -> Int] /\ before \in [Tasks -> Int]
  /\ dynam_prio \in [Tasks -> Int]
  /\ cur \in DOMAIN ready /\ choosen_task \in 1..cur
  /\ max_prio \in Int
  /\ returned \in BOOLEAN

(* What scheduler() returns is the first task of best priority as the call *)
(* found the queue, and every other ready task, the displaced ones         *)
(* included, has aged exactly once.                                        *)
ReturnsFirstBest ==
  returned => /\ IsChoice(ready, before, choosen_task)
              /\ dynam_prio = Aged(ready, before, static_prio, choosen_task)
=============================================================================
