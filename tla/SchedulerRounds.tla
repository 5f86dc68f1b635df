-------------------------- MODULE SchedulerRounds ---------------------------
(***************************************************************************)
(* scheduler() called again and again on a ready queue that does not       *)
(* change: tasks that compute, yield or use up their quantum keep their    *)
(* place in user_tasks_queue (neither task_yield nor the dispatcher ever   *)
(* rotates it).  Whether everyone gets the processor depends on ageing     *)
(* alone, and ageing stops at MAX_PRIO.  Tasks are numbered by position.   *)
(***************************************************************************)
EXTENDS SchedulerLoop

ASSUME RoundsAssumption == Tasks = 1..Cardinality(Tasks)

(* A queue as the tasks were created, none of them aged yet. *)
RoundsInit ==
  /\ ready \in {[i \in 1..n |-> i] : n \in 1..Cardinality(Tasks)}
  /\ static_prio \in [Tasks -> Prios]
  /\ before = static_prio /\ dynam_prio = static_prio
  /\ cur = 1 /\ choosen_task = 1
  /\ max_prio = static_prio[1]
  /\ returned = FALSE

(* The dispatcher loop comes round to scheduler() again. *)
NextCall ==
  /\ returned
  /\ before' = dynam_prio
  /\ cur' = 1 /\ choosen_task' = 1
  /\ max_prio' = dynam_prio[ready[1]]
  /\ returned' = FALSE
  /\ UNCHANGED << ready, static_prio, dynam_prio >>

RoundsNext == Next \/ NextCall

RoundsSpec == RoundsInit /\ [][RoundsNext]_vars /\ WF_vars(RoundsNext)
-----------------------------------------------------------------------------
(* How far the ageing of every ready task reaches: the steps from the      *)
(* least of the static priorities up to MAX_PRIO.                          *)
Reach(m) ==
  \A i \in DOMAIN ready : static_prio[ready[i]] - MAX_PRIO >= m

Chosen(t) == returned /\ ready[choosen_task] = t

(* No task starves while there are at most m + 1 of them and each can age  *)
(* m steps: 21 tasks at the default priority.                              *)
EveryoneRuns ==
  \A t \in Tasks :
    ((\E i \in DOMAIN ready : ready[i] = t) /\ Reach(Len(ready) - 1)) ~> Chosen(t)

(* The other half: of tasks at one priority that can age m steps, only the *)
(* first m + 1 of the queue ever run.  Those behind reach MAX_PRIO too,    *)
(* but somebody before them is always there as well and wins the tie.      *)
BeyondReachStarves ==
  \A p \in Prios : \A i \in DOMAIN ready :
    /\ p >= MAX_PRIO
    /\ \A j \in DOMAIN ready : static_prio[ready[j]] = p
    /\ i - 1 > p - MAX_PRIO
    => ~Chosen(ready[i])
=============================================================================
