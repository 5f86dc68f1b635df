----------------------------- MODULE Scheduler ------------------------------
(***************************************************************************)
(* scheduler() of ppos_core.c as a relation: which task of the ready queue *)
(* it returns and what it does to the dynamic priorities.  A smaller       *)
(* number is a higher priority.  SchedulerLoop models the loop itself and  *)
(* shows that it computes this relation.                                   *)
(***************************************************************************)
EXTENDS Integers, Sequences

CONSTANT MAX_PRIO   \* -20 in ppos_data.h

ASSUME PrioAssumption == MAX_PRIO \in Int

ALPHA == -1

(* The task at position i has the best dynamic priority, and every task    *)
(* before it in the queue a worse one.                                     *)
IsChoice(ready, dynam, i) ==
  \A j \in DOMAIN ready :
    /\ dynam[ready[i]] <= dynam[ready[j]]
    /\ j < i => dynam[ready[i]] < dynam[ready[j]]

\* Broken variant: a task passed over without being displaced keeps its age.
AgedNever(ready, dynam, static, i) == [dynam EXCEPT ![ready[i]] = static[ready[i]]]

(* The chosen task returns to its static priority; the others grow one     *)
(* step older, down to MAX_PRIO.                                           *)
Aged(ready, dynam, static, i) ==
  [t \in DOMAIN dynam |->
     IF t = ready[i] THEN static[t]
     ELSE IF dynam[t] > MAX_PRIO /\ \E j \in DOMAIN ready : ready[j] = t
          THEN dynam[t] + ALPHA
          ELSE dynam[t]]
=============================================================================
