---------------------------- MODULE MCKernelSems ----------------------------
(* Semaphores: three tasks, two semaphores that are created again after    *)
(* their destruction, calls with NULL and calls on destroyed semaphores, a *)
(* quantum of two ticks, and ageing that reaches as far as three tasks     *)
(* need.  MCLockCalls leaves the calls with NULL out.                      *)
EXTENDS Kernel, TLC

MCFloor == -2
MCCalls == {"task_create", "task_exit", "sem_create", "sem_down", "sem_up",
            "sem_destroy", "NULL"}
MCLockCalls == MCCalls \ {"NULL"}
Perms == Permutations(Tasks \ {Main}) \cup Permutations(Sems)
=============================================================================
