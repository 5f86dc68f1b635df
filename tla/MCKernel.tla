------------------------------ MODULE MCKernel ------------------------------
(* Task management, sleeping and preemption: three tasks that create, join *)
(* (each other, themselves), sleep, exit, yield and change priorities, a   *)
(* quantum of two ticks, room to age two steps, and a clock that wraps     *)
(* while tasks sleep and while the dispatcher walks their queue.           *)
EXTENDS Kernel, TLC

MCFloor == -2
MCPrios == {-1}
MCCalls == {"task_create", "task_exit", "task_yield", "task_setprio",
            "task_join", "task_sleep"}
Perms == Permutations(Tasks \ {Main})
=============================================================================
