------------------------------ MODULE MCMQueue ------------------------------
(* Message queues.  MCTransfers: any of three tasks sends and receives.    *)
(* MCMainDestroys: main_task destroys the queue the other two are using.   *)
EXTENDS MQueue, TLC

MCFloor == -1
MCFloorLow == -2
MCCalls == {"task_create", "task_exit", "sem_create", "sem_down", "sem_up",
            "sem_destroy", "NULL"}
MCDestroyCalls == MCCalls \ {"task_exit"}
MCTransfers == [t \in Tasks |-> {"send", "recv"}]
MCMainDestroys ==
  [t \in Tasks |-> IF t = Main THEN {"destroy"} ELSE {"send", "recv"}]
Perms == Permutations(Tasks \ {Main}) \cup Permutations(Msgs)
=============================================================================
