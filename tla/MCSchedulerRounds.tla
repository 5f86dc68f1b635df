------------------------- MODULE MCSchedulerRounds --------------------------
(* Queues of up to five tasks with mixed priorities, two of which are too  *)
(* near to the floor for five tasks.                                       *)
EXTENDS SchedulerRounds

MCTasks == 1..5
MCFloor == -4
MCPrios == {-4, -3, -1, 0}
=============================================================================
