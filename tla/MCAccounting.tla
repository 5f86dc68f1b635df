---------------------------- MODULE MCAccounting ----------------------------
(* Two tasks, one descriptor used again and again, a quantum of two ticks  *)
(* and a clock that wraps.                                                 *)
EXTENDS Accounting

MCFloor == -1
MCCalls == {"task_create", "task_exit", "task_yield", "task_join"}
=============================================================================
