--------------------------- MODULE MCDiskReturns ----------------------------
(* One task that reads one block. *)
EXTENDS DiskManager, TLC

CONSTANT a

MCFloor == -1
MCCalls == {"task_create", "task_exit", "task_yield", "task_join", "sem_down",
            "sem_up"}
MCReader  == << a >>
MCProgram == a :> << [op_type |-> "READ", block |-> 0, buffer |-> 1] >>

\* Constraint: of the lost wake-ups, the one of the requester.
OnlyRequester == ~torn /\ races \subseteq {"requester"}
=============================================================================
