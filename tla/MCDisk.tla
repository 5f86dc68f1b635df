------------------------------- MODULE MCDisk -------------------------------
(* A mover that swaps the two blocks of a disk, and a task that asks for a *)
(* block behind the end of it and then for the first.                      *)
EXTENDS DiskMovers, TLC

CONSTANTS a, b

MCFloor == -1
MCCalls == {"task_create", "task_exit", "task_yield", "task_join", "sem_down",
            "sem_up"}
MCMovers == << a, b >>
MCBuffers == {M!buffer1(0), M!buffer2(0), M!buffer1(1)}
MCProgram ==
  a :> M!moverBody(0)
  @@ b :> << M!disk_block_read(2, M!buffer1(1)), M!disk_block_read(0, M!buffer1(1)) >>

\* Bounds: on the kinds of race in one execution, and on the operations of
\* the mover up to which one with the race "handler" is followed.
MaxRaces   == 1
MaxHandled == 2

FewRaces ==
  /\ ~torn /\ Cardinality(races) <= MaxRaces
  /\ "handler" \in races => at[a] <= MaxHandled
=============================================================================
