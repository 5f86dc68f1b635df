----------------------------- MODULE Semaphore ------------------------------
(***************************************************************************)
(* What a semaphore of ppos_ipc.c promises to the tasks: units that are    *)
(* handed out one at a time, tasks served in the order they came, and a    *)
(* destruction that releases everybody at once.  Nothing is said of the    *)
(* signed counter the code encodes both units and waiters in.              *)
(***************************************************************************)
EXTENDS Naturals, Sequences

CONSTANTS Tasks, SemValues

VARIABLES
  permits,    \* units free to take
  waiting,    \* the tasks blocked in sem_down, first come first
  destroyed

vars == << permits, waiting, destroyed >>

Init == permits = 0 /\ waiting = << >> /\ destroyed = FALSE

Create ==
  /\ waiting = << >>
  /\ permits' \in SemValues /\ destroyed' = FALSE /\ UNCHANGED waiting

Take ==
  /\ ~destroyed /\ permits > 0
  /\ permits' = permits - 1 /\ UNCHANGED << waiting, destroyed >>

Wait ==
  /\ ~destroyed /\ permits = 0
  /\ \E t \in Tasks : waiting' = Append(waiting, t)
  /\ UNCHANGED << permits, destroyed >>

(* A unit given back goes straight to the first waiter, so nobody can      *)
(* overtake it.                                                            *)
HandOver ==
  /\ ~destroyed /\ waiting # << >>
  /\ waiting' = Tail(waiting) /\ UNCHANGED << permits, destroyed >>

GiveBack ==
  /\ ~destroyed /\ waiting = << >>
  /\ permits' = permits + 1 /\ UNCHANGED << waiting, destroyed >>

Destroy ==
  /\ ~destroyed
  /\ destroyed' = TRUE /\ waiting' = << >> /\ UNCHANGED permits

Next == Create \/ Take \/ Wait \/ HandOver \/ GiveBack \/ Destroy

Spec == Init /\ [][Next]_vars
=============================================================================
