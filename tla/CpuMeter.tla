------------------------------ MODULE CpuMeter ------------------------------
(***************************************************************************)
(* What the accounting of the kernel amounts to: a meter on every task,    *)
(* the dispatcher included, that a tick of the clock advances by one while *)
(* it is on.  Some meter is always on, so that no tick is lost.            *)
(***************************************************************************)
EXTENDS Naturals

CONSTANTS
  Who,     \* all who are charged
  First,   \* the one whose meter is on at first
  Mod,     \* the times are unsigned int
  Turns    \* and so are the numbers of turns

VARIABLES
  on,        \* whose meter runs
  lived,     \* ticks since the task was created: the execution time
  charged,   \* ticks while its meter was on: the processor time
  turns      \* how often its meter was switched on: the activations

vars == << on, lived, charged, turns >>

Init ==
  /\ on = {First}
  /\ lived = [w \in Who |-> 0] /\ charged = [w \in Who |-> 0]
  /\ turns = [w \in Who |-> IF w = First THEN 1 % Turns ELSE 0]

Tick ==
  /\ on # {}
  /\ lived' = [w \in Who |-> (lived[w] + 1) % Mod]
  /\ charged' = [w \in Who |-> IF w \in on THEN (charged[w] + 1) % Mod
                               ELSE charged[w]]
  /\ UNCHANGED << on, turns >>

SwitchOn(w) ==
  /\ w \notin on /\ on' = on \cup {w}
  /\ turns' = [turns EXCEPT ![w] = (@ + 1) % Turns]
  /\ UNCHANGED << lived, charged >>

SwitchOff(w) ==
  /\ w \in on /\ on' = on \ {w} /\ UNCHANGED << lived, charged, turns >>

(* A descriptor is used for a new task. *)
Reset(w) ==
  /\ w \notin on
  /\ lived' = [lived EXCEPT ![w] = 0]
  /\ charged' = [charged EXCEPT ![w] = 0]
  /\ turns' = [turns EXCEPT ![w] = 0]
  /\ UNCHANGED on

Next == Tick \/ \E w \in Who : SwitchOn(w) \/ SwitchOff(w) \/ Reset(w)

Spec == Init /\ [][Next]_vars
=============================================================================
