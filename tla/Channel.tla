------------------------------ MODULE Channel -------------------------------
(***************************************************************************)
(* What a message queue of ppos_ipc.c promises: a bounded channel.  A      *)
(* message sent is received once, by one task, in the order of sending;    *)
(* closing the channel loses what is in it.                                *)
(***************************************************************************)
EXTENDS Naturals, Sequences

CONSTANTS Tasks, Msgs, Capacity, NoMsg

VARIABLES
  chan,   \* the messages sent and not yet received
  open,
  item    \* the message in the hands of each task: *msg

vars == << chan, open, item >>

Init == chan = << >> /\ open = FALSE /\ item = [t \in Tasks |-> NoMsg]

Open == ~open /\ open' = TRUE /\ UNCHANGED << chan, item >>

(* A task's own variable is its own business. *)
Prepare ==
  /\ \E t \in Tasks, m \in Msgs \cup {NoMsg} : item' = [item EXCEPT ![t] = m]
  /\ UNCHANGED << chan, open >>

Send(t) ==
  /\ open /\ Len(chan) < Capacity
  /\ item[t] \in Msgs /\ chan' = Append(chan, item[t])
  /\ UNCHANGED << open, item >>

(* The receiver holds the message that leaves the channel. *)
Receive(t) ==
  /\ open /\ chan # << >>
  /\ item[t] = Head(chan) /\ chan' = Tail(chan)
  /\ UNCHANGED << open, item >>

Close == open /\ open' = FALSE /\ chan' = << >> /\ UNCHANGED item

Next == Open \/ Prepare \/ Close \/ \E t \in Tasks : Send(t) \/ Receive(t)

Spec == Init /\ [][Next]_vars
=============================================================================
