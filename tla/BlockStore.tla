----------------------------- MODULE BlockStore ------------------------------
(***************************************************************************)
(* What disk_block_read and disk_block_write promise: a store of blocks    *)
(* whose operations are carried out one at a time, each exactly once, in   *)
(* the order they were asked for, and each before it returns to its task.  *)
(***************************************************************************)
EXTENDS Naturals, Sequences

CONSTANTS Tasks, Blocks, Buffers

VARIABLES
  store,     \* the contents of the blocks
  memory,
  line,      \* operations asked for, not carried out yet
  served     \* tasks whose operation is done and has not returned

vars == << store, memory, line, served >>

Operations ==
  [requester : Tasks, op_type : {"READ", "WRITE"}, block : Blocks, buffer : Buffers]

Init == line = << >> /\ served = {}

Idle(t) == t \notin served /\ \A i \in DOMAIN line : line[i].requester # t

Ask ==
  /\ \E r \in Operations : Idle(r.requester) /\ line' = Append(line, r)
  /\ UNCHANGED << store, memory, served >>

Read(r) ==
  /\ r.op_type = "READ"
  /\ memory' = [memory EXCEPT ![r.buffer] = store[r.block]] /\ UNCHANGED store

Write(r) ==
  /\ r.op_type = "WRITE"
  /\ store' = [store EXCEPT ![r.block] = memory[r.buffer]] /\ UNCHANGED memory

Serve ==
  /\ line # << >>
  /\ Read(Head(line)) \/ Write(Head(line))
  /\ line' = Tail(line)
  /\ served' = served \cup {Head(line).requester}

Return ==
  /\ \E t \in served : served' = served \ {t}
  /\ UNCHANGED << store, memory, line >>

Next == Ask \/ Serve \/ Return

Spec == Init /\ [][Next]_vars
=============================================================================
