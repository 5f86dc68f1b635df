----------------------------- MODULE VirtualDisk -----------------------------
(***************************************************************************)
(* The simulated hard disk of disk.c: one operation at a time, scheduled   *)
(* by disk_cmd, carried out when a one-shot timer goes off.  What a block  *)
(* or a buffer holds is named after the block it came from; how long an    *)
(* operation takes is left open.                                           *)
(***************************************************************************)
EXTENDS Integers

CONSTANTS
  NumBlocks,   \* size of the file disk.dat, in blocks
  Buffers      \* the memory of the programs, in pieces of a block

ASSUME DiskAssumption == NumBlocks \in Nat /\ Buffers # {}

Blocks == 0..(NumBlocks - 1)

Status == {"UNKNOWN", "IDLE", "READ", "WRITE"}

NoData == -1   \* memory that no block was read into

VARIABLES
  status,              \* disk.status
  next_block, buffer,  \* the operation scheduled last
  armed,               \* the timer is set
  contents,            \* the file
  memory

pending == << status, next_block, buffer, armed >>
device  == << pending, contents, memory >>

DiskInit ==
  /\ status = "UNKNOWN" /\ next_block = 0
  /\ buffer = CHOOSE b \in Buffers : TRUE
  /\ armed = FALSE
  /\ contents = [b \in Blocks |-> b]
  /\ memory = [b \in Buffers |-> NoData]

(* DISK_CMD_INIT and disk_init.  The file keeps what it holds. *)
disk_init ==
  /\ status = "UNKNOWN" /\ status' = "IDLE"
  /\ next_block' = 0
  /\ UNCHANGED << buffer, armed, contents, memory >>

(* DISK_CMD_DISKSIZE. *)
disk_size == IF status = "UNKNOWN" THEN -1 ELSE NumBlocks

(* The tests of disk_cmd before it schedules a transfer. *)
Accepts(block) == status = "IDLE" /\ block \in Blocks

(* The timer goes off once, 30 to 326 ms later, with SIGIO. *)
disk_settimer == armed' = TRUE

(* DISK_CMD_READ and DISK_CMD_WRITE; a refused command changes nothing. *)
disk_cmd(op, block, b) ==
  /\ IF Accepts(block)
     THEN status' = op /\ next_block' = block /\ buffer' = b /\ disk_settimer
     ELSE UNCHANGED pending
  /\ UNCHANGED << contents, memory >>

(* disk_sighandle up to its raise(SIGUSR1): the pending operation is       *)
(* carried out.  The timer is only set together with READ or WRITE.        *)
disk_sighandle ==
  /\ armed /\ armed' = FALSE
  /\ \/ /\ status = "READ"
        /\ memory' = [memory EXCEPT ![buffer] = contents[next_block]]
        /\ UNCHANGED contents
     \/ /\ status = "WRITE"
        /\ contents' = [contents EXCEPT ![next_block] = memory[buffer]]
        /\ UNCHANGED memory
  /\ status' = "IDLE"
  /\ UNCHANGED << next_block, buffer >>
=============================================================================
