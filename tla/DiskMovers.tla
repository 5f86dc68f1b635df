----------------------------- MODULE DiskMovers -----------------------------
(***************************************************************************)
(* pingpong-disco2.c as a program of the disk manager: its NUMTASKS movers *)
(* are the first of the clients; any others only read, into buffers of     *)
(* their own.                                                              *)
(***************************************************************************)
EXTENDS DiskManager

CONSTANT NUMTASKS

M == INSTANCE Movers WITH numblocks <- NumBlocks

\* The last clause: the shares of the movers cover all but a middle block.
ASSUME MoversAssumption ==
  /\ NUMTASKS \in 1..Len(mover)
  /\ \A n \in 0..(NUMTASKS - 1) : Program[mover[n + 1]] = M!moverBody(n)
  /\ \A i \in (NUMTASKS + 1)..Len(mover) : \A k \in DOMAIN Program[mover[i]] :
       /\ Program[mover[i]][k].op_type = "READ"
       /\ \A n \in 0..(NUMTASKS - 1) :
            Program[mover[i]][k].buffer \notin {M!buffer1(n), M!buffer2(n)}
  /\ NumBlocks - 2 * (NUMTASKS * M!blocksPerTask) \in {0, 1}

(* When the movers have ended, every block holds what was at the other end *)
(* of the disk, however their requests and those of others interleave,     *)
(* unless a race has had an operation carried out twice.                   *)
ReversesDisk ==
  Intact /\ dpc = "halted" => \A i \in Blocks : contents[i] = NumBlocks - 1 - i
=============================================================================
